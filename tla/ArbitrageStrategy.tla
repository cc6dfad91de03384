-------------------------- MODULE ArbitrageStrategy --------------------------
(***************************************************************************)
(* The one strategy the orchestrator installs                              *)
(* (crates/strategy-agent/src/strategies/arbitrage.rs): a pure function of *)
(* the market signal it is given.                                          *)
(***************************************************************************)
EXTENDS RiskRules

CONSTANTS
  MinProfitBps,    \* min_profit_bps
  MaxTradeSize,    \* max_trade_size_eth
  ZeroAddress      \* Address::zero()

ASSUME ArbitrageAssumption ==
  /\ MinProfitBps \in Nat
  /\ MaxTradeSize \in Nat
  /\ ZeroAddress \in Tokens

\* The float is negative above 100 per cent, and the cast makes that 0.
MinAmountOut(spread) ==
  IF spread > 10000 THEN 0 ELSE (MaxTradeSize * (10000 - spread)) \div 10000

ArbitrageEvaluate(signal) ==
  IF signal.type = "PriceDivergence" /\ signal.spread >= MinProfitBps
  THEN [token_in |-> ZeroAddress, token_out |-> ZeroAddress,
        amount |-> MaxTradeSize, min_out |-> MinAmountOut(signal.spread),
        deadline |-> 120, gas_price |-> NoGasPrice]
  ELSE NoIntent

=============================================================================
