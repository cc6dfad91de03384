------------------------------ MODULE RiskRules ------------------------------
(***************************************************************************)
(* The validation rules of the risk agent (crates/risk-agent/src/rules.rs) *)
(* and the order RiskAgent::validate applies them in.                      *)
(*                                                                         *)
(* Amounts are naturals in one unit: the f64 arithmetic of the code is     *)
(* exact here, and a string that does not parse is the amount 0, which is  *)
(* what unwrap_or(0.0) makes of it.                                        *)
(***************************************************************************)
EXTENDS Naturals

CONSTANTS
  MaxPosition,      \* max_position_size_eth
  MaxSlippageBps,   \* max_slippage_bps
  MaxGasPrice,      \* max_gas_price_gwei
  DailyLossLimit,   \* daily_loss_limit_eth
  Tokens,           \* token addresses
  NoGasPrice,       \* the None of max_gas_price_gwei
  NoIntent          \* the None of an optional TradeIntent

\* The fields of a TradeIntent that some component reads.
TradeIntent ==
  [token_in : Tokens, token_out : Tokens, amount : Nat, min_out : Nat,
   deadline : Nat, gas_price : Nat \cup {NoGasPrice}]

ASSUME RiskAssumption ==
  /\ MaxPosition \in Nat
  /\ MaxSlippageBps \in Nat
  /\ MaxGasPrice \in Nat
  /\ DailyLossLimit \in Nat
  /\ NoGasPrice \notin Nat
  /\ NoIntent \notin TradeIntent

CheckSanity(intent) ==
  /\ intent.amount > 0
  /\ intent.deadline > 0
  /\ intent.token_in # intent.token_out

\* Mutant: the position is compared before the trade is added to it.
CheckExposureLimitBefore(intent, exposure) == exposure <= MaxPosition

CheckExposureLimit(intent, exposure) == exposure + intent.amount <= MaxPosition

\* The cast to u64 truncates, and turns a negative slippage into 0.
SlippageBps(intent) ==
  IF intent.min_out >= intent.amount
  THEN 0
  ELSE ((intent.amount - intent.min_out) * 10000) \div intent.amount

CheckSlippage(intent) ==
  intent.amount > 0 => SlippageBps(intent) <= MaxSlippageBps

\* Mutant: an intent with a gas price passes.
CheckGasPriceIfNone(intent) == TRUE

CheckGasPrice(intent) ==
  intent.gas_price # NoGasPrice => intent.gas_price <= MaxGasPrice

CheckDailyLossLimit(loss) == loss < DailyLossLimit

Validate(intent, exposure, loss) ==
  /\ CheckSanity(intent)
  /\ CheckExposureLimit(intent, exposure)
  /\ CheckSlippage(intent)
  /\ CheckGasPrice(intent)
  /\ CheckDailyLossLimit(loss)

=============================================================================
