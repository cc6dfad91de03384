-------------------------- MODULE MCTradingPipeline --------------------------
(***************************************************************************)
(* TradingPipeline for TLC: the limits of the risk agent and the answers   *)
(* of the strategies.  The limits are small enough for two trades to fill  *)
(* the position; each intent below is refused by a different rule.         *)
(***************************************************************************)
EXTENDS TradingPipeline, ArbitrageStrategy

Sound(amount) ==
  [token_in |-> "weth", token_out |-> "usdc", amount |-> amount,
   min_out |-> amount, deadline |-> 120, gas_price |-> NoGasPrice]

Priced == [Sound(3) EXCEPT !.gas_price = MaxGasPrice]
SameToken == [Sound(2) EXCEPT !.token_out = "weth"]
Slipping == [Sound(2) EXCEPT !.min_out = 1]
Expensive == [Sound(2) EXCEPT !.gas_price = MaxGasPrice + 1]

\* A strategy that answers a signal with any of a set of intents, or not.
AnyOf(intents) == [signal \in Signals |-> intents \cup {NoIntent}]

\* The strategy the orchestrator installs.
ArbitrageAnswers == [signal \in Signals |-> {ArbitrageEvaluate(signal)}]

\* A strategy that follows the signals of one type and no others.
Follower(type) ==
  [signal \in Signals |->
     {IF signal.type = type THEN Sound(2) ELSE NoIntent}]

OneStrategy == <<AnyOf({Sound(2), Priced, SameToken, Slipping, Expensive})>>
EagerStrategy == <<Follower("LargeSwap")>>
EagerPair == <<Follower("LargeSwap"), Follower("LargeSwap")>>
WiredStrategy == <<ArbitrageAnswers>>

=============================================================================
