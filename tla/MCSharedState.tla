---------------------------- MODULE MCSharedState ----------------------------
(***************************************************************************)
(* The intents SharedState is checked with: two sizes, of which the limit  *)
(* takes one of each, and one that a later rule refuses.                   *)
(***************************************************************************)
EXTENDS SharedState

Buy(amount) ==
  [token_in |-> "weth", token_out |-> "usdc", amount |-> amount,
   min_out |-> amount, deadline |-> 120, gas_price |-> NoGasPrice]

MCIntents == {Buy(1), Buy(2), [Buy(2) EXCEPT !.gas_price = MaxGasPrice + 1]}

=============================================================================
