---------------------------- MODULE PriceTracker ----------------------------
(***************************************************************************)
(* The price tracker of the market data agent                              *)
(* (crates/market-data-agent/src/price_tracker.rs): the latest price of    *)
(* each token pair on each exchange, and the comparison of two of them.    *)
(* Prices are naturals in one unit, so that the comparison is exact.       *)
(*                                                                         *)
(* A pair is ordered: a quote for tokens a, b says nothing of b, a.        *)
(***************************************************************************)
EXTENDS Integers

VARIABLE prices   \* the HashMap, from [token_a, token_b, dex] to prices

NoSpread == -1

PairOn(swap, dex) ==
  [token_a |-> swap.token_in, token_b |-> swap.token_out, dex |-> dex]

\* PriceTracker::update_price.
UpdatePrice(pair, price) ==
  prices' = [p \in DOMAIN prices \cup {pair} |->
               IF p = pair THEN price ELSE prices[p]]

\* Mutant: a spread at the threshold counts.
AtThreshold(spread, threshold_bps, low) == spread * 10000 >= threshold_bps * low

AboveThreshold(spread, threshold_bps, low) ==
  spread * 10000 > threshold_bps * low

\* PriceTracker::detect_divergence: the spread in whole basis points.
DetectDivergence(swap, dex_a, dex_b, threshold_bps) ==
  LET pair_a == PairOn(swap, dex_a)
      pair_b == PairOn(swap, dex_b)
      price_a == prices[pair_a]
      price_b == prices[pair_b]
      low == IF price_a <= price_b THEN price_a ELSE price_b
      spread == price_a + price_b - 2 * low
  IN IF /\ {pair_a, pair_b} \subseteq DOMAIN prices
        /\ low > 0
        /\ AboveThreshold(spread, threshold_bps, low)
     THEN (spread * 10000) \div low
     ELSE NoSpread

=============================================================================
