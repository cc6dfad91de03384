---------------------------- MODULE MCMarketData ----------------------------
(***************************************************************************)
(* MarketData for TLC: tokens 1 to 3 in a range of 16 addresses, amounts   *)
(* in a range of 1024, offsets in one of 512.  Item by item the calldata   *)
(* below is what the parser tells apart: both kinds of V2 call with paths  *)
(* of two and three tokens, V3 calls, calls with bytes behind them; and    *)
(* what is no swap: a call cut short, a path of one token, a path longer   *)
(* than the calldata, one whose last token is at 196 + 16 * 32 = 708 and   *)
(* read at 196, one whose last token ends at 516 and is cut out up to 4,   *)
(* one whose length is cut to 2, another function, and a transaction       *)
(* without calldata.                                                       *)
(***************************************************************************)
EXTENDS MarketData

V2(selector, amount, path) ==
  [selector |-> selector, from |-> 9, amount |-> amount, limit |-> 0,
   path |-> path, to |-> 9, deadline |-> 120]

V3(amount, token_in, token_out) ==
  [selector |-> "exactInputSingle", from |-> 9, token_in |-> token_in,
   token_out |-> token_out, fee |-> 30, to |-> 9, deadline |-> 120,
   amount |-> amount, limit |-> 0, price_limit |-> 0]

ItemV2(call) == [tx |-> EncodeV2(call), swap |-> SwapOfV2(call)]
ItemV3(call) == [tx |-> EncodeV3(call), swap |-> SwapOfV3(call)]
NotASwap(tx) == [tx |-> tx, swap |-> NoSwap]

Direct == V2("swapExactTokensForTokens", 5, <<1, 2>>)
Routed == V2("swapTokensForExactTokens", 7, <<1, 3, 2>>)
Single == V3(6, 1, 2)
Backward == V3(8, 2, 1)

\* Bytes behind the arguments are nobody's business.
Trailing(item) == [item EXCEPT !.tx.rest = 31]

WithoutLastWord(tx) ==
  [tx EXCEPT !.words = SubSeq(@, 1, Len(@) - 1), !.rest = 31]

\* The direct call with another number of tokens declared.
Declaring(path_len) == [EncodeV2(Direct) EXCEPT !.words[6] = path_len]

Noise ==
  {NotASwap(WithoutLastWord(EncodeV2(Direct))),
   NotASwap(WithoutLastWord(EncodeV2(Routed))),
   NotASwap(WithoutLastWord(EncodeV3(Single))),
   NotASwap([EncodeV2(V2("swapExactTokensForTokens", 5, <<1>>)) EXCEPT
               !.words = Append(@, 2)]),
   NotASwap([EncodeV2(Direct) EXCEPT !.selector = "transfer"]),
   NotASwap([EncodeV2(Direct) EXCEPT !.selector = NoSelector, !.words = << >>,
                                     !.rest = 3]),
   NotASwap(Declaring(17)), NotASwap(Declaring(10)),
   NotASwap(Declaring(UsizeRange + 2)),
   NotASwap(Error)}

Swaps ==
  {ItemV2(Direct), ItemV2(Routed), ItemV3(Single), ItemV3(Backward),
   Trailing(ItemV2(Routed))}

MCStreams ==
  {<< >>} \cup {<<a>> : a \in Swaps \cup Noise}
    \cup {<<ItemV2(Direct), a>> : a \in {ItemV2(Routed), ItemV3(Single)}}
    \cup {<<a, ItemV3(Single)>> : a \in Noise}

Quote(dex, price) ==
  [pair |-> [token_a |-> 1, token_b |-> 2, dex |-> dex], price |-> price]

\* 1000 against 1005 is at the threshold, 1005 against 1006 below it.
MCQuotes == {Quote(dex, price) : dex \in Dexes, price \in {0, 1000, 1005, 1006}}

=============================================================================
