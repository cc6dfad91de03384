------------------------------ MODULE TxParser ------------------------------
(***************************************************************************)
(* TxParser::parse_swap (crates/market-data-agent/src/parser.rs), which    *)
(* reads a swap out of the calldata of a pending transaction, and the ABI  *)
(* encoding it is meant to undo.                                           *)
(*                                                                         *)
(* Calldata is a selector, whole 32-byte words and a rest of fewer bytes.  *)
(* Words are naturals; where the code keeps the last bytes of a word only, *)
(* as an address or a u128, the model takes the remainder.  Offsets are    *)
(* usizes: a build without overflow checks (the release profile) takes     *)
(* them modulo UsizeRange, one with them panics where OffsetOverflows.     *)
(***************************************************************************)
EXTENDS Integers, Sequences

CONSTANTS
  AddressRange,   \* 2^160, the range of an address
  AmountRange,    \* 2^128, the range of a u128
  UsizeRange      \* 2^64, the range of a usize

ASSUME ParserAssumption ==
  /\ AddressRange \in Nat \ {0}
  /\ AmountRange \in Nat /\ AmountRange >= UsizeRange
  /\ UsizeRange \in Nat /\ UsizeRange >= 512 /\ UsizeRange % 32 = 0

V2Selectors == {"swapExactTokensForTokens", "swapTokensForExactTokens"}
V3Selectors == {"exactInputSingle"}

\* A transaction of fewer than 4 bytes has no selector.
NoSelector == "none"

RawTransaction ==
  [from : Nat, selector : STRING, words : Seq(Nat), rest : 0 .. 31]

InputLen(tx) ==
  IF tx.selector = NoSelector THEN tx.rest ELSE 4 + 32 * Len(tx.words) + tx.rest

\* input[offset .. offset + 32], for the offsets the code reads.
WordAt(tx, offset) == tx.words[((offset - 4) \div 32) + 1]

AddressFromWord(word) == word % AddressRange
U128FromWord(word) == word % AmountRange

NoSwap == [dex |-> "none"]

\* Eight words: the least a V2 swap of two tokens and a V3 swap can have.
MinInputLen == 260

\* The number of tokens the calldata declares, and what the code reads of it.
DeclaredLen(tx) == WordAt(tx, 164)

PathLen(tx) == U128FromWord(DeclaredLen(tx)) % UsizeRange

\* Mutant: path[1] for the last token of the path.
SecondTokenOffset(path_len) == 196 + 32

LastTokenOffset(path_len) == (196 + (path_len - 1) * 32) % UsizeRange

LastTokenEnd(path_len) == (LastTokenOffset(path_len) + 32) % UsizeRange

ParseUniV2Swap(tx) ==
  IF \/ InputLen(tx) < MinInputLen
     \/ PathLen(tx) < 2
     \/ InputLen(tx) < LastTokenEnd(PathLen(tx))
  THEN NoSwap
  ELSE [dex |-> "UniswapV2",
        token_in |-> AddressFromWord(WordAt(tx, 196)),
        token_out |-> AddressFromWord(WordAt(tx, LastTokenOffset(PathLen(tx)))),
        amount |-> U128FromWord(WordAt(tx, 4)),
        sender |-> tx.from]

ParseUniV3ExactInputSingle(tx) ==
  IF InputLen(tx) < MinInputLen
  THEN NoSwap
  ELSE [dex |-> "UniswapV3",
        token_in |-> AddressFromWord(WordAt(tx, 4)),
        token_out |-> AddressFromWord(WordAt(tx, 36)),
        amount |-> U128FromWord(WordAt(tx, 164)),
        sender |-> tx.from]

ParseSwap(tx) ==
  CASE tx.selector \in V2Selectors -> ParseUniV2Swap(tx)
    [] tx.selector \in V3Selectors -> ParseUniV3ExactInputSingle(tx)
    [] OTHER -> NoSwap

\* parse_uni_v2_swap gets as far as the offset of the last token.
ReadsPath(tx) ==
  /\ tx.selector \in V2Selectors
  /\ ~(InputLen(tx) < MinInputLen)
  /\ ~(PathLen(tx) < 2)

\* The offset of the last token or of its end is no usize: a build with
\* overflow checks panics.
OffsetOverflows(tx) == ReadsPath(tx) /\ 196 + PathLen(tx) * 32 >= UsizeRange

\* The last token starts behind its wrapped end: slicing panics in any build.
SlicePanics(tx) ==
  /\ ReadsPath(tx)
  /\ ~(InputLen(tx) < LastTokenEnd(PathLen(tx)))
  /\ LastTokenEnd(PathLen(tx)) < LastTokenOffset(PathLen(tx))

-----------------------------------------------------------------------------
\* The calls the routers take, and how the ABI lays them out.

Address == 0 .. AddressRange - 1
Amount == 0 .. AmountRange - 1

V2Call ==
  [selector : V2Selectors, from : Nat, amount : Amount, limit : Nat,
   path : Seq(Address), to : Nat, deadline : Nat]

V3Call ==
  [selector : V3Selectors, from : Nat, token_in : Address,
   token_out : Address, fee : Nat, to : Nat, deadline : Nat, amount : Amount,
   limit : Nat, price_limit : Nat]

EncodeV2(call) ==
  [from |-> call.from, selector |-> call.selector, rest |-> 0,
   words |-> <<call.amount, call.limit, 160, call.to, call.deadline,
               Len(call.path)>> \o call.path]

EncodeV3(call) ==
  [from |-> call.from, selector |-> call.selector, rest |-> 0,
   words |-> <<call.token_in, call.token_out, call.fee, call.to,
               call.deadline, call.amount, call.limit, call.price_limit>>]

\* Calldata that declares a longer path than any calldata in memory has.
DeclaresTooMany(tx) ==
  /\ tx.selector \in V2Selectors
  /\ ~(InputLen(tx) < MinInputLen)
  /\ 196 + 32 * DeclaredLen(tx) >= UsizeRange

\* What each call swaps.
SwapOfV2(call) ==
  [dex |-> "UniswapV2", token_in |-> call.path[1],
   token_out |-> call.path[Len(call.path)], amount |-> call.amount,
   sender |-> call.from]

SwapOfV3(call) ==
  [dex |-> "UniswapV3", token_in |-> call.token_in,
   token_out |-> call.token_out, amount |-> call.amount,
   sender |-> call.from]

=============================================================================
