--------------------------- MODULE MarketDataProofs ---------------------------
(***************************************************************************)
(* Proofs about MarketData and what it is made of: that the parser undoes  *)
(* the ABI encoding of the calls it knows, that the agent signals the      *)
(* swaps that were meant, that its divergences are real and none that      *)
(* lasts is missed, and that it implements the market agent of             *)
(* TradingPipeline.                                                        *)
(***************************************************************************)
EXTENDS MarketData, FiniteSetTheorems, SequenceTheorems, TLAPS

-----------------------------------------------------------------------------
\* The parser undoes the ABI encoding of the calls it knows.

\* A word that fits the range it is cut to is kept (address_from_word and
\* u128_from_be_bytes).
LEMMA SmallRemainder ==
  ASSUME NEW n \in Nat, NEW d \in Nat \ {0}, n < d
  PROVE  n % d = n
OBVIOUS

\* The word that starts i words behind the selector.
LEMMA WordIndex ==
  ASSUME NEW i \in Nat
  PROVE  (((4 + 32 * i) - 4) \div 32) + 1 = i + 1
<1>1. (4 + 32 * i) - 4 = 32 * i
  OBVIOUS
<1>2. (32 * i) \div 32 = i
  OBVIOUS
<1> QED  BY <1>1, <1>2

\* The ranges are as large as the parser needs them.
LEMMA Ranges ==
  /\ AmountRange \in Nat \ {0} /\ UsizeRange \in Nat \ {0}
  /\ AmountRange >= UsizeRange /\ UsizeRange >= 512
  /\ AddressRange \in Nat \ {0}
BY ParserAssumption

\* A declared length whose path memory can hold is read as it is, and the last
\* token is where the ABI puts it.
LEMMA OffsetsThatFit ==
  ASSUME NEW tx, DeclaredLen(tx) \in Nat,
         196 + 32 * DeclaredLen(tx) < UsizeRange
  PROVE  /\ PathLen(tx) = DeclaredLen(tx)
         /\ PathLen(tx) >= 1 =>
              /\ LastTokenOffset(PathLen(tx)) = 164 + 32 * PathLen(tx)
              /\ LastTokenEnd(PathLen(tx)) = 196 + 32 * PathLen(tx)
<1> PICK n \in Nat : n = DeclaredLen(tx)
  OBVIOUS
<1>1. n < UsizeRange /\ n < AmountRange /\ 196 + 32 * n < UsizeRange
  BY Ranges
<1>2. PathLen(tx) = n
  BY <1>1, Ranges, SmallRemainder DEF PathLen, U128FromWord
<1>3. ASSUME n >= 1
      PROVE  /\ LastTokenOffset(n) = 164 + 32 * n
             /\ LastTokenEnd(n) = 196 + 32 * n
  <2>1. /\ 196 + (n - 1) * 32 = 164 + 32 * n /\ 164 + 32 * n \in Nat
        /\ 164 + 32 * n < UsizeRange
        /\ (164 + 32 * n) + 32 = 196 + 32 * n /\ 196 + 32 * n \in Nat
    BY <1>1, <1>3, Ranges
  <2>2. LastTokenOffset(n) = 164 + 32 * n
    BY <2>1, Ranges, SmallRemainder DEF LastTokenOffset
  <2> QED
    BY <2>1, <2>2, <1>1, Ranges, SmallRemainder DEF LastTokenEnd
<1> QED
  BY <1>2, <1>3

\* Input of the minimal length has eight whole words.
LEMMA EightWords ==
  ASSUME NEW k \in Nat, NEW rest \in 0 .. 31, ~(4 + 32 * k + rest < 260)
  PROVE  k >= 8
OBVIOUS

\* A call with more words and bytes behind its arguments.
Followed(tx, more, rest) ==
  [from |-> tx.from, selector |-> tx.selector,
   words |-> tx.words \o more, rest |-> rest]

\* The words of a V2 call: six for the arguments, then the path.
LEMMA V2Words ==
  ASSUME NEW call \in V2Call
  PROVE  LET words == EncodeV2(call).words
             n == Len(call.path)
         IN /\ n \in Nat /\ words \in Seq(Nat) /\ Len(words) = 6 + n
            /\ words[1] = call.amount /\ words[6] = n
            /\ \A i \in 1 .. n : words[6 + i] = call.path[i]
            /\ \A i \in 1 .. n : call.path[i] \in Address
            /\ call.amount \in Amount
<1> DEFINE head == <<call.amount, call.limit, 160, call.to, call.deadline,
                     Len(call.path)>>
           n == Len(call.path)
<1>1. /\ call.path \in Seq(Address) /\ call.amount \in Amount
      /\ call.limit \in Nat /\ call.to \in Nat /\ call.deadline \in Nat
      /\ n \in Nat
  BY DEF V2Call
<1>2. Address \subseteq Nat /\ Amount \subseteq Nat
  BY ParserAssumption DEF Address, Amount
<1>3. head \in Seq(Nat) /\ Len(head) = 6 /\ call.path \in Seq(Nat)
  <2>1. call.path \in Seq(Nat)
    BY <1>1, <1>2, SeqMonotonic
  <2>2. call.amount \in Nat
    BY <1>1, <1>2
  <2> QED  BY <1>1, <2>1, <2>2
<1>4. EncodeV2(call).words = head \o call.path
  BY DEF EncodeV2
<1>5. Len(head \o call.path) = 6 + n /\ head \o call.path \in Seq(Nat)
  BY <1>1, <1>3
<1>6. \A i \in 1 .. 6 : (head \o call.path)[i] = head[i]
  BY <1>1, <1>3
<1>7. \A i \in 1 .. n : (head \o call.path)[6 + i] = call.path[i]
  BY <1>1, <1>3
<1>8. \A i \in 1 .. n : call.path[i] \in Address
  BY <1>1
<1> QED  BY <1>1, <1>4, <1>5, <1>6, <1>7, <1>8

\* What follows a call does not touch its words.
LEMMA MoreWords ==
  ASSUME NEW words \in Seq(Nat), NEW more \in Seq(Nat)
  PROVE  /\ Len(words \o more) = Len(words) + Len(more)
         /\ \A i \in 1 .. Len(words) : (words \o more)[i] = words[i]
<1>1. \A i \in 1 .. Len(words) + Len(more) :
        (words \o more)[i] = IF i <= Len(words) THEN words[i]
                             ELSE more[i - Len(words)]
  BY ConcatProperties
<1>2. Len(words) \in Nat /\ Len(more) \in Nat
  BY LenProperties
<1>3. \A i \in 1 .. Len(words) :
        i \in 1 .. Len(words) + Len(more) /\ i <= Len(words)
  BY <1>2
<1>4. Len(words \o more) = Len(words) + Len(more)
  BY ConcatProperties
<1> QED  BY <1>1, <1>3, <1>4

\* A call declares the length of its path.
LEMMA V2LenDeclared ==
  ASSUME NEW call \in V2Call, NEW more \in Seq(Nat), NEW rest
  PROVE  /\ DeclaredLen(Followed(EncodeV2(call), more, rest)) = Len(call.path)
         /\ Len(call.path) \in Nat
<1> DEFINE tx == Followed(EncodeV2(call), more, rest)
<1>1. PICK words : words = EncodeV2(call).words
  OBVIOUS
<1>2. /\ words \in Seq(Nat) /\ Len(words) = 6 + Len(call.path)
      /\ words[6] = Len(call.path) /\ Len(call.path) \in Nat
  BY <1>1, V2Words
<1>3. tx.words = words \o more
  BY <1>1 DEF Followed
<1> HIDE DEF tx
<1>4. tx.words[6] = Len(call.path)
  <2>1. 6 \in 1 .. Len(words)
    BY <1>2
  <2> QED  BY <1>2, <1>3, <2>1, MoreWords
<1>5. DeclaredLen(tx) = Len(call.path)
  BY <1>4 DEF DeclaredLen, WordAt
<1> QED  BY <1>2, <1>5 DEF tx

\* A known V2 call: every token path of at least two tokens that memory can hold
\* is read back as the swap from its first token to its last, whatever the
\* tokens between them and the bytes behind them are (parser.rs:83).
THEOREM V2CallsAreDecoded ==
  ASSUME NEW call \in V2Call,
         NEW more \in Seq(Nat), NEW rest \in 0 .. 31,
         Len(call.path) >= 2, 196 + 32 * Len(call.path) < UsizeRange
  PROVE  ParseSwap(Followed(EncodeV2(call), more, rest)) = SwapOfV2(call)
<1> DEFINE tx == Followed(EncodeV2(call), more, rest)
           n == Len(call.path)
<1> USE Ranges
<1>1. /\ call.selector \in V2Selectors /\ n \in Nat /\ n >= 2
      /\ Len(more) \in Nat
  BY V2Words DEF V2Call
<1>2. /\ tx.selector = call.selector /\ tx.from = call.from /\ tx.rest = rest
      /\ Len(tx.words) = 6 + n + Len(more)
      /\ tx.words[1] = call.amount /\ tx.words[6] = n
      /\ \A i \in 1 .. n : tx.words[6 + i] = call.path[i]
  <2>1. PICK words : words = EncodeV2(call).words
    OBVIOUS
  <2>2. /\ tx.selector = call.selector /\ tx.from = call.from /\ tx.rest = rest
        /\ tx.words = words \o more
    <3>1. /\ EncodeV2(call).selector = call.selector
          /\ EncodeV2(call).from = call.from
      BY DEF EncodeV2
    <3> QED  BY <2>1, <3>1 DEF Followed
  <2>3. /\ words \in Seq(Nat) /\ Len(words) = 6 + n
        /\ words[1] = call.amount /\ words[6] = n
        /\ \A i \in 1 .. n : words[6 + i] = call.path[i]
    BY <2>1, V2Words
  <2> HIDE DEF tx
  <2>4. /\ Len(tx.words) = 6 + n + Len(more)
        /\ \A i \in 1 .. 6 + n : tx.words[i] = words[i]
    <3>1. /\ Len(words \o more) = Len(words) + Len(more)
          /\ \A i \in 1 .. Len(words) : (words \o more)[i] = words[i]
      BY <2>3, MoreWords
    <3> QED  BY <2>2, <2>3, <3>1
  <2>5. \A i \in 1 .. n : 6 + i \in 1 .. 6 + n
    BY <1>1
  <2>6. 1 \in 1 .. 6 + n /\ 6 \in 1 .. 6 + n
    BY <1>1
  <2> QED  BY <2>2, <2>3, <2>4, <2>5, <2>6
<1>3. /\ tx.selector # NoSelector
      /\ InputLen(tx) = 4 + 32 * (6 + n + Len(more)) + rest
  BY <1>1, <1>2 DEF InputLen, V2Selectors, NoSelector
<1> HIDE DEF tx
<1>4. DeclaredLen(tx) = n
  BY <1>2 DEF DeclaredLen, WordAt
<1>5. /\ PathLen(tx) = n /\ LastTokenEnd(n) = 196 + 32 * n
      /\ LastTokenOffset(n) = 4 + 32 * (5 + n) /\ 5 + n \in Nat
  <2>1. DeclaredLen(tx) \in Nat /\ 196 + 32 * DeclaredLen(tx) < UsizeRange
    BY <1>1, <1>4
  <2>2. /\ PathLen(tx) = n
        /\ LastTokenOffset(n) = 164 + 32 * n /\ LastTokenEnd(n) = 196 + 32 * n
    <3>1. /\ PathLen(tx) = DeclaredLen(tx)
          /\ PathLen(tx) >= 1 =>
               /\ LastTokenOffset(PathLen(tx)) = 164 + 32 * PathLen(tx)
               /\ LastTokenEnd(PathLen(tx)) = 196 + 32 * PathLen(tx)
      BY <2>1, OffsetsThatFit
    <3>2. PathLen(tx) = n
      BY <1>4, <3>1
    <3> HIDE DEF n
    <3>3. n >= 1
      BY <1>1
    <3> QED  BY <3>1, <3>2, <3>3
  <2> QED  BY <1>1, <2>2
<1>6. /\ WordAt(tx, 196) = call.path[1]
      /\ WordAt(tx, LastTokenOffset(n)) = call.path[n]
  <2>1. tx.words[6 + 1] = call.path[1] /\ tx.words[(5 + n) + 1] = call.path[n]
    <3>1. (5 + n) + 1 = 6 + n /\ 1 \in 1 .. n /\ n \in 1 .. n
      BY <1>1
    <3> QED  BY <3>1, <1>2
  <2>2. WordAt(tx, 196) = tx.words[6 + 1]
    BY DEF WordAt
  <2>3. WordAt(tx, LastTokenOffset(n)) = tx.words[(5 + n) + 1]
    BY <1>5, WordIndex DEF WordAt
  <2> QED  BY <2>1, <2>2, <2>3
<1>7. WordAt(tx, 4) = call.amount
  BY <1>2 DEF WordAt
<1>8. /\ AddressFromWord(call.path[1]) = call.path[1]
      /\ AddressFromWord(call.path[n]) = call.path[n]
      /\ U128FromWord(call.amount) = call.amount
  <2>1. call.path[1] \in Address /\ call.path[n] \in Address
    BY <1>1, V2Words
  <2>2. ASSUME NEW a \in Address  PROVE AddressFromWord(a) = a
    BY <2>2, SmallRemainder DEF AddressFromWord, Address
  <2>3. U128FromWord(call.amount) = call.amount
    <3>1. call.amount \in Amount
      BY DEF V2Call
    <3>2. /\ call.amount \in Nat /\ call.amount < AmountRange
          /\ AmountRange \in Nat \ {0}
      BY <3>1 DEF Amount
    <3> QED  BY <3>2, SmallRemainder DEF U128FromWord
  <2> QED  BY <2>1, <2>2, <2>3
<1>9. ParseUniV2Swap(tx) = SwapOfV2(call)
  <2>1. /\ ~(InputLen(tx) < MinInputLen)
        /\ ~(InputLen(tx) < LastTokenEnd(n))
    BY <1>1, <1>3, <1>5 DEF MinInputLen
  <2>2. /\ AddressFromWord(WordAt(tx, 196)) = call.path[1]
        /\ AddressFromWord(WordAt(tx, LastTokenOffset(n))) = call.path[n]
        /\ U128FromWord(WordAt(tx, 4)) = call.amount
    BY <1>6, <1>7, <1>8
  <2>3. ParseUniV2Swap(tx)
          = [dex |-> "UniswapV2",
             token_in |-> AddressFromWord(WordAt(tx, 196)),
             token_out |-> AddressFromWord(WordAt(tx, LastTokenOffset(n))),
             amount |-> U128FromWord(WordAt(tx, 4)), sender |-> tx.from]
    <3>1. ~(PathLen(tx) < 2)
      BY <1>1, <1>5
    <3> QED  BY <2>1, <3>1, <1>5 DEF ParseUniV2Swap
  <2> QED  BY <2>2, <2>3, <1>2 DEF SwapOfV2
<1>10. ParseSwap(tx) = SwapOfV2(call)
  BY <1>1, <1>2, <1>9 DEF ParseSwap, V2Selectors, V3Selectors
<1> QED  BY <1>10 DEF tx

\* A V3 call is read back as its swap, whatever follows it (parser.rs:128).
THEOREM V3CallsAreDecoded ==
  ASSUME NEW call \in V3Call, NEW more \in Seq(Nat), NEW rest \in 0 .. 31
  PROVE  ParseSwap(Followed(EncodeV3(call), more, rest)) = SwapOfV3(call)
<1> DEFINE tx == Followed(EncodeV3(call), more, rest)
<1> USE Ranges
<1>1. /\ call.token_in \in Address /\ call.token_out \in Address
      /\ call.amount \in Amount /\ call.selector \in V3Selectors
      /\ Len(more) \in Nat
  BY DEF V3Call
<1>2. LET sent == EncodeV3(call) IN
      /\ sent.selector = call.selector /\ sent.from = call.from
      /\ sent.words[1] = call.token_in /\ sent.words[2] = call.token_out
      /\ sent.words[6] = call.amount /\ Len(sent.words) = 8
  BY DEF EncodeV3
<1>3. EncodeV3(call).words \in Seq(Nat)
  <2>1. /\ call.fee \in Nat /\ call.to \in Nat /\ call.deadline \in Nat
        /\ call.limit \in Nat /\ call.price_limit \in Nat
        /\ call.token_in \in Nat /\ call.token_out \in Nat /\ call.amount \in Nat
    BY <1>1 DEF V3Call, Address, Amount
  <2> QED  BY <2>1 DEF EncodeV3
<1> HIDE DEF tx
<1>4. /\ tx.selector = call.selector /\ tx.from = call.from /\ tx.rest = rest
      /\ tx.words[1] = call.token_in /\ tx.words[2] = call.token_out
      /\ tx.words[6] = call.amount /\ Len(tx.words) = 8 + Len(more)
  <2>1. PICK words : words = EncodeV3(call).words
    OBVIOUS
  <2>2. /\ tx.selector = call.selector /\ tx.from = call.from /\ tx.rest = rest
        /\ tx.words = words \o more
    BY <1>2, <2>1 DEF tx, Followed
  <2>3. Len(words) = 8 /\ words \in Seq(Nat)
    BY <1>2, <1>3, <2>1
  <2>4. /\ Len(tx.words) = 8 + Len(more)
        /\ \A i \in 1 .. 8 : tx.words[i] = words[i]
    <3>1. /\ Len(words \o more) = Len(words) + Len(more)
          /\ \A i \in 1 .. Len(words) : (words \o more)[i] = words[i]
      BY <2>3, MoreWords
    <3> QED  BY <2>2, <2>3, <3>1
  <2>5. /\ words[1] = call.token_in /\ words[2] = call.token_out
        /\ words[6] = call.amount
    BY <1>2, <2>1
  <2> QED  BY <2>2, <2>4, <2>5
<1>5. ~(InputLen(tx) < MinInputLen)
  <2>1. tx.selector # NoSelector
    BY <1>1, <1>4 DEF V3Selectors, NoSelector
  <2>2. InputLen(tx) = 4 + 32 * (8 + Len(more)) + rest
    BY <1>4, <2>1 DEF InputLen
  <2> QED  BY <1>1, <2>2 DEF MinInputLen
<1>6. /\ WordAt(tx, 4) = call.token_in /\ WordAt(tx, 36) = call.token_out
      /\ WordAt(tx, 164) = call.amount
  BY <1>4 DEF WordAt
<1>7. /\ AddressFromWord(call.token_in) = call.token_in
      /\ AddressFromWord(call.token_out) = call.token_out
      /\ U128FromWord(call.amount) = call.amount
  <2>1. ASSUME NEW a \in Address  PROVE AddressFromWord(a) = a
    BY <2>1, SmallRemainder DEF AddressFromWord, Address
  <2>2. ASSUME NEW a \in Amount  PROVE U128FromWord(a) = a
    BY <2>2, SmallRemainder DEF U128FromWord, Amount
  <2> QED  BY <1>1, <2>1, <2>2
<1>8. ParseUniV3ExactInputSingle(tx) = SwapOfV3(call)
  BY <1>4, <1>5, <1>6, <1>7 DEF ParseUniV3ExactInputSingle, SwapOfV3
<1>9. ParseSwap(tx) = SwapOfV3(call)
  BY <1>1, <1>4, <1>8 DEF ParseSwap, V2Selectors, V3Selectors
<1> QED  BY <1>9 DEF tx

\* Input of the minimal length declares a number of tokens.
LEMMA DeclaresANumber ==
  ASSUME NEW tx \in RawTransaction, tx.selector \in V2Selectors,
         ~(InputLen(tx) < MinInputLen)
  PROVE  DeclaredLen(tx) \in Nat /\ PathLen(tx) \in Nat
<1>1. /\ tx.words \in Seq(Nat) /\ tx.rest \in 0 .. 31
      /\ InputLen(tx) = 4 + 32 * Len(tx.words) + tx.rest
  BY DEF RawTransaction, InputLen, V2Selectors, NoSelector
<1>2. Len(tx.words) >= 8
  <2>1. ~(4 + 32 * Len(tx.words) + tx.rest < 260) /\ Len(tx.words) \in Nat
    BY <1>1 DEF MinInputLen
  <2> QED  BY <1>1, <2>1, EightWords
<1>3. tx.words[6] \in Nat
  BY <1>1, <1>2
<1>4. DeclaredLen(tx) \in Nat
  BY <1>3 DEF DeclaredLen, WordAt
<1> QED  BY <1>4, Ranges DEF PathLen, U128FromWord

\* A V2 call cut short is no swap: without its last token, or any part of it,
\* the parser answers None instead of reading past the end (parser.rs:103), and
\* so it does for a path of fewer than two tokens (parser.rs:95); provided that
\* memory could hold the path that is declared.
THEOREM TruncatedV2CallsAreRefused ==
  ASSUME NEW tx \in RawTransaction,
         tx.selector \in V2Selectors,
         ~DeclaresTooMany(tx),
         \/ InputLen(tx) < MinInputLen
         \/ DeclaredLen(tx) < 2
         \/ InputLen(tx) < 196 + 32 * DeclaredLen(tx)
  PROVE  ParseSwap(tx) = NoSwap
<1>1. ParseSwap(tx) = ParseUniV2Swap(tx)
  BY DEF ParseSwap, V2Selectors, V3Selectors
<1>2. CASE InputLen(tx) < MinInputLen
  BY <1>1, <1>2 DEF ParseUniV2Swap
<1>3. CASE ~(InputLen(tx) < MinInputLen)
  <2>1. DeclaredLen(tx) \in Nat
    BY <1>3, DeclaresANumber
  <2>2. 196 + 32 * DeclaredLen(tx) < UsizeRange
    BY <1>3, <2>1, Ranges DEF DeclaresTooMany
  <2>3. /\ PathLen(tx) = DeclaredLen(tx)
        /\ PathLen(tx) >= 1 =>
             LastTokenEnd(PathLen(tx)) = 196 + 32 * DeclaredLen(tx)
    BY <2>1, <2>2, OffsetsThatFit
  <2>4. PathLen(tx) < 2 \/ InputLen(tx) < LastTokenEnd(PathLen(tx))
    BY <1>3, <2>1, <2>3
  <2> QED  BY <1>1, <2>4 DEF ParseUniV2Swap
<1> QED  BY <1>2, <1>3

\* Where memory could not hold it the parser may make a swap of a call cut
\* short: of 2^59 + 1 tokens declared the last is looked for where the first
\* is, because (path_len - 1) * 32 is 2^64 (parser.rs:102).  A build with
\* overflow checks panics instead.
THEOREM WrappedPathsAreMisread ==
  ASSUME NEW tx \in RawTransaction,
         tx.selector \in V2Selectors,
         ~(InputLen(tx) < MinInputLen),
         DeclaredLen(tx) = UsizeRange \div 32 + 1
  PROVE  /\ ParseSwap(tx).dex = "UniswapV2"
         /\ ParseSwap(tx).token_out = ParseSwap(tx).token_in
         /\ OffsetOverflows(tx) /\ ~SlicePanics(tx)
<1>1. PICK m \in Nat : m = UsizeRange \div 32
  BY Ranges
<1>2. UsizeRange = 32 * m /\ m >= 16
  BY <1>1, ParserAssumption
<1>3. m + 1 < UsizeRange /\ m + 1 < AmountRange
  BY <1>2, Ranges
<1>4. PathLen(tx) = m + 1
  BY <1>1, <1>3, Ranges, SmallRemainder DEF PathLen, U128FromWord
<1>5. LastTokenOffset(m + 1) = 196
  <2>1. 196 + ((m + 1) - 1) * 32 = 196 + UsizeRange
    BY <1>2
  <2>2. (196 + UsizeRange) % UsizeRange = 196
    BY Ranges
  <2> QED  BY <2>1, <2>2 DEF LastTokenOffset
<1>6. LastTokenEnd(m + 1) = 228
  <2>1. 228 % UsizeRange = 228
    BY Ranges, SmallRemainder
  <2> QED  BY <1>5, <2>1 DEF LastTokenEnd
<1>7. InputLen(tx) \in Nat /\ InputLen(tx) >= 260
  <2>1. InputLen(tx) \in Nat
    <3>1. tx.words \in Seq(Nat) /\ tx.rest \in 0 .. 31
      BY DEF RawTransaction
    <3>2. PICK k \in Nat, rest \in Nat : k = Len(tx.words) /\ rest = tx.rest
      <4>1. Len(tx.words) \in Nat
        BY <3>1, LenProperties
      <4>2. tx.rest \in Nat
        <5>1. \A i \in 0 .. 31 : i \in Nat
          OBVIOUS
        <5> QED  BY <3>1, <5>1, Zenon
      <4> QED  BY <4>1, <4>2
    <3>3. InputLen(tx) = 4 + 32 * k + rest
      BY <3>2 DEF InputLen, V2Selectors, NoSelector
    <3> QED  BY <3>3
  <2> QED  BY <2>1 DEF MinInputLen
<1>8. ~(PathLen(tx) < 2) /\ ~(InputLen(tx) < LastTokenEnd(PathLen(tx)))
  BY <1>2, <1>4, <1>6, <1>7
<1>9. ParseSwap(tx) = ParseUniV2Swap(tx)
  BY DEF ParseSwap, V2Selectors, V3Selectors
<1>10. ParseUniV2Swap(tx)
         = [dex |-> "UniswapV2",
            token_in |-> AddressFromWord(WordAt(tx, 196)),
            token_out |-> AddressFromWord(WordAt(tx, 196)),
            amount |-> U128FromWord(WordAt(tx, 4)), sender |-> tx.from]
  BY <1>4, <1>5, <1>8 DEF ParseUniV2Swap
<1>11. OffsetOverflows(tx) /\ ~SlicePanics(tx)
  <2>1. 196 + PathLen(tx) * 32 >= UsizeRange
    BY <1>2, <1>4
  <2> QED
    BY <1>4, <1>5, <1>6, <1>8, <2>1
       DEF OffsetOverflows, SlicePanics, ReadsPath
<1> QED  BY <1>9, <1>10, <1>11

\* What a stream may carry, with the swap that is meant by it: calls of the
\* routers, of paths that memory can hold and with anything behind them; any
\* transaction that is no such call, because it is cut short, its path has no
\* two tokens, or it is of another function or of none; errors.
SwapItem(item) ==
  \E more \in Seq(Nat), rest \in 0 .. 31 :
    \/ \E call \in V2Call :
         /\ Len(call.path) >= 2 /\ 196 + 32 * Len(call.path) < UsizeRange
         /\ item.tx = Followed(EncodeV2(call), more, rest)
         /\ item.swap = SwapOfV2(call)
    \/ \E call \in V3Call :
         /\ item.tx = Followed(EncodeV3(call), more, rest)
         /\ item.swap = SwapOfV3(call)

OtherItem(item) ==
  /\ item.swap = NoSwap
  /\ \/ item.tx = Error
     \/ /\ item.tx \in RawTransaction
        /\ item.tx.selector \in V3Selectors => InputLen(item.tx) < MinInputLen
        /\ item.tx.selector \in V2Selectors =>
             \/ InputLen(item.tx) < MinInputLen
             \/ DeclaredLen(item.tx) < 2
             \/ InputLen(item.tx) < 196 + 32 * DeclaredLen(item.tx)

StreamItem(item) == SwapItem(item) \/ OtherItem(item)

\* What the agent makes of an item of the stream.
ParsedOf(item) == IF item.tx = Error THEN NoSwap ELSE ParseSwap(item.tx)

\* The item declares a path no memory holds.
TooMany(item) == item.tx # Error /\ DeclaresTooMany(item.tx)

\* The agent makes of every other item what is meant by it, and nothing is
\* meant by such a one.
LEMMA ItemsAreUnderstood ==
  ASSUME NEW item, StreamItem(item)
  PROVE  /\ ~TooMany(item) => ParsedOf(item) = item.swap
         /\ TooMany(item) => item.swap = NoSwap
<1>1. CASE SwapItem(item)
  <2>1. PICK more \in Seq(Nat), rest \in 0 .. 31 :
          \/ \E call \in V2Call :
               /\ Len(call.path) >= 2 /\ 196 + 32 * Len(call.path) < UsizeRange
               /\ item.tx = Followed(EncodeV2(call), more, rest)
               /\ item.swap = SwapOfV2(call)
          \/ \E call \in V3Call :
               /\ item.tx = Followed(EncodeV3(call), more, rest)
               /\ item.swap = SwapOfV3(call)
    BY <1>1 DEF SwapItem
  <2>2. ParseSwap(item.tx) = item.swap
    BY <2>1, V2CallsAreDecoded, V3CallsAreDecoded
  <2>3. item.tx # Error
    <3>1. \A tx : Followed(tx, more, rest) # Error
      <4>1. \A tx : DOMAIN Followed(tx, more, rest)
                      = {"from", "selector", "words", "rest"}
        BY DEF Followed
      <4>2. DOMAIN Error = {"error"}
        BY DEF Error
      <4>3. "from" # "error"
        OBVIOUS
      <4> QED  BY <4>1, <4>2, <4>3, Zenon
    <3> QED  BY <2>1, <3>1
  <2>4. ~TooMany(item)
    <3>1. ASSUME NEW call \in V2Call, 196 + 32 * Len(call.path) < UsizeRange,
                 item.tx = Followed(EncodeV2(call), more, rest)
          PROVE  ~DeclaresTooMany(item.tx)
      <4>1. DeclaredLen(item.tx) = Len(call.path) /\ Len(call.path) \in Nat
        BY <3>1, V2LenDeclared
      <4> QED  BY <3>1, <4>1, Ranges DEF DeclaresTooMany
    <3>2. ASSUME NEW call \in V3Call,
                 item.tx = Followed(EncodeV3(call), more, rest)
          PROVE  ~DeclaresTooMany(item.tx)
      <4>1. item.tx.selector \in V3Selectors
        BY <3>2 DEF Followed, EncodeV3, V3Call
      <4> QED  BY <4>1 DEF DeclaresTooMany, V2Selectors, V3Selectors
    <3> QED  BY <2>1, <3>1, <3>2 DEF TooMany
  <2> QED  BY <2>2, <2>3, <2>4 DEF ParsedOf
<1>2. CASE OtherItem(item)
  <2>1. CASE item.tx = Error
    BY <1>2, <2>1 DEF OtherItem, ParsedOf
  <2>2. CASE item.tx # Error
    <3>1. /\ item.tx \in RawTransaction
          /\ item.tx.selector \in V3Selectors => InputLen(item.tx) < MinInputLen
          /\ item.tx.selector \in V2Selectors =>
               \/ InputLen(item.tx) < MinInputLen
               \/ DeclaredLen(item.tx) < 2
               \/ InputLen(item.tx) < 196 + 32 * DeclaredLen(item.tx)
      BY <1>2, <2>2 DEF OtherItem
    <3>2. CASE item.tx.selector \in V2Selectors
      BY <1>2, <2>2, <3>1, <3>2, TruncatedV2CallsAreRefused
         DEF OtherItem, ParsedOf, TooMany
    <3>3. CASE item.tx.selector \notin V2Selectors
      <4>1. ParseSwap(item.tx) = NoSwap
        BY <3>1, <3>3 DEF ParseSwap, ParseUniV3ExactInputSingle
      <4> QED  BY <1>2, <2>2, <4>1 DEF OtherItem, ParsedOf
    <3> QED  BY <3>2, <3>3
  <2> QED  BY <2>1, <2>2
<1> QED  BY <1>1, <1>2 DEF StreamItem

-----------------------------------------------------------------------------
\* The comparison of two prices.

\* There is a divergence between the exchanges of the k-th pair.
Diverges(of, k) ==
  /\ Cardinality(PricesOf(of, k)) = 2
  /\ Low(of, k) > 0
  /\ 10000 * High(of, k) > 10050 * Low(of, k)

\* The spread there is between them, in basis points.
SpreadOf(of, k) == (10000 * High(of, k)) \div Low(of, k) - 10000

\* The pairs there are divergences of, by their prices and by what is listed.
DivergingPairs(of) == {k \in 1 .. 3 : Diverges(of, k)}
PairsOf(divergences) == {d[1] : d \in divergences}

\* The pairs of the divergences listed are the pairs that diverge.
LEMMA DivergencesByPair ==
  ASSUME NEW of
  PROVE  PairsOf(Divergences(of)) = DivergingPairs(of)
<1> DEFINE There == DivergingPairs(of)
<1>1. DOMAIN DexPairs = 1 .. 3
  BY DEF DexPairs
<1>2. Divergences(of) = {<<k, SpreadOf(of, k)>> : k \in There}
  BY <1>1 DEF Divergences, Diverges, DivergingPairs, SpreadOf
<1> HIDE DEF There
<1>3. \A k : <<k, SpreadOf(of, k)>>[1] = k
  OBVIOUS
<1>4. {d[1] : d \in {<<k, SpreadOf(of, k)>> : k \in There}} = There
  <2>1. ASSUME NEW k \in There
        PROVE  k \in {d[1] : d \in {<<j, SpreadOf(of, j)>> : j \in There}}
    BY <1>3, <2>1
  <2>2. ASSUME NEW k \in {d[1] : d \in {<<j, SpreadOf(of, j)>> : j \in There}}
        PROVE  k \in There
    BY <1>3, <2>2
  <2> QED
    BY <2>1, <2>2
<1> QED
  BY <1>2, <1>4 DEF There, PairsOf

\* A pair that diverges is listed with its spread.
LEMMA DivergenceListed ==
  ASSUME NEW of, NEW k \in 1 .. 3, Diverges(of, k)
  PROVE  <<k, SpreadOf(of, k)>> \in Divergences(of)
<1>1. DOMAIN DexPairs = 1 .. 3
  BY DEF DexPairs
<1> QED
  BY <1>1 DEF Divergences, Diverges, SpreadOf

\* The prices the k-th comparison is about, as a set.
LEMMA ComparedPrices ==
  ASSUME NEW of, NEW k \in 1 .. 3
  PROVE  LET a == PairOn(of, DexPairs[k][1])
             b == PairOn(of, DexPairs[k][2])
         IN /\ a # b
            /\ PricesOf(of, k) = {prices[p] : p \in DOMAIN prices \cap {a, b}}
<1>1. DexPairs[k][1] # DexPairs[k][2]
  BY DEF DexPairs
<1>2. Range(DexPairs[k]) = {DexPairs[k][1], DexPairs[k][2]}
  <2>1. DOMAIN DexPairs[k] = {1, 2}
    BY DEF DexPairs
  <2> QED
    BY <2>1 DEF Range
<1>3. PairOn(of, DexPairs[k][1]) # PairOn(of, DexPairs[k][2])
  BY <1>1 DEF PairOn
<1> QED
  BY <1>2, <1>3 DEF PricesOf

\* A spread in whole basis points, by the difference and by the quotient.
LEMMA SpreadArithmetic ==
  ASSUME NEW high \in Nat, NEW low \in Nat \ {0}, low < high
  PROVE  /\ ((high - low) * 10000) \div low = (10000 * high) \div low - 10000
         /\ ((high - low) * 10000) \div low \in Nat
         /\ (high - low) * 10000 > 50 * low <=> 10000 * high > 10050 * low
         /\ 10000 * high > 10050 * low
              => (10000 * high) \div low - 10000 >= 50
<1>1. ((high - low) * 10000) \div low = (10000 * high) \div low - 10000
  OBVIOUS
<1>2. (high - low) * 10000 \in Nat
  OBVIOUS
<1>3. ((high - low) * 10000) \div low \in Nat
  BY <1>2
<1>4. (high - low) * 10000 > 50 * low <=> 10000 * high > 10050 * low
  OBVIOUS
<1>5. 10000 * high > 10050 * low => (10000 * high) \div low >= 10050
  OBVIOUS
<1> QED
  BY <1>1, <1>3, <1>4, <1>5

\* The larger and the smaller of two numbers.
LEMMA TwoNumbers ==
  ASSUME NEW low \in Nat, NEW high \in Nat, low < high
  PROVE  /\ Cardinality({low, high}) = 2
         /\ Min({low, high}) = low /\ Max({low, high}) = high
<1>1. Cardinality({low} \cup {high}) = 2
  <2>1. IsFiniteSet({low}) /\ Cardinality({low}) = 1
    BY FS_Singleton
  <2>2. high \notin {low}
    OBVIOUS
  <2> QED
    BY <2>1, <2>2, FS_AddElement
<1>2. {low} \cup {high} = {low, high}
  OBVIOUS
<1>3. Min({low, high}) = low /\ Max({low, high}) = high
  BY DEF Min, Max
<1> QED
  BY <1>1, <1>2, <1>3

\* At least one of two numbers that differ is the smaller.
LEMMA LowerAndHigher ==
  ASSUME NEW x \in Nat, NEW y \in Nat, x # y
  PROVE  \E low, high \in {x, y} :
           low < high /\ {x, y} = {low, high}
             /\ low = (IF x <= y THEN x ELSE y)
<1>1. CASE x < y
  BY <1>1
<1>2. CASE y < x
  BY <1>2
<1> QED
  BY <1>1, <1>2

\* detect_divergence, which compares a difference with the threshold, answers
\* exactly where there is a divergence, and answers with its spread.
LEMMA DetectsDivergences ==
  ASSUME prices \in [DOMAIN prices -> Nat], NEW of, NEW k \in 1 .. 3
  PROVE  LET d == DetectDivergence(of, DexPairs[k][1], DexPairs[k][2],
                                   ThresholdBps)
         IN /\ d # NoSpread <=> Diverges(of, k)
            /\ d # NoSpread =>
                 /\ d = SpreadOf(of, k)
                 /\ d >= 50
                 /\ {High(of, k), Low(of, k)}
                      \subseteq {prices[p] : p \in DOMAIN prices}
                 /\ Low(of, k) > 0
<1> PICK a, b : a = PairOn(of, DexPairs[k][1]) /\ b = PairOn(of, DexPairs[k][2])
  OBVIOUS
<1> PICK d : d = DetectDivergence(of, DexPairs[k][1], DexPairs[k][2],
                                  ThresholdBps)
  OBVIOUS
<1>1. a # b /\ PricesOf(of, k) = {prices[p] : p \in DOMAIN prices \cap {a, b}}
  BY ComparedPrices
<1>2. CASE ~({a, b} \subseteq DOMAIN prices)
  <2>1. d = NoSpread
    BY <1>2 DEF DetectDivergence
  <2>2. PICK x : PricesOf(of, k) \subseteq {x}
    BY <1>1, <1>2
  <2>3. Cardinality(PricesOf(of, k)) <= 1
    <3>1. IsFiniteSet({x}) /\ Cardinality({x}) = 1
      BY FS_Singleton
    <3> QED
      BY <2>2, <3>1, FS_Subset
  <2> QED
    BY <2>1, <2>3 DEF Diverges
<1>3. CASE {a, b} \subseteq DOMAIN prices
  <2> PICK x \in Nat, y \in Nat : x = prices[a] /\ y = prices[b]
    BY <1>3
  <2>1. PricesOf(of, k) = {x, y}
    BY <1>1, <1>3
  <2> DEFINE low == IF x <= y THEN x ELSE y
  <2>2. d = IF low > 0 /\ (x + y - 2 * low) * 10000 > 50 * low
            THEN ((x + y - 2 * low) * 10000) \div low
            ELSE -1
    BY <1>3 DEF DetectDivergence, AboveThreshold, ThresholdBps, NoSpread
  <2>3. CASE x = y
    <3>1. {x, y} = {x} /\ Cardinality({x}) = 1
      BY <2>3, FS_Singleton
    <3>2. d = NoSpread
      <4>1. low = x /\ x + y - 2 * low = 0
        BY <2>3
      <4> QED
        BY <2>2, <4>1 DEF NoSpread
    <3>3. Cardinality(PricesOf(of, k)) # 2
      BY <2>1, <3>1
    <3> QED
      BY <3>2, <3>3 DEF Diverges
  <2>4. CASE x # y
    <3>1. PICK l \in Nat, h \in Nat :
            l < h /\ {x, y} = {l, h} /\ l = low /\ {l, h} \subseteq {x, y}
      BY <2>4, LowerAndHigher
    <3>2. x + y - 2 * low = h - l
      BY <2>4, <3>1
    <3>3. /\ Cardinality(PricesOf(of, k)) = 2
          /\ Low(of, k) = l /\ High(of, k) = h
      BY <2>1, <3>1, TwoNumbers DEF Low, High
    <3>4. d = IF l > 0 /\ (h - l) * 10000 > 50 * l
              THEN ((h - l) * 10000) \div l
              ELSE -1
      BY <2>2, <3>1, <3>2
    <3>5. {h, l} \subseteq {prices[p] : p \in DOMAIN prices}
      BY <1>3, <3>1
    <3> HIDE DEF low
    <3>6. CASE l = 0
      BY <3>3, <3>4, <3>6 DEF Diverges, NoSpread
    <3>7. CASE l # 0
      BY <3>1, <3>3, <3>4, <3>5, <3>7, SpreadArithmetic
         DEF Diverges, NoSpread, SpreadOf
    <3> QED
      BY <3>6, <3>7
  <2> QED
    BY <2>3, <2>4
<1> QED
  BY <1>2, <1>3

-----------------------------------------------------------------------------
\* The agent's own state.

\* Prices are prices of quotes, no item comes from anywhere but the stream, and
\* none is counted twice.
AgentOK ==
  /\ prices \in [DOMAIN prices -> {q.price : q \in Quotes}]
  /\ pc \in {"spawned", "recv", "detect", "publish", "stopped"}
  /\ pair \in 1 .. 3
  /\ signals \in Seq(Range(signals))
  /\ stream \in Streams
  /\ channel \in Seq(Range(stream)) /\ unsent \in Seq(Range(stream))
  /\ heard \in Nat
  /\ heard + Len(channel) + Len(unsent) <= Len(stream)

\* Every action, for the case splits below.
LEMMA Actions ==
  ASSUME [Next]_vars
  PROVE  \/ UNCHANGED vars
         \/ /\ Observe
            /\ \/ SubscribeOk \/ SubscribeFails
               \/ SendItem \/ SendFails \/ SendEnds
               \/ StopOnCancel \/ StreamEnds \/ ParserPanics
               \/ SkipItem \/ HandleSwap
               \/ DetectNothing \/ Detect \/ PublishDivergence
               \/ Feed \/ Cancel
BY DEF Next, StreamTask, Loop, Check, Over

\* One more signal.
LEMMA OneMoreSignal ==
  ASSUME AgentOK, NEW s, signals' = Append(signals, s)
  PROVE  /\ signals' \in Seq(Range(signals'))
         /\ DOMAIN signals = 1 .. Len(signals) /\ Len(signals) \in Nat
         /\ DOMAIN signals' = 1 .. Len(signals) + 1
         /\ Len(signals') = Len(signals) + 1
         /\ signals'[Len(signals) + 1] = s
         /\ \A i \in DOMAIN signals : i \in DOMAIN signals' /\ signals'[i] = signals[i]
<1> PICK S : S = Range(signals) \cup {s}
  OBVIOUS
<1>1. signals \in Seq(S) /\ s \in S
  BY SeqMonotonic DEF AgentOK
<1>2. /\ signals' \in Seq(S) /\ Len(signals') = Len(signals) + 1
      /\ \A i \in 1 .. Len(signals) : signals'[i] = signals[i]
      /\ signals'[Len(signals) + 1] = s
  BY <1>1, AppendProperties
<1>3. /\ DOMAIN signals = 1 .. Len(signals) /\ Len(signals) \in Nat
      /\ DOMAIN signals' = 1 .. Len(signals')
  BY <1>1, <1>2, LenProperties
<1>4. signals' \in Seq(Range(signals'))
  BY <1>2, SeqOfRange
<1> QED
  BY <1>2, <1>3, <1>4

\* What is left of the stream, and how much there is of it.
LEMMA ItemFacts ==
  ASSUME AgentOK
  PROVE  /\ Len(channel) \in Nat /\ Len(unsent) \in Nat /\ Len(stream) \in Nat
         /\ Len(stream) <= MaxItems /\ heard \in Nat
         /\ channel # << >> =>
              /\ Tail(channel) \in Seq(Range(stream))
              /\ Len(Tail(channel)) = Len(channel) - 1
              /\ Len(channel) > 0
         /\ unsent # << >> =>
              /\ Head(unsent) \in Range(stream)
              /\ Tail(unsent) \in Seq(Range(stream))
              /\ Len(Tail(unsent)) = Len(unsent) - 1
              /\ Append(channel, Head(unsent)) \in Seq(Range(stream))
              /\ Len(Append(channel, Head(unsent))) = Len(channel) + 1
<1>1. stream \in Seq(Range(stream)) /\ Len(stream) <= MaxItems
  BY MarketAssumption DEF AgentOK
<1>2. channel \in Seq(Range(stream)) /\ unsent \in Seq(Range(stream))
  BY DEF AgentOK
<1>3. Len(channel) \in Nat /\ Len(unsent) \in Nat /\ Len(stream) \in Nat
  BY <1>1, <1>2, LenProperties
<1>4. channel # << >> =>
        /\ Tail(channel) \in Seq(Range(stream))
        /\ Len(Tail(channel)) = Len(channel) - 1
        /\ Len(channel) > 0
  BY <1>2, <1>3, EmptySeq, HeadTailProperties
<1>5. unsent # << >> =>
        /\ Head(unsent) \in Range(stream)
        /\ Tail(unsent) \in Seq(Range(stream))
        /\ Len(Tail(unsent)) = Len(unsent) - 1
  BY <1>2, HeadTailProperties
<1>6. unsent # << >> =>
        /\ Append(channel, Head(unsent)) \in Seq(Range(stream))
        /\ Len(Append(channel, Head(unsent))) = Len(channel) + 1
  BY <1>2, <1>5, AppendProperties
<1> QED
  BY <1>1, <1>3, <1>4, <1>5, <1>6 DEF AgentOK

\* The pair of exchanges is one of the three, whichever comes next.
LEMMA NextPairFacts ==
  ASSUME pair \in 1 .. 3, NextPair
  PROVE  \/ pair = 3 /\ pair' = 3 /\ pc' = "recv"
         \/ pair # 3 /\ pair' = pair + 1 /\ pair' \in 1 .. 3 /\ pc' = "detect"
BY DEF NextPair, DexPairs

\* Every step keeps the agent's state in order.
LEMMA AgentStep == AgentOK /\ [Next]_vars => AgentOK'
<1> SUFFICES ASSUME AgentOK, [Next]_vars PROVE AgentOK'
  OBVIOUS
<1> USE DEF streamVars, agentVars
<1>1. /\ prices \in [DOMAIN prices -> {q.price : q \in Quotes}]
      /\ pc \in {"spawned", "recv", "detect", "publish", "stopped"}
      /\ pair \in 1 .. 3 /\ signals \in Seq(Range(signals))
      /\ stream \in Streams
      /\ channel \in Seq(Range(stream)) /\ unsent \in Seq(Range(stream))
      /\ heard \in Nat /\ heard + Len(channel) + Len(unsent) <= Len(stream)
  BY DEF AgentOK
<1>2. CASE SubscribeOk \/ SubscribeFails \/ SendFails \/ SendEnds \/ StreamEnds
           \/ Detect \/ Cancel
  BY <1>1, <1>2
     DEF AgentOK, SubscribeOk, SubscribeFails, SendFails, SendEnds, StreamEnds,
         Detect, Cancel
<1>3. CASE SendItem
  <2>1. /\ channel' \in Seq(Range(stream)) /\ unsent' \in Seq(Range(stream))
        /\ heard + Len(channel') + Len(unsent') <= Len(stream)
    BY <1>1, <1>3, ItemFacts DEF SendItem
  <2> QED
    BY <1>1, <1>3, <2>1 DEF AgentOK, SendItem
<1>4. CASE StopOnCancel \/ ParserPanics
  <2>1. /\ channel' \in Seq(Range(stream)) /\ Len(channel') = 0
    BY <1>4, EmptySeq DEF StopOnCancel, ParserPanics
  <2>2. heard + Len(channel') + Len(unsent) <= Len(stream)
    BY <1>1, <2>1, ItemFacts
  <2> QED
    BY <1>1, <1>4, <2>1, <2>2 DEF AgentOK, StopOnCancel, ParserPanics
<1>5. ASSUME Receive, UNCHANGED <<stream, unsent>>
      PROVE  /\ channel' \in Seq(Range(stream)) /\ heard' \in Nat
             /\ heard' + Len(channel') + Len(unsent) <= Len(stream)
  BY <1>1, <1>5, ItemFacts DEF Receive
<1>6. CASE SkipItem
  BY <1>1, <1>5, <1>6 DEF AgentOK, SkipItem
<1>7. CASE HandleSwap
  <2>1. signals' \in Seq(Range(signals'))
    BY <1>7, OneMoreSignal DEF HandleSwap
  <2> QED
    BY <1>1, <1>5, <1>7, <2>1 DEF AgentOK, HandleSwap
<1>8. CASE DetectNothing
  BY <1>1, <1>8, NextPairFacts DEF AgentOK, DetectNothing, AfterNothing
<1>9. CASE PublishDivergence
  <2>1. signals' \in Seq(Range(signals'))
    BY <1>9, OneMoreSignal DEF PublishDivergence
  <2> QED
    BY <1>1, <1>9, <2>1, NextPairFacts DEF AgentOK, PublishDivergence
<1>10. CASE Feed
  <2> PICK quote \in Quotes : UpdatePrice(quote.pair, quote.price)
    BY <1>10 DEF Feed
  <2>1. prices' \in [DOMAIN prices' -> {q.price : q \in Quotes}]
    BY <1>1 DEF UpdatePrice
  <2> QED
    BY <1>1, <1>10, <2>1 DEF AgentOK, Feed
<1>11. CASE UNCHANGED vars
  BY <1>1, <1>11 DEF AgentOK, vars
<1> QED
  BY <1>2, <1>3, <1>4, <1>6, <1>7, <1>8, <1>9, <1>10, <1>11, Actions

-----------------------------------------------------------------------------
\* What the histories say of the divergences.

\* A spread about to be published was there, and is one these prices can have.
SpreadHeld ==
  pc = "publish" =>
    <<pair, spread>> \in held /\ spread \in ThresholdBps .. MaxSpread

\* The pair has been signalled for the swap being handled.
Shown(k) ==
  \E i \in DOMAIN signals :
    /\ signals[i].type = "PriceDivergence"
    /\ signals[i].pair = k
    /\ signals[i].source_tx = heard

\* A pair that has diverged all the time diverges now, and is signalled once
\* the loop has passed it.
SteadyShown ==
  Handling =>
    \A k \in steady : k \in 1 .. 3 /\ Diverges(swap, k) /\ (k < pair => Shown(k))

\* The divergences of the swap being handled, before and after a step.
LEMMA DivergencesBeforeAndAfter ==
  /\ PairsOf(Divergences(swap)) = DivergingPairs(swap)
  /\ PairsOf(Divergences(swap)') = DivergingPairs(swap)'
<1>1. PairsOf(Divergences(swap)) = DivergingPairs(swap)
  BY DivergencesByPair
<1>2. (PairsOf(Divergences(swap)) = DivergingPairs(swap))'
  BY <1>1, PTL
<1> QED
  BY <1>1, <1>2

\* The histories go on as long as a swap is handled.
LEMMA ObserveFacts ==
  ASSUME [Next]_vars, Handling'
  PROVE  /\ Handling => held \subseteq held' /\ steady' \subseteq steady
         /\ Observe =>
              /\ Divergences(swap)' \subseteq held'
              /\ steady' \subseteq DivergingPairs(swap)'
<1>1. CASE Observe
  <2>1. /\ held' = (IF Handling THEN held ELSE {}) \cup Divergences(swap)'
        /\ steady' = PairsOf(Divergences(swap)') \cap
                       (IF Handling THEN steady ELSE DOMAIN DexPairs)
    BY <1>1 DEF Observe, PairsOf
  <2> QED
    BY <2>1, DivergencesBeforeAndAfter
<1>2. CASE UNCHANGED vars
  <2>1. held' = held /\ steady' = steady
    BY <1>2 DEF vars
  <2>2. ASSUME Observe
        PROVE  /\ Divergences(swap)' \subseteq held'
               /\ steady' \subseteq DivergingPairs(swap)'
    BY <1>1, <2>2
  <2> QED
    BY <2>1, <2>2
<1> QED
  BY <1>1, <1>2, Actions

\* Without a new price or a new swap the divergences stay what they are.
LEMMA SamePrices ==
  ASSUME UNCHANGED <<prices, swap>>
  PROVE  /\ Divergences(swap)' = Divergences(swap)
         /\ \A k : Diverges(swap, k)' = Diverges(swap, k)
<1>1. \A k : PricesOf(swap, k)' = PricesOf(swap, k)
  BY DEF PricesOf, PairOn, DexPairs
<1>2. \A k : Low(swap, k)' = Low(swap, k) /\ High(swap, k)' = High(swap, k)
  BY <1>1 DEF Low, High
<1>3. \A k : Diverges(swap, k)' = Diverges(swap, k)
  BY <1>1, <1>2 DEF Diverges
<1>4. Divergences(swap)' = Divergences(swap)
  BY <1>1, <1>2 DEF Divergences, DexPairs
<1> QED
  BY <1>3, <1>4

\* What detect_divergence answers for the pair looked at: a divergence, with a
\* spread two quotes can have, or that there is none.
LEMMA DetectedFacts ==
  ASSUME AgentOK
  PROVE  /\ Detected = NoSpread => ~Diverges(swap, pair)
         /\ Detected # NoSpread =>
              /\ <<pair, Detected>> \in Divergences(swap)
              /\ Detected \in ThresholdBps .. MaxSpread
<1>1. prices \in [DOMAIN prices -> Nat] /\ pair \in 1 .. 3
  BY MarketAssumption DEF AgentOK
<1>2. /\ Detected # NoSpread <=> Diverges(swap, pair)
      /\ Detected # NoSpread =>
           /\ Detected = SpreadOf(swap, pair)
           /\ Detected >= 50
           /\ {High(swap, pair), Low(swap, pair)}
                \subseteq {prices[p] : p \in DOMAIN prices}
           /\ Low(swap, pair) > 0
  BY <1>1, DetectsDivergences DEF Detected
<1>3. ASSUME Detected # NoSpread
      PROVE  /\ <<pair, Detected>> \in Divergences(swap)
             /\ Detected \in ThresholdBps .. MaxSpread
  <2>1. <<pair, Detected>> \in Divergences(swap)
    <3>1. <<pair, SpreadOf(swap, pair)>>
            \in Divergences(swap)
      BY <1>1, <1>2, <1>3, DivergenceListed
    <3>2. Detected = SpreadOf(swap, pair)
      BY <1>2, <1>3
    <3> QED
      BY <3>1, <3>2, Zenon
  <2>2. PICK q, r \in Quotes : High(swap, pair) = q.price /\ Low(swap, pair) = r.price
    <3>1. \A p \in DOMAIN prices : prices[p] \in {q.price : q \in Quotes}
      BY DEF AgentOK
    <3>2. PICK p, o \in DOMAIN prices :
            High(swap, pair) = prices[p] /\ Low(swap, pair) = prices[o]
      BY <1>2, <1>3
    <3> QED
      BY <3>1, <3>2
  <2>3. Detected <= MaxSpread
    BY <1>2, <1>3, <2>2, MarketAssumption DEF SpreadOf
  <2>4. Detected \in Int /\ MaxSpread \in Nat
    BY <1>2, <1>3, <2>2, MarketAssumption DEF SpreadOf
  <2> QED
    BY <1>2, <1>3, <2>1, <2>3, <2>4 DEF ThresholdBps
<1> QED
  BY <1>2, <1>3

\* A step to "publish" is the detection, or one of somebody else's.
LEMMA ToPublish ==
  ASSUME AgentOK, [Next]_vars, pc' = "publish"
  PROVE  \/ pc = "publish" /\ UNCHANGED <<pair, spread>>
         \/ Detect /\ Observe
<1> USE DEF agentVars
<1>1. CASE UNCHANGED vars
  BY <1>1 DEF vars
<1>2. CASE SendItem \/ SendEnds \/ SendFails \/ Feed \/ Cancel
  BY <1>2 DEF SendItem, SendEnds, SendFails, Feed, Cancel
<1>3. CASE SubscribeOk \/ SubscribeFails \/ StopOnCancel \/ StreamEnds
           \/ ParserPanics \/ SkipItem \/ HandleSwap
  BY <1>3 DEF SubscribeOk, SubscribeFails, StopOnCancel, StreamEnds,
              ParserPanics, SkipItem, HandleSwap, Receive
<1>4. CASE DetectNothing \/ PublishDivergence
  BY <1>4, NextPairFacts DEF AgentOK, DetectNothing, AfterNothing,
                             PublishDivergence
<1> QED
  BY <1>1, <1>2, <1>3, <1>4, Actions

\* The spread kept while its signal is prepared stays one that was there.
LEMMA SpreadStep == AgentOK /\ SpreadHeld /\ [Next]_vars => SpreadHeld'
<1> SUFFICES ASSUME AgentOK, SpreadHeld, [Next]_vars, pc' = "publish"
             PROVE  /\ <<pair', spread'>> \in held'
                    /\ spread' \in ThresholdBps .. MaxSpread
  BY DEF SpreadHeld
<1>1. Handling'
  BY DEF Handling
<1>2. CASE pc = "publish" /\ UNCHANGED <<pair, spread>>
  <2>1. held \subseteq held'
    BY <1>1, <1>2, ObserveFacts DEF Handling
  <2> QED
    BY <1>2, <2>1 DEF SpreadHeld
<1>3. CASE Detect /\ Observe
  <2>1. Detected # NoSpread /\ spread' = Detected /\ pair' = pair
    BY <1>3 DEF Detect
  <2>2. Divergences(swap) \subseteq held'
    <3>1. UNCHANGED <<prices, swap>>
      BY <1>3 DEF Detect
    <3> QED
      BY <1>1, <1>3, <3>1, SamePrices, ObserveFacts
  <2> QED
    BY <2>1, <2>2, DetectedFacts
<1> QED
  BY <1>2, <1>3, ToPublish

\* What has been signalled stays so while the swap is handled, and a new signal
\* of a divergence is one for its pair.
LEMMA ShownStays ==
  ASSUME AgentOK, heard' = heard
  PROVE  /\ signals' = signals => \A k : Shown(k) => Shown(k)'
         /\ PublishDivergence =>
              \A k : k = pair \/ Shown(k) => Shown(k)'
<1>1. ASSUME signals' = signals, NEW k, Shown(k)
      PROVE  Shown(k)'
  BY <1>1 DEF Shown
<1>2. ASSUME PublishDivergence
      PROVE  \A k : k = pair \/ Shown(k) => Shown(k)'
  <2> DEFINE s == [type |-> "PriceDivergence", pair |-> pair,
                   spread_bps |-> spread, source_tx |-> heard]
  <2>1. signals' = Append(signals, s)
    BY <1>2 DEF PublishDivergence
  <2>2. PICK n \in DOMAIN signals' : signals'[n] = s
    <3>1. DOMAIN signals' = 1 .. Len(signals) + 1 /\ Len(signals) \in Nat
          /\ signals'[Len(signals) + 1] = s
      BY <2>1, OneMoreSignal
    <3> QED
      BY <3>1
  <2>3. /\ signals'[n].type = "PriceDivergence" /\ signals'[n].pair = pair
        /\ signals'[n].source_tx = heard'
    BY <2>2
  <2>4. \E i \in DOMAIN signals' :
          /\ signals'[i].type = "PriceDivergence"
          /\ signals'[i].pair = pair
          /\ signals'[i].source_tx = heard'
    BY <2>2, <2>3
  <2>5. ASSUME NEW k, k = pair
        PROVE  Shown(k)'
    BY <2>4, <2>5 DEF Shown
  <2>6. ASSUME NEW k, Shown(k)
        PROVE  Shown(k)'
    BY <2>1, <2>6, OneMoreSignal DEF Shown
  <2> QED
    BY <2>5, <2>6
<1> QED
  BY <1>1, <1>2

\* A step that leaves a swap being handled takes it, or goes on with it: to the
\* next pair, or with the same.
LEMMA HandlingStep ==
  ASSUME AgentOK, [Next]_vars, Handling'
  PROVE  \/ HandleSwap /\ Observe
         \/ /\ Handling /\ heard' = heard
            /\ \/ DetectNothing /\ pair' = pair + 1 /\ signals' = signals
               \/ PublishDivergence /\ pair' = pair + 1
               \/ UNCHANGED <<pair, signals>>
<1> USE DEF agentVars, Handling
<1>1. CASE UNCHANGED vars
  BY <1>1 DEF vars
<1>2. CASE SendItem \/ SendEnds \/ SendFails \/ Feed \/ Cancel \/ Detect
  BY <1>2 DEF SendItem, SendEnds, SendFails, Feed, Cancel, Detect
<1>3. CASE SubscribeOk \/ SubscribeFails \/ StopOnCancel \/ StreamEnds
           \/ ParserPanics \/ SkipItem
  BY <1>3 DEF SubscribeOk, SubscribeFails, StopOnCancel, StreamEnds,
              ParserPanics, SkipItem, Receive
<1>4. CASE DetectNothing
  BY <1>4, NextPairFacts DEF AgentOK, DetectNothing, AfterNothing
<1>5. CASE PublishDivergence
  BY <1>5, NextPairFacts DEF AgentOK, PublishDivergence
<1> QED
  BY <1>1, <1>2, <1>3, <1>4, <1>5, Actions

\* No pair that has diverged all the time is passed without a signal.
LEMMA SteadyStep == AgentOK /\ SteadyShown /\ [Next]_vars => SteadyShown'
<1> SUFFICES ASSUME AgentOK, SteadyShown, [Next]_vars, Handling',
                    NEW k \in steady'
             PROVE  k \in 1 .. 3 /\ Diverges(swap, k)'
                      /\ (k < pair' => Shown(k)')
  BY DEF SteadyShown
<1>1. k \in 1 .. 3 /\ Diverges(swap, k)'
  <2>1. CASE Observe
    <3>1. k \in DivergingPairs(swap)'
      BY <2>1, ObserveFacts
    <3> QED
      BY <3>1 DEF DivergingPairs
  <2>2. CASE UNCHANGED vars
    <3>1. Handling /\ k \in steady /\ UNCHANGED <<prices, swap>>
      BY <2>2 DEF vars, agentVars, Handling
    <3> QED
      BY <3>1, SamePrices DEF SteadyShown
  <2> QED
    BY <2>1, <2>2, Actions
<1>2. CASE HandleSwap
  BY <1>1, <1>2 DEF HandleSwap
<1>3. ASSUME Handling
      PROVE  /\ k \in steady /\ Diverges(swap, k)
             /\ (k < pair => Shown(k)) /\ pair \in 1 .. 3
  BY <1>3, ObserveFacts DEF SteadyShown, AgentOK
<1>4. CASE Handling /\ heard' = heard /\ DetectNothing /\ pair' = pair + 1
           /\ signals' = signals
  <2>1. k # pair
    BY <1>3, <1>4, DetectedFacts DEF DetectNothing
  <2>2. k < pair' => k < pair
    BY <1>1, <1>3, <1>4, <2>1
  <2> QED
    BY <1>1, <1>3, <1>4, <2>2, ShownStays
<1>5. CASE Handling /\ heard' = heard /\ PublishDivergence /\ pair' = pair + 1
  <2>1. k < pair' => k < pair \/ k = pair
    BY <1>1, <1>3, <1>5
  <2> QED
    BY <1>1, <1>3, <1>5, <2>1, ShownStays
<1>6. CASE Handling /\ heard' = heard /\ UNCHANGED <<pair, signals>>
  BY <1>1, <1>3, <1>6, ShownStays
<1> QED
  BY <1>2, <1>4, <1>5, <1>6, HandlingStep

-----------------------------------------------------------------------------
\* The invariant and what follows from it.

IInv == AgentOK /\ SpreadHeld /\ SteadyShown

\* The invariant holds at the start and is kept by every step.
LEMMA Inductive ==
  /\ Init => IInv
  /\ IInv /\ [Next]_vars => IInv'
<1>1. Init => IInv
  <2> SUFFICES ASSUME Init PROVE IInv
    OBVIOUS
  <2>1. stream \in Seq(Range(stream)) /\ Len(stream) \in Nat
    <3>1. stream \in Seq(Range(stream))
      BY MarketAssumption DEF Init
    <3> QED
      BY <3>1, LenProperties
  <2>2. /\ << >> \in Seq(Range(stream)) /\ << >> \in Seq(Range(<< >>))
        /\ Len(<< >>) = 0
    BY EmptySeq
  <2>3. prices = << >> /\ DOMAIN << >> = {}
    BY DEF Init
  <2>4. prices \in [DOMAIN prices -> {q.price : q \in Quotes}]
    BY <2>3
  <2>5. AgentOK
    BY <2>1, <2>2, <2>4 DEF Init, AgentOK
  <2> QED
    BY <2>5 DEF Init, IInv, SpreadHeld, SteadyShown, Handling
<1>2. IInv /\ [Next]_vars => IInv'
  BY AgentStep, SpreadStep, SteadyStep DEF IInv
<1> QED
  BY <1>1, <1>2

\* Only two actions add a signal.
LEMMA WhoSignals ==
  ASSUME [Next]_vars
  PROVE  UNCHANGED signals \/ HandleSwap \/ PublishDivergence
<1> USE DEF agentVars
<1>1. CASE UNCHANGED vars
  BY <1>1 DEF vars
<1>2. CASE SendItem \/ SendEnds \/ SendFails \/ Feed \/ Cancel \/ Detect
           \/ DetectNothing
  BY <1>2 DEF SendItem, SendEnds, SendFails, Feed, Cancel, Detect, DetectNothing
<1>3. CASE SubscribeOk \/ SubscribeFails \/ StopOnCancel \/ StreamEnds
           \/ ParserPanics \/ SkipItem
  BY <1>3 DEF SubscribeOk, SubscribeFails, StopOnCancel, StreamEnds,
              ParserPanics, SkipItem
<1> QED
  BY <1>1, <1>2, <1>3, Actions

\* However prices move between detect_divergence and the publishing of what it
\* answered, a divergence that is signalled was there, with that spread, while
\* the agent handled the swap.
THEOREM DivergencesAreReal == Spec => DivergenceWasReal
<1> DEFINE Real ==
      \A i \in DOMAIN signals' \ DOMAIN signals :
        LET s == signals'[i] IN
        s.type = "PriceDivergence" => <<s.pair, s.spread_bps>> \in held
<1>1. IInv /\ [Next]_vars => [Real]_vars
  <2> SUFFICES ASSUME IInv, [Next]_vars PROVE Real
    OBVIOUS
  <2>1. CASE UNCHANGED signals
    BY <2>1
  <2>2. ASSUME NEW s, signals' = Append(signals, s)
        PROVE  \A i \in DOMAIN signals' \ DOMAIN signals : signals'[i] = s
    BY <2>2, OneMoreSignal DEF IInv
  <2>3. CASE HandleSwap
    <3>1. \A i \in DOMAIN signals' \ DOMAIN signals :
            signals'[i].type = "LargeSwap"
      BY <2>2, <2>3 DEF HandleSwap
    <3> QED
      BY <3>1
  <2>4. CASE PublishDivergence
    <3>1. \A i \in DOMAIN signals' \ DOMAIN signals :
            signals'[i].pair = pair /\ signals'[i].spread_bps = spread
      BY <2>2, <2>4 DEF PublishDivergence
    <3>2. <<pair, spread>> \in held
      BY <2>4 DEF PublishDivergence, IInv, SpreadHeld
    <3> QED
      BY <3>1, <3>2
  <2> QED
    BY <2>1, <2>3, <2>4, WhoSignals
<1> QED
  BY <1>1, Inductive, PTL DEF Spec, DivergenceWasReal

\* A step that ends the handling of a swap does so at the last pair.
LEMMA LastPair ==
  ASSUME AgentOK, [Next]_vars, Handling, ~Handling'
  PROVE  /\ heard' = heard /\ pair = 3
         /\ \/ DetectNothing /\ signals' = signals
            \/ PublishDivergence
<1> USE DEF agentVars, Handling
<1>1. CASE UNCHANGED vars
  BY <1>1 DEF vars
<1>2. CASE SendItem \/ SendEnds \/ SendFails \/ Feed \/ Cancel \/ Detect
  BY <1>2 DEF SendItem, SendEnds, SendFails, Feed, Cancel, Detect
<1>3. CASE SubscribeOk \/ SubscribeFails \/ StopOnCancel \/ StreamEnds
           \/ ParserPanics \/ SkipItem \/ HandleSwap
  BY <1>3 DEF SubscribeOk, SubscribeFails, StopOnCancel, StreamEnds,
              ParserPanics, SkipItem, HandleSwap, Receive
<1>4. CASE DetectNothing
  BY <1>4, NextPairFacts DEF AgentOK, DetectNothing, AfterNothing
<1>5. CASE PublishDivergence
  BY <1>5, NextPairFacts DEF AgentOK, PublishDivergence
<1> QED
  BY <1>1, <1>2, <1>3, <1>4, <1>5, Actions

\* The loop over the pairs of exchanges misses no divergence that was there all
\* the time it took, whatever prices do to the other pairs.
THEOREM SteadyIsSignalled == Spec => SteadyDivergenceSignalled
<1> DEFINE AllShown == Handling /\ ~Handling' => \A k \in steady : Signalled(k)
<1>1. IInv /\ [Next]_vars => [AllShown]_vars
  <2> SUFFICES ASSUME IInv, [Next]_vars, Handling, ~Handling', NEW k \in steady
               PROVE  Signalled(k)
    OBVIOUS
  <2>1. /\ heard' = heard /\ pair = 3
        /\ \/ DetectNothing /\ signals' = signals
           \/ PublishDivergence
    BY LastPair DEF IInv
  <2>2. k \in 1 .. 3 /\ Diverges(swap, k) /\ (k < pair => Shown(k))
    BY DEF IInv, SteadyShown
  <2>3. CASE k = pair
    <3>1. ~DetectNothing
      BY <2>2, <2>3, DetectedFacts DEF IInv, DetectNothing
    <3> QED
      BY <2>1, <2>3, <3>1, ShownStays DEF IInv, Shown, Signalled
  <2>4. CASE k # pair
    <3>1. Shown(k)
      BY <2>1, <2>2, <2>4
    <3>2. Shown(k)'
      BY <2>1, <3>1, ShownStays DEF IInv
    <3> QED
      BY <2>1, <3>2 DEF Shown, Signalled
  <2> QED
    BY <2>3, <2>4
<1> QED
  BY <1>1, Inductive, PTL DEF Spec, SteadyDivergenceSignalled

-----------------------------------------------------------------------------
\* The large swaps.

\* Until the agent stops, what is in the channel and what is unsent is the rest
\* of the stream, in order: no error and no swap costs an item behind it.
RestAhead ==
  pc # "stopped" =>
    /\ heard + Len(channel) + Len(unsent) = Len(stream)
    /\ \A i \in 1 .. Len(channel) : channel[i] = stream[heard + i]
    /\ \A i \in 1 .. Len(unsent) :
         unsent[i] = stream[heard + Len(channel) + i]

\* Every step keeps the rest of the stream ahead.
LEMMA RestStep == AgentOK /\ RestAhead /\ [Next]_vars => RestAhead'
<1> SUFFICES ASSUME AgentOK, RestAhead, [Next]_vars, pc' # "stopped"
             PROVE  /\ heard' + Len(channel') + Len(unsent') = Len(stream')
                    /\ \A i \in 1 .. Len(channel') :
                         channel'[i] = stream'[heard' + i]
                    /\ \A i \in 1 .. Len(unsent') :
                         unsent'[i] = stream'[heard' + Len(channel') + i]
  BY DEF RestAhead
<1> USE DEF agentVars, streamVars
<1>1. CASE pc = "stopped"
  BY <1>1, Actions, NextPairFacts
     DEF AgentOK, vars, SubscribeOk, SubscribeFails, SendItem, SendFails,
         SendEnds, StopOnCancel, StreamEnds, ParserPanics, SkipItem, HandleSwap,
         DetectNothing, Detect, PublishDivergence, Feed, Cancel, Receive
<1>2. ASSUME pc # "stopped"
      PROVE  /\ heard + Len(channel) + Len(unsent) = Len(stream)
             /\ \A i \in 1 .. Len(channel) : channel[i] = stream[heard + i]
             /\ \A i \in 1 .. Len(unsent) :
                  unsent[i] = stream[heard + Len(channel) + i]
  BY <1>2 DEF RestAhead
<1>3. /\ Len(channel) \in Nat /\ Len(unsent) \in Nat /\ heard \in Nat
      /\ channel \in Seq(Range(stream)) /\ unsent \in Seq(Range(stream))
  BY ItemFacts DEF AgentOK
<1>4. CASE pc # "stopped" /\ UNCHANGED <<heard, channel, unsent, stream>>
  BY <1>2, <1>4
<1>5. CASE pc # "stopped" /\ SendItem
  <2>1. /\ Head(unsent) \in Range(stream) /\ unsent # << >>
        /\ channel' = Append(channel, Head(unsent)) /\ unsent' = Tail(unsent)
        /\ UNCHANGED <<heard, stream>>
    BY <1>5, ItemFacts DEF SendItem
  <2>2. /\ Len(channel') = Len(channel) + 1
        /\ \A i \in 1 .. Len(channel) : channel'[i] = channel[i]
        /\ channel'[Len(channel) + 1] = Head(unsent)
    BY <1>3, <2>1, AppendProperties
  <2>3. /\ Head(unsent) = unsent[1] /\ Len(unsent') = Len(unsent) - 1
        /\ Len(unsent) > 0
        /\ \A i \in 1 .. Len(unsent') : unsent'[i] = unsent[i + 1]
    <3>1. /\ Head(unsent) = unsent[1] /\ Len(unsent') = Len(unsent) - 1
          /\ \A i \in 1 .. Len(unsent') : unsent'[i] = unsent[i + 1]
      BY <1>3, <2>1, HeadTailProperties
    <3>2. Len(unsent) # 0
      BY <1>3, <2>1, EmptySeq
    <3> QED
      BY <1>3, <3>1, <3>2
  <2>4. ASSUME NEW i \in 1 .. Len(channel')
        PROVE  channel'[i] = stream'[heard' + i]
    <3>1. CASE i = Len(channel) + 1
      <4>1. channel'[i] = unsent[1]
        BY <2>2, <2>3, <3>1
      <4>2. unsent[1] = stream[heard + Len(channel) + 1]
        BY <1>2, <1>3, <1>5, <2>3
      <4>3. heard + Len(channel) + 1 = heard' + i
        BY <1>3, <2>1, <3>1
      <4> QED
        BY <2>1, <4>1, <4>2, <4>3
    <3>2. CASE i \in 1 .. Len(channel)
      BY <1>2, <1>5, <2>1, <2>2, <3>2
    <3> QED
      BY <1>3, <2>2, <3>1, <3>2
  <2>5. ASSUME NEW i \in 1 .. Len(unsent')
        PROVE  unsent'[i] = stream'[heard' + Len(channel') + i]
    <3>1. unsent'[i] = unsent[i + 1] /\ i + 1 \in 1 .. Len(unsent)
      BY <1>3, <2>3
    <3>2. heard + Len(channel) + (i + 1) = heard' + Len(channel') + i
      BY <1>3, <2>1, <2>2
    <3>3. unsent[i + 1] = stream[heard + Len(channel) + (i + 1)]
      BY <1>2, <1>5, <3>1
    <3> QED
      BY <2>1, <3>1, <3>2, <3>3
  <2>6. heard' + Len(channel') + Len(unsent') = Len(stream')
    BY <1>2, <1>3, <1>5, <2>1, <2>2, <2>3
  <2> QED
    BY <2>4, <2>5, <2>6
<1>6. CASE Receive /\ UNCHANGED <<stream, unsent>>
  <2>1. /\ pc = "recv" /\ channel # << >> /\ channel' = Tail(channel)
        /\ heard' = heard + 1
    BY <1>6 DEF Receive
  <2>2. /\ Len(channel') = Len(channel) - 1
        /\ \A i \in 1 .. Len(channel') : channel'[i] = channel[i + 1]
    BY <1>3, <2>1, HeadTailProperties
  <2>3. ASSUME NEW i \in 1 .. Len(channel')
        PROVE  channel'[i] = stream'[heard' + i]
    <3>1. channel'[i] = channel[i + 1] /\ i + 1 \in 1 .. Len(channel)
      BY <1>3, <2>2
    <3>2. heard + (i + 1) = heard' + i
      BY <1>3, <2>1
    <3>3. channel[i + 1] = stream[heard + (i + 1)]
      BY <1>2, <2>1, <3>1
    <3> QED
      BY <1>6, <3>1, <3>2, <3>3
  <2>4. ASSUME NEW i \in 1 .. Len(unsent')
        PROVE  unsent'[i] = stream'[heard' + Len(channel') + i]
    <3>1. heard + Len(channel) + i = heard' + Len(channel') + i
      BY <1>3, <2>1, <2>2
    <3> QED
      BY <1>2, <1>6, <2>1, <3>1
  <2>5. heard' + Len(channel') + Len(unsent') = Len(stream')
    BY <1>2, <1>3, <1>6, <2>1, <2>2
  <2> QED
    BY <2>3, <2>4, <2>5
<1>7. pc # "stopped" =>
        \/ UNCHANGED <<heard, channel, unsent, stream>>
        \/ SendItem
        \/ Receive /\ UNCHANGED <<stream, unsent>>
  BY Actions
     DEF vars, SubscribeOk, SubscribeFails, SendFails, SendEnds, StopOnCancel,
         StreamEnds, ParserPanics, SkipItem, HandleSwap, DetectNothing, Detect,
         PublishDivergence, Feed, Cancel
<1> QED
  BY <1>1, <1>4, <1>5, <1>6, <1>7

\* The streams carry such items, whose meaning is what they parse to.
StreamsMeant == \A s \in Streams : \A i \in DOMAIN s : StreamItem(s[i])

\* The item the agent takes next is the next of the stream, and understood.
LEMMA NextItemFacts ==
  ASSUME StreamsMeant, AgentOK, RestAhead, Receive
  PROVE  /\ heard \in Nat /\ heard' = heard + 1
         /\ ~TooMany(stream[heard']) => Parsed = stream[heard'].swap
         /\ TooMany(stream[heard']) => stream[heard'].swap = NoSwap
<1>1. /\ heard \in Nat /\ heard' = heard + 1 /\ pc = "recv"
      /\ channel # << >> /\ Len(channel) \in Nat /\ Len(channel) > 0
      /\ Len(unsent) \in Nat
  BY ItemFacts DEF Receive
<1>2. /\ channel[1] = stream[heard + 1]
      /\ heard + Len(channel) + Len(unsent) = Len(stream)
  BY <1>1 DEF RestAhead
<1>3. NextItem = channel[1]
  <2>1. channel \in Seq(Range(stream))
    BY DEF AgentOK
  <2> QED
    BY <1>1, <2>1, HeadTailProperties DEF NextItem
<1>4. heard + 1 \in DOMAIN stream /\ stream \in Streams
  <2>1. stream \in Seq(Range(stream)) /\ stream \in Streams
    BY MarketAssumption DEF AgentOK
  <2>2. DOMAIN stream = 1 .. Len(stream) /\ Len(stream) \in Nat
    BY <2>1, LenProperties
  <2> QED
    BY <1>1, <1>2, <2>1, <2>2
<1>5. StreamItem(stream[heard + 1])
  BY <1>4 DEF StreamsMeant
<1>6. Parsed = ParsedOf(stream[heard + 1])
  BY <1>2, <1>3 DEF Parsed, ParsedOf
<1> QED
  BY <1>1, <1>5, <1>6, ItemsAreUnderstood

\* No new item and no new large swap: what is signalled still mirrors the
\* stream.
LEMMA MirrorStays ==
  ASSUME LargeSwapsMirrorStream, UNCHANGED <<stream, heard, swap>>,
         Handling' => Handling, LargeSwaps' = LargeSwaps,
         \A i \in LargeSwaps : signals'[i] = signals[i]
  PROVE  LargeSwapsMirrorStream'
<1>1. Meant' = Meant /\ Oversized' = Oversized
  BY DEF Meant, Oversized
<1>2. {signals'[i].source_tx : i \in LargeSwaps'}
        = {signals[i].source_tx : i \in LargeSwaps}
  OBVIOUS
<1> QED
  BY <1>1, <1>2 DEF LargeSwapsMirrorStream

\* A swap taken from the stream is one more large swap, behind all others.
LEMMA MirrorGrows ==
  ASSUME StreamsMeant, AgentOK, RestAhead, LargeSwapsMirrorStream, HandleSwap
  PROVE  LargeSwapsMirrorStream'
<1> PICK s : /\ signals' = Append(signals, s)
             /\ s = [type |-> "LargeSwap", dex |-> Parsed.dex,
                     value_eth |-> Parsed.amount, source_tx |-> heard']
  BY DEF HandleSwap
<1>1. PICK n : n = Len(signals) + 1
  OBVIOUS
<1>2. /\ DOMAIN signals = 1 .. n - 1 /\ n \in Nat
      /\ DOMAIN signals' = 1 .. n /\ signals'[n] = s
      /\ \A i \in DOMAIN signals : signals'[i] = signals[i]
  BY <1>1, OneMoreSignal
<1>3. LargeSwaps' = LargeSwaps \cup {n} /\ n \notin LargeSwaps
      /\ \A i \in LargeSwaps : i \in 1 .. n - 1 /\ signals'[i] = signals[i]
  <2>1. s.type = "LargeSwap"
    OBVIOUS
  <2> QED
    BY <1>2, <2>1 DEF LargeSwaps
<1>4. /\ heard \in Nat /\ heard' = heard + 1 /\ stream' = stream
      /\ Parsed # NoSwap /\ swap' = Parsed
      /\ ~TooMany(stream[heard']) => Parsed = stream[heard'].swap
      /\ TooMany(stream[heard']) => stream[heard'].swap = NoSwap
  BY NextItemFacts DEF HandleSwap
<1>5. /\ Oversized' = Oversized \cup (IF TooMany(stream[heard'])
                                      THEN {heard'} ELSE {})
      /\ Meant' = Meant \cup (IF TooMany(stream[heard'])
                              THEN {} ELSE {heard'})
      /\ \A p \in Meant \cup Oversized : p \in Nat /\ p < heard'
  BY <1>4 DEF Meant, Oversized, TooMany
<1>6. {signals'[i].source_tx : i \in LargeSwaps'} \ Oversized' = Meant'
  <2>1. {signals[i].source_tx : i \in LargeSwaps} \ Oversized = Meant
    BY DEF LargeSwapsMirrorStream
  <2>2. {signals'[i].source_tx : i \in LargeSwaps'}
          = {signals[i].source_tx : i \in LargeSwaps} \cup {heard'}
    <3>1. signals'[n].source_tx = heard'
      BY <1>2
    <3> QED
      BY <1>3, <3>1
  <2>3. heard' \notin Meant \cup Oversized /\ heard' \in Nat
    BY <1>4, <1>5
  <2>4. \A i \in LargeSwaps : signals[i].source_tx # heard'
    BY <2>1, <2>3
  <2> QED
    BY <1>5, <2>1, <2>2, <2>3, <2>4
<1>7. ASSUME NEW i \in LargeSwaps', NEW j \in LargeSwaps', i < j
      PROVE  signals'[i].source_tx < signals'[j].source_tx
  <2>1. i \in LargeSwaps
    BY <1>2, <1>3, <1>7
  <2>2. signals[i].source_tx \in Meant \cup Oversized
    BY <2>1 DEF LargeSwapsMirrorStream
  <2>3. CASE j = n
    BY <1>2, <1>3, <1>5, <2>1, <2>2, <2>3
  <2>4. CASE j \in LargeSwaps
    BY <1>3, <1>7, <2>1, <2>4 DEF LargeSwapsMirrorStream
  <2> QED
    BY <1>3, <2>3, <2>4
<1>8. ASSUME NEW i \in LargeSwaps'
      PROVE  LET meant == stream'[signals'[i].source_tx].swap IN
             signals'[i].source_tx \notin Oversized' =>
               /\ signals'[i].dex = meant.dex
               /\ signals'[i].value_eth = meant.amount
  <2>1. CASE i = n
    <3>1. /\ signals'[i].source_tx = heard' /\ signals'[i].dex = Parsed.dex
          /\ signals'[i].value_eth = Parsed.amount
      BY <1>2, <2>1
    <3> QED
      BY <1>4, <1>5, <3>1
  <2>2. CASE i \in LargeSwaps
    BY <1>3, <1>4, <1>5, <2>2 DEF LargeSwapsMirrorStream
  <2> QED
    BY <1>3, <2>1, <2>2
<1>9. heard' \notin Oversized' => swap' = stream'[heard'].swap
  BY <1>4, <1>5
<1> QED
  BY <1>6, <1>7, <1>8, <1>9 DEF LargeSwapsMirrorStream

\* Every step keeps the mirror.
LEMMA MirrorStep ==
  ASSUME StreamsMeant, AgentOK, RestAhead, LargeSwapsMirrorStream, [Next]_vars
  PROVE  LargeSwapsMirrorStream'
<1> USE DEF agentVars, streamVars
<1>1. CASE HandleSwap
  BY <1>1, MirrorGrows
<1>2. CASE SkipItem
  <2>1. Parsed = NoSwap /\ UNCHANGED <<signals, stream>> /\ ~Handling'
    BY <1>2 DEF SkipItem, Receive, Handling
  <2>2. /\ heard \in Nat /\ heard' = heard + 1
        /\ stream[heard'].swap = NoSwap
    BY <1>2, <2>1, NextItemFacts DEF SkipItem
  <2>3. Meant' = Meant /\ LargeSwaps' = LargeSwaps
    BY <2>1, <2>2 DEF Meant, LargeSwaps
  <2>4. /\ Oversized \subseteq Oversized'
        /\ Oversized' \subseteq Oversized \cup {heard'}
        /\ heard' \notin Meant \cup Oversized
    BY <2>1, <2>2 DEF Meant, Oversized
  <2>5. /\ {signals[i].source_tx : i \in LargeSwaps} \ Oversized = Meant
        /\ \A i, j \in LargeSwaps :
             i < j => signals[i].source_tx < signals[j].source_tx
        /\ \A i \in LargeSwaps :
             LET meant == stream[signals[i].source_tx].swap IN
             signals[i].source_tx \notin Oversized =>
               /\ signals[i].dex = meant.dex
               /\ signals[i].value_eth = meant.amount
    BY DEF LargeSwapsMirrorStream
  <2>6. {signals[i].source_tx : i \in LargeSwaps} \ Oversized' = Meant
    BY <2>4, <2>5
  <2> QED
    BY <2>1, <2>3, <2>4, <2>5, <2>6 DEF LargeSwapsMirrorStream
<1>3. CASE PublishDivergence
  <2> PICK s : signals' = Append(signals, s) /\ s.type = "PriceDivergence"
    BY <1>3 DEF PublishDivergence
  <2>1. PICK n : n = Len(signals) + 1
    OBVIOUS
  <2>2. /\ DOMAIN signals = 1 .. n - 1 /\ n \in Nat
        /\ DOMAIN signals' = 1 .. n /\ signals'[n] = s
        /\ \A i \in DOMAIN signals : signals'[i] = signals[i]
    BY <2>1, OneMoreSignal
  <2>3. /\ LargeSwaps' = LargeSwaps
        /\ \A i \in LargeSwaps : signals'[i] = signals[i]
    BY <2>2 DEF LargeSwaps
  <2>4. UNCHANGED <<stream, heard, swap>> /\ Handling
    BY <1>3 DEF PublishDivergence, Handling
  <2> QED
    BY <2>3, <2>4, MirrorStays
<1>4. CASE UNCHANGED <<stream, heard, swap, signals>> /\ (Handling' => Handling)
  BY <1>4, MirrorStays DEF LargeSwaps
<1>5. CASE SubscribeOk \/ SubscribeFails \/ SendItem \/ SendFails \/ SendEnds
           \/ StopOnCancel \/ StreamEnds \/ ParserPanics \/ Feed \/ Cancel
  BY <1>4, <1>5
     DEF SubscribeOk, SubscribeFails, SendItem, SendFails, SendEnds,
         StopOnCancel, StreamEnds, ParserPanics, Feed, Cancel, Handling
<1>6. CASE DetectNothing \/ Detect \/ UNCHANGED vars
  BY <1>4, <1>6 DEF DetectNothing, Detect, vars, Handling
<1> QED
  BY <1>1, <1>2, <1>3, <1>5, <1>6, Actions

\* Whatever calls a stream carries, with errors and other transactions between
\* them and however the task and the agent take turns, the agent signals each
\* swap that was meant, once, in order and with its amount, and nothing else but
\* what the parser makes of calldata that declares a path no memory holds
\* (agent.rs:93); also where it panics on such calldata.
THEOREM LargeSwapsAreMirrored ==
  ASSUME \A s \in Streams : \A i \in DOMAIN s : StreamItem(s[i])
  PROVE  Spec => []LargeSwapsMirrorStream
<1>1. StreamsMeant
  BY DEF StreamsMeant
<1>2. Init => RestAhead /\ LargeSwapsMirrorStream
  <2> SUFFICES ASSUME Init PROVE RestAhead /\ LargeSwapsMirrorStream
    OBVIOUS
  <2>1. /\ heard = 0 /\ channel = << >> /\ unsent = stream /\ signals = << >>
        /\ ~Handling
    BY DEF Init, Handling
  <2>2. Len(channel) = 0 /\ DOMAIN signals = {} /\ Len(stream) \in Nat
    <3>1. stream \in Seq(Range(stream))
      BY MarketAssumption DEF Init
    <3>2. Len(stream) \in Nat
      BY <3>1, LenProperties
    <3> QED
      BY <2>1, <3>2
  <2>3. RestAhead
    BY <2>1, <2>2 DEF RestAhead
  <2>4. LargeSwaps = {} /\ Meant = {}
    BY <2>1, <2>2 DEF LargeSwaps, Meant
  <2> QED
    BY <2>1, <2>3, <2>4 DEF LargeSwapsMirrorStream
<1>3. IInv /\ RestAhead /\ LargeSwapsMirrorStream /\ [Next]_vars
        => (RestAhead /\ LargeSwapsMirrorStream)'
  BY <1>1, RestStep, MirrorStep DEF IInv
<1> QED
  BY <1>2, <1>3, Inductive, PTL DEF Spec

-----------------------------------------------------------------------------
\* The refinement of TradingPipeline's market agent.

PipelineLog == [i \in DOMAIN signals |-> PipelineSignal(signals[i])]

\* A signal published here is a message published there.
LEMMA LogAppends ==
  ASSUME AgentOK, NEW s, signals' = Append(signals, s),
         NEW m, m = PipelineSignal(s)
  PROVE  PipelineLog' = Append(PipelineLog, m)
<1> PICK n \in Nat : n = Len(signals)
  BY OneMoreSignal
<1>1. /\ DOMAIN signals = 1 .. n /\ DOMAIN signals' = 1 .. n + 1
      /\ signals'[n + 1] = s /\ \A i \in 1 .. n : signals'[i] = signals[i]
  BY OneMoreSignal
<1> PICK S : S = {PipelineSignal(signals[i]) : i \in DOMAIN signals} \cup {m}
  OBVIOUS
<1>2. PipelineLog \in [1 .. n -> S] /\ m \in S
  BY <1>1 DEF PipelineLog
<1>3. PipelineLog \in Seq(S) /\ Len(PipelineLog) = n
  BY <1>2, SeqDef, LenProperties
<1>4. /\ DOMAIN Append(PipelineLog, m) = 1 .. n + 1
      /\ \A i \in 1 .. n : Append(PipelineLog, m)[i] = PipelineLog[i]
      /\ Append(PipelineLog, m)[n + 1] = m
      /\ Append(PipelineLog, m) \in Seq(S)
  BY <1>2, <1>3, AppendProperties, LenProperties
<1>5. /\ DOMAIN PipelineLog' = 1 .. n + 1
      /\ \A i \in 1 .. n + 1 : PipelineLog'[i] = PipelineSignal(signals'[i])
      /\ PipelineLog' = [i \in 1 .. n + 1 |-> PipelineLog'[i]]
  BY <1>1 DEF PipelineLog
<1>6. ASSUME NEW i \in 1 .. n + 1
      PROVE  PipelineLog'[i] = Append(PipelineLog, m)[i]
  <2>1. CASE i = n + 1
    BY <1>1, <1>4, <1>5, <2>1
  <2>2. CASE i \in 1 .. n
    <3>1. PipelineLog[i] = PipelineSignal(signals[i])
      BY <1>1, <2>2 DEF PipelineLog
    <3> QED
      BY <1>1, <1>4, <1>5, <2>2, <3>1
  <2>3. i = n + 1 \/ i \in 1 .. n
    OBVIOUS
  <2> QED
    BY <2>1, <2>2, <2>3, Zenon
<1>7. Append(PipelineLog, m) = [i \in 1 .. n + 1 |-> Append(PipelineLog, m)[i]]
  <2>1. Append(PipelineLog, m) \in [1 .. n + 1 -> S]
    BY <1>4, LenProperties
  <2> QED
    BY <2>1
<1> QED
  BY <1>5, <1>6, <1>7

\* Where the pipeline sees its market agent.
Seen == IF Handling THEN "diverge" ELSE pc

\* The control of the other agents does not move.
LEMMA PipelinePcFacts ==
  /\ PipelinePc["market"] = Seen
  /\ PipelinePc' = [PipelinePc EXCEPT !["market"] = Seen']
  /\ Seen' = Seen => PipelinePc' = PipelinePc
BY DEF PipelinePc, PipelineConsumers, Seen

\* What the pipeline sees of the agent, all but its control: untouched by a
\* step that publishes nothing, takes nothing and stays with the same pair.
LEMMA PipelineStutters ==
  ASSUME UNCHANGED <<signals, cancelled, heard, pair>>, Seen' = Seen
  PROVE  UNCHANGED Pipeline!vars
BY PipelinePcFacts
   DEF Pipeline!vars, Pipeline!busVars, Pipeline!marketVars, Pipeline!workVars,
       Pipeline!executionVars, PipelineLog

\* Steps of its task and its channel, of the prices, and of the loop before it
\* publishes: the pipeline does not see them.
LEMMA InnerSteps ==
  ASSUME \/ SendItem \/ SendFails \/ SendEnds \/ Feed \/ Detect
         \/ UNCHANGED vars
  PROVE  UNCHANGED Pipeline!vars
<1>1. UNCHANGED <<signals, cancelled, heard, pair>>
  BY DEF SendItem, SendFails, SendEnds, Feed, Detect, vars, agentVars
<1>2. Seen' = Seen
  BY DEF SendItem, SendFails, SendEnds, Feed, Detect, vars, agentVars, Seen,
         Handling
<1> QED
  BY <1>1, <1>2, PipelineStutters

\* Subscribing, and the two ways to stop.
LEMMA StartAndStop ==
  ASSUME SubscribeOk \/ SubscribeFails \/ StopOnCancel \/ StreamEnds
         \/ ParserPanics
  PROVE  Pipeline!MarketStart \/ Pipeline!MarketStop \/ Pipeline!MarketStreamEnds
<1> USE DEF Pipeline!Goto, Pipeline!busVars, Pipeline!marketVars,
            Pipeline!workVars, Pipeline!executionVars, Seen, Handling
<1>1. CASE SubscribeOk \/ SubscribeFails
  <2>1. Seen = "spawned" /\ Seen' \in {"recv", "stopped"}
    BY <1>1 DEF SubscribeOk, SubscribeFails
  <2>2. UNCHANGED <<signals, cancelled, heard, pair>>
    BY <1>1 DEF SubscribeOk, SubscribeFails
  <2>3. Pipeline!Goto("market", "recv") \/ Pipeline!Goto("market", "stopped")
    <3> HIDE DEF Seen
    <3> QED
      BY <2>1, PipelinePcFacts
  <2> QED
    BY <2>1, <2>2, <2>3, PipelinePcFacts DEF Pipeline!MarketStart
<1>2. CASE StopOnCancel
  BY <1>2, PipelinePcFacts DEF StopOnCancel, Pipeline!MarketStop
<1>3. CASE StreamEnds \/ ParserPanics
  <2>1. Seen = "recv" /\ Seen' = "stopped"
    BY <1>3 DEF StreamEnds, ParserPanics
  <2>2. UNCHANGED <<signals, cancelled, heard, pair>>
    BY <1>3 DEF StreamEnds, ParserPanics
  <2>3. Pipeline!Goto("market", "stopped")
    <3> HIDE DEF Seen
    <3> QED
      BY <2>1, PipelinePcFacts
  <2> QED
    BY <2>1, <2>2, <2>3, PipelinePcFacts DEF Pipeline!MarketStreamEnds
<1> QED
  BY <1>1, <1>2, <1>3

\* ctrl-c.
LEMMA CancelImplements ==
  ASSUME Cancel
  PROVE  Pipeline!Cancel
BY PipelinePcFacts
   DEF Cancel, agentVars, Pipeline!Cancel, Pipeline!busVars,
       Pipeline!marketVars, Pipeline!workVars, Pipeline!executionVars, Seen,
       Handling

\* An item that is no swap.
LEMMA SkipImplements ==
  ASSUME AgentOK, SkipItem
  PROVE  Pipeline!MarketSkip
<1>1. pc = "recv" /\ Seen = "recv" /\ Seen' = Seen /\ heard' = heard + 1
      /\ UNCHANGED <<signals, cancelled, pair>>
  BY DEF SkipItem, Receive, Seen, Handling
<1>2. heard < MaxItems
  BY ItemFacts, MarketAssumption DEF AgentOK, SkipItem, Receive
<1> QED
  BY <1>1, <1>2, PipelinePcFacts
     DEF Pipeline!MarketSkip, Pipeline!busVars, Pipeline!marketVars,
         Pipeline!workVars, Pipeline!executionVars

\* A message in the pipeline's log.
LEMMA PublishImplements ==
  ASSUME AgentOK, NEW s, signals' = Append(signals, s)
  PROVE  Pipeline!Publish(PipelineSignal(s))
<1>1. PipelineLog' = Append(PipelineLog, PipelineSignal(s))
  BY LogAppends
<1>2. PipelineConsumers # {}
  BY DEF PipelineConsumers
<1> QED
  BY <1>1, <1>2 DEF Pipeline!Publish, PipelineLog

\* A large swap.
LEMMA SwapImplements ==
  ASSUME AgentOK, HandleSwap
  PROVE  Pipeline!MarketSwap
<1>1. pc = "recv" /\ Seen = "recv" /\ Seen' = "diverge" /\ heard' = heard + 1
      /\ pair' = 1 /\ UNCHANGED cancelled
  BY DEF HandleSwap, Receive, Seen, Handling
<1>2. heard < MaxItems
  BY ItemFacts, MarketAssumption DEF AgentOK, HandleSwap, Receive
<1> PICK s : /\ signals' = Append(signals, s)
             /\ s = [type |-> "LargeSwap", dex |-> Parsed.dex,
                     value_eth |-> Parsed.amount, source_tx |-> heard']
  BY DEF HandleSwap
<1>3. PipelineSignal(s) = [kind |-> "Signal", cause |-> 0,
                           body |-> [type |-> "LargeSwap", spread |-> 0]]
  BY DEF PipelineSignal
<1>4. Pipeline!Publish([kind |-> "Signal", cause |-> 0,
                        body |-> [type |-> "LargeSwap", spread |-> 0]])
  BY <1>3, PublishImplements
<1> QED
  BY <1>1, <1>2, <1>4, PipelinePcFacts
     DEF Pipeline!MarketSwap, Pipeline!Goto, Pipeline!workVars,
         Pipeline!executionVars

\* On to the next pair.
LEMMA NextPairImplements ==
  ASSUME AgentOK, Handling, NextPair
  PROVE  Pipeline!NextPair
<1>1. Seen = "diverge"
  BY DEF Seen
<1>2. CASE pair = 3 /\ pair' = 3 /\ pc' = "recv"
  <2>1. Seen' = "recv"
    BY <1>2 DEF Seen, Handling
  <2> QED
    BY <1>2, <2>1, PipelinePcFacts DEF Pipeline!NextPair, Pipeline!Goto
<1>3. CASE pair # 3 /\ pair' = pair + 1 /\ pc' = "detect"
  <2>1. Seen' = "diverge"
    BY <1>3 DEF Seen, Handling
  <2> QED
    BY <1>1, <1>3, <2>1, PipelinePcFacts DEF Pipeline!NextPair
<1> QED
  BY <1>2, <1>3, NextPairFacts DEF AgentOK

\* A pair without a divergence.
LEMMA NothingImplements ==
  ASSUME AgentOK, DetectNothing
  PROVE  Pipeline!MarketNoDivergence
<1>1. Handling /\ NextPair /\ UNCHANGED <<signals, cancelled, heard>>
  BY DEF DetectNothing, AfterNothing, Handling
<1> QED
  BY <1>1, NextPairImplements, PipelinePcFacts
     DEF Pipeline!MarketNoDivergence, Pipeline!busVars, Pipeline!workVars,
         Pipeline!executionVars, Seen

\* A divergence signalled, with a spread the pipeline admits.
LEMMA DivergenceImplements ==
  ASSUME AgentOK, SpreadHeld, PublishDivergence
  PROVE  Pipeline!MarketDivergence
<1>1. Handling /\ NextPair /\ UNCHANGED <<cancelled, heard>>
  BY DEF PublishDivergence, Handling
<1>2. spread \in ThresholdBps .. MaxSpread /\ pair \in 1 .. 3
  BY DEF PublishDivergence, SpreadHeld, AgentOK
<1> PICK s : /\ signals' = Append(signals, s)
             /\ s = [type |-> "PriceDivergence", pair |-> pair,
                     spread_bps |-> spread, source_tx |-> heard]
  BY DEF PublishDivergence
<1>3. PipelineSignal(s) =
        [kind |-> "Signal", cause |-> 0,
         body |-> [type |-> "PriceDivergence", spread |-> spread]]
  BY DEF PipelineSignal
<1>4. Pipeline!Publish([kind |-> "Signal", cause |-> 0,
                        body |-> [type |-> "PriceDivergence",
                                  spread |-> spread]])
  BY <1>3, PublishImplements
<1> QED
  BY <1>1, <1>2, <1>4, NextPairImplements, PipelinePcFacts
     DEF Pipeline!MarketDivergence, Pipeline!workVars, Pipeline!executionVars,
         Seen

\* The agent with its stream, its channel, its parser and its prices does to
\* the rest of the system only what TradingPipeline lets its market agent do.
THEOREM AgentImplementsPipelineMarket == Spec => ImplementsPipelineMarket
<1>1. IInv /\ [Next]_vars
        => [Pipeline!MarketStep \/ Pipeline!Cancel]_(Pipeline!vars)
  <2> SUFFICES ASSUME IInv, [Next]_vars
               PROVE  Pipeline!MarketStep \/ Pipeline!Cancel
                        \/ UNCHANGED Pipeline!vars
    OBVIOUS
  <2>1. AgentOK /\ SpreadHeld
    BY DEF IInv
  <2>2. CASE \/ SendItem \/ SendFails \/ SendEnds \/ Feed \/ Detect
             \/ UNCHANGED vars
    BY <2>2, InnerSteps
  <2>3. CASE SubscribeOk \/ SubscribeFails \/ StopOnCancel \/ StreamEnds
             \/ ParserPanics
    BY <2>3, StartAndStop DEF Pipeline!MarketStep
  <2>4. CASE SkipItem
    BY <2>1, <2>4, SkipImplements DEF Pipeline!MarketStep
  <2>5. CASE HandleSwap
    BY <2>1, <2>5, SwapImplements DEF Pipeline!MarketStep
  <2>6. CASE DetectNothing
    BY <2>1, <2>6, NothingImplements DEF Pipeline!MarketStep
  <2>7. CASE PublishDivergence
    BY <2>1, <2>7, DivergenceImplements DEF Pipeline!MarketStep
  <2>8. CASE Cancel
    BY <2>8, CancelImplements
  <2> QED
    BY <2>2, <2>3, <2>4, <2>5, <2>6, <2>7, <2>8, Actions
<1> QED
  BY <1>1, Inductive, PTL DEF Spec, ImplementsPipelineMarket

=============================================================================
