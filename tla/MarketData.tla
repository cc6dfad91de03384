----------------------------- MODULE MarketData -----------------------------
(***************************************************************************)
(* The inside of the market data agent (crates/market-data-agent): the     *)
(* task that feeds the mempool stream, the channel between them, the       *)
(* agent's select! loop with parser and price tracker, and whoever updates *)
(* prices while it looks at them.  TradingPipeline has of all this what    *)
(* the other agents see; ImplementsPipelineMarket says that it is right.   *)
(*                                                                         *)
(* An item of the stream is a raw transaction, together with the swap its  *)
(* sender meant by it, which only the properties read; or an error.        *)
(***************************************************************************)
EXTENDS TxParser, PriceTracker, SequencesExt

CONSTANTS
  Streams,       \* the streams of items subscribe_pending_txs may open
  ChannelSize,   \* 256 in the mock client
  Quotes,        \* what may be passed to update_price: [pair, price]
  MaxUpdates,    \* bound on the calls of update_price
  MaxSpread,     \* a bound on the spreads these prices can have
  MaxItems       \* a bound on the items of a stream

ASSUME MarketAssumption ==
  /\ ChannelSize \in Nat \ {0} /\ MaxUpdates \in Nat
  /\ MaxSpread \in Nat /\ MaxItems \in Nat
  /\ \A s \in Streams : s \in Seq(Range(s)) /\ Len(s) <= MaxItems
  /\ \A q \in Quotes : q.price \in Nat
  /\ \A q, r \in Quotes :
       r.price > 0 => (10000 * q.price) \div r.price - 10000 <= MaxSpread

Error == [error |-> "rpc"]

Dexes == {"UniswapV2", "UniswapV3", "SushiSwap"}

\* The pairs check_divergence compares, and its threshold.
DexPairs == <<<<"UniswapV2", "SushiSwap">>, <<"UniswapV2", "UniswapV3">>,
              <<"UniswapV3", "SushiSwap">>>>
ThresholdBps == 50

VARIABLES
  stream,      \* the items of this run
  unsent,      \* those the stream task still has
  sender,      \* the stream task: "none", "sending" or "done"
  channel,     \* the mpsc channel
  cancelled,   \* the cancellation token
  pc,          \* "spawned", "recv", "detect", "publish" or "stopped"
  heard,       \* items the agent took from the channel and parsed
  swap,        \* the swap it handles
  pair,        \* the pair of exchanges it looks at
  spread,      \* what detect_divergence answered
  signals,     \* the signals published
  updates,     \* calls of update_price so far
  held,        \* history: the divergences there were since it took the swap
  steady       \* history: the pairs that diverged all that time

streamVars == <<stream, unsent, sender, channel>>
agentVars == <<pc, heard, swap, pair, spread, signals>>
vars == <<prices, streamVars, cancelled, agentVars, updates, held, steady>>

Init ==
  /\ prices = << >>
  /\ stream \in Streams
  /\ unsent = stream
  /\ sender = "none"
  /\ channel = << >>
  /\ cancelled = FALSE
  /\ pc = "spawned"
  /\ heard = 0
  /\ swap = NoSwap
  /\ pair = 1
  /\ spread = NoSpread
  /\ signals = << >>
  /\ updates = 0
  /\ held = {}
  /\ steady = {}

-----------------------------------------------------------------------------
\* The client: MockRpcClient opens a stream, RpcClient answers with an error.

SubscribeOk ==
  /\ pc = "spawned"
  /\ pc' = "recv"
  /\ sender' = "sending"
  /\ UNCHANGED <<prices, stream, unsent, channel, cancelled, heard, swap, pair,
                 spread, signals, updates>>

SubscribeFails ==
  /\ pc = "spawned"
  /\ pc' = "stopped"
  /\ UNCHANGED <<prices, streamVars, cancelled, heard, swap, pair, spread,
                 signals, updates>>

\* tx.send(..).await: waits for room.
SendItem ==
  /\ sender = "sending"
  /\ pc # "stopped"
  /\ unsent # << >>
  /\ Len(channel) < ChannelSize
  /\ channel' = Append(channel, Head(unsent))
  /\ unsent' = Tail(unsent)
  /\ UNCHANGED <<prices, stream, sender, cancelled, agentVars, updates>>

\* Mutant: the error of send is not looked at, and the item sent again.
OnSendErrorAgain == "sending"

OnSendError == "done"

\* The receiver is gone: send answers with an error, and the task ends.
SendFails ==
  /\ sender = "sending"
  /\ pc = "stopped"
  /\ unsent # << >>
  /\ sender' = OnSendError
  /\ UNCHANGED <<prices, stream, unsent, channel, cancelled, agentVars,
                 updates>>

SendEnds ==
  /\ sender = "sending"
  /\ unsent = << >>
  /\ sender' = "done"
  /\ UNCHANGED <<prices, stream, unsent, channel, cancelled, agentVars,
                 updates>>

-----------------------------------------------------------------------------
\* The agent.

\* The receiver is dropped with what is in it.
StopOnCancel ==
  /\ pc = "recv"
  /\ cancelled
  /\ pc' = "stopped"
  /\ channel' = << >>
  /\ UNCHANGED <<prices, stream, unsent, sender, cancelled, heard, swap, pair,
                 spread, signals, updates>>

StreamEnds ==
  /\ pc = "recv"
  /\ channel = << >>
  /\ sender = "done"
  /\ pc' = "stopped"
  /\ UNCHANGED <<prices, streamVars, cancelled, heard, swap, pair, spread,
                 signals, updates>>

NextItem == Head(channel)

\* A build with overflow checks panics on the first, every build on the second.
MayPanic == NextItem.tx # Error /\ OffsetOverflows(NextItem.tx)
MustPanic == NextItem.tx # Error /\ SlicePanics(NextItem.tx)

\* The panic ends the task, which drops the receiver; main waits on.
ParserPanics ==
  /\ pc = "recv"
  /\ channel # << >>
  /\ MayPanic
  /\ pc' = "stopped"
  /\ channel' = << >>
  /\ UNCHANGED <<prices, stream, unsent, sender, cancelled, heard, swap, pair,
                 spread, signals, updates>>

Receive ==
  /\ pc = "recv"
  /\ channel # << >>
  /\ ~MustPanic
  /\ channel' = Tail(channel)
  /\ heard' = heard + 1

Parsed == IF NextItem.tx = Error THEN NoSwap ELSE ParseSwap(NextItem.tx)

SkipItem ==
  /\ Receive
  /\ Parsed = NoSwap
  /\ UNCHANGED <<prices, stream, unsent, sender, cancelled, pc, swap, pair,
                 spread, signals, updates>>

\* process_transaction up to the first look at the prices.  value_eth is the
\* amount in ether.
HandleSwap ==
  /\ Receive
  /\ Parsed # NoSwap
  /\ swap' = Parsed
  /\ signals' = Append(signals,
                       [type |-> "LargeSwap", dex |-> Parsed.dex,
                        value_eth |-> Parsed.amount, source_tx |-> heard'])
  /\ pair' = 1
  /\ pc' = "detect"
  /\ UNCHANGED <<prices, stream, unsent, sender, cancelled, spread, updates>>

\* Mutant: the first pair without a divergence ends the search.
NextPairAfterNothing == pc' = "recv" /\ UNCHANGED pair

NextPair ==
  IF pair = Len(DexPairs)
  THEN pc' = "recv" /\ UNCHANGED pair
  ELSE pair' = pair + 1 /\ pc' = "detect"

AfterNothing == NextPair

Detected ==
  DetectDivergence(swap, DexPairs[pair][1], DexPairs[pair][2], ThresholdBps)

DetectNothing ==
  /\ pc = "detect"
  /\ Detected = NoSpread
  /\ AfterNothing
  /\ UNCHANGED <<prices, streamVars, cancelled, heard, swap, spread, signals,
                 updates>>

Detect ==
  /\ pc = "detect"
  /\ Detected # NoSpread
  /\ spread' = Detected
  /\ pc' = "publish"
  /\ UNCHANGED <<prices, streamVars, cancelled, heard, swap, pair, signals,
                 updates>>

\* The read lock on the prices is gone when the signal is published.  The code
\* leaves its source_tx empty; here it is kept for the properties.
PublishDivergence ==
  /\ pc = "publish"
  /\ signals' = Append(signals,
                       [type |-> "PriceDivergence", pair |-> pair,
                        spread_bps |-> spread, source_tx |-> heard])
  /\ NextPair
  /\ UNCHANGED <<prices, streamVars, cancelled, heard, swap, spread, updates>>

-----------------------------------------------------------------------------

\* Someone who has the agent's price_tracker() feeds it.
Feed ==
  /\ updates < MaxUpdates
  /\ updates' = updates + 1
  /\ \E quote \in Quotes : UpdatePrice(quote.pair, quote.price)
  /\ UNCHANGED <<streamVars, cancelled, agentVars>>

Cancel ==
  /\ ~cancelled
  /\ cancelled' = TRUE
  /\ UNCHANGED <<prices, streamVars, agentVars, updates>>

\* The divergences there are for a swap: the higher price is more than 1.005
\* times the lower.
PricesOf(of, k) ==
  {prices[p] : p \in DOMAIN prices \cap
                       {PairOn(of, dex) : dex \in Range(DexPairs[k])}}
Low(of, k) == Min(PricesOf(of, k))
High(of, k) == Max(PricesOf(of, k))
Divergences(of) ==
  {<<k, (10000 * High(of, k)) \div Low(of, k) - 10000>> :
     k \in {k \in DOMAIN DexPairs :
             /\ Cardinality(PricesOf(of, k)) = 2
             /\ Low(of, k) > 0
             /\ 10000 * High(of, k) > 10050 * Low(of, k)}}

Handling == pc \in {"detect", "publish"}

\* The two histories: they start with the handling of a swap.
Observe ==
  IF Handling'
  THEN LET now == Divergences(swap)' IN
       /\ held' = (IF Handling THEN held ELSE {}) \cup now
       /\ steady' = {d[1] : d \in now} \cap
                      (IF Handling THEN steady ELSE DOMAIN DexPairs)
  ELSE held' = {} /\ steady' = {}

StreamTask == SendItem \/ SendFails \/ SendEnds
Loop == StopOnCancel \/ StreamEnds \/ ParserPanics \/ SkipItem \/ HandleSwap
Check == DetectNothing \/ Detect \/ PublishDivergence

Over == pc = "stopped" /\ sender # "sending" /\ UNCHANGED vars

Next ==
  \/ /\ \/ SubscribeOk \/ SubscribeFails \/ StreamTask \/ Loop \/ Check
        \/ Feed \/ Cancel
     /\ Observe
  \/ Over

Spec == Init /\ [][Next]_vars

\* The runtime polls both tasks as long as they can go on.
Fairness ==
  /\ WF_vars((SubscribeOk \/ SubscribeFails) /\ Observe)
  /\ WF_vars(StreamTask /\ Observe)
  /\ WF_vars(Loop /\ Observe)
  /\ WF_vars(Check /\ Observe)

FairSpec == Spec /\ Fairness

-----------------------------------------------------------------------------
\* Properties.

\* What the agent signals of the transactions it took is what their senders
\* meant by them, in order and one signal a swap: of a path of tokens the
\* parser finds the ends, of a truncated or a foreign call it makes nothing,
\* and an error of the stream costs no transaction behind it.  This is not said
\* of calldata that declares a path no memory holds (DeclaresTooMany): there
\* the offset of parser.rs:102 wraps, and a swap nobody meant may be signalled.
Meant == {p \in 1 .. heard : stream[p].swap # NoSwap}
Oversized ==
  {p \in 1 .. heard : stream[p].tx # Error /\ DeclaresTooMany(stream[p].tx)}
LargeSwaps == {i \in DOMAIN signals : signals[i].type = "LargeSwap"}
LargeSwapsMirrorStream ==
  /\ {signals[i].source_tx : i \in LargeSwaps} \ Oversized = Meant
  /\ \A i, j \in LargeSwaps :
       i < j => signals[i].source_tx < signals[j].source_tx
  /\ \A i \in LargeSwaps :
       LET meant == stream[signals[i].source_tx].swap IN
       signals[i].source_tx \notin Oversized =>
         signals[i].dex = meant.dex /\ signals[i].value_eth = meant.amount
  /\ Handling /\ heard \notin Oversized => swap = stream[heard].swap

\* "If both exist and the spread in basis points exceeds `threshold_bps`"
\* (price_tracker.rs:35): a divergence that is signalled was there, with that
\* spread, at a moment between the taking of the swap and the signal, however
\* prices moved meanwhile.
DivergenceWasReal ==
  [][\A i \in DOMAIN signals' \ DOMAIN signals :
       LET s == signals'[i] IN
       s.type = "PriceDivergence" => <<s.pair, s.spread_bps>> \in held]_vars

\* A divergence that lasts from the taking of the swap to the end of its
\* handling is signalled, whichever pair of exchanges it is between.
Signalled(k) ==
  \E i \in DOMAIN signals' :
    /\ signals'[i].type = "PriceDivergence"
    /\ signals'[i].pair = k
    /\ signals'[i].source_tx = heard
SteadyDivergenceSignalled ==
  [][Handling /\ ~Handling' => \A k \in steady : Signalled(k)]_vars

\* The agent stops, whether the stream ends, never opens or is cancelled, and
\* the task that feeds it does not stay behind, also when the channel is full
\* of what nobody will read.
BothTasksEnd == <>(pc = "stopped" /\ sender # "sending")

-----------------------------------------------------------------------------
\* The pipeline's market agent.

PipelineSignal(s) ==
  [kind |-> "Signal", cause |-> 0,
   body |-> [type |-> s.type,
             spread |-> IF s.type = "LargeSwap" THEN 0 ELSE s.spread_bps]]

PipelineConsumers == {"strategy", "risk", "execution"}

PipelinePc ==
  [a \in PipelineConsumers \cup {"market"} |->
     IF a # "market" THEN "spawned"
     ELSE IF Handling THEN "diverge" ELSE pc]

Pipeline == INSTANCE TradingPipeline WITH
  Subscribers <- PipelineConsumers, Capacity <- 1,
  MaxPosition <- 0, MaxSlippageBps <- 0, MaxGasPrice <- 0, DailyLossLimit <- 0,
  Tokens <- {}, NoGasPrice <- "none", NoIntent <- "none",
  Spreads <- ThresholdBps .. MaxSpread, QuotedPairs <- 1 .. 3,
  NumStrategies <- 1, Answers <- << >>, DryRun <- TRUE, Broadcaster <- "log",
  MaxTxs <- MaxItems, Watched <- {},
  log <- [i \in DOMAIN signals |-> PipelineSignal(signals[i])],
  next <- [s \in PipelineConsumers |-> 1],
  receivers <- PipelineConsumers,
  main <- IF cancelled THEN "cancelled" ELSE "running",
  pc <- PipelinePc, received <- heard, pair <- pair,
  strategy_idx <- 1, handling <- [s \in PipelineConsumers |-> 0],
  exposure <- 0, nonce <- 0, tx_nonce <- 0, outcome <- "Failed",
  sent <- << >>, sent_eth <- 0

\* Seen through what it publishes, this agent does what TradingPipeline's
\* market agent does, step by step.
ImplementsPipelineMarket ==
  [][Pipeline!MarketStep \/ Pipeline!Cancel]_(Pipeline!vars)

=============================================================================
