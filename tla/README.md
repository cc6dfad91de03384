# A TLA+ verification of the DeFi trading agents

This directory holds TLA+ models of the trading agents under `src/crates/`, TLC
configurations that check them on small instances, and proofs that TLAPS checks
for every instance. Paths below are relative to `src/`; `rules.rs` and the like
are in `crates/risk-agent/src/` and so on, as `PROJECT.json` spells out.

## The system

Four agents run as tokio tasks of one process and talk over one message bus.
The orchestrator builds the bus, spawns the agents, waits for ctrl-c, cancels a
shared token and joins the tasks.

    market data --Signal--> strategy --Intent--> risk --Validated--> execution
                                                       --Executed--> bus

| component | state | operations | what makes it correct |
|---|---|---|---|
| message bus (`messaging/src/bus.rs`) | a tokio broadcast ring, one read position per receiver | publish, subscribe, recv (message, Lagged, Closed), dropping a receiver or a clone | each receiver gets what is published after it subscribed, in order, at most once, and misses only what the ring overwrote; closing is seen after the last message |
| market data agent (`agent.rs`, `rpc.rs`) | its mempool stream, fed by a task of its own through a channel | subscribe, skip an item, publish a LargeSwap and up to three PriceDivergence signals, stop | it signals what was sent and what diverged; both tasks end when it is cancelled or the stream ends |
| transaction parser (`parser.rs`) | none | parse_swap | it undoes the ABI encoding of the calls it knows and refuses calls cut short and calls it does not know; calldata that declares a path longer than memory it may misread, or panic on (see "What the checks found") |
| price tracker (`price_tracker.rs`) | a map of quotes, shared with whoever feeds it | update_price, detect_divergence | a divergence is two prices that were there at one moment |
| strategy agent, `ArbitrageStrategy` | the signal at hand, the strategy whose turn it is | evaluate each strategy, publish its intent | every intent answers a signal; the intent is a trade the next agent can accept |
| risk agent (`rules.rs`, `state.rs`) | exposure, daily loss | five rules, risk score, add_exposure, publish | the exposure stays within its limit and agrees with what was approved, also when a monitor changes it meanwhile |
| execution agent | the nonce counter, the trade in flight | nonce, build, sign, send or dry run, publish the result | one result per trade; nonces unique and accounted for, also after a restart or a sync; results say what happened; a dry run sends nothing |
| circuit breaker (`circuit_breaker.rs`) | state, failure count, time of the last failure, trips, each behind a lock or atomic of its own | allow_request, record_success, record_failure, reset | it opens after enough failures and never locks everyone out |
| retry (`retry.rs`) | backoff and attempt, local to a caller | retry_with_backoff | the first success or the last error, and the documented sleeps in between |
| orchestrator (`main.rs`) | the cancellation token, four join handles | spawn, cancel, join | it exits after ctrl-c |
| configuration, message types, errors (`common/`) | none | loading, cloning | -- |

### What is hard about it

* **Concurrency.** The agents interleave at every await; consumers are spawned
  after the market agent and subscribe at their own time, and publish reaches
  only the receivers there are.
* **Loss.** The ring overwrites what a slow receiver has not read. Every agent
  reads every message, so traffic between two agents makes a third one lag.
* **Failure.** The mempool subscription, signing and sending may fail. A failed
  send does not tell whether the network took the transaction.
* **Cancellation.** `select!` takes a ready branch at random. A handler is not
  interrupted, but whatever is unread when the cancelled branch is taken stays
  unread.
* **Split state.** The breaker's fields are locked one by one; a task acts on
  values it read some awaits ago. The exposure tracker and the prices are shared
  too, and checked and changed under separate locks.
* **Restart.** Nothing is stored. A new process starts with no exposure and the
  nonce 0, whatever the chain has seen.

`PROJECT.json` lists each hazard with its line and the properties that would
catch it going wrong, or the reason why none does yet.

## The modules

| module | what it is |
|---|---|
| `MessageBus` | the operations of the bus, for the modules below to use |
| `BusDelivery` | the bus by itself: clones that publish and are dropped, subscribers that come and go |
| `LossyQueues`, `BusDeliveryProofs` | what the bus promises: a bounded queue per subscriber; theorems about `BusDelivery`, that it implements this among them |
| `RiskRules` | the five rules of the risk agent as predicates, and `Validate` |
| `ArbitrageStrategy` | `ArbitrageStrategy::evaluate` as a function of the signal |
| `TradingPipeline` | the four agents and the orchestrator on one bus |
| `MCTradingPipeline` | strategies and limits for TLC |
| `TradingPipelineProofs` | theorems about `TradingPipeline` |
| `TradeLifecycle`, `PipelineLifecycleProofs` | what the pipeline promises about each trade, without agents, messages or queues; the proof that `TradingPipeline` implements it, and theorems about nonces, results and exposure |
| `CircuitBreaker` | the breaker, shared by several tasks, one step per access of a shared field |
| `BreakerContract` | the breaker as its state diagram. `CircuitBreaker` implements it for calls that do not overlap |
| `CircuitBreakerProofs` | theorems about `CircuitBreaker` |
| `Retry`, `MCRetry`, `RetryProofs` | `retry_with_backoff`, from await to await; policies for TLC; theorems |
| `TxParser` | `parse_swap` as a function, and the ABI encoding it is to undo |
| `PriceTracker` | `update_price` and `detect_divergence` |
| `MarketData`, `MCMarketData`, `MarketDataProofs` | the inside of the market data agent: mempool task, channel, agent, feeder. It implements the market agent of `TradingPipeline`. Theorems about it and about the parser |
| `SharedState`, `MCSharedState`, `SharedStateProofs` | the exposure tracker and the nonce manager used by several tasks and over restarts; theorems |
| `AmountSums` | sums of amounts over finite sets, for the proofs that need them |

### How state and actions correspond to the code

**Bus.** `log` is every message the channel accepted; the newest `Capacity` of
them are the ring. `next[s]` is a receiver's position. `Publish` appends, or
drops the message if there is no receiver (the caller logs the error and goes
on); `RecvOk` is the arm of `recv` that returns a message, `RecvLagged` the
Lagged arm, after which the loop goes round, `ReceiveClosed` the Closed arm.
The broadcast channel itself is tokio's: `Oldest`, `Unread` and `Lagged` state
what `bus.rs` relies on. A position of the log stands for the envelope's UUID.

**Agents.** `pc[a]` is where a task is: `spawned` before it subscribes, `recv`
in its `select!`, `stopped` after its loop; the rest are the points of a handler
at which another task can be seen to run. A step is the code from one such point
to the next, everything it does included: `RiskApprove` is `validate`,
`compute_risk_score`, `add_exposure` and `publish`, which no await separates and
whose tracker no other task has. The execution agent has four points, before
the nonce, before the answer of `sign`, before the answer of
`send_transaction`, and before the publish. The market agent publishes its
signals one at a time, because consumers may answer the first before the second
is there. The Closed arm does not occur here: `main` keeps a clone of the bus
until all agents are joined.

**Data.** A message is its kind, its body and, for the properties only, the
position it answers. Of an intent the fields that the rules, the broadcast or
the strategy read are kept, amounts as naturals of one unit. Of a result the trade and the kind of
outcome are kept: like the code's, it names no nonce. `Answers` gives, for
each strategy and signal, the set of answers it may give, so `TradingPipeline`
is about every deterministic or nondeterministic strategy; it is assumed that
there is at least one. `QuotedPairs` names the pairs of exchanges that have quotes: none as wired, any
of the three once somebody feeds the tracker. Of the risk score, the exposure it was computed from is
kept. A broadcaster is the network, which may err before or after it took the
transaction, or a `DryRunBroadcaster`, which never errs.

**Auxiliary state.** Three things are kept that the code does not keep, for the properties only; no
action reads them, and the header of the module says so. A message has the position of the message it
answers (`cause`). What reached the network is recorded with its nonce and the position of its trade
(`sent`), and its amounts are added up (`sent_eth`).

**Trades.** `Book` shows the pipeline as `TradeLifecycle` sees it: for every approval
on the bus its amount, whether the execution agent has begun it, the nonces with which it is at the
network, the outcomes its results name or the execution agent has at hand, and whether it is reported.
Approvals that the ring overwrites before they are read stay fresh for ever.

**Orchestrator.** `Cancel` is ctrl-c and `cancel.cancel()`, `Exit` the join.
That `main` today installs a mock mempool without transactions, or an RPC client
that refuses to subscribe, is the case `MaxTxs = 0`; the model allows what the
traits allow.

**Breaker.** Every lock or atomic access is an action. What a task read is in
`pc`, `count` and `stamp`. An `Instant` is kept as its age, counted up to
`ResetTimeout`, since `elapsed() >= reset_timeout` is all the code asks of it.
Where the code changes two fields under one lock, the two are one step.
`overlapped` is true from the moment two calls meet until no call is under way.

**Retry.** A step is the code between two awaits: an answer of the operation, or
the end of a sleep. `Drop` is the caller losing interest, at either of them.

**Market data.** `SendItem` and the two ways `StreamTask` ends are the spawned
task of the mock client, `channel` the mpsc channel between them. `Receive` and
what follows is the agent up to its next await; each of its three looks at the
prices (`Detect`, `DetectNothing`) and each publish after one is a step, and `Feed`
may come between any two. An item carries, besides its calldata, the swap its
sender encoded in it (or none), which no action reads: `LargeSwapsMirrorStream`
compares the two. Calldata is a selector, words and a rest of less than a word;
the code reads at word boundaries only. Offsets are `usize`: `LastTokenOffset` and `LastTokenEnd`
wrap at `UsizeRange`, as a release build does, and where they would (`OffsetOverflows`) a build
with overflow checks panics instead. The model allows both: `HandleSwap` and `SkipItem` go on with what
the wrapped offset gives, `ParserPanics` ends the task. Where the wrapped end lies before the wrapped
start (`SlicePanics`) every build panics. Prices are naturals; comparison with the threshold is
exact, the spread is kept in whole basis points.

**Shared state.** In `TradingPipeline` the risk agent decides in one step, since
as wired nobody else has its tracker. In `SharedState` a monitor has, and the
decision is one step per lock: the exposure is read, the loss is read, the
exposure is added, the trade is published. The monitor (`Settle`, `RecordLoss`,
`ResetDaily`) and the recovery task (`FetchNonce`, `SyncNonce`) are not in
the repository: they are the callers its operations offer themselves to. `Restart` is `main` run
again, `WiredSpec` the same without the monitor and the recovery task, `Mine` the chain, which takes an account's transactions in nonce order.

## The runs

Each run is one configuration; every property of a passing run has a mutant in
`PROJECT.json`, a plausible mistake in one definition that TLC finds with that
property under the same configuration.

| run | shows | bounds |
|---|---|---|
| `bus` | receivers get what follows their subscription, in order and once (`InOrderFromSubscription`); only overwritten messages are missed (`OnlyOverwrittenAreMissed`); Closed comes after the last message (`ClosedMeansDrained`) and ends every receiver (`ClosingEndsReceivers`); retained messages arrive (`Delivered`); the ring implements `LossyQueues` | 2 clones, 2 subscribers, ring of 2, 4 messages: a receiver can lag twice, leave and come back on a wrapped ring |
| `pipeline` | `ExposureWithinLimit`, `ExposureIsSumOfApprovals`, `SentWithinExposure`, `Traceable`, `AnsweredOnceInOrder`, `NoncesAccounted`, `SentInNonceOrder`, `SentIsReported`, `TransactionsKeepRules`, `OutcomesTruthful` with failures and cancellation anywhere; all of it implements `TradeLifecycle` (`ImplementsLifecycle`) | 1 swap and 1 divergence, so up to two intents, approvals, trades, nonces and results; a ring of 2, so that every agent can lag and approvals are overwritten; a limit of 4 which two trades of 2 fill and trades of 2 and 3 would pass; a gas limit of 10, below the default of 30; intents that pass without a gas price and with one at the limit, that have the same token twice, slip, or offer too much for gas |
| `pipeline_live` | `ShutdownCompletes`, `TradesComplete`, and `ApprovedIsExecuted` with two approvals in the execution agent's inbox, and `OutcomesTruthful` in a dry run that was handed a network broadcaster | 1 swap, two strategies that both answer it, a ring of 2, cancellation at every point; a dry run, so that here signing may fail but not sending. `Watched` = {1, 2}: the first and the second approval are followed, wherever on the log they lie |
| `pipeline_gas` | a transaction **can** reach the network above the gas limit | 1 swap, a gas limit of 10 |
| `pipeline_drain` | the code does **not** drain an agent's inbox before it exits | 1 swap |
| `pipeline_wired` | the installed strategy's intents are **not** trades the risk agent can accept | 1 swap, a divergence of 60 bps |
| `breaker` | `OpenIsRecoverable`, `NeverOpensEarly`, `OpenIsLeft`, and `ImplementsContract` whenever no calls overlap | 2 tasks, threshold 2, timeout of 2 ticks, 4 failures: an opening and two reopenings, and a failure counted by one task while the other closes or resets |
| `breaker_one_probe` | HalfOpen lets **more than one** caller through | 2 tasks, 4 failures |
| `retry` | `FirstSuccessOrLastError`, `WaitsFollowSchedule` | 0 to 4 retries; first backoffs of 0, below, at and above the limit; two errors |
| `market` | `LargeSwapsMirrorStream`, `DivergenceWasReal`, `SteadyDivergenceSignalled`, `BothTasksEnd`, `ImplementsPipelineMarket` | streams of up to 2 items out of both V2 calls, paths of 2 and 3 tokens, V3 calls, calls with bytes behind them, and ten kinds of item that are no swap, among them declared lengths that wrap the offset onto the first token, put the end before the start, and are cut to 2; a channel of 1, so that the task waits; 3 price updates, prices at, above and below the threshold |
| `shared` | `ExposureWithinLimit`, `ExposureIsOpenTrades`, `LossStopsTrading`, `DisciplinedNoncesAreMined` | 3 trades of 1 or 2 against a limit of 3; losses of 1 and 2 up to 3 against a limit of 2, so that a day's loss comes to less than the limit, to the limit and to more, in one piece or several; 2 lives of the process |
| `shared_nonces` | as wired, nonces are **not** unique across a restart | 2 lives of the process |

The bounds are `MaxMessages` (length of the log), `MaxTxs` (items of the mempool
stream of the pipeline), `MaxFailures` (calls of `record_failure`), `MaxUpdates`
(calls of `update_price`), `MaxTrades`, `MaxLoss` and `MaxLives` (trades, losses
and starts in `SharedState`); each is a guard of the
action it limits. The streams of `MarketData` and the policies of `Retry` are
given. Nothing else is bounded: with `MaxTxs` items the
pipeline has finitely many messages, nonces and transactions. The parser is checked
with addresses below 16, amounts below 1024 and offsets below 512, at which the small calls of
the run overflow; its theorems hold for the widths of the code. The agents are
few and each has its own part, so there is nothing to be gained from more of
them; what matters is that the ring is smaller than the traffic, that the limit
is reached, and that each failure can happen, and they do: the mutants of the
properties are found by exactly those cases.

`bus` runs without the deadlock check, because publishers and subscribers may all
have gone, and `shared_nonces`, because the last life of the process may have nothing left to do. In every other run a state without a successor would be an error;
`Exited` is the end of the process.

### Fairness

* A task that can go on is polled: weak fairness of `Poll(s)`, the next step of consumer `s`
  whatever it is, for each of them, and of the market agent's steps, as tokio's scheduler gives.
* `Stop` and `MarketStop` have strong fairness. With a message always ready,
  `select!` chooses at random between two ready branches, so `cancelled()` is
  taken with probability one, but not after any fixed number of rounds.
* `sign` and `send_transaction` are taken to answer, one way or the other. The
  code sets no timeout (`tx_timeout_secs` has no reader), so this is an
  assumption about the environment and not about the code.
* The mempool stream need not deliver, the user need not press ctrl-c, and a
  publisher need not publish or be dropped.
* The mempool task and the agent of `MarketData` are polled (weak fairness of the
  steps of each). The feeder need not feed and nobody need cancel: `BothTasksEnd`
  holds because the stream is finite, and in every interleaving with a cancellation.
* Callers of the breaker finish a call they began, and ask again; strong fairness
  of `AllowRead` says that a caller is not for ever busy reporting failures when
  it asks. Nothing makes a call succeed or fail.

## What the checks found

* **Inbox not drained** (`pipeline_drain`). `README.md:133` says that "agents
  drain their inbox before exiting". The cancelled branch breaks out of the loop
  at once; what is unread, an approved trade included, stays unread. What does
  hold is that a trade already taken is carried to its end (`TradesComplete`).
* **The installed strategy cannot trade** (`pipeline_wired`).
  `ArbitrageStrategy::evaluate` names the zero address as both tokens and
  `check_sanity` refuses that.
* **More than one probe** (`breaker_one_probe`). `circuit_breaker.rs:70` says
  "Allow one probe request"; HalfOpen answers true to all.
* **The gas limit does not hold for the default price** (`pipeline_gas`). `rules.rs:51` says "Check that
  the trade's gas price does not exceed the maximum allowed"; `README.md:115` speaks, more
  narrowly, of the price "on intent". An intent without a gas price has nothing to check, for any limit (the test at
  `rules.rs:174` has it so), and is sent at 30 gwei (`agent.rs:131`). With a limit below 30 the trade
  reaches the network above it; `configs/trading.toml` has 200. What does hold for every limit is
  `TransactionsKeepRules`: no other transaction is above it, and none is sent at a price that is neither
  the intent's nor the default. The run `pipeline` has a limit of 10.
* **Nonces are not unique across restarts** (`shared_nonces`). `nonce.rs:6` promises "no two transactions
  share the same nonce", and `README.md:122` that `sync()` is called on startup; `main` starts at 0
  (`main.rs:161`) and nobody calls `sync`. Within one life of the process `SentInNonceOrder` holds. Across
  restarts, `DisciplinedNoncesAreMined` is what callers of `sync` would have to see to: a sync after each
  start, before its first trade, that stores an answer the chain gave when all was mined and no
  trade was under way. It is a condition on code that is not there, is checked by TLC only, and says
  nothing of the program as wired.

Three more things the models show, which are no run of their own:

* **The offset of the last token overflows.** `(path_len - 1) * 32` (`parser.rs:102`) is a `usize`
  product of a length read from the calldata. From 2^59 - 6 declared tokens on, the offset or its end does not fit.
  A build with overflow checks panics: the market agent's task is gone, and the pipeline goes on
  without signals until ctrl-c (`ParserPanics`; `MarketStreamEnds` of the pipeline). A release build
  wraps: of 2^59 + 1 declared tokens the last is looked for where the first is, the check of the next
  line passes, and a swap of a token for itself is signalled (`WrappedPathsAreMisread`). With 2^59 - 6
  the end of the slice wraps and its start does not, which panics in every build (`SlicePanics`). All of
  these are, scaled down, items of the run `market`; `LargeSwapsMirrorStream` says nothing of the signal such an item may bring, and that the items
  around it are signalled as they should be.
* **A loss equal to the limit.** `README.md:116` says trades are rejected when the daily loss "exceeds" the
  limit; `rules.rs:70` rejects with `>=`, and its comment (`rules.rs:64`) says "reached". The two documents
  disagree, and the code follows the nearer one. `LossStopsTrading` speaks of losses above the
  limit, where both agree.
* **A closed circuit may become HalfOpen.** Between reading the state and writing HalfOpen a task holds no
  lock; another task may have gone through HalfOpen to Closed meanwhile, and the write does not look
  (`circuit_breaker.rs:58`). The next single failure then opens a circuit that should have been
  Closed. The diagram of `README.md:131` can be read as one of calls that do not overlap, which
  is what `ImplementsContract` says of it. Recovery does not suffer (`OpenIsRecoverable`, `OpenIsLeft`).

## What is proved

All theorems hold for every value of the constants that meets the assumptions
`CapacityAssumption`, `RiskAssumption`, `PipelineAssumption`,
`BreakerAssumption`, `RetryAssumption`, `SharedAssumption`, `ParserAssumption` and
`MarketAssumption`, which TLC evaluates in the runs: any ring, any number of
subscribers, any strategies, any limits, any length of the mempool stream; any threshold,
timeout and number of callers of the breaker; any policy; any number of trades,
losses and restarts; any streams, quotes and channel; any width of words. Every
invariant, action property and refinement that a passing run checks is the
statement of a theorem, but for `DisciplinedNoncesAreMined`. Of these only
`LargeSwapsAreMirrored` has a hypothesis, below.

### The bus

`BusDeliveryProofs`, from `Inductive == Spec => []IInv`:

| theorem | property | what the proof needs |
|---|---|---|
| `TypeCorrect` | `TypeOK` | nothing else |
| `DeliveryInOrder` | `InOrderFromSubscription` | `SinceBehind`: a position never lies before the start of its subscription |
| `NothingElseMissed` | `OnlyOverwrittenAreMissed` | the two above; a lag moves the position to the oldest message retained, so what it passes over is overwritten |
| `ClosedIsTheEnd` | `ClosedMeansDrained` | `TypeOK`: without a publisher the log no longer grows |
| `BusImplementsQueues` | `ImplementsQueues` | `IInv`, and four facts on the end of a sequence (`RestAppend`, `RestTail`, `RestOverflow`, `RestEmpty`) |

The refinement maps the log and a read position to a queue: the messages from the
position on, those the ring has overwritten meanwhile included. `Publish` appends to the queue of every
receiver at once; `RecvOk` takes the first message of one. A position in the
overwritten part is a queue longer than `Capacity`, and the Lagged arm, which moves
the position to the oldest message retained, is `Overflow`: it drops exactly what is over `Capacity`.

### The pipeline

`TradingPipelineProofs`, from `Inductive == Spec => []IInv`:

| theorem | property | what the proof needs |
|---|---|---|
| `TypeCorrect` | `TypeOK` | `HandlingOK`: a working agent's `handling` is a message of its kind behind its read position. Without it, nothing says that the body the risk agent approves is an intent |
| `ExposureLimited` | `ExposureWithinLimit` | `TypeOK` and the guard of `RiskApprove` |
| `SentCoveredByExposure` | `SentWithinExposure` | `Ledger` and `SentCovered` |
| `NonceOrder` | `SentInNonceOrder` | `SentOrdered`: what was sent is below the nonce at hand and the trade at hand |
| `OneAnswerInOrder` | `AnsweredOnceInOrder` | `CausesOrdered`: what was answered lies behind the read position, and before the message being worked on |
| `MessagesTraceable` | `Traceable` | `HandlingOK`: an agent publishes in answer to the message it holds, and no later message changes that one |
| `NetworkKeepsRules` | `TransactionsKeepRules` | `Traced`: a transaction is of an approved trade, which passed the rules |

The inductive invariant of `SentCoveredByExposure` deserves a word. Sent amounts and
exposure are sums kept by two agents which share only messages, and messages get
lost. `Ledger` uses that every approval records the exposure it led to: approvals are
intervals of the exposure that follow each other without overlap and end below it.
`SentCovered` says that what was sent, with any one trade that may still be sent, fits below
the end of that trade's interval. Sending trade `h` adds its interval; every later
trade's interval begins where `h`'s ended or above. No sum over the log is needed.

All of these rest on `BusStep`: whatever an agent does, the log only grows by
at most one message, entries do not change, and no read position goes back.

`PipelineLifecycleProofs` proves `PipelineKeepsLifecycle`, which is `ImplementsLifecycle`:
`RiskApprove` is the abstract `Approve`, `TakeNonce` is `Begin`, the answer of `sign` or
`send_transaction` is `Answer`, `Report` is `Report`, and every other step of the agents,
the bus and the orchestrator leaves the book as it is (`QuietSteps`). Besides `IInv` it
needs `ReceivingOK`: an agent in its loop holds a receiver. Without it a decision could
raise the exposure while the channel, having no receiver, refuses the approval. From
the same two invariants, with `ResultsInv`:

| theorem | property | what the proof needs |
|---|---|---|
| `EveryNonceAccounted` | `NoncesAccounted` | `ReceivingOK`: the report of the trade in hand gets onto the bus; and `CausesOrdered`: a trade taken was not reported before, so the count grows with the nonce |
| `EverySendReported` | `SentIsReported` | the same, for what reached the network |
| `ResultsTellTheTruth` | `OutcomesTruthful` | `ResultsTrue`: a dry run reaches no network and is the only source of DryRun; a Success about to be reported has reached it |
| `ExposureCountsApprovals` | `ExposureIsSumOfApprovals` | `SumStep`: an approval adds one amount to the sum and to the exposure, any other step leaves both |

**Sums.** A sum of the model is a fold, a recursive function over subsets of an index set, and
nothing says in which order the fold takes them. `AmountSums` shows that
the sum is a number of units, the pairs of an index and one of the units of its amount
(`SumIsUnits`), so that one more index adds its amount (`SumWithOneMore`). That needs
an induction over the size of the set. The library's induction theorems are out of the
provers' reach, so `NaturalsIn` states induction as a fact about a set, that one
which has 0 and with `n` also `n + 1` includes `Nat`, and proves it from the library's
facts about finite sets: otherwise adding 1 would map the members below a missing
number into themselves, one to one but not onto.

### The shared pieces

`CircuitBreakerProofs` proves `TypeCorrect`, `OpenRecoverable` and `NotEarly` for any
number of callers from an invariant that ties what each task carries over its
awaits to the fields: a task about to open the circuit has written a failure time
(and none is ever erased), and its count is at most the number of failures.
`SerialCallsFollowDiagram` is `ImplementsContract` for any number of callers: as long
as `overlapped` is false at most one call is under way, so what that
task read is still so when it acts on it, and each of its steps is a step of the
diagram or changes nothing the diagram shows.

`RetryProofs` proves `SuccessOrLastError` from an invariant that counts: the
operation has answered `attempt` times while an answer is awaited, and once more
during a sleep, with as many sleeps begun; all these answers were errors. `WaitsKeepSchedule`
(`WaitsFollowSchedule`) adds `ScheduleInv`, that `backoff` is what the schedule gives for the
attempt to come. `2^k` is a recursive function; `Doubling` gets `2^(k+1) = 2 * 2^k` from
the library's count of the subsets of a set.

`SharedStateProofs` proves three theorems from `TypeInv` and one invariant each:

| theorem | property | the invariant |
|---|---|---|
| `ExposureLimited` | `ExposureWithinLimit` | `FitsInv`: from the check to the addition the exposure leaves room for the intent. The risk agent is the only one that adds, so the monitor can only make more room |
| `TrackerAgrees` | `ExposureIsOpenTrades` | `OpenInv`: no trade is of a process yet to come, and the tracker (with the amount added and not yet published) is the sum of the open trades, by `AmountSums`. So `remove_exposure` never saturates |
| `LossStops` | `LossStopsTrading` | `BarredInv`: the tracker has the sum of the losses recorded; while barred it is above the limit, which only the reset, which lifts the bar, undoes, and the agent has not passed the loss rule |

### Market data

`MarketDataProofs` proves of the parser, with offsets that wrap and for words, addresses, amounts and
offsets of any width, `V2CallsAreDecoded` and `V3CallsAreDecoded`: it undoes the ABI encoding, for any values of
the arguments it skips, anything behind the call, and paths of any length that a `usize` can address.
`TruncatedV2CallsAreRefused`: calldata which is too short for two tokens, declares fewer than two or ends
before the last token it declares is no swap, with one exception: unless it declares a
path no memory holds (`DeclaresTooMany`). `WrappedPathsAreMisread` shows that the exception is needed:
of 2^59 + 1 tokens declared, the parser makes a swap. Of the agent:

| theorem | property | what the proof needs |
|---|---|---|
| `LargeSwapsAreMirrored` | `LargeSwapsMirrorStream` | `RestAhead`: until the agent stops, the channel and what is unsent are the rest of the stream, so no error and no unknown transaction costs an item behind it; and `ItemsAreUnderstood`, which is the parser's theorems item by item |
| `DivergencesAreReal` | `DivergenceWasReal` | `SpreadHeld`: the spread about to be published was there when the agent looked |
| `SteadyIsSignalled` | `SteadyDivergenceSignalled` | `SteadyShown`: a pair that has diverged since the swap was taken is signalled once the loop has passed it |
| `AgentImplementsPipelineMarket` | `ImplementsPipelineMarket` | `AgentOK`: what is in the channel or unsent is of the stream, and was not counted before |

The hypothesis of `LargeSwapsAreMirrored` says what a stream consists of (`StreamItem`): calls of the
three functions the parser knows, with paths of at least two tokens that fit memory and with anything
behind them, which mean their swap; errors, and any other raw transactions, which mean none: of other functions, cut
short, with fewer than two tokens, or with any length declared, those that wrap the offset
and those that panic included. What is not admitted is a foreign sequence of words that happens to be a call the
parser knows: it would be read as a swap that nobody meant. The streams of the run `market` meet it.

### Only model-checked

Liveness under fairness is out of the prover's reach: `Delivered`, `ClosingEndsReceivers`,
`ShutdownCompletes`, `TradesComplete`, `ApprovedIsExecuted`, `OpenIsLeft` and
`BothTasksEnd` are checked by TLC only, within the bounds above. So is
`DisciplinedNoncesAreMined`, a condition on callers the repository does not have.

## What is not modelled

* Operations that only read and have no caller: `is_swap`, `get_price`, `get_tx`,
  `NonceManager::current`, `subscriber_count`, the getters of the breaker.
* As the orchestrator wires it, nobody calls `remove_exposure`, `record_loss`,
  `reset_daily`, `sync` or `update_price`, and nothing uses the breaker or the retry
  loop. `TradingPipeline` is the program as wired, where exposure is
  never released, the loss checked is always 0 and nonces start at 0; the other
  modules are what these operations do once somebody calls them.
* The staleness of quotes: `price_staleness_secs` is logged and not used.
* The keys and signatures of `LocalSigner`, which `main` does not use.
* Idempotency by message id (`README.md:134`): no code compares ids. The
  model shows that the bus itself delivers no message twice.
* Floating point. Amounts are exact naturals; rounding of large wei values is
  abstracted, the truncating casts of `check_slippage` and `evaluate` are not.
* The bytes of transactions, gas estimates, hashes, logging, timestamps,
  configuration files and the command line.

## Plan

Done so far: the bus and its abstraction, the pipeline of agents, the breaker and
its contract, what the pipeline promises of a trade, the retry loop, the parser, the tracker and the inside of the
market data agent, the shared tracker and nonce manager, their runs, and the
theorems above, which state every safety property of the runs. What is left:

1. A composition of the retry loop with a call the breaker guards. No code composes the
   two yet, so there is nothing to be faithful to until it does.
2. Should somebody feed the price tracker or settle trades, the monitor and the
   feeder, which are callers made up from the operations offered, are to be replaced by that code.
