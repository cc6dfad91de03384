--------------------------- MODULE TradingPipeline ---------------------------
(***************************************************************************)
(* The four agents on one message bus, and the orchestrator that starts    *)
(* and cancels them (crates/orchestrator/src/main.rs):                     *)
(*                                                                         *)
(*   market --Signal--> strategy --Intent--> risk --Validated--> execution *)
(*                                                    --Executed--> bus    *)
(*                                                                         *)
(* Every agent is a task of its own; a step of the model is the code of    *)
(* one task up to its next await or its next access to the shared bus.     *)
(* All messages go through the same ring, so every consumer also reads,    *)
(* and steps over, the messages meant for the others.                      *)
(*                                                                         *)
(* Auxiliary state: a message carries, besides its payload, the position   *)
(* of the message it answers (cause), and the transactions that reached    *)
(* the network are kept with the trade they are for (sent, sent_eth).  The *)
(* code keeps no such links; no action reads them, only properties do.     *)
(***************************************************************************)
EXTENDS MessageBus, RiskRules, FiniteSets, Functions

CONSTANTS
  Spreads,         \* spreads detect_divergence may return, in bps
  QuotedPairs,     \* the DEX pairs, 1 to 3, it has both prices of; {} where
                   \* nobody feeds the price tracker, as in main.rs
  NumStrategies,   \* strategies of the strategy agent
  Answers,         \* Answers[i][signal]: what strategy i may answer
  DryRun,          \* execution.dry_run
  Broadcaster,     \* "network", or "log": a DryRunBroadcaster
  MaxTxs,          \* bound on the items of the mempool stream
  Watched          \* the trades, by the order of their approval, that the
                   \* liveness properties look at

Consumers == {"strategy", "risk", "execution"}
Agents == Consumers \cup {"market"}

Signals ==
  [type : {"LargeSwap"}, spread : {0}]
    \cup [type : {"PriceDivergence"}, spread : Spreads]

ASSUME PipelineAssumption ==
  /\ Subscribers = Consumers
  /\ Spreads \subseteq Nat
  /\ QuotedPairs \subseteq 1 .. 3
  /\ NumStrategies \in Nat \ {0}
  /\ Answers \in [1 .. NumStrategies ->
                    [Signals -> SUBSET (TradeIntent \cup {NoIntent})]]
  /\ DryRun \in BOOLEAN
  /\ Broadcaster \in {"network", "log"}
  /\ MaxTxs \in Nat
  /\ Watched \subseteq Nat \ {0}

VARIABLES
  main,          \* "running", "cancelled" (ctrl-c) or "exited"
  pc,            \* [Agents -> control state]
  received,      \* items the market agent took from the mempool stream
  pair,          \* the DEX pair check_divergence looks at, 1 to 3
  strategy_idx,  \* the strategy that evaluates next
  handling,      \* [Consumers -> position of the message being handled]
  exposure,      \* ExposureTracker.exposure
  nonce,         \* NonceManager.nonce
  tx_nonce,      \* the nonce of the transaction being built
  outcome,       \* what execute_trade returned
  sent,          \* history: transactions that reached the network
  sent_eth       \* history: the sum of their amounts

marketVars == <<received, pair>>
workVars == <<strategy_idx, handling>>
executionVars == <<nonce, tx_nonce, outcome, sent, sent_eth>>
vars == <<busVars, main, pc, marketVars, workVars, exposure, executionVars>>

ValidatedTrade == [intent : TradeIntent, projected : Nat]
Outcomes == {"Success", "Failed", "DryRun"}

\* Of the outcome the kind only: hash, price, reason and the text of a dry run
\* are left out.  None of them is a nonce.
ExecutionResult == [trade : ValidatedTrade, outcome : Outcomes]

Message ==
  [kind : {"Signal"}, cause : {0}, body : Signals]
    \cup [kind : {"Intent"}, cause : Nat, body : TradeIntent]
    \cup [kind : {"Validated"}, cause : Nat, body : ValidatedTrade]
    \cup [kind : {"Executed"}, cause : Nat, body : ExecutionResult]

\* The arm of each select! that is not "ignore", and the step it starts with.
Wants == [strategy |-> "Signal", risk |-> "Intent", execution |-> "Validated"]
FirstStep == [strategy |-> "evaluate", risk |-> "decide", execution |-> "nonce"]

Goto(a, step) == pc' = [pc EXCEPT ![a] = step]

\* The body of the message an agent is working on.
Handled(s) == log[handling[s]].body

Init ==
  /\ BusInit
  /\ main = "running"
  /\ pc = [a \in Agents |-> "spawned"]
  /\ received = 0
  /\ pair = 1
  /\ strategy_idx = 1
  /\ handling = [s \in Consumers |-> 0]
  /\ exposure = 0
  /\ nonce = 0
  /\ tx_nonce = 0
  /\ outcome = "Failed"
  /\ sent = << >>
  /\ sent_eth = 0

-----------------------------------------------------------------------------
\* The market data agent.

\* subscribe_pending_txs answers, with a stream or with an error.
MarketStart ==
  /\ pc["market"] = "spawned"
  /\ Goto("market", "recv") \/ Goto("market", "stopped")
  /\ UNCHANGED <<busVars, main, marketVars, workVars, exposure, executionVars>>

\* The cancelled branch of its select!.
MarketStop ==
  /\ pc["market"] = "recv"
  /\ main # "running"
  /\ Goto("market", "stopped")
  /\ UNCHANGED <<busVars, main, marketVars, workVars, exposure, executionVars>>

\* The stream has ended; or parse_swap has panicked, and the task with it, which
\* main's join takes for its end (MarketData says when).
MarketStreamEnds ==
  /\ pc["market"] = "recv"
  /\ Goto("market", "stopped")
  /\ UNCHANGED <<busVars, main, marketVars, workVars, exposure, executionVars>>

\* An error of the stream, or a transaction parse_swap makes nothing of.
MarketSkip ==
  /\ pc["market"] = "recv"
  /\ received < MaxTxs
  /\ received' = received + 1
  /\ UNCHANGED <<busVars, main, pc, pair, workVars, exposure, executionVars>>

MarketSwap ==
  /\ pc["market"] = "recv"
  /\ received < MaxTxs
  /\ received' = received + 1
  /\ Publish([kind |-> "Signal", cause |-> 0,
              body |-> [type |-> "LargeSwap", spread |-> 0]])
  /\ pair' = 1
  /\ Goto("market", "diverge")
  /\ UNCHANGED <<main, workVars, exposure, executionVars>>

\* Mutant: off by one at the last pair.
NextPairOverrun ==
  IF pair > 3
  THEN Goto("market", "recv") /\ UNCHANGED pair
  ELSE pair' = pair + 1 /\ UNCHANGED pc

\* One turn of the loop over the three DEX pairs.
NextPair ==
  IF pair = 3
  THEN Goto("market", "recv") /\ UNCHANGED pair
  ELSE pair' = pair + 1 /\ UNCHANGED pc

MarketNoDivergence ==
  /\ pc["market"] = "diverge"
  /\ NextPair
  /\ UNCHANGED <<busVars, main, received, workVars, exposure, executionVars>>

MarketDivergence ==
  /\ pc["market"] = "diverge"
  /\ pair \in QuotedPairs
  /\ \E spread \in Spreads :
       Publish([kind |-> "Signal", cause |-> 0,
                body |-> [type |-> "PriceDivergence", spread |-> spread]])
  /\ NextPair
  /\ UNCHANGED <<main, received, workVars, exposure, executionVars>>

-----------------------------------------------------------------------------
\* What the three consumers have in common: the loop around bus.recv().

Start(s) ==
  /\ pc[s] = "spawned"
  /\ Subscribe(s)
  /\ Goto(s, "recv")
  /\ UNCHANGED <<main, marketVars, workVars, exposure, executionVars>>

\* Mutant: the cancelled branch does not leave the loop.
StopForgotten(s) ==
  /\ pc[s] = "recv"
  /\ main # "running"
  /\ UNCHANGED vars

\* select! takes a ready branch at random, so this one may lose to recv.
Stop(s) ==
  /\ pc[s] = "recv"
  /\ main # "running"
  /\ Unsubscribe(s)
  /\ Goto(s, "stopped")
  /\ UNCHANGED <<main, marketVars, workVars, exposure, executionVars>>

SkipMissed(s) ==
  /\ pc[s] = "recv"
  /\ RecvLagged(s)
  /\ UNCHANGED <<main, pc, marketVars, workVars, exposure, executionVars>>

Ignore(s) ==
  /\ pc[s] = "recv"
  /\ RecvOk(s)
  /\ log[next[s]].kind # Wants[s]
  /\ UNCHANGED <<main, pc, marketVars, workVars, exposure, executionVars>>

Take(s) ==
  /\ pc[s] = "recv"
  /\ RecvOk(s)
  /\ log[next[s]].kind = Wants[s]
  /\ handling' = [handling EXCEPT ![s] = next[s]]
  /\ strategy_idx' = IF s = "strategy" THEN 1 ELSE strategy_idx
  /\ Goto(s, FirstStep[s])
  /\ UNCHANGED <<main, marketVars, exposure, executionVars>>

-----------------------------------------------------------------------------
\* The strategy agent.

\* One turn of the loop: strategy.evaluate(signal).await, and the publish.
StrategyEvaluate ==
  /\ pc["strategy"] = "evaluate"
  /\ \E answer \in Answers[strategy_idx][Handled("strategy")] :
       IF answer = NoIntent
       THEN UNCHANGED busVars
       ELSE Publish([kind |-> "Intent", cause |-> handling["strategy"],
                     body |-> answer])
  /\ IF strategy_idx = NumStrategies
     THEN Goto("strategy", "recv") /\ UNCHANGED strategy_idx
     ELSE strategy_idx' = strategy_idx + 1 /\ UNCHANGED pc
  /\ UNCHANGED <<main, marketVars, handling, exposure, executionVars>>

-----------------------------------------------------------------------------
\* The risk agent.  No task but this one has its ExposureTracker, and no code
\* records a loss, so a decision is one step and the loss it checks is 0.

\* Mutant: check_slippage is left out of validate.
ApprovedAtAnyPrice ==
  LET intent == Handled("risk") IN
  /\ CheckSanity(intent)
  /\ CheckExposureLimit(intent, exposure)
  /\ CheckGasPrice(intent)
  /\ CheckDailyLossLimit(0)

Approved == Validate(Handled("risk"), exposure, 0)

\* Mutant: the exposure is not tracked.
AddNothing(amount) == UNCHANGED exposure

AddExposure(amount) == exposure' = exposure + amount

RiskReject ==
  /\ pc["risk"] = "decide"
  /\ ~Approved
  /\ Goto("risk", "recv")
  /\ UNCHANGED <<busVars, main, marketVars, workVars, exposure, executionVars>>

\* compute_risk_score is taken before add_exposure; of the score only the
\* projected exposure is kept, the one part the intent does not determine.
RiskApprove ==
  /\ pc["risk"] = "decide"
  /\ Approved
  /\ AddExposure(Handled("risk").amount)
  /\ Publish([kind |-> "Validated", cause |-> handling["risk"],
              body |-> [intent |-> Handled("risk"),
                        projected |-> exposure + Handled("risk").amount]])
  /\ Goto("risk", "recv")
  /\ UNCHANGED <<main, marketVars, workVars, executionVars>>

-----------------------------------------------------------------------------
\* The execution agent.

\* Mutant: NonceManager::current() in place of next().
KeepNonce == UNCHANGED nonce

FetchAddNonce == nonce' = nonce + 1

TakeNonce ==
  /\ pc["execution"] = "nonce"
  /\ tx_nonce' = nonce
  /\ FetchAddNonce
  /\ Goto("execution", "sign")
  /\ UNCHANGED <<busVars, main, marketVars, workVars, exposure, outcome, sent,
                 sent_eth>>

\* The gas price of an intent that names none.
DefaultGasPrice == 30

\* TransactionBuilder::build, with the gas price execute_trade hands it; the
\* gas limit, the chain id and the calldata are the same for every trade or
\* repeat it.
BuildTransaction(intent, tx) ==
  [to |-> intent.token_out, value |-> intent.amount, nonce |-> tx,
   gas_price |-> IF intent.gas_price = NoGasPrice THEN DefaultGasPrice
                 ELSE intent.gas_price]

SignOk ==
  /\ pc["execution"] = "sign"
  /\ Goto("execution", "send")
  /\ UNCHANGED <<busVars, main, marketVars, workVars, exposure, executionVars>>

\* Mutant: the trade that cannot be signed is dropped, and nobody is told.
AfterSignErrorSilent == "recv"

AfterSignError == "report"

\* The early return: the nonce is not given back.
SignFails ==
  /\ pc["execution"] = "sign"
  /\ outcome' = "Failed"
  /\ Goto("execution", AfterSignError)
  /\ UNCHANGED <<busVars, main, marketVars, workVars, exposure, nonce, tx_nonce,
                 sent, sent_eth>>

\* Mutant: the broadcaster it was given is used in a dry run too.
UsesNetworkAlways == Broadcaster = "network"

\* ExecutionAgent::new replaces the broadcaster of a dry run.
UsesNetwork == ~DryRun /\ Broadcaster = "network"

ReachNetwork ==
  /\ sent' = Append(sent, [nonce |-> tx_nonce, trade |-> handling["execution"]])
  /\ sent_eth' = sent_eth + Handled("execution").intent.amount

\* send_transaction returns a hash.
SendOk ==
  /\ pc["execution"] = "send"
  /\ IF UsesNetwork THEN ReachNetwork ELSE UNCHANGED <<sent, sent_eth>>
  /\ outcome' = IF DryRun THEN "DryRun" ELSE "Success"
  /\ Goto("execution", "report")
  /\ UNCHANGED <<busVars, main, marketVars, workVars, exposure, nonce,
                 tx_nonce>>

\* Mutant: the error of the broadcaster is not looked at.
OnSendErrorIgnored == "Success"

OnSendError == "Failed"

\* Mutant: the error of the broadcaster ends the handler, and nobody is told.
AfterSendErrorSilent == "recv"

AfterSendError == "report"

\* send_transaction returns an error, which does not tell whether the network
\* took the transaction before the answer was lost.
SendFails ==
  /\ pc["execution"] = "send"
  /\ UsesNetwork
  /\ ReachNetwork \/ UNCHANGED <<sent, sent_eth>>
  /\ outcome' = OnSendError
  /\ Goto("execution", AfterSendError)
  /\ UNCHANGED <<busVars, main, marketVars, workVars, exposure, nonce,
                 tx_nonce>>

Result ==
  [kind |-> "Executed", cause |-> handling["execution"],
   body |-> [trade |-> Handled("execution"), outcome |-> outcome]]

\* Mutant: a failed trade is tried again, with a new nonce.
AfterReportRetry == IF outcome = "Failed" THEN "nonce" ELSE "recv"

AfterReport == "recv"

Report ==
  /\ pc["execution"] = "report"
  /\ Publish(Result)
  /\ Goto("execution", AfterReport)
  /\ UNCHANGED <<main, marketVars, workVars, exposure, executionVars>>

-----------------------------------------------------------------------------
\* The orchestrator.

\* Ctrl-C, then cancel.cancel().
Cancel ==
  /\ main = "running"
  /\ main' = "cancelled"
  /\ UNCHANGED <<busVars, pc, marketVars, workVars, exposure, executionVars>>

\* tokio::join! of the four handles.
Exit ==
  /\ main = "cancelled"
  /\ \A a \in Agents : pc[a] = "stopped"
  /\ main' = "exited"
  /\ UNCHANGED <<busVars, pc, marketVars, workVars, exposure, executionVars>>

\* The process is over; not a deadlock.
Exited == main = "exited" /\ UNCHANGED vars

MarketStep ==
  \/ MarketStart \/ MarketStop \/ MarketStreamEnds \/ MarketSkip
  \/ MarketSwap \/ MarketNoDivergence \/ MarketDivergence

RecvStep(s) == SkipMissed(s) \/ Ignore(s) \/ Take(s)
RiskDecide == RiskReject \/ RiskApprove
ExecuteStep ==
  \/ TakeNonce \/ SignOk \/ SignFails \/ SendOk \/ SendFails \/ Report

Next ==
  \/ MarketStep
  \/ \E s \in Consumers : Start(s) \/ Stop(s) \/ RecvStep(s)
  \/ StrategyEvaluate \/ RiskDecide \/ ExecuteStep
  \/ Cancel \/ Exit \/ Exited

\* What a task does next, but for the cancelled branch of its select!.
Poll(s) ==
  \/ Start(s) \/ RecvStep(s)
  \/ s = "strategy" /\ StrategyEvaluate
  \/ s = "risk" /\ RiskDecide
  \/ s = "execution" /\ ExecuteStep

\* The runtime polls every task that can go on.  An agent waiting in select!
\* with messages always at hand may go round any number of times before the
\* random choice falls on cancelled(), hence the strong fairness of Stop.
\* sign and send_transaction are taken to answer; nothing makes the mempool
\* stream deliver or the user press ctrl-c.
Fairness ==
  /\ WF_vars(MarketStart \/ MarketNoDivergence \/ MarketDivergence)
  /\ SF_vars(MarketStop)
  /\ \A s \in Consumers : WF_vars(Poll(s)) /\ SF_vars(Stop(s))
  /\ WF_vars(Exit)

Spec == Init /\ [][Next]_vars
FairSpec == Spec /\ Fairness

-----------------------------------------------------------------------------
\* Properties.

Of(kind) == {i \in DOMAIN log : log[i].kind = kind}

\* The execution agent has a nonce it has not reported yet.
HoldsNonce == pc["execution"] \in {"sign", "send", "report"}

ControlStates ==
  {"spawned", "recv", "diverge", "evaluate", "decide", "nonce", "sign", "send",
   "report", "stopped"}

PcOK ==
  /\ pc \in [Agents -> ControlStates]
  /\ pc["market"] \in {"spawned", "recv", "diverge", "stopped"}
  /\ pc["strategy"] \in {"spawned", "recv", "evaluate", "stopped"}
  /\ pc["risk"] \in {"spawned", "recv", "decide", "stopped"}
  /\ pc["execution"] \in {"spawned", "recv", "nonce", "sign", "send",
                           "report", "stopped"}

\* Every variable has its type; in particular only well-formed messages are
\* ever on the bus, and an agent's control state is one of its own.
TypeOK ==
  /\ log \in Seq(Message)
  /\ next \in [Consumers -> 1 .. Len(log) + 1]
  /\ receivers \subseteq Consumers
  /\ main \in {"running", "cancelled", "exited"}
  /\ PcOK
  /\ received \in 0 .. MaxTxs
  /\ pair \in 1 .. 3
  /\ strategy_idx \in 1 .. NumStrategies
  /\ handling \in [Consumers -> 0 .. Len(log)]
  /\ exposure \in Nat
  /\ nonce \in Nat
  /\ tx_nonce \in Nat
  /\ outcome \in Outcomes
  /\ sent \in Seq([nonce : Nat, trade : Nat])
  /\ sent_eth \in Nat

\* The exposure the risk agent tracks never passes max_position_size_eth,
\* whatever order intents arrive in and whatever the bus loses on the way
\* (rules.rs:6, check_exposure_limit, against agent.rs:83, add_exposure).
ExposureWithinLimit == exposure <= MaxPosition

\* The tracker agrees with what was published: the exposure is the sum of the
\* approved amounts, so no approval is lost between add_exposure and publish
\* and no rejected intent counts.
ExposureIsSumOfApprovals ==
  exposure = SumFunction([i \in Of("Validated") |-> log[i].body.intent.amount])

\* The network never holds more than the risk agent has counted: what the
\* execution agent sent is covered by the exposure at all times.
SentWithinExposure == sent_eth <= exposure

\* A message answers an earlier message of the kind before it in the pipeline
\* and repeats its content; a validated trade passed every rule against the
\* exposure of its moment.
Traceable ==
  /\ \A i \in Of("Intent") : log[i].cause \in Of("Signal") /\ log[i].cause < i
  /\ \A i \in Of("Validated") :
       LET trade == log[i].body IN
       /\ log[i].cause \in Of("Intent") /\ log[i].cause < i
       /\ trade.intent = log[log[i].cause].body
       /\ Validate(trade.intent, trade.projected - trade.intent.amount, 0)
  /\ \A i \in Of("Executed") :
       /\ log[i].cause \in Of("Validated") /\ log[i].cause < i
       /\ log[i].body.trade = log[log[i].cause].body

\* Answers come in the order of what they answer and at most once: one
\* decision per intent, one result per validated trade, even with the ring
\* overrunning slow agents in between.
CausesIncrease(kind) ==
  \A i, j \in Of(kind) : i < j => log[i].cause < log[j].cause
AnsweredOnceInOrder == CausesIncrease("Validated") /\ CausesIncrease("Executed")

\* As many trades have a result on the bus, or are being executed, as nonces
\* were handed out: each nonce goes to a trade of its own, and on no error path
\* and at no point of the shutdown does a trade that cost a nonce go unreported
\* (agent.rs:121, next, against agent.rs:90-98, the publish).
Reported == {log[i].cause : i \in Of("Executed")}
Executing == {v \in {handling["execution"]} : HoldsNonce}
NoncesAccounted == Cardinality(Reported \cup Executing) = nonce

\* "no two transactions share the same nonce" (nonce.rs:6), at the network:
\* transactions reach it in nonce order, and each trade at most once.
SentInNonceOrder ==
  \A k \in 1 .. Len(sent) - 1 :
    sent[k].nonce < sent[k+1].nonce /\ sent[k].trade < sent[k+1].trade

\* What reached the network gets a result that names its trade, already on the
\* bus or about to be published, also when the broadcaster's answer was an
\* error.
SentIsReported ==
  \A k \in DOMAIN sent :
    \/ sent[k].trade \in Reported
    \/ pc["execution"] = "report" /\ handling["execution"] = sent[k].trade

\* What the network is given keeps the rules its intent was approved by: it
\* moves an amount the position has room for to another token, at the gas price
\* the intent named and the rule passed, or, where it named none and the rule
\* had nothing to check (rules.rs:53), at the fixed default and no other.
TransactionsKeepRules ==
  \A k \in DOMAIN sent :
    LET intent == log[sent[k].trade].body.intent
        tx == BuildTransaction(intent, sent[k].nonce)
    IN /\ \/ tx.gas_price <= MaxGasPrice
          \/ intent.gas_price = NoGasPrice /\ tx.gas_price = DefaultGasPrice
       /\ tx.value > 0 /\ tx.value <= MaxPosition
       /\ tx.to # intent.token_in

\* The results tell the truth: with a network to reach, Success is only
\* reported of what reached it, and DryRun only of what did not.
ReachedNetwork(i) == \E k \in DOMAIN sent : sent[k].trade = log[i].cause
OutcomesTruthful ==
  \A i \in Of("Executed") :
    /\ log[i].body.outcome = "Success" /\ Broadcaster = "network"
         => ReachedNetwork(i)
    /\ log[i].body.outcome = "DryRun" => ~ReachedNetwork(i)

-----------------------------------------------------------------------------
\* What the agents together make of a trade.

ResultsOf(v) == {i \in Of("Executed") : log[i].cause = v}
InHand(v) == handling["execution"] = v /\ HoldsNonce
OutcomeKnown(v) == InHand(v) /\ pc["execution"] = "report"

Begun(v) == InHand(v) \/ ResultsOf(v) # {}
NoncesOf(v) == {sent[k].nonce : k \in {k \in DOMAIN sent : sent[k].trade = v}}

\* Lifecycle's entry of the validated trade at position v.
EntryOf(v) ==
  [amount |-> log[v].body.intent.amount,
   begun |-> Begun(v),
   reached |-> NoncesOf(v),
   outcomes |-> {log[i].body.outcome : i \in ResultsOf(v)}
                  \cup {o \in {outcome} : OutcomeKnown(v)},
   reported |-> ResultsOf(v) # {}]

Book == [v \in Of("Validated") |-> EntryOf(v)]

\* Seen through its approvals, the network and its results, the pipeline keeps
\* the promises of TradeLifecycle about every trade, at every step of every
\* agent: what execute_trade does between its awaits, the risk agent between
\* its check and its publish, and the bus to both of them.
Lifecycle == INSTANCE TradeLifecycle WITH
  HasNetwork <- Broadcaster = "network",
  book <- Book, committed <- exposure, nonce <- nonce
ImplementsLifecycle == Lifecycle!Init /\ [][Lifecycle!Next]_(Lifecycle!vars)

-----------------------------------------------------------------------------
\* What the documentation says of the agents.

\* "Check that the trade's gas price does not exceed the maximum allowed"
\* (rules.rs:51): no transaction at the network is above the limit, whoever put
\* its gas price in.
GasPriceWithinLimit ==
  \A k \in DOMAIN sent :
    BuildTransaction(log[sent[k].trade].body.intent,
                     sent[k].nonce).gas_price <= MaxGasPrice

\* "agents drain their inbox before exiting" (README.md:133): an agent that
\* leaves its loop has nothing left to read.
InboxDrainedAtStop ==
  [][\A s \in Consumers :
       pc[s] = "recv" /\ pc'[s] = "stopped" => ~Unread(s)]_vars

\* A strategy "generates a `TradeIntent` to exploit the difference"
\* (arbitrage.rs:10-11): an intent is a trade between two tokens, one that
\* the sanity rule does not refuse out of hand.
IntentsAreTrades == \A i \in Of("Intent") : CheckSanity(log[i].body)

-----------------------------------------------------------------------------
\* Liveness, under FairSpec.

\* After ctrl-c the orchestrator gets past its join: no agent is stuck in a
\* handler, and none is kept from its cancelled() branch by traffic
\* ("Graceful shutdown (all agents respond to cancellation)", README.md:223).
ShutdownCompletes == main = "cancelled" ~> main = "exited"

\* The n-th trade the risk agent approved: its position, if there is one yet.
Approval(n) ==
  {v \in Of("Validated") : Cardinality({u \in Of("Validated") : u <= v}) = n}

\* Any trade the execution agent has taken from the bus is done with, and has a
\* result then, also when the cancellation falls into the middle of
\* execute_trade.
TradesComplete ==
  pc["execution"] \in {"nonce", "sign", "send", "report"}
    ~> /\ pc["execution"] \in {"recv", "stopped"}
       /\ handling["execution"] \in Reported

\* An approved trade the execution agent has yet to read gets a result, unless
\* the ring overwrites it first or the orchestrator is told to stop.
Awaited(v) == "execution" \in receivers /\ next["execution"] <= v
Settled(v) == v \in Reported \/ v + Capacity <= Len(log) \/ main # "running"
ApprovedIsExecuted ==
  \A n \in Watched :
    (\E v \in Approval(n) : Awaited(v)) ~> \E v \in Approval(n) : Settled(v)

=============================================================================
