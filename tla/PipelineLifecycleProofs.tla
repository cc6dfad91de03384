------------------------ MODULE PipelineLifecycleProofs ------------------------
(***************************************************************************)
(* The proof that TradingPipeline implements TradeLifecycle: a decision,   *)
(* an allocated nonce, an answer and a report are its four steps, and every *)
(* other step of the agents, the bus and the orchestrator is a stutter.    *)
(* Then what the results on the bus say of nonces and transactions.        *)
(***************************************************************************)
EXTENDS TradingPipelineProofs

\* An agent in its loop holds a receiver, so what it publishes is accepted.
ReceivingOK ==
  \A s \in Consumers : pc[s] \in Working[s] \cup {"recv"} => s \in receivers

\* Every step keeps the receivers of the agents that are in their loops.
LEMMA ReceivingStep ==
  ASSUME TypeOK, ReceivingOK, [Next]_vars PROVE ReceivingOK'
<1> USE DEF busVars, workVars, Goto, Agents, Consumers, Working, ReceivingOK
<1>1. pc \in [Agents -> ControlStates]
  BY DEF TypeOK, PcOK
<1>2. CASE MarketStart \/ MarketStop \/ MarketStreamEnds \/ MarketSkip
           \/ MarketSwap \/ MarketNoDivergence \/ MarketDivergence
  BY <1>1, <1>2
     DEF MarketStart, MarketStop, MarketStreamEnds, MarketSkip, MarketSwap,
         MarketNoDivergence, MarketDivergence, NextPair, Publish
<1>3. ASSUME NEW s \in Consumers, Start(s) \/ Stop(s)
      PROVE  ReceivingOK'
  BY <1>1, <1>3 DEF Start, Stop, Subscribe, Unsubscribe
<1>4. ASSUME NEW s \in Consumers, SkipMissed(s) \/ Ignore(s) \/ Take(s)
      PROVE  ReceivingOK'
  BY <1>1, <1>4 DEF SkipMissed, Ignore, Take, RecvOk, RecvLagged, FirstStep
<1>5. CASE StrategyEvaluate \/ RiskReject \/ RiskApprove
  <2>1. UNCHANGED receivers
    BY <1>5 DEF StrategyEvaluate, RiskReject, RiskApprove, Publish
  <2>2. \A s \in Consumers :
          pc'[s] = pc[s] \/ (pc'[s] = "recv" /\ pc[s] \in Working[s])
    BY <1>1, <1>5 DEF StrategyEvaluate, RiskReject, RiskApprove
  <2> QED
    BY <2>1, <2>2
<1>6. CASE TakeNonce \/ SignOk \/ SignFails \/ SendOk \/ SendFails \/ Report
  BY <1>1, <1>6
     DEF TakeNonce, SignOk, SignFails, AfterSignError, SendOk, SendFails,
         AfterSendError, Report, AfterReport, Publish
<1>7. CASE Cancel \/ Exit \/ UNCHANGED vars
  BY <1>7 DEF Cancel, Exit, vars
<1> QED
  BY <1>2, <1>3, <1>4, <1>5, <1>6, <1>7, Actions

\* All of the execution agent that Book shows, in the steps that change none
\* of it.
ExecutionQuiet ==
  /\ UNCHANGED <<nonce, tx_nonce, outcome, sent>>
  /\ HoldsNonce' <=> HoldsNonce
  /\ pc'["execution"] = "report" <=> pc["execution"] = "report"
  /\ HoldsNonce => handling'["execution"] = handling["execution"]

\* Five steps of the execution agent change what Book shows of it.
LEMMA QuietSteps ==
  ASSUME TypeOK, [Next]_vars
  PROVE  TakeNonce \/ SignFails \/ SendOk \/ SendFails \/ Report
           \/ ExecutionQuiet
<1> USE DEF workVars, executionVars, Goto, Agents, Consumers, HoldsNonce,
            ExecutionQuiet
<1>1. /\ pc \in [Agents -> ControlStates]
      /\ handling \in [Consumers -> 0 .. Len(log)]
  BY DEF TypeOK, PcOK
<1>2. CASE MarketStart \/ MarketStop \/ MarketStreamEnds \/ MarketSkip
           \/ MarketSwap \/ MarketNoDivergence \/ MarketDivergence
  BY <1>1, <1>2
     DEF MarketStart, MarketStop, MarketStreamEnds, MarketSkip, MarketSwap,
         MarketNoDivergence, MarketDivergence, NextPair
<1>3. ASSUME NEW s \in Consumers,
             Start(s) \/ Stop(s) \/ SkipMissed(s) \/ Ignore(s) \/ Take(s)
      PROVE  ExecutionQuiet
  BY <1>1, <1>3 DEF Start, Stop, SkipMissed, Ignore, Take, FirstStep
<1>4. CASE StrategyEvaluate \/ RiskReject \/ RiskApprove \/ SignOk
  BY <1>1, <1>4 DEF StrategyEvaluate, RiskReject, RiskApprove, SignOk
<1>5. CASE Cancel \/ Exit \/ UNCHANGED vars
  BY <1>5 DEF Cancel, Exit, vars
<1> QED
  BY <1>2, <1>3, <1>4, <1>5, Actions

\* The control states execute_trade goes through.
LEMMA ExecuteControl ==
  ASSUME TypeOK
  PROVE  /\ TakeNonce =>
              /\ pc["execution"] = "nonce" /\ pc'["execution"] = "sign"
              /\ tx_nonce' = nonce /\ nonce' = nonce + 1
              /\ UNCHANGED <<log, handling, outcome, sent>>
         /\ SignFails =>
              /\ pc["execution"] = "sign" /\ pc'["execution"] = "report"
              /\ outcome' = "Failed"
              /\ UNCHANGED <<log, handling, nonce, tx_nonce, sent>>
         /\ SendOk \/ SendFails =>
              /\ pc["execution"] = "send" /\ pc'["execution"] = "report"
              /\ UNCHANGED <<log, handling, nonce, tx_nonce>>
              /\ sent' = sent \/ ReachNetwork
         /\ Report =>
              /\ pc["execution"] = "report" /\ pc'["execution"] = "recv"
              /\ UNCHANGED <<handling, nonce, tx_nonce, outcome, sent>>
<1>1. pc \in [Agents -> ControlStates] /\ "execution" \in Agents
  BY DEF TypeOK, PcOK, Agents, Consumers
<1> USE DEF Goto, workVars, busVars, executionVars
<1>2. CASE TakeNonce
  BY <1>1, <1>2 DEF TakeNonce, FetchAddNonce, SignFails, SendOk, SendFails,
      AfterSendError, Report
<1>3. CASE SignFails
  BY <1>1, <1>3
     DEF SignFails, AfterSignError, TakeNonce, SendOk, SendFails,
         AfterSendError, Report
<1>4. CASE SendOk \/ SendFails
  BY <1>1, <1>4 DEF SendOk, SendFails, AfterSendError, TakeNonce, SignFails,
      Report
<1>5. CASE Report
  BY <1>1, <1>5 DEF Report, AfterReport, TakeNonce, SignFails, SendOk,
      SendFails, AfterSendError
<1> QED
  BY <1>2, <1>3, <1>4, <1>5

\* The nonce in hand is the last one handed out.
LastNonce == HoldsNonce => nonce = tx_nonce + 1

\* Every step keeps it so: no nonce is handed out while one is in hand.
LEMMA LastNonceStep ==
  ASSUME TypeOK, LastNonce, [Next]_vars PROVE LastNonce'
<1>1. CASE TakeNonce
  BY <1>1, ExecuteControl DEF LastNonce
<1>2. CASE SignFails \/ SendOk \/ SendFails \/ Report
  BY <1>2, ExecuteControl DEF LastNonce, HoldsNonce
<1>3. CASE ExecutionQuiet
  BY <1>3 DEF ExecutionQuiet, LastNonce
<1> QED
  BY <1>1, <1>2, <1>3, QuietSteps

\* The results a trade has, while no new one is published.
LEMMA SameResults ==
  ASSUME TypeOK, BusGrows, Of("Executed")' = Of("Executed"), NEW v
  PROVE  /\ ResultsOf(v)' = ResultsOf(v)
         /\ {log[i].body.outcome : i \in ResultsOf(v)}'
              = {log[i].body.outcome : i \in ResultsOf(v)}
<1>1. \A i \in Of("Executed") : log'[i] = log[i]
  BY OfGrows
<1>2. ResultsOf(v)' = ResultsOf(v)
  BY <1>1 DEF ResultsOf
<1>3. \A i \in ResultsOf(v) : log'[i] = log[i]
  BY <1>1 DEF ResultsOf
<1> QED
  BY <1>2, <1>3

\* A step that publishes no result and is none of those five leaves every
\* entry of Book as it is.
LEMMA QuietEntry ==
  ASSUME TypeOK, BusGrows, ExecutionQuiet,
         Of("Executed")' = Of("Executed"), NEW v \in Of("Validated")
  PROVE  EntryOf(v)' = EntryOf(v)
<1>1. log'[v] = log[v]
  BY OfGrows
<1>2. /\ InHand(v)' <=> InHand(v)
      /\ OutcomeKnown(v)' <=> OutcomeKnown(v)
  <2>1. pc["execution"] = "report" => HoldsNonce
    BY DEF HoldsNonce
  <2> QED
    BY <2>1 DEF ExecutionQuiet, InHand, OutcomeKnown
<1>3. {o \in {outcome} : OutcomeKnown(v)}'
        = {o \in {outcome} : OutcomeKnown(v)}
  BY <1>2 DEF ExecutionQuiet
<1>4. NoncesOf(v)' = NoncesOf(v)
  BY DEF ExecutionQuiet, NoncesOf
<1>5. Begun(v)' = Begun(v)
  BY <1>2, SameResults DEF Begun
<1> QED
  BY <1>1, <1>3, <1>4, <1>5, SameResults DEF EntryOf

\* A decision of the risk agent enters the trade it approves.
LEMMA ApproveImplements ==
  ASSUME IInv, ReceivingOK, [Next]_vars, RiskApprove
  PROVE  Lifecycle!Next
<1>1. TypeOK /\ HandlingOK /\ BusGrows /\ Len(log) \in Nat
  BY BusStep, LenProperties DEF IInv, TypeOK
<1> PICK n \in Nat : n = Len(log) + 1
  BY <1>1
<1> DEFINE amount == Handled("risk").amount
<1>2. Of("Executed")' = Of("Executed") /\ ExecutionQuiet
  <2>1. pc["risk"] = "decide" /\ pc'["risk"] = "recv"
        /\ pc'["execution"] = pc["execution"]
        /\ UNCHANGED <<handling, nonce, tx_nonce, outcome, sent>>
    BY <1>1
       DEF RiskApprove, Goto, workVars, executionVars, TypeOK, PcOK, Agents,
           Consumers
  <2>2. ~Report
    BY <1>1, <2>1 DEF Report, AfterReport, Goto, TypeOK, PcOK, Agents, Consumers
  <2> QED
    BY <1>1, <2>1, <2>2, KindSteps DEF ExecutionQuiet, HoldsNonce
<1>3. Of("Validated")' = Of("Validated") \cup {n}
  <2>1. receivers # {}
    BY DEF RiskApprove, ReceivingOK, Consumers, Working
  <2> DEFINE m == [kind |-> "Validated", cause |-> handling["risk"],
                   body |-> [intent |-> Handled("risk"),
                             projected |-> exposure + Handled("risk").amount]]
  <2>2. m \in Message /\ Publish(m)
    BY <1>1, PublishedTypes DEF RiskApprove
  <2>3. log' \in Seq(Message) /\ Len(log') = n /\ log'[n] = m
    BY <1>1, <2>1, <2>2, PublishFacts DEF TypeOK
  <2>4. n \in Of("Validated")'
    BY <2>3, LenProperties DEF Of
  <2> QED
    BY <1>1, <2>4, OfGrows
<1>4. /\ amount \in Nat /\ amount > 0 /\ exposure \in Nat
      /\ exposure' = exposure + amount /\ exposure' <= MaxPosition
      /\ log'[n].body.intent.amount = amount
  BY <1>1, <1>3, ApproveFacts
     DEF RiskApprove, Approved, Validate, CheckSanity, Amount, TypeOK
<1>5. EntryOf(n)' = Lifecycle!Fresh(amount)
  <2>1. ResultsOf(n) = {}
    <3>1. \A i \in Of("Executed") :
            log[i].cause \in Nat /\ log[i].cause < next["execution"]
      BY DEF IInv, CausesOrdered, Answered, Reply
    <3>2. next["execution"] \in Nat /\ next["execution"] <= n
          /\ Len(log) \in Nat
      BY <1>1, LenProperties DEF TypeOK, Consumers
    <3> QED
      BY <3>1, <3>2 DEF ResultsOf
  <2>2. ResultsOf(n)' = {}
    BY <1>1, <1>2, <2>1, SameResults
  <2>3. handling["execution"] # n
    BY <1>1, LenProperties DEF TypeOK, Consumers
  <2>4. ~InHand(n)' /\ ~OutcomeKnown(n)'
    BY <1>2, <2>3 DEF InHand, OutcomeKnown, ExecutionQuiet
  <2>5. ~\E k \in DOMAIN sent : sent[k].trade = n
    <3>1. \A k \in 1 .. Len(sent) : sent[k].trade < next["execution"]
      BY DEF IInv, SentOrdered
    <3>2. /\ next["execution"] \in Nat /\ next["execution"] <= n
          /\ Len(log) \in Nat
      BY <1>1, LenProperties DEF TypeOK, Consumers
    <3>3. /\ DOMAIN sent = 1 .. Len(sent)
          /\ \A k \in 1 .. Len(sent) : sent[k].trade \in Nat
      <4>1. /\ DOMAIN sent = 1 .. Len(sent)
            /\ \A k \in 1 .. Len(sent) : sent[k] \in [nonce : Nat, trade : Nat]
        BY <1>1, LenProperties DEF TypeOK
      <4> QED
        BY <4>1
    <3> QED
      BY <3>1, <3>2, <3>3
  <2>6. NoncesOf(n)' = {}
    BY <1>2, <2>5 DEF ExecutionQuiet, NoncesOf
  <2>7. Begun(n)' = FALSE
    BY <2>2, <2>4 DEF Begun
  <2> QED
    BY <1>4, <2>2, <2>4, <2>6, <2>7 DEF EntryOf, Lifecycle!Fresh
<1>6. \A v \in Of("Validated") : v \in Nat /\ v < n
  BY <1>1, ValidatedFacts, LenProperties DEF TypeOK
<1>7. \A v \in Of("Validated") : EntryOf(v)' = EntryOf(v)
  BY <1>1, <1>2, QuietEntry
<1>8. Book' = [u \in Of("Validated") \cup {n} |->
                 IF u = n THEN Lifecycle!Fresh(amount) ELSE Book[u]]
  BY <1>3, <1>5, <1>6, <1>7 DEF Book
<1>9. /\ DOMAIN Book = Of("Validated")
      /\ n \in DOMAIN Book' \ DOMAIN Book
      /\ Book'[n] = Lifecycle!Fresh(amount)
  <2>1. DOMAIN Book = Of("Validated")
    BY DEF Book
  <2> QED
    BY <1>6, <1>8, <2>1
<1>10. UNCHANGED nonce
  BY <1>2 DEF ExecutionQuiet
<1>11. Lifecycle!Approve(n, Book'[n].amount)
  <2>1. Book'[n].amount = amount
    BY <1>9 DEF Lifecycle!Fresh
  <2> HIDE DEF amount
  <2> QED
    BY <1>4, <1>6, <1>8, <1>9, <1>10, <2>1 DEF Lifecycle!Approve
<1> QED
  BY <1>9, <1>11 DEF Lifecycle!Next

\* What reaches the network is a transaction of the trade being handled.
LEMMA ReachFacts ==
  ASSUME TypeOK, ReachNetwork, NEW v
  PROVE  NoncesOf(v)' = NoncesOf(v)
           \cup (IF v = handling["execution"] THEN {tx_nonce} ELSE {})
BY ReachAppends DEF NoncesOf

\* A step of execute_trade on one trade leaves the entries of the others.
LEMMA OtherEntries ==
  ASSUME TypeOK, BusGrows, NEW v \in Of("Validated"),
         ResultsOf(v)' = ResultsOf(v),
         handling'["execution"] = handling["execution"],
         v # handling["execution"],
         sent' = sent \/ ReachNetwork
  PROVE  EntryOf(v)' = EntryOf(v)
<1>1. log'[v] = log[v]
  BY OfGrows
<1>2. ~InHand(v) /\ ~OutcomeKnown(v) /\ ~InHand(v)' /\ ~OutcomeKnown(v)'
  BY DEF InHand, OutcomeKnown
<1>3. \A i \in ResultsOf(v) : log'[i] = log[i]
  BY OfGrows DEF ResultsOf
<1>4. NoncesOf(v)' = NoncesOf(v)
  <2>1. CASE sent' = sent
    BY <2>1 DEF NoncesOf
  <2>2. CASE ReachNetwork
    BY <2>2, ReachFacts
  <2> QED
    BY <2>1, <2>2
<1>5. {log[i].body.outcome : i \in ResultsOf(v)}'
        = {log[i].body.outcome : i \in ResultsOf(v)}
  BY <1>3
<1>6. {o \in {outcome} : OutcomeKnown(v)}'
        = {o \in {outcome} : OutcomeKnown(v)}
  BY <1>2
<1>7. Begun(v)' = Begun(v)
  BY <1>2 DEF Begun
<1> QED
  BY <1>1, <1>4, <1>5, <1>6, <1>7 DEF EntryOf

\* A step that changes the entry of one trade changes Book there only.
LEMMA OneEntry ==
  ASSUME Of("Validated")' = Of("Validated"), NEW t \in Of("Validated"),
         \A v \in Of("Validated") \ {t} : EntryOf(v)' = EntryOf(v)
  PROVE  Book' = [Book EXCEPT ![t] = EntryOf(t)']
BY DEF Book

\* An entry is the record of its fields, before a step and after it.
LEMMA EntryShape ==
  ASSUME NEW t
  PROVE  LET Shape(e) == [amount |-> e.amount, begun |-> e.begun,
                          reached |-> e.reached, outcomes |-> e.outcomes,
                          reported |-> e.reported]
         IN EntryOf(t) = Shape(EntryOf(t)) /\ EntryOf(t)' = Shape(EntryOf(t)')
BY DEF EntryOf

\* Changing one field of an entry, as Begin and Report do.
LEMMA EntryChanged ==
  ASSUME NEW t, NEW x
  PROVE  /\ [EntryOf(t) EXCEPT !.begun = x]
              = [amount |-> EntryOf(t).amount, begun |-> x,
                 reached |-> EntryOf(t).reached,
                 outcomes |-> EntryOf(t).outcomes,
                 reported |-> EntryOf(t).reported]
         /\ [EntryOf(t) EXCEPT !.reported = x]
              = [amount |-> EntryOf(t).amount, begun |-> EntryOf(t).begun,
                 reached |-> EntryOf(t).reached,
                 outcomes |-> EntryOf(t).outcomes, reported |-> x]
<1>1. PICK e : e = EntryOf(t)
  OBVIOUS
<1>2. e = [amount |-> e.amount, begun |-> e.begun, reached |-> e.reached,
           outcomes |-> e.outcomes, reported |-> e.reported]
  BY <1>1, EntryShape
<1>3. /\ [e EXCEPT !.begun = x]
           = [amount |-> e.amount, begun |-> x, reached |-> e.reached,
              outcomes |-> e.outcomes, reported |-> e.reported]
      /\ [e EXCEPT !.reported = x]
           = [amount |-> e.amount, begun |-> e.begun, reached |-> e.reached,
              outcomes |-> e.outcomes, reported |-> x]
  BY <1>2
<1> QED
  BY <1>1, <1>3

\* The trade the execution agent works on has no result yet, and no
\* transaction of it is at the network before send_transaction.
LEMMA InHandFacts ==
  ASSUME IInv, pc["execution"] \in Working["execution"]
  PROVE  /\ handling["execution"] \in Of("Validated")
         /\ \A v \in Of("Validated") :
              v \in Nat /\ (v >= handling["execution"] => ResultsOf(v) = {})
         /\ pc["execution"] # "report" =>
              ~\E k \in DOMAIN sent : sent[k].trade = handling["execution"]
<1> DEFINE h == handling["execution"]
<1>1. TypeOK /\ h \in Of("Validated") /\ h \in Nat /\ Len(log) \in Nat
  BY LenProperties DEF IInv, HandlingOK, Consumers, Wants, TypeOK
<1>2. \A i \in Of("Executed") : log[i].cause \in Nat /\ log[i].cause < h
  BY DEF IInv, CausesOrdered, Answered, Reply
<1>3. \A v \in Of("Validated") : v \in Nat /\ (v >= h => ResultsOf(v) = {})
  BY <1>1, <1>2, ValidatedFacts DEF ResultsOf
<1>4. ASSUME pc["execution"] # "report"
      PROVE  ~\E k \in DOMAIN sent : sent[k].trade = h
  <2>1. /\ DOMAIN sent = 1 .. Len(sent)
        /\ \A k \in 1 .. Len(sent) : sent[k] \in [nonce : Nat, trade : Nat]
    BY <1>1, LenProperties DEF TypeOK
  <2>2. \A k \in 1 .. Len(sent) : sent[k].trade < h
    BY <1>4 DEF IInv, SentOrdered, Working
  <2> QED
    BY <1>1, <2>1, <2>2
<1> QED
  BY <1>1, <1>3, <1>4

\* next() and the build that follows it begin the trade being handled.
LEMMA BeginImplements ==
  ASSUME IInv, [Next]_vars, TakeNonce PROVE Lifecycle!Next
<1>1. TypeOK /\ HandlingOK /\ BusGrows /\ handling["execution"] \in Nat
  BY BusStep, LenProperties DEF IInv, TypeOK, Consumers
<1> PICK t \in Nat : t = handling["execution"]
  BY <1>1
<1>2. /\ pc["execution"] = "nonce" /\ pc'["execution"] = "sign"
      /\ tx_nonce' = nonce /\ nonce' = nonce + 1
      /\ UNCHANGED <<busVars, handling, exposure, sent>>
  BY <1>1
     DEF TakeNonce, FetchAddNonce, Goto, workVars, TypeOK, PcOK, Agents,
         Consumers
<1>3. /\ t \in Of("Validated")
      /\ \A v \in Of("Validated") :
           v \in Nat /\ (v >= t => ResultsOf(v) = {})
  BY <1>2, InHandFacts DEF Working
<1>4. /\ Of("Validated")' = Of("Validated")
      /\ \A v : ResultsOf(v)' = ResultsOf(v)
      /\ UNCHANGED log
  BY <1>2 DEF busVars, Of, ResultsOf
<1>5. \A v \in Of("Validated") \ {t} : EntryOf(v)' = EntryOf(v)
  BY <1>1, <1>2, <1>4, OtherEntries
<1>6. \A v : ~InHand(v) /\ ~OutcomeKnown(v)
  BY <1>2 DEF InHand, OutcomeKnown, HoldsNonce
<1>7. EntryOf(t)' = [EntryOf(t) EXCEPT !.begun = TRUE]
  <2>1. InHand(t)' /\ ~OutcomeKnown(t)'
    BY <1>2 DEF InHand, OutcomeKnown, HoldsNonce
  <2>2. ResultsOf(t) = {} /\ ResultsOf(t)' = {}
    BY <1>3, <1>4
  <2>3. EntryOf(t).outcomes = {} /\ EntryOf(t)'.outcomes = {}
    BY <1>6, <2>1, <2>2 DEF EntryOf
  <2>4. EntryOf(t)'.begun = TRUE
    BY <2>1 DEF EntryOf, Begun
  <2>5. /\ EntryOf(t)'.amount = EntryOf(t).amount
        /\ EntryOf(t)'.reached = EntryOf(t).reached
        /\ EntryOf(t)'.reported = EntryOf(t).reported
    BY <1>2, <1>4 DEF EntryOf, NoncesOf
  <2>6. [EntryOf(t) EXCEPT !.begun = TRUE]
          = [amount |-> EntryOf(t).amount, begun |-> TRUE,
             reached |-> EntryOf(t).reached, outcomes |-> EntryOf(t).outcomes,
             reported |-> EntryOf(t).reported]
    BY EntryChanged
  <2>7. EntryOf(t)'
          = [amount |-> EntryOf(t).amount, begun |-> TRUE,
             reached |-> EntryOf(t).reached, outcomes |-> EntryOf(t).outcomes,
             reported |-> EntryOf(t).reported]
    BY <2>3, <2>4, <2>5, EntryShape
  <2> QED
    BY <2>6, <2>7
<1>8. /\ DOMAIN Book = Of("Validated")
      /\ \A v \in Of("Validated") : Book[v] = EntryOf(v)
  BY DEF Book
<1>9. Book' = [Book EXCEPT ![t].begun = TRUE]
  <2>1. Book' = [Book EXCEPT ![t] = EntryOf(t)']
    BY <1>3, <1>4, <1>5, OneEntry
  <2> QED
    BY <1>3, <1>7, <1>8, <2>1
<1>10. \A v \in Of("Validated") :
        /\ Book[v].begun = (ResultsOf(v) # {})
        /\ Book[v].reported = (ResultsOf(v) # {})
  BY <1>6, <1>8 DEF EntryOf, Begun
<1>11. \A u \in DOMAIN Book :
         ~Lifecycle!Underway(u) /\ (u >= t => ~Book[u].begun)
  BY <1>3, <1>8, <1>10 DEF Lifecycle!Underway
<1>12. Lifecycle!Begin(t)
  BY <1>2, <1>9, <1>11 DEF Lifecycle!Begin
<1> QED
  BY <1>3, <1>8, <1>12 DEF Lifecycle!Next

\* What sign and send_transaction answer is the trade's outcome, and it agrees
\* with whether the trade is at the network now.
LEMMA OutcomeFacts ==
  ASSUME TypeOK, SignFails \/ SendOk \/ SendFails, NEW reached,
         reached <=> sent' # sent, sent' = sent \/ ReachNetwork
  PROVE  outcome' \in Outcomes /\ Lifecycle!Truthful(outcome', reached)
<1>1. ReachNetwork => sent' # sent
  BY AppendProperties, LenProperties DEF ReachNetwork, TypeOK, Consumers
<1>2. CASE SignFails
  BY <1>2 DEF SignFails, Outcomes, Lifecycle!Truthful
<1>3. CASE SendOk
  BY <1>1, <1>3, PipelineAssumption
     DEF SendOk, UsesNetwork, Outcomes, Lifecycle!Truthful
<1>4. CASE SendFails
  BY <1>4 DEF SendFails, UsesNetwork, OnSendError, Outcomes, Lifecycle!Truthful
<1> QED
  BY <1>2, <1>3, <1>4

\* The answer of sign or send_transaction answers the trade being handled.
LEMMA AnswerImplements ==
  ASSUME IInv, LastNonce, [Next]_vars, SignFails \/ SendOk \/ SendFails
  PROVE  Lifecycle!Next
<1>1. TypeOK /\ HandlingOK /\ BusGrows /\ handling["execution"] \in Nat
  BY BusStep, LenProperties DEF IInv, TypeOK, Consumers
<1> PICK t \in Nat : t = handling["execution"]
  BY <1>1
<1> PICK o : o = outcome'
  OBVIOUS
<1> PICK reached \in BOOLEAN : reached <=> sent' # sent
  OBVIOUS
<1>2. /\ pc["execution"] \in {"sign", "send"} /\ pc'["execution"] = "report"
      /\ UNCHANGED <<busVars, handling, exposure, nonce, tx_nonce>>
      /\ sent' = sent \/ ReachNetwork
  BY <1>1
     DEF SignFails, SendOk, SendFails, AfterSendError, AfterSignError, Goto,
         workVars, TypeOK,
         PcOK, Agents, Consumers
<1>3. /\ t \in Of("Validated")
      /\ ResultsOf(t) = {}
      /\ ~\E k \in DOMAIN sent : sent[k].trade = t
  BY <1>2, InHandFacts DEF Working
<1>4. /\ Of("Validated")' = Of("Validated")
      /\ \A v : ResultsOf(v)' = ResultsOf(v)
      /\ UNCHANGED log
  BY <1>2 DEF busVars, Of, ResultsOf
<1>5. \A v \in Of("Validated") \ {t} : EntryOf(v)' = EntryOf(v)
  BY <1>1, <1>2, <1>4, OtherEntries
<1>6. InHand(t) /\ ~OutcomeKnown(t) /\ InHand(t)' /\ OutcomeKnown(t)'
  BY <1>2 DEF InHand, OutcomeKnown, HoldsNonce
<1> PICK at : at = IF reached THEN {nonce - 1} ELSE {}
  OBVIOUS
<1>7. NoncesOf(t)' = at
  <2>1. NoncesOf(t) = {}
    BY <1>3 DEF NoncesOf
  <2>2. CASE ~reached
    BY <2>1, <2>2 DEF NoncesOf
  <2>3. CASE reached
    <3>1. NoncesOf(t)' = NoncesOf(t) \cup {tx_nonce}
      BY <1>1, <1>2, <2>3, ReachFacts
    <3>2. tx_nonce = nonce - 1
      BY <1>1, <1>2 DEF LastNonce, HoldsNonce, TypeOK
    <3> QED
      BY <2>1, <2>3, <3>1, <3>2
  <2> QED
    BY <2>2, <2>3
<1>8. EntryOf(t)' = [EntryOf(t) EXCEPT !.outcomes = {o}, !.reached = at]
  <2>1. EntryOf(t)'.outcomes = {o} /\ EntryOf(t)'.reached = at
    BY <1>3, <1>4, <1>6, <1>7 DEF EntryOf
  <2>2. EntryOf(t)'.begun = EntryOf(t).begun
    BY <1>6 DEF EntryOf, Begun
  <2>3. /\ EntryOf(t)'.amount = EntryOf(t).amount
        /\ EntryOf(t)'.reported = EntryOf(t).reported
    BY <1>4 DEF EntryOf
  <2>4. [EntryOf(t) EXCEPT !.outcomes = {o}, !.reached = at]
          = [amount |-> EntryOf(t).amount, begun |-> EntryOf(t).begun,
             reached |-> at, outcomes |-> {o},
             reported |-> EntryOf(t).reported]
    <3>1. PICK e : e = EntryOf(t)
      OBVIOUS
    <3>2. e = [amount |-> e.amount, begun |-> e.begun, reached |-> e.reached,
               outcomes |-> e.outcomes, reported |-> e.reported]
      BY <3>1, EntryShape
    <3>3. PICK f : f = [e EXCEPT !.outcomes = {o}]
      OBVIOUS
    <3>4. f = [amount |-> e.amount, begun |-> e.begun, reached |-> e.reached,
               outcomes |-> {o}, reported |-> e.reported]
      BY <3>2, <3>3
    <3>5. [f EXCEPT !.reached = at]
            = [amount |-> e.amount, begun |-> e.begun, reached |-> at,
               outcomes |-> {o}, reported |-> e.reported]
      BY <3>4
    <3>6. [e EXCEPT !.outcomes = {o}, !.reached = at]
            = [f EXCEPT !.reached = at]
      BY <3>3
    <3> QED
      BY <3>1, <3>5, <3>6
  <2> QED
    BY <2>1, <2>2, <2>3, <2>4, EntryShape
<1>9. /\ DOMAIN Book = Of("Validated")
      /\ Book[t] = EntryOf(t)
  BY <1>3 DEF Book
<1>10. Book' = [Book EXCEPT ![t].outcomes = {o}, ![t].reached = at]
  <2>1. Book' = [Book EXCEPT ![t] = EntryOf(t)']
    BY <1>3, <1>4, <1>5, OneEntry
  <2> QED
    BY <1>3, <1>8, <1>9, <2>1
<1>11. /\ Book[t].begun = TRUE /\ Book[t].outcomes = {}
       /\ Book[t].reported = FALSE
  <2>1. EntryOf(t).begun = TRUE
    BY <1>6 DEF EntryOf, Begun
  <2>2. EntryOf(t).outcomes = {}
    BY <1>3, <1>6 DEF EntryOf
  <2>3. EntryOf(t).reported = FALSE
    BY <1>3 DEF EntryOf
  <2> QED
    BY <1>9, <2>1, <2>2, <2>3
<1>12. o \in Outcomes /\ Lifecycle!Truthful(o, reached)
  BY <1>1, <1>2, OutcomeFacts
<1>13. Lifecycle!Answer(t, o, reached)
  BY <1>2, <1>10, <1>11, <1>12
     DEF Lifecycle!Answer, Lifecycle!Underway
<1> QED
  BY <1>3, <1>9, <1>12, <1>13 DEF Lifecycle!Next, Outcomes

\* The result a report publishes is on the bus, behind all others.
LEMMA ReportFacts ==
  ASSUME TypeOK, HandlingOK, ReceivingOK, [Next]_vars, Report,
         NEW n, n = Len(log) + 1
  PROVE  /\ log'[n] = Result
         /\ n \notin Of("Executed")
         /\ Of("Executed")' = Of("Executed") \cup {n}
         /\ \A i \in Of("Executed") : log'[i] = log[i]
<1>1. BusGrows /\ Len(log) \in Nat
  BY BusStep, LenProperties DEF TypeOK
<1>2. receivers # {}
  BY DEF Report, ReceivingOK, Consumers, Working
<1>3. Result \in Message /\ Publish(Result)
  BY PublishedTypes DEF Report
<1>4. log' \in Seq(Message) /\ Len(log') = n /\ log'[n] = Result
  BY <1>1, <1>2, <1>3, PublishFacts DEF TypeOK
<1>5. n \in Of("Executed")'
  BY <1>1, <1>4, LenProperties DEF Of, Result
<1>6. n \notin Of("Executed") /\ \A i \in Of("Executed") : log'[i] = log[i]
  BY <1>1, OfGrows
<1>7. Of("Executed")' = Of("Executed") \cup {n}
  BY <1>1, <1>5, OfGrows
<1> QED
  BY <1>4, <1>6, <1>7

\* The published result reports the trade being handled.
LEMMA ReportImplements ==
  ASSUME IInv, ReceivingOK, [Next]_vars, Report
  PROVE  Lifecycle!Next
<1>1. /\ TypeOK /\ HandlingOK /\ BusGrows
      /\ handling["execution"] \in Nat /\ Len(log) \in Nat
  BY BusStep, LenProperties DEF IInv, TypeOK, Consumers
<1> PICK t \in Nat : t = handling["execution"]
  BY <1>1
<1> PICK n \in Nat : n = Len(log) + 1
  BY <1>1
<1>2. /\ pc["execution"] = "report" /\ pc'["execution"] = "recv"
      /\ UNCHANGED <<handling, exposure, nonce, tx_nonce, outcome, sent>>
  BY <1>1
     DEF Report, AfterReport, Goto, workVars, executionVars, TypeOK, PcOK,
         Agents, Consumers
<1>3. t \in Of("Validated") /\ ResultsOf(t) = {}
  BY <1>2, InHandFacts DEF Working
<1>4. /\ n \in Of("Executed")' /\ log'[n].cause = t
      /\ log'[n].body.outcome = outcome
  BY <1>1, ReportFacts DEF Result
<1>5. Of("Executed")' = Of("Executed") \cup {n}
  BY <1>1, ReportFacts
<1>6. Of("Validated")' = Of("Validated")
  <2>1. ~RiskApprove
    BY <1>1, <1>2
       DEF RiskApprove, Goto, TypeOK, PcOK, Agents, Consumers
  <2> QED
    BY <1>1, <2>1, KindSteps
<1>7. \A i \in Of("Executed") : log'[i] = log[i] /\ i # n
  BY <1>1, OfGrows
<1>8. /\ ResultsOf(t)' = {n}
      /\ \A v : v # t => ResultsOf(v)' = ResultsOf(v)
  BY <1>3, <1>4, <1>5, <1>7 DEF ResultsOf
<1>9. \A v \in Of("Validated") \ {t} : EntryOf(v)' = EntryOf(v)
  BY <1>1, <1>2, <1>8, OtherEntries
<1>10. /\ InHand(t) /\ OutcomeKnown(t)
       /\ ~InHand(t)' /\ ~OutcomeKnown(t)'
  BY <1>2 DEF InHand, OutcomeKnown, HoldsNonce
<1>11. EntryOf(t)' = [EntryOf(t) EXCEPT !.reported = TRUE]
  <2>1. EntryOf(t)'.begun = EntryOf(t).begun
    BY <1>8, <1>10 DEF EntryOf, Begun
  <2>2. EntryOf(t)'.outcomes = EntryOf(t).outcomes
    <3>1. EntryOf(t).outcomes = {outcome}
      BY <1>3, <1>10 DEF EntryOf
    <3>2. EntryOf(t)'.outcomes = {log'[n].body.outcome}
      BY <1>8, <1>10 DEF EntryOf
    <3> QED
      BY <1>4, <3>1, <3>2
  <2>3. log'[t] = log[t]
    BY <1>1, <1>3, OfGrows
  <2>4. /\ EntryOf(t)'.amount = EntryOf(t).amount
        /\ EntryOf(t)'.reached = EntryOf(t).reached
        /\ EntryOf(t)'.reported = TRUE
    BY <1>2, <1>8, <2>3 DEF EntryOf, NoncesOf
  <2>5. [EntryOf(t) EXCEPT !.reported = TRUE]
          = [amount |-> EntryOf(t).amount, begun |-> EntryOf(t).begun,
             reached |-> EntryOf(t).reached, outcomes |-> EntryOf(t).outcomes,
             reported |-> TRUE]
    BY EntryChanged
  <2> QED
    BY <2>1, <2>2, <2>4, <2>5, EntryShape
<1>12. DOMAIN Book = Of("Validated") /\ Book[t] = EntryOf(t)
  BY <1>3 DEF Book
<1>13. Book' = [Book EXCEPT ![t].reported = TRUE]
  <2>1. Book' = [Book EXCEPT ![t] = EntryOf(t)']
    BY <1>3, <1>6, <1>9, OneEntry
  <2> QED
    BY <1>3, <1>11, <1>12, <2>1
<1>14. /\ Book[t].begun = TRUE /\ Book[t].outcomes # {}
       /\ Book[t].reported = FALSE
  <2>1. EntryOf(t).begun = TRUE
    BY <1>10 DEF EntryOf, Begun
  <2>2. EntryOf(t).outcomes # {}
    BY <1>10 DEF EntryOf
  <2>3. EntryOf(t).reported = FALSE
    BY <1>3 DEF EntryOf
  <2> QED
    BY <1>12, <2>1, <2>2, <2>3
<1>15. Lifecycle!Report(t)
  BY <1>2, <1>13, <1>14
     DEF Lifecycle!Report, Lifecycle!Underway
<1> QED
  BY <1>3, <1>12, <1>15 DEF Lifecycle!Next

\* Every step of the pipeline is a step of a trade's life or changes none.
LEMMA StepImplements ==
  ASSUME IInv, ReceivingOK, LastNonce, [Next]_vars
  PROVE  [Lifecycle!Next]_(Lifecycle!vars)
<1>1. TypeOK /\ HandlingOK /\ BusGrows
  BY BusStep DEF IInv
<1>2. CASE RiskApprove
  BY <1>2, ApproveImplements
<1>3. CASE TakeNonce
  BY <1>3, BeginImplements
<1>4. CASE SignFails \/ SendOk \/ SendFails
  BY <1>4, AnswerImplements
<1>5. CASE Report
  BY <1>5, ReportImplements
<1>6. CASE ~RiskApprove /\ ~Report /\ ExecutionQuiet
  <2>1. /\ Of("Validated")' = Of("Validated")
        /\ Of("Executed")' = Of("Executed")
        /\ UNCHANGED exposure
    BY <1>1, <1>6, KindSteps, ExposureSteps
  <2>2. \A v \in Of("Validated") : EntryOf(v)' = EntryOf(v)
    BY <1>1, <1>6, <2>1, QuietEntry
  <2>3. UNCHANGED Book
    BY <2>1, <2>2 DEF Book
  <2> QED
    BY <1>6, <2>1, <2>3 DEF ExecutionQuiet, Lifecycle!vars
<1> QED
  BY <1>1, <1>2, <1>3, <1>4, <1>5, <1>6, QuietSteps

\* The pipeline implements TradeLifecycle, for any strategies, any limits and
\* any ring: no trade passes the limit, is begun twice, out of order or before
\* the one under way is reported, shares its nonce, or is answered with what
\* did not happen.
THEOREM PipelineKeepsLifecycle == Spec => ImplementsLifecycle
<1>1. Init => ReceivingOK /\ LastNonce
  BY DEF Init, ReceivingOK, LastNonce, HoldsNonce, Agents, Consumers, Working
<1>2. Init => Lifecycle!Init
  <2> SUFFICES ASSUME Init PROVE Lifecycle!Init
    OBVIOUS
  <2>1. Of("Validated") = {}
    BY EmptySeq DEF Init, BusInit, Of
  <2>2. Book = [t \in {} |-> Lifecycle!Fresh(0)]
    BY <2>1 DEF Book
  <2> QED
    BY <2>2 DEF Init, Lifecycle!Init
<1>3. IInv /\ ReceivingOK /\ LastNonce /\ [Next]_vars
        => ReceivingOK' /\ LastNonce'
  BY ReceivingStep, LastNonceStep DEF IInv
<1>4. IInv /\ ReceivingOK /\ LastNonce /\ [Next]_vars
        => [Lifecycle!Next]_(Lifecycle!vars)
  BY StepImplements
<1> QED
  BY <1>1, <1>2, <1>3, <1>4, Inductive, PTL DEF Spec, ImplementsLifecycle

-----------------------------------------------------------------------------
\* What the results on the bus say of nonces and transactions.

\* The trades that have a result stay as they are, while no new one is published.
LEMMA SameReported ==
  ASSUME TypeOK, BusGrows, Of("Executed")' = Of("Executed")
  PROVE  Reported' = Reported
<1>1. \A i \in Of("Executed") : log'[i] = log[i]
  BY OfGrows
<1> QED
  BY <1>1 DEF Reported

\* The trades that have a result are finitely many.
LEMMA ReportedFinite == ASSUME IInv PROVE IsFiniteSet(Reported)
<1>1. /\ Len(log) \in Nat /\ next["execution"] \in Nat
      /\ next["execution"] <= Len(log) + 1
  BY LenProperties DEF IInv, TypeOK, Consumers
<1>2. \A i \in Of("Executed") :
        log[i].cause \in Nat /\ log[i].cause < next["execution"]
  BY DEF IInv, CausesOrdered, Answered, Reply
<1>3. Reported \subseteq 0 .. Len(log)
  BY <1>1, <1>2 DEF Reported
<1>4. IsFiniteSet(0 .. Len(log))
  BY <1>1, FS_Interval
<1> QED
  BY <1>3, <1>4, FS_Subset

\* Every step keeps the account of the nonces: one is taken for a trade that has
\* no result, and the trade it is taken for gets the next one.
LEMMA NoncesStep ==
  IInv /\ ReceivingOK /\ NoncesAccounted /\ [Next]_vars => NoncesAccounted'
<1> SUFFICES ASSUME IInv, ReceivingOK, NoncesAccounted, [Next]_vars
             PROVE  NoncesAccounted'
  OBVIOUS
<1> DEFINE h == handling["execution"]
<1>1. TypeOK /\ HandlingOK /\ BusGrows /\ nonce \in Nat
  BY BusStep DEF IInv, TypeOK
<1>2. Executing = IF HoldsNonce THEN {h} ELSE {}
  BY DEF Executing
<1>3. Executing' = IF HoldsNonce' THEN {h'} ELSE {}
  BY DEF Executing
<1>4. ASSUME Of("Executed")' = Of("Executed"), UNCHANGED nonce,
             HoldsNonce' <=> HoldsNonce, HoldsNonce => h' = h
      PROVE  NoncesAccounted'
  <2>1. Reported' = Reported /\ Executing' = Executing
    BY <1>1, <1>2, <1>3, <1>4, SameReported
  <2> QED
    BY <1>4, <2>1 DEF NoncesAccounted
<1>5. CASE TakeNonce
  <2>1. /\ pc["execution"] = "nonce" /\ ~HoldsNonce /\ HoldsNonce'
        /\ nonce' = nonce + 1 /\ h' = h /\ UNCHANGED log
    BY <1>1, <1>5, ExecuteControl DEF HoldsNonce
  <2>2. h \notin Reported
    <3>1. h \in Of("Validated") /\ h \in Nat /\ ResultsOf(h) = {}
      BY <2>1, InHandFacts DEF Working
    <3> QED
      BY <3>1 DEF ResultsOf, Reported
  <2>3. Reported' = Reported
    BY <1>1, <2>1, SameReported DEF Of
  <2>4. Cardinality(Reported \cup {h}) = Cardinality(Reported) + 1
    BY <1>1, <2>2, ReportedFinite, FS_AddElement
  <2>5. Reported \cup Executing = Reported
    BY <1>2, <2>1
  <2>6. Reported' \cup Executing' = Reported \cup {h}
    BY <1>3, <2>1, <2>3
  <2> QED
    BY <2>1, <2>4, <2>5, <2>6 DEF NoncesAccounted
<1>6. CASE SignFails \/ SendOk \/ SendFails
  <2>1. HoldsNonce /\ HoldsNonce' /\ UNCHANGED <<log, nonce>> /\ h' = h
    BY <1>1, <1>6, ExecuteControl DEF HoldsNonce
  <2> QED
    BY <1>4, <2>1 DEF Of
<1>7. CASE Report
  <2>1. HoldsNonce /\ ~HoldsNonce' /\ UNCHANGED nonce
    BY <1>1, <1>7, ExecuteControl DEF HoldsNonce
  <2> PICK n : n = Len(log) + 1
    OBVIOUS
  <2>2. /\ log'[n].cause = h
        /\ Of("Executed")' = Of("Executed") \cup {n}
        /\ \A i \in Of("Executed") : log'[i] = log[i]
    BY <1>1, <1>7, ReportFacts DEF Result
  <2>3. Reported' = Reported \cup {h}
    BY <2>2 DEF Reported
  <2>4. Reported' \cup Executing' = Reported \cup Executing
    BY <1>2, <1>3, <2>1, <2>3
  <2> QED
    BY <2>1, <2>4 DEF NoncesAccounted
<1>8. CASE ExecutionQuiet /\ ~Report
  BY <1>1, <1>4, <1>8, KindSteps DEF ExecutionQuiet
<1> QED
  BY <1>1, <1>5, <1>6, <1>7, <1>8, QuietSteps

\* A trade that has a result keeps it.
LEMMA ReportsStay ==
  ASSUME TypeOK, BusGrows PROVE Reported \subseteq Reported'
<1>1. \A i \in Of("Executed") : i \in Of("Executed")' /\ log'[i] = log[i]
  BY OfGrows
<1> QED
  BY <1>1 DEF Reported

\* The trade at v has a result, or is about to.
Accounted(v) ==
  \/ v \in Reported
  \/ pc["execution"] = "report" /\ handling["execution"] = v

\* It still has after any step: the report of the trade in hand is the way out
\* of "report".
LEMMA AccountedStays ==
  ASSUME TypeOK, HandlingOK, ReceivingOK, [Next]_vars, NEW v, Accounted(v)
  PROVE  Accounted(v)'
<1>1. BusGrows
  BY BusStep
<1>2. CASE v \in Reported
  BY <1>1, <1>2, ReportsStay DEF Accounted
<1>3. ASSUME pc["execution"] = "report", handling["execution"] = v
      PROVE  Accounted(v)'
  <2>1. CASE Report
    <3> PICK n : n = Len(log) + 1
      OBVIOUS
    <3>1. n \in Of("Executed")' /\ log'[n] = Result
      BY <2>1, ReportFacts
    <3>2. v \in Reported'
      BY <1>3, <3>1 DEF Reported, Result
    <3> QED
      BY <3>2 DEF Accounted
  <2>2. CASE ExecutionQuiet
    BY <1>3, <2>2 DEF Accounted, ExecutionQuiet, HoldsNonce
  <2> QED
    BY <1>3, <2>1, <2>2, QuietSteps, ExecuteControl
<1> QED
  BY <1>2, <1>3 DEF Accounted

\* Every step keeps what reached the network reported.
LEMMA SentReportedStep ==
  TypeOK /\ HandlingOK /\ ReceivingOK /\ SentIsReported /\ [Next]_vars
    => SentIsReported'
<1> SUFFICES ASSUME TypeOK, HandlingOK, ReceivingOK, SentIsReported,
                    [Next]_vars, NEW v, NEW k \in DOMAIN sent',
                    v = sent'[k].trade
             PROVE  Accounted(v)'
  BY DEF SentIsReported, Accounted
<1>1. ASSUME k \in DOMAIN sent, sent'[k] = sent[k] PROVE Accounted(v)'
  <2>1. Accounted(v)
    BY <1>1 DEF SentIsReported, Accounted
  <2> QED
    BY <2>1, AccountedStays
<1>2. CASE UNCHANGED sent
  BY <1>1, <1>2
<1>3. CASE (SendOk \/ SendFails) /\ ReachNetwork
  <2>1. CASE k \in DOMAIN sent
    BY <1>1, <1>3, <2>1, ReachAppends
  <2>2. CASE k \notin DOMAIN sent
    <3>1. v = handling["execution"]
      BY <1>3, <2>2, ReachAppends
    <3>2. pc'["execution"] = "report" /\ UNCHANGED handling
      BY <1>3, ExecuteControl
    <3> QED
      BY <3>1, <3>2 DEF Accounted
  <2> QED
    BY <2>1, <2>2
<1> QED
  BY <1>2, <1>3, SentSteps

\* A transaction at the network stays there.
LEMMA SentStays ==
  ASSUME TypeOK, [Next]_vars
  PROVE  \A k \in DOMAIN sent : k \in DOMAIN sent' /\ sent'[k] = sent[k]
BY SentSteps, ReachAppends

\* Where the truth of the results comes from: a dry run reaches no network and
\* is the only source of DryRun; a Success about to be reported has reached it.
ResultsTrue ==
  /\ DryRun => sent = << >>
  /\ outcome = "DryRun" => DryRun
  /\ \A i \in Of("Executed") :
       /\ log[i].body.outcome = "DryRun" => DryRun
       /\ log[i].body.outcome = "Success" /\ Broadcaster = "network"
            => ReachedNetwork(i)
  /\ pc["execution"] = "report" /\ outcome = "Success"
       /\ Broadcaster = "network"
       => \E k \in DOMAIN sent : sent[k].trade = handling["execution"]

\* Every step keeps the results true.
LEMMA TrueStep ==
  TypeOK /\ HandlingOK /\ ReceivingOK /\ ResultsTrue /\ [Next]_vars
    => ResultsTrue'
<1> SUFFICES ASSUME TypeOK, HandlingOK, ReceivingOK, ResultsTrue, [Next]_vars
             PROVE  ResultsTrue'
  OBVIOUS
<1>1. BusGrows
  BY BusStep
<1>2. DryRun => sent' = << >>
  <2>1. CASE UNCHANGED sent
    BY <2>1 DEF ResultsTrue
  <2>2. ASSUME SendOk \/ SendFails, DryRun PROVE UNCHANGED sent
    BY <2>2 DEF SendOk, SendFails, UsesNetwork
  <2> QED
    BY <2>1, <2>2, SentSteps
<1>3. outcome' = "DryRun" => DryRun
  <2>1. CASE TakeNonce \/ SignFails \/ Report
    BY <2>1, ExecuteControl DEF ResultsTrue
  <2>2. CASE SendOk \/ SendFails
    BY <2>2, PipelineAssumption DEF SendOk, SendFails, OnSendError
  <2>3. CASE ExecutionQuiet
    BY <2>3 DEF ExecutionQuiet, ResultsTrue
  <2> QED
    BY <2>1, <2>2, <2>3, QuietSteps
<1>4. ASSUME NEW i \in Of("Executed")'
      PROVE  /\ log'[i].body.outcome = "DryRun" => DryRun
             /\ log'[i].body.outcome = "Success" /\ Broadcaster = "network"
                  => ReachedNetwork(i)'
  <2>1. CASE i \in Of("Executed")
    <3>1. log'[i] = log[i]
      BY <1>1, <2>1, OfGrows
    <3>2. ReachedNetwork(i) => ReachedNetwork(i)'
      BY <3>1, SentStays DEF ReachedNetwork
    <3> QED
      BY <2>1, <3>1, <3>2 DEF ResultsTrue
  <2>2. CASE i \notin Of("Executed")
    <3>1. Report
      BY <2>2, KindSteps
    <3>2. i = Len(log) + 1
      BY <1>1, <2>2, OfGrows
    <3>3. log'[i] = Result
      BY <3>1, <3>2, ReportFacts
    <3>4. /\ log'[i].body.outcome = outcome
          /\ log'[i].cause = handling["execution"]
      BY <3>3 DEF Result
    <3>5. pc["execution"] = "report" /\ UNCHANGED sent
      BY <3>1, ExecuteControl
    <3>6. (\E k \in DOMAIN sent : sent[k].trade = handling["execution"]) => ReachedNetwork(i)'
      BY <3>4, <3>5 DEF ReachedNetwork
    <3> QED
      BY <3>4, <3>5, <3>6 DEF ResultsTrue
  <2> QED
    BY <2>1, <2>2
<1>5. ASSUME pc'["execution"] = "report", outcome' = "Success",
             Broadcaster = "network"
      PROVE  \E k \in DOMAIN sent' : sent'[k].trade = handling'["execution"]
  <2>1. ~TakeNonce /\ ~SignFails /\ ~Report
    BY <1>5, ExecuteControl
  <2>2. CASE SendOk \/ SendFails
    <3>1. SendOk
      BY <1>5, <2>2 DEF SendFails, OnSendError
    <3>2. ReachNetwork
      BY <1>5, <3>1 DEF SendOk, UsesNetwork
    <3>3. UNCHANGED handling
      BY <2>2, ExecuteControl
    <3> QED
      BY <3>2, <3>3, ReachAppends
  <2>3. CASE ExecutionQuiet
    <3>1. /\ pc["execution"] = "report" /\ outcome = "Success"
          /\ UNCHANGED sent
          /\ handling'["execution"] = handling["execution"]
      BY <1>5, <2>3 DEF ExecutionQuiet, HoldsNonce
    <3> QED
      BY <1>5, <3>1 DEF ResultsTrue
  <2> QED
    BY <2>1, <2>2, <2>3, QuietSteps
<1> QED
  BY <1>2, <1>3, <1>4, <1>5 DEF ResultsTrue

\* The invariant of the results, beside IInv.
ResultsInv ==
  ReceivingOK /\ NoncesAccounted /\ SentIsReported /\ ResultsTrue

\* It holds of every reachable state.
LEMMA ResultsInductive == Spec => []ResultsInv
<1>1. Init => ResultsInv
  <2> SUFFICES ASSUME Init PROVE ResultsInv
    OBVIOUS
  <2>1. /\ \A kind : Of(kind) = {}
        /\ sent = << >> /\ DOMAIN sent = {}
    BY EmptySeq DEF Init, BusInit, Of
  <2>2. /\ pc["execution"] = "spawned"
        /\ nonce = 0 /\ outcome = "Failed"
    BY DEF Init, Agents, Consumers
  <2>3. ReceivingOK
    BY DEF Init, ReceivingOK, Agents, Consumers, Working
  <2>4. NoncesAccounted
    <3>1. Reported = {}
      BY <2>1 DEF Reported
    <3>2. Executing = {}
      BY <2>2 DEF Executing, HoldsNonce
    <3> QED
      BY <2>2, <3>1, <3>2, FS_EmptySet DEF NoncesAccounted
  <2>5. SentIsReported /\ ResultsTrue
    BY <2>1, <2>2 DEF SentIsReported, ResultsTrue
  <2> QED
    BY <2>3, <2>4, <2>5 DEF ResultsInv
<1>2. IInv /\ ResultsInv /\ [Next]_vars => ResultsInv'
  BY ReceivingStep, NoncesStep, SentReportedStep, TrueStep DEF IInv, ResultsInv
<1> QED
  BY <1>1, <1>2, Inductive, PTL DEF Spec

\* As many trades are reported, or being executed, as NonceManager ever gave out
\* nonces: each nonce goes to a trade of its own, and none of these trades is
\* dropped on a failure of sign or of the broadcaster, or by the cancellation.
THEOREM EveryNonceAccounted == Spec => []NoncesAccounted
<1>1. ResultsInv => NoncesAccounted
  BY DEF ResultsInv
<1> QED
  BY <1>1, ResultsInductive, PTL

\* A trade with a transaction at the network has a result, or is about to, also
\* when the broadcaster's answer was an error.
THEOREM EverySendReported == Spec => []SentIsReported
<1>1. ResultsInv => SentIsReported
  BY DEF ResultsInv
<1> QED
  BY <1>1, ResultsInductive, PTL

\* With a network to reach, Success is reported only of what reached it, and
\* DryRun only of what did not.
THEOREM ResultsTellTheTruth == Spec => []OutcomesTruthful
<1>1. ResultsInv => OutcomesTruthful
  BY EmptySeq DEF ResultsInv, ResultsTrue, OutcomesTruthful, ReachedNetwork
<1> QED
  BY <1>1, ResultsInductive, PTL

-----------------------------------------------------------------------------
\* The exposure as a sum over the log.

Approvals == [i \in Of("Validated") |-> log[i].body.intent.amount]

\* The validated trades are finitely many, with an amount each.
LEMMA ApprovalFacts ==
  ASSUME TypeOK
  PROVE  IsFiniteSet(Of("Validated")) /\ Approvals \in [Of("Validated") -> Nat]
<1>1. IsFiniteSet(Of("Validated"))
  <2>1. Len(log) \in Nat
    BY LenProperties DEF TypeOK
  <2>2. IsFiniteSet(1 .. Len(log))
    BY <2>1, FS_Interval
  <2>3. Of("Validated") \subseteq 1 .. Len(log)
    BY ValidatedFacts
  <2> QED
    BY <2>2, <2>3, FS_Subset
<1>2. \A i \in Of("Validated") : log[i].body.intent.amount \in Nat
  BY ValidatedFacts DEF Amount
<1> QED
  BY <1>1, <1>2 DEF Approvals

\* An approval is published: the agents that are in their loops receive it.
LEMMA ApprovalPublished ==
  ASSUME TypeOK, HandlingOK, ReceivingOK, [Next]_vars, RiskApprove
  PROVE  /\ Of("Validated")' = Of("Validated") \cup {Len(log) + 1}
         /\ Len(log) + 1 \notin Of("Validated")
<1>1. receivers # {}
  BY DEF RiskApprove, ReceivingOK, Consumers, Working
<1> DEFINE m == [kind |-> "Validated", cause |-> handling["risk"],
                 body |-> [intent |-> Handled("risk"),
                           projected |-> exposure + Handled("risk").amount]]
<1>2. m \in Message /\ Publish(m)
  BY PublishedTypes DEF RiskApprove
<1>3. log' \in Seq(Message) /\ Len(log') = Len(log) + 1 /\ log'[Len(log) + 1] = m
  BY <1>1, <1>2, PublishFacts DEF TypeOK
<1>4. Len(log) \in Nat
  BY LenProperties DEF TypeOK
<1>5. Len(log) + 1 \in Of("Validated")'
  BY <1>3, <1>4, LenProperties DEF Of
<1>6. Len(log) + 1 \notin Of("Validated")
  BY <1>4, ValidatedFacts
<1> QED
  BY <1>5, <1>6, BusStep, OfGrows

\* Every step keeps the tracker at the sum of the approvals.
LEMMA SumStep ==
  ASSUME TypeOK, HandlingOK, ReceivingOK, [Next]_vars,
         ExposureIsSumOfApprovals
  PROVE  ExposureIsSumOfApprovals'
<1>1. exposure = SumFunction(Approvals)
  BY DEF ExposureIsSumOfApprovals, Approvals
<1>2. /\ Approvals = [i \in Of("Validated") |-> log[i].body.intent.amount]
      /\ Approvals' = [i \in Of("Validated")' |-> log'[i].body.intent.amount]
  BY DEF Approvals
<1>3. \A i \in Of("Validated") : log'[i] = log[i]
  BY BusStep, OfGrows
<1>4. CASE RiskApprove
  <2>1. PICK n : n = Len(log) + 1
    OBVIOUS
  <2>2. Of("Validated")' = Of("Validated") \cup {n} /\ n \notin Of("Validated")
    BY <1>4, <2>1, ApprovalPublished
  <2>3. /\ exposure' = exposure + Handled("risk").amount
        /\ Amount(n)' = Handled("risk").amount
    BY <1>4, <2>1, <2>2, ApproveFacts
  <2>4. IsFiniteSet(Of("Validated")) /\ Approvals \in [Of("Validated") -> Nat]
    BY ApprovalFacts
  <2>5. Approvals' \in [Of("Validated") \cup {n} -> Nat]
    <3>1. \A i \in Of("Validated") : Approvals[i] \in Nat
      BY <2>4
    <3>2. \A i \in Of("Validated")' : Approvals'[i] \in Nat
      <4>1. Approvals'[n] \in Nat
        BY <1>2, <1>4, <2>2, <2>3, ApproveFacts DEF Amount
      <4>2. \A i \in Of("Validated") : Approvals'[i] \in Nat
        BY <1>2, <1>3, <2>2, <3>1
      <4> QED
        BY <2>2, <4>1, <4>2
    <3> QED
      BY <1>2, <2>2, <3>2
  <2>6. \A i \in Of("Validated") : Approvals'[i] = Approvals[i]
    BY <1>2, <1>3, <2>2
  <2>7. Approvals'[n] = Handled("risk").amount
    BY <1>2, <2>2, <2>3 DEF Amount
  <2>8. SumFunction(Approvals') = SumFunction(Approvals) + Approvals'[n]
    BY <2>2, <2>4, <2>5, <2>6, SumWithOneMore
  <2> QED
    BY <1>1, <2>3, <2>7, <2>8 DEF ExposureIsSumOfApprovals, Approvals
<1>5. CASE ~RiskApprove
  <2>1. Of("Validated")' = Of("Validated") /\ exposure' = exposure
    BY <1>5, KindSteps, ExposureSteps
  <2>2. Approvals' = Approvals
    BY <1>2, <1>3, <2>1
  <2> QED
    BY <1>1, <2>1, <2>2 DEF ExposureIsSumOfApprovals, Approvals
<1> QED
  BY <1>4, <1>5

\* Nothing but approvals ever moves the exposure, and no approval is counted
\* twice or lost on its way to the bus: the tracker is the sum of the amounts
\* of the validated trades on the log (risk-agent/src/agent.rs:83).
THEOREM ExposureCountsApprovals == Spec => []ExposureIsSumOfApprovals
<1>1. Init => ExposureIsSumOfApprovals
  <2> SUFFICES ASSUME Init PROVE ExposureIsSumOfApprovals
    OBVIOUS
  <2>1. Of("Validated") = {}
    BY EmptySeq DEF Init, BusInit, Of
  <2>2. Approvals \in [{} -> Nat]
    BY <2>1 DEF Approvals
  <2>3. SumFunction(Approvals) = 0
    BY <2>2, NoAmounts
  <2> QED
    BY <2>3 DEF Init, ExposureIsSumOfApprovals, Approvals
<1>2. IInv /\ ResultsInv /\ ExposureIsSumOfApprovals /\ [Next]_vars
        => ExposureIsSumOfApprovals'
  BY SumStep DEF IInv, ResultsInv
<1> QED
  BY <1>1, <1>2, Inductive, ResultsInductive, PTL DEF Spec

=============================================================================
