------------------------ MODULE TradingPipelineProofs ------------------------
(***************************************************************************)
(* Proofs about TradingPipeline.                                           *)
(***************************************************************************)
EXTENDS TradingPipeline, AmountSums, SequenceTheorems, TLAPS

\* The control states in which an agent works on a message.
Working ==
  [strategy |-> {"evaluate"}, risk |-> {"decide"},
   execution |-> {"nonce", "sign", "send", "report"}]

\* A working agent has a message of its kind, behind its read position.
HandlingOK ==
  \A s \in Consumers : pc[s] \in Working[s] =>
    /\ handling[s] \in Of(Wants[s])
    /\ handling[s] < next[s]

\* Publishing leaves the log alone or appends the message to it.
LEMMA PublishFacts ==
  ASSUME log \in Seq(Message), NEW m \in Message, Publish(m)
  PROVE  /\ log' \in Seq(Message)
         /\ Len(log') \in {Len(log), Len(log) + 1}
         /\ \A i \in 1 .. Len(log) : log'[i] = log[i]
         /\ receivers # {} => Len(log') = Len(log) + 1
         /\ Len(log') = Len(log) + 1 => log'[Len(log) + 1] = m
BY DEF Publish

\* What the body of a message is, by its kind.
LEMMA BodyFacts ==
  ASSUME NEW m \in Message
  PROVE  /\ m.cause \in Nat
         /\ m.kind \in {"Signal", "Intent", "Validated", "Executed"}
         /\ m.kind = "Signal" => m.body \in Signals
         /\ m.kind = "Intent" => m.body \in TradeIntent
         /\ m.kind = "Validated" => m.body \in ValidatedTrade
         /\ m.kind = "Executed" => m.body \in ExecutionResult
BY DEF Message

\* The body an agent works on has the type its handler expects.
LEMMA HandledFacts ==
  ASSUME TypeOK, HandlingOK
  PROVE  /\ pc["strategy"] = "evaluate" => Handled("strategy") \in Signals
         /\ pc["risk"] = "decide" => Handled("risk") \in TradeIntent
         /\ pc["execution"] \in Working["execution"] =>
              Handled("execution") \in ValidatedTrade
<1>1. \A i \in 1 .. Len(log) : log[i] \in Message
  BY DEF TypeOK
<1>2. \A i \in 1 .. Len(log) :
        /\ log[i].kind = "Signal" => log[i].body \in Signals
        /\ log[i].kind = "Intent" => log[i].body \in TradeIntent
        /\ log[i].kind = "Validated" => log[i].body \in ValidatedTrade
  BY <1>1, BodyFacts
<1>3. \A s \in Consumers : pc[s] \in Working[s] =>
        handling[s] \in 1 .. Len(log) /\ log[handling[s]].kind = Wants[s]
  BY DEF HandlingOK, Of, TypeOK
<1> QED
  BY <1>2, <1>3 DEF Handled, Working, Wants, Consumers

\* The parts of TypeOK that a step can change one by one.
BusTypeOK ==
  /\ log \in Seq(Message)
  /\ next \in [Consumers -> 1 .. Len(log) + 1]
  /\ receivers \subseteq Consumers

\* Publishing a message keeps the types of the bus.
LEMMA PublishType ==
  ASSUME BusTypeOK, NEW m \in Message, Publish(m)
  PROVE  BusTypeOK' /\ Len(log) <= Len(log')
<1>1. log' \in Seq(Message) /\ Len(log) <= Len(log')
  BY PublishFacts DEF BusTypeOK
<1>2. UNCHANGED <<next, receivers>>
  BY DEF Publish
<1>3. 1 .. Len(log) + 1 \subseteq 1 .. Len(log') + 1
  BY <1>1, LenProperties DEF BusTypeOK
<1> QED
  BY <1>1, <1>2, <1>3 DEF BusTypeOK

\* So do subscribing, unsubscribing and receiving.
LEMMA CursorType ==
  ASSUME BusTypeOK, NEW s \in Consumers,
         Subscribe(s) \/ Unsubscribe(s) \/ RecvOk(s) \/ RecvLagged(s)
  PROVE  BusTypeOK' /\ UNCHANGED log
<1>1. Len(log) \in Nat
  BY LenProperties DEF BusTypeOK
<1>2. CASE Subscribe(s)
  BY <1>1, <1>2 DEF BusTypeOK, Subscribe
<1>3. CASE Unsubscribe(s)
  BY <1>3 DEF BusTypeOK, Unsubscribe
<1>4. CASE RecvOk(s)
  BY <1>1, <1>4 DEF BusTypeOK, RecvOk, Unread
<1>5. CASE RecvLagged(s)
  <2>1. Oldest \in 1 .. Len(log) + 1
    BY <1>1, CapacityAssumption DEF Oldest
  <2> QED
    BY <1>1, <1>5, <2>1 DEF BusTypeOK, RecvLagged
<1> QED
  BY <1>2, <1>3, <1>4, <1>5

\* What the agents publish are messages.
LEMMA PublishedTypes ==
  ASSUME TypeOK, HandlingOK
  PROVE  /\ \A spread \in Spreads :
              [kind |-> "Signal", cause |-> 0,
               body |-> [type |-> "PriceDivergence", spread |-> spread]]
                \in Message
         /\ [kind |-> "Signal", cause |-> 0,
             body |-> [type |-> "LargeSwap", spread |-> 0]] \in Message
         /\ pc["strategy"] = "evaluate" =>
              \A answer \in Answers[strategy_idx][Handled("strategy")] :
                answer # NoIntent =>
                  [kind |-> "Intent", cause |-> handling["strategy"],
                   body |-> answer] \in Message
         /\ pc["risk"] = "decide" =>
              [kind |-> "Validated", cause |-> handling["risk"],
               body |-> [intent |-> Handled("risk"),
                         projected |-> exposure + Handled("risk").amount]]
                \in Message
         /\ pc["execution"] = "report" => Result \in Message
<1>1. \A s \in Consumers : handling[s] \in Nat
  BY LenProperties DEF TypeOK
<1>2. pc["strategy"] = "evaluate" =>
        Answers[strategy_idx][Handled("strategy")]
          \subseteq TradeIntent \cup {NoIntent}
  BY HandledFacts, PipelineAssumption DEF TypeOK
<1>3. pc["risk"] = "decide" =>
        [intent |-> Handled("risk"),
         projected |-> exposure + Handled("risk").amount] \in ValidatedTrade
  <2>1. exposure \in Nat
    BY DEF TypeOK
  <2>2. ASSUME pc["risk"] = "decide"
        PROVE  Handled("risk") \in TradeIntent /\ Handled("risk").amount \in Nat
    <3>1. Handled("risk") \in TradeIntent
      BY <2>2, HandledFacts
    <3> QED
      BY <3>1 DEF TradeIntent
  <2>3. ASSUME NEW intent \in TradeIntent, intent.amount \in Nat
        PROVE  [intent |-> intent, projected |-> exposure + intent.amount]
                 \in ValidatedTrade
    <3>1. exposure + intent.amount \in Nat
      BY <2>1, <2>3
    <3> QED
      BY <2>3, <3>1 DEF ValidatedTrade
  <2> QED
    BY <2>2, <2>3
<1>4. pc["execution"] = "report" => Result.body \in ExecutionResult
  BY HandledFacts DEF TypeOK, ExecutionResult, Result, Working
<1>5. \A spread \in Spreads :
        [kind |-> "Signal", cause |-> 0,
         body |-> [type |-> "PriceDivergence", spread |-> spread]] \in Message
  BY DEF Message, Signals
<1>6. [kind |-> "Signal", cause |-> 0,
       body |-> [type |-> "LargeSwap", spread |-> 0]] \in Message
  BY DEF Message, Signals
<1>7. pc["strategy"] = "evaluate" =>
        \A answer \in Answers[strategy_idx][Handled("strategy")] :
          answer # NoIntent =>
            [kind |-> "Intent", cause |-> handling["strategy"],
             body |-> answer] \in Message
  BY <1>1, <1>2 DEF Message, Consumers
<1>8. pc["risk"] = "decide" =>
        [kind |-> "Validated", cause |-> handling["risk"],
         body |-> [intent |-> Handled("risk"),
                   projected |-> exposure + Handled("risk").amount]]
          \in Message
  BY <1>1, <1>3 DEF Message, Consumers
<1>9. pc["execution"] = "report" => Result \in Message
  BY <1>1, <1>4 DEF Message, Consumers, Result
<1> QED
  BY <1>5, <1>6, <1>7, <1>8, <1>9

\* What every step does to the bus: the log is only appended to, and no read
\* position goes back.
BusGrows ==
  /\ BusTypeOK'
  /\ Len(log') \in {Len(log), Len(log) + 1}
  /\ \A i \in 1 .. Len(log) : log'[i] = log[i]
  /\ \A s \in Consumers : next[s] <= next'[s]

\* Publishing a message only appends.
LEMMA PublishGrows ==
  ASSUME BusTypeOK, NEW m \in Message, Publish(m)
  PROVE  BusGrows
<1>1. UNCHANGED next
  BY DEF Publish
<1> QED
  BY <1>1, PublishFacts, PublishType, LenProperties DEF BusGrows, BusTypeOK

\* Subscribing, unsubscribing and receiving move read positions forward only.
LEMMA CursorGrows ==
  ASSUME BusTypeOK, NEW s \in Consumers,
         Subscribe(s) \/ Unsubscribe(s) \/ RecvOk(s) \/ RecvLagged(s)
  PROVE  BusGrows
<1>1. Len(log) \in Nat
  BY LenProperties DEF BusTypeOK
<1>2. BusTypeOK' /\ UNCHANGED log
  BY CursorType
<1>3. next[s] <= next'[s]
  BY <1>1, CapacityAssumption
     DEF BusTypeOK, Subscribe, Unsubscribe, RecvOk, RecvLagged, Lagged, Oldest
<1>4. \A r \in Consumers \ {s} : next'[r] = next[r]
  BY DEF BusTypeOK, Subscribe, Unsubscribe, RecvOk, RecvLagged
<1>5. \A r \in Consumers : next[r] <= next'[r]
  BY <1>1, <1>3, <1>4 DEF BusTypeOK
<1> QED
  BY <1>1, <1>2, <1>5 DEF BusGrows

\* A step that leaves the bus alone.
LEMMA QuietGrows == ASSUME BusTypeOK, UNCHANGED busVars PROVE BusGrows
<1>1. Len(log) \in Nat
  BY LenProperties DEF BusTypeOK
<1> QED
  BY <1>1 DEF BusGrows, BusTypeOK, busVars

\* Whatever the agents do, the log only grows and read positions never go back.
LEMMA BusStep == TypeOK /\ HandlingOK /\ [Next]_vars => BusGrows
<1> SUFFICES ASSUME TypeOK, HandlingOK, [Next]_vars PROVE BusGrows
  OBVIOUS
<1>1. BusTypeOK
  BY DEF BusTypeOK, TypeOK
<1>2. CASE MarketStep
  <2>1. CASE MarketSwap
    BY <1>1, <2>1, PublishedTypes, PublishGrows DEF MarketSwap
  <2>2. CASE MarketDivergence
    BY <1>1, <2>2, PublishedTypes, PublishGrows DEF MarketDivergence
  <2>3. CASE ~MarketSwap /\ ~MarketDivergence
    BY <1>1, <1>2, <2>3, QuietGrows
       DEF MarketStep, MarketStart, MarketStop, MarketStreamEnds, MarketSkip,
           MarketNoDivergence
  <2> QED
    BY <2>1, <2>2, <2>3
<1>3. ASSUME NEW s \in Consumers, Start(s) \/ Stop(s) \/ RecvStep(s)
      PROVE  BusGrows
  BY <1>1, <1>3, CursorGrows DEF Start, Stop, RecvStep, SkipMissed, Ignore, Take
<1>4. CASE StrategyEvaluate
  <2>1. PICK answer \in Answers[strategy_idx][Handled("strategy")] :
          IF answer = NoIntent
          THEN UNCHANGED busVars
          ELSE Publish([kind |-> "Intent", cause |-> handling["strategy"],
                        body |-> answer])
    BY <1>4 DEF StrategyEvaluate
  <2>2. pc["strategy"] = "evaluate"
    BY <1>4 DEF StrategyEvaluate
  <2> QED
    BY <1>1, <2>1, <2>2, PublishedTypes, PublishGrows, QuietGrows
<1>5. CASE RiskReject
  BY <1>1, <1>5, QuietGrows DEF RiskReject
<1>6. CASE RiskApprove
  BY <1>1, <1>6, PublishedTypes, PublishGrows DEF RiskApprove
<1>7. CASE Report
  BY <1>1, <1>7, PublishedTypes, PublishGrows DEF Report
<1>8. CASE ExecuteStep /\ ~Report
  BY <1>1, <1>8, QuietGrows
     DEF ExecuteStep, TakeNonce, SignOk, SignFails, SendOk, SendFails,
         AfterSendError
<1>9. CASE Cancel \/ Exit \/ Exited \/ UNCHANGED vars
  BY <1>1, <1>9, QuietGrows DEF Cancel, Exit, Exited, vars, busVars
<1> QED
  BY <1>2, <1>3, <1>4, <1>5, <1>6, <1>7, <1>8, <1>9 DEF Next, RiskDecide

\* Every action, for the case splits below.
LEMMA Actions ==
  [Next]_vars <=>
    \/ MarketStart \/ MarketStop \/ MarketStreamEnds \/ MarketSkip
    \/ MarketSwap \/ MarketNoDivergence \/ MarketDivergence
    \/ \E s \in Consumers :
         Start(s) \/ Stop(s) \/ SkipMissed(s) \/ Ignore(s) \/ Take(s)
    \/ StrategyEvaluate \/ RiskReject \/ RiskApprove
    \/ TakeNonce \/ SignOk \/ SignFails \/ SendOk \/ SendFails \/ Report
    \/ Cancel \/ Exit \/ UNCHANGED vars
BY DEF Next, MarketStep, RecvStep, RiskDecide, ExecuteStep, Exited

\* Every step keeps the types.
LEMMA TypeStep == TypeOK /\ HandlingOK /\ [Next]_vars => TypeOK'
<1> SUFFICES ASSUME TypeOK, HandlingOK, [Next]_vars PROVE TypeOK'
  OBVIOUS
<1> USE PipelineAssumption
    DEF busVars, marketVars, workVars, executionVars, Goto, PcOK, Agents,
        Consumers, ControlStates
<1>1. /\ BusTypeOK' /\ Len(log) \in Nat /\ Len(log') \in Nat
      /\ Len(log) <= Len(log')
  <2>1. BusTypeOK' /\ Len(log') \in {Len(log), Len(log) + 1}
    BY BusStep DEF BusGrows
  <2>2. log \in Seq(Message)
    BY DEF TypeOK
  <2>3. Len(log) \in Nat
    BY <2>2, LenProperties
  <2> QED
    BY <2>1, <2>3
<1>2. \A s \in Consumers : handling[s] \in 0 .. Len(log')
  BY <1>1 DEF TypeOK
<1>3. handling \in [Consumers -> 0 .. Len(log')]
  BY <1>2 DEF TypeOK
<1>a. /\ received \in 0 .. MaxTxs /\ pair \in 1 .. 3 /\ PcOK
      /\ nonce \in Nat /\ tx_nonce \in Nat /\ sent_eth \in Nat
      /\ outcome \in Outcomes
  BY DEF TypeOK
<1>4. ASSUME UNCHANGED <<handling, exposure, executionVars>>,
             PcOK', main' \in {"running", "cancelled", "exited"},
             received' \in 0 .. MaxTxs, pair' \in 1 .. 3,
             strategy_idx' \in 1 .. NumStrategies
      PROVE  TypeOK'
  BY <1>1, <1>3, <1>4 DEF TypeOK, BusTypeOK
<1>5. CASE MarketStart \/ MarketStop \/ MarketStreamEnds
  BY <1>4, <1>5 DEF TypeOK, MarketStart, MarketStop, MarketStreamEnds
<1>6. CASE MarketSkip \/ MarketSwap
  <2>1. received < MaxTxs /\ received' = received + 1
    BY <1>6 DEF MarketSkip, MarketSwap
  <2>2. received' \in 0 .. MaxTxs
    BY <1>a, <2>1
  <2>3. PcOK' /\ pair' \in 1 .. 3
    <3>1. CASE MarketSkip
      BY <1>a, <3>1 DEF MarketSkip
    <3>2. CASE MarketSwap
      BY <1>a, <3>2 DEF MarketSwap
    <3> QED
      BY <1>6, <3>1, <3>2
  <2> QED
    BY <1>4, <1>6, <2>2, <2>3 DEF TypeOK, MarketSkip, MarketSwap
<1>7. CASE MarketNoDivergence \/ MarketDivergence
  <2>1. CASE pair = 3
    <3>1. pair' \in 1 .. 3 /\ PcOK'
      BY <1>a, <1>7, <2>1 DEF MarketNoDivergence, MarketDivergence, NextPair
    <3> QED
      BY <1>4, <1>7, <3>1 DEF TypeOK, MarketNoDivergence, MarketDivergence
  <2>2. CASE pair # 3
    <3>1. pair' = pair + 1 /\ UNCHANGED pc
      BY <1>7, <2>2 DEF MarketNoDivergence, MarketDivergence, NextPair
    <3>2. pair' \in 1 .. 3
      BY <2>2, <3>1 DEF TypeOK
    <3>3. PcOK'
      BY <3>1 DEF TypeOK
    <3> QED
      BY <1>4, <1>7, <3>2, <3>3
         DEF TypeOK, MarketNoDivergence, MarketDivergence
  <2> QED
    BY <2>1, <2>2
<1>8. ASSUME NEW s \in Consumers, Start(s) \/ Stop(s) PROVE TypeOK'
  BY <1>4, <1>8 DEF TypeOK, Start, Stop
<1>9. ASSUME NEW s \in Consumers, SkipMissed(s) \/ Ignore(s) PROVE TypeOK'
  BY <1>4, <1>9 DEF TypeOK, SkipMissed, Ignore
<1>10. ASSUME NEW s \in Consumers, Take(s) PROVE TypeOK'
  <2>1. PcOK'
    <3>1. pc' = [pc EXCEPT ![s] = FirstStep[s]]
      BY <1>10 DEF Take
    <3> QED
      BY <1>a, <3>1 DEF FirstStep
  <2>2. handling' \in [Consumers -> 0 .. Len(log')]
    <3>1. next[s] \in 1 .. Len(log)
      <4>1. next[s] \in 1 .. Len(log) + 1
        BY <1>10 DEF TypeOK
      <4>2. next[s] <= Len(log)
        BY <1>10 DEF Take, RecvOk, Unread
      <4> QED
        BY <1>1, <4>1, <4>2
    <3>2. next[s] \in 0 .. Len(log')
      BY <1>1, <3>1
    <3> QED
      BY <1>3, <1>10, <3>2 DEF Take
  <2>3. strategy_idx' \in 1 .. NumStrategies
    BY <1>10 DEF TypeOK, Take
  <2> QED
    BY <1>1, <1>10, <2>1, <2>2, <2>3 DEF TypeOK, BusTypeOK, Take
<1>11. CASE StrategyEvaluate
  <2>1. strategy_idx' \in 1 .. NumStrategies /\ PcOK'
    <3>1. CASE strategy_idx = NumStrategies
      BY <1>11, <3>1 DEF TypeOK, StrategyEvaluate
    <3>2. CASE strategy_idx # NumStrategies
      BY <1>11, <3>2 DEF TypeOK, StrategyEvaluate
    <3> QED
      BY <3>1, <3>2
  <2> QED
    BY <1>4, <1>11, <2>1 DEF TypeOK, StrategyEvaluate
<1>12. CASE RiskReject
  BY <1>4, <1>12 DEF TypeOK, RiskReject
<1>13. CASE RiskApprove
  <2>1. Handled("risk").amount \in Nat
    BY <1>13, HandledFacts DEF RiskApprove, TradeIntent
  <2>2. exposure' \in Nat
    <3>1. exposure' = exposure + Handled("risk").amount
      BY <1>13 DEF RiskApprove, AddExposure
    <3>2. exposure \in Nat
      BY DEF TypeOK
    <3> QED
      BY <2>1, <3>1, <3>2
  <2>3. PcOK'
    BY <1>13 DEF TypeOK, RiskApprove
  <2> QED
    BY <1>1, <1>3, <1>13, <2>2, <2>3 DEF TypeOK, BusTypeOK, RiskApprove
<1>14. CASE TakeNonce \/ SignOk \/ SignFails
  <2>1. outcome' \in Outcomes /\ nonce' \in Nat /\ tx_nonce' \in Nat
    BY <1>14, <1>a DEF TakeNonce, SignOk, SignFails, FetchAddNonce, Outcomes
  <2>2. PcOK'
    <3>1. CASE TakeNonce
      BY <3>1 DEF TypeOK, TakeNonce
    <3>2. CASE SignOk
      BY <3>2 DEF TypeOK, SignOk
    <3>3. CASE SignFails
      BY <3>3 DEF TypeOK, SignFails, AfterSignError
    <3> QED
      BY <1>14, <3>1, <3>2, <3>3
  <2> QED
    BY <1>1, <1>3, <1>14, <2>1, <2>2
       DEF TypeOK, BusTypeOK, TakeNonce, SignOk, SignFails
<1>15. CASE SendOk \/ SendFails
  <2>1. PcOK' /\ outcome' \in Outcomes
    BY <1>15 DEF TypeOK, SendOk, SendFails, AfterSendError, OnSendError,
        Outcomes
  <2>2. Handled("execution").intent.amount \in Nat
    BY <1>15, HandledFacts
       DEF SendOk, SendFails, AfterSendError, Working, ValidatedTrade,
           TradeIntent
  <2>3. ReachNetwork \/ UNCHANGED <<sent, sent_eth>>
    BY <1>15 DEF SendOk, SendFails, AfterSendError
  <2>4. handling["execution"] \in Nat
    BY <1>1 DEF TypeOK
  <2>5. sent' \in Seq([nonce : Nat, trade : Nat]) /\ sent_eth' \in Nat
    <3>1. [nonce |-> tx_nonce, trade |-> handling["execution"]]
            \in [nonce : Nat, trade : Nat]
      BY <2>4 DEF TypeOK
    <3>2. CASE ReachNetwork
      <4>1. sent' \in Seq([nonce : Nat, trade : Nat])
        BY <3>1, <3>2, AppendProperties DEF TypeOK, ReachNetwork
      <4>2. sent_eth' \in Nat
        BY <1>a, <2>2, <3>2 DEF ReachNetwork
      <4> QED
        BY <4>1, <4>2
    <3>3. CASE UNCHANGED <<sent, sent_eth>>
      BY <3>3 DEF TypeOK
    <3> QED
      BY <2>3, <3>2, <3>3
  <2>6. UNCHANGED <<main, received, pair, strategy_idx, handling, exposure,
                    nonce, tx_nonce>>
    BY <1>15 DEF SendOk, SendFails, AfterSendError
  <2> QED
    BY <1>1, <1>3, <2>1, <2>5, <2>6 DEF TypeOK, BusTypeOK
<1>16. CASE Report
  BY <1>4, <1>16 DEF TypeOK, Report, AfterReport
<1>17. CASE Cancel \/ Exit \/ UNCHANGED vars
  BY <1>4, <1>17 DEF TypeOK, Cancel, Exit, vars
<1> QED
  BY <1>5, <1>6, <1>7, <1>8, <1>9, <1>10, <1>11, <1>12, <1>13, <1>14, <1>15,
     <1>16, <1>17, Actions

\* A message keeps its position and its kind.
LEMMA OfGrows ==
  ASSUME TypeOK, BusGrows, NEW kind
  PROVE  /\ Of(kind) \subseteq Of(kind)'
         /\ \A i \in Of(kind)' : i \in Of(kind) \/ i = Len(log) + 1
         /\ \A i \in Of(kind) : i \in 1 .. Len(log) /\ log'[i] = log[i]
<1>1. Len(log) \in Nat /\ DOMAIN log = 1 .. Len(log)
  BY LenProperties DEF TypeOK
<1>2. DOMAIN log' = 1 .. Len(log')
  BY LenProperties DEF BusGrows, BusTypeOK
<1>3. Len(log') \in Nat /\ Len(log) <= Len(log') /\ Len(log') <= Len(log) + 1
  BY <1>1 DEF BusGrows
<1>4. /\ Of(kind) = {i \in 1 .. Len(log) : log[i].kind = kind}
      /\ Of(kind)' = {i \in 1 .. Len(log') : log'[i].kind = kind}
  BY <1>1, <1>2 DEF Of
<1>5. \A i \in Of(kind) : i \in 1 .. Len(log) /\ log'[i] = log[i]
  BY <1>4 DEF BusGrows
<1>6. Of(kind) \subseteq Of(kind)'
  BY <1>1, <1>3, <1>4, <1>5
<1>7. ASSUME NEW i \in Of(kind)', i # Len(log) + 1 PROVE i \in Of(kind)
  <2>1. i \in 1 .. Len(log) /\ log'[i].kind = kind
    BY <1>1, <1>3, <1>4, <1>7
  <2> QED
    BY <1>4, <2>1 DEF BusGrows
<1> QED
  BY <1>5, <1>6, <1>7

\* Only taking a message makes an agent start to work, or changes the message
\* it works on.
LEMMA WorkSteps ==
  ASSUME TypeOK, [Next]_vars, NEW s \in Consumers
  PROVE  \/ Take(s)
         \/ /\ handling'[s] = handling[s]
            /\ pc'[s] \in Working[s] => pc[s] \in Working[s]
<1> USE DEF Goto, Working, Consumers
<1>1. pc \in [Agents -> ControlStates] /\ handling \in [Consumers -> 0 .. Len(log)]
  BY DEF TypeOK, PcOK
<1>2. CASE MarketStart \/ MarketStop \/ MarketStreamEnds \/ MarketSkip
           \/ MarketSwap \/ MarketNoDivergence \/ MarketDivergence
  BY <1>1, <1>2
     DEF Agents, workVars, MarketStart, MarketStop, MarketStreamEnds,
         MarketSkip,
         MarketSwap, MarketNoDivergence, MarketDivergence, NextPair
<1>3. ASSUME NEW r \in Consumers,
             Start(r) \/ Stop(r) \/ SkipMissed(r) \/ Ignore(r)
      PROVE  /\ handling'[s] = handling[s]
             /\ pc'[s] \in Working[s] => pc[s] \in Working[s]
  BY <1>1, <1>3 DEF Agents, workVars, Start, Stop, SkipMissed, Ignore
<1>4. ASSUME NEW r \in Consumers, r # s, Take(r)
      PROVE  handling'[s] = handling[s] /\ pc'[s] = pc[s]
  BY <1>1, <1>4 DEF Agents, Take
<1>5. CASE StrategyEvaluate \/ RiskReject \/ RiskApprove
  BY <1>1, <1>5
     DEF Agents, workVars, StrategyEvaluate, RiskReject, RiskApprove
<1>6. CASE TakeNonce \/ SignOk \/ SignFails \/ SendOk \/ SendFails \/ Report
  BY <1>1, <1>6
     DEF Agents, workVars, TakeNonce, SignOk, SignFails, AfterSignError, SendOk,
         SendFails, AfterSendError, Report, AfterReport
<1>7. CASE Cancel \/ Exit \/ UNCHANGED vars
  BY <1>7 DEF vars, workVars, Cancel, Exit
<1> QED
  BY <1>2, <1>3, <1>4, <1>5, <1>6, <1>7, Actions

\* Taking a message moves the read position behind it.
LEMMA TakeFacts ==
  ASSUME TypeOK, NEW s \in Consumers, Take(s)
  PROVE  /\ handling'[s] = next[s] /\ next'[s] = next[s] + 1
         /\ next[s] \in Of(Wants[s])
<1>1. handling'[s] = next[s] /\ next'[s] = next[s] + 1
  BY DEF Take, RecvOk, TypeOK
<1>2. next[s] \in 1 .. Len(log) /\ log[next[s]].kind = Wants[s]
  BY DEF Take, RecvOk, Unread, TypeOK
<1> QED
  BY <1>1, <1>2, LenProperties DEF Of, TypeOK

\* Every step keeps HandlingOK: an agent is given a message only by taking it,
\* and no message changes or moves afterwards.
LEMMA HandlingStep == TypeOK /\ HandlingOK /\ [Next]_vars => HandlingOK'
<1> SUFFICES ASSUME TypeOK, HandlingOK, [Next]_vars,
                    NEW s \in Consumers, pc'[s] \in Working[s]
             PROVE  handling'[s] \in Of(Wants[s])' /\ handling'[s] < next'[s]
  BY DEF HandlingOK
<1>1. BusGrows
  BY BusStep
<1>2. /\ Of(Wants[s]) \subseteq Of(Wants[s])' /\ next[s] <= next'[s]
      /\ handling[s] \in Nat /\ next[s] \in Nat /\ next'[s] \in Nat
  <2>1. Of(Wants[s]) \subseteq Of(Wants[s])'
    BY <1>1, OfGrows
  <2>2. Len(log) \in Nat /\ Len(log') \in Nat
    BY <1>1, LenProperties DEF BusGrows, BusTypeOK, TypeOK
  <2>3. /\ handling[s] \in 0 .. Len(log) /\ next[s] \in 1 .. Len(log) + 1
        /\ next'[s] \in 1 .. Len(log') + 1
    BY <1>1 DEF BusGrows, BusTypeOK, TypeOK
  <2>4. next[s] <= next'[s]
    BY <1>1 DEF BusGrows
  <2> QED
    BY <2>1, <2>2, <2>3, <2>4
<1>3. CASE Take(s)
  BY <1>2, <1>3, TakeFacts
<1>4. CASE handling'[s] = handling[s] /\ pc[s] \in Working[s]
  BY <1>2, <1>4 DEF HandlingOK
<1> QED
  BY <1>3, <1>4, WorkSteps

-----------------------------------------------------------------------------
\* Which step adds a message of which kind.

\* Publishing a message of one kind adds none of another.
LEMMA OtherKind ==
  ASSUME TypeOK, BusGrows, NEW m \in Message, Publish(m), NEW kind, m.kind # kind
  PROVE  Of(kind)' = Of(kind)
<1>1. log \in Seq(Message) /\ Len(log) \in Nat
  BY LenProperties DEF TypeOK
<1>2. Len(log) + 1 \notin Of(kind)'
  <2>1. log' = log \/ log'[Len(log) + 1] = m
    BY <1>1, AppendProperties DEF Publish
  <2>2. ASSUME log' = log PROVE Len(log) + 1 \notin Of(kind)'
    BY <1>1, <2>2, LenProperties DEF Of
  <2> QED
    BY <2>1, <2>2 DEF Of
<1> QED
  BY <1>2, OfGrows

\* A step that leaves the log alone adds no message.
LEMMA QuietKind == ASSUME UNCHANGED log, NEW kind PROVE Of(kind)' = Of(kind)
BY DEF Of

\* Only an approval adds a Validated message, only a report an Executed one.
LEMMA KindSteps ==
  ASSUME TypeOK, HandlingOK, [Next]_vars
  PROVE  /\ RiskApprove \/ Of("Validated")' = Of("Validated")
         /\ Report \/ Of("Executed")' = Of("Executed")
<1> USE DEF busVars
<1>1. BusGrows
  BY BusStep
<1>2. CASE MarketSwap
  BY <1>1, <1>2, PublishedTypes, OtherKind DEF MarketSwap
<1>3. CASE MarketDivergence
  BY <1>1, <1>3, PublishedTypes, OtherKind DEF MarketDivergence
<1>4. CASE StrategyEvaluate
  <2>1. PICK answer \in Answers[strategy_idx][Handled("strategy")] :
          IF answer = NoIntent
          THEN UNCHANGED busVars
          ELSE Publish([kind |-> "Intent", cause |-> handling["strategy"],
                        body |-> answer])
    BY <1>4 DEF StrategyEvaluate
  <2>2. pc["strategy"] = "evaluate"
    BY <1>4 DEF StrategyEvaluate
  <2>3. CASE answer = NoIntent
    BY <2>1, <2>3, QuietKind
  <2>4. CASE answer # NoIntent
    BY <1>1, <2>1, <2>2, <2>4, PublishedTypes, OtherKind
  <2> QED
    BY <2>3, <2>4
<1>5. CASE RiskApprove
  BY <1>1, <1>5, PublishedTypes, OtherKind DEF RiskApprove
<1>6. CASE Report
  BY <1>1, <1>6, PublishedTypes, OtherKind DEF Report, Result
<1>7. CASE UNCHANGED log
  BY <1>7, QuietKind
<1>8. ASSUME NEW s \in Consumers,
             Start(s) \/ Stop(s) \/ SkipMissed(s) \/ Ignore(s) \/ Take(s)
      PROVE  UNCHANGED log
  BY <1>8 DEF Start, Stop, SkipMissed, Ignore, Take, Subscribe, Unsubscribe,
              RecvOk, RecvLagged
<1>9. ASSUME \/ MarketStart \/ MarketStop \/ MarketStreamEnds \/ MarketSkip
             \/ MarketNoDivergence \/ RiskReject
             \/ TakeNonce \/ SignOk \/ SignFails \/ SendOk \/ SendFails
             \/ Cancel \/ Exit \/ UNCHANGED vars
      PROVE  UNCHANGED log
  BY <1>9 DEF MarketStart, MarketStop, MarketStreamEnds, MarketSkip,
     MarketNoDivergence, RiskReject, TakeNonce, SignOk, SignFails, SendOk,
     SendFails, AfterSendError, Cancel, Exit, vars
<1> QED
  BY <1>2, <1>3, <1>4, <1>5, <1>6, <1>7, <1>8, <1>9, Actions

\* The exposure moves with an approval only.
LEMMA ExposureSteps ==
  ASSUME [Next]_vars PROVE RiskApprove \/ UNCHANGED exposure
BY Actions DEF MarketStart, MarketStop, MarketStreamEnds, MarketSkip,
   MarketSwap, MarketNoDivergence, MarketDivergence, Start, Stop, SkipMissed,
   Ignore, Take, StrategyEvaluate, RiskReject, TakeNonce, SignOk, SignFails,
   SendOk, SendFails, AfterSendError, Report, Cancel, Exit, vars

-----------------------------------------------------------------------------
\* The exposure: every validated trade records the sum of the approvals up to
\* and with its own, so no sum over the log is needed.

Amount(v) == log[v].body.intent.amount
Projected(v) == log[v].body.projected

Ledger ==
  /\ ExposureWithinLimit
  /\ \A v \in Of("Validated") :
       Amount(v) <= Projected(v) /\ Projected(v) <= exposure
  /\ \A v, w \in Of("Validated") :
       v < w => Projected(v) + Amount(w) <= Projected(w)

\* The amounts of validated trades are naturals.
LEMMA ValidatedFacts ==
  ASSUME TypeOK
  PROVE  \A v \in Of("Validated") :
           /\ v \in 1 .. Len(log)
           /\ Amount(v) \in Nat /\ Projected(v) \in Nat
<1>1. DOMAIN log = 1 .. Len(log)
  BY LenProperties DEF TypeOK
<1>2. \A v \in Of("Validated") : log[v] \in Message /\ log[v].kind = "Validated"
  BY <1>1 DEF Of, TypeOK
<1>3. \A v \in Of("Validated") : log[v].body \in ValidatedTrade
  BY <1>2, BodyFacts
<1> QED
  BY <1>1, <1>3 DEF Of, Amount, Projected, ValidatedTrade, TradeIntent

\* What a step of the risk agent publishes, and where.
LEMMA ApproveFacts ==
  ASSUME TypeOK, HandlingOK, RiskApprove
  PROVE  LET intent == Handled("risk") IN
         /\ intent.amount \in Nat
         /\ exposure' = exposure + intent.amount
         /\ exposure' <= MaxPosition
         /\ \A n \in Of("Validated")' : n = Len(log) + 1 =>
              /\ Amount(n)' = intent.amount
              /\ Projected(n)' = exposure + intent.amount
              /\ log'[n].cause = handling["risk"]
<1> DEFINE intent == Handled("risk")
           m == [kind |-> "Validated", cause |-> handling["risk"],
                 body |-> [intent |-> intent,
                           projected |-> exposure + intent.amount]]
<1>1. intent \in TradeIntent /\ m \in Message
  BY HandledFacts, PublishedTypes DEF RiskApprove
<1>2. intent.amount \in Nat
  BY <1>1 DEF TradeIntent
<1>3. exposure' = exposure + intent.amount /\ Publish(m)
  BY DEF RiskApprove, AddExposure
<1>4. exposure + intent.amount <= MaxPosition
  BY DEF RiskApprove, Approved, Validate, CheckExposureLimit
<1>5. ASSUME NEW n \in Of("Validated")', n = Len(log) + 1
      PROVE  log'[n] = m
  <2>1. log' = log \/ log'[n] = m
    BY <1>1, <1>3, <1>5, AppendProperties DEF Publish, TypeOK
  <2>2. log' = log => n \notin Of("Validated")'
    BY <1>5, LenProperties DEF Of, TypeOK
  <2> QED
    BY <2>1, <2>2
<1>6. \A n \in Of("Validated")' : n = Len(log) + 1 =>
        /\ Amount(n)' = intent.amount
        /\ Projected(n)' = exposure + intent.amount
        /\ log'[n].cause = handling["risk"]
  BY <1>5 DEF Amount, Projected
<1> HIDE DEF intent, m
<1>7. exposure' <= MaxPosition
  BY <1>3, <1>4 DEF intent
<1> QED
  BY <1>2, <1>3, <1>6, <1>7 DEF intent

\* Every step keeps the ledger: an approval starts where the last one ended.
LEMMA LedgerStep ==
  TypeOK /\ HandlingOK /\ Ledger /\ [Next]_vars => Ledger'
<1> SUFFICES ASSUME TypeOK, HandlingOK, Ledger, [Next]_vars PROVE Ledger'
  OBVIOUS
<1>1. BusGrows
  BY BusStep
<1>2. \A v \in Of("Validated") :
        Amount(v)' = Amount(v) /\ Projected(v)' = Projected(v)
  BY <1>1, OfGrows DEF Amount, Projected
<1>3. CASE RiskApprove
  <2> DEFINE amount == Handled("risk").amount
  <2>1. /\ amount \in Nat /\ exposure \in Nat
        /\ exposure' = exposure + amount /\ exposure' <= MaxPosition
    BY <1>3, ApproveFacts DEF TypeOK
  <2>2. \A v \in Of("Validated")' : v \in Of("Validated") \/ v = Len(log) + 1
    BY <1>1, OfGrows
  <2>3. \A v \in Of("Validated") :
          v < Len(log) + 1 /\ Amount(v) \in Nat /\ Projected(v) \in Nat
    BY ValidatedFacts, LenProperties DEF TypeOK
  <2>4. \A n \in Of("Validated")' : n = Len(log) + 1 =>
          Amount(n)' = amount /\ Projected(n)' = exposure + amount
    BY <1>3, ApproveFacts
  <2> HIDE DEF amount
  <2>5. \A v \in Of("Validated")' :
          Amount(v)' <= Projected(v)' /\ Projected(v)' <= exposure'
    <3>1. ASSUME NEW v \in Of("Validated")
          PROVE  Amount(v)' <= Projected(v)' /\ Projected(v)' <= exposure'
      <4>1. Amount(v) <= Projected(v) /\ Projected(v) <= exposure
        BY DEF Ledger
      <4> QED
        BY <1>2, <2>1, <2>3, <4>1
    <3>2. \A n \in Of("Validated")' : n = Len(log) + 1 =>
            Amount(n)' <= Projected(n)' /\ Projected(n)' <= exposure'
      BY <2>1, <2>4
    <3> QED
      BY <2>2, <3>1, <3>2
  <2>6. \A v, w \in Of("Validated")' :
          v < w => Projected(v)' + Amount(w)' <= Projected(w)'
    <3> SUFFICES ASSUME NEW v \in Of("Validated")', NEW w \in Of("Validated")',
                        v < w
                 PROVE  Projected(v)' + Amount(w)' <= Projected(w)'
      OBVIOUS
    <3>1. v \in Of("Validated")
      <4>1. Len(log) \in Nat
        BY LenProperties DEF TypeOK
      <4>2. w \in 1 .. Len(log) + 1
        BY <2>2, <4>1, ValidatedFacts
      <4>3. v # Len(log) + 1
        BY <4>1, <4>2
      <4> QED
        BY <2>2, <4>3
    <3>2. Projected(v)' = Projected(v) /\ Projected(v) <= exposure
      BY <1>2, <3>1 DEF Ledger
    <3>3. CASE w = Len(log) + 1
      BY <2>1, <2>3, <2>4, <3>1, <3>2, <3>3
    <3>4. CASE w \in Of("Validated")
      BY <1>2, <3>1, <3>2, <3>4 DEF Ledger
    <3> QED
      BY <2>2, <3>3, <3>4
  <2> QED
    BY <2>1, <2>5, <2>6 DEF Ledger, ExposureWithinLimit
<1>4. CASE ~RiskApprove
  <2>1. Of("Validated")' = Of("Validated") /\ exposure' = exposure
    BY <1>4, KindSteps, ExposureSteps
  <2> QED
    BY <1>2, <2>1 DEF Ledger, ExposureWithinLimit
<1> QED
  BY <1>3, <1>4

-----------------------------------------------------------------------------
\* What the network holds, against what the risk agent approved.

\* Validated trades that may still be sent.
Outstanding(v) ==
  \/ next["execution"] <= v
  \/ /\ pc["execution"] \in {"nonce", "sign", "send"}
     /\ handling["execution"] = v

SentCovered ==
  /\ SentWithinExposure
  /\ \A v \in Of("Validated") :
       Outstanding(v) => sent_eth + Amount(v) <= Projected(v)

\* Steps that are not the execution agent's leave its state alone, but for the
\* ends of its loop.
LEMMA ExecutionSteps ==
  ASSUME TypeOK, [Next]_vars
  PROVE  \/ Take("execution") \/ TakeNonce \/ SignOk \/ SignFails
         \/ SendOk \/ SendFails \/ Report
         \/ /\ UNCHANGED <<nonce, tx_nonce, sent, sent_eth,
                           handling["execution"]>>
            /\ \/ pc'["execution"] = pc["execution"]
               \/ pc'["execution"] \in {"recv", "stopped"}
<1> USE DEF workVars, executionVars, Goto
<1>1. pc \in [Agents -> ControlStates] /\ handling \in [Consumers -> 0 .. Len(log)]
  BY DEF TypeOK, PcOK
<1>2. CASE MarketStart \/ MarketStop \/ MarketStreamEnds \/ MarketSkip
           \/ MarketSwap \/ MarketNoDivergence \/ MarketDivergence
  BY <1>1, <1>2
     DEF Agents, Consumers, MarketStart, MarketStop, MarketStreamEnds,
         MarketSkip, MarketSwap, MarketNoDivergence, MarketDivergence, NextPair
<1>3. ASSUME NEW s \in Consumers,
             Start(s) \/ Stop(s) \/ SkipMissed(s) \/ Ignore(s)
      PROVE  /\ UNCHANGED <<executionVars, handling>>
             /\ \/ pc'["execution"] = pc["execution"]
                \/ pc'["execution"] \in {"recv", "stopped"}
  BY <1>1, <1>3 DEF Agents, Consumers, Start, Stop, SkipMissed, Ignore
<1>4. ASSUME NEW s \in Consumers, s # "execution", Take(s)
      PROVE  /\ UNCHANGED <<executionVars, handling["execution"]>>
             /\ pc'["execution"] = pc["execution"]
  BY <1>1, <1>4 DEF Agents, Consumers, Take
<1>5. CASE StrategyEvaluate \/ RiskReject \/ RiskApprove
  BY <1>1, <1>5 DEF Agents, Consumers, StrategyEvaluate, RiskReject, RiskApprove
<1>6. CASE Cancel \/ Exit \/ UNCHANGED vars
  BY <1>6 DEF Cancel, Exit, vars
<1> QED
  BY <1>2, <1>3, <1>4, <1>5, <1>6, Actions

\* Every step keeps what was sent, with any one outstanding trade added to it,
\* below the exposure that trade was approved at.
LEMMA CoveredStep ==
  TypeOK /\ HandlingOK /\ Ledger /\ SentCovered /\ [Next]_vars => SentCovered'
<1> SUFFICES ASSUME TypeOK, HandlingOK, Ledger, SentCovered, [Next]_vars
             PROVE  SentCovered'
  OBVIOUS
<1> USE DEF executionVars, workVars, Goto
<1>1. BusGrows /\ TypeOK'
  BY BusStep, TypeStep
<1>2. /\ sent_eth \in Nat /\ exposure \in Nat /\ exposure' \in Nat
      /\ handling["execution"] \in Nat /\ Len(log) \in Nat
      /\ next["execution"] \in Nat /\ next'["execution"] \in Nat
      /\ next["execution"] <= next'["execution"]
  <2>1. "execution" \in Consumers
    BY DEF Consumers
  <2>2. Len(log) \in Nat /\ Len(log') \in Nat
    BY <1>1, LenProperties DEF TypeOK
  <2>3. next["execution"] <= next'["execution"]
    BY <1>1, <2>1 DEF BusGrows
  <2>4. /\ handling["execution"] \in 0 .. Len(log)
        /\ next["execution"] \in 1 .. Len(log) + 1
        /\ next'["execution"] \in 1 .. Len(log') + 1
    BY <1>1, <2>1 DEF TypeOK
  <2>5. sent_eth \in Nat /\ exposure \in Nat /\ exposure' \in Nat
    BY <1>1 DEF TypeOK
  <2> QED
    BY <2>2, <2>3, <2>4, <2>5
<1>3. exposure <= exposure'
  <2>1. CASE RiskApprove
    BY <1>2, <2>1, ApproveFacts
  <2>2. CASE UNCHANGED exposure
    BY <1>2, <2>2
  <2> QED
    BY <2>1, <2>2, ExposureSteps
<1>4. /\ \A v \in Of("Validated") :
           Amount(v)' = Amount(v) /\ Projected(v)' = Projected(v)
      /\ \A v \in Of("Validated")' : v \in Of("Validated") \/ v = Len(log) + 1
  BY <1>1, OfGrows DEF Amount, Projected
<1>5. ASSUME NEW v \in Of("Validated")', v \notin Of("Validated")
      PROVE  sent_eth + Amount(v)' <= Projected(v)'
  <2>1. RiskApprove
    BY <1>5, KindSteps
  <2>2. v = Len(log) + 1
    BY <1>4, <1>5
  <2>3. /\ Handled("risk").amount \in Nat
        /\ Amount(v)' = Handled("risk").amount
        /\ Projected(v)' = exposure + Handled("risk").amount
    BY <2>1, <2>2, ApproveFacts
  <2> QED
    BY <1>2, <2>3 DEF SentCovered, SentWithinExposure
<1>6. ASSUME sent_eth' = sent_eth,
             \A v \in Of("Validated") : Outstanding(v)' => Outstanding(v)
      PROVE  SentCovered'
  <2>1. sent_eth' <= exposure'
    BY <1>2, <1>3, <1>6 DEF SentCovered, SentWithinExposure
  <2>2. ASSUME NEW v \in Of("Validated")', Outstanding(v)'
        PROVE  sent_eth' + Amount(v)' <= Projected(v)'
    <3>1. CASE v \in Of("Validated")
      BY <1>4, <1>6, <2>2, <3>1 DEF SentCovered
    <3>2. CASE v \notin Of("Validated")
      BY <1>5, <1>6, <3>2
    <3> QED
      BY <3>1, <3>2
  <2> QED
    BY <2>1, <2>2 DEF SentCovered, SentWithinExposure
<1>7. \A v \in Of("Validated") : v \in Nat
  BY <1>2, ValidatedFacts
<1>8. ASSUME UNCHANGED <<sent_eth, handling["execution"]>>,
             \/ pc'["execution"] = pc["execution"]
             \/ pc'["execution"] \notin {"nonce", "sign", "send"}
             \/ pc["execution"] \in {"nonce", "sign", "send"}
      PROVE  SentCovered'
  BY <1>2, <1>6, <1>7, <1>8 DEF Outstanding
<1>9. pc \in [Agents -> ControlStates] /\ handling \in [Consumers -> 0 .. Len(log)]
  BY DEF TypeOK, PcOK
<1>10. CASE Take("execution")
  <2>1. handling'["execution"] = next["execution"] /\ sent_eth' = sent_eth
    BY <1>9, <1>10 DEF Take, Consumers
  <2> QED
    BY <1>2, <1>6, <1>7, <2>1 DEF Outstanding
<1>11. CASE TakeNonce \/ SignOk \/ SignFails \/ Report
  BY <1>8, <1>9, <1>11
     DEF Agents, TakeNonce, SignOk, SignFails, AfterSignError, Report,
         AfterReport
<1>12. ASSUME SendOk \/ SendFails, UNCHANGED sent_eth PROVE SentCovered'
  BY <1>8, <1>9, <1>12 DEF Agents, SendOk, SendFails, AfterSendError
<1>13. ASSUME SendOk \/ SendFails, ReachNetwork PROVE SentCovered'
  <2> DEFINE h == handling["execution"]
  <2>1. pc["execution"] = "send" /\ pc'["execution"] = "report" /\ log' = log
        /\ next' = next
    BY <1>9, <1>13 DEF Agents, Consumers, SendOk, SendFails, AfterSendError,
        busVars
  <2>2. h \in Of("Validated") /\ h < next["execution"]
    BY <2>1 DEF HandlingOK, Consumers, Working, Wants
  <2>3. sent_eth' = sent_eth + Amount(h)
    BY <1>13 DEF ReachNetwork, Handled, Amount
  <2>4. sent_eth + Amount(h) <= Projected(h) /\ Projected(h) <= exposure
    BY <2>1, <2>2 DEF SentCovered, Outstanding, Ledger
  <2>5. Amount(h) \in Nat /\ Projected(h) \in Nat
    BY <2>2, ValidatedFacts
  <2>6. sent_eth' <= exposure'
    BY <1>2, <1>3, <2>3, <2>4, <2>5
  <2>7. ASSUME NEW v \in Of("Validated")', Outstanding(v)'
        PROVE  sent_eth' + Amount(v)' <= Projected(v)'
    <3>1. v \in Of("Validated") /\ next["execution"] <= v
      BY <2>1, <2>7 DEF Of, Outstanding
    <3>2. h < v
      BY <1>2, <1>7, <2>2, <3>1
    <3>3. Projected(h) + Amount(v) <= Projected(v)
      BY <2>2, <3>1, <3>2 DEF Ledger
    <3>4. Amount(v) \in Nat /\ Projected(v) \in Nat
      BY <3>1, ValidatedFacts
    <3>5. Amount(v)' = Amount(v) /\ Projected(v)' = Projected(v)
      BY <1>4, <3>1
    <3> HIDE DEF h
    <3> QED
      BY <1>2, <2>3, <2>4, <2>5, <3>3, <3>4, <3>5
  <2> QED
    BY <2>6, <2>7 DEF SentCovered, SentWithinExposure
<1> QED
  BY <1>8, <1>10, <1>11, <1>12, <1>13, ExecutionSteps DEF SendOk, SendFails,
      AfterSendError

-----------------------------------------------------------------------------
\* Nonces and trades, in the order they reach the network.

SentOrdered ==
  /\ SentInNonceOrder
  /\ \A k \in 1 .. Len(sent) :
       sent[k].nonce < nonce /\ sent[k].trade < next["execution"]
  /\ pc["execution"] \in {"sign", "send"} =>
       /\ tx_nonce < nonce
       /\ \A k \in 1 .. Len(sent) : sent[k].nonce < tx_nonce
  /\ pc["execution"] \in {"nonce", "sign", "send"} =>
       \A k \in 1 .. Len(sent) : sent[k].trade < handling["execution"]

\* Every step keeps the order of nonces and trades at the network.
LEMMA OrderedStep ==
  TypeOK /\ HandlingOK /\ SentOrdered /\ [Next]_vars => SentOrdered'
<1> SUFFICES ASSUME TypeOK, HandlingOK, SentOrdered, [Next]_vars
             PROVE  SentOrdered'
  OBVIOUS
<1> USE DEF executionVars, workVars, Goto
<1>1. /\ handling["execution"] \in Nat /\ nonce \in Nat /\ tx_nonce \in Nat
      /\ next["execution"] \in Nat /\ next'["execution"] \in Nat
      /\ next["execution"] <= next'["execution"]
      /\ Len(sent) \in Nat
      /\ \A k \in 1 .. Len(sent) : sent[k].nonce \in Nat /\ sent[k].trade \in Nat
  <2>1. "execution" \in Consumers /\ BusGrows
    BY BusStep DEF Consumers
  <2>2. Len(sent) \in Nat
        /\ \A k \in 1 .. Len(sent) : sent[k] \in [nonce : Nat, trade : Nat]
    BY LenProperties DEF TypeOK
  <2>3. Len(log) \in Nat /\ Len(log') \in Nat
    BY <2>1, LenProperties DEF TypeOK, BusGrows, BusTypeOK
  <2>4. /\ handling["execution"] \in 0 .. Len(log)
        /\ next["execution"] \in 1 .. Len(log) + 1
        /\ next'["execution"] \in 1 .. Len(log') + 1
    BY <2>1 DEF TypeOK, BusGrows, BusTypeOK
  <2>5. next["execution"] <= next'["execution"]
    BY <2>1 DEF BusGrows
  <2>6. nonce \in Nat /\ tx_nonce \in Nat
    BY DEF TypeOK
  <2>7. \A k \in 1 .. Len(sent) : sent[k].nonce \in Nat /\ sent[k].trade \in Nat
    BY <2>2
  <2> QED
    BY <2>2, <2>3, <2>4, <2>5, <2>6, <2>7
<1>2. pc \in [Agents -> ControlStates] /\ handling \in [Consumers -> 0 .. Len(log)]
      /\ "execution" \in Agents /\ "execution" \in Consumers
  BY DEF TypeOK, PcOK, Agents, Consumers
<1>3. ASSUME UNCHANGED <<nonce, tx_nonce, sent, handling["execution"]>>,
             \/ pc'["execution"] = pc["execution"]
             \/ pc'["execution"] \notin {"nonce", "sign", "send"}
             \/ pc["execution"] = "sign" /\ pc'["execution"] = "send"
      PROVE  SentOrdered'
  BY <1>1, <1>3 DEF SentOrdered, SentInNonceOrder
<1>4. CASE Take("execution")
  <2>1. /\ UNCHANGED <<nonce, tx_nonce, sent>>
        /\ handling'["execution"] = next["execution"]
        /\ pc'["execution"] = "nonce"
    BY <1>2, <1>4 DEF Take, FirstStep
  <2>2. SentInNonceOrder'
    BY <2>1 DEF SentOrdered, SentInNonceOrder
  <2>3. \A k \in 1 .. Len(sent) :
          sent[k].nonce < nonce /\ sent[k].trade < next["execution"]
    BY DEF SentOrdered
  <2>4. \A k \in 1 .. Len(sent) : sent[k].trade < next'["execution"]
    BY <1>1, <2>3
  <2> QED
    BY <2>1, <2>2, <2>3, <2>4 DEF SentOrdered
<1>5. CASE TakeNonce
  <2>1. /\ UNCHANGED <<sent, handling>>
        /\ tx_nonce' = nonce /\ nonce' = nonce + 1
        /\ pc["execution"] = "nonce" /\ pc'["execution"] = "sign"
    BY <1>2, <1>5 DEF TakeNonce, FetchAddNonce
  <2> QED
    BY <1>1, <2>1 DEF SentOrdered, SentInNonceOrder
<1>6. CASE SignOk \/ SignFails \/ Report
  BY <1>2, <1>3, <1>6
     DEF SignOk, SignFails, AfterSignError, Report, AfterReport
<1>7. ASSUME SendOk \/ SendFails, UNCHANGED sent PROVE SentOrdered'
  BY <1>2, <1>3, <1>7 DEF SendOk, SendFails, AfterSendError
<1>8. ASSUME SendOk \/ SendFails, ReachNetwork PROVE SentOrdered'
  <2> DEFINE tx == [nonce |-> tx_nonce, trade |-> handling["execution"]]
             n == Len(sent) + 1
  <2>1. /\ pc["execution"] = "send" /\ pc'["execution"] = "report"
        /\ UNCHANGED <<busVars, nonce, tx_nonce, handling>>
    BY <1>2, <1>8 DEF SendOk, SendFails, AfterSendError
  <2>2. UNCHANGED next
    BY <2>1 DEF busVars
  <2>3. tx \in [nonce : Nat, trade : Nat] /\ sent' = Append(sent, tx)
    BY <1>1, <1>8 DEF ReachNetwork
  <2>4. /\ Len(sent') = n /\ sent'[n] = tx
        /\ \A k \in 1 .. Len(sent) : sent'[k] = sent[k]
    BY <2>3, AppendProperties DEF TypeOK
  <2>5. handling["execution"] < next["execution"]
    BY <1>2, <2>1 DEF HandlingOK, Working
  <2>6. \A k \in 1 .. n :
          sent'[k].nonce < nonce /\ sent'[k].trade < next["execution"]
    BY <1>1, <2>1, <2>4, <2>5 DEF SentOrdered
  <2>7. \A k \in 1 .. Len(sent) :
          sent'[k].nonce < tx_nonce /\ sent'[k].trade < handling["execution"]
    BY <2>1, <2>4 DEF SentOrdered
  <2>8. ASSUME NEW k \in 1 .. Len(sent)
        PROVE  sent'[k].nonce < sent'[k+1].nonce /\ sent'[k].trade < sent'[k+1].trade
    <3>1. CASE k = Len(sent)
      BY <2>4, <2>7, <3>1
    <3>2. CASE k # Len(sent)
      <4>1. k \in 1 .. Len(sent) - 1 /\ k + 1 \in 1 .. Len(sent)
        BY <1>1, <3>2
      <4>2. sent'[k] = sent[k] /\ sent'[k+1] = sent[k+1]
        BY <2>4, <4>1
      <4> QED
        BY <4>1, <4>2 DEF SentOrdered, SentInNonceOrder
    <3> QED
      BY <3>1, <3>2
  <2>9. SentInNonceOrder'
    <3>1. 1 .. Len(sent') - 1 = 1 .. Len(sent)
      BY <1>1, <2>4
    <3> HIDE DEF n, tx
    <3> QED
      BY <2>8, <3>1 DEF SentInNonceOrder
  <2> QED
    BY <2>1, <2>2, <2>4, <2>6, <2>9 DEF SentOrdered
<1> QED
  BY <1>3, <1>4, <1>5, <1>6, <1>7, <1>8, ExecutionSteps DEF SendOk, SendFails,
      AfterSendError

-----------------------------------------------------------------------------
\* One answer per message, in the order of the messages.

Reply == [risk |-> "Validated", execution |-> "Executed"]

\* What has been answered lies behind the read position, and before the
\* message still being worked on.
Answered(s) ==
  /\ CausesIncrease(Reply[s])
  /\ \A i \in Of(Reply[s]) :
       /\ log[i].cause \in Nat
       /\ log[i].cause < next[s]
       /\ pc[s] \in Working[s] => log[i].cause < handling[s]

CausesOrdered == Answered("risk") /\ Answered("execution")

\* A reply names the message its agent was working on, and ends that work.
LEMMA ReplySteps ==
  ASSUME TypeOK, HandlingOK, [Next]_vars, NEW s \in {"risk", "execution"}
  PROVE  \/ Of(Reply[s])' = Of(Reply[s])
         \/ /\ pc[s] \in Working[s] /\ pc'[s] \notin Working[s]
            /\ handling'[s] = handling[s]
            /\ \A n \in Of(Reply[s])' :
                 n = Len(log) + 1 => log'[n].cause = handling[s]
<1>1. pc \in [Agents -> ControlStates]
  BY DEF TypeOK, PcOK
<1>2. CASE s = "risk"
  <2>1. CASE RiskApprove
    <3>1. \A n \in Of("Validated")' :
            n = Len(log) + 1 => log'[n].cause = handling["risk"]
      BY <2>1, ApproveFacts
    <3>2. /\ pc["risk"] = "decide" /\ pc'["risk"] = "recv"
          /\ handling' = handling
      BY <1>1, <2>1 DEF RiskApprove, Goto, workVars, Agents, Consumers
    <3> QED
      BY <1>2, <3>1, <3>2 DEF Reply, Working
  <2> QED
    BY <1>2, <2>1, KindSteps DEF Reply
<1>3. CASE s = "execution"
  <2>1. CASE Report
    <3>1. Result \in Message /\ Publish(Result)
          /\ Result.cause = handling["execution"]
      BY <2>1, PublishedTypes DEF Report, Result
    <3>2. log' = log \/ log'[Len(log) + 1] = Result
      BY <3>1, AppendProperties DEF Publish, TypeOK
    <3>3. log' = log => Len(log) + 1 \notin Of("Executed")'
      BY LenProperties DEF Of, TypeOK
    <3>4. /\ pc["execution"] = "report" /\ pc'["execution"] = "recv"
          /\ handling' = handling
      BY <1>1, <2>1 DEF Report, AfterReport, Goto, workVars, Agents, Consumers
    <3> QED
      BY <1>3, <3>1, <3>2, <3>3, <3>4 DEF Reply, Working
  <2> QED
    BY <1>3, <2>1, KindSteps DEF Reply
<1> QED
  BY <1>2, <1>3

\* Every step keeps the order of the answers.
LEMMA AnsweredStep ==
  TypeOK /\ HandlingOK /\ CausesOrdered /\ [Next]_vars => CausesOrdered'
<1> SUFFICES ASSUME TypeOK, HandlingOK, CausesOrdered, [Next]_vars,
                    NEW s \in {"risk", "execution"}
             PROVE  Answered(s)'
  BY DEF CausesOrdered
<1> DEFINE kind == Reply[s]
<1>1. BusGrows /\ s \in Consumers /\ Answered(s)
  BY BusStep DEF CausesOrdered, Consumers
<1>2. /\ next[s] \in Nat /\ next'[s] \in Nat /\ next[s] <= next'[s]
      /\ handling[s] \in Nat /\ Len(log) \in Nat
  BY <1>1, LenProperties DEF TypeOK, BusGrows, BusTypeOK
<1>3. /\ \A i \in Of(kind) : i \in Nat /\ i < Len(log) + 1 /\ log'[i] = log[i]
      /\ \A i \in Of(kind)' : i \in Of(kind) \/ i = Len(log) + 1
  BY <1>1, <1>2, OfGrows
<1>4. \A i \in Of(kind) :
        /\ log[i].cause \in Nat /\ log[i].cause < next[s]
        /\ pc[s] \in Working[s] => log[i].cause < handling[s]
  BY <1>1 DEF Answered
<1>5. \A i, j \in Of(kind) : i < j => log[i].cause < log[j].cause
  BY <1>1 DEF Answered, CausesIncrease
<1>6. CASE Of(kind)' = Of(kind)
  <2>1. \A i, j \in Of(kind)' : i < j => log'[i].cause < log'[j].cause
    BY <1>3, <1>5, <1>6
  <2>2. \A i \in Of(kind)' :
          log'[i].cause \in Nat /\ log'[i].cause < next'[s]
    BY <1>2, <1>3, <1>4, <1>6
  <2>3. pc'[s] \in Working[s] =>
          \A i \in Of(kind)' : log'[i].cause < handling'[s]
    <3>1. CASE Take(s)
      BY <1>1, <1>3, <1>4, <1>6, <3>1, TakeFacts
    <3>2. CASE handling'[s] = handling[s] /\ pc[s] \in Working[s]
      BY <1>3, <1>4, <1>6, <3>2
    <3> QED
      BY <1>1, <3>1, <3>2, WorkSteps
  <2> QED
    BY <2>1, <2>2, <2>3 DEF Answered, CausesIncrease
<1>7. CASE /\ pc[s] \in Working[s] /\ pc'[s] \notin Working[s]
           /\ \A n \in Of(kind)' :
                n = Len(log) + 1 => log'[n].cause = handling[s]
  <2>1. handling[s] < next[s]
    BY <1>1, <1>7 DEF HandlingOK
  <2>2. \A i \in Of(kind)' :
          log'[i].cause \in Nat /\ log'[i].cause < next'[s]
    BY <1>2, <1>3, <1>4, <1>7, <2>1
  <2>3. ASSUME NEW i \in Of(kind)', NEW j \in Of(kind)', i < j
        PROVE  log'[i].cause < log'[j].cause
    <3>1. i \in Of(kind)
      BY <1>2, <1>3, <2>3
    <3>2. CASE j \in Of(kind)
      BY <1>3, <1>5, <2>3, <3>1, <3>2
    <3>3. CASE j = Len(log) + 1
      BY <1>3, <1>4, <1>7, <3>1, <3>3
    <3> QED
      BY <1>3, <3>2, <3>3
  <2> QED
    BY <1>7, <2>2, <2>3 DEF Answered, CausesIncrease
<1> QED
  BY <1>6, <1>7, ReplySteps

-----------------------------------------------------------------------------
\* Where messages come from, and where transactions do.

\* A message that was not there before answers the message its agent works on.
LEMMA NewMessage ==
  ASSUME TypeOK, HandlingOK, [Next]_vars,
         NEW n \in DOMAIN log', n \notin DOMAIN log
  PROVE  \/ log'[n].kind = "Signal"
         \/ /\ StrategyEvaluate
            /\ log'[n].kind = "Intent"
            /\ log'[n].cause = handling["strategy"]
         \/ /\ RiskApprove
            /\ log'[n] = [kind |-> "Validated", cause |-> handling["risk"],
                          body |-> [intent |-> Handled("risk"),
                                    projected |->
                                      exposure + Handled("risk").amount]]
         \/ Report /\ log'[n] = Result
<1> USE DEF busVars
<1>1. log \in Seq(Message) /\ Len(log) \in Nat /\ DOMAIN log = 1 .. Len(log)
  BY LenProperties DEF TypeOK
<1>2. log' # log
  OBVIOUS
<1>3. ASSUME NEW m \in Message, Publish(m) PROVE log'[n] = m
  <2>1. log' = Append(log, m)
    BY <1>2, <1>3 DEF Publish
  <2>2. Append(log, m) \in Seq(Message) /\ Len(Append(log, m)) = Len(log) + 1
        /\ Append(log, m)[Len(log) + 1] = m
    BY <1>1, AppendProperties
  <2>3. DOMAIN log' = 1 .. Len(log) + 1
    BY <2>1, <2>2, LenProperties
  <2>4. n = Len(log) + 1
    BY <1>1, <2>3
  <2> QED
    BY <2>1, <2>2, <2>4
<1>4. CASE MarketSwap \/ MarketDivergence
  <2>1. PICK m \in Message : Publish(m) /\ m.kind = "Signal"
    <3>1. CASE MarketSwap
      BY <3>1, PublishedTypes DEF MarketSwap
    <3>2. CASE MarketDivergence
      BY <3>2, PublishedTypes DEF MarketDivergence
    <3> QED
      BY <1>4, <3>1, <3>2
  <2> QED
    BY <1>3, <2>1
<1>5. CASE StrategyEvaluate
  <2>1. PICK answer \in Answers[strategy_idx][Handled("strategy")] :
          IF answer = NoIntent
          THEN UNCHANGED busVars
          ELSE Publish([kind |-> "Intent", cause |-> handling["strategy"],
                        body |-> answer])
    BY <1>5 DEF StrategyEvaluate
  <2>2. answer # NoIntent /\ pc["strategy"] = "evaluate"
    BY <1>2, <1>5, <2>1 DEF StrategyEvaluate
  <2> QED
    BY <1>3, <1>5, <2>1, <2>2, PublishedTypes
<1>6. CASE RiskApprove
  BY <1>3, <1>6, PublishedTypes DEF RiskApprove
<1>7. CASE Report
  BY <1>3, <1>7, PublishedTypes DEF Report
<1>8. ASSUME NEW s \in Consumers,
             Start(s) \/ Stop(s) \/ SkipMissed(s) \/ Ignore(s) \/ Take(s)
      PROVE  UNCHANGED log
  BY <1>8 DEF Start, Stop, SkipMissed, Ignore, Take, Subscribe, Unsubscribe,
              RecvOk, RecvLagged
<1>9. ASSUME \/ MarketStart \/ MarketStop \/ MarketStreamEnds \/ MarketSkip
             \/ MarketNoDivergence \/ RiskReject
             \/ TakeNonce \/ SignOk \/ SignFails \/ SendOk \/ SendFails
             \/ Cancel \/ Exit \/ UNCHANGED vars
      PROVE  UNCHANGED log
  BY <1>9 DEF MarketStart, MarketStop, MarketStreamEnds, MarketSkip,
     MarketNoDivergence, RiskReject, TakeNonce, SignOk, SignFails, SendOk,
     SendFails, AfterSendError, Cancel, Exit, vars
<1> QED
  BY <1>2, <1>4, <1>5, <1>6, <1>7, <1>8, <1>9, Actions

\* Only an answer of the broadcaster goes with a transaction at the network.
LEMMA SentSteps ==
  ASSUME TypeOK, [Next]_vars
  PROVE  UNCHANGED sent \/ ((SendOk \/ SendFails) /\ ReachNetwork)
BY ExecutionSteps
   DEF Take, TakeNonce, SignOk, SignFails, SendOk, SendFails, AfterSendError,
       Report, executionVars

\* What reaches the network comes behind what is there.
LEMMA ReachAppends ==
  ASSUME TypeOK, ReachNetwork
  PROVE  /\ Len(sent) + 1 \notin DOMAIN sent
         /\ DOMAIN sent' = DOMAIN sent \cup {Len(sent) + 1}
         /\ sent'[Len(sent) + 1]
              = [nonce |-> tx_nonce, trade |-> handling["execution"]]
         /\ \A k \in DOMAIN sent : sent'[k] = sent[k]
<1> DEFINE tx == [nonce |-> tx_nonce, trade |-> handling["execution"]]
<1>1. tx \in [nonce : Nat, trade : Nat] /\ sent' = Append(sent, tx)
  BY LenProperties DEF ReachNetwork, TypeOK, Consumers
<1>2. /\ Len(sent) \in Nat /\ Len(sent') = Len(sent) + 1
      /\ sent'[Len(sent) + 1] = tx
      /\ \A k \in 1 .. Len(sent) : sent'[k] = sent[k]
      /\ DOMAIN sent = 1 .. Len(sent) /\ DOMAIN sent' = 1 .. Len(sent')
  BY <1>1, AppendProperties, LenProperties DEF TypeOK
<1> QED
  BY <1>2

\* Every message answers one that is there, and every transaction is of a
\* trade that was approved.
Traced ==
  /\ Traceable
  /\ \A k \in DOMAIN sent : sent[k].trade \in Of("Validated")

\* Every step keeps the trail: what an agent publishes names and repeats the
\* message it works on, which no later message changes.
LEMMA TracedStep ==
  TypeOK /\ HandlingOK /\ Traced /\ [Next]_vars => Traced'
<1> SUFFICES ASSUME TypeOK, HandlingOK, Traced, [Next]_vars PROVE Traced'
  OBVIOUS
<1>1. BusGrows /\ Len(log) \in Nat /\ DOMAIN log = 1 .. Len(log)
  BY BusStep, LenProperties DEF TypeOK
<1>2. \A kind : /\ Of(kind) \subseteq Of(kind)'
                /\ \A i \in Of(kind) : i \in DOMAIN log /\ log'[i] = log[i]
  BY <1>1, OfGrows
<1>3. ASSUME NEW kind, NEW i \in Of(kind)', i \notin Of(kind)
      PROVE  /\ i \in DOMAIN log' /\ i \notin DOMAIN log
             /\ log'[i].kind = kind /\ \A j \in DOMAIN log : j < i
  <2>1. i = Len(log) + 1
    BY <1>1, <1>3, OfGrows
  <2> QED
    BY <1>1, <1>3, <2>1 DEF Of
<1>4. /\ pc["strategy"] = "evaluate" => handling["strategy"] \in Of("Signal")
      /\ pc["risk"] = "decide" => handling["risk"] \in Of("Intent")
      /\ pc["execution"] \in {"send", "report"} =>
           handling["execution"] \in Of("Validated")
  BY DEF HandlingOK, Working, Wants, Consumers
<1>5. ASSUME NEW i \in Of("Intent")'
      PROVE  log'[i].cause \in Of("Signal")' /\ log'[i].cause < i
  <2>1. CASE i \in Of("Intent")
    BY <1>2, <2>1 DEF Traced, Traceable
  <2>2. CASE i \notin Of("Intent")
    <3>1. StrategyEvaluate /\ log'[i].cause = handling["strategy"]
      BY <1>3, <2>2, NewMessage DEF Result
    <3>2. handling["strategy"] \in Of("Signal")
      BY <1>4, <3>1 DEF StrategyEvaluate
    <3> QED
      BY <1>2, <1>3, <2>2, <3>1, <3>2
  <2> QED
    BY <2>1, <2>2
<1>6. ASSUME NEW i \in Of("Validated")'
      PROVE  LET trade == log'[i].body IN
             /\ log'[i].cause \in Of("Intent")' /\ log'[i].cause < i
             /\ trade.intent = log'[log'[i].cause].body
             /\ Validate(trade.intent, trade.projected - trade.intent.amount, 0)
  <2>1. CASE i \in Of("Validated")
    <3>1. LET trade == log[i].body IN
          /\ log[i].cause \in Of("Intent") /\ log[i].cause < i
          /\ trade.intent = log[log[i].cause].body
          /\ Validate(trade.intent, trade.projected - trade.intent.amount, 0)
      BY <2>1 DEF Traced, Traceable
    <3> QED
      BY <1>2, <2>1, <3>1
  <2>2. CASE i \notin Of("Validated")
    <3>1. /\ RiskApprove
          /\ log'[i] = [kind |-> "Validated", cause |-> handling["risk"],
                        body |-> [intent |-> Handled("risk"),
                                  projected |->
                                    exposure + Handled("risk").amount]]
      BY <1>3, <2>2, NewMessage DEF Result
    <3>2. /\ handling["risk"] \in Of("Intent")
          /\ Validate(Handled("risk"), exposure, 0)
      BY <1>4, <3>1 DEF RiskApprove, Approved
    <3>3. Handled("risk").amount \in Nat /\ exposure \in Nat
      BY <3>1, ApproveFacts DEF TypeOK
    <3>4. (exposure + Handled("risk").amount) - Handled("risk").amount
            = exposure
      BY <3>3
    <3>5. Handled("risk") = log'[handling["risk"]].body
      BY <1>2, <3>2 DEF Handled
    <3> QED
      BY <1>2, <1>3, <2>2, <3>1, <3>2, <3>4, <3>5
  <2> QED
    BY <2>1, <2>2
<1>7. ASSUME NEW i \in Of("Executed")'
      PROVE  /\ log'[i].cause \in Of("Validated")' /\ log'[i].cause < i
             /\ log'[i].body.trade = log'[log'[i].cause].body
  <2>1. CASE i \in Of("Executed")
    BY <1>2, <2>1 DEF Traced, Traceable
  <2>2. CASE i \notin Of("Executed")
    <3>1. Report /\ log'[i] = Result
      BY <1>3, <2>2, NewMessage
    <3>2. handling["execution"] \in Of("Validated")
      BY <1>4, <3>1 DEF Report
    <3> QED
      BY <1>2, <1>3, <2>2, <3>1, <3>2 DEF Result, Handled
  <2> QED
    BY <2>1, <2>2
<1>8. \A k \in DOMAIN sent' : sent'[k].trade \in Of("Validated")'
  <2>1. CASE UNCHANGED sent
    BY <1>2, <2>1 DEF Traced
  <2>2. CASE (SendOk \/ SendFails) /\ ReachNetwork
    <3>1. handling["execution"] \in Of("Validated")
      BY <1>4, <2>2 DEF SendOk, SendFails, AfterSendError
    <3> QED
      BY <1>2, <2>2, <3>1, ReachAppends DEF Traced
  <2> QED
    BY <2>1, <2>2, SentSteps
<1> QED
  BY <1>5, <1>6, <1>7, <1>8 DEF Traced, Traceable

-----------------------------------------------------------------------------
\* The inductive invariant, and what it gives.

IInv ==
  /\ TypeOK
  /\ HandlingOK
  /\ Ledger
  /\ SentCovered
  /\ SentOrdered
  /\ CausesOrdered
  /\ Traced

\* IInv holds of every reachable state.
LEMMA Inductive == Spec => []IInv
<1>1. Init => IInv
  <2> SUFFICES ASSUME Init PROVE IInv
    OBVIOUS
  <2> USE PipelineAssumption, RiskAssumption DEF Init, BusInit
  <2>1. log = << >> /\ Len(log) = 0 /\ \A kind : Of(kind) = {}
    BY EmptySeq DEF Of
  <2>2. sent = << >> /\ Len(sent) = 0 /\ sent_eth = 0 /\ exposure = 0
    BY EmptySeq
  <2>3. TypeOK
    <3>1. PcOK
      BY DEF PcOK, Agents, Consumers, ControlStates
    <3>2. next \in [Consumers -> 1 .. Len(log) + 1]
          /\ handling \in [Consumers -> 0 .. Len(log)]
      BY <2>1
    <3> QED
      BY <3>1, <3>2, EmptySeq DEF TypeOK, Outcomes
  <2>4. HandlingOK
    <3>1. \A s \in Consumers : pc[s] = "spawned"
      BY DEF Agents, Consumers
    <3>2. \A s \in Consumers : "spawned" \notin Working[s]
      BY DEF Working, Consumers
    <3> QED
      BY <3>1, <3>2 DEF HandlingOK
  <2>5. Ledger /\ SentCovered
    BY <2>1, <2>2
       DEF Ledger, SentCovered, ExposureWithinLimit, SentWithinExposure
  <2>6. SentOrdered
    BY <2>2 DEF SentOrdered, SentInNonceOrder, Agents, Consumers
  <2>7. CausesOrdered
    BY <2>1 DEF CausesOrdered, Answered, CausesIncrease
  <2>8. Traced
    BY <2>1, <2>2 DEF Traced, Traceable
  <2> QED
    BY <2>3, <2>4, <2>5, <2>6, <2>7, <2>8 DEF IInv
<1>2. IInv /\ [Next]_vars => IInv'
  BY TypeStep, HandlingStep, LedgerStep, CoveredStep, OrderedStep, AnsweredStep,
     TracedStep
     DEF IInv
<1> QED
  BY <1>1, <1>2, PTL DEF Spec

\* The agents put only well-formed messages on the bus and keep to their own
\* control states, for any strategies and any limits.
THEOREM TypeCorrect == Spec => []TypeOK
<1>1. IInv => TypeOK
  BY DEF IInv
<1> QED
  BY <1>1, Inductive, PTL

\* The exposure never passes max_position_size_eth: check_exposure_limit and
\* add_exposure suffice, whatever the strategies ask for and the bus loses.
THEOREM ExposureLimited == Spec => []ExposureWithinLimit
<1>1. IInv => ExposureWithinLimit
  BY DEF IInv, Ledger
<1> QED
  BY <1>1, Inductive, PTL

\* What the network holds is covered by what the risk agent counted, although
\* the two agents share nothing but the messages on the bus.
THEOREM SentCoveredByExposure == Spec => []SentWithinExposure
<1>1. IInv => SentWithinExposure
  BY DEF IInv, SentCovered
<1> QED
  BY <1>1, Inductive, PTL

\* Transactions reach the network with ever larger nonces and for ever later
\* trades: no nonce and no trade is sent twice.
THEOREM NonceOrder == Spec => []SentInNonceOrder
<1>1. IInv => SentInNonceOrder
  BY DEF IInv, SentOrdered
<1> QED
  BY <1>1, Inductive, PTL

\* The risk agent decides on an intent, and the execution agent reports on a
\* trade, at most once and in publication order.
THEOREM OneAnswerInOrder == Spec => []AnsweredOnceInOrder
<1>1. IInv => AnsweredOnceInOrder
  BY DEF IInv, CausesOrdered, Answered, Reply, AnsweredOnceInOrder
<1> QED
  BY <1>1, Inductive, PTL

\* Every message on the bus answers an earlier one of the kind before it and
\* repeats its content, and every approval passed validate against the exposure
\* of its moment, with any strategies and whatever the ring overwrites.
THEOREM MessagesTraceable == Spec => []Traceable
<1>1. IInv => Traceable
  BY DEF IInv, Traced
<1> QED
  BY <1>1, Inductive, PTL

\* Every transaction at the network keeps the rules its intent was approved by;
\* its gas price is within the limit or, for an intent that names none, the
\* fixed default, which no rule has seen (rules.rs:53, agent.rs:131).
THEOREM NetworkKeepsRules == Spec => []TransactionsKeepRules
<1>1. IInv => TransactionsKeepRules
  <2> SUFFICES ASSUME IInv, NEW k \in DOMAIN sent
               PROVE  LET intent == log[sent[k].trade].body.intent
                          tx == BuildTransaction(intent, sent[k].nonce)
                      IN /\ \/ tx.gas_price <= MaxGasPrice
                            \/ /\ intent.gas_price = NoGasPrice
                               /\ tx.gas_price = DefaultGasPrice
                         /\ tx.value > 0 /\ tx.value <= MaxPosition
                         /\ tx.to # intent.token_in
    BY DEF TransactionsKeepRules
  <2> PICK v : v = sent[k].trade
    OBVIOUS
  <2> DEFINE intent == log[v].body.intent
  <2>1. v \in Of("Validated")
    BY DEF IInv, Traced
  <2>2. Validate(intent, Projected(v) - Amount(v), 0)
    BY <2>1 DEF IInv, Traced, Traceable, Projected, Amount
  <2>3. /\ intent.amount = Amount(v) /\ Amount(v) \in Nat
        /\ Projected(v) \in Nat /\ Amount(v) <= Projected(v)
    BY <2>1, ValidatedFacts DEF IInv, Ledger, Amount
  <2> HIDE DEF intent
  <2>4. /\ intent.amount > 0 /\ intent.token_in # intent.token_out
        /\ intent.gas_price # NoGasPrice => intent.gas_price <= MaxGasPrice
    BY <2>2 DEF Validate, CheckSanity, CheckGasPrice
  <2>5. intent.amount <= MaxPosition
    BY <2>2, <2>3, RiskAssumption DEF Validate, CheckExposureLimit
  <2> QED
    BY <2>4, <2>5 DEF BuildTransaction, intent
<1> QED
  BY <1>1, Inductive, PTL

=============================================================================
