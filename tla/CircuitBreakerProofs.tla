------------------------ MODULE CircuitBreakerProofs ------------------------
(***************************************************************************)
(* Proofs about CircuitBreaker, for any number of tasks and any threshold  *)
(* and timeout: its types, that an Open circuit can be recovered from,     *)
(* that it never opens early, and that calls which do not overlap follow   *)
(* the state diagram of BreakerContract.                                   *)
(***************************************************************************)
EXTENDS CircuitBreaker, TLAPS

\* What the tasks carry over their awaits is never ahead of the failures.
CountsBounded ==
  /\ failure_count <= failures
  /\ \A t \in Tasks : count[t] <= failures

\* A task about to open the circuit has written the failure time before.
TimeKept ==
  /\ OpenIsRecoverable
  /\ \A t \in Tasks : pc[t] \in {"failure_read", "open"} => elapsed # NoTime

\* A task that leaves Closed, or saw another state, has the failures for it.
TripsJustified ==
  /\ NeverOpensEarly
  /\ \A t \in Tasks : pc[t] \in {"check_time", "half_open", "open"} =>
       failures >= FailureThreshold

IInv == TypeOK /\ CountsBounded /\ TimeKept /\ TripsJustified

\* The breaker starts well typed.
LEMMA TypeInit == Init => TypeOK
<1> USE BreakerAssumption DEF Init
<1>1. Init => overlapped \in BOOLEAN
  BY Zenon
<1>2. Init => elapsed \in Ages \cup {NoTime} /\ stamp \in [Tasks -> Ages]
  BY DEF Ages
<1>3. Init => pc \in [Tasks -> {"idle", "check_time", "half_open", "close",
                                "stamp", "write_time", "failure_read", "open"}]
  OBVIOUS
<1> QED
  BY <1>1, <1>2, <1>3 DEF TypeOK

\* TypeOK is inductive by itself.
LEMMA TypeStep == TypeOK /\ [Next]_vars => TypeOK'
<1> SUFFICES ASSUME TypeOK, [Next]_vars PROVE TypeOK'
  OBVIOUS
<1>0. overlapped' \in BOOLEAN
  <2>1. CASE \E t \in Tasks : Meet(t)
    BY <2>1 DEF Meet
  <2>2. CASE UNCHANGED overlapped
    BY <2>2 DEF TypeOK
  <2> QED
    BY <2>1, <2>2 DEF Next, vars
<1> USE BreakerAssumption, <1>0 DEF TypeOK, Ages, breakerVars, Goto
<1>1. ASSUME NEW t \in Tasks, Allow(t) PROVE TypeOK'
  BY <1>1 DEF Allow, AllowRead, AllowCheckTime, AllowHalfOpen
<1>2. ASSUME NEW t \in Tasks, RecordSuccess(t) PROVE TypeOK'
  BY <1>2 DEF RecordSuccess, SuccessRead, SuccessClose
<1>3. ASSUME NEW t \in Tasks, RecordFailure(t) PROVE TypeOK'
  <2>1. CASE FailureCount(t)
    BY <2>1 DEF FailureCount
  <2>2. CASE FailureStamp(t)
    BY <2>2 DEF FailureStamp
  <2>3. CASE FailureWriteTime(t)
    BY <2>3 DEF FailureWriteTime
  <2>4. CASE FailureRead(t)
    BY <2>4 DEF FailureRead
  <2>5. CASE FailureOpen(t)
    BY <2>5 DEF FailureOpen
  <2> QED
    BY <1>3, <2>1, <2>2, <2>3, <2>4, <2>5 DEF RecordFailure
<1>4. ASSUME NEW t \in Tasks, Reset(t) PROVE TypeOK'
  BY <1>4 DEF Reset, TimeAfterReset
<1>5. CASE Tick
  <2>1. \A age \in Ages : Older(age) \in Ages
    BY DEF Older
  <2>2. elapsed' \in Ages \cup {NoTime}
    BY <1>5, <2>1 DEF Tick
  <2>3. stamp' \in [Tasks -> Ages]
    BY <1>5, <2>1 DEF Tick
  <2> QED
    BY <1>5, <2>2, <2>3 DEF Tick
<1>6. CASE UNCHANGED vars
  BY <1>6 DEF vars
<1> QED
  BY <1>1, <1>2, <1>3, <1>4, <1>5, <1>6 DEF Next, Call

\* A failure time, once written, stays.
LEMMA TimeStep == TypeOK /\ TimeKept /\ [Next]_vars => TimeKept'
<1> SUFFICES ASSUME TypeOK, TimeKept, [Next]_vars PROVE TimeKept'
  OBVIOUS
<1> USE BreakerAssumption
    DEF TypeOK, Ages, breakerVars, Goto, TimeKept, OpenIsRecoverable
<1>1. ASSUME NEW t \in Tasks, Allow(t) PROVE TimeKept'
  BY <1>1 DEF Allow, AllowRead, AllowCheckTime, AllowHalfOpen
<1>2. ASSUME NEW t \in Tasks, RecordSuccess(t) PROVE TimeKept'
  BY <1>2 DEF RecordSuccess, SuccessRead, SuccessClose
<1>3. ASSUME NEW t \in Tasks, RecordFailure(t) PROVE TimeKept'
  <2>1. CASE FailureCount(t)
    BY <2>1 DEF FailureCount
  <2>2. CASE FailureStamp(t)
    BY <2>2 DEF FailureStamp
  <2>3. CASE FailureWriteTime(t)
    <3>1. elapsed' # NoTime
      BY <2>3 DEF FailureWriteTime
    <3> QED
      BY <3>1
  <2>4. CASE FailureRead(t)
    BY <2>4 DEF FailureRead
  <2>5. CASE FailureOpen(t)
    BY <2>5 DEF FailureOpen
  <2> QED
    BY <1>3, <2>1, <2>2, <2>3, <2>4, <2>5 DEF RecordFailure
<1>4. ASSUME NEW t \in Tasks, Reset(t) PROVE TimeKept'
  BY <1>4 DEF Reset, TimeAfterReset
<1>5. CASE Tick
  <2>1. elapsed # NoTime => elapsed' # NoTime
    BY <1>5 DEF Tick, Older
  <2> QED
    BY <1>5, <2>1 DEF Tick
<1>6. CASE UNCHANGED vars
  BY <1>6 DEF vars
<1> QED
  BY <1>1, <1>2, <1>3, <1>4, <1>5, <1>6 DEF Next, Call

\* A stale count is a count of failures all the same.
LEMMA CountsStep == TypeOK /\ CountsBounded /\ [Next]_vars => CountsBounded'
<1> SUFFICES ASSUME TypeOK, CountsBounded, [Next]_vars PROVE CountsBounded'
  OBVIOUS
<1> USE DEF TypeOK, breakerVars, Goto, CountsBounded
<1>1. ASSUME NEW t \in Tasks, Allow(t) PROVE CountsBounded'
  BY <1>1 DEF Allow, AllowRead, AllowCheckTime, AllowHalfOpen
<1>2. ASSUME NEW t \in Tasks, RecordSuccess(t) PROVE CountsBounded'
  BY <1>2 DEF RecordSuccess, SuccessRead, SuccessClose
<1>3. ASSUME NEW t \in Tasks, RecordFailure(t) PROVE CountsBounded'
  <2>1. CASE FailureCount(t)
    BY <2>1 DEF FailureCount
  <2>2. CASE ~FailureCount(t)
    BY <1>3, <2>2 DEF RecordFailure, FailureStamp, FailureWriteTime,
                      FailureRead, FailureOpen
  <2> QED
    BY <2>1, <2>2
<1>4. ASSUME NEW t \in Tasks, Reset(t) PROVE CountsBounded'
  BY <1>4 DEF Reset
<1>5. CASE Tick
  BY <1>5 DEF Tick
<1>6. CASE UNCHANGED vars
  BY <1>6 DEF vars
<1> QED
  BY <1>1, <1>2, <1>3, <1>4, <1>5, <1>6 DEF Next, Call

\* Nobody comes to leave Closed without enough failures.
LEMMA TripsStep ==
  TypeOK /\ CountsBounded /\ TripsJustified /\ [Next]_vars => TripsJustified'
<1> SUFFICES ASSUME TypeOK, CountsBounded, TripsJustified, [Next]_vars
             PROVE  TripsJustified'
  OBVIOUS
<1> USE BreakerAssumption
    DEF TypeOK, breakerVars, Goto, TripsJustified, NeverOpensEarly
<1>1. ASSUME NEW t \in Tasks, Allow(t) PROVE TripsJustified'
  BY <1>1 DEF Allow, AllowRead, AllowCheckTime, AllowHalfOpen
<1>2. ASSUME NEW t \in Tasks, RecordSuccess(t) PROVE TripsJustified'
  BY <1>2 DEF RecordSuccess, SuccessRead, SuccessClose
<1>3. ASSUME NEW t \in Tasks, RecordFailure(t) PROVE TripsJustified'
  <2>1. CASE FailureCount(t)
    BY <2>1 DEF FailureCount
  <2>2. CASE FailureStamp(t)
    BY <2>2 DEF FailureStamp
  <2>3. CASE FailureWriteTime(t)
    BY <2>3 DEF FailureWriteTime
  <2>4. CASE FailureRead(t)
    <3>1. Opens(t) => failures >= FailureThreshold
      BY DEF Opens, CountsBounded
    <3> QED
      BY <2>4, <3>1 DEF FailureRead
  <2>5. CASE FailureOpen(t)
    BY <2>5 DEF FailureOpen
  <2> QED
    BY <1>3, <2>1, <2>2, <2>3, <2>4, <2>5 DEF RecordFailure
<1>4. ASSUME NEW t \in Tasks, Reset(t) PROVE TripsJustified'
  BY <1>4 DEF Reset
<1>5. CASE Tick
  BY <1>5 DEF Tick
<1>6. CASE UNCHANGED vars
  BY <1>6 DEF vars
<1> QED
  BY <1>1, <1>2, <1>3, <1>4, <1>5, <1>6 DEF Next, Call

\* The four parts hold of every state.
LEMMA Inductive == Spec => []IInv
<1>1. Init => IInv
  <2>1. Init => TypeOK
    BY TypeInit
  <2>2. Init => CountsBounded /\ TimeKept /\ TripsJustified
    BY BreakerAssumption DEF Init, CountsBounded, TimeKept, TripsJustified,
       OpenIsRecoverable, NeverOpensEarly
  <2> QED
    BY <2>1, <2>2 DEF IInv
<1>2. IInv /\ [Next]_vars => IInv'
  BY TypeStep, TimeStep, CountsStep, TripsStep DEF IInv
<1> QED
  BY <1>1, <1>2, PTL DEF Spec

\* However its callers interleave, the breaker's fields keep their types.
THEOREM TypeCorrect == Spec => []TypeOK
<1>1. IInv => TypeOK
  BY DEF IInv
<1> QED
  BY <1>1, Inductive, PTL

\* No interleaving of any number of callers leaves the circuit Open without a
\* failure time, the state allow_request never lets anyone out of.
THEOREM OpenRecoverable == Spec => []OpenIsRecoverable
<1>1. IInv => OpenIsRecoverable
  BY DEF IInv, TimeKept
<1> QED
  BY <1>1, Inductive, PTL

\* Stale counts and states notwithstanding, the circuit never opens before
\* failure_threshold failures have been recorded.
THEOREM NotEarly == Spec => []NeverOpensEarly
<1>1. IInv => NeverOpensEarly
  BY DEF IInv, TripsJustified
<1> QED
  BY <1>1, Inductive, PTL

-----------------------------------------------------------------------------
\* Calls that do not overlap.

\* What a task carries is what the fields still hold.
Fresh(t) ==
  /\ pc[t] = "check_time" => state = "Open"
  /\ pc[t] = "half_open" => state = "Open" /\ elapsed = ResetTimeout
  /\ pc[t] = "write_time" => (elapsed # NoTime => stamp[t] <= elapsed)
  /\ pc[t] \in {"stamp", "write_time", "failure_read", "open"} =>
       count[t] = failure_count
  /\ pc[t] = "open" =>
       \/ state = "HalfOpen"
       \/ state = "Closed" /\ count[t] >= FailureThreshold

SerialInv == ~overlapped => \A t \in Tasks : Fresh(t)

\* A step of one task leaves the place of the others alone.
LEMMA OthersStay ==
  ASSUME TypeOK, NEW t \in Tasks, Call(t), NEW u \in Tasks \ {t}
  PROVE  pc'[u] = pc[u]
<1> USE DEF TypeOK, Goto
<1>1. CASE Allow(t)
  BY <1>1 DEF Allow, AllowRead, AllowCheckTime, AllowHalfOpen
<1>2. CASE RecordSuccess(t)
  BY <1>2 DEF RecordSuccess, SuccessRead, SuccessClose
<1>3. CASE RecordFailure(t)
  BY <1>3 DEF RecordFailure, FailureCount, FailureStamp, FailureWriteTime,
              FailureRead, FailureOpen
<1>4. CASE Reset(t)
  BY <1>4 DEF Reset
<1> QED
  BY <1>1, <1>2, <1>3, <1>4 DEF Call

\* A step after which no calls overlap is made while all others are idle.
LEMMA Alone ==
  ASSUME TypeOK, NEW t \in Tasks, Call(t), Meet(t), ~overlapped'
  PROVE  \A u \in Tasks \ {t} : pc[u] = "idle" /\ pc'[u] = "idle"
<1>1. \A u \in Tasks \ {t} : pc'[u] = pc[u]
  BY OthersStay
<1>2. ASSUME NEW u \in Tasks \ {t}, pc[u] # "idle" PROVE FALSE
  BY <1>1, <1>2 DEF Meet
<1> QED
  BY <1>1, <1>2

\* Once no calls overlap any more, nobody is in a call or one task is alone.
LEMMA SerialStep == TypeOK /\ SerialInv /\ [Next]_vars => SerialInv'
<1> SUFFICES ASSUME TypeOK, SerialInv, [Next]_vars, ~overlapped',
                    NEW t \in Tasks
             PROVE  Fresh(t)'
  BY DEF SerialInv
<1>1. TypeOK'
  BY TypeStep
<1>2. ASSUME NEW u \in Tasks, Call(u), Meet(u) PROVE Fresh(t)'
  <2>1. \A v \in Tasks \ {u} : pc'[v] = "idle"
    BY <1>2, Alone
  <2>2. CASE t # u
    BY <2>1, <2>2 DEF Fresh
  <2>3. CASE t = u /\ overlapped
    <3>1. pc'[t] = "idle"
      BY <1>2, <2>3 DEF Meet
    <3> QED
      BY <3>1 DEF Fresh
  <2>4. CASE t = u /\ ~overlapped
    <3>1. Fresh(t) /\ Call(t)
      BY <1>2, <2>4 DEF SerialInv
    <3> USE <1>1, <3>1, BreakerAssumption
        DEF TypeOK, Ages, breakerVars, Goto, Fresh
    <3>2. CASE Allow(t)
      BY <3>2 DEF Allow, AllowRead, AllowCheckTime, AllowHalfOpen, TimedOut
    <3>3. CASE RecordSuccess(t)
      BY <3>3 DEF RecordSuccess, SuccessRead, SuccessClose
    <3>4. CASE FailureCount(t)
      BY <3>4 DEF FailureCount
    <3>5. CASE FailureStamp(t)
      BY <3>5 DEF FailureStamp
    <3>6. CASE FailureWriteTime(t)
      BY <3>6 DEF FailureWriteTime
    <3>7. CASE FailureRead(t)
      BY <3>7 DEF FailureRead, Opens
    <3>8. CASE FailureOpen(t)
      BY <3>8 DEF FailureOpen
    <3>9. CASE Reset(t)
      BY <3>9 DEF Reset
    <3> QED
      BY <3>2, <3>3, <3>4, <3>5, <3>6, <3>7, <3>8, <3>9
         DEF Call, RecordFailure
  <2> QED
    BY <2>2, <2>3, <2>4
<1>3. CASE Tick /\ UNCHANGED overlapped
  <2>1. Fresh(t)
    BY <1>3 DEF SerialInv
  <2>2. \A a, b \in Ages : a <= b => Older(a) <= Older(b)
    BY BreakerAssumption DEF Ages, Older
  <2>3. Older(ResetTimeout) = ResetTimeout
    BY BreakerAssumption DEF Older
  <2>4. ASSUME pc[t] = "write_time", elapsed' # NoTime
        PROVE  stamp'[t] <= elapsed'
    <3>1. elapsed # NoTime
      BY <1>3, <2>4 DEF Tick
    <3>2. elapsed \in Ages /\ stamp[t] \in Ages /\ stamp[t] <= elapsed
      BY <2>1, <2>4, <3>1 DEF Fresh, TypeOK
    <3>3. elapsed' = Older(elapsed) /\ stamp'[t] = Older(stamp[t])
      BY <1>3, <2>4, <3>1 DEF Tick, TypeOK
    <3> QED
      BY <2>2, <3>2, <3>3
  <2>5. elapsed = ResetTimeout => elapsed' = ResetTimeout
    BY <1>3, <2>3, BreakerAssumption DEF Tick
  <2> QED
    BY <1>3, <2>1, <2>4, <2>5 DEF Tick, Fresh
<1>4. CASE UNCHANGED vars
  BY <1>4 DEF vars, breakerVars, SerialInv, Fresh
<1> QED
  BY <1>2, <1>3, <1>4 DEF Next

\* Each step of a call that meets no other is a transition of the diagram, or
\* changes nothing the diagram shows.
LEMMA DiagramStep ==
  TypeOK /\ SerialInv /\ [Next]_vars
    => (~overlapped /\ ~overlapped' => [Contract!Next]_(Contract!vars))
<1> SUFFICES ASSUME TypeOK, SerialInv, [Next]_vars, ~overlapped, ~overlapped'
             PROVE  Contract!Next \/ UNCHANGED Contract!vars
  OBVIOUS
<1> USE BreakerAssumption DEF TypeOK, Ages, breakerVars, Contract!vars
<1>1. ASSUME NEW t \in Tasks, Call(t)
      PROVE  Contract!Next \/ UNCHANGED Contract!vars
  <2>0. Fresh(t)
    BY DEF SerialInv
  <2>1. CASE AllowRead(t) \/ AllowCheckTime(t)
    BY <2>1 DEF AllowRead, AllowCheckTime
  <2>2. CASE AllowHalfOpen(t)
    <3>1. Contract!Probe
      BY <2>0, <2>2 DEF AllowHalfOpen, Fresh, Contract!Probe
    <3> QED
      BY <3>1 DEF Contract!Next
  <2>3. CASE SuccessRead(t) \/ FailureStamp(t) \/ FailureRead(t)
    BY <2>3 DEF SuccessRead, FailureStamp, FailureRead
  <2>4. CASE SuccessClose(t) \/ Reset(t)
    <3>1. Contract!Close
      BY <2>4 DEF SuccessClose, Reset, TimeAfterReset, Contract!Close
    <3> QED
      BY <3>1 DEF Contract!Next
  <2>5. CASE FailureCount(t)
    <3>1. Contract!Count
      BY <2>5 DEF FailureCount, Contract!Count
    <3> QED
      BY <3>1 DEF Contract!Next
  <2>6. CASE FailureWriteTime(t)
    <3>1. Contract!Stamp
      BY <2>0, <2>6 DEF FailureWriteTime, Fresh, Contract!Stamp
    <3> QED
      BY <3>1 DEF Contract!Next
  <2>7. CASE FailureOpen(t)
    <3>1. Contract!Reopen \/ Contract!Trip
      BY <2>0, <2>7 DEF FailureOpen, Fresh, Contract!Reopen, Contract!Trip
    <3> QED
      BY <3>1 DEF Contract!Next
  <2> QED
    BY <1>1, <2>1, <2>2, <2>3, <2>4, <2>5, <2>6, <2>7
       DEF Call, Allow, RecordSuccess, RecordFailure
<1>2. CASE Tick
  <2>1. CASE elapsed = NoTime \/ elapsed = ResetTimeout
    BY <1>2, <2>1 DEF Tick, Older
  <2>2. CASE elapsed # NoTime /\ elapsed # ResetTimeout
    <3>1. Contract!Tick
      BY <1>2, <2>2 DEF Tick, Older, Contract!Tick
    <3> QED
      BY <3>1 DEF Contract!Next
  <2> QED
    BY <2>1, <2>2
<1>3. CASE UNCHANGED vars
  BY <1>3 DEF vars
<1> QED
  BY <1>1, <1>2, <1>3 DEF Next

\* For any number of callers, threshold and timeout: as long as calls do not
\* overlap, allow_request, record_success, record_failure and reset take the
\* breaker through its state diagram and nowhere else.
THEOREM SerialCallsFollowDiagram == Spec => ImplementsContract
<1>1. Init => Contract!Init /\ SerialInv
  BY DEF Init, Contract!Init, SerialInv, Fresh
<1>2. Init => TypeOK
  BY TypeInit
<1>3. TypeOK /\ SerialInv /\ [Next]_vars
        => [~overlapped /\ ~overlapped' => [Contract!Next]_(Contract!vars)]_vars
  BY DiagramStep
<1> QED
  BY <1>1, <1>2, <1>3, TypeStep, SerialStep, PTL DEF Spec, ImplementsContract

=============================================================================
