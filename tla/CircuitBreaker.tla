--------------------------- MODULE CircuitBreaker ---------------------------
(***************************************************************************)
(* The circuit breaker (crates/messaging/src/circuit_breaker.rs), called   *)
(* by several tasks.  Its fields are behind separate locks and atomics,    *)
(* each taken and released on its own, so a step is the code from one      *)
(* access of a shared field to the next and a task carries what it read    *)
(* over the awaits in between.                                             *)
(*                                                                         *)
(* An Instant is kept as the time elapsed since, counted up to the reset   *)
(* timeout, which is all the code compares it with.                        *)
(***************************************************************************)
EXTENDS Naturals, FiniteSets

CONSTANTS
  Tasks,              \* the tasks that share the breaker
  FailureThreshold,   \* failure_threshold
  ResetTimeout,       \* reset_timeout, in ticks
  NoTime,             \* the None of last_failure_time
  MaxFailures         \* bound on the calls of record_failure

Ages == 0 .. ResetTimeout

ASSUME BreakerAssumption ==
  /\ FailureThreshold \in Nat
  /\ ResetTimeout \in Nat
  /\ NoTime \notin Nat
  /\ MaxFailures \in Nat

VARIABLES
  state,          \* CircuitState
  failure_count,
  elapsed,        \* last_failure_time, as its age; NoTime before any failure
  total_trips,
  pc,             \* [Tasks -> the access each task makes next]
  count,          \* record_failure's count
  stamp,          \* record_failure's Instant::now(), as its age
  probing,        \* history: admitted while HalfOpen and not yet recorded
  failures,       \* history: calls of record_failure that counted
  overlapped      \* history: two calls met since no call was under way

breakerVars == <<state, failure_count, elapsed, total_trips>>
vars == <<breakerVars, pc, count, stamp, probing, failures, overlapped>>

Goto(t, step) == pc' = [pc EXCEPT ![t] = step]

Init ==
  /\ state = "Closed"
  /\ failure_count = 0
  /\ elapsed = NoTime
  /\ total_trips = 0
  /\ pc = [t \in Tasks |-> "idle"]
  /\ count = [t \in Tasks |-> 0]
  /\ stamp = [t \in Tasks |-> 0]
  /\ probing = {}
  /\ failures = 0
  /\ overlapped = FALSE

-----------------------------------------------------------------------------
\* allow_request

\* Closed and HalfOpen both answer true.
AllowRead(t) ==
  /\ pc[t] = "idle"
  /\ Goto(t, IF state = "Open" THEN "check_time" ELSE "idle")
  /\ probing' = IF state = "HalfOpen" THEN probing \cup {t} ELSE probing
  /\ UNCHANGED <<breakerVars, count, stamp, failures>>

\* Mutant: any failure time will do.
TimedOutAtOnce == elapsed # NoTime

TimedOut == elapsed = ResetTimeout

AllowCheckTime(t) ==
  /\ pc[t] = "check_time"
  /\ Goto(t, IF TimedOut THEN "half_open" ELSE "idle")
  /\ UNCHANGED <<breakerVars, count, stamp, probing, failures>>

\* Mutant: the transition to HalfOpen is not made.
AllowHalfOpenLost(t) ==
  /\ pc[t] = "half_open"
  /\ Goto(t, "idle")
  /\ UNCHANGED <<breakerVars, count, stamp, probing, failures>>

\* The state is written without being looked at again.
AllowHalfOpen(t) ==
  /\ pc[t] = "half_open"
  /\ state' = "HalfOpen"
  /\ probing' = probing \cup {t}
  /\ Goto(t, "idle")
  /\ UNCHANGED <<failure_count, elapsed, total_trips, count, stamp, failures>>

-----------------------------------------------------------------------------
\* record_success

SuccessRead(t) ==
  /\ pc[t] = "idle"
  /\ Goto(t, IF state = "HalfOpen" THEN "close" ELSE "idle")
  /\ probing' = probing \ {t}
  /\ UNCHANGED <<breakerVars, count, stamp, failures>>

\* Mutant: a success takes one failure back.
SuccessCloseDecays(t) ==
  /\ pc[t] = "close"
  /\ state' = "Closed"
  /\ failure_count' = failure_count - 1
  /\ Goto(t, "idle")
  /\ UNCHANGED <<elapsed, total_trips, count, stamp, probing, failures>>

\* failure_count is stored under the write lock of state.
SuccessClose(t) ==
  /\ pc[t] = "close"
  /\ state' = "Closed"
  /\ failure_count' = 0
  /\ Goto(t, "idle")
  /\ UNCHANGED <<elapsed, total_trips, count, stamp, probing, failures>>

-----------------------------------------------------------------------------
\* record_failure

FailureCount(t) ==
  /\ pc[t] = "idle"
  /\ failures < MaxFailures
  /\ failure_count' = failure_count + 1
  /\ count' = [count EXCEPT ![t] = failure_count + 1]
  /\ failures' = failures + 1
  /\ probing' = probing \ {t}
  /\ Goto(t, "stamp")
  /\ UNCHANGED <<state, elapsed, total_trips, stamp>>

\* Instant::now() is evaluated before the lock it is written under is awaited.
FailureStamp(t) ==
  /\ pc[t] = "stamp"
  /\ stamp' = [stamp EXCEPT ![t] = 0]
  /\ Goto(t, "write_time")
  /\ UNCHANGED <<breakerVars, count, probing, failures>>

FailureWriteTime(t) ==
  /\ pc[t] = "write_time"
  /\ elapsed' = stamp[t]
  /\ Goto(t, "failure_read")
  /\ UNCHANGED <<state, failure_count, total_trips, count, stamp, probing,
                 failures>>

\* Mutant: the failure is counted once more by the comparison.
OpensOneEarly(t) ==
  \/ state = "HalfOpen"
  \/ state = "Closed" /\ count[t] + 1 >= FailureThreshold

\* The two arms of the match that open the circuit.
Opens(t) ==
  \/ state = "HalfOpen"
  \/ state = "Closed" /\ count[t] >= FailureThreshold

FailureRead(t) ==
  /\ pc[t] = "failure_read"
  /\ Goto(t, IF Opens(t) THEN "open" ELSE "idle")
  /\ UNCHANGED <<breakerVars, count, stamp, probing, failures>>

FailureOpen(t) ==
  /\ pc[t] = "open"
  /\ state' = "Open"
  /\ total_trips' = total_trips + 1
  /\ Goto(t, "idle")
  /\ UNCHANGED <<failure_count, elapsed, count, stamp, probing, failures>>

-----------------------------------------------------------------------------

\* Mutant: reset forgets the last failure as well.
TimeAfterResetNone == NoTime

TimeAfterReset == elapsed

\* reset; last_failure_time stays.
Reset(t) ==
  /\ pc[t] = "idle"
  /\ state' = "Closed"
  /\ failure_count' = 0
  /\ elapsed' = TimeAfterReset
  /\ UNCHANGED <<total_trips, pc, count, stamp, probing, failures>>

\* elapsed() a tick later.
Older(age) == IF age < ResetTimeout THEN age + 1 ELSE age

Tick ==
  /\ elapsed' = IF elapsed = NoTime THEN NoTime ELSE Older(elapsed)
  /\ stamp' = [t \in Tasks |->
                 IF pc[t] = "write_time" THEN Older(stamp[t]) ELSE stamp[t]]
  /\ UNCHANGED <<state, failure_count, total_trips, pc, count, probing,
                 failures>>

Allow(t) == AllowRead(t) \/ AllowCheckTime(t) \/ AllowHalfOpen(t)
RecordSuccess(t) == SuccessRead(t) \/ SuccessClose(t)
RecordFailure(t) ==
  \/ FailureCount(t) \/ FailureStamp(t) \/ FailureWriteTime(t)
  \/ FailureRead(t) \/ FailureOpen(t)

Call(t) == Allow(t) \/ RecordSuccess(t) \/ RecordFailure(t) \/ Reset(t)

\* A step of t meets every call another task is in.
Meet(t) ==
  overlapped' =
    /\ overlapped \/ \E u \in Tasks \ {t} : pc[u] # "idle"
    /\ \E u \in Tasks : pc'[u] # "idle"

Next ==
  \/ \E t \in Tasks : Call(t) /\ Meet(t)
  \/ Tick /\ UNCHANGED overlapped

\* Time passes, a call that has begun goes on, and every task asks again and
\* again whether it may send; nothing makes a call succeed or fail.
Finish(t) == pc[t] # "idle" /\ Call(t) /\ Meet(t)
Fairness ==
  /\ WF_vars(Tick /\ UNCHANGED overlapped)
  /\ \A t \in Tasks : WF_vars(Finish(t)) /\ SF_vars(AllowRead(t) /\ Meet(t))

Spec == Init /\ [][Next]_vars
FairSpec == Spec /\ Fairness

-----------------------------------------------------------------------------
\* Properties.

\* Every field has its type and every task is at one of the code's accesses.
TypeOK ==
  /\ state \in {"Closed", "Open", "HalfOpen"}
  /\ failure_count \in Nat
  /\ elapsed \in Ages \cup {NoTime}
  /\ total_trips \in Nat
  /\ pc \in [Tasks -> {"idle", "check_time", "half_open", "close", "stamp",
                        "write_time", "failure_read", "open"}]
  /\ count \in [Tasks -> Nat]
  /\ stamp \in [Tasks -> Ages]
  /\ probing \subseteq Tasks
  /\ failures \in Nat
  /\ overlapped \in BOOLEAN

\* An Open circuit always has a failure time: allow_request answers false for
\* ever when it finds none (circuit_breaker.rs:64), so this is what keeps the
\* breaker from locking everyone out, in every interleaving of its callers.
OpenIsRecoverable == state = "Open" => elapsed # NoTime

\* The circuit does not leave Closed before FailureThreshold failures were
\* recorded, whatever counts and states the tasks carry over their awaits.
NeverOpensEarly == state # "Closed" => failures >= FailureThreshold

\* As long as callers keep asking, an Open circuit is left.
OpenIsLeft == state = "Open" ~> state # "Open"

\* For calls that do not overlap the breaker is its state diagram, whoever makes
\* them and whatever earlier overlaps have left behind: only stale reads take it
\* off the diagram, and only for as long as the calls that met go on.
Contract == INSTANCE BreakerContract
ImplementsContract ==
  /\ Contract!Init
  /\ [][~overlapped /\ ~overlapped' => [Contract!Next]_(Contract!vars)]_vars

\* "Allow one probe request" (circuit_breaker.rs:70): while HalfOpen, one task
\* at a time has been let through and has not reported back.
OneProbe == Cardinality(probing) <= 1

=============================================================================
