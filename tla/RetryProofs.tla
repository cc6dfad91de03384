----------------------------- MODULE RetryProofs -----------------------------
(***************************************************************************)
(* What a caller of retry_with_backoff gets back and how long it sleeps,   *)
(* for any policy and any answers of the operation.                        *)
(***************************************************************************)
EXTENDS Retry, FiniteSetTheorems, TLAPS

\* Where the loop is tells how many calls and sleeps are behind it.
LoopInv ==
  /\ policy \in RetryPolicy
  /\ at \in {"operation", "sleep", "returned", "dropped"}
  /\ attempt \in Nat
  /\ calls \in Seq(Errors \cup {"ok"})
  /\ waits \in Seq(Nat) /\ backoff \in Nat
  /\ at = "operation" =>
       Len(calls) = attempt /\ Len(waits) = attempt
         /\ attempt <= policy.max_retries
  /\ at = "sleep" =>
       Len(calls) = attempt + 1 /\ Len(waits) = attempt + 1
         /\ attempt < policy.max_retries
  /\ FirstSuccessOrLastError

\* One more call, by its answer.
LEMMA OneMoreCall ==
  ASSUME calls \in Seq(Errors \cup {"ok"}), NEW answer \in Errors \cup {"ok"},
         calls' = Append(calls, answer)
  PROVE  /\ calls' \in Seq(Errors \cup {"ok"})
         /\ Len(calls') = Len(calls) + 1 /\ Len(calls) \in Nat
         /\ calls' # << >>
         /\ calls'[Len(calls')] = answer
         /\ \A k \in 1 .. Len(calls) : calls'[k] = calls[k]
OBVIOUS

\* Every step of the loop keeps the counts.
LEMMA LoopStep == LoopInv /\ [Next]_vars => LoopInv'
<1> SUFFICES ASSUME LoopInv, [Next]_vars  PROVE LoopInv'
  OBVIOUS
<1>1. /\ policy.max_retries \in Nat /\ policy.max_backoff \in Nat
      /\ calls \in Seq(Errors \cup {"ok"}) /\ Len(calls) \in Nat
  BY DEF LoopInv, RetryPolicy
<1>2. CASE Succeed
  <2>1. AllFail /\ at' = "returned" /\ Len(waits') = Len(calls)
    BY <1>2 DEF Succeed, LoopInv, FirstSuccessOrLastError
  <2>2. /\ calls' \in Seq(Errors \cup {"ok"})
        /\ Len(calls') = Len(calls) + 1
        /\ calls' # << >> /\ calls'[Len(calls')] = "ok"
        /\ \A k \in 1 .. Len(calls) : calls'[k] = calls[k]
    BY <1>1, <1>2, OneMoreCall DEF Succeed
  <2>3. \A k \in 1 .. Len(calls') - 1 : calls'[k] \in Errors
    BY <2>1, <2>2, <1>1 DEF AllFail
  <2>4. FirstSuccessOrLastError'
    BY <2>1, <2>2, <2>3, <1>1 DEF FirstSuccessOrLastError
  <2> QED  BY <2>1, <2>2, <2>4, <1>2 DEF Succeed, LoopInv
<1>3. ASSUME NEW e \in Errors, Fail(e)  PROVE LoopInv'
  <2>1. /\ calls' \in Seq(Errors \cup {"ok"})
        /\ Len(calls') = Len(calls) + 1
        /\ calls'[Len(calls')] = e
        /\ \A k \in 1 .. Len(calls) : calls'[k] = calls[k]
    BY <1>1, <1>3, OneMoreCall DEF Fail
  <2>2. AllFail'
    <3>1. AllFail
      BY <1>3 DEF Fail, LoopInv, FirstSuccessOrLastError
    <3>2. \A k \in 1 .. Len(calls) + 1 : calls'[k] \in Errors
      BY <3>1, <2>1, <1>1 DEF AllFail
    <3> QED  BY <3>2, <2>1, <1>1 DEF AllFail
  <2>3. CASE RetriesLeft
    <3>1. /\ at' = "sleep" /\ waits' = Append(waits, backoff)
          /\ attempt' = attempt /\ policy' = policy /\ backoff' = backoff
          /\ attempt < policy.max_retries
          /\ Len(calls) = attempt /\ Len(waits) = attempt
      BY <1>3, <2>3 DEF Fail, RetriesLeft, LoopInv
    <3>2. waits' \in Seq(Nat) /\ Len(waits') = attempt + 1
      BY <3>1 DEF LoopInv
    <3>3. FirstSuccessOrLastError'
      BY <3>1, <2>2 DEF FirstSuccessOrLastError
    <3> QED  BY <3>1, <3>2, <3>3, <2>1 DEF LoopInv
  <2>4. CASE ~RetriesLeft
    <3>1. /\ at' = "returned" /\ waits' = waits /\ last_err' = e
          /\ attempt' = attempt /\ policy' = policy /\ backoff' = backoff
          /\ attempt = policy.max_retries
          /\ Len(calls) = attempt /\ Len(waits) = attempt
      BY <1>1, <1>3, <2>4 DEF Fail, RetriesLeft, LoopInv
    <3>2. FirstSuccessOrLastError'
      BY <3>1, <2>1, <2>2, <1>1 DEF FirstSuccessOrLastError
    <3> QED  BY <3>1, <3>2, <2>1 DEF LoopInv
  <2> QED  BY <2>3, <2>4
<1>4. CASE Wake
  <2>1. AllFail' /\ at' = "operation" /\ attempt' = attempt + 1
        /\ UNCHANGED <<policy, last_err, calls, waits>>
    BY <1>4 DEF Wake, LoopInv, FirstSuccessOrLastError, AllFail
  <2>2. backoff' \in Nat
    BY <1>1, <1>4 DEF Wake, NextBackoff, BackoffMultiplier, LoopInv
  <2>3. FirstSuccessOrLastError'
    BY <2>1 DEF FirstSuccessOrLastError
  <2> QED  BY <2>1, <2>2, <2>3, <1>1, <1>4 DEF Wake, LoopInv
<1>5. CASE Drop
  <2>1. AllFail' /\ at' = "dropped"
        /\ UNCHANGED <<policy, attempt, backoff, last_err, calls, waits>>
    BY <1>5 DEF Drop, LoopInv, FirstSuccessOrLastError, AllFail
  <2>2. FirstSuccessOrLastError'
    BY <2>1 DEF FirstSuccessOrLastError
  <2> QED  BY <2>1, <2>2 DEF LoopInv
<1>6. CASE UNCHANGED vars
  BY <1>6 DEF vars, LoopInv, FirstSuccessOrLastError, AllFail
<1> QED  BY <1>2, <1>3, <1>4, <1>5, <1>6 DEF Next, Over

\* The loop starts in order.
LEMMA LoopStart == Init => LoopInv
<1> SUFFICES ASSUME Init  PROVE LoopInv
  OBVIOUS
<1>1. policy \in RetryPolicy
  BY RetryAssumption DEF Init
<1>2. FirstSuccessOrLastError
  BY DEF Init, FirstSuccessOrLastError, AllFail
<1> QED  BY <1>1, <1>2 DEF Init, LoopInv, RetryPolicy

\* The first success, or the last error after max_retries further calls
\* (retry.rs:36), for every policy.
THEOREM SuccessOrLastError == Spec => []FirstSuccessOrLastError
<1>1. LoopInv => FirstSuccessOrLastError
  BY DEF LoopInv
<1> QED  BY <1>1, LoopStart, LoopStep, PTL DEF Spec

-----------------------------------------------------------------------------
\* The schedule of the sleeps.

\* Powers of two, as numbers of subsets: those of 1 .. k + 1 are those of
\* 1 .. k, and each of them with k + 1 added.
LEMMA Doubling ==
  ASSUME NEW k \in Nat
  PROVE  2^k \in Nat /\ 2^(k + 1) = 2 * 2^k
<1> DEFINE Old == SUBSET (1 .. k)
           New == {b \in SUBSET (1 .. k + 1) : k + 1 \in b}
           f == [b \in Old |-> b \cup {k + 1}]
<1>1. /\ IsFiniteSet(Old) /\ Cardinality(Old) = 2^k
      /\ Cardinality(SUBSET (1 .. k + 1)) = 2^(k + 1)
  <2>1. IsFiniteSet(1 .. k) /\ Cardinality(1 .. k) = k
    BY FS_Interval
  <2>2. IsFiniteSet(1 .. k + 1) /\ Cardinality(1 .. k + 1) = k + 1
    BY FS_Interval
  <2> QED
    BY <2>1, <2>2, FS_SUBSET
<1>2. f \in Bijection(Old, New)
  <2>1. f \in [Old -> New]
    OBVIOUS
  <2>2. ASSUME NEW a \in Old, NEW b \in Old, f[a] = f[b]
        PROVE  a = b
    <3>1. k + 1 \notin a /\ k + 1 \notin b
      OBVIOUS
    <3>2. a \cup {k + 1} = b \cup {k + 1}
      BY <2>2
    <3> QED
      BY <3>1, <3>2
  <2>3. ASSUME NEW c \in New
        PROVE  \E b \in Old : f[b] = c
    <3>1. c \ {k + 1} \in Old
      OBVIOUS
    <3>2. (c \ {k + 1}) \cup {k + 1} = c
      OBVIOUS
    <3> QED
      BY <3>1, <3>2
  <2> QED
    BY <2>1, <2>2, <2>3 DEF Bijection, Injection, Surjection, IsInjective
<1>3. IsFiniteSet(New) /\ Cardinality(New) = Cardinality(Old)
  BY <1>1, <1>2, FS_Bijection DEF ExistsBijection
<1>4. SUBSET (1 .. k + 1) = Old \cup New /\ Old \cap New = {}
  OBVIOUS
<1>5. Cardinality(Old) \in Nat
  BY <1>1, FS_CardinalityType
<1> HIDE DEF Old
<1> HIDE DEF New
<1>6. Cardinality(Old \cup New) = Cardinality(Old) + Cardinality(New) - 0
  <2>1. Cardinality({}) = 0
    BY FS_EmptySet
  <2>2. IsFiniteSet(Old) /\ IsFiniteSet(New)
    BY <1>1, <1>3
  <2>3. Cardinality(Old \cup New)
          = Cardinality(Old) + Cardinality(New) - Cardinality(Old \cap New)
    BY <2>2, FS_Union
  <2> QED
    BY <1>4, <2>1, <2>3
<1> QED
  BY <1>1, <1>3, <1>4, <1>5, <1>6

\* The sleep after attempt k, counted from 0.
Scheduled(k) ==
  LET doubled == policy.initial_backoff * 2^k IN
  IF k = 0 \/ doubled <= policy.max_backoff THEN doubled ELSE policy.max_backoff

\* The loop's doubling and cutting, sleep by sleep, is the closed form.
LEMMA ScheduleGoesOn ==
  ASSUME policy \in RetryPolicy, NEW k \in Nat, backoff = Scheduled(k)
  PROVE  NextBackoff = Scheduled(k + 1)
<1> PICK d \in Nat : d = policy.initial_backoff * 2^k
  <2>1. policy.initial_backoff \in Nat /\ 2^k \in Nat
    BY Doubling DEF RetryPolicy
  <2> QED
    BY <2>1
<1>1. policy.max_backoff \in Nat /\ policy.initial_backoff \in Nat
  BY DEF RetryPolicy
<1>2. policy.initial_backoff * 2^(k + 1) = 2 * d
  <2>1. 2^(k + 1) = 2 * 2^k /\ 2^k \in Nat
    BY Doubling
  <2>2. policy.initial_backoff * (2 * 2^k) = 2 * (policy.initial_backoff * 2^k)
    BY <1>1, <2>1
  <2> QED
    BY <2>1, <2>2
<1>3. backoff = IF k = 0 \/ d <= policy.max_backoff THEN d
                ELSE policy.max_backoff
  BY DEF Scheduled
<1>4. Scheduled(k + 1) =
        IF 2 * d <= policy.max_backoff THEN 2 * d ELSE policy.max_backoff
  BY <1>2 DEF Scheduled
<1> QED
  BY <1>1, <1>3, <1>4 DEF NextBackoff, BackoffMultiplier

\* While the loop goes on, backoff is what the schedule says for this attempt.
ScheduleInv ==
  /\ at \in {"operation", "sleep"} => backoff = Scheduled(attempt)
  /\ \A k \in 1 .. Len(waits) : waits[k] = Scheduled(k - 1)

\* Every step keeps to the schedule.
LEMMA ScheduleStep == LoopInv /\ ScheduleInv /\ [Next]_vars => ScheduleInv'
<1> SUFFICES ASSUME LoopInv, ScheduleInv, [Next]_vars PROVE ScheduleInv'
  OBVIOUS
<1>1. /\ policy \in RetryPolicy /\ attempt \in Nat
      /\ waits \in Seq(Nat) /\ Len(waits) \in Nat /\ backoff \in Nat
  BY DEF LoopInv
<1>2. policy' = policy
  BY DEF Next, Succeed, Fail, Wake, Drop, Over, vars
<1>3. \A k : Scheduled(k)' = Scheduled(k)
  BY <1>2 DEF Scheduled
<1>4. ASSUME UNCHANGED <<backoff, attempt, waits>>,
             at' \in {"operation", "sleep"} => at \in {"operation", "sleep"}
      PROVE  ScheduleInv'
  BY <1>3, <1>4 DEF ScheduleInv
<1>5. CASE Succeed \/ Drop \/ UNCHANGED vars
  BY <1>4, <1>5 DEF Succeed, Drop, vars
<1>6. ASSUME NEW e \in Errors, Fail(e) PROVE ScheduleInv'
  <2>1. CASE RetriesLeft
    <3>1. /\ at = "operation" /\ waits' = Append(waits, backoff)
          /\ UNCHANGED <<attempt, backoff>> /\ Len(waits) = attempt
      BY <1>6, <2>1 DEF Fail, LoopInv
    <3>2. /\ Len(waits') = attempt + 1
          /\ \A k \in 1 .. attempt : waits'[k] = waits[k]
          /\ waits'[attempt + 1] = backoff
      BY <1>1, <3>1
    <3>3. backoff = Scheduled(attempt)
      BY <3>1 DEF ScheduleInv
    <3>4. \A k \in 1 .. attempt : waits'[k] = Scheduled(k - 1)
      BY <3>1, <3>2 DEF ScheduleInv
    <3>5. 1 .. Len(waits') = (1 .. attempt) \cup {attempt + 1}
      BY <1>1, <3>2
    <3>6. ASSUME NEW k \in 1 .. Len(waits')
          PROVE  waits'[k] = Scheduled(k - 1)
      <4>1. CASE k \in 1 .. attempt
        BY <3>4, <4>1
      <4>2. CASE k = attempt + 1
        <5>1. k - 1 = attempt /\ waits'[k] = backoff
          BY <1>1, <3>2, <4>2
        <5> QED
          BY <3>3, <5>1
      <4> QED
        BY <3>5, <4>1, <4>2
    <3> QED
      BY <1>3, <3>1, <3>3, <3>6 DEF ScheduleInv
  <2>2. CASE ~RetriesLeft
    BY <1>4, <1>6, <2>2 DEF Fail
  <2> QED
    BY <2>1, <2>2
<1>7. CASE Wake
  <2>1. backoff' = Scheduled(attempt + 1) /\ attempt' = attempt + 1
        /\ waits' = waits
    BY <1>1, <1>7, ScheduleGoesOn DEF Wake, ScheduleInv
  <2> QED
    BY <1>3, <2>1 DEF ScheduleInv
<1> QED
  BY <1>5, <1>6, <1>7 DEF Next, Over

\* The sleeps double from the initial backoff and are cut at max_backoff, all
\* but the first (retry.rs:46), for every policy and every number of attempts.
THEOREM WaitsKeepSchedule == Spec => []WaitsFollowSchedule
<1>1. Init => LoopInv /\ ScheduleInv
  <2>1. Init => LoopInv
    BY LoopStart
  <2>2. ASSUME Init PROVE ScheduleInv
    <3>1. policy.initial_backoff * 2^0 = policy.initial_backoff
      <4>1. 2^0 = 1
        OBVIOUS
      <4>2. policy.initial_backoff \in Nat
        BY <2>2, RetryAssumption DEF Init, RetryPolicy
      <4> QED
        BY <4>1, <4>2
    <3> QED
      BY <2>2, <3>1 DEF Init, ScheduleInv, Scheduled
  <2> QED
    BY <2>1, <2>2
<1>2. LoopInv /\ ScheduleInv => WaitsFollowSchedule
  <2> SUFFICES ASSUME LoopInv, ScheduleInv, NEW k \in DOMAIN waits
               PROVE  waits[k] = LET doubled == policy.initial_backoff * 2^(k - 1) IN
                                 IF k = 1 \/ doubled <= policy.max_backoff
                                 THEN doubled ELSE policy.max_backoff
    BY DEF WaitsFollowSchedule
  <2>1. k \in 1 .. Len(waits)
    BY DEF LoopInv
  <2>2. k - 1 = 0 <=> k = 1
    BY <2>1
  <2> QED
    BY <2>1, <2>2 DEF ScheduleInv, Scheduled
<1> QED
  BY <1>1, <1>2, LoopStep, ScheduleStep, PTL DEF Spec

=============================================================================
