-------------------------------- MODULE Retry --------------------------------
(***************************************************************************)
(* retry_with_backoff (crates/messaging/src/retry.rs): calls an operation, *)
(* sleeps after a failure, doubles the backoff up to a limit, and gives up *)
(* after max_retries further calls.                                        *)
(*                                                                         *)
(* A step is the code between two awaits: the answer of the operation, or  *)
(* the end of a sleep.  At each of them the caller may drop the future, as *)
(* a select! around the call does.  Durations are whole milliseconds.      *)
(***************************************************************************)
EXTENDS Integers, Sequences

CONSTANTS
  Policies,   \* the policies a caller may bring
  Errors      \* what a failing operation answers

RetryPolicy == [max_retries : Nat, initial_backoff : Nat, max_backoff : Nat]

ASSUME RetryAssumption == Policies \subseteq RetryPolicy /\ "ok" \notin Errors

VARIABLES
  policy,
  at,        \* "operation", "sleep", "returned", or "dropped" by the caller
  attempt,   \* the attempt the operation was called with last
  backoff,
  last_err,
  calls,     \* history: the answers of the operation
  waits      \* history: the sleeps begun

vars == <<policy, at, attempt, backoff, last_err, calls, waits>>

NoError == "none"

\* RetryPolicy::new sets backoff_multiplier, and from_config goes through it.
BackoffMultiplier == 2

Init ==
  /\ policy \in Policies
  /\ at = "operation"
  /\ attempt = 0
  /\ backoff = policy.initial_backoff
  /\ last_err = NoError
  /\ calls = << >>
  /\ waits = << >>

\* The operation answers Ok, which is returned.
Succeed ==
  /\ at = "operation"
  /\ calls' = Append(calls, "ok")
  /\ at' = "returned"
  /\ UNCHANGED <<policy, attempt, backoff, last_err, waits>>

\* Mutant: an exclusive range, which loses the last attempt.
RetriesLeftExclusive == attempt + 1 < policy.max_retries

RetriesLeft == attempt < policy.max_retries

\* The operation fails: sleep and try again, or return the error.  The code
\* keeps the error of a failed attempt in e during the sleep and puts it into
\* last_err after it.
Fail(e) ==
  /\ at = "operation"
  /\ calls' = Append(calls, e)
  /\ last_err' = e
  /\ IF RetriesLeft
     THEN at' = "sleep" /\ waits' = Append(waits, backoff)
     ELSE at' = "returned" /\ UNCHANGED waits
  /\ UNCHANGED <<policy, attempt, backoff>>

\* Mutant: the backoff is capped before it is multiplied.
NextBackoffCapFirst ==
  BackoffMultiplier *
    (IF backoff <= policy.max_backoff THEN backoff ELSE policy.max_backoff)

NextBackoff ==
  IF BackoffMultiplier * backoff <= policy.max_backoff
  THEN BackoffMultiplier * backoff
  ELSE policy.max_backoff

\* The sleep ends, and the loop goes round.
Wake ==
  /\ at = "sleep"
  /\ backoff' = NextBackoff
  /\ attempt' = attempt + 1
  /\ at' = "operation"
  /\ UNCHANGED <<policy, last_err, calls, waits>>

\* The caller drops the future at one of its awaits.
Drop ==
  /\ at \in {"operation", "sleep"}
  /\ at' = "dropped"
  /\ UNCHANGED <<policy, attempt, backoff, last_err, calls, waits>>

Over == at \in {"returned", "dropped"} /\ UNCHANGED vars

Next == Succeed \/ (\E e \in Errors : Fail(e)) \/ Wake \/ Drop \/ Over

Spec == Init /\ [][Next]_vars

-----------------------------------------------------------------------------
\* Properties.

AllFail == \A k \in DOMAIN calls : calls[k] \in Errors

\* "Returns `Ok(T)` on first success, or the last `Err(E)` after exhausting
\* retries" (retry.rs:36): as long as it has not returned every call failed,
\* one sleep lies between two calls, and it returns either at once with the
\* first success or with the last error of 1 + max_retries calls.
FirstSuccessOrLastError ==
  /\ at # "returned" => AllFail
  /\ at = "returned" =>
       \/ /\ calls # << >> /\ calls[Len(calls)] = "ok"
          /\ \A k \in 1 .. Len(calls) - 1 : calls[k] \in Errors
          /\ Len(waits) = Len(calls) - 1
       \/ /\ AllFail
          /\ Len(calls) = policy.max_retries + 1
          /\ last_err = calls[Len(calls)]
          /\ Len(waits) = policy.max_retries

\* "Exponential backoff retry with configurable max retries and backoff bounds"
\* (README.md:132) in closed form: the sleep after attempt k is the initial
\* backoff doubled k times and cut at max_backoff, except that the first sleep
\* is never cut (retry.rs:46).
WaitsFollowSchedule ==
  \A k \in DOMAIN waits :
    LET doubled == policy.initial_backoff * 2^(k - 1) IN
    waits[k] = IF k = 1 \/ doubled <= policy.max_backoff
               THEN doubled
               ELSE policy.max_backoff

=============================================================================
