--------------------------- MODULE BreakerContract ---------------------------
(***************************************************************************)
(* The circuit breaker as its state diagram: Closed, Open after enough     *)
(* failures, HalfOpen once the last failure is old enough, and from there  *)
(* Closed or Open again.  Each transition is one step whose condition      *)
(* holds of the values at that step.                                       *)
(*                                                                         *)
(* CircuitBreaker implements this for calls that do not overlap.           *)
(***************************************************************************)
EXTENDS Naturals

CONSTANTS FailureThreshold, ResetTimeout, NoTime

VARIABLES state, failure_count, elapsed

vars == <<state, failure_count, elapsed>>

Init == state = "Closed" /\ failure_count = 0 /\ elapsed = NoTime

\* A failure counts.
Count ==
  /\ failure_count' = failure_count + 1
  /\ UNCHANGED <<state, elapsed>>

\* A failure is the most recent one there is.
Stamp ==
  /\ elapsed' \in 0 .. ResetTimeout
  /\ elapsed # NoTime => elapsed' <= elapsed
  /\ UNCHANGED <<state, failure_count>>

Tick ==
  /\ elapsed # NoTime
  /\ elapsed < ResetTimeout
  /\ elapsed' = elapsed + 1
  /\ UNCHANGED <<state, failure_count>>

Trip ==
  /\ state = "Closed"
  /\ failure_count >= FailureThreshold
  /\ state' = "Open"
  /\ UNCHANGED <<failure_count, elapsed>>

Probe ==
  /\ state = "Open"
  /\ elapsed = ResetTimeout
  /\ state' = "HalfOpen"
  /\ UNCHANGED <<failure_count, elapsed>>

Reopen ==
  /\ state = "HalfOpen"
  /\ state' = "Open"
  /\ UNCHANGED <<failure_count, elapsed>>

\* A successful probe, or an operator's reset.
Close ==
  /\ state' = "Closed"
  /\ failure_count' = 0
  /\ UNCHANGED elapsed

Next == Count \/ Stamp \/ Tick \/ Trip \/ Probe \/ Reopen \/ Close

Spec == Init /\ [][Next]_vars

=============================================================================
