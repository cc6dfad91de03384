----------------------------- MODULE LossyQueues -----------------------------
(***************************************************************************)
(* What the message bus promises, with no log and no read positions: every *)
(* attached subscriber has a queue of its own, gets each message published *)
(* while it is attached once and in publication order, and loses messages  *)
(* only from the front of a queue longer than Capacity.                    *)
(*                                                                         *)
(* BusDelivery implements this specification.                              *)
(***************************************************************************)
EXTENDS Naturals, Sequences

CONSTANTS
  Subscribers,
  Messages,
  Capacity

VARIABLES
  pending,    \* [Subscribers -> Seq(Messages)]: published and not yet taken
  attached    \* the subscribers that are attached

vars == <<pending, attached>>

Init ==
  /\ pending = [s \in Subscribers |-> << >>]
  /\ attached = {}

Send(m) ==
  /\ pending' = [s \in Subscribers |->
                   IF s \in attached THEN Append(pending[s], m) ELSE pending[s]]
  /\ UNCHANGED attached

Attach(s) ==
  /\ s \notin attached
  /\ attached' = attached \cup {s}
  /\ UNCHANGED pending

Detach(s) ==
  /\ s \in attached
  /\ attached' = attached \ {s}
  /\ pending' = [pending EXCEPT ![s] = << >>]

Take(s) ==
  /\ pending[s] # << >>
  /\ Len(pending[s]) <= Capacity
  /\ pending' = [pending EXCEPT ![s] = Tail(@)]
  /\ UNCHANGED attached

\* The queue keeps its newest Capacity messages.
Overflow(s) ==
  /\ Len(pending[s]) > Capacity
  /\ pending' = [pending EXCEPT ![s] = SubSeq(@, Len(@) - Capacity + 1, Len(@))]
  /\ UNCHANGED attached

Next ==
  \/ \E m \in Messages : Send(m)
  \/ \E s \in Subscribers :
       Attach(s) \/ Detach(s) \/ Take(s) \/ Overflow(s)

Spec == Init /\ [][Next]_vars

=============================================================================
