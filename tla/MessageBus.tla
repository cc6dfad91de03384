----------------------------- MODULE MessageBus -----------------------------
(***************************************************************************)
(* The message bus every agent publishes to and subscribes to: a wrapper   *)
(* around a tokio broadcast channel (crates/messaging/src/bus.rs).         *)
(*                                                                         *)
(* The channel is a ring of Capacity slots and one read position per       *)
(* receiver.  It is modelled by the log of every message ever accepted and *)
(* a window, the newest Capacity entries, that can still be read: a        *)
(* receiver whose position has left the window has lagged.  Positions of   *)
(* the log stand for the UUIDs of the envelopes.                           *)
(*                                                                         *)
(* The module holds the operations only; BusDelivery runs them by          *)
(* themselves and TradingPipeline composes them with the agents.           *)
(***************************************************************************)
EXTENDS Naturals, Sequences

CONSTANTS
  Subscribers,   \* the handles that may be subscribed
  Capacity       \* slots of the ring, after tokio rounded the configured
                 \* number up to a power of two

\* broadcast::channel panics on a capacity of 0.
ASSUME CapacityAssumption == Capacity \in Nat \ {0}

VARIABLES
  log,         \* every message the channel accepted, in order
  next,        \* [Subscribers -> Nat]: position each receiver reads next
  receivers    \* the live receivers

busVars == <<log, next, receivers>>

\* The oldest position the ring still holds.
Oldest == IF Len(log) > Capacity THEN Len(log) - Capacity + 1 ELSE 1

Unread(s) == next[s] <= Len(log)
Lagged(s) == next[s] < Oldest

BusInit ==
  /\ log = << >>
  /\ next = [s \in Subscribers |-> 1]
  /\ receivers = {}

\* MessageBus::publish.  With no receiver the send fails and the message is
\* gone; the caller only learns of the error.
Publish(m) ==
  /\ log' = IF receivers = {} THEN log ELSE Append(log, m)
  /\ UNCHANGED <<next, receivers>>

\* Mutant: a new receiver replays what the ring still holds.
SubscribeReplaying(s) ==
  /\ s \notin receivers
  /\ receivers' = receivers \cup {s}
  /\ next' = [next EXCEPT ![s] = Oldest]
  /\ UNCHANGED log

\* Mutant: off by one, past the slot the next message will take.
SubscribePastEnd(s) ==
  /\ s \notin receivers
  /\ receivers' = receivers \cup {s}
  /\ next' = [next EXCEPT ![s] = Len(log) + 2]
  /\ UNCHANGED log

\* MessageBus::subscribe: a new receiver starts behind the newest message.
Subscribe(s) ==
  /\ s \notin receivers
  /\ receivers' = receivers \cup {s}
  /\ next' = [next EXCEPT ![s] = Len(log) + 1]
  /\ UNCHANGED log

\* Dropping a BusSubscriber.
Unsubscribe(s) ==
  /\ receivers' = receivers \ {s}
  /\ UNCHANGED <<log, next>>

\* Mutant: the receiver drops what has piled up behind the message it returns.
RecvOkSkipping(s) ==
  /\ s \in receivers
  /\ Unread(s)
  /\ ~Lagged(s)
  /\ next' = [next EXCEPT ![s] = Len(log) + 1]
  /\ UNCHANGED <<log, receivers>>

\* BusSubscriber::recv, the arm that returns a message: log[next[s]].
RecvOk(s) ==
  /\ s \in receivers
  /\ Unread(s)
  /\ ~Lagged(s)
  /\ next' = [next EXCEPT ![s] = @ + 1]
  /\ UNCHANGED <<log, receivers>>

\* Mutant: a lagged receiver resubscribes, and so skips what is still there.
RecvLaggedToEnd(s) ==
  /\ s \in receivers
  /\ Lagged(s)
  /\ next' = [next EXCEPT ![s] = Len(log) + 1]
  /\ UNCHANGED <<log, receivers>>

\* BusSubscriber::recv, the Lagged arm: the channel has moved the receiver to
\* the oldest message it holds, and the loop goes round.
RecvLagged(s) ==
  /\ s \in receivers
  /\ Lagged(s)
  /\ next' = [next EXCEPT ![s] = Oldest]
  /\ UNCHANGED <<log, receivers>>

=============================================================================
