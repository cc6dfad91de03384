----------------------------- MODULE BusDelivery -----------------------------
(***************************************************************************)
(* The message bus by itself (crates/messaging/src/bus.rs): any number of  *)
(* clones publish, subscribers come and go, and the channel closes when    *)
(* the last clone is dropped.  A message is named by its publisher; what   *)
(* tells two messages apart is their position in the log.                  *)
(***************************************************************************)
EXTENDS MessageBus, SequencesExt

CONSTANTS
  Publishers,     \* the clones of the MessageBus
  MaxMessages     \* bound on the length of the log

VARIABLES
  senders,    \* the clones not yet dropped
  closed,     \* subscribers whose last recv returned ChannelClosed
  since,      \* history: first position a receiver could be given
  got         \* history: [Subscribers -> Seq(Nat)], positions recv returned

vars == <<log, next, receivers, senders, closed, since, got>>

Init ==
  /\ BusInit
  /\ senders = Publishers
  /\ closed = {}
  /\ since = next
  /\ got = [s \in Subscribers |-> << >>]

Send(p) ==
  /\ p \in senders
  /\ Len(log) < MaxMessages
  /\ Publish(p)
  /\ UNCHANGED <<senders, closed, since, got>>

\* A clone is needed to subscribe.
Join(s) ==
  /\ senders # {}
  /\ Subscribe(s)
  /\ since' = [since EXCEPT ![s] = Len(log) + 1]
  /\ got' = [got EXCEPT ![s] = << >>]
  /\ UNCHANGED <<senders, closed>>

Leave(s) ==
  /\ s \in receivers
  /\ Unsubscribe(s)
  /\ UNCHANGED <<senders, closed, since, got>>

Receive(s) ==
  /\ RecvOk(s)
  /\ got' = [got EXCEPT ![s] = Append(@, next[s])]
  /\ UNCHANGED <<senders, closed, since>>

SkipMissed(s) ==
  /\ RecvLagged(s)
  /\ UNCHANGED <<senders, closed, since, got>>

\* Mutant: Closed is returned without looking for messages left in the ring.
ReceiveClosedEarly(s) ==
  /\ s \in receivers
  /\ senders = {}
  /\ closed' = closed \cup {s}
  /\ Unsubscribe(s)
  /\ UNCHANGED <<senders, since, got>>

\* Mutant: the Closed arm goes round the loop, as the Lagged arm does.
ReceiveClosedLoops(s) ==
  /\ s \in receivers
  /\ senders = {}
  /\ ~Unread(s)
  /\ closed' = closed \cup {s}
  /\ UNCHANGED <<busVars, senders, since, got>>

\* The last clone gone and nothing left to read: recv returns an error, and
\* every caller in the system leaves its loop, which drops the receiver.
ReceiveClosed(s) ==
  /\ s \in receivers
  /\ senders = {}
  /\ ~Unread(s)
  /\ closed' = closed \cup {s}
  /\ Unsubscribe(s)
  /\ UNCHANGED <<senders, since, got>>

DropClone(p) ==
  /\ p \in senders
  /\ senders' = senders \ {p}
  /\ UNCHANGED <<log, next, receivers, closed, since, got>>

Next ==
  \/ \E p \in Publishers : Send(p) \/ DropClone(p)
  \/ \E s \in Subscribers :
       Join(s) \/ Leave(s) \/ Receive(s) \/ SkipMissed(s) \/ ReceiveClosed(s)

\* A subscriber is a task that keeps calling recv; nothing makes a publisher
\* publish, or a clone be dropped.
Fairness ==
  \A s \in Subscribers :
    WF_vars(Receive(s) \/ SkipMissed(s) \/ ReceiveClosed(s))

Spec == Init /\ [][Next]_vars /\ Fairness

-----------------------------------------------------------------------------

TypeOK ==
  /\ log \in Seq(Publishers)
  /\ next \in [Subscribers -> 1 .. Len(log) + 1]
  /\ receivers \subseteq Subscribers
  /\ senders \subseteq Publishers
  /\ closed \subseteq Subscribers
  /\ since \in [Subscribers -> 1 .. Len(log) + 1]
  /\ got \in [Subscribers -> Seq(1 .. Len(log))]

\* A receiver is given positions in publication order, none twice, and none
\* from before it subscribed ("receives all future messages", bus.rs:40).
InOrderFromSubscription ==
  \A s \in Subscribers : \A i \in DOMAIN got[s] :
    /\ since[s] <= got[s][i]
    /\ got[s][i] < next[s]
    /\ i > 1 => got[s][i-1] < got[s][i]

\* The only messages recv ever steps over are those the ring had overwritten:
\* one that was missed is followed by at least Capacity newer ones.
OnlyOverwrittenAreMissed ==
  \A s \in Subscribers : \A p \in since[s] .. next[s] - 1 :
    p \in Range(got[s]) \/ p + Capacity <= Len(log)

\* ChannelClosed is the end of the stream and no earlier: a subscriber that
\* saw it has been past every message published before the last clone went.
ClosedMeansDrained ==
  \A s \in closed : senders = {} /\ next[s] = Len(log) + 1

\* A published message reaches every live receiver, unless newer ones push it
\* out of the ring first or the receiver is dropped.
Retained(s, p) == s \in receivers /\ since[s] <= p /\ p <= Len(log)
Delivered ==
  \A s \in Subscribers : \A p \in 1 .. MaxMessages :
    Retained(s, p) ~>
      p \in Range(got[s]) \/ p + Capacity <= Len(log) \/ s \notin receivers

\* When the last clone is dropped every receiver's loop comes to an end: this
\* is what an agent's "bus receive error" arm relies on.
ClosingEndsReceivers == senders = {} ~> receivers = {}

\* The bus implements the queues of LossyQueues.
PendingOf(s) == IF s \in receivers THEN SubSeq(log, next[s], Len(log)) ELSE << >>
Queues == INSTANCE LossyQueues
            WITH Messages <- Publishers,
                 pending <- [s \in Subscribers |-> PendingOf(s)],
                 attached <- receivers
ImplementsQueues == Queues!Spec

=============================================================================
