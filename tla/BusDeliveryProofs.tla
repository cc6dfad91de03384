-------------------------- MODULE BusDeliveryProofs --------------------------
(***************************************************************************)
(* Proofs about BusDelivery: what a subscriber may count on, and that the  *)
(* ring with its read positions implements the queues of LossyQueues.      *)
(***************************************************************************)
EXTENDS BusDelivery, SequenceTheorems, TLAPS

\* A read position never lies before the start of its subscription.
SinceBehind == \A s \in Subscribers : since[s] <= next[s]

IInv ==
  /\ TypeOK
  /\ SinceBehind
  /\ InOrderFromSubscription
  /\ OnlyOverwrittenAreMissed
  /\ ClosedMeansDrained

\* The arithmetic of the ring, and the elements of the sequences it is about.
LEMMA RingFacts ==
  ASSUME TypeOK
  PROVE  /\ Len(log) \in Nat /\ Capacity \in Nat \ {0}
         /\ Oldest \in 1 .. Len(log) + 1
         /\ \A p \in Nat \ {0} : p < Oldest => p + Capacity <= Len(log)
         /\ \A s \in Subscribers :
              /\ next[s] \in 1 .. Len(log) + 1
              /\ since[s] \in 1 .. Len(log) + 1
              /\ got[s] \in Seq(1 .. Len(log))
              /\ Len(got[s]) \in Nat
              /\ DOMAIN got[s] = 1 .. Len(got[s])
              /\ \A i \in DOMAIN got[s] : got[s][i] \in 1 .. Len(log)
<1>1. Len(log) \in Nat /\ Capacity \in Nat \ {0}
  BY LenProperties, CapacityAssumption DEF TypeOK
<1>2. /\ Oldest \in 1 .. Len(log) + 1
      /\ \A p \in Nat \ {0} : p < Oldest => p + Capacity <= Len(log)
  BY <1>1 DEF Oldest
<1>3. ASSUME NEW s \in Subscribers
      PROVE  /\ next[s] \in 1 .. Len(log) + 1
             /\ since[s] \in 1 .. Len(log) + 1
             /\ got[s] \in Seq(1 .. Len(log))
             /\ Len(got[s]) \in Nat
             /\ DOMAIN got[s] = 1 .. Len(got[s])
             /\ \A i \in DOMAIN got[s] : got[s][i] \in 1 .. Len(log)
  <2>1. got[s] \in Seq(1 .. Len(log))
    BY DEF TypeOK
  <2> QED
    BY <2>1, LenProperties DEF TypeOK
<1> QED
  BY <1>1, <1>2, <1>3

\* What is received is added to what was got before.
LEMMA ReceiveFacts ==
  ASSUME TypeOK, NEW s \in Subscribers, Receive(s)
  PROVE  /\ next[s] \in 1 .. Len(log) /\ s \in receivers
         /\ next'[s] = next[s] + 1 /\ Oldest <= next[s]
         /\ got'[s] = Append(got[s], next[s])
         /\ got'[s] \in Seq(1 .. Len(log))
         /\ Len(got'[s]) = Len(got[s]) + 1
         /\ DOMAIN got'[s] = 1 .. Len(got[s]) + 1
         /\ got'[s][Len(got[s]) + 1] = next[s]
         /\ \A i \in 1 .. Len(got[s]) : got'[s][i] = got[s][i]
         /\ \A r \in Subscribers \ {s} :
              next'[r] = next[r] /\ got'[r] = got[r]
<1>1. /\ s \in receivers /\ next[s] \in 1 .. Len(log)
      /\ next'[s] = next[s] + 1 /\ Oldest <= next[s]
  BY RingFacts DEF Receive, RecvOk, Unread, Lagged, TypeOK
<1>2. got'[s] = Append(got[s], next[s])
  BY DEF Receive, TypeOK
<1>3. got[s] \in Seq(1 .. Len(log))
  BY RingFacts
<1>4. /\ got'[s] \in Seq(1 .. Len(log))
      /\ Len(got'[s]) = Len(got[s]) + 1
      /\ got'[s][Len(got[s]) + 1] = next[s]
      /\ \A i \in 1 .. Len(got[s]) : got'[s][i] = got[s][i]
  BY <1>1, <1>2, <1>3, AppendProperties
<1>5. DOMAIN got'[s] = 1 .. Len(got[s]) + 1
  BY <1>4, LenProperties
<1>6. \A r \in Subscribers \ {s} : next'[r] = next[r] /\ got'[r] = got[r]
  BY DEF Receive, RecvOk, TypeOK
<1> QED
  BY <1>1, <1>2, <1>4, <1>5, <1>6

\* Every step keeps the types; positions are typed by a log that grows.
LEMMA TypeStep == TypeOK /\ [Next]_vars => TypeOK'
<1> SUFFICES ASSUME TypeOK, [Next]_vars PROVE TypeOK'
  OBVIOUS
<1> USE RingFacts DEF TypeOK, busVars
<1>1. CASE \E p \in Publishers : Send(p)
  <2> PICK p \in Publishers : Send(p)
    BY <1>1
  <2>1. log' \in Seq(Publishers) /\ Len(log) <= Len(log') /\ Len(log') \in Nat
    BY AppendProperties DEF Send, Publish
  <2>2. /\ 1 .. Len(log) \subseteq 1 .. Len(log')
        /\ 1 .. Len(log) + 1 \subseteq 1 .. Len(log') + 1
    BY <2>1
  <2>3. UNCHANGED <<next, receivers, senders, closed, since, got>>
    BY DEF Send, Publish
  <2>4. \A s \in Subscribers : got[s] \in Seq(1 .. Len(log'))
    BY <2>2, SeqMonotonic
  <2> QED
    BY <2>1, <2>2, <2>3, <2>4
<1>2. ASSUME NEW p \in Publishers, DropClone(p) PROVE TypeOK'
  BY <1>2 DEF DropClone
<1>3. ASSUME NEW s \in Subscribers, Join(s) PROVE TypeOK'
  <2>1. got' \in [Subscribers -> Seq(1 .. Len(log))]
    BY <1>3, EmptySeq DEF Join
  <2> QED
    BY <1>3, <2>1 DEF Join, Subscribe
<1>4. ASSUME NEW s \in Subscribers, Leave(s) \/ ReceiveClosed(s) PROVE TypeOK'
  BY <1>4 DEF Leave, ReceiveClosed, Unsubscribe
<1>5. ASSUME NEW s \in Subscribers, Receive(s) PROVE TypeOK'
  <2>1. got' \in [Subscribers -> Seq(1 .. Len(log))]
    BY <1>5, ReceiveFacts DEF Receive
  <2>2. next' \in [Subscribers -> 1 .. Len(log) + 1]
    <3>1. next[s] + 1 \in 1 .. Len(log) + 1
      BY <1>5, ReceiveFacts
    <3> QED
      BY <1>5, <3>1 DEF Receive, RecvOk
  <2> QED
    BY <1>5, <2>1, <2>2 DEF Receive, RecvOk
<1>6. ASSUME NEW s \in Subscribers, SkipMissed(s) PROVE TypeOK'
  BY <1>6 DEF SkipMissed, RecvLagged
<1>7. CASE UNCHANGED vars
  BY <1>7 DEF vars
<1> QED
  BY <1>1, <1>2, <1>3, <1>4, <1>5, <1>6, <1>7 DEF Next

\* What is missed of a subscription: what recv neither returned nor will.
MissedIsOverwritten(s) ==
  \A p \in since[s] .. next[s] - 1 :
    p \in Range(got[s]) \/ p + Capacity <= Len(log)

\* One subscriber's share of the invariant.
Served(s) ==
  /\ since[s] <= next[s]
  /\ \A i \in DOMAIN got[s] :
       /\ since[s] <= got[s][i] /\ got[s][i] < next[s]
       /\ i > 1 => got[s][i-1] < got[s][i]
  /\ MissedIsOverwritten(s)

\* The invariant is the share of every subscriber, and the end of the stream.
LEMMA ServedFacts ==
  IInv <=> TypeOK /\ (\A s \in Subscribers : Served(s)) /\ ClosedMeansDrained
BY DEF IInv, SinceBehind, InOrderFromSubscription, OnlyOverwrittenAreMissed,
       Served, MissedIsOverwritten

\* A subscriber keeps its share while the log grows around it.
LEMMA ServedStays ==
  ASSUME TypeOK, TypeOK', NEW s \in Subscribers, Served(s),
         Len(log) <= Len(log'),
         next'[s] = next[s], since'[s] = since[s], got'[s] = got[s]
  PROVE  Served(s)'
<1>1. Len(log) \in Nat /\ Len(log') \in Nat /\ Capacity \in Nat
  BY LenProperties, CapacityAssumption DEF TypeOK
<1>2. MissedIsOverwritten(s)'
  <2>1. ASSUME NEW p \in since[s] .. next[s] - 1, p + Capacity <= Len(log)
        PROVE  p + Capacity <= Len(log')
    BY <1>1, <2>1, RingFacts
  <2> QED
    BY <2>1 DEF Served, MissedIsOverwritten
<1> QED
  BY <1>2 DEF Served

\* A message that recv returns is the next one in order, and is not missed.
LEMMA ServedReceive ==
  ASSUME TypeOK, NEW s \in Subscribers, Served(s), Receive(s)
  PROVE  Served(s)'
<1>1. UNCHANGED <<log, since>>
  BY DEF Receive, RecvOk
<1>2. /\ next[s] \in Nat /\ since[s] \in Nat /\ Len(got[s]) \in Nat
      /\ DOMAIN got[s] = 1 .. Len(got[s])
      /\ \A i \in 1 .. Len(got[s]) : got[s][i] \in Nat
  BY RingFacts
<1>3. since'[s] <= next'[s]
  BY <1>1, <1>2, ReceiveFacts DEF Served
<1>4. ASSUME NEW i \in DOMAIN got'[s]
      PROVE  /\ since[s] <= got'[s][i] /\ got'[s][i] < next'[s]
             /\ i > 1 => got'[s][i-1] < got'[s][i]
  <2>1. i \in 1 .. Len(got[s]) \/ i = Len(got[s]) + 1
    <3>1. i \in 1 .. Len(got[s]) + 1
      BY <1>4, ReceiveFacts
    <3> QED
      BY <1>2, <3>1
  <2>2. CASE i \in 1 .. Len(got[s])
    <3>1. i > 1 => i - 1 \in 1 .. Len(got[s])
      BY <1>2, <2>2
    <3>2. got'[s][i] = got[s][i] /\ (i > 1 => got'[s][i-1] = got[s][i-1])
      BY <2>2, <3>1, ReceiveFacts
    <3>3. /\ since[s] <= got[s][i] /\ got[s][i] < next[s]
          /\ i > 1 => got[s][i-1] < got[s][i]
      BY <1>2, <2>2 DEF Served
    <3>4. next'[s] = next[s] + 1
      BY ReceiveFacts
    <3> QED
      BY <1>2, <2>2, <3>2, <3>3, <3>4
  <2>3. CASE i = Len(got[s]) + 1
    <3>1. got'[s][i] = next[s] /\ next'[s] = next[s] + 1
      BY <2>3, ReceiveFacts
    <3>2. i > 1 => got'[s][i-1] < next[s]
      <4>1. i > 1 => i - 1 \in 1 .. Len(got[s])
        BY <1>2, <2>3
      <4> QED
        BY <1>2, <4>1, ReceiveFacts DEF Served
    <3> QED
      BY <1>2, <3>1, <3>2 DEF Served
  <2> QED
    BY <2>1, <2>2, <2>3
<1>5. ASSUME NEW p \in since[s] .. next'[s] - 1
      PROVE  p \in Range(got'[s]) \/ p + Capacity <= Len(log)
  <2>1. Range(got[s]) \subseteq Range(got'[s]) /\ next[s] \in Range(got'[s])
    <3>1. \A i \in DOMAIN got[s] :
            i \in DOMAIN got'[s] /\ got'[s][i] = got[s][i]
      <4>1. /\ DOMAIN got'[s] = 1 .. Len(got[s]) + 1
            /\ \A i \in 1 .. Len(got[s]) : got'[s][i] = got[s][i]
        BY ReceiveFacts
      <4> QED
        BY <1>2, <4>1
    <3>2. Len(got[s]) + 1 \in DOMAIN got'[s]
      BY <1>2, ReceiveFacts
    <3> QED
      BY <3>1, <3>2, ReceiveFacts DEF Range
  <2>2. p \in since[s] .. next[s] - 1 \/ p = next[s]
    BY <1>2, <1>5, ReceiveFacts
  <2> QED
    BY <2>1, <2>2 DEF Served, MissedIsOverwritten
<1> QED
  BY <1>1, <1>3, <1>4, <1>5 DEF Served, MissedIsOverwritten

\* The Lagged arm steps over overwritten messages and no others.
LEMMA ServedLagged ==
  ASSUME TypeOK, NEW s \in Subscribers, Served(s), SkipMissed(s)
  PROVE  Served(s)'
<1>1. UNCHANGED <<log, since, got>> /\ next'[s] = Oldest /\ next[s] < Oldest
  BY DEF SkipMissed, RecvLagged, Lagged, TypeOK
<1>2. /\ next[s] \in Nat /\ since[s] \in Nat \ {0} /\ Oldest \in Nat
      /\ \A i \in DOMAIN got[s] : got[s][i] \in Nat
      /\ \A p \in Nat \ {0} : p < Oldest => p + Capacity <= Len(log)
  BY RingFacts
<1>3. MissedIsOverwritten(s)'
  BY <1>1, <1>2 DEF MissedIsOverwritten
<1>4. since'[s] <= next'[s]
  BY <1>1, <1>2 DEF Served
<1>5. \A i \in DOMAIN got'[s] :
        /\ since'[s] <= got'[s][i] /\ got'[s][i] < next'[s]
        /\ i > 1 => got'[s][i-1] < got'[s][i]
  <2>1. \A i \in DOMAIN got[s] :
          /\ since[s] <= got[s][i] /\ got[s][i] < next[s]
          /\ i > 1 => got[s][i-1] < got[s][i]
    BY DEF Served
  <2>2. \A n \in Nat : n < next[s] => n < next'[s]
    BY <1>1, <1>2
  <2>3. got' = got /\ since' = since
    BY <1>1
  <2> QED
    BY <1>2, <2>1, <2>2, <2>3
<1> QED
  BY <1>3, <1>4, <1>5 DEF Served

\* A subscription starts with nothing got and nothing missed.
LEMMA ServedJoin ==
  ASSUME TypeOK, NEW s \in Subscribers, Join(s)
  PROVE  Served(s)'
<1>1. next'[s] = Len(log) + 1 /\ since'[s] = Len(log) + 1 /\ got'[s] = << >>
  BY DEF Join, Subscribe, TypeOK
<1>2. DOMAIN got'[s] = {} /\ since'[s] .. next'[s] - 1 = {}
  BY <1>1, RingFacts
<1> QED
  BY <1>1, <1>2, RingFacts DEF Served, MissedIsOverwritten

\* Every step keeps every subscriber's share.
LEMMA ServedStep ==
  ASSUME TypeOK, TypeOK', [Next]_vars, NEW s \in Subscribers, Served(s)
  PROVE  Served(s)'
<1>1. Len(log) \in Nat
  BY RingFacts
<1>2. ASSUME NEW p \in Publishers, Send(p) PROVE Served(s)'
  <2>1. Len(log) <= Len(log')
    BY <1>1, <1>2, AppendProperties DEF Send, Publish, TypeOK
  <2> QED
    BY <1>2, <2>1, ServedStays DEF Send, Publish
<1>3. ASSUME NEW r \in Subscribers, r # s,
             Join(r) \/ Receive(r) \/ SkipMissed(r)
      PROVE  Served(s)'
  <2>1. /\ UNCHANGED log /\ next'[s] = next[s] /\ since'[s] = since[s]
        /\ got'[s] = got[s]
    BY <1>3 DEF Join, Subscribe, Receive, RecvOk, SkipMissed, RecvLagged, TypeOK
  <2> QED
    BY <1>1, <2>1, ServedStays
<1>4. CASE Join(s) \/ Receive(s) \/ SkipMissed(s)
  BY <1>4, ServedJoin, ServedReceive, ServedLagged
<1>5. ASSUME UNCHANGED <<log, next, since, got>> PROVE Served(s)'
  BY <1>1, <1>5, ServedStays
<1>6. ASSUME NEW r \in Subscribers, Leave(r) \/ ReceiveClosed(r)
      PROVE  UNCHANGED <<log, next, since, got>>
  BY <1>6 DEF Leave, ReceiveClosed, Unsubscribe
<1> QED
  BY <1>2, <1>3, <1>4, <1>5, <1>6 DEF Next, DropClone, vars

\* Once a subscriber has seen the end, no clone is left to publish and nothing
\* is left to read.
LEMMA ClosedStep ==
  TypeOK /\ ClosedMeansDrained /\ [Next]_vars => ClosedMeansDrained'
<1> SUFFICES ASSUME TypeOK, ClosedMeansDrained, [Next]_vars, NEW s \in closed'
             PROVE  senders' = {} /\ next'[s] = Len(log') + 1
  BY DEF ClosedMeansDrained
<1>1. s \in closed => senders = {} /\ next[s] = Len(log) + 1 /\ s \in Subscribers
  BY DEF ClosedMeansDrained, TypeOK
<1>2. ASSUME NEW p \in Publishers, Send(p) \/ DropClone(p)
      PROVE  senders' = {} /\ next'[s] = Len(log') + 1
  BY <1>1, <1>2 DEF Send, DropClone
<1>3. ASSUME NEW r \in Subscribers, Join(r)
      PROVE  senders' = {} /\ next'[s] = Len(log') + 1
  BY <1>1, <1>3 DEF Join
<1>4. ASSUME NEW r \in Subscribers, Leave(r)
      PROVE  senders' = {} /\ next'[s] = Len(log') + 1
  BY <1>1, <1>4 DEF Leave, Unsubscribe
<1>5. ASSUME NEW r \in Subscribers, Receive(r) \/ SkipMissed(r)
      PROVE  senders' = {} /\ next'[s] = Len(log') + 1
  <2>1. r # s
    BY <1>1, <1>5, RingFacts
       DEF Receive, RecvOk, Unread, SkipMissed, RecvLagged, Lagged
  <2> QED
    BY <1>1, <1>5, <2>1
       DEF Receive, RecvOk, SkipMissed, RecvLagged, TypeOK
<1>6. ASSUME NEW r \in Subscribers, ReceiveClosed(r)
      PROVE  senders' = {} /\ next'[s] = Len(log') + 1
  BY <1>1, <1>6, RingFacts DEF ReceiveClosed, Unsubscribe, Unread
<1>7. CASE UNCHANGED vars
  BY <1>1, <1>7 DEF vars
<1> QED
  BY <1>2, <1>3, <1>4, <1>5, <1>6, <1>7 DEF Next

\* IInv holds of every reachable state.
LEMMA Inductive == Spec => []IInv
<1>1. Init => IInv
  <2> SUFFICES ASSUME Init PROVE IInv
    OBVIOUS
  <2>1. log = << >> /\ Len(log) = 0
    BY EmptySeq DEF Init, BusInit
  <2>2. TypeOK
    BY <2>1, EmptySeq DEF Init, BusInit, TypeOK
  <2>3. \A s \in Subscribers : next[s] = 1 /\ since[s] = 1 /\ got[s] = << >>
    BY DEF Init, BusInit
  <2>4. ASSUME NEW s \in Subscribers PROVE Served(s)
    <3>1. DOMAIN got[s] = {} /\ since[s] .. next[s] - 1 = {}
      BY <2>3
    <3> QED
      BY <2>3, <3>1 DEF Served, MissedIsOverwritten
  <2>5. ClosedMeansDrained
    BY DEF Init, ClosedMeansDrained
  <2> QED
    BY <2>2, <2>4, <2>5, ServedFacts
<1>2. IInv /\ [Next]_vars => IInv'
  <2> SUFFICES ASSUME IInv, [Next]_vars PROVE IInv'
    OBVIOUS
  <2>1. TypeOK' /\ ClosedMeansDrained'
    BY TypeStep, ClosedStep DEF IInv
  <2>2. \A s \in Subscribers : Served(s)'
    BY <2>1, ServedFacts, ServedStep DEF IInv
  <2>3. SinceBehind' /\ InOrderFromSubscription' /\ OnlyOverwrittenAreMissed'
    BY <2>2 DEF Served, MissedIsOverwritten, SinceBehind,
                InOrderFromSubscription, OnlyOverwrittenAreMissed
  <2> QED
    BY <2>1, <2>3 DEF IInv
<1> QED
  BY <1>1, <1>2, PTL DEF Spec

\* The bus keeps its types: a read position is at most one past the log.
THEOREM TypeCorrect == Spec => []TypeOK
<1>1. IInv => TypeOK
  BY DEF IInv
<1> QED
  BY <1>1, Inductive, PTL

\* recv returns positions in publication order, none twice and none from
\* before the subscription, however subscribers come, go and lag.
THEOREM DeliveryInOrder == Spec => []InOrderFromSubscription
<1>1. IInv => InOrderFromSubscription
  BY DEF IInv
<1> QED
  BY <1>1, Inductive, PTL

\* recv steps over a message only once Capacity newer ones have taken its slot.
THEOREM NothingElseMissed == Spec => []OnlyOverwrittenAreMissed
<1>1. IInv => OnlyOverwrittenAreMissed
  BY DEF IInv
<1> QED
  BY <1>1, Inductive, PTL

\* A subscriber told ChannelClosed is past everything ever published, and
\* nobody is left to publish more.
THEOREM ClosedIsTheEnd == Spec => []ClosedMeansDrained
<1>1. IInv => ClosedMeansDrained
  BY DEF IInv
<1> QED
  BY <1>1, Inductive, PTL

-----------------------------------------------------------------------------
\* The queues of LossyQueues, read off the log.

\* What is pending at position n of a log q.
Rest(q, n) == SubSeq(q, n, Len(q))

\* The rest of a log is a sequence of its messages, from position n on.
LEMMA RestFacts ==
  ASSUME NEW S, NEW q \in Seq(S), NEW n \in 1 .. Len(q) + 1
  PROVE  /\ Rest(q, n) \in Seq(S)
         /\ Len(Rest(q, n)) = Len(q) - n + 1
         /\ \A i \in 1 .. Len(q) - n + 1 : Rest(q, n)[i] = q[n + i - 1]
<1>1. Len(q) \in Nat /\ \A i \in n .. Len(q) : q[i] \in S
  BY ElementOfSeq, LenProperties
<1>2. /\ SubSeq(q, n, Len(q)) \in Seq(S)
      /\ Len(SubSeq(q, n, Len(q))) = IF n <= Len(q) THEN Len(q) - n + 1 ELSE 0
      /\ \A i \in 1 .. Len(q) - n + 1 : SubSeq(q, n, Len(q))[i] = q[n + i - 1]
  <2>1. n \in Int /\ Len(q) \in Int
    BY <1>1
  <2> QED
    BY <1>1, <2>1, SubSeqProperties
<1> QED
  BY <1>1, <1>2 DEF Rest

\* Nothing is pending at the end of the log.
LEMMA RestEmpty ==
  ASSUME NEW S, NEW q \in Seq(S)
  PROVE  Rest(q, Len(q) + 1) = << >>
BY LenProperties, SubSeqEmpty DEF Rest

\* A message appended to the log is appended to what is pending.
LEMMA RestAppend ==
  ASSUME NEW S, NEW q \in Seq(S), NEW m \in S, NEW n \in 1 .. Len(q) + 1
  PROVE  Rest(Append(q, m), n) = Append(Rest(q, n), m)
<1> DEFINE a == Append(q, m)
           r == Rest(q, n)
<1>1. /\ a \in Seq(S) /\ Len(q) \in Nat /\ Len(a) = Len(q) + 1
      /\ a[Len(q) + 1] = m /\ \A i \in 1 .. Len(q) : a[i] = q[i]
  BY AppendProperties, LenProperties
<1>2. /\ Rest(a, n) \in Seq(S) /\ Len(Rest(a, n)) = Len(q) - n + 2
      /\ \A i \in 1 .. Len(q) - n + 2 : Rest(a, n)[i] = a[n + i - 1]
  <2>1. n \in 1 .. Len(a) + 1 /\ Len(a) - n + 1 = Len(q) - n + 2
    BY <1>1
  <2> HIDE DEF a
  <2> QED
    BY <1>1, <2>1, RestFacts
<1>3. /\ r \in Seq(S) /\ Len(r) = Len(q) - n + 1
      /\ \A i \in 1 .. Len(q) - n + 1 : r[i] = q[n + i - 1]
  BY RestFacts
<1>4. /\ Append(r, m) \in Seq(S) /\ Len(Append(r, m)) = Len(q) - n + 2
      /\ Append(r, m)[Len(q) - n + 2] = m
      /\ \A i \in 1 .. Len(q) - n + 1 : Append(r, m)[i] = r[i]
  <2> HIDE DEF r
  <2>1. /\ Append(r, m) \in Seq(S) /\ Len(Append(r, m)) = Len(r) + 1
        /\ Append(r, m)[Len(r) + 1] = m
        /\ \A i \in 1 .. Len(r) : Append(r, m)[i] = r[i]
    <3>1. r \in Seq(S)
      BY <1>3
    <3> QED
      BY <3>1, AppendProperties
  <2>2. Len(r) + 1 = Len(q) - n + 2
    BY <1>1, <1>3
  <2> QED
    BY <1>3, <2>1, <2>2
<1>5. ASSUME NEW i \in 1 .. Len(q) - n + 2
      PROVE  Rest(a, n)[i] = Append(r, m)[i]
  <2>1. CASE i = Len(q) - n + 2
    <3>1. n + i - 1 = Len(q) + 1
      BY <1>1, <2>1
    <3> QED
      BY <1>1, <1>2, <1>4, <2>1, <3>1
  <2>2. CASE i # Len(q) - n + 2
    <3>1. i \in 1 .. Len(q) - n + 1 /\ n + i - 1 \in 1 .. Len(q)
      BY <1>1, <2>2
    <3> QED
      BY <1>1, <1>2, <1>3, <1>4, <3>1
  <2> QED
    BY <2>1, <2>2
<1> HIDE DEF a, r
<1>6. Rest(a, n) = Append(r, m)
  BY <1>2, <1>4, <1>5, SeqEqual
<1> QED
  BY <1>6 DEF a, r

\* Reading one message takes the front of what is pending.
LEMMA RestTail ==
  ASSUME NEW S, NEW q \in Seq(S), NEW n \in 1 .. Len(q)
  PROVE  Tail(Rest(q, n)) = Rest(q, n + 1)
<1>1. Len(q) \in Nat /\ Len(q) \in n .. Len(q)
  BY LenProperties
<1> QED
  BY <1>1, HeadTailOfSubSeq DEF Rest

\* What is left of an overfull queue is its end, and so the end of the log.
LEMMA RestOverflow ==
  ASSUME NEW S, NEW q \in Seq(S), NEW n \in 1 .. Len(q),
         NEW k \in n .. Len(q)
  PROVE  SubSeq(Rest(q, n), k - n + 1, Len(Rest(q, n))) = Rest(q, k)
<1>1. Len(q) \in Nat /\ Len(q) \in 1 .. Len(q)
  BY LenProperties
<1>2. Len(Rest(q, n)) = Len(q) - n + 1
  BY <1>1, RestFacts
<1>3. k - n + 1 \in 1 .. Len(q) - n + 1 /\ Len(q) - n + 1 \in 1 .. Len(q) - n + 1
  BY <1>1
<1>4. SubSeq(SubSeq(q, n, Len(q)), k - n + 1, Len(q) - n + 1)
        = SubSeq(q, n + (k - n + 1) - 1, n + (Len(q) - n + 1) - 1)
  BY <1>1, <1>3, SubSeqOfSubSeq
<1>5. n + (k - n + 1) - 1 = k /\ n + (Len(q) - n + 1) - 1 = Len(q)
  BY <1>1
<1> QED
  BY <1>2, <1>4, <1>5 DEF Rest

Pending == [s \in Subscribers |-> PendingOf(s)]

\* What is pending for each subscriber.
LEMMA PendingFacts ==
  ASSUME TypeOK, NEW s \in Subscribers
  PROVE  /\ s \in receivers =>
              /\ Pending[s] = Rest(log, next[s])
              /\ Pending[s] \in Seq(Publishers)
              /\ Len(Pending[s]) = Len(log) - next[s] + 1
         /\ s \notin receivers => Pending[s] = << >>
<1>1. /\ Rest(log, next[s]) \in Seq(Publishers)
      /\ Len(Rest(log, next[s])) = Len(log) - next[s] + 1
  BY RestFacts DEF TypeOK
<1> QED
  BY <1>1 DEF Pending, PendingOf, Rest

\* The queues of the other subscribers, when only one reads, comes or goes.
LEMMA OthersPending ==
  ASSUME NEW s \in Subscribers, UNCHANGED log,
         \A r \in Subscribers \ {s} :
           next'[r] = next[r] /\ (r \in receivers' <=> r \in receivers)
  PROVE  Pending' = [Pending EXCEPT ![s] = Pending'[s]]
BY DEF Pending, PendingOf

\* publish puts the message in every queue, or, with no receiver, in none.
LEMMA SendImplements ==
  ASSUME TypeOK, NEW p \in Publishers, Send(p)
  PROVE  Queues!Send(p) \/ UNCHANGED Queues!vars
<1>1. UNCHANGED <<next, receivers>>
  BY DEF Send, Publish
<1>2. CASE receivers = {}
  BY <1>1, <1>2 DEF Send, Publish, PendingOf, Queues!vars
<1>3. CASE receivers # {}
  <2>1. log' = Append(log, p)
    BY <1>3 DEF Send, Publish
  <2>2. ASSUME NEW s \in Subscribers, s \in receivers
        PROVE  Pending'[s] = Append(Pending[s], p)
    <3>1. Pending'[s] = Rest(log', next[s])
      BY <1>1, <2>2 DEF Pending, PendingOf, Rest
    <3>2. Pending[s] = Rest(log, next[s])
      BY <2>2, PendingFacts
    <3>3. next[s] \in 1 .. Len(log) + 1 /\ log \in Seq(Publishers)
      BY DEF TypeOK
    <3> QED
      BY <2>1, <3>1, <3>2, <3>3, RestAppend
  <2>3. ASSUME NEW s \in Subscribers, s \notin receivers
        PROVE  Pending'[s] = Pending[s]
    BY <1>1, <2>3 DEF Pending, PendingOf
  <2>4. Pending' = [s \in Subscribers |->
                      IF s \in receivers THEN Append(Pending[s], p)
                      ELSE Pending[s]]
    <3>1. Pending' = [s \in Subscribers |-> Pending'[s]]
      BY DEF Pending
    <3> QED
      BY <2>2, <2>3, <3>1
  <2> QED
    BY <1>1, <2>4 DEF Queues!Send, Pending
<1> QED
  BY <1>2, <1>3

\* subscribe attaches an empty queue.
LEMMA JoinImplements ==
  ASSUME TypeOK, NEW s \in Subscribers, Join(s)
  PROVE  Queues!Attach(s)
<1>1. /\ s \notin receivers /\ receivers' = receivers \cup {s}
      /\ UNCHANGED log /\ next'[s] = Len(log) + 1
      /\ \A r \in Subscribers \ {s} : next'[r] = next[r]
  BY DEF Join, Subscribe, TypeOK
<1>2. Pending'[s] = Rest(log, Len(log) + 1)
  BY <1>1 DEF Pending, PendingOf, Rest
<1>3. Pending'[s] = Pending[s]
  BY <1>1, <1>2, RestEmpty, PendingFacts DEF TypeOK
<1>4. Pending' = Pending
  <2>1. Pending' = [Pending EXCEPT ![s] = Pending'[s]]
    BY <1>1, OthersPending
  <2> QED
    BY <1>3, <2>1 DEF Pending
<1> QED
  BY <1>1, <1>4 DEF Queues!Attach, Pending

\* Dropping the receiver, by its owner or at the end of the stream, drops what
\* was pending.
LEMMA LeaveImplements ==
  ASSUME TypeOK, NEW s \in Subscribers, Leave(s) \/ ReceiveClosed(s)
  PROVE  Queues!Detach(s)
<1>1. s \in receivers /\ receivers' = receivers \ {s} /\ UNCHANGED <<log, next>>
  BY DEF Leave, ReceiveClosed, Unsubscribe
<1>2. Pending'[s] = << >>
  BY <1>1 DEF Pending, PendingOf
<1>3. Pending' = [Pending EXCEPT ![s] = << >>]
  BY <1>1, <1>2, OthersPending
<1> QED
  BY <1>1, <1>3 DEF Queues!Detach, Pending

\* recv returns the front of a queue that has not overflowed.
LEMMA ReceiveImplements ==
  ASSUME TypeOK, NEW s \in Subscribers, Receive(s)
  PROVE  Queues!Take(s)
<1>1. /\ s \in receivers /\ next[s] \in 1 .. Len(log) /\ Oldest <= next[s]
      /\ next'[s] = next[s] + 1
      /\ \A r \in Subscribers \ {s} : next'[r] = next[r]
  BY ReceiveFacts
<1>2. UNCHANGED <<log, receivers>>
  BY DEF Receive, RecvOk
<1>3. /\ Pending[s] = Rest(log, next[s]) /\ Pending[s] \in Seq(Publishers)
      /\ Len(Pending[s]) = Len(log) - next[s] + 1
  BY <1>1, PendingFacts
<1>4. Pending[s] # << >> /\ Len(Pending[s]) <= Capacity
  <2>1. Len(Pending[s]) <= Capacity
    BY <1>1, <1>3, RingFacts DEF Oldest
  <2>2. Len(Pending[s]) # 0
    BY <1>1, <1>3, RingFacts
  <2> QED
    BY <2>1, <2>2, EmptySeq
<1>5. Pending'[s] = Tail(Pending[s])
  <2>1. Pending'[s] = Rest(log, next[s] + 1)
    BY <1>1, <1>2 DEF Pending, PendingOf, Rest
  <2> QED
    BY <1>1, <1>3, <2>1, RestTail DEF TypeOK
<1>6. Pending' = [Pending EXCEPT ![s] = Tail(@)]
  BY <1>1, <1>2, <1>5, OthersPending
<1> QED
  BY <1>2, <1>4, <1>6 DEF Queues!Take, Pending

\* The Lagged arm cuts an overfull queue down to its newest Capacity messages.
LEMMA LaggedImplements ==
  ASSUME TypeOK, NEW s \in Subscribers, SkipMissed(s)
  PROVE  Queues!Overflow(s)
<1>1. /\ s \in receivers /\ next'[s] = Oldest /\ next[s] < Oldest
      /\ UNCHANGED <<log, receivers>>
      /\ \A r \in Subscribers \ {s} : next'[r] = next[r]
  BY DEF SkipMissed, RecvLagged, Lagged, TypeOK
<1>2. /\ next[s] \in 1 .. Len(log) /\ Oldest \in next[s] .. Len(log)
      /\ Oldest = Len(log) - Capacity + 1
  BY <1>1, RingFacts DEF Oldest
<1>3. /\ Pending[s] = Rest(log, next[s])
      /\ Len(Pending[s]) = Len(log) - next[s] + 1
  BY <1>1, PendingFacts
<1>4. Len(Pending[s]) > Capacity
  BY <1>1, <1>2, <1>3, RingFacts
<1>5. Oldest - next[s] + 1 = Len(Pending[s]) - Capacity + 1
  <2>1. Len(log) \in Nat /\ Capacity \in Nat
    BY RingFacts
  <2> QED
    BY <1>2, <1>3, <2>1
<1>6. Pending'[s] =
        SubSeq(Pending[s], Len(Pending[s]) - Capacity + 1, Len(Pending[s]))
  <2>1. Pending'[s] = Rest(log, Oldest)
    BY <1>1 DEF Pending, PendingOf, Rest
  <2>2. SubSeq(Rest(log, next[s]), Oldest - next[s] + 1,
               Len(Rest(log, next[s]))) = Rest(log, Oldest)
    BY <1>2, RestOverflow DEF TypeOK
  <2> QED
    BY <1>3, <1>5, <2>1, <2>2
<1>7. Pending' = [Pending EXCEPT
                    ![s] = SubSeq(@, Len(@) - Capacity + 1, Len(@))]
  BY <1>1, <1>6, OthersPending
<1> QED
  BY <1>1, <1>4, <1>7 DEF Queues!Overflow, Pending

\* Every step of the bus is a step of the queues or changes none of them.
LEMMA StepImplements ==
  ASSUME TypeOK, [Next]_vars PROVE [Queues!Next]_(Queues!vars)
<1>1. ASSUME NEW p \in Publishers, Send(p)
      PROVE  [Queues!Next]_(Queues!vars)
  BY <1>1, SendImplements DEF Queues!Next
<1>2. ASSUME NEW s \in Subscribers,
             Join(s) \/ Leave(s) \/ Receive(s) \/ SkipMissed(s)
               \/ ReceiveClosed(s)
      PROVE  Queues!Next
  BY <1>2, JoinImplements, LeaveImplements, ReceiveImplements, LaggedImplements
     DEF Queues!Next
<1>3. ASSUME UNCHANGED <<log, next, receivers>>
      PROVE  UNCHANGED Queues!vars
  BY <1>3 DEF Queues!vars, PendingOf
<1> QED
  BY <1>1, <1>2, <1>3 DEF Next, DropClone, vars

\* The ring and its read positions implement LossyQueues: every subscriber has
\* a queue of its own, for any number of clones, subscribers and slots.
THEOREM BusImplementsQueues == Spec => ImplementsQueues
<1>1. Init => Queues!Init
  BY DEF Init, BusInit, Queues!Init, PendingOf
<1>2. TypeOK /\ [Next]_vars => [Queues!Next]_(Queues!vars)
  BY StepImplements
<1> QED
  BY <1>1, <1>2, TypeCorrect, PTL DEF Spec, ImplementsQueues, Queues!Spec

=============================================================================
