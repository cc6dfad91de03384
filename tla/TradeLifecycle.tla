---------------------------- MODULE TradeLifecycle ----------------------------
(***************************************************************************)
(* What the pipeline promises about each trade, without agents, messages   *)
(* or queues: a trade is approved within the limit; it may be begun, with  *)
(* a nonce of its own, in the order of approval and one at a time, or be   *)
(* passed over for good; one that is begun is answered, truthfully, and    *)
(* reported, both once.                                                    *)
(***************************************************************************)
EXTENDS Naturals

CONSTANTS
  MaxPosition,   \* what all trades together may come to
  DryRun,        \* nothing is to be sent
  HasNetwork     \* what is sent goes to the network, and not to the log

VARIABLES
  book,        \* [the trades approved, by the order of approval -> Entry]
  committed,   \* what they come to
  nonce        \* the next nonce

vars == <<book, committed, nonce>>

\* reached: the nonces it is at the network with; outcomes: what it was answered.
\* Neither ever has two elements.
Entry ==
  [amount : Nat, begun : BOOLEAN, reached : SUBSET Nat,
   outcomes : SUBSET {"Success", "Failed", "DryRun"}, reported : BOOLEAN]

Fresh(amount) ==
  [amount |-> amount, begun |-> FALSE, reached |-> {}, outcomes |-> {},
   reported |-> FALSE]

Underway(t) == book[t].begun /\ ~book[t].reported

Init ==
  /\ book = [t \in {} |-> Fresh(0)]
  /\ committed = 0
  /\ nonce = 0

Approve(t, amount) ==
  /\ \A u \in DOMAIN book : u < t
  /\ amount > 0
  /\ committed + amount <= MaxPosition
  /\ committed' = committed + amount
  /\ book' = [u \in DOMAIN book \cup {t} |->
                IF u = t THEN Fresh(amount) ELSE book[u]]
  /\ UNCHANGED nonce

\* Trades before t that have not been begun never will be.
Begin(t) ==
  /\ \A u \in DOMAIN book : ~Underway(u) /\ (u >= t => ~book[u].begun)
  /\ book' = [book EXCEPT ![t].begun = TRUE]
  /\ nonce' = nonce + 1
  /\ UNCHANGED committed

\* What an answer may say of a trade, and of whether the network has it.
Truthful(outcome, reached) ==
  /\ outcome = "Success" => ~DryRun /\ (HasNetwork => reached)
  /\ outcome = "DryRun" => DryRun
  /\ reached => HasNetwork /\ ~DryRun

\* One trade is underway at a time, so the last nonce handed out is its own.
Answer(t, outcome, reached) ==
  /\ Underway(t) /\ book[t].outcomes = {}
  /\ Truthful(outcome, reached)
  /\ book' = [book EXCEPT ![t].outcomes = {outcome},
                         ![t].reached = IF reached THEN {nonce - 1} ELSE {}]
  /\ UNCHANGED <<committed, nonce>>

Report(t) ==
  /\ Underway(t) /\ book[t].outcomes # {}
  /\ book' = [book EXCEPT ![t].reported = TRUE]
  /\ UNCHANGED <<committed, nonce>>

Next ==
  \/ \E t \in DOMAIN book' \ DOMAIN book : Approve(t, book'[t].amount)
  \/ \E t \in DOMAIN book :
       \/ Begin(t)
       \/ \E outcome \in {"Success", "Failed", "DryRun"}, reached \in BOOLEAN :
            Answer(t, outcome, reached)
       \/ Report(t)

Spec == Init /\ [][Next]_vars

=============================================================================
