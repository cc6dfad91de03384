----------------------------- MODULE SharedState -----------------------------
(***************************************************************************)
(* The two objects the agents share with other code, and what a restart    *)
(* makes of them: the ExposureTracker of the risk agent, handed out by     *)
(* RiskAgent::tracker() (crates/risk-agent/src/state.rs), and the          *)
(* NonceManager behind an Arc (crates/execution-agent/src/nonce.rs).       *)
(*                                                                         *)
(* The risk agent decides in the steps in which it takes the tracker's     *)
(* locks; between them a monitor settles trades, records losses and starts *)
(* a new day.  The execution agent sends what was approved; a recovery     *)
(* task asks the chain for the account's nonce and hands the answer to     *)
(* NonceManager::sync some time later.  The process may stop at any point, *)
(* and main starts it again with an empty tracker and the nonce 0.         *)
(*                                                                         *)
(* The monitor and the recovery task are not in the repository: they call  *)
(* the operations it offers them, in any order a task could.               *)
(***************************************************************************)
EXTENDS RiskRules, Sequences, Functions

CONSTANTS
  Intents,     \* the intents that reach the risk agent
  Losses,      \* the losses the monitor records
  MaxTrades,   \* bound on the trades approved
  MaxLoss,     \* bound on the losses of a day
  MaxLives     \* bound on the starts of the process

ASSUME SharedAssumption ==
  /\ Intents \subseteq TradeIntent
  /\ Losses \subseteq Nat
  /\ MaxTrades \in Nat /\ MaxLoss \in Nat /\ MaxLives \in Nat \ {0}

VARIABLES
  life,         \* the starts of the process so far
  risk,         \* where the risk agent is
  intent,       \* the intent it decides
  exposure,     \* ExposureTracker.exposure_eth
  loss,         \* ExposureTracker.daily_loss_eth
  trades,       \* the trades published, in order
  lost,         \* history: the losses recorded since the day began
  barred,       \* history: the decision began with the limit exceeded
  execution,    \* where the execution agent is
  taken,        \* the last trade it took
  nonce,        \* NonceManager.nonce
  tx_nonce,     \* the nonce of the transaction it works on
  fetched,      \* the chain's answer on its way to sync, or NotFetched
  chain,        \* the account's nonce on the chain
  sent,         \* the nonces handed to the network, in order
  synced,       \* history: sync was called since the last start
  quiet,        \* history: nothing was under way since the chain was asked
  disciplined,  \* history: every nonce came from a synced manager, every sync
                \* from a quiet answer
  burned        \* history: a nonce was lost since the last sync

trackerVars == <<risk, intent, exposure, loss, trades, lost, barred>>
nonceVars == <<execution, taken, nonce, tx_nonce, fetched, chain, sent, synced,
               quiet, disciplined, burned>>
vars == <<life, trackerVars, nonceVars>>

NotFetched == -1

Trade == [amount : Nat, life : Nat, open : BOOLEAN]

Init ==
  /\ life = 1
  /\ risk = "recv"
  /\ intent = NoIntent
  /\ exposure = 0
  /\ loss = 0
  /\ trades = << >>
  /\ lost = 0
  /\ barred = FALSE
  /\ execution = "recv"
  /\ taken = 0
  /\ nonce = 0
  /\ tx_nonce = 0
  /\ fetched = NotFetched
  /\ chain = 0
  /\ sent = << >>
  /\ synced = TRUE
  /\ quiet = FALSE
  /\ disciplined = TRUE
  /\ burned = FALSE

-----------------------------------------------------------------------------
\* The risk agent, step by step.

\* Mutant: the trade is published before its exposure is added.
PublishFirst == [loss |-> "publish", publish |-> "add", add |-> "recv"]

Then == [loss |-> "add", add |-> "publish", publish |-> "recv"]

TakeIntent ==
  /\ risk = "recv"
  /\ Len(trades) < MaxTrades
  /\ intent' \in Intents
  /\ risk' = "exposure"
  /\ barred' = (lost > DailyLossLimit)
  /\ UNCHANGED <<life, exposure, loss, trades, lost, nonceVars>>

\* The rules up to the one that reads the exposure.
CheckExposure ==
  /\ risk = "exposure"
  /\ risk' = IF CheckSanity(intent) /\ CheckExposureLimit(intent, exposure)
             THEN "loss" ELSE "recv"
  /\ UNCHANGED <<life, intent, exposure, loss, trades, lost, barred, nonceVars>>

\* The rules up to the one that reads the loss.
CheckLoss ==
  /\ risk = "loss"
  /\ risk' = IF /\ CheckSlippage(intent) /\ CheckGasPrice(intent)
                /\ CheckDailyLossLimit(loss)
             THEN Then["loss"] ELSE "recv"
  /\ UNCHANGED <<life, intent, exposure, loss, trades, lost, barred, nonceVars>>

\* add_exposure; the score computed before it reads the exposure once more.
AddExposure ==
  /\ risk = "add"
  /\ exposure' = exposure + intent.amount
  /\ risk' = Then["add"]
  /\ UNCHANGED <<life, intent, loss, trades, lost, barred, nonceVars>>

PublishTrade ==
  /\ risk = "publish"
  /\ trades' = Append(trades, [amount |-> intent.amount, life |-> life,
                               open |-> TRUE])
  /\ risk' = Then["publish"]
  /\ UNCHANGED <<life, intent, exposure, loss, lost, barred, nonceVars>>

-----------------------------------------------------------------------------
\* The monitor.

\* remove_exposure, which stops at 0.
RemoveExposure(amount) ==
  exposure' = IF exposure >= amount THEN exposure - amount ELSE 0

\* It knows the trades it has seen on the bus of this process.
Settle(i) ==
  /\ trades[i].open
  /\ trades[i].life = life
  /\ trades' = [trades EXCEPT ![i].open = FALSE]
  /\ RemoveExposure(trades[i].amount)
  /\ UNCHANGED <<life, risk, intent, loss, lost, barred, nonceVars>>

\* Mutant: the loss replaces the day's.
LossAlone(amount) == amount

LossWith(amount) == loss + amount

RecordLoss(amount) ==
  /\ lost + amount <= MaxLoss
  /\ loss' = LossWith(amount)
  /\ lost' = lost + amount
  /\ UNCHANGED <<life, risk, intent, exposure, trades, barred, nonceVars>>

ResetDaily ==
  /\ loss' = 0
  /\ lost' = 0
  /\ barred' = FALSE
  /\ UNCHANGED <<life, risk, intent, exposure, trades, nonceVars>>

-----------------------------------------------------------------------------
\* The execution agent.

\* NonceManager::next.
TakeNonce ==
  /\ execution = "recv"
  /\ taken < Len(trades)
  /\ taken' = taken + 1
  /\ tx_nonce' = nonce
  /\ nonce' = nonce + 1
  /\ execution' = "sign"
  /\ disciplined' = (disciplined /\ synced)
  /\ quiet' = FALSE
  /\ UNCHANGED <<life, trackerVars, fetched, chain, sent, synced, burned>>

SignOk ==
  /\ execution = "sign"
  /\ execution' = "send"
  /\ UNCHANGED <<life, trackerVars, taken, nonce, tx_nonce, fetched, chain,
                 sent, synced, quiet, disciplined, burned>>

\* Signing fails, or the transaction is lost on its way to the network.
LoseNonce ==
  /\ execution \in {"sign", "send"}
  /\ execution' = "recv"
  /\ burned' = TRUE
  /\ UNCHANGED <<life, trackerVars, taken, nonce, tx_nonce, fetched, chain,
                 sent, synced, quiet, disciplined>>

\* The network has the transaction, whatever send_transaction answers.
Send ==
  /\ execution = "send"
  /\ execution' = "recv"
  /\ sent' = Append(sent, tx_nonce)
  /\ UNCHANGED <<life, trackerVars, taken, nonce, tx_nonce, fetched, chain,
                 synced, quiet, disciplined, burned>>

-----------------------------------------------------------------------------
\* The chain and the recovery task.

\* The chain takes the transactions of the account in nonce order.
Mine ==
  /\ \E k \in DOMAIN sent : sent[k] = chain
  /\ chain' = chain + 1
  /\ UNCHANGED <<life, trackerVars, execution, taken, nonce, tx_nonce, fetched,
                 sent, synced, quiet, disciplined, burned>>

AllMined == \A k \in DOMAIN sent : sent[k] < chain

\* The chain answers a query for the account's nonce.
FetchNonce ==
  /\ fetched = NotFetched
  /\ fetched' = chain
  /\ quiet' = (execution = "recv" /\ AllMined)
  /\ UNCHANGED <<life, trackerVars, execution, taken, nonce, tx_nonce, chain,
                 sent, synced, disciplined, burned>>

\* Mutant: sync never goes back, like fetch_max.
SyncedForwardOnly == IF fetched >= nonce THEN fetched ELSE nonce

SyncedNonce == fetched

\* NonceManager::sync with that answer.
SyncNonce ==
  /\ fetched # NotFetched
  /\ nonce' = SyncedNonce
  /\ fetched' = NotFetched
  /\ synced' = TRUE
  /\ disciplined' = (disciplined /\ quiet)
  /\ burned' = FALSE
  /\ UNCHANGED <<life, trackerVars, execution, taken, tx_nonce, chain, sent,
                 quiet>>

-----------------------------------------------------------------------------
\* The process stops anywhere and main runs again: a new tracker, a new nonce
\* manager that starts at 0, a new bus that holds none of the old messages.
Restart ==
  /\ life < MaxLives
  /\ life' = life + 1
  /\ risk' = "recv"
  /\ exposure' = 0
  /\ loss' = 0
  /\ lost' = 0
  /\ barred' = FALSE
  /\ execution' = "recv"
  /\ taken' = Len(trades)
  /\ nonce' = 0
  /\ fetched' = NotFetched
  /\ synced' = FALSE
  /\ UNCHANGED <<intent, trades, tx_nonce, chain, sent, quiet, disciplined,
                 burned>>

RiskStep ==
  TakeIntent \/ CheckExposure \/ CheckLoss \/ AddExposure \/ PublishTrade
MonitorStep ==
  \/ \E i \in DOMAIN trades : Settle(i)
  \/ \E amount \in Losses : RecordLoss(amount)
  \/ ResetDaily
ExecutionStep == TakeNonce \/ SignOk \/ LoseNonce \/ Send
RecoveryStep == Mine \/ FetchNonce \/ SyncNonce

Next == RiskStep \/ MonitorStep \/ ExecutionStep \/ RecoveryStep \/ Restart

Spec == Init /\ [][Next]_vars

\* The program as main.rs wires it: the repository has no monitor, and nothing
\* in it calls NonceManager::sync.
WiredNext == RiskStep \/ ExecutionStep \/ Mine \/ Restart

WiredSpec == Init /\ [][WiredNext]_vars

-----------------------------------------------------------------------------
\* Properties.

\* The tracked exposure never passes max_position_size_eth, although the
\* agent takes the lock once to check the limit (rules.rs:14) and once more to
\* add (agent.rs:83), with the monitor in between.
ExposureWithinLimit == exposure <= MaxPosition

\* The tracker agrees with the trades on the bus: what it counts is the sum of
\* the open trades of this process and of the one about to be published.  No
\* removal overtakes its addition, where the clamp at 0 (state.rs:29) would
\* lose it and leave the exposure behind for good.
Open == {i \in DOMAIN trades : trades[i].open /\ trades[i].life = life}
ExposureIsOpenTrades ==
  exposure = SumFunction([i \in Open |-> trades[i].amount])
               + (IF risk = "publish" THEN intent.amount ELSE 0)

\* Once the losses recorded since the day began exceed daily_loss_limit_eth
\* (README.md:116) no trade is decided any more: a decision begun after that,
\* with no reset_daily since, approves nothing, in whatever amounts the losses
\* came and however they fall between its steps (rules.rs:66).  A decision
\* under way may still go through.  A loss equal to the limit is not in it:
\* there the document approves and rules.rs:70 rejects.
LossStopsTrading == barred => risk \notin {"add", "publish"}

\* "ensuring no two transactions share the same nonce" (nonce.rs:6), of the
\* program as main.rs wires it: it does not hold across a restart, because the
\* manager starts at 0 again (main.rs:161) and no one syncs it.
NoncesUnique == \A j, k \in DOMAIN sent : j # k => sent[j] # sent[k]

\* What callers of sync would have to do for that to hold across restarts: if
\* every start is followed by a sync before the first trade, and every sync
\* stores an answer the chain gave when all was mined and nothing was under
\* way, then no two transactions have the same nonce; and unless a nonce was
\* lost since the last sync, the chain can mine every one of them.  Nothing in
\* the repository gives this discipline: it is a condition on its users.
Nonces == {sent[k] : k \in DOMAIN sent}
InWork == IF execution = "recv" THEN {} ELSE {tx_nonce}
DisciplinedNoncesAreMined ==
  disciplined =>
    /\ NoncesUnique
    /\ synced /\ ~burned => Nonces \cup InWork = 0 .. nonce - 1

=============================================================================
