-------------------------- MODULE SharedStateProofs --------------------------
(***************************************************************************)
(* What is proved of SharedState, for any intents and limits and without   *)
(* the bounds on trades, losses and restarts mattering.                    *)
(***************************************************************************)
EXTENDS SharedState, AmountSums

TypeInv ==
  /\ life \in Nat
  /\ risk \in {"recv", "exposure", "loss", "add", "publish"}
  /\ risk # "recv" => intent \in Intents
  /\ exposure \in Nat
  /\ loss \in Nat
  /\ lost \in Nat
  /\ trades \in Seq(Trade)
  /\ execution \in {"recv", "sign", "send"}
  /\ taken \in Nat
  /\ nonce \in Nat
  /\ tx_nonce \in Nat
  /\ fetched \in Nat \cup {NotFetched}
  /\ chain \in Nat
  /\ sent \in Seq(Nat)

\* The agent only adds what still fits: between the check and the addition the
\* exposure can only shrink.
FitsInv ==
  /\ exposure <= MaxPosition
  /\ risk \in {"loss", "add"} => exposure + intent.amount <= MaxPosition

\* The tracker has every loss of the day; a barred decision does not get past
\* check_daily_loss_limit, since the losses it found have not shrunk without a
\* reset.
BarredInv ==
  /\ loss = lost
  /\ barred => lost > DailyLossLimit
  /\ LossStopsTrading

\* What the limits, the intents and the bounds are.
LEMMA Assumptions ==
  /\ MaxPosition \in Nat /\ DailyLossLimit \in Nat
  /\ \A i \in Intents : i.amount \in Nat
  /\ Losses \subseteq Nat
BY RiskAssumption, SharedAssumption DEF TradeIntent

\* A trade on the bus has an amount.
LEMMA TradeHasAmount ==
  ASSUME trades \in Seq(Trade), NEW i \in DOMAIN trades
  PROVE  trades[i] \in Trade /\ trades[i].amount \in Nat
<1>1. trades[i] \in Trade
  OBVIOUS
<1> QED  BY <1>1 DEF Trade

\* The program starts with well-typed variables.
LEMMA TypeInit == Init => TypeInv
BY DEF Init, TypeInv, NotFetched

\* Every step keeps the types.
LEMMA TypeStep == TypeInv /\ [Next]_vars => TypeInv'
<1> SUFFICES ASSUME TypeInv, [Next]_vars  PROVE TypeInv'
  OBVIOUS
<1> USE Assumptions DEF TypeInv
<1>1. CASE RiskStep
  <2>1. CASE TakeIntent
    BY <2>1 DEF TakeIntent, nonceVars
  <2>2. CASE CheckExposure
    BY <2>2 DEF CheckExposure, nonceVars
  <2>3. CASE CheckLoss
    BY <2>3 DEF CheckLoss, Then, nonceVars
  <2>4. CASE AddExposure
    <3>1. intent \in Intents /\ intent.amount \in Nat
      BY <2>4 DEF AddExposure
    <3> QED  BY <3>1, <2>4 DEF AddExposure, Then, nonceVars
  <2>5. CASE PublishTrade
    <3>1. intent \in Intents /\ intent.amount \in Nat
      BY <2>5 DEF PublishTrade
    <3>2. [amount |-> intent.amount, life |-> life, open |-> TRUE] \in Trade
      BY <3>1 DEF Trade
    <3> QED  BY <3>2, <2>5 DEF PublishTrade, Then, nonceVars
  <2> QED  BY <1>1, <2>1, <2>2, <2>3, <2>4, <2>5 DEF RiskStep
<1>2. CASE MonitorStep
  <2>1. ASSUME NEW i \in DOMAIN trades, Settle(i)  PROVE TypeInv'
    <3>1. trades[i] \in Trade /\ trades[i].amount \in Nat
      BY TradeHasAmount
    <3>2. exposure' \in Nat
      <4>1. exposure' = IF exposure >= trades[i].amount
                          THEN exposure - trades[i].amount ELSE 0
        BY <2>1 DEF Settle, RemoveExposure
      <4>2. exposure \in Nat
        OBVIOUS
      <4> QED  BY <3>1, <4>1, <4>2
    <3>3. trades' \in Seq(Trade)
      <4>1. [trades[i] EXCEPT !.open = FALSE] \in Trade
        BY <3>1 DEF Trade
      <4>2. trades' = [trades EXCEPT ![i] = [trades[i] EXCEPT !.open = FALSE]]
        BY <2>1 DEF Settle
      <4> QED  BY <4>1, <4>2
    <3> QED  BY <2>1, <3>2, <3>3 DEF Settle, nonceVars
  <2>2. ASSUME NEW amount \in Losses, RecordLoss(amount)  PROVE TypeInv'
    BY <2>2 DEF RecordLoss, LossWith, nonceVars
  <2>3. CASE ResetDaily
    BY <2>3 DEF ResetDaily, nonceVars
  <2> QED  BY <1>2, <2>1, <2>2, <2>3 DEF MonitorStep
<1>3. CASE ExecutionStep
  <2>1. CASE TakeNonce
    BY <2>1 DEF TakeNonce, trackerVars
  <2>2. CASE SignOk
    BY <2>2 DEF SignOk, trackerVars
  <2>3. CASE LoseNonce
    BY <2>3 DEF LoseNonce, trackerVars
  <2>4. CASE Send
    BY <2>4 DEF Send, trackerVars
  <2> QED  BY <1>3, <2>1, <2>2, <2>3, <2>4 DEF ExecutionStep
<1>4. CASE RecoveryStep
  <2>1. CASE Mine
    BY <2>1 DEF Mine, trackerVars
  <2>2. CASE FetchNonce
    BY <2>2 DEF FetchNonce, trackerVars
  <2>3. CASE SyncNonce
    BY <2>3 DEF SyncNonce, SyncedNonce, trackerVars
  <2> QED  BY <1>4, <2>1, <2>2, <2>3 DEF RecoveryStep
<1>5. CASE Restart
  BY <1>5 DEF Restart
<1>6. CASE UNCHANGED vars
  BY <1>6 DEF vars, trackerVars, nonceVars
<1> QED  BY <1>1, <1>2, <1>3, <1>4, <1>5, <1>6 DEF Next

-----------------------------------------------------------------------------
\* The limit.

\* The amounts that are still to be added fit, whatever the monitor does in
\* the meantime.
LEMMA FitsStep == TypeInv /\ FitsInv /\ [Next]_vars => FitsInv'
<1> SUFFICES ASSUME TypeInv, FitsInv, [Next]_vars  PROVE FitsInv'
  OBVIOUS
<1> USE Assumptions DEF FitsInv
<1>1. CASE RiskStep
  <2>1. CASE TakeIntent
    BY <2>1 DEF TakeIntent
  <2>2. CASE CheckExposure
    BY <2>2 DEF CheckExposure, CheckExposureLimit
  <2>3. CASE CheckLoss
    BY <2>3 DEF CheckLoss, Then
  <2>4. CASE AddExposure
    BY <2>4 DEF AddExposure, Then
  <2>5. CASE PublishTrade
    BY <2>5 DEF PublishTrade, Then
  <2> QED  BY <1>1, <2>1, <2>2, <2>3, <2>4, <2>5 DEF RiskStep
<1>2. CASE MonitorStep
  <2>1. ASSUME NEW i \in DOMAIN trades, Settle(i)  PROVE FitsInv'
    <3>1. exposure' \in Nat /\ exposure' <= exposure
      <4>1. trades[i].amount \in Nat
        BY TradeHasAmount DEF TypeInv
      <4>2. exposure' = IF exposure >= trades[i].amount
                          THEN exposure - trades[i].amount ELSE 0
        BY <2>1 DEF Settle, RemoveExposure
      <4>3. exposure \in Nat
        BY DEF TypeInv
      <4> QED  BY <4>1, <4>2, <4>3
    <3>2. risk' = risk /\ intent' = intent
      BY <2>1 DEF Settle
    <3>3. risk # "recv" => intent.amount \in Nat
      BY DEF TypeInv
    <3> QED  BY <3>1, <3>2, <3>3 DEF TypeInv
  <2>2. ASSUME NEW amount \in Losses, RecordLoss(amount)  PROVE FitsInv'
    BY <2>2 DEF RecordLoss
  <2>3. CASE ResetDaily
    BY <2>3 DEF ResetDaily
  <2> QED  BY <1>2, <2>1, <2>2, <2>3 DEF MonitorStep
<1>3. CASE ExecutionStep \/ RecoveryStep
  BY <1>3 DEF ExecutionStep, TakeNonce, SignOk, LoseNonce, Send, RecoveryStep,
     Mine, FetchNonce, SyncNonce, trackerVars
<1>4. CASE Restart
  BY <1>4 DEF Restart
<1>5. CASE UNCHANGED vars
  BY <1>5 DEF vars, trackerVars
<1> QED  BY <1>1, <1>2, <1>3, <1>4, <1>5 DEF Next

\* The exposure stays within max_position_size_eth with a monitor between
\* the check of the limit and the addition (rules.rs:14, agent.rs:83).
THEOREM ExposureLimited == Spec => []ExposureWithinLimit
<1>1. Init => TypeInv /\ FitsInv
  BY TypeInit, Assumptions DEF Init, FitsInv
<1>2. TypeInv /\ FitsInv /\ [Next]_vars => (TypeInv /\ FitsInv)'
  BY TypeStep, FitsStep
<1>3. FitsInv => ExposureWithinLimit
  BY DEF FitsInv, ExposureWithinLimit
<1> QED  BY <1>1, <1>2, <1>3, PTL DEF Spec

-----------------------------------------------------------------------------
\* The day's loss.

\* barred is only ever set to a comparison and to FALSE.
LEMMA BarredAtStart ==
  TypeInv /\ TakeIntent => (barred' => lost > DailyLossLimit)
BY Zenon DEF TakeIntent

\* Nothing but reset_daily and a restart lowers the loss, and both clear
\* barred.
LEMMA BarredStep == TypeInv /\ BarredInv /\ [Next]_vars => BarredInv'
<1> SUFFICES ASSUME TypeInv, BarredInv, [Next]_vars  PROVE BarredInv'
  OBVIOUS
<1> USE Assumptions DEF BarredInv, LossStopsTrading
<1>1. CASE RiskStep
  <2>1. CASE TakeIntent
    <3>1. barred' => lost > DailyLossLimit
      BY <2>1, BarredAtStart
    <3> QED  BY <3>1, <2>1 DEF TakeIntent
  <2>2. CASE CheckExposure
    BY <2>2 DEF CheckExposure
  <2>3. CASE CheckLoss
    <3>1. CASE ~(loss < DailyLossLimit)
      BY <3>1, <2>3 DEF CheckLoss, CheckDailyLossLimit
    <3>2. CASE loss < DailyLossLimit
      <4>1. ~barred
        BY <3>2 DEF TypeInv
      <4> QED  BY <4>1, <2>3 DEF CheckLoss
    <3> QED  BY <3>1, <3>2
  <2>4. CASE AddExposure
    BY <2>4 DEF AddExposure
  <2>5. CASE PublishTrade
    BY <2>5 DEF PublishTrade
  <2> QED  BY <1>1, <2>1, <2>2, <2>3, <2>4, <2>5 DEF RiskStep
<1>2. CASE MonitorStep
  <2>1. ASSUME NEW i \in DOMAIN trades, Settle(i)  PROVE BarredInv'
    BY <2>1 DEF Settle
  <2>2. ASSUME NEW amount \in Losses, RecordLoss(amount)  PROVE BarredInv'
    BY <2>2 DEF RecordLoss, LossWith, TypeInv
  <2>3. CASE ResetDaily
    BY <2>3 DEF ResetDaily
  <2> QED  BY <1>2, <2>1, <2>2, <2>3 DEF MonitorStep
<1>3. CASE ExecutionStep \/ RecoveryStep
  BY <1>3 DEF ExecutionStep, TakeNonce, SignOk, LoseNonce, Send, RecoveryStep,
     Mine, FetchNonce, SyncNonce, trackerVars
<1>4. CASE Restart
  BY <1>4 DEF Restart
<1>5. CASE UNCHANGED vars
  BY <1>5 DEF vars, trackerVars
<1> QED  BY <1>1, <1>2, <1>3, <1>4, <1>5 DEF Next

\* A decision begun with the losses of the day above the limit approves nothing,
\* whatever their amounts and however losses and resets fall between its steps
\* (state.rs:38, rules.rs:66).
THEOREM LossStops == Spec => []LossStopsTrading
<1>1. Init => TypeInv /\ BarredInv
  BY TypeInit DEF Init, BarredInv, LossStopsTrading
<1>2. TypeInv /\ BarredInv /\ [Next]_vars => (TypeInv /\ BarredInv)'
  BY TypeStep, BarredStep
<1>3. BarredInv => LossStopsTrading
  BY DEF BarredInv
<1> QED  BY <1>1, <1>2, <1>3, PTL DEF Spec

-----------------------------------------------------------------------------
\* The sum of the open trades.

OpenAmounts == [i \in Open |-> trades[i].amount]

\* No trade is of a process yet to come, and the tracker counts the open ones.
OpenInv ==
  /\ \A i \in DOMAIN trades : trades[i].life <= life
  /\ ExposureIsOpenTrades

\* The open trades are finitely many, with an amount each.
LEMMA OpenFacts ==
  ASSUME TypeInv
  PROVE  /\ IsFiniteSet(Open) /\ OpenAmounts \in [Open -> Nat]
         /\ SumFunction(OpenAmounts) \in Nat
<1>1. IsFiniteSet(Open)
  <2>1. IsFiniteSet(1 .. Len(trades)) /\ Open \in SUBSET (1 .. Len(trades))
    <3>1. Len(trades) \in Nat /\ DOMAIN trades = 1 .. Len(trades)
      BY DEF TypeInv
    <3>2. IsFiniteSet(1 .. Len(trades))
      BY <3>1, FS_Interval
    <3> QED
      BY <3>1, <3>2 DEF Open
  <2> QED
    BY <2>1, FS_Subset
<1>2. OpenAmounts \in [Open -> Nat]
  <2>1. \A i \in Open : trades[i].amount \in Nat
    BY TradeHasAmount DEF TypeInv, Open
  <2> QED
    BY <2>1 DEF OpenAmounts
<1>3. SumFunction(OpenAmounts) \in Nat
  <2>1. SumFunction(OpenAmounts) = Cardinality(Units(OpenAmounts, Open))
    BY <1>1, <1>2, SumIsUnits
  <2>2. IsFiniteSet(Units(OpenAmounts, Open))
    BY <1>1, <1>2, UnitsFinite
  <2> QED
    BY <2>1, <2>2, FS_CardinalityType
<1> QED
  BY <1>1, <1>2, <1>3

\* A trade published is one more open trade.
LEMMA PublishOpens ==
  ASSUME TypeInv, TypeInv', PublishTrade
  PROVE  SumFunction(OpenAmounts)' = SumFunction(OpenAmounts) + intent.amount
<1>1. PICK n : /\ n = Len(trades) + 1
               /\ DOMAIN trades = 1 .. n - 1 /\ DOMAIN trades' = 1 .. n
               /\ \A i \in 1 .. n - 1 : trades'[i] = trades[i]
               /\ trades'[n].amount = intent.amount /\ trades'[n].life = life
               /\ trades'[n].open /\ life' = life
               /\ n \in Nat
  BY DEF TypeInv, PublishTrade
<1>2. Open' = Open \cup {n} /\ n \notin Open
  BY <1>1 DEF Open
<1>3. /\ OpenAmounts' = [i \in Open' |-> trades'[i].amount]
      /\ OpenAmounts = [i \in Open |-> trades[i].amount]
  BY DEF OpenAmounts
<1>4. \A i \in Open : OpenAmounts'[i] = OpenAmounts[i]
  BY <1>1, <1>2, <1>3 DEF Open
<1>5. OpenAmounts'[n] = intent.amount
  BY <1>1, <1>2, <1>3
<1>6. IsFiniteSet(Open) /\ OpenAmounts \in [Open -> Nat]
  BY OpenFacts
<1>7. OpenAmounts' \in [Open \cup {n} -> Nat]
  <2>1. intent.amount \in Nat
    BY Assumptions DEF TypeInv, PublishTrade
  <2>2. \A i \in Open' : OpenAmounts'[i] \in Nat
    BY <1>2, <1>4, <1>5, <1>6, <2>1
  <2> QED
    BY <1>2, <1>3, <2>2
<1>8. SumFunction(OpenAmounts') = SumFunction(OpenAmounts) + OpenAmounts'[n]
  BY <1>2, <1>4, <1>6, <1>7, SumWithOneMore
<1> QED
  BY <1>5, <1>8

\* A trade settled is one open trade less.
LEMMA SettleCloses ==
  ASSUME TypeInv, TypeInv', NEW i \in DOMAIN trades, Settle(i)
  PROVE  /\ SumFunction(OpenAmounts) = SumFunction(OpenAmounts)' + trades[i].amount
         /\ SumFunction(OpenAmounts)' \in Nat
<1>1. trades[i] \in Trade /\ i \in Open
  BY TradeHasAmount DEF TypeInv, Settle, Open
<1>2. /\ trades' = [trades EXCEPT ![i] = [trades[i] EXCEPT !.open = FALSE]]
      /\ life' = life
  BY DEF Settle
<1>3. /\ DOMAIN trades' = DOMAIN trades /\ ~trades'[i].open
      /\ \A j \in DOMAIN trades \ {i} : trades'[j] = trades[j]
  BY <1>1, <1>2 DEF Trade
<1>4. Open = Open' \cup {i} /\ i \notin Open'
  BY <1>1, <1>2, <1>3 DEF Open
<1>5. /\ OpenAmounts' = [j \in Open' |-> trades'[j].amount]
      /\ OpenAmounts = [j \in Open |-> trades[j].amount]
  BY DEF OpenAmounts
<1>6. \A j \in Open' : OpenAmounts[j] = OpenAmounts'[j]
  BY <1>3, <1>4, <1>5 DEF Open
<1>7. OpenAmounts \in [Open -> Nat] /\ OpenAmounts[i] = trades[i].amount
  BY <1>1, <1>5, OpenFacts
<1>8. IsFiniteSet(Open') /\ OpenAmounts' \in [Open' -> Nat]
  <2>1. IsFiniteSet(Open')
    BY <1>4, OpenFacts, FS_Subset
  <2>2. \A j \in Open' : OpenAmounts'[j] \in Nat
    BY <1>4, <1>6, <1>7
  <2> QED
    BY <1>5, <2>1, <2>2
<1>9. /\ SumFunction(OpenAmounts) = SumFunction(OpenAmounts') + OpenAmounts[i]
      /\ SumFunction(OpenAmounts') \in Nat
  BY <1>4, <1>6, <1>7, <1>8, SumWithOneMore
<1> QED
  BY <1>7, <1>9

\* Where trades, exposure and the number of the process stay, so does the sum.
LEMMA QuietTracker ==
  ASSUME OpenInv, UNCHANGED <<trades, life, exposure, intent>>,
         risk' = "publish" <=> risk = "publish"
  PROVE  OpenInv'
<1>1. Open' = Open
  BY DEF Open
<1>2. OpenAmounts' = OpenAmounts
  BY <1>1 DEF OpenAmounts
<1> QED
  BY <1>1, <1>2 DEF OpenInv, ExposureIsOpenTrades, OpenAmounts

\* Every step keeps the tracker in agreement with the open trades.
LEMMA OpenStep == TypeInv /\ TypeInv' /\ OpenInv /\ [Next]_vars => OpenInv'
<1> SUFFICES ASSUME TypeInv, TypeInv', OpenInv, [Next]_vars PROVE OpenInv'
  OBVIOUS
<1>1. /\ exposure = SumFunction(OpenAmounts)
                      + (IF risk = "publish" THEN intent.amount ELSE 0)
      /\ SumFunction(OpenAmounts) \in Nat
  BY OpenFacts DEF OpenInv, ExposureIsOpenTrades, OpenAmounts
<1>2. ASSUME \A i \in DOMAIN trades' : trades'[i].life <= life',
             exposure' = SumFunction(OpenAmounts)'
                           + (IF risk' = "publish" THEN intent'.amount ELSE 0)
      PROVE  OpenInv'
  BY <1>2 DEF OpenInv, ExposureIsOpenTrades, OpenAmounts
<1>3. CASE TakeIntent
  <2>1. /\ risk # "publish" /\ risk' # "publish"
        /\ UNCHANGED <<trades, life, exposure>>
    BY <1>3 DEF TakeIntent
  <2>2. OpenAmounts' = OpenAmounts
    BY <2>1 DEF OpenAmounts, Open
  <2> QED
    BY <1>1, <1>2, <2>1, <2>2 DEF OpenInv
<1>4. CASE \/ CheckExposure \/ CheckLoss \/ ResetDaily
          \/ \E amount \in Losses : RecordLoss(amount)
  BY <1>4, QuietTracker
     DEF CheckExposure, CheckLoss, RecordLoss, ResetDaily, Then
<1>5. CASE AddExposure
  <2>1. /\ risk = "add" /\ risk' = "publish" /\ exposure' = exposure + intent.amount
        /\ UNCHANGED <<trades, life, intent>>
    BY <1>5 DEF AddExposure, Then
  <2>2. OpenAmounts' = OpenAmounts
    BY <2>1 DEF OpenAmounts, Open
  <2>3. exposure' = SumFunction(OpenAmounts) + intent.amount
    BY <1>1, <2>1
  <2> QED
    BY <1>2, <2>1, <2>2, <2>3 DEF OpenInv
<1>6. CASE PublishTrade
  <2>1. /\ risk = "publish" /\ risk' = "recv"
        /\ UNCHANGED <<life, exposure, intent>>
        /\ SumFunction(OpenAmounts)' = SumFunction(OpenAmounts) + intent.amount
    BY <1>6, PublishOpens DEF PublishTrade, Then
  <2>2. \A i \in DOMAIN trades' : trades'[i].life <= life'
    <3>1. PICK t : /\ trades' = Append(trades, t) /\ t.life = life
      BY <1>6 DEF PublishTrade
    <3>2. \A i \in DOMAIN trades' :
            \/ i \in DOMAIN trades /\ trades'[i] = trades[i]
            \/ trades'[i] = t
      <4>1. trades \in Seq(Trade)
        BY DEF TypeInv
      <4> QED
        BY <3>1, <4>1
    <3>3. life \in Nat /\ life' = life
      BY <2>1 DEF TypeInv
    <3>4. \A i \in DOMAIN trades : trades[i].life <= life
      BY DEF OpenInv
    <3> QED
      BY <3>1, <3>2, <3>3, <3>4
  <2>3. exposure' = SumFunction(OpenAmounts)' + 0
    BY <1>1, <2>1, Assumptions DEF TypeInv
  <2> QED
    BY <1>2, <2>1, <2>2, <2>3
<1>7. ASSUME NEW i \in DOMAIN trades, Settle(i) PROVE OpenInv'
  <2>1. /\ UNCHANGED <<life, risk, intent>> /\ trades[i] \in Trade
        /\ trades' = [trades EXCEPT ![i] = [trades[i] EXCEPT !.open = FALSE]]
    BY <1>7, TradeHasAmount DEF Settle, TypeInv
  <2>2. \A j \in DOMAIN trades' : trades'[j].life <= life'
    <3>1. \A j \in DOMAIN trades' :
            j \in DOMAIN trades /\ trades'[j].life = trades[j].life
      BY <2>1 DEF Trade
    <3> QED
      BY <2>1, <3>1 DEF OpenInv
  <2>3. /\ SumFunction(OpenAmounts)
             = SumFunction(OpenAmounts)' + trades[i].amount
        /\ SumFunction(OpenAmounts)' \in Nat
    BY <1>7, SettleCloses
  <2>4. trades[i].amount \in Nat
    BY TradeHasAmount DEF TypeInv
  <2>5. risk = "publish" => intent.amount \in Nat
    BY Assumptions DEF TypeInv
  <2>6. exposure >= trades[i].amount
    BY <1>1, <2>3, <2>4, <2>5
  <2>7. exposure' = exposure - trades[i].amount
    BY <1>7, <2>6 DEF Settle, RemoveExposure
  <2>8. exposure' = SumFunction(OpenAmounts)'
                      + (IF risk' = "publish" THEN intent'.amount ELSE 0)
    BY <1>1, <2>1, <2>3, <2>4, <2>5, <2>7
  <2> QED
    BY <1>2, <2>2, <2>8
<1>8. CASE ExecutionStep \/ RecoveryStep
  BY <1>8, QuietTracker
     DEF ExecutionStep, TakeNonce, SignOk, LoseNonce, Send, RecoveryStep, Mine,
         FetchNonce, SyncNonce, trackerVars
<1>9. CASE Restart
  <2>1. /\ life' = life + 1 /\ trades' = trades
        /\ risk' = "recv" /\ exposure' = 0
        /\ life \in Nat
    BY <1>9 DEF Restart, TypeInv
  <2>2. \A i \in DOMAIN trades : trades[i].life <= life /\ trades[i].life \in Nat
    <3>1. \A i \in DOMAIN trades : trades[i] \in Trade
      BY DEF TypeInv
    <3> QED
      BY <3>1 DEF OpenInv, Trade
  <2>3. Open' = {}
    BY <2>1, <2>2 DEF Open
  <2>4. OpenAmounts' \in [{} -> Nat]
    BY <2>3 DEF OpenAmounts
  <2>5. SumFunction(OpenAmounts)' = 0
    BY <2>4, NoAmounts
  <2> QED
    BY <1>2, <2>1, <2>2, <2>5
<1>10. CASE UNCHANGED vars
  BY <1>10, QuietTracker DEF vars, trackerVars
<1> QED
  BY <1>3, <1>4, <1>5, <1>6, <1>7, <1>8, <1>9, <1>10
     DEF Next, RiskStep, MonitorStep

\* What the tracker counts is the sum of the open trades of this process, with
\* a monitor that settles them between the agent's steps, and across restarts:
\* the clamp of remove_exposure (state.rs:29) never bites.
THEOREM TrackerAgrees == Spec => []ExposureIsOpenTrades
<1>1. Init => TypeInv /\ OpenInv
  <2> SUFFICES ASSUME Init PROVE OpenInv
    BY TypeInit
  <2>1. trades = << >> /\ DOMAIN << >> = {}
    BY DEF Init
  <2>2. Open = {}
    BY <2>1 DEF Open
  <2>3. OpenAmounts \in [{} -> Nat]
    BY <2>2 DEF OpenAmounts
  <2>4. SumFunction(OpenAmounts) = 0
    BY <2>3, NoAmounts
  <2> QED
    BY <2>1, <2>4 DEF Init, OpenInv, ExposureIsOpenTrades, OpenAmounts
<1>2. TypeInv /\ OpenInv /\ [Next]_vars => (TypeInv /\ OpenInv)'
  BY TypeStep, OpenStep
<1>3. OpenInv => ExposureIsOpenTrades
  BY DEF OpenInv
<1> QED
  BY <1>1, <1>2, <1>3, PTL DEF Spec

=============================================================================
