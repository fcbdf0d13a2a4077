----------------------- MODULE MacChannelAccessProofs -----------------------
(***************************************************************************)
(* Theorems about MacChannelAccess for every number of modules and of      *)
(* requests, every queue depth and every setting of the timers.            *)
(*                                                                         *)
(* TypeOK is inductive.  PendingWatched and LbtArmed are inductive once    *)
(* TypeOK is there to say that the timers are the three they are.          *)
(* DataNoticed is inductive with TypeOK alone.                             *)
(* OkTruthful counts the OKs still on their way, the refinement keeps the  *)
(* order of the requests in every queue, and the two properties about time *)
(* say that a timer's expiry in the snapshot is the newest request's.      *)
(***************************************************************************)
EXTENDS MacTxRefinement, FiniteSetTheorems, FunctionTheorems, TLAPS

USE DEF Timers, ChStates

----------------------------------------------------------------------------
(* The one-shot timers.                                                    *)

\* The three delays the MAC arms its timers with are delays a timer can hold.
LEMMA DelaysFit ==
  /\ IdleSrch \in Ticks /\ TxLmt \in Ticks /\ 0..HoldoffMax \subseteq Ticks
  /\ 0 \in Ticks
  BY TimingAssumption DEF Ticks

\* Arming, disarming and draining a timer leave three timers.
LEMMA TimersTyped ==
  ASSUME NEW tm \in [Timers -> Timer], NEW t \in Timers, NEW k \in Ticks
  PROVE  /\ Arm(tm, t, k) \in [Timers -> Timer]
         /\ Disarm(tm, t) \in [Timers -> Timer]
         /\ Drain(tm, t) \in [Timers -> Timer]
<1>1. Off \in Timer
  BY DelaysFit DEF Off, Timer
<1>2. Arm(tm, t, k) \in [Timers -> Timer]
  BY DEF Arm, Timer
<1>3. Disarm(tm, t) \in [Timers -> Timer]
  BY <1>1 DEF Disarm
<1>4. [tm[t] EXCEPT !.armed = FALSE] \in Timer
  BY DEF Timer
<1>5. Drain(tm, t) \in [Timers -> Timer]
  BY <1>1, <1>4 DEF Drain
<1> QED
  BY <1>2, <1>3, <1>5

\* Giving a request up stops all three.
LEMMA DisarmAllTyped ==
  ASSUME NEW tm \in [Timers -> Timer]
  PROVE  DisarmAll(tm) \in [Timers -> Timer]
<1> DEFINE one == Disarm(tm, "idle_srch")
           two == Disarm(one, "holdoff")
<1>1. one \in [Timers -> Timer]
  BY TimersTyped, DelaysFit
<1>2. two \in [Timers -> Timer]
  <2> HIDE DEF one
  <2> QED  BY <1>1, TimersTyped, DelaysFit
<1>3. Disarm(two, "tx_lmt") \in [Timers -> Timer]
  <2> HIDE DEF two
  <2> QED  BY <1>2, TimersTyped, DelaysFit
<1> QED
  BY <1>3 DEF DisarmAll

----------------------------------------------------------------------------
(* What the two operations every handler shares do to the types.           *)

\* What mac_post_tx_conf() writes.
ConfTypes ==
  /\ confQ \in [Clients -> Seq(Conf)]
  /\ \A c \in Clients : Len(confQ[c]) <= QDepth
  /\ verdicts \in [Keys -> [Results -> Nat]]
  /\ dropped \subseteq Keys

\* A confirmation goes to a queue with room, is counted, or is dropped.
LEMMA PostConfTyped ==
  ASSUME ConfTypes, NEW key \in Keys \cup {Garbage}, NEW result \in Results,
         PostConf(key, result)
  PROVE  ConfTypes'
<1>1. CASE key = Garbage
  BY <1>1 DEF PostConf, ConfTypes, confVars
<1>2. CASE key # Garbage
  <2> DEFINE conf == [id |-> key[2], result |-> result]
             q == confQ[key[1]]
  <2>1. key \in Keys /\ key[1] \in Clients /\ key[2] \in Ids
    BY <1>2 DEF Keys
  <2>2. q \in Seq(Conf) /\ Len(q) \in Nat /\ QDepth \in Nat
    BY <2>1, BoundsAssumption DEF ConfTypes
  <2>3. CASE Len(q) < QDepth
    <3>1. conf \in Conf
      BY <2>1 DEF Conf
    <3>2. Append(q, conf) \in Seq(Conf) /\ Len(Append(q, conf)) = Len(q) + 1
      BY <3>1, <2>2
    <3>3. /\ confQ' = [confQ EXCEPT ![key[1]] = Append(q, conf)]
          /\ verdicts' = [verdicts EXCEPT ![key][result] = @ + 1]
          /\ dropped' = dropped
      BY <1>2, <2>2, <2>3 DEF PostConf
    <3>4. verdicts' \in [Keys -> [Results -> Nat]]
      BY <3>3, <2>1 DEF ConfTypes
    <3>5. confQ' \in [Clients -> Seq(Conf)]
      BY <3>3, <3>2, <2>1 DEF ConfTypes
    <3>6. ASSUME NEW c \in Clients PROVE Len(confQ'[c]) <= QDepth
      <4>1. CASE c = key[1]
        <5>1. confQ'[c] = Append(q, conf)
          BY <4>1, <3>3, <2>1 DEF ConfTypes
        <5> QED
          BY <5>1, <3>2, <2>2, <2>3
      <4>2. CASE c # key[1]
        BY <4>2, <3>3 DEF ConfTypes
      <4> QED  BY <4>1, <4>2
    <3> QED
      BY <3>3, <3>4, <3>5, <3>6 DEF ConfTypes
  <2>4. CASE ~(Len(q) < QDepth)
    <3>1. confQ' = confQ /\ verdicts' = verdicts /\ dropped' = dropped \cup {key}
      BY <1>2, <2>4 DEF PostConf
    <3> QED
      BY <3>1, <2>1 DEF ConfTypes
  <2> QED  BY <2>3, <2>4
<1> QED  BY <1>1, <1>2

\* Taking from and adding to a queue.
LEMMA QueueTyped ==
  ASSUME NEW S, NEW q \in Seq(S)
  PROVE  /\ Len(q) \in Nat
         /\ q # <<>> => /\ Head(q) \in S /\ Tail(q) \in Seq(S)
                        /\ Len(Tail(q)) = Len(q) - 1
         /\ \A e \in S : /\ Append(q, e) \in Seq(S)
                         /\ Len(Append(q, e)) = Len(q) + 1
  OBVIOUS

\* Everything mac_tx_slot_schedule() may write.
ScheduleTypes ==
  /\ ConfTypes
  /\ chState \in ChStates
  /\ hasPending \in BOOLEAN
  /\ tmr \in [Timers -> Timer]
  /\ phyTx \in Seq(Request) /\ Len(phyTx) <= QDepth

\* Handing a request to the PHY, or giving it up, keeps all of it typed.
LEMMA SlotScheduleTyped ==
  ASSUME ScheduleTypes, NEW req \in Request, NEW has \in BOOLEAN,
         NEW tm \in [Timers -> Timer], NEW st \in ChStates,
         SlotSchedule(req, has, tm, st)
  PROVE  ScheduleTypes'
<1>1. CASE Len(phyTx) < QDepth
  <2>1. /\ phyTx' = Append(phyTx, req) /\ tmr' = tm /\ chState' = st
        /\ hasPending' = has /\ UNCHANGED confVars
    BY <1>1, QueueTyped, BoundsAssumption DEF SlotSchedule, ScheduleTypes
  <2>2. ConfTypes'
    BY <2>1 DEF ConfTypes, ScheduleTypes, confVars
  <2>3. phyTx' \in Seq(Request) /\ Len(phyTx') <= QDepth
    BY <1>1, <2>1, QueueTyped, BoundsAssumption DEF ScheduleTypes
  <2> QED
    BY <2>1, <2>2, <2>3 DEF ScheduleTypes
<1>2. CASE ~(Len(phyTx) < QDepth) /\ has
  <2>1. /\ phyTx' = phyTx /\ tmr' = DisarmAll(tm) /\ hasPending' = FALSE
        /\ chState' = "IDLE_MONITOR" /\ PostConf(req.key, "CANCELLED")
    BY <1>2 DEF SlotSchedule
  <2>2. req.key \in Keys \cup {Garbage} /\ "CANCELLED" \in Results
    BY DEF Request, Results
  <2>3. ConfTypes'
    BY <2>1, <2>2, PostConfTyped DEF ScheduleTypes
  <2> QED
    BY <2>1, <2>3, DisarmAllTyped DEF ScheduleTypes
<1>3. CASE ~(Len(phyTx) < QDepth) /\ ~has
  <2>1. /\ phyTx' = phyTx /\ tmr' = tm /\ hasPending' = hasPending
        /\ chState' = st /\ UNCHANGED confVars
    BY <1>3 DEF SlotSchedule
  <2>2. ConfTypes'
    BY <2>1 DEF ConfTypes, ScheduleTypes, confVars
  <2> QED
    BY <2>1, <2>2 DEF ScheduleTypes
<1> QED
  BY <1>1, <1>2, <1>3

----------------------------------------------------------------------------
(* Type correctness.                                                       *)

\* The queues, the bookkeeping of the modules and the history.
RestTypes ==
  /\ pending \in Request
  /\ txReq \in Seq(Request) /\ Len(txReq) <= QDepth
  /\ phyConf \in Seq(PhyDone) /\ Len(phyConf) <= QDepth
  /\ phyRx \in Seq(Bursts) /\ Len(phyRx) <= QDepth
  /\ batch \subseteq Fds
  /\ cancelling \in Ids \cup {0}
  /\ nextId \in [Clients -> 1..(MaxReq + 1)]
  /\ done \in [Clients -> SUBSET Ids]
  /\ faults \in 0..MaxFaults
  /\ aired \in [Keys -> Nat]
  /\ listened \in 0..IdleSrch /\ waited \in 0..TxLmt /\ heard \in BOOLEAN
  /\ noise \subseteq Bursts

LEMMA TypeParts == TypeOK <=> ScheduleTypes /\ RestTypes
  BY DEF TypeOK, ScheduleTypes, ConfTypes, RestTypes

LEMMA InitTyped == Init => TypeOK
<1> SUFFICES ASSUME Init PROVE ScheduleTypes /\ RestTypes
  BY TypeParts
<1>1. PICK c \in Clients : TRUE
  BY ClientsAssumption
<1>2. <<c, 1>> \in Keys
  BY BoundsAssumption DEF Keys, Ids
<1>3. [key |-> <<c, 1>>, mode |-> "polite"] \in Request
  BY <1>2 DEF Request, Mode
<1>4. pending \in Request
  BY <1>3 DEF Init
<1>5. Off \in Timer
  BY DelaysFit DEF Off, Timer
<1>6. confQ \in [Clients -> Seq(Conf)] /\ \A d \in Clients : Len(confQ[d]) <= QDepth
  BY BoundsAssumption DEF Init
<1>7. verdicts \in [Keys -> [Results -> Nat]]
  BY DEF Init
<1>8. phyTx \in Seq(Request) /\ Len(phyTx) <= QDepth
  BY BoundsAssumption DEF Init
<1>9. ScheduleTypes
  BY <1>5, <1>6, <1>7, <1>8 DEF Init, ScheduleTypes, ConfTypes
<1>10. RestTypes
  <2>1. /\ txReq \in Seq(Request) /\ Len(txReq) <= QDepth
        /\ phyConf \in Seq(PhyDone) /\ Len(phyConf) <= QDepth
    BY BoundsAssumption DEF Init
  <2>2. /\ phyRx \in Seq(Bursts) /\ Len(phyRx) <= QDepth /\ faults \in 0..MaxFaults
        /\ listened \in 0..IdleSrch /\ waited \in 0..TxLmt
    BY BoundsAssumption, TimingAssumption DEF Init
  <2>3. nextId \in [Clients -> 1..(MaxReq + 1)]
    BY BoundsAssumption DEF Init
  <2>4. aired \in [Keys -> Nat] /\ done \in [Clients -> SUBSET Ids]
    BY DEF Init
  <2> QED
    BY <1>4, <2>1, <2>2, <2>3, <2>4 DEF Init, RestTypes
<1> QED  BY <1>9, <1>10

LEMMA NextTyped == TypeOK /\ [Next]_vars => TypeOK'
<1> SUFFICES ASSUME ScheduleTypes, RestTypes, [Next]_vars
             PROVE  ScheduleTypes' /\ RestTypes'
  BY DEF TypeOK, ScheduleTypes, ConfTypes, RestTypes
<1> USE DEF macVars, queueVars, clientVars, confVars, clockVars
<1>0. /\ tmr \in [Timers -> Timer] /\ ConfTypes
      /\ chState \in ChStates /\ hasPending \in BOOLEAN /\ pending \in Request
  BY DEF ScheduleTypes, RestTypes
<1>1. CASE EpollWait
  <2>1. Ready \subseteq Fds
    BY DEF Ready, Fds
  <2>2. ScheduleTypes'
    BY <1>1 DEF EpollWait, ScheduleTypes, ConfTypes
  <2>3. RestTypes'
    BY <1>1, <2>1 DEF EpollWait, RestTypes
  <2> QED  BY <2>2, <2>3
<1>2. CASE IdleSrchEvent
  <2> DEFINE drained == Drain(tmr, "idle_srch")
  <2>1. drained \in [Timers -> Timer]
    BY <1>0, TimersTyped, DelaysFit
  <2>2. Disarm(drained, "tx_lmt") \in [Timers -> Timer]
    <3> HIDE DEF drained
    <3> QED  BY <2>1, TimersTyped, DelaysFit
  <2>3. RestTypes'
    BY <1>2 DEF IdleSrchEvent, Serve, RestTypes
  <2>4. CASE chState = "QUALIFY_IDLE"
    <3> HIDE DEF drained
    <3>1. SlotSchedule(pending, hasPending, Disarm(drained, "tx_lmt"), "TX_PENDING")
      BY <1>2, <2>4 DEF IdleSrchEvent, drained
    <3> QED
      BY <1>0, <2>2, <2>3, <3>1, SlotScheduleTyped
  <2>5. CASE chState # "QUALIFY_IDLE"
    BY <1>2, <2>1, <2>3, <2>5
    DEF IdleSrchEvent, ScheduleTypes, ConfTypes
  <2> QED  BY <2>4, <2>5
<1>3. CASE HoldoffEvent
  <2> DEFINE drained == Drain(tmr, "holdoff")
  <2>1. drained \in [Timers -> Timer]
    BY <1>0, TimersTyped, DelaysFit
  <2>2. Arm(drained, "idle_srch", IdleSrch) \in [Timers -> Timer]
    <3> HIDE DEF drained
    <3> QED  BY <2>1, TimersTyped, DelaysFit
  <2>3. tmr' \in [Timers -> Timer] /\ chState' \in ChStates
    BY <1>0, <1>3, <2>1, <2>2 DEF HoldoffEvent, HoldoffWith
  <2> QED
    BY <1>3, <2>3, TimingAssumption
    DEF HoldoffEvent, HoldoffWith, Serve, ScheduleTypes, ConfTypes, RestTypes
<1>4. CASE TxLmtEvent
  <2> DEFINE drained == Drain(tmr, "tx_lmt")
             quieter == Disarm(drained, "idle_srch")
  <2>1. drained \in [Timers -> Timer]
    BY <1>0, TimersTyped, DelaysFit
  <2>2. quieter \in [Timers -> Timer]
    <3> HIDE DEF drained
    <3> QED  BY <2>1, TimersTyped, DelaysFit
  <2>3. Disarm(quieter, "holdoff") \in [Timers -> Timer]
    <3> HIDE DEF quieter
    <3> QED  BY <2>2, TimersTyped, DelaysFit
  <2>4. tmr' \in [Timers -> Timer] /\ chState' \in ChStates /\ hasPending' \in BOOLEAN
    BY <1>0, <1>4, <2>1, <2>3 DEF TxLmtEvent
  <2>5. ConfTypes'
    <3>1. pending.key \in Keys \cup {Garbage} /\ "ABORTED" \in Results
      BY <1>0 DEF Request, Results
    <3>2. CASE hasPending
      BY <1>0, <1>4, <3>1, <3>2, PostConfTyped DEF TxLmtEvent
    <3>3. CASE ~hasPending
      BY <1>0, <1>4, <3>3 DEF TxLmtEvent, ConfTypes
    <3> QED  BY <3>2, <3>3
  <2> QED
    BY <1>4, <2>4, <2>5 DEF TxLmtEvent, Serve, ScheduleTypes, RestTypes
<1>5. CASE TxReqEvent
  <2> DEFINE req == Head(txReq)
             limited == Arm(tmr, "tx_lmt", TxLmt)
  <2>1. /\ req \in Request /\ req.key \in Keys \cup {Garbage}
        /\ Tail(txReq) \in Seq(Request) /\ Len(Tail(txReq)) <= QDepth
    <3>1. txReq \in Seq(Request) /\ Len(txReq) <= QDepth /\ txReq # <<>>
      BY <1>5 DEF RestTypes, TxReqEvent
    <3>2. /\ req \in Request /\ Tail(txReq) \in Seq(Request)
          /\ Len(Tail(txReq)) = Len(txReq) - 1 /\ Len(txReq) \in Nat
      BY <3>1, QueueTyped
    <3> QED  BY <3>1, <3>2, BoundsAssumption DEF Request
  <2>2. limited \in [Timers -> Timer]
    BY <1>0, TimersTyped, DelaysFit
  <2>3. Arm(limited, "idle_srch", IdleSrch) \in [Timers -> Timer]
    <3> HIDE DEF limited
    <3> QED  BY <2>2, TimersTyped, DelaysFit
  <2>4. /\ txReq' = Tail(txReq) /\ batch' \subseteq batch
        /\ UNCHANGED <<phyConf, phyRx, nextId, done, heard, cancelling, faults, aired>>
    BY <1>5 DEF TxReqEvent, Serve
  <2> HIDE DEF req, limited
  <2>5. CASE RejectLate(req)
    <3>1. ConfTypes'
      <4>1. "DEADLINE" \in Results
        BY DEF Results
      <4> QED  BY <1>0, <2>1, <2>5, <4>1, PostConfTyped DEF RejectLate
    <3> QED
      BY <2>1, <2>4, <2>5, <3>1 DEF RejectLate, ScheduleTypes, RestTypes
  <2>6. CASE Accept(req)
    <3>1. /\ pending' = req /\ waited' = 0
          /\ listened' \in {listened, 0} /\ noise' \in {noise, {}}
      BY <2>6 DEF Accept, AcceptWith
    <3>2. RestTypes'
      BY <2>1, <2>4, <3>1, TimingAssumption DEF RestTypes
    <3>3. CASE req.mode = "impolite"
      <4>1. SlotSchedule(req, TRUE, tmr, chState)
        BY <2>6, <3>3 DEF Accept, AcceptWith
      <4> QED  BY <1>0, <2>1, <3>2, <4>1, SlotScheduleTyped
    <3>4. CASE req.mode # "impolite"
      <4>1. /\ hasPending' = TRUE /\ chState' = "QUALIFY_IDLE"
            /\ tmr' = Arm(limited, "idle_srch", IdleSrch)
            /\ UNCHANGED <<phyTx, confVars>>
        BY <2>6, <3>4 DEF Accept, AcceptWith, limited
      <4> QED
        BY <2>3, <3>2, <4>1 DEF ScheduleTypes, ConfTypes
    <3> QED  BY <3>3, <3>4
  <2> QED
    BY <1>5, <2>5, <2>6 DEF TxReqEvent, req
<1>6. CASE RxBurstEvent
  <2> DEFINE calm == Disarm(tmr, "idle_srch")
  <2>1. calm \in [Timers -> Timer]
    BY <1>0, TimersTyped, DelaysFit
  <2>2. \A bursts \in 0..HoldoffMax :
          Arm(calm, "holdoff", bursts) \in [Timers -> Timer]
    <3> HIDE DEF calm
    <3> QED  BY <2>1, TimersTyped, DelaysFit
  <2>3. tmr' \in [Timers -> Timer] /\ chState' \in ChStates
    BY <1>0, <1>6, <2>2 DEF RxBurstEvent, HandleRxBurst
  <2>4. phyRx' \in Seq(Bursts) /\ Len(phyRx') <= QDepth
    <3>1. /\ phyRx \in Seq(Bursts) /\ Len(phyRx) <= QDepth /\ phyRx # <<>>
          /\ phyRx' = Tail(phyRx)
      BY <1>6 DEF RxBurstEvent, HandleRxBurst, RestTypes
    <3>2. /\ Tail(phyRx) \in Seq(Bursts) /\ Len(phyRx) \in Nat
          /\ Len(Tail(phyRx)) = Len(phyRx) - 1
      BY <3>1, QueueTyped
    <3> QED  BY <3>1, <3>2, BoundsAssumption
  <2> QED
    BY <1>6, <2>3, <2>4
    DEF RxBurstEvent, HandleRxBurst, Serve, ScheduleTypes, ConfTypes, RestTypes
<1>7. CASE PhyConfEvent
  <2>1. /\ Head(phyConf) \in PhyDone /\ Tail(phyConf) \in Seq(PhyDone)
        /\ Len(Tail(phyConf)) <= QDepth
    <3>1. phyConf \in Seq(PhyDone) /\ Len(phyConf) <= QDepth /\ phyConf # <<>>
      BY <1>7 DEF RestTypes, PhyConfEvent, PhyConfWith
    <3>2. /\ Head(phyConf) \in PhyDone /\ Tail(phyConf) \in Seq(PhyDone)
          /\ Len(Tail(phyConf)) = Len(phyConf) - 1 /\ Len(phyConf) \in Nat
      BY <3>1, QueueTyped
    <3> QED  BY <3>1, <3>2, BoundsAssumption
  <2>2. PostConf(Head(phyConf).key, PhyResult)
    BY <1>7 DEF PhyConfEvent, PhyConfWith
  <2>3. Head(phyConf).key \in Keys \cup {Garbage} /\ PhyResult \in Results
    BY <2>1 DEF PhyDone, PhyResult, Results
  <2>4. ConfTypes'
    BY <1>0, <2>2, <2>3, PostConfTyped
  <2> QED
    BY <1>7, <2>1, <2>4
    DEF PhyConfEvent, PhyConfWith, Serve, ScheduleTypes, RestTypes
<1>8. CASE Tick
  <2>1. ASSUME NEW t \in Timers, tmr[t].kern = "running"
        PROVE  [tmr[t] EXCEPT !.left = @ - 1] \in Timer
    <3>1. tmr[t] \in Timer /\ tmr[t].left > 0
      BY <1>0, <1>8, <2>1 DEF Tick
    <3>2. tmr[t].left - 1 \in Ticks
      BY <3>1, TimingAssumption DEF Timer, Ticks
    <3> QED  BY <3>1, <3>2 DEF Timer
  <2>2. tmr' \in [Timers -> Timer]
    BY <1>0, <1>8, <2>1 DEF Tick
  <2>3. listened' \in 0..IdleSrch /\ waited' \in 0..TxLmt /\ heard' \in BOOLEAN
    <3>1. /\ listened' = IF listened < IdleSrch THEN listened + 1 ELSE listened
          /\ waited' = IF waited < TxLmt THEN waited + 1 ELSE waited
          /\ heard' = FALSE
      BY <1>8 DEF Tick
    <3>2. listened \in 0..IdleSrch /\ waited \in 0..TxLmt
      BY DEF RestTypes
    <3>3. listened' \in 0..IdleSrch
      <4>1. CASE listened < IdleSrch
        BY <3>1, <3>2, <4>1, TimingAssumption
      <4>2. CASE ~(listened < IdleSrch)
        BY <3>1, <3>2, <4>2
      <4> QED  BY <4>1, <4>2
    <3>4. waited' \in 0..TxLmt
      <4>1. CASE waited < TxLmt
        BY <3>1, <3>2, <4>1, TimingAssumption
      <4>2. CASE ~(waited < TxLmt)
        BY <3>1, <3>2, <4>2
      <4> QED  BY <4>1, <4>2
    <3>5. heard' \in BOOLEAN
      BY <3>1
    <3> QED  BY <3>3, <3>4, <3>5
  <2> QED
    BY <1>8, <2>2, <2>3 DEF Tick, ScheduleTypes, ConfTypes, RestTypes
<1>9. ASSUME NEW t \in Timers, Expire(t)
      PROVE  ScheduleTypes' /\ RestTypes'
  <2>1. tmr' \in [Timers -> Timer]
    BY <1>0, <1>9 DEF Expire, Expired, Due, Timer
  <2> QED
    BY <1>9, <2>1 DEF Expire, Expired, Due, ScheduleTypes, ConfTypes, RestTypes
<1>10. CASE PhySlot
  <2> DEFINE key == Head(phyTx).key
  <2>1. /\ key \in Keys /\ Tail(phyTx) \in Seq(Request)
        /\ Len(Tail(phyTx)) <= QDepth
    <3>1. phyTx \in Seq(Request) /\ Len(phyTx) <= QDepth /\ phyTx # <<>>
      BY <1>10 DEF ScheduleTypes, PhySlot
    <3>2. /\ Head(phyTx) \in Request /\ Tail(phyTx) \in Seq(Request)
          /\ Len(Tail(phyTx)) = Len(phyTx) - 1 /\ Len(phyTx) \in Nat
      BY <3>1, QueueTyped
    <3> QED  BY <3>1, <3>2, BoundsAssumption DEF Request
  <2>2. /\ phyTx' = Tail(phyTx)
        /\ aired' = [aired EXCEPT ![key] = @ + 1]
        /\ \/ /\ Len(phyConf) < QDepth
              /\ phyConf' = Append(phyConf, [key |-> key, ok |-> TRUE])
              /\ dropped' = dropped
           \/ dropped' = dropped \cup {key} /\ phyConf' = phyConf
    BY <1>10 DEF PhySlot
  <2> HIDE DEF key
  <2>3. aired' \in [Keys -> Nat]
    BY <2>1, <2>2 DEF RestTypes
  <2>4. phyConf' \in Seq(PhyDone) /\ Len(phyConf') <= QDepth
    <3>1. [key |-> key, ok |-> TRUE] \in PhyDone
      BY <2>1 DEF PhyDone
    <3>2. phyConf \in Seq(PhyDone) /\ Len(phyConf) <= QDepth
      BY DEF RestTypes
    <3>3. CASE phyConf' = phyConf
      BY <3>2, <3>3
    <3>4. CASE /\ Len(phyConf) < QDepth
               /\ phyConf' = Append(phyConf, [key |-> key, ok |-> TRUE])
      BY <3>1, <3>2, <3>4, QueueTyped, BoundsAssumption
    <3> QED  BY <2>2, <3>3, <3>4
  <2>5. dropped' \subseteq Keys
    BY <1>0, <2>1, <2>2 DEF ConfTypes
  <2>6. ScheduleTypes'
    BY <1>10, <2>1, <2>2, <2>5 DEF PhySlot, ScheduleTypes, ConfTypes
  <2>7. RestTypes'
    BY <1>10, <2>3, <2>4 DEF PhySlot, RestTypes
  <2> QED  BY <2>6, <2>7
<1>11. CASE PhyFault
  <2>1. PICK key \in Keys \cup {Garbage} :
          phyConf' = Append(phyConf, [key |-> key, ok |-> FALSE])
    BY <1>11 DEF PhyFault
  <2>2. phyConf' \in Seq(PhyDone) /\ Len(phyConf') <= QDepth
    <3>1. [key |-> key, ok |-> FALSE] \in PhyDone
      BY DEF PhyDone
    <3>2. phyConf \in Seq(PhyDone) /\ Len(phyConf) < QDepth
      BY <1>11 DEF RestTypes, PhyFault
    <3> QED  BY <2>1, <3>1, <3>2, QueueTyped, BoundsAssumption
  <2>3. faults' \in 0..MaxFaults
    BY <1>11, BoundsAssumption DEF PhyFault, RestTypes
  <2> QED
    BY <1>11, <2>2, <2>3 DEF PhyFault, ScheduleTypes, ConfTypes, RestTypes
<1>12. CASE ChannelBurst
  <2>1. /\ phyRx' \in Seq(Bursts) /\ Len(phyRx') <= QDepth
        /\ noise' \subseteq Bursts
    <3>1. phyRx \in Seq(Bursts) /\ Len(phyRx) <= QDepth /\ noise \subseteq Bursts
      BY DEF RestTypes
    <3>2. PICK burst \in Bursts :
            \/ /\ Len(phyRx) < QDepth /\ phyRx' = Append(phyRx, burst)
               /\ noise' = noise \cup {burst}
            \/ UNCHANGED <<phyRx, noise>>
      BY <1>12 DEF ChannelBurst
    <3>3. /\ Append(phyRx, burst) \in Seq(Bursts) /\ Len(phyRx) \in Nat
          /\ Len(Append(phyRx, burst)) = Len(phyRx) + 1
      BY <3>1, <3>2, QueueTyped
    <3>4. CASE UNCHANGED <<phyRx, noise>>
      BY <3>1, <3>4
    <3>5. CASE Len(phyRx) < QDepth /\ phyRx' = Append(phyRx, burst)
      <4>1. Len(phyRx') <= QDepth
        BY <3>3, <3>5, BoundsAssumption
      <4> QED  BY <3>1, <3>2, <3>3, <3>5, <4>1
    <3> QED  BY <3>2, <3>4, <3>5
  <2> QED
    BY <1>12, <2>1 DEF ChannelBurst, ScheduleTypes, ConfTypes, RestTypes
<1>13. ASSUME NEW c \in Clients, NEW mode \in Modes[c], Submit(c, mode)
       PROVE  ScheduleTypes' /\ RestTypes'
  <2> DEFINE req == [key |-> <<c, nextId[c]>>, mode |-> mode]
  <2>1. nextId[c] \in Ids
    <3>1. nextId[c] \in 1..(MaxReq + 1) /\ Quota[c] \in 0..MaxReq /\ MaxReq \in Nat
      BY BoundsAssumption DEF RestTypes
    <3>2. nextId[c] <= Quota[c]
      BY <1>13 DEF Submit
    <3> QED  BY <3>1, <3>2 DEF Ids
  <2>2. req \in Request
    BY <2>1, ClientsAssumption DEF Request, Keys
  <2>3. txReq' \in Seq(Request) /\ Len(txReq') <= QDepth
    <3>1. txReq \in Seq(Request) /\ Len(txReq) < QDepth /\ txReq' = Append(txReq, req)
      BY <1>13 DEF RestTypes, Submit
    <3> QED  BY <2>2, <3>1, QueueTyped, BoundsAssumption
  <2>4. nextId' \in [Clients -> 1..(MaxReq + 1)]
    BY <1>13, <2>1, BoundsAssumption DEF Submit, RestTypes, Ids
  <2>5. UNCHANGED <<chState, pending, hasPending, tmr, batch, phyTx, phyConf, phyRx, done,
                    confQ, verdicts, dropped, listened, waited, heard, noise, cancelling,
                    faults, aired>>
    BY <1>13 DEF Submit, macVars, confVars, clockVars
  <2>6. ScheduleTypes'
    BY <2>5 DEF ScheduleTypes, ConfTypes
  <2> QED
    BY <2>3, <2>4, <2>5, <2>6 DEF RestTypes
<1>14. ASSUME NEW c \in Clients, TakeConf(c)
       PROVE  ScheduleTypes' /\ RestTypes'
  <2>1. confQ[c] \in Seq(Conf) /\ confQ[c] # <<>> /\ Len(confQ[c]) <= QDepth
    BY <1>0, <1>14 DEF ConfTypes, TakeConf
  <2>2. /\ Head(confQ[c]) \in Conf /\ Tail(confQ[c]) \in Seq(Conf)
        /\ Len(Tail(confQ[c])) <= QDepth
    BY <2>1, QueueTyped, BoundsAssumption
  <2>3. confQ' = [confQ EXCEPT ![c] = Tail(confQ[c])]
    BY <1>14 DEF TakeConf
  <2>4. ConfTypes'
    <3>1. confQ' \in [Clients -> Seq(Conf)]
      BY <1>0, <2>2, <2>3 DEF ConfTypes
    <3>2. ASSUME NEW d \in Clients PROVE Len(confQ'[d]) <= QDepth
      <4>1. CASE d = c
        <5>1. confQ'[d] = Tail(confQ[c])
          BY <1>0, <2>3, <4>1 DEF ConfTypes
        <5> QED  BY <2>2, <5>1
      <4>2. CASE d # c
        BY <1>0, <2>3, <4>2 DEF ConfTypes
      <4> QED  BY <4>1, <4>2
    <3> QED  BY <1>0, <1>14, <3>1, <3>2 DEF TakeConf, ConfTypes
  <2>5. done' \in [Clients -> SUBSET Ids]
    BY <1>14, <2>2 DEF TakeConf, RestTypes, Conf
  <2> QED
    BY <1>14, <2>4, <2>5 DEF TakeConf, ScheduleTypes, RestTypes
<1>15. ASSUME NEW id \in Ids, CancelBegin(id)
       PROVE  ScheduleTypes' /\ RestTypes'
  BY <1>0, <1>15, DisarmAllTyped
  DEF CancelBegin, ScheduleTypes, ConfTypes, RestTypes
<1>16. CASE CancelEnd
  <2>1. <<pending.key[1], cancelling>> \in Keys \cup {Garbage} /\ "CANCELLED" \in Results
    BY <1>0, <1>16 DEF CancelEnd, RestTypes, Request, Keys, Results
  <2>2. ConfTypes'
    BY <1>0, <1>16, <2>1, PostConfTyped DEF CancelEnd
  <2> QED
    BY <1>16, <2>2 DEF CancelEnd, ScheduleTypes, RestTypes
<1>17. CASE UNCHANGED vars
  BY <1>17 DEF vars, ScheduleTypes, ConfTypes, RestTypes
<1> QED
  BY <1>1, <1>2, <1>3, <1>4, <1>5, <1>6, <1>7, <1>8, <1>9, <1>10, <1>11,
     <1>12, <1>13, <1>14, <1>15, <1>16, <1>17
  DEF Next, MacStep

\* Every variable keeps its type: nothing a timer, a queue or a handler does
\* leaves the ranges TypeOK names.
THEOREM TypeCorrect == Spec => []TypeOK
  BY InitTyped, NextTyped, PTL DEF Spec
----------------------------------------------------------------------------
(* No pending request waits for nothing.                                   *)

\* What is in a queue stays there when something is added.
LEMMA Added ==
  ASSUME NEW S, NEW q \in Seq(S), NEW e \in S, NEW r
  PROVE  /\ InQueue(Append(q, e), e)
         /\ InQueue(q, r) => InQueue(Append(q, e), r)
         /\ ConfirmedBy(Append(q, e), e.key)
         /\ ConfirmedBy(q, r) => ConfirmedBy(Append(q, e), r)
<1>1. /\ Len(q) + 1 \in DOMAIN Append(q, e) /\ Append(q, e)[Len(q) + 1] = e
      /\ \A i \in DOMAIN q : /\ i \in DOMAIN Append(q, e)
                            /\ Append(q, e)[i] = q[i]
  OBVIOUS
<1> QED
  BY <1>1 DEF InQueue, ConfirmedBy

\* Only its head leaves a queue when something is taken.
LEMMA Taken ==
  ASSUME NEW S, NEW q \in Seq(S), NEW r, InQueue(q, r), q # <<>>, r # Head(q)
  PROVE  InQueue(Tail(q), r)
<1>1. PICK i \in 1..Len(q) : q[i] = r
  BY DEF InQueue
<1>2. i # 1
  BY <1>1
<1>3. i - 1 \in DOMAIN Tail(q) /\ Tail(q)[i - 1] = q[i]
  BY <1>1, <1>2
<1> QED
  BY <1>1, <1>3 DEF InQueue

\* After mac_tx_slot_schedule() a request is still pending only if the PHY has
\* its burst.
LEMMA ScheduleHandsOver ==
  ASSUME phyTx \in Seq(Request), NEW req \in Request, NEW has \in BOOLEAN,
         NEW tm, NEW st, SlotSchedule(req, has, tm, st), ~has => ~hasPending
  PROVE  hasPending' => InQueue(phyTx', req)
<1>1. CASE phyTx' = Append(phyTx, req)
  BY <1>1, Added
<1>2. CASE phyTx' # Append(phyTx, req)
  BY <1>2 DEF SlotSchedule
<1> QED  BY <1>1, <1>2

\* Timers are independent of each other, and one just started is running.
LEMMA TimersApart ==
  ASSUME NEW tm \in [Timers -> Timer], NEW t \in Timers, NEW u \in Timers, NEW k
  PROVE  /\ Arm(tm, t, k)[t].kern = "running"
         /\ t # u => /\ Arm(tm, t, k)[u] = tm[u]
                     /\ Disarm(tm, t)[u] = tm[u]
                     /\ Drain(tm, t)[u] = tm[u]
  BY DEF Arm, Disarm, Drain

\* What PendingWatched asks of a pending request.
Watched ==
  \/ pending.mode # "impolite" /\ tmr["tx_lmt"].kern # "off"
  \/ InQueue(phyTx, pending)
  \/ ConfirmedBy(phyConf, pending.key)
  \/ pending.key \in dropped

LEMMA InitWatched == Init => PendingWatched
  BY DEF Init, PendingWatched

LEMMA NextWatched == TypeOK /\ PendingWatched /\ [Next]_vars => PendingWatched'
<1> SUFFICES ASSUME TypeOK, PendingWatched, [Next]_vars, hasPending'
             PROVE  Watched'
  BY DEF PendingWatched, Watched, Live
<1> USE DEF macVars, queueVars, confVars
<1>0. /\ tmr \in [Timers -> Timer] /\ pending \in Request /\ hasPending \in BOOLEAN
      /\ txReq \in Seq(Request) /\ phyTx \in Seq(Request)
      /\ phyConf \in Seq(PhyDone)
  BY DEF TypeOK
<1>a. hasPending => Watched
  BY DEF PendingWatched, Watched, Live
\* A step that leaves the request and its watchers alone.
<1>b. ASSUME hasPending' = hasPending, pending' = pending, phyTx' = phyTx,
             phyConf' = phyConf, dropped \subseteq dropped',
             tmr'["tx_lmt"].kern = tmr["tx_lmt"].kern
             \/ tmr'["tx_lmt"].kern # "off"
      PROVE  Watched'
  BY <1>a, <1>b DEF Watched
<1>1. CASE EpollWait
  BY <1>1, <1>b DEF EpollWait
<1>2. CASE IdleSrchEvent
  <2> DEFINE tm == Disarm(Drain(tmr, "idle_srch"), "tx_lmt")
  <2>1. CASE chState = "QUALIFY_IDLE"
    <3>1. SlotSchedule(pending, hasPending, tm, "TX_PENDING") /\ pending' = pending
      BY <1>2, <2>1 DEF IdleSrchEvent
    <3>2. InQueue(phyTx', pending)
      <4> HIDE DEF tm
      <4> QED  BY <1>0, <3>1, ScheduleHandsOver
    <3> QED
      BY <3>1, <3>2 DEF Watched
  <2>2. CASE chState # "QUALIFY_IDLE"
    <3>1. tmr'["tx_lmt"] = tmr["tx_lmt"]
      BY <1>0, <1>2, <2>2 DEF IdleSrchEvent, Drain
    <3> QED
      BY <1>2, <1>b, <2>2, <3>1 DEF IdleSrchEvent
  <2> QED  BY <2>1, <2>2
<1>3. CASE HoldoffEvent
  <2> DEFINE drained == Drain(tmr, "holdoff")
  <2>1. drained \in [Timers -> Timer] /\ drained["tx_lmt"] = tmr["tx_lmt"]
    BY <1>0, TimersTyped, TimersApart, DelaysFit
  <2>2. Arm(drained, "idle_srch", IdleSrch)["tx_lmt"] = tmr["tx_lmt"]
    <3> HIDE DEF drained
    <3> QED  BY <2>1, TimersApart
  <2> QED
    BY <1>3, <1>b, <2>1, <2>2 DEF HoldoffEvent, HoldoffWith
<1>4. CASE TxLmtEvent
  <2>1. ~hasPending
    BY <1>4 DEF TxLmtEvent
  <2> QED
    BY <1>4, <2>1 DEF TxLmtEvent
<1>5. CASE TxReqEvent
  <2> DEFINE req == Head(txReq)
             limited == Arm(tmr, "tx_lmt", TxLmt)
  <2>1. req \in Request
    BY <1>0, <1>5, QueueTyped DEF TxReqEvent
  <2>2. limited \in [Timers -> Timer] /\ limited["tx_lmt"].kern = "running"
    BY <1>0, TimersTyped, TimersApart, DelaysFit
  <2>3. Arm(limited, "idle_srch", IdleSrch)["tx_lmt"].kern = "running"
    <3> HIDE DEF limited
    <3> QED  BY <2>2, TimersApart
  <2> HIDE DEF req, limited
  <2>4. CASE RejectLate(req)
    <3>1. dropped \subseteq dropped'
      BY <2>4 DEF RejectLate, PostConf
    <3> QED
      BY <1>5, <1>b, <2>4, <3>1 DEF TxReqEvent, RejectLate
  <2>5. CASE Accept(req) /\ req.mode = "impolite"
    <3>1. SlotSchedule(req, TRUE, tmr, chState) /\ pending' = req
      BY <2>5 DEF Accept, AcceptWith
    <3>2. InQueue(phyTx', req)
      BY <1>0, <2>1, <3>1, ScheduleHandsOver
    <3> QED
      BY <3>1, <3>2 DEF Watched
  <2>6. CASE Accept(req) /\ req.mode # "impolite"
    <3>1. /\ pending' = req /\ tmr' = Arm(limited, "idle_srch", IdleSrch)
      BY <2>6 DEF Accept, AcceptWith, limited
    <3> QED
      BY <2>3, <2>6, <3>1 DEF Watched
  <2> QED
    BY <1>5, <2>4, <2>5, <2>6 DEF TxReqEvent, req
<1>6. CASE RxBurstEvent
  <2> DEFINE calm == Disarm(tmr, "idle_srch")
  <2>1. calm \in [Timers -> Timer] /\ calm["tx_lmt"] = tmr["tx_lmt"]
    BY <1>0, TimersTyped, TimersApart, DelaysFit
  <2>2. \A bursts : Arm(calm, "holdoff", bursts)["tx_lmt"] = tmr["tx_lmt"]
    <3> HIDE DEF calm
    <3> QED  BY <2>1, TimersApart
  <2> QED
    BY <1>6, <1>b, <2>2 DEF RxBurstEvent, HandleRxBurst
<1>7. CASE PhyConfEvent
  BY <1>7 DEF PhyConfEvent, PhyConfWith
<1>8. CASE Tick
  <2>1. tmr'["tx_lmt"].kern = tmr["tx_lmt"].kern
    BY <1>0, <1>8 DEF Tick, Timer
  <2> QED
    BY <1>8, <1>b, <2>1 DEF Tick
<1>9. ASSUME NEW t \in Timers, Expire(t) PROVE Watched'
  <2>1. tmr'["tx_lmt"] = tmr["tx_lmt"] \/ tmr'["tx_lmt"].kern = "expired"
    BY <1>0, <1>9 DEF Expire, Expired, Due, Timer
  <2> QED
    BY <1>9, <1>b, <2>1 DEF Expire, Expired, Due
<1>10. CASE PhySlot
  <2> DEFINE key == Head(phyTx).key
             answer == [key |-> key, ok |-> TRUE]
  <2>1. /\ pending' = pending /\ hasPending /\ tmr' = tmr /\ phyTx # <<>>
        /\ phyTx' = Tail(phyTx)
        /\ \/ phyConf' = Append(phyConf, answer) /\ dropped' = dropped
           \/ phyConf' = phyConf /\ dropped' = dropped \cup {key}
    BY <1>10 DEF PhySlot
  <2>2. answer \in PhyDone /\ answer.key = key
    <3>1. Head(phyTx) \in Request
      BY <1>0, <2>1, QueueTyped
    <3> QED  BY <3>1 DEF Request, PhyDone
  <2> HIDE DEF answer
  <2>3. /\ ConfirmedBy(Append(phyConf, answer), key)
        /\ ConfirmedBy(phyConf, pending.key)
             => ConfirmedBy(Append(phyConf, answer), pending.key)
    <3>1. ConfirmedBy(Append(phyConf, answer), answer.key)
      BY <1>0, <2>2, Added
    <3>2. ConfirmedBy(phyConf, pending.key)
            => ConfirmedBy(Append(phyConf, answer), pending.key)
      BY <1>0, <2>2, Added
    <3> QED  BY <2>2, <3>1, <3>2
  <2>4. /\ ConfirmedBy(phyConf', key) \/ key \in dropped'
        /\ ConfirmedBy(phyConf, pending.key) => ConfirmedBy(phyConf', pending.key)
    <3>1. CASE phyConf' = Append(phyConf, answer)
      BY <2>3, <3>1
    <3>2. CASE phyConf' # Append(phyConf, answer)
      BY <2>1, <3>2
    <3> QED  BY <3>1, <3>2
  <2>5. CASE InQueue(phyTx, pending)
    <3>1. pending = Head(phyTx) \/ InQueue(Tail(phyTx), pending)
      BY <1>0, <2>1, <2>5, Taken
    <3> QED
      BY <2>1, <2>4, <3>1 DEF Watched
  <2>6. CASE ~InQueue(phyTx, pending)
    BY <1>a, <2>1, <2>4, <2>6 DEF Watched
  <2> QED  BY <2>5, <2>6
<1>11. CASE PhyFault
  <2>1. PICK key \in Keys \cup {Garbage} :
          phyConf' = Append(phyConf, [key |-> key, ok |-> FALSE])
    BY <1>11 DEF PhyFault
  <2>2. [key |-> key, ok |-> FALSE] \in PhyDone
    BY DEF PhyDone
  <2>3. ConfirmedBy(phyConf, pending.key) => ConfirmedBy(phyConf', pending.key)
    BY <1>0, <2>1, <2>2, Added
  <2>4. /\ pending' = pending /\ hasPending /\ tmr' = tmr /\ phyTx' = phyTx
        /\ dropped' = dropped
    BY <1>11 DEF PhyFault
  <2> QED
    BY <1>a, <2>3, <2>4 DEF Watched
<1>12. CASE ChannelBurst
  BY <1>12, <1>b DEF ChannelBurst
<1>13. ASSUME NEW c \in Clients, NEW mode \in Modes[c], Submit(c, mode)
       PROVE  Watched'
  BY <1>13, <1>b DEF Submit
<1>14. ASSUME NEW c \in Clients, TakeConf(c) PROVE Watched'
  BY <1>14, <1>b DEF TakeConf
<1>15. ASSUME NEW id \in Ids, CancelBegin(id) PROVE Watched'
  BY <1>15 DEF CancelBegin
<1>16. CASE CancelEnd
  <2>1. dropped \subseteq dropped'
    BY <1>16 DEF CancelEnd, PostConf
  <2> QED
    BY <1>16, <1>b, <2>1 DEF CancelEnd
<1>17. CASE UNCHANGED vars
  BY <1>17, <1>b DEF vars
<1> QED
  BY <1>1, <1>2, <1>3, <1>4, <1>5, <1>6, <1>7, <1>8, <1>9, <1>10, <1>11,
     <1>12, <1>13, <1>14, <1>15, <1>16, <1>17
  DEF Next, MacStep

\* A request the MAC holds is never forgotten: whatever the modules, the
\* channel, the PHY and an application that cancels do, either its limit timer
\* runs, or the PHY has the burst, or the answer is on its way or was dropped.
THEOREM PendingAlwaysWatched == Spec => []PendingWatched
  BY TypeCorrect, InitWatched, NextWatched, PTL DEF Spec
----------------------------------------------------------------------------
(* Listen-before-transmit always has a timer to take it on.                *)

\* What LbtArmed asks of the state, when nobody cancels.
Listening ==
  /\ chState \in {"QUALIFY_IDLE", "HOLDOFF"}
       => hasPending /\ tmr["tx_lmt"].kern # "off"
  /\ chState = "QUALIFY_IDLE" => tmr["idle_srch"].kern # "off"
  /\ chState = "HOLDOFF" => tmr["holdoff"].kern # "off"

LEMMA InitArmed == Init => LbtArmed
  BY DEF Init, LbtArmed

\* mac_tx_slot_schedule() leaves the LBT states or is called outside them.
LEMMA ScheduleListens ==
  ASSUME NEW req, NEW has \in BOOLEAN, NEW tm, NEW st, SlotSchedule(req, has, tm, st)
  PROVE  \/ chState' = "IDLE_MONITOR"
         \/ /\ chState' = st /\ tmr' = tm
            /\ hasPending' = has \/ (~has /\ hasPending' = hasPending)
  BY DEF SlotSchedule

LEMMA NextArmed == TypeOK /\ LbtArmed /\ [Next]_vars => LbtArmed'
<1> SUFFICES ASSUME TypeOK, LbtArmed, [Next]_vars, ~AllowCancel PROVE Listening'
  BY DEF LbtArmed, Listening, Live
<1> USE DEF macVars
<1>0. /\ tmr \in [Timers -> Timer] /\ hasPending \in BOOLEAN /\ Listening
  BY DEF TypeOK, LbtArmed, Listening, Live
<1>a. ASSUME chState' = chState, hasPending' = hasPending,
             \A t \in Timers : tmr'[t].kern = tmr[t].kern \/ tmr'[t].kern # "off"
      PROVE  Listening'
  BY <1>0, <1>a DEF Listening
<1>b. ASSUME chState' \in {"IDLE_MONITOR", "TX_PENDING"} PROVE Listening'
  BY <1>b DEF Listening
<1>1. CASE EpollWait
  BY <1>1, <1>a DEF EpollWait
<1>2. CASE IdleSrchEvent
  <2> DEFINE tm == Disarm(Drain(tmr, "idle_srch"), "tx_lmt")
  <2>1. CASE chState = "QUALIFY_IDLE"
    <3>1. SlotSchedule(pending, hasPending, tm, "TX_PENDING")
      BY <1>2, <2>1 DEF IdleSrchEvent
    <3> HIDE DEF tm
    <3> QED
      BY <1>0, <1>b, <3>1, ScheduleListens
  <2>2. CASE chState # "QUALIFY_IDLE"
    <3>1. /\ tmr' = Drain(tmr, "idle_srch") /\ chState' = chState
          /\ hasPending' = hasPending
      BY <1>2, <2>2 DEF IdleSrchEvent
    <3>2. tmr'["tx_lmt"] = tmr["tx_lmt"] /\ tmr'["holdoff"] = tmr["holdoff"]
      BY <1>0, <3>1, TimersApart
    <3> QED
      BY <1>0, <2>2, <3>1, <3>2 DEF Listening
  <2> QED  BY <2>1, <2>2
<1>3. CASE HoldoffEvent
  <2> DEFINE drained == Drain(tmr, "holdoff")
  <2>1. /\ drained \in [Timers -> Timer] /\ drained["tx_lmt"] = tmr["tx_lmt"]
        /\ drained["idle_srch"] = tmr["idle_srch"]
    BY <1>0, TimersTyped, TimersApart, DelaysFit
  <2>2. CASE chState = "HOLDOFF"
    <3>1. /\ tmr' = Arm(drained, "idle_srch", IdleSrch)
          /\ chState' = "QUALIFY_IDLE" /\ hasPending' = hasPending
      BY <1>3, <2>2 DEF HoldoffEvent, HoldoffWith
    <3>2. tmr'["tx_lmt"] = tmr["tx_lmt"] /\ tmr'["idle_srch"].kern = "running"
      <4> HIDE DEF drained
      <4> QED  BY <2>1, <3>1, TimersApart
    <3> QED
      BY <1>0, <2>2, <3>1, <3>2 DEF Listening
  <2>3. CASE chState # "HOLDOFF"
    <3>1. tmr' = drained /\ chState' = chState /\ hasPending' = hasPending
      BY <1>3, <2>3 DEF HoldoffEvent, HoldoffWith
    <3> QED
      BY <1>0, <2>1, <2>3, <3>1 DEF Listening
  <2> QED  BY <2>2, <2>3
<1>4. CASE TxLmtEvent
  <2>1. CASE hasPending
    BY <1>4, <1>b, <2>1 DEF TxLmtEvent
  <2>2. CASE ~hasPending
    BY <1>0, <1>4, <2>2 DEF TxLmtEvent, Listening
  <2> QED  BY <2>1, <2>2
<1>5. CASE TxReqEvent
  <2> DEFINE req == Head(txReq)
             limited == Arm(tmr, "tx_lmt", TxLmt)
  <2>1. limited \in [Timers -> Timer] /\ limited["tx_lmt"].kern = "running"
    BY <1>0, TimersTyped, TimersApart, DelaysFit
  <2>2. /\ Arm(limited, "idle_srch", IdleSrch)["tx_lmt"].kern = "running"
        /\ Arm(limited, "idle_srch", IdleSrch)["idle_srch"].kern = "running"
    <3> HIDE DEF limited
    <3> QED  BY <2>1, TimersApart
  <2> HIDE DEF req, limited
  <2>3. CASE RejectLate(req)
    BY <1>a, <2>3 DEF RejectLate
  <2>4. CASE Accept(req) /\ req.mode = "impolite"
    <3>1. SlotSchedule(req, TRUE, tmr, chState)
      BY <2>4 DEF Accept, AcceptWith
    <3>2. \/ chState' = "IDLE_MONITOR"
          \/ chState' = chState /\ tmr' = tmr /\ hasPending' = TRUE
      BY <3>1, ScheduleListens
    <3> QED
      BY <1>0, <1>b, <3>2 DEF Listening
  <2>5. CASE Accept(req) /\ req.mode # "impolite"
    <3>1. /\ hasPending' = TRUE /\ chState' = "QUALIFY_IDLE"
          /\ tmr' = Arm(limited, "idle_srch", IdleSrch)
      BY <2>5 DEF Accept, AcceptWith, limited
    <3> QED
      BY <2>2, <3>1 DEF Listening
  <2> QED
    BY <1>5, <2>3, <2>4, <2>5 DEF TxReqEvent, req
<1>6. CASE RxBurstEvent
  <2> DEFINE calm == Disarm(tmr, "idle_srch")
  <2>1. calm \in [Timers -> Timer] /\ calm["tx_lmt"] = tmr["tx_lmt"]
    BY <1>0, TimersTyped, TimersApart, DelaysFit
  <2>2. CASE DataWhileListening
    <3>1. PICK bursts \in 0..HoldoffMax : tmr' = Arm(calm, "holdoff", bursts)
      BY <1>6, <2>2 DEF RxBurstEvent, HandleRxBurst
    <3>2. tmr'["tx_lmt"] = tmr["tx_lmt"] /\ tmr'["holdoff"].kern = "running"
      <4> HIDE DEF calm
      <4> QED  BY <2>1, <3>1, TimersApart
    <3> QED
      BY <1>0, <1>6, <2>2, <3>2
      DEF RxBurstEvent, HandleRxBurst, DataWhileListening, Listening
  <2>3. CASE ~DataWhileListening
    BY <1>6, <1>a, <2>3 DEF RxBurstEvent, HandleRxBurst
  <2> QED  BY <2>2, <2>3
<1>7. CASE PhyConfEvent
  BY <1>7, <1>b DEF PhyConfEvent, PhyConfWith
<1>8. CASE Tick
  <2>1. ASSUME NEW t \in Timers PROVE tmr'[t].kern = tmr[t].kern
    BY <1>0, <1>8 DEF Tick, Timer
  <2> QED
    BY <1>8, <1>a, <2>1 DEF Tick
<1>9. ASSUME NEW t \in Timers, Expire(t) PROVE Listening'
  <2>1. ASSUME NEW u \in Timers
        PROVE  tmr'[u].kern = tmr[u].kern \/ tmr'[u].kern # "off"
    BY <1>0, <1>9 DEF Expire, Expired, Due, Timer
  <2> QED
    BY <1>9, <1>a, <2>1 DEF Expire, Expired, Due
<1>10. CASE PhySlot
  BY <1>10, <1>a DEF PhySlot
<1>11. CASE PhyFault
  BY <1>11, <1>a DEF PhyFault
<1>12. CASE ChannelBurst
  BY <1>12, <1>a DEF ChannelBurst
<1>13. ASSUME NEW c \in Clients, NEW mode \in Modes[c], Submit(c, mode)
       PROVE  Listening'
  BY <1>13, <1>a DEF Submit
<1>14. ASSUME NEW c \in Clients, TakeConf(c) PROVE Listening'
  BY <1>14, <1>a DEF TakeConf
<1>15. ASSUME NEW id \in Ids, CancelBegin(id) PROVE Listening'
  BY <1>15 DEF CancelBegin
<1>16. CASE CancelEnd
  BY <1>16, <1>b DEF CancelEnd
<1>17. CASE UNCHANGED vars
  BY <1>17, <1>a DEF vars
<1> QED
  BY <1>1, <1>2, <1>3, <1>4, <1>5, <1>6, <1>7, <1>8, <1>9, <1>10, <1>11,
     <1>12, <1>13, <1>14, <1>15, <1>16, <1>17
  DEF Next, MacStep

\* Unless an application cancels, a MAC that listens before it transmits has a
\* request to serve, the timer that ends the state it is in, and the limit
\* timer, whatever other requests and stale expiries come in between.
THEOREM LbtAlwaysArmed == Spec => []LbtArmed
  BY TypeCorrect, InitArmed, NextArmed, PTL DEF Spec

----------------------------------------------------------------------------
(* What is heard while the MAC listens.                                    *)

\* A value in a queue stays in it while others are taken from the front and
\* whatever is put at the back.
LEMMA StaysQueued ==
  ASSUME NEW S, NEW q \in Seq(S), NEW i \in DOMAIN q
  PROVE  /\ \A e \in S : i \in DOMAIN Append(q, e) /\ Append(q, e)[i] = q[i]
         /\ q # <<>> /\ q[i] # Head(q) =>
              \E j \in DOMAIN Tail(q) : Tail(q)[j] = q[i]
<1>1. i \in 1..Len(q) /\ Len(q) \in Nat
  OBVIOUS
<1>2. ASSUME NEW e \in S PROVE i \in DOMAIN Append(q, e) /\ Append(q, e)[i] = q[i]
  BY <1>1
<1>3. ASSUME q # <<>>, q[i] # Head(q)
      PROVE  \E j \in DOMAIN Tail(q) : Tail(q)[j] = q[i]
  <2>1. i # 1
    BY <1>3
  <2>2. i - 1 \in DOMAIN Tail(q) /\ Tail(q)[i - 1] = q[i]
    BY <1>1, <1>3, <2>1
  <2> QED  BY <2>2
<1> QED  BY <1>2, <1>3

\* The value put at the back is in the queue.
LEMMA NewlyQueued ==
  ASSUME NEW S, NEW q \in Seq(S), NEW e \in S
  PROVE  \E j \in DOMAIN Append(q, e) : Append(q, e)[j] = e
<1>1. /\ Len(q) + 1 \in DOMAIN Append(q, e)
      /\ Append(q, e)[Len(q) + 1] = e
  OBVIOUS
<1> QED  BY <1>1

\* Nothing is heard or read, and if the MAC listens it did before.
LEMMA NoticedKept ==
  ASSUME DataNoticed, UNCHANGED <<phyRx, noise>>,
         chState' = "QUALIFY_IDLE" => chState = "QUALIFY_IDLE"
  PROVE  DataNoticed'
  BY DEF DataNoticed, Noticed, Unread

\* The MAC begins to listen.
LEMMA NoticedAfresh == ASSUME noise' = {} PROVE DataNoticed'
  BY DEF DataNoticed, Noticed

\* A burst is read: data ends the listening, and anything else leaves the
\* data behind it where it is.
LEMMA ReadNoticed ==
  ASSUME TypeOK, DataNoticed, RxBurstEvent
  PROVE  DataNoticed'
<1>1. phyRx \in Seq(Bursts) /\ phyRx # <<>> /\ phyRx' = Tail(phyRx) /\ noise' = noise
  BY DEF TypeOK, RxBurstEvent, HandleRxBurst, clockVars
<1>2. CASE DataWhileListening
  <2>1. chState' # "QUALIFY_IDLE"
    BY <1>2 DEF RxBurstEvent, HandleRxBurst
  <2> QED  BY <2>1 DEF DataNoticed, Noticed
<1>3. CASE ~DataWhileListening
  <2> SUFFICES ASSUME chState' = "QUALIFY_IDLE", "data" \in noise'
               PROVE  Unread("data")'
    BY DEF DataNoticed, Noticed
  <2>1. chState = "QUALIFY_IDLE" /\ Head(phyRx) # "data"
    BY <1>3 DEF RxBurstEvent, HandleRxBurst, DataWhileListening
  <2>2. PICK i \in DOMAIN phyRx : phyRx[i] = "data"
    BY <1>1, <2>1 DEF DataNoticed, Noticed, Unread
  <2>3. \E j \in DOMAIN Tail(phyRx) : Tail(phyRx)[j] = "data"
    BY <1>1, <2>1, <2>2, StaysQueued
  <2> QED  BY <1>1, <2>3 DEF Unread
<1> QED  BY <1>2, <1>3

\* A burst is heard: it is queued behind the others, or dropped.
LEMMA HeardNoticed ==
  ASSUME TypeOK, DataNoticed, ChannelBurst
  PROVE  DataNoticed'
<1>1. chState' = chState /\ phyRx \in Seq(Bursts)
  BY DEF ChannelBurst, macVars, TypeOK
<1>2. CASE UNCHANGED <<phyRx, noise>>
  BY <1>1, <1>2, NoticedKept
<1>3. ASSUME NEW burst \in Bursts, phyRx' = Append(phyRx, burst),
             noise' = noise \cup {burst}
      PROVE  DataNoticed'
  <2> SUFFICES ASSUME chState = "QUALIFY_IDLE", "data" \in noise \cup {burst}
               PROVE  \E j \in DOMAIN phyRx' : phyRx'[j] = "data"
    BY <1>1, <1>3 DEF DataNoticed, Noticed, Unread
  <2>1. CASE burst = "data"
    BY <1>1, <1>3, <2>1, NewlyQueued
  <2>2. CASE burst # "data"
    <3>1. PICK i \in DOMAIN phyRx : phyRx[i] = "data"
      BY <2>2 DEF DataNoticed, Noticed, Unread
    <3>2. i \in DOMAIN phyRx' /\ phyRx'[i] = "data"
      BY <1>1, <1>3, <3>1, StaysQueued
    <3> QED  BY <3>2
  <2> QED  BY <2>1, <2>2
<1> QED  BY <1>2, <1>3 DEF ChannelBurst

\* A request taken up begins to listen, or leaves the MAC as it listens.
LEMMA TakenUpNoticed ==
  ASSUME DataNoticed, TxReqEvent
  PROVE  DataNoticed'
<1>1. phyRx' = phyRx /\ (RejectLate(Head(txReq)) \/ Accept(Head(txReq)))
  BY DEF TxReqEvent
<1>2. CASE RejectLate(Head(txReq))
  BY <1>1, <1>2, NoticedKept DEF RejectLate
<1>3. CASE Accept(Head(txReq))
  <2>1. CASE Head(txReq).mode = "impolite"
    <3>1. SlotSchedule(Head(txReq), TRUE, tmr, chState) /\ noise' = noise
      BY <1>3, <2>1 DEF Accept, AcceptWith
    <3>2. chState' = "QUALIFY_IDLE" => chState = "QUALIFY_IDLE"
      BY <3>1 DEF SlotSchedule
    <3> QED  BY <1>1, <3>1, <3>2, NoticedKept
  <2>2. CASE Head(txReq).mode # "impolite"
    BY <1>3, <2>2, NoticedAfresh DEF Accept, AcceptWith
  <2> QED  BY <2>1, <2>2
<1> QED  BY <1>1, <1>2, <1>3

LEMMA NextNoticed == TypeOK /\ DataNoticed /\ [Next]_vars => DataNoticed'
<1> SUFFICES ASSUME TypeOK, DataNoticed, [Next]_vars PROVE DataNoticed'
  OBVIOUS
<1> USE DEF macVars, queueVars, clockVars
<1>a. ASSUME UNCHANGED <<phyRx, noise>>,
             chState' = "QUALIFY_IDLE" => chState = "QUALIFY_IDLE"
      PROVE  DataNoticed'
  BY <1>a, NoticedKept
<1>1. CASE EpollWait
  BY <1>1, <1>a DEF EpollWait
<1>2. CASE IdleSrchEvent
  <2>1. CASE chState = "QUALIFY_IDLE"
    BY <1>2, <2>1, <1>a DEF IdleSrchEvent
  <2>2. CASE chState # "QUALIFY_IDLE"
    BY <1>2, <2>2, <1>a DEF IdleSrchEvent
  <2> QED  BY <2>1, <2>2
<1>3. CASE HoldoffEvent
  <2>1. CASE chState = "HOLDOFF"
    BY <1>3, <2>1, NoticedAfresh DEF HoldoffEvent, HoldoffWith
  <2>2. CASE chState # "HOLDOFF"
    BY <1>3, <2>2, <1>a DEF HoldoffEvent, HoldoffWith
  <2> QED  BY <2>1, <2>2
<1>4. CASE TxLmtEvent
  BY <1>4, <1>a DEF TxLmtEvent
<1>5. CASE TxReqEvent
  BY <1>5, TakenUpNoticed
<1>6. CASE RxBurstEvent
  BY <1>6, ReadNoticed
<1>7. CASE PhyConfEvent
  BY <1>7, <1>a DEF PhyConfEvent, PhyConfWith
<1>8. CASE Tick
  BY <1>8, <1>a DEF Tick
<1>9. ASSUME NEW t \in Timers, Expire(t) PROVE DataNoticed'
  BY <1>9, <1>a DEF Expire
<1>10. CASE PhySlot
  BY <1>10, <1>a DEF PhySlot
<1>11. CASE PhyFault
  BY <1>11, <1>a DEF PhyFault
<1>12. CASE ChannelBurst
  BY <1>12, HeardNoticed
<1>13. ASSUME NEW c \in Clients, NEW mode \in Modes[c], Submit(c, mode)
       PROVE  DataNoticed'
  BY <1>13, <1>a DEF Submit
<1>14. ASSUME NEW c \in Clients, TakeConf(c) PROVE DataNoticed'
  BY <1>14, <1>a DEF TakeConf
<1>15. ASSUME NEW id \in Ids, CancelBegin(id) PROVE DataNoticed'
  BY <1>15, <1>a DEF CancelBegin
<1>16. CASE CancelEnd
  BY <1>16, <1>a DEF CancelEnd
<1>17. CASE UNCHANGED vars
  BY <1>17, <1>a DEF vars
<1> QED
  BY <1>1, <1>2, <1>3, <1>4, <1>5, <1>6, <1>7, <1>8, <1>9, <1>10, <1>11,
     <1>12, <1>13, <1>14, <1>15, <1>16, <1>17
  DEF Next, MacStep

\* Whatever the modules, the application and the PHY do and in whatever order
\* the thread serves its descriptors, a data burst queued since the MAC began
\* to listen is still unread while the MAC takes the channel for idle.
THEOREM DataAlwaysNoticed == Spec => []DataNoticed
<1>1. Init => DataNoticed
  BY DEF Init, DataNoticed, Noticed
<1> QED  BY TypeCorrect, <1>1, NextNoticed, PTL DEF Spec
----------------------------------------------------------------------------
(* OK is the truth.                                                        *)

\* The PHY's answers, not yet read, that will make the MAC report OK for k.
Oks(q, k) == {i \in DOMAIN q : q[i].ok /\ q[i].key = k}

\* Each time a burst goes out pays for one OK: delivered, or still to be read.
Accounted ==
  \A k \in Keys : verdicts[k]["OK"] + Cardinality(Oks(phyConf, k)) <= aired[k]

LEMMA OksFinite ==
  ASSUME NEW q \in Seq(PhyDone), NEW k
  PROVE  IsFiniteSet(Oks(q, k)) /\ Cardinality(Oks(q, k)) \in Nat
<1>1. Len(q) \in Nat
  OBVIOUS
<1>2. IsFiniteSet(1..Len(q))
  BY <1>1, FS_Interval
<1>3. Oks(q, k) \in SUBSET (1..Len(q))
  BY DEF Oks
<1> QED
  BY <1>2, <1>3, FS_Subset, FS_CardinalityType

\* An answer added counts for its request if it is a success, else for nobody.
LEMMA OksAdded ==
  ASSUME NEW q \in Seq(PhyDone), NEW e \in PhyDone, NEW k
  PROVE  Cardinality(Oks(Append(q, e), k)) =
           IF e.ok /\ e.key = k THEN Cardinality(Oks(q, k)) + 1
                                ELSE Cardinality(Oks(q, k))
<1> DEFINE n == Len(q) + 1
<1>1. /\ DOMAIN q = 1..Len(q) /\ Len(q) \in Nat
      /\ DOMAIN Append(q, e) = 1..n
      /\ Append(q, e)[n] = e
      /\ \A i \in 1..Len(q) : Append(q, e)[i] = q[i]
  OBVIOUS
<1>2. n \notin Oks(q, k)
  BY <1>1 DEF Oks
<1>3. CASE e.ok /\ e.key = k
  <2>1. Oks(Append(q, e), k) = Oks(q, k) \cup {n}
    BY <1>1, <1>3 DEF Oks
  <2>2. IsFiniteSet(Oks(q, k))
    BY OksFinite
  <2> HIDE DEF n
  <2>3. Cardinality(Oks(q, k) \cup {n}) = Cardinality(Oks(q, k)) + 1
    BY <1>2, <2>2, FS_AddElement
  <2> QED  BY <1>3, <2>1, <2>3
<1>4. CASE ~(e.ok /\ e.key = k)
  <2>1. Oks(Append(q, e), k) = Oks(q, k)
    BY <1>1, <1>4 DEF Oks
  <2> QED  BY <1>4, <2>1
<1> QED  BY <1>3, <1>4

\* An answer taken was counted for its request if it was a success.
LEMMA OksTaken ==
  ASSUME NEW q \in Seq(PhyDone), q # <<>>, NEW k
  PROVE  Cardinality(Oks(q, k)) =
           IF Head(q).ok /\ Head(q).key = k
             THEN Cardinality(Oks(Tail(q), k)) + 1
             ELSE Cardinality(Oks(Tail(q), k))
<1> DEFINE S == Oks(Tail(q), k)
           T == Oks(q, k) \ {1}
           F == [i \in S |-> i + 1]
<1>1. /\ DOMAIN q = 1..Len(q) /\ Len(q) \in Nat \ {0}
      /\ Head(q) = q[1]
      /\ DOMAIN Tail(q) = 1..(Len(q) - 1)
      /\ \A i \in 1..(Len(q) - 1) : Tail(q)[i] = q[i + 1]
  OBVIOUS
<1>2. S \subseteq Nat /\ \A i \in S : i + 1 \in T
  BY <1>1 DEF Oks
<1>3. \A j \in T : j - 1 \in S /\ j = (j - 1) + 1
  <2> SUFFICES ASSUME NEW j \in T PROVE j - 1 \in S /\ j = (j - 1) + 1
    OBVIOUS
  <2>1. j \in 1..Len(q) /\ j # 1 /\ q[j].ok /\ q[j].key = k
    BY <1>1 DEF Oks
  <2>2. j - 1 \in 1..(Len(q) - 1) /\ j = (j - 1) + 1
    BY <1>1, <2>1
  <2>3. Tail(q)[j - 1] = q[j]
    BY <1>1, <2>2
  <2> QED  BY <1>1, <2>1, <2>2, <2>3 DEF Oks
<1>4. F \in Bijection(S, T)
  <2> HIDE DEF S, T
  <2>1. F \in [S -> T]
    BY <1>2
  <2>2. \A a, b \in S : F[a] = F[b] => a = b
    BY <1>2
  <2>3. \A t \in T : \E s \in S : F[s] = t
    BY <1>3
  <2> HIDE DEF F
  <2> QED  BY <2>1, <2>2, <2>3, Fun_IsBij
<1>5. Tail(q) \in Seq(PhyDone)
  BY QueueTyped
<1>6. IsFiniteSet(S) /\ Cardinality(S) \in Nat
  BY <1>5, OksFinite
<1>7. Cardinality(T) = Cardinality(S)
  <2> HIDE DEF S, T, F
  <2>1. ExistsBijection(S, T)
    BY <1>4 DEF ExistsBijection
  <2> QED  BY <1>6, <2>1, FS_Bijection
<1>8. /\ IsFiniteSet(Oks(q, k)) /\ Cardinality(Oks(q, k)) \in Nat
      /\ Cardinality(T) = IF 1 \in Oks(q, k) THEN Cardinality(Oks(q, k)) - 1
                                             ELSE Cardinality(Oks(q, k))
  BY OksFinite, FS_RemoveElement
<1>9. 1 \in Oks(q, k) <=> Head(q).ok /\ Head(q).key = k
  BY <1>1 DEF Oks
<1> HIDE DEF S, T, F
<1>10. CASE 1 \in Oks(q, k)
  BY <1>6, <1>7, <1>8, <1>9, <1>10 DEF S
<1>11. CASE 1 \notin Oks(q, k)
  BY <1>6, <1>7, <1>8, <1>9, <1>11 DEF S
<1> QED  BY <1>10, <1>11

\* mac_post_tx_conf() adds a result to one request, and at most one.
LEMMA PostConfCounts ==
  ASSUME ConfTypes, NEW key \in Keys \cup {Garbage}, NEW result \in Results,
         PostConf(key, result), NEW k \in Keys
  PROVE  /\ result # "OK" \/ key # k => verdicts'[k]["OK"] = verdicts[k]["OK"]
         /\ verdicts'[k]["OK"] <= verdicts[k]["OK"] + 1
<1>1. verdicts \in [Keys -> [Results -> Nat]] /\ "OK" \in Results
  BY DEF ConfTypes, Results
<1>2. verdicts[k]["OK"] \in Nat
  BY <1>1
<1>3. CASE verdicts' = verdicts
  BY <1>2, <1>3
<1>4. CASE key \in Keys /\ verdicts' = [verdicts EXCEPT ![key][result] = @ + 1]
  <2>1. CASE key # k
    BY <1>1, <1>2, <1>4, <2>1
  <2>2. CASE key = k /\ result # "OK"
    BY <1>1, <1>2, <1>4, <2>2
  <2>3. CASE key = k /\ result = "OK"
    BY <1>1, <1>2, <1>4, <2>3
  <2> QED  BY <2>1, <2>2, <2>3
<1> QED
  BY <1>3, <1>4 DEF PostConf, confVars

LEMMA InitAccounted == Init => Accounted
<1> SUFFICES ASSUME Init, NEW k \in Keys
             PROVE  verdicts[k]["OK"] + Cardinality(Oks(phyConf, k)) <= aired[k]
  BY DEF Accounted
<1>1. Oks(phyConf, k) = {}
  BY DEF Init, Oks
<1>2. Cardinality(Oks(phyConf, k)) = 0
  BY <1>1, FS_EmptySet
<1> QED
  BY <1>2 DEF Init, Results

LEMMA NextAccounted == TypeOK /\ Accounted /\ [Next]_vars => Accounted'
<1> SUFFICES ASSUME TypeOK, Accounted, [Next]_vars, NEW k \in Keys
             PROVE  verdicts'[k]["OK"] + Cardinality(Oks(phyConf', k)) <= aired'[k]
  BY DEF Accounted
<1> DEFINE Kept == verdicts'[k]["OK"] + Cardinality(Oks(phyConf', k)) <= aired'[k]
<1> USE DEF macVars, queueVars, confVars
<1>0. /\ ConfTypes /\ phyConf \in Seq(PhyDone) /\ phyTx \in Seq(Request)
      /\ pending \in Request /\ txReq \in Seq(Request)
      /\ verdicts[k]["OK"] \in Nat /\ aired \in [Keys -> Nat] /\ aired[k] \in Nat
      /\ Cardinality(Oks(phyConf, k)) \in Nat
      /\ verdicts[k]["OK"] + Cardinality(Oks(phyConf, k)) <= aired[k]
  BY OksFinite DEF TypeOK, ConfTypes, Results, Accounted
\* A step that reads no answer, sends nothing and reports no OK.
<1>a. ASSUME verdicts'[k]["OK"] = verdicts[k]["OK"], phyConf' = phyConf,
             aired' = aired
      PROVE  Kept
  BY <1>0, <1>a
<1>b. ASSUME NEW req \in Request, NEW has, NEW tm, NEW st,
             SlotSchedule(req, has, tm, st)
      PROVE  verdicts'[k]["OK"] = verdicts[k]["OK"]
  <2>1. CASE verdicts' = verdicts
    BY <2>1
  <2>2. CASE PostConf(req.key, "CANCELLED")
    BY <1>0, <2>2, PostConfCounts DEF Request, Results
  <2> QED
    BY <1>b, <2>1, <2>2 DEF SlotSchedule
<1>1. CASE EpollWait
  BY <1>1, <1>a DEF EpollWait
<1>2. CASE IdleSrchEvent
  <2>1. CASE chState = "QUALIFY_IDLE"
    <3>1. verdicts'[k]["OK"] = verdicts[k]["OK"]
      BY <1>0, <1>2, <1>b, <2>1 DEF IdleSrchEvent
    <3> QED  BY <1>2, <1>a, <3>1 DEF IdleSrchEvent
  <2>2. CASE chState # "QUALIFY_IDLE"
    BY <1>2, <1>a, <2>2 DEF IdleSrchEvent
  <2> QED  BY <2>1, <2>2
<1>3. CASE HoldoffEvent
  BY <1>3, <1>a DEF HoldoffEvent, HoldoffWith
<1>4. CASE TxLmtEvent
  <2>1. CASE hasPending
    <3>1. PostConf(pending.key, "ABORTED")
      BY <1>4, <2>1 DEF TxLmtEvent
    <3>2. verdicts'[k]["OK"] = verdicts[k]["OK"]
      BY <1>0, <3>1, PostConfCounts DEF Request, Results
    <3> QED  BY <1>4, <1>a, <3>2 DEF TxLmtEvent
  <2>2. CASE ~hasPending
    BY <1>4, <1>a, <2>2 DEF TxLmtEvent
  <2> QED  BY <2>1, <2>2
<1>5. CASE TxReqEvent
  <2> DEFINE req == Head(txReq)
  <2>1. req \in Request /\ UNCHANGED <<phyConf, aired>>
    BY <1>0, <1>5, QueueTyped DEF TxReqEvent
  <2> HIDE DEF req
  <2>2. CASE RejectLate(req)
    <3>1. verdicts'[k]["OK"] = verdicts[k]["OK"]
      BY <1>0, <2>1, <2>2, PostConfCounts DEF RejectLate, Request, Results
    <3> QED  BY <1>a, <2>1, <3>1
  <2>3. CASE Accept(req)
    <3>1. verdicts'[k]["OK"] = verdicts[k]["OK"]
      <4>1. CASE req.mode = "impolite"
        BY <1>b, <2>1, <2>3, <4>1 DEF Accept, AcceptWith
      <4>2. CASE req.mode # "impolite"
        BY <2>3, <4>2 DEF Accept, AcceptWith
      <4> QED  BY <4>1, <4>2
    <3> QED  BY <1>a, <2>1, <3>1
  <2> QED
    BY <1>5, <2>2, <2>3 DEF TxReqEvent, req
<1>6. CASE RxBurstEvent
  BY <1>6, <1>a DEF RxBurstEvent, HandleRxBurst
<1>7. CASE PhyConfEvent
  <2> DEFINE answer == Head(phyConf)
             rest == Tail(phyConf)
  <2>1. /\ phyConf # <<>> /\ phyConf' = rest /\ aired' = aired
        /\ PostConf(answer.key, PhyResult)
    BY <1>7 DEF PhyConfEvent, PhyConfWith
  <2>2. answer \in PhyDone /\ rest \in Seq(PhyDone)
    BY <1>0, <2>1, QueueTyped
  <2>3. /\ answer.key \in Keys \cup {Garbage} /\ PhyResult \in Results
        /\ answer.ok \in BOOLEAN
    BY <2>2 DEF PhyDone, PhyResult, Results
  <2>4. PhyResult # "OK" <=> ~answer.ok
    BY <2>3 DEF PhyResult
  <2>5. /\ ~answer.ok \/ answer.key # k
             => verdicts'[k]["OK"] = verdicts[k]["OK"]
        /\ verdicts'[k]["OK"] <= verdicts[k]["OK"] + 1
    BY <1>0, <2>1, <2>3, <2>4, PostConfCounts
  <2>6. Cardinality(Oks(rest, k)) \in Nat
    BY <2>2, OksFinite
  <2>7. Cardinality(Oks(phyConf, k)) =
          IF answer.ok /\ answer.key = k
            THEN Cardinality(Oks(rest, k)) + 1 ELSE Cardinality(Oks(rest, k))
    BY <1>0, <2>1, OksTaken
  <2>8. verdicts'[k]["OK"] \in Nat
    <3>1. ConfTypes'
      BY <1>0, <2>1, <2>3, PostConfTyped
    <3>2. verdicts' \in [Keys -> [Results -> Nat]] /\ "OK" \in Results
      BY <3>1 DEF ConfTypes, Results
    <3> QED  BY <3>2
  <2>9. Cardinality(Oks(phyConf', k)) = Cardinality(Oks(rest, k))
    BY <2>1
  <2> HIDE DEF answer, rest
  <2>10. CASE answer.ok /\ answer.key = k
    <3>1. Cardinality(Oks(phyConf, k)) = Cardinality(Oks(rest, k)) + 1
      BY <2>7, <2>10
    <3>2. verdicts[k]["OK"] + 1 + Cardinality(Oks(rest, k)) <= aired[k]
      BY <1>0, <2>6, <3>1
    <3>3. verdicts'[k]["OK"] <= verdicts[k]["OK"] + 1
      BY <2>5
    <3>4. verdicts'[k]["OK"] + Cardinality(Oks(rest, k)) <= aired[k]
      <4>1. verdicts[k]["OK"] \in Nat /\ aired[k] \in Nat
        BY <1>0
      <4>2. \A a, b, c, d \in Nat : a + 1 + c <= d /\ b <= a + 1 => b + c <= d
        OBVIOUS
      <4> QED  BY <2>6, <2>8, <3>2, <3>3, <4>1, <4>2
    <3> QED  BY <2>1, <2>9, <3>4
  <2>11. CASE ~(answer.ok /\ answer.key = k)
    <3>1. Cardinality(Oks(phyConf, k)) = Cardinality(Oks(rest, k))
      BY <2>7, <2>11
    <3>2. verdicts'[k]["OK"] = verdicts[k]["OK"]
      BY <2>5, <2>11
    <3> QED  BY <1>0, <2>1, <2>6, <2>9, <3>1, <3>2
  <2> QED  BY <2>10, <2>11
<1>8. CASE Tick
  BY <1>8, <1>a DEF Tick
<1>9. ASSUME NEW t \in Timers, Expire(t) PROVE Kept
  BY <1>9, <1>a DEF Expire
<1>10. CASE PhySlot
  <2> DEFINE key == Head(phyTx).key
             answer == [key |-> key, ok |-> TRUE]
  <2>1. /\ phyTx # <<>> /\ verdicts' = verdicts
        /\ aired' = [aired EXCEPT ![key] = @ + 1]
        /\ phyConf' = Append(phyConf, answer) \/ phyConf' = phyConf
    BY <1>10 DEF PhySlot
  <2>2. key \in Keys
    <3>1. Head(phyTx) \in Request
      BY <1>0, <2>1, QueueTyped
    <3> QED  BY <3>1 DEF Request
  <2>3. answer \in PhyDone /\ answer.key = key
    BY <2>2 DEF PhyDone
  <2> HIDE DEF key, answer
  <2>4. aired'[k] = IF key = k THEN aired[k] + 1 ELSE aired[k]
    BY <1>0, <2>1, <2>2
  <2>5. \/ Cardinality(Oks(phyConf', k)) = Cardinality(Oks(phyConf, k))
        \/ key = k /\ Cardinality(Oks(phyConf', k)) = Cardinality(Oks(phyConf, k)) + 1
    <3>1. Cardinality(Oks(Append(phyConf, answer), k)) =
            IF answer.ok /\ answer.key = k THEN Cardinality(Oks(phyConf, k)) + 1
                                           ELSE Cardinality(Oks(phyConf, k))
      BY <1>0, <2>3, OksAdded
    <3>2. CASE phyConf' = phyConf
      BY <3>2
    <3>3. CASE phyConf' = Append(phyConf, answer)
      BY <2>3, <3>1, <3>3
    <3> QED  BY <2>1, <3>2, <3>3
  <2> QED
    BY <1>0, <2>1, <2>4, <2>5
<1>11. CASE PhyFault
  <2>1. PICK key \in Keys \cup {Garbage} :
          phyConf' = Append(phyConf, [key |-> key, ok |-> FALSE])
    BY <1>11 DEF PhyFault
  <2>2. [key |-> key, ok |-> FALSE] \in PhyDone
    BY DEF PhyDone
  <2>3. Cardinality(Oks(phyConf', k)) = Cardinality(Oks(phyConf, k))
    BY <1>0, <2>1, <2>2, OksAdded
  <2>4. verdicts' = verdicts /\ aired' = aired
    BY <1>11 DEF PhyFault
  <2> QED  BY <1>0, <2>3, <2>4
<1>12. CASE ChannelBurst
  BY <1>12, <1>a DEF ChannelBurst
<1>13. ASSUME NEW c \in Clients, NEW mode \in Modes[c], Submit(c, mode)
       PROVE  Kept
  BY <1>13, <1>a DEF Submit
<1>14. ASSUME NEW c \in Clients, TakeConf(c) PROVE Kept
  BY <1>14, <1>a DEF TakeConf
<1>15. ASSUME NEW id \in Ids, CancelBegin(id) PROVE Kept
  BY <1>15, <1>a DEF CancelBegin
<1>16. CASE CancelEnd
  <2>1. <<pending.key[1], cancelling>> \in Keys \cup {Garbage} /\ "CANCELLED" \in Results
    BY <1>0, <1>16 DEF CancelEnd, TypeOK, Request, Keys, Results
  <2>2. verdicts'[k]["OK"] = verdicts[k]["OK"]
    BY <1>0, <1>16, <2>1, PostConfCounts DEF CancelEnd
  <2> QED  BY <1>16, <1>a, <2>2 DEF CancelEnd
<1>17. CASE UNCHANGED vars
  BY <1>17, <1>a DEF vars
<1> QED
  BY <1>1, <1>2, <1>3, <1>4, <1>5, <1>6, <1>7, <1>8, <1>9, <1>10, <1>11,
     <1>12, <1>13, <1>14, <1>15, <1>16, <1>17
  DEF Next, MacStep

LEMMA AccountedTruthful == TypeOK /\ Accounted => OkTruthful
<1> SUFFICES ASSUME TypeOK, Accounted, NEW k \in Keys
             PROVE  verdicts[k]["OK"] <= aired[k]
  BY DEF OkTruthful
<1>1. Cardinality(Oks(phyConf, k)) \in Nat
  BY OksFinite DEF TypeOK
<1>2. verdicts[k]["OK"] \in Nat /\ aired[k] \in Nat
  BY DEF TypeOK, Results
<1> QED
  BY <1>1, <1>2 DEF Accounted

\* A module is told that its burst went out only if it did, and no more often
\* than it did, however many requests share the slot, whatever answers a
\* failing PHY makes up and whoever cancels.
THEOREM OkAlwaysTruthful == Spec => []OkTruthful
  BY TypeCorrect, InitAccounted, NextAccounted, AccountedTruthful, PTL DEF Spec
----------------------------------------------------------------------------
(* The transmit path implements the service of MacTxService.               *)

\* What the refinement assumes: nobody cancels, the PHY's reads do not fail,
\* and no module transmits without listening.
Sheltered ==
  /\ ~AllowCancel /\ MaxFaults = 0
  /\ \A c \in Clients : "impolite" \notin Modes[c]

Submitted(k)  == k[2] < nextId[k[1]]
Unanswered(k) == \A r \in Results : verdicts[k][r] = 0
Before(k, l)  == k[1] = l[1] => k[2] < l[2]
Lbt           == chState \in {"QUALIFY_IDLE", "HOLDOFF"}

\* k is behind everything its module has sent, or is about to send.
BehindAired(k) == \A l \in Keys : aired[l] > 0 => Before(l, k)
BehindPhy(k)   == \A i \in DOMAIN phyTx : Before(phyTx[i].key, k)

\* The requests of a queue, oldest first, are in the order they were made.
InOrder(q) == \A i, j \in DOMAIN q : i < j => Before(q[i].key, q[j].key)

\* A request still to be served: neither sent nor answered, and behind all
\* that has been.
Fresh(k) == Submitted(k) /\ aired[k] = 0 /\ Unanswered(k)
            /\ BehindAired(k) /\ BehindPhy(k)

\* A burst the PHY has: not sent, and not given up for good.
Sending(k) ==
  /\ Submitted(k) /\ aired[k] = 0 /\ BehindAired(k)
  /\ \A r \in {"OK", "CANCELLED", "DEADLINE"} : verdicts[k][r] = 0

\* An answer of the PHY: to a burst sent and not confirmed.
Sent(a) == a.key \in Keys /\ a.ok /\ aired[a.key] = 1 /\ verdicts[a.key]["OK"] = 0

Unborn ==
  \A k \in Keys : ~Submitted(k) => aired[k] = 0 /\ Unanswered(k)
TxReqOrder ==
  /\ InOrder(txReq)
  /\ \A i \in DOMAIN txReq : Fresh(txReq[i].key) /\ txReq[i].mode # "impolite"
PendingOrder ==
  /\ hasPending \/ Lbt =>
       /\ Submitted(pending.key) /\ Unanswered(pending.key)
       /\ \A i \in DOMAIN txReq : Before(pending.key, txReq[i].key)
  /\ Lbt => Fresh(pending.key)
PhyTxOrder ==
  InOrder(phyTx) /\ \A i \in DOMAIN phyTx : Sending(phyTx[i].key)
PhyConfOrder ==
  /\ \A i, j \in DOMAIN phyConf : i # j => phyConf[i].key # phyConf[j].key
  /\ \A i \in DOMAIN phyConf : Sent(phyConf[i])

SentOrder ==
  /\ cancelling = 0
  /\ Unborn /\ TxReqOrder /\ PendingOrder /\ PhyTxOrder /\ PhyConfOrder

\* What is left of a queue is what was behind its head.
LEMMA TailOf ==
  ASSUME NEW S, NEW q \in Seq(S), q # <<>>
  PROVE  /\ 1 \in DOMAIN q /\ Head(q) = q[1]
         /\ \A i \in DOMAIN Tail(q) : /\ i + 1 \in DOMAIN q /\ i \in Nat \ {0}
                                      /\ Tail(q)[i] = q[i + 1]
  OBVIOUS

\* A queue with something added is the queue and the addition.
LEMMA AppendOf ==
  ASSUME NEW S, NEW q \in Seq(S), NEW e \in S
  PROVE  /\ Len(q) + 1 \notin DOMAIN q
         /\ \A i \in DOMAIN Append(q, e) :
              \/ i \in DOMAIN q /\ i < Len(q) + 1 /\ Append(q, e)[i] = q[i]
              \/ i = Len(q) + 1 /\ Append(q, e)[i] = e
  OBVIOUS

LEMMA OrderTail ==
  ASSUME NEW S, NEW q \in Seq(S), q # <<>>, InOrder(q)
  PROVE  /\ InOrder(Tail(q))
         /\ \A i \in DOMAIN Tail(q) : Before(Head(q).key, Tail(q)[i].key)
<1>1. ASSUME NEW i \in DOMAIN Tail(q), NEW j \in DOMAIN Tail(q), i < j
      PROVE  Before(Tail(q)[i].key, Tail(q)[j].key)
  <2>1. /\ i + 1 \in DOMAIN q /\ Tail(q)[i] = q[i + 1] /\ i \in Nat
        /\ j + 1 \in DOMAIN q /\ Tail(q)[j] = q[j + 1] /\ j \in Nat
    BY TailOf
  <2>2. i + 1 < j + 1
    BY <1>1, <2>1
  <2> QED  BY <2>1, <2>2 DEF InOrder
<1>2. ASSUME NEW i \in DOMAIN Tail(q) PROVE Before(Head(q).key, Tail(q)[i].key)
  <2>1. /\ 1 \in DOMAIN q /\ Head(q) = q[1]
        /\ i + 1 \in DOMAIN q /\ Tail(q)[i] = q[i + 1] /\ 1 < i + 1
    BY TailOf
  <2> QED  BY <2>1 DEF InOrder
<1> QED  BY <1>1, <1>2 DEF InOrder

LEMMA OrderAppend ==
  ASSUME NEW S, NEW q \in Seq(S), NEW e \in S, InOrder(q),
         \A i \in DOMAIN q : Before(q[i].key, e.key)
  PROVE  InOrder(Append(q, e))
<1> SUFFICES ASSUME NEW i \in DOMAIN Append(q, e), NEW j \in DOMAIN Append(q, e), i < j
             PROVE  Before(Append(q, e)[i].key, Append(q, e)[j].key)
  BY DEF InOrder
<1>1. /\ Len(q) \in Nat /\ i \in Nat /\ j \in Nat
      /\ j <= Len(q) + 1 /\ i <= Len(q) + 1
  OBVIOUS
<1>2. i \in DOMAIN q /\ Append(q, e)[i] = q[i]
  BY <1>1, AppendOf
<1>3. CASE j \in DOMAIN q /\ Append(q, e)[j] = q[j]
  BY <1>2, <1>3 DEF InOrder
<1>4. CASE j = Len(q) + 1 /\ Append(q, e)[j] = e
  BY <1>2, <1>4
<1> QED  BY <1>3, <1>4, AppendOf

\* mac_post_tx_conf() answers one request, with one result, or nobody.
LEMMA PostConfAnswers ==
  ASSUME ConfTypes, NEW key \in Keys, NEW result \in Results, PostConf(key, result)
  PROVE  /\ \/ verdicts' = verdicts
            \/ verdicts' = [verdicts EXCEPT ![key][result] = @ + 1]
         /\ \A k \in Keys, r \in Results :
              k # key \/ r # result => verdicts'[k][r] = verdicts[k][r]
<1>1. verdicts \in [Keys -> [Results -> Nat]]
  BY DEF ConfTypes
<1>2. key # Garbage
  BY DEF Keys, Garbage
<1>3. \/ verdicts' = verdicts
      \/ verdicts' = [verdicts EXCEPT ![key][result] = @ + 1]
  BY <1>2 DEF PostConf
<1> QED  BY <1>1, <1>3

\* A step that leaves the requests where they are and holds no new one.
LEMMA OrderFrame ==
  ASSUME SentOrder,
         UNCHANGED <<nextId, aired, verdicts, txReq, phyTx, phyConf, cancelling>>,
         hasPending' \/ Lbt' => (hasPending \/ Lbt) /\ pending' = pending,
         Lbt' => Lbt
  PROVE  SentOrder'
<1> USE DEF Fresh, Sending, Sent, Submitted, Unanswered, BehindAired, BehindPhy
<1>1. cancelling' = 0 /\ Unborn'
  BY DEF SentOrder, Unborn
<1>2. TxReqOrder'
  BY DEF SentOrder, TxReqOrder, InOrder
<1>3. PendingOrder'
  BY DEF SentOrder, PendingOrder
<1>4. PhyTxOrder' /\ PhyConfOrder'
  BY DEF SentOrder, PhyTxOrder, PhyConfOrder, InOrder
<1> QED  BY <1>1, <1>2, <1>3, <1>4 DEF SentOrder

\* Who gets the verdict of a step, and what is left as it was.
Answering(k, result) ==
  /\ k \in Keys /\ result \in Results /\ Submitted(k)
  /\ \A l \in Keys, r \in Results :
       l # k \/ r # result => verdicts'[l][r] = verdicts[l][r]
  /\ UNCHANGED <<nextId, aired, phyTx, cancelling>>

\* The bursts the PHY has stay in order when a request that is not among them
\* is answered, or one is given up in vain.
LEMMA PhyTxKept ==
  ASSUME NEW k, NEW result, Answering(k, result), PhyTxOrder,
         phyTx \in Seq(Request),
         \A i \in DOMAIN phyTx : phyTx[i].key = k => result = "ABORTED"
  PROVE  PhyTxOrder'
<1>1. ASSUME NEW i \in DOMAIN phyTx PROVE Sending(phyTx[i].key)'
  <2>1. phyTx' = phyTx /\ phyTx[i].key \in Keys /\ Sending(phyTx[i].key)
    <3>1. phyTx[i] \in Request
      OBVIOUS
    <3> QED  BY <3>1 DEF Answering, PhyTxOrder, Request
  <2>2. \A r \in {"OK", "CANCELLED", "DEADLINE"} :
          verdicts'[phyTx[i].key][r] = verdicts[phyTx[i].key][r]
    BY <2>1 DEF Answering, Results
  <2> QED
    BY <2>1, <2>2 DEF Answering, Sending, Submitted, BehindAired
<1>2. phyTx' = phyTx
  BY DEF Answering
<1> QED  BY <1>1, <1>2 DEF PhyTxOrder, InOrder

\* Giving up what the MAC holds: mac_tx_lmt_expired(), mac_tx_slot_schedule().
LEMMA GivingUpKeeps ==
  ASSUME TypeOK, SentOrder, hasPending \/ Lbt, NEW result \in {"ABORTED", "CANCELLED"},
         PostConf(pending.key, result), result = "CANCELLED" => Lbt,
         UNCHANGED <<nextId, aired, txReq, phyTx, phyConf, cancelling>>,
         ~hasPending', ~Lbt'
  PROVE  SentOrder'
<1> DEFINE k == pending.key
<1>0. /\ k \in Keys /\ result \in Results /\ ConfTypes
      /\ txReq \in Seq(Request) /\ phyTx \in Seq(Request)
  BY DEF TypeOK, Request, Results, ConfTypes
<1>1. Submitted(k) /\ \A i \in DOMAIN txReq : Before(k, txReq[i].key)
  BY DEF SentOrder, PendingOrder
<1>2. Answering(k, result)
  BY <1>0, <1>1, PostConfAnswers DEF Answering
<1>3. k[2] \in Int
  BY <1>0 DEF Keys, Ids
<1> HIDE DEF k
<1>4. Unborn' /\ cancelling' = 0
  BY <1>2 DEF SentOrder, Unborn, Answering, Submitted, Unanswered
<1>5. TxReqOrder'
  <2>1. ASSUME NEW i \in DOMAIN txReq
        PROVE  Fresh(txReq[i].key)' /\ txReq'[i].mode # "impolite"
    <3>1. txReq[i].key \in Keys /\ Fresh(txReq[i].key) /\ txReq[i].mode # "impolite"
      <4>1. txReq[i] \in Request
        BY <1>0
      <4> QED  BY <4>1 DEF SentOrder, TxReqOrder, Request
    <3>2. txReq[i].key # k
      BY <1>1, <1>3 DEF Before
    <3>3. \A r \in Results : verdicts'[txReq[i].key][r] = verdicts[txReq[i].key][r]
      BY <1>2, <3>1, <3>2 DEF Answering
    <3> QED
      BY <3>1, <3>3 DEF Fresh, Submitted, Unanswered, BehindAired, BehindPhy
  <2> QED  BY <2>1 DEF SentOrder, TxReqOrder, InOrder
<1>6. PendingOrder'
  BY DEF PendingOrder
<1>7. PhyTxOrder'
  <2>1. ASSUME NEW i \in DOMAIN phyTx, phyTx[i].key = k PROVE result = "ABORTED"
    <3>1. Lbt => Before(k, k)
      BY <2>1 DEF SentOrder, PendingOrder, Fresh, BehindPhy, k
    <3> QED  BY <1>3, <3>1 DEF Before
  <2> QED  BY <1>0, <1>2, <2>1, PhyTxKept DEF SentOrder
<1>8. PhyConfOrder'
  <2>1. ASSUME NEW i \in DOMAIN phyConf PROVE Sent(phyConf[i])'
    <3>1. Sent(phyConf[i])
      BY DEF SentOrder, PhyConfOrder
    <3>2. verdicts'[phyConf[i].key]["OK"] = verdicts[phyConf[i].key]["OK"]
      BY <1>2, <3>1 DEF Sent, Answering, Results
    <3> QED  BY <3>1, <3>2 DEF Sent
  <2> QED  BY <2>1 DEF SentOrder, PhyConfOrder
<1> QED  BY <1>4, <1>5, <1>6, <1>7, <1>8 DEF SentOrder

\* Rejecting a late request answers the head of the queue.
LEMMA RejectKeeps ==
  ASSUME TypeOK, SentOrder, txReq # <<>>, RejectLate(Head(txReq)),
         txReq' = Tail(txReq), UNCHANGED <<nextId, aired, phyConf, cancelling>>
  PROVE  SentOrder'
<1> DEFINE k == Head(txReq).key
           rest == Tail(txReq)
<1>0. /\ ConfTypes /\ txReq \in Seq(Request) /\ phyTx \in Seq(Request)
      /\ pending.key \in Keys
  BY DEF TypeOK, Request, ConfTypes
<1>1. k \in Keys /\ rest \in Seq(Request)
  <2>1. Head(txReq) \in Request /\ rest \in Seq(Request)
    BY <1>0, QueueTyped
  <2> QED  BY <2>1 DEF Request
<1>2. 1 \in DOMAIN txReq /\ Head(txReq) = txReq[1]
  BY <1>0, TailOf
<1>3. Fresh(k)
  BY <1>2 DEF SentOrder, TxReqOrder
<1>4. PostConf(k, "DEADLINE") /\ UNCHANGED <<chState, pending, hasPending, phyTx>>
  BY DEF RejectLate
<1>5. k[2] \in Int
  BY <1>1 DEF Keys, Ids
<1>6. InOrder(rest) /\ \A i \in DOMAIN rest : Before(k, rest[i].key)
  BY <1>0, OrderTail DEF SentOrder, TxReqOrder
<1>7. hasPending \/ Lbt => Before(pending.key, k)
  BY <1>2 DEF SentOrder, PendingOrder
<1>8. \A i \in DOMAIN rest :
        rest[i] \in Request /\ Fresh(rest[i].key) /\ rest[i].mode # "impolite"
  <2> SUFFICES ASSUME NEW i \in DOMAIN rest
               PROVE  rest[i] \in Request /\ Fresh(rest[i].key) /\ rest[i].mode # "impolite"
    OBVIOUS
  <2>1. i + 1 \in DOMAIN txReq /\ rest[i] = txReq[i + 1]
    BY <1>0, TailOf
  <2> QED  BY <1>1, <2>1 DEF SentOrder, TxReqOrder
<1>9. \A i \in DOMAIN rest :
        hasPending \/ Lbt => Before(pending.key, rest[i].key)
  <2> SUFFICES ASSUME NEW i \in DOMAIN rest, hasPending \/ Lbt
               PROVE  Before(pending.key, rest[i].key)
    OBVIOUS
  <2>1. i + 1 \in DOMAIN txReq /\ rest[i] = txReq[i + 1]
    BY <1>0, TailOf
  <2> QED  BY <2>1 DEF SentOrder, PendingOrder
<1> HIDE DEF k, rest
<1>10. Answering(k, "DEADLINE")
  BY <1>0, <1>1, <1>3, <1>4, PostConfAnswers DEF Answering, Fresh, Results
<1>11. Unborn' /\ cancelling' = 0
  BY <1>10 DEF SentOrder, Unborn, Answering, Submitted, Unanswered
<1>12. TxReqOrder'
  <2>1. ASSUME NEW i \in DOMAIN txReq'
        PROVE  Fresh(txReq[i].key)' /\ txReq'[i].mode # "impolite"
    <3>0. i \in DOMAIN rest /\ txReq'[i] = rest[i]
      BY DEF rest
    <3>1. rest[i].key \in Keys /\ rest[i].key # k
      BY <1>5, <1>6, <1>8, <3>0 DEF Before, Request
    <3>2. \A r \in Results : verdicts'[rest[i].key][r] = verdicts[rest[i].key][r]
      BY <1>10, <3>1 DEF Answering
    <3> QED
      BY <1>4, <1>8, <3>0, <3>2
      DEF Fresh, Submitted, Unanswered, BehindAired, BehindPhy
  <2> QED  BY <1>6, <2>1 DEF TxReqOrder, InOrder, rest
<1>13. PendingOrder'
  <2>1. ASSUME hasPending \/ Lbt
        PROVE  /\ Submitted(pending.key)' /\ Unanswered(pending.key)'
               /\ \A i \in DOMAIN rest : Before(pending.key, rest[i].key)
               /\ Lbt => Fresh(pending.key)'
    <3>1. pending.key # k
      BY <1>5, <1>7, <2>1 DEF Before
    <3>2. \A r \in Results : verdicts'[pending.key][r] = verdicts[pending.key][r]
      BY <1>0, <1>10, <3>1 DEF Answering
    <3> QED
      BY <1>4, <1>9, <2>1, <3>2
      DEF SentOrder, PendingOrder, Fresh, Submitted, Unanswered, BehindAired, BehindPhy
  <2> QED  BY <1>4, <2>1 DEF PendingOrder, Lbt, rest
<1>14. PhyTxOrder'
  <2>1. \A i \in DOMAIN phyTx : phyTx[i].key # k
    BY <1>3, <1>5 DEF Fresh, BehindPhy, Before
  <2> QED  BY <1>0, <1>10, <2>1, PhyTxKept DEF SentOrder
<1>15. PhyConfOrder'
  <2>1. ASSUME NEW i \in DOMAIN phyConf PROVE Sent(phyConf[i])'
    <3>1. Sent(phyConf[i])
      BY DEF SentOrder, PhyConfOrder
    <3>2. verdicts'[phyConf[i].key]["OK"] = verdicts[phyConf[i].key]["OK"]
      BY <1>10, <3>1 DEF Sent, Answering, Results
    <3> QED  BY <3>1, <3>2 DEF Sent
  <2> QED  BY <2>1 DEF SentOrder, PhyConfOrder
<1> QED  BY <1>11, <1>12, <1>13, <1>14, <1>15 DEF SentOrder

\* Accepting a request makes the head of the queue the one the MAC holds.
LEMMA AcceptKeeps ==
  ASSUME TypeOK, SentOrder, txReq # <<>>, pending' = Head(txReq),
         txReq' = Tail(txReq),
         UNCHANGED <<nextId, aired, verdicts, phyTx, phyConf, cancelling>>
  PROVE  SentOrder'
<1> DEFINE req == Head(txReq)
           rest == Tail(txReq)
<1>0. txReq \in Seq(Request)
  BY DEF TypeOK
<1>1. 1 \in DOMAIN txReq /\ req = txReq[1]
  BY <1>0, TailOf
<1>2. Fresh(req.key)
  BY <1>1 DEF SentOrder, TxReqOrder
<1>3. InOrder(rest) /\ \A i \in DOMAIN rest : Before(req.key, rest[i].key)
  BY <1>0, OrderTail DEF SentOrder, TxReqOrder
<1>4. \A i \in DOMAIN rest : Fresh(rest[i].key) /\ rest[i].mode # "impolite"
  <2> SUFFICES ASSUME NEW i \in DOMAIN rest
               PROVE  Fresh(rest[i].key) /\ rest[i].mode # "impolite"
    OBVIOUS
  <2>1. i + 1 \in DOMAIN txReq /\ rest[i] = txReq[i + 1]
    BY <1>0, TailOf
  <2> QED  BY <2>1 DEF SentOrder, TxReqOrder
<1> HIDE DEF req, rest
<1> USE DEF Fresh, Submitted, Unanswered, BehindAired, BehindPhy
<1>5. TxReqOrder'
  BY <1>3, <1>4 DEF TxReqOrder, InOrder, rest
<1>6. PendingOrder'
  BY <1>2, <1>3 DEF PendingOrder, req, rest
<1>7. cancelling' = 0 /\ Unborn'
  BY DEF SentOrder, Unborn
<1>8. PhyTxOrder' /\ PhyConfOrder'
  BY DEF SentOrder, PhyTxOrder, PhyConfOrder, InOrder, Sending, Sent
<1> QED  BY <1>5, <1>6, <1>7, <1>8 DEF SentOrder

\* Handing the burst over puts the request the MAC holds behind those the PHY
\* has.
LEMMA HandOverKeeps ==
  ASSUME TypeOK, SentOrder, Lbt, phyTx' = Append(phyTx, pending),
         hasPending' = hasPending, ~Lbt', pending' = pending,
         UNCHANGED <<nextId, aired, verdicts, txReq, phyConf, cancelling>>
  PROVE  SentOrder'
<1> DEFINE k == pending.key
           queue == Append(phyTx, pending)
<1>0. /\ phyTx \in Seq(Request) /\ pending \in Request /\ txReq \in Seq(Request)
      /\ k \in Keys /\ k[2] \in Int
  BY DEF TypeOK, Request, Keys, Ids
<1>1. /\ Fresh(k) /\ Submitted(k) /\ Unanswered(k)
      /\ \A i \in DOMAIN txReq : Before(k, txReq[i].key)
  BY DEF SentOrder, PendingOrder
<1>2. InOrder(queue)
  BY <1>0, <1>1, OrderAppend DEF SentOrder, PhyTxOrder, Fresh, BehindPhy
<1>3. \A i \in DOMAIN queue :
        queue[i] = pending \/ \E j \in DOMAIN phyTx : queue[i] = phyTx[j]
  BY <1>0, AppendOf
<1> HIDE DEF k, queue
<1>4. TxReqOrder'
  <2>1. ASSUME NEW i \in DOMAIN txReq PROVE Fresh(txReq[i].key)'
    <3>1. Fresh(txReq[i].key) /\ Before(k, txReq[i].key)
      BY <1>1 DEF SentOrder, TxReqOrder
    <3>2. \A j \in DOMAIN queue : Before(queue[j].key, txReq[i].key)
      BY <1>3, <3>1 DEF Fresh, BehindPhy, k
    <3> QED
      BY <3>1, <3>2 DEF Fresh, Submitted, Unanswered, BehindAired, BehindPhy, queue
  <2> QED  BY <2>1 DEF SentOrder, TxReqOrder, InOrder
<1>5. PendingOrder'
  BY <1>1 DEF PendingOrder, Submitted, Unanswered, k
<1>6. PhyTxOrder'
  <2>1. ASSUME NEW i \in DOMAIN phyTx' PROVE Sending(phyTx[i].key)'
    <3>0. i \in DOMAIN queue /\ phyTx'[i] = queue[i]
      BY DEF queue
    <3>1. CASE queue[i] = pending
      <4>1. \A r \in {"OK", "CANCELLED", "DEADLINE"} : verdicts[k][r] = 0
        BY <1>1 DEF Unanswered, Results
      <4> QED
        BY <1>1, <3>0, <3>1, <4>1 DEF Sending, Fresh, Submitted, BehindAired, k
    <3>2. CASE \E j \in DOMAIN phyTx : queue[i] = phyTx[j]
      BY <3>0, <3>2 DEF SentOrder, PhyTxOrder, Sending, Submitted, BehindAired
    <3> QED  BY <1>3, <3>0, <3>1, <3>2
  <2> QED  BY <1>2, <2>1 DEF PhyTxOrder, InOrder, queue
<1>7. cancelling' = 0 /\ Unborn' /\ PhyConfOrder'
  BY DEF SentOrder, Unborn, Submitted, Unanswered, PhyConfOrder, Sent
<1> QED  BY <1>4, <1>5, <1>6, <1>7 DEF SentOrder

\* Reading the PHY's answer confirms a burst that was sent and not confirmed.
LEMMA ConfirmKeeps ==
  ASSUME TypeOK, SentOrder, phyConf # <<>>, PostConf(Head(phyConf).key, "OK"),
         phyConf' = Tail(phyConf), ~hasPending', ~Lbt',
         UNCHANGED <<nextId, aired, txReq, phyTx, cancelling>>
  PROVE  SentOrder'
<1> DEFINE k == Head(phyConf).key
           rest == Tail(phyConf)
<1>0. /\ ConfTypes /\ phyConf \in Seq(PhyDone)
      /\ txReq \in Seq(Request) /\ phyTx \in Seq(Request)
  BY DEF TypeOK, ConfTypes
<1>1. 1 \in DOMAIN phyConf /\ Head(phyConf) = phyConf[1]
  BY <1>0, TailOf
<1>2. k \in Keys /\ aired[k] = 1 /\ Submitted(k)
  BY <1>1 DEF SentOrder, PhyConfOrder, Sent, Unborn
<1>3. \A i \in DOMAIN rest : rest[i].key # k /\ Sent(rest[i])
  <2> SUFFICES ASSUME NEW i \in DOMAIN rest PROVE rest[i].key # k /\ Sent(rest[i])
    OBVIOUS
  <2>1. /\ i + 1 \in DOMAIN phyConf /\ rest[i] = phyConf[i + 1]
        /\ i \in Nat \ {0} /\ i + 1 # 1
    BY <1>0, TailOf
  <2> QED  BY <1>1, <2>1 DEF SentOrder, PhyConfOrder
<1>4. \A i, j \in DOMAIN rest : i # j => rest[i].key # rest[j].key
  <2> SUFFICES ASSUME NEW i \in DOMAIN rest, NEW j \in DOMAIN rest, i # j
               PROVE  rest[i].key # rest[j].key
    OBVIOUS
  <2>1. /\ i + 1 \in DOMAIN phyConf /\ rest[i] = phyConf[i + 1]
        /\ j + 1 \in DOMAIN phyConf /\ rest[j] = phyConf[j + 1]
        /\ i \in Nat /\ j \in Nat
    BY <1>0, TailOf
  <2>2. i + 1 # j + 1
    BY <2>1
  <2> QED  BY <2>1, <2>2 DEF SentOrder, PhyConfOrder
<1>5. Answering(k, "OK")
  BY <1>0, <1>2, PostConfAnswers DEF Answering, Results
<1> HIDE DEF k, rest
<1>6. cancelling' = 0 /\ Unborn'
  BY <1>5 DEF SentOrder, Unborn, Answering, Submitted, Unanswered
<1>7. TxReqOrder'
  <2>1. ASSUME NEW i \in DOMAIN txReq
        PROVE  Fresh(txReq[i].key)' /\ txReq'[i].mode # "impolite"
    <3>1. txReq[i] \in Request
      BY <1>0
    <3>2. /\ Fresh(txReq[i].key) /\ txReq[i].mode # "impolite"
          /\ txReq[i].key \in Keys
      BY <3>1 DEF SentOrder, TxReqOrder, Request
    <3>3. \A r \in Results : verdicts'[txReq[i].key][r] = verdicts[txReq[i].key][r]
      BY <1>2, <1>5, <3>2 DEF Answering, Fresh
    <3> QED
      BY <3>2, <3>3 DEF Fresh, Submitted, Unanswered, BehindAired, BehindPhy
  <2> QED  BY <2>1 DEF SentOrder, TxReqOrder, InOrder
<1>8. PendingOrder'
  BY DEF PendingOrder
<1>9. PhyTxOrder'
  <2>1. \A i \in DOMAIN phyTx : phyTx[i].key # k
    BY <1>2 DEF SentOrder, PhyTxOrder, Sending
  <2> QED  BY <1>0, <1>5, <2>1, PhyTxKept DEF SentOrder
<1>10. PhyConfOrder'
  <2>1. ASSUME NEW i \in DOMAIN phyConf' PROVE Sent(phyConf[i])'
    <3>1. phyConf'[i] = rest[i] /\ Sent(rest[i]) /\ rest[i].key # k
      BY <1>3 DEF rest
    <3>2. verdicts'[rest[i].key]["OK"] = verdicts[rest[i].key]["OK"]
      BY <1>5, <3>1 DEF Sent, Answering, Results
    <3> QED  BY <3>1, <3>2 DEF Sent
  <2> QED  BY <1>4, <2>1 DEF PhyConfOrder, rest
<1> QED  BY <1>6, <1>7, <1>8, <1>9, <1>10 DEF SentOrder

\* The burst the PHY sends was not sent before, and nothing of its module that
\* was requested later has been.
LEMMA SlotKeeps ==
  ASSUME TypeOK, SentOrder, PhySlot
  PROVE  SentOrder'
<1> DEFINE k == Head(phyTx).key
           rest == Tail(phyTx)
           answer == [key |-> k, ok |-> TRUE]
<1>0. /\ phyTx \in Seq(Request) /\ txReq \in Seq(Request) /\ phyTx # <<>>
      /\ phyConf \in Seq(PhyDone) /\ pending \in Request
      /\ aired \in [Keys -> Nat]
  BY DEF TypeOK, PhySlot
<1>1. 1 \in DOMAIN phyTx /\ Head(phyTx) = phyTx[1]
  BY <1>0, TailOf
<1>2. Sending(k)
  BY <1>1 DEF SentOrder, PhyTxOrder
<1>3. k \in Keys /\ k[2] \in Int
  <2>1. Head(phyTx) \in Request
    BY <1>0, QueueTyped
  <2> QED  BY <2>1 DEF Request, Keys, Ids
<1>4. InOrder(rest) /\ \A i \in DOMAIN rest : Before(k, rest[i].key)
  BY <1>0, OrderTail DEF SentOrder, PhyTxOrder
<1>5. \A i \in DOMAIN rest :
        \E j \in DOMAIN phyTx : rest[i] = phyTx[j] /\ rest[i] \in Request
  <2> SUFFICES ASSUME NEW i \in DOMAIN rest
               PROVE  i + 1 \in DOMAIN phyTx /\ rest[i] = phyTx[i + 1]
                      /\ phyTx[i + 1] \in Request
    OBVIOUS
  <2> QED  BY <1>0, TailOf
<1>6. /\ phyTx' = rest /\ aired' = [aired EXCEPT ![k] = @ + 1]
      /\ phyConf' = Append(phyConf, answer) \/ phyConf' = phyConf
      /\ UNCHANGED <<chState, pending, hasPending, txReq, nextId, verdicts, cancelling>>
  BY DEF PhySlot, macVars, clientVars
<1>7. answer \in PhyDone /\ answer.key = k /\ answer.ok
  BY <1>3 DEF PhyDone
<1> HIDE DEF k, rest, answer
<1>8. aired'[k] = 1 /\ \A l \in Keys : l # k => aired'[l] = aired[l]
  BY <1>0, <1>2, <1>3, <1>6 DEF Sending
\* A request behind what the PHY had is behind what is sent and what is left.
<1>9. ASSUME NEW l \in Keys, Fresh(l) PROVE Fresh(l)'
  <2>1. Before(k, l) /\ l # k
    BY <1>1, <1>3, <1>9 DEF Fresh, BehindPhy, Before, k
  <2>2. \A i \in DOMAIN rest : Before(rest[i].key, l)
    BY <1>5, <1>9 DEF Fresh, BehindPhy
  <2>3. \A m \in Keys : aired'[m] > 0 => Before(m, l)
    BY <1>8, <1>9, <2>1 DEF Fresh, BehindAired
  <2> QED
    BY <1>6, <1>8, <1>9, <2>1, <2>2, <2>3
    DEF Fresh, Submitted, Unanswered, BehindAired, BehindPhy
<1>10. cancelling' = 0 /\ Unborn'
  BY <1>2, <1>6, <1>8 DEF SentOrder, Unborn, Submitted, Unanswered, Sending
<1>11. TxReqOrder'
  <2>1. ASSUME NEW i \in DOMAIN txReq
        PROVE  txReq[i].key \in Keys /\ Fresh(txReq[i].key)
               /\ txReq[i].mode # "impolite"
    <3>1. txReq[i] \in Request
      BY <1>0
    <3> QED  BY <3>1 DEF SentOrder, TxReqOrder, Request
  <2>2. ASSUME NEW i \in DOMAIN txReq PROVE Fresh(txReq[i].key)'
    <3>1. PICK l \in Keys : l = txReq[i].key
      BY <2>1
    <3>2. Fresh(l)'
      BY <1>9, <2>1, <3>1
    <3> QED
      BY <1>6, <3>1, <3>2 DEF Fresh, Submitted, Unanswered, BehindAired, BehindPhy
  <2> QED  BY <1>6, <2>1, <2>2 DEF SentOrder, TxReqOrder, InOrder
<1>12. PendingOrder'
  <2>1. PICK l \in Keys : l = pending.key
    BY <1>0 DEF Request
  <2>2. Lbt => Fresh(l)'
    BY <1>9, <2>1 DEF SentOrder, PendingOrder
  <2> QED
    BY <1>6, <2>1, <2>2
    DEF SentOrder, PendingOrder, Lbt, Fresh, Submitted, Unanswered, BehindAired,
        BehindPhy
<1>13. PhyTxOrder'
  <2>1. ASSUME NEW i \in DOMAIN phyTx' PROVE Sending(phyTx[i].key)'
    <3>1. /\ phyTx'[i] = rest[i] /\ Before(k, rest[i].key)
          /\ rest[i].key \in Keys /\ Sending(rest[i].key)
      BY <1>4, <1>5, <1>6 DEF SentOrder, PhyTxOrder, Request
    <3>2. rest[i].key # k
      BY <1>3, <3>1 DEF Before
    <3> QED
      BY <1>6, <1>8, <3>1, <3>2 DEF Sending, Submitted, BehindAired
  <2> QED  BY <1>4, <1>6, <2>1 DEF PhyTxOrder, InOrder
<1>14. PhyConfOrder'
  <2>1. ASSUME NEW i \in DOMAIN phyConf PROVE phyConf[i].key # k /\ Sent(phyConf[i])
    BY <1>2 DEF SentOrder, PhyConfOrder, Sent, Sending
  <2>2. ASSUME NEW i \in DOMAIN phyConf' PROVE Sent(phyConf[i])'
    <3>1. CASE phyConf'[i] = answer
      BY <1>2, <1>3, <1>6, <1>7, <1>8, <3>1 DEF Sent, Sending
    <3>2. CASE i \in DOMAIN phyConf /\ phyConf'[i] = phyConf[i]
      <4>1. phyConf[i].key # k /\ Sent(phyConf[i])
        BY <2>1, <3>2
      <4> QED  BY <1>6, <1>8, <3>2, <4>1 DEF Sent
    <3>3. CASE phyConf' = phyConf
      BY <2>2, <3>2, <3>3
    <3>4. CASE phyConf' = Append(phyConf, answer)
      BY <1>0, <1>7, <2>2, <3>1, <3>2, <3>4, AppendOf
    <3> QED  BY <1>6, <3>3, <3>4
  <2>3. ASSUME NEW i \in DOMAIN phyConf', NEW j \in DOMAIN phyConf', i # j
        PROVE  phyConf'[i].key # phyConf'[j].key
    <3>1. CASE phyConf' = phyConf
      BY <2>3, <3>1 DEF SentOrder, PhyConfOrder
    <3>2. CASE phyConf' = Append(phyConf, answer)
      <4>1. \/ i \in DOMAIN phyConf /\ phyConf'[i] = phyConf[i]
            \/ i = Len(phyConf) + 1 /\ phyConf'[i] = answer
        BY <1>0, <1>7, <2>3, <3>2, AppendOf
      <4>2. \/ j \in DOMAIN phyConf /\ phyConf'[j] = phyConf[j]
            \/ j = Len(phyConf) + 1 /\ phyConf'[j] = answer
        BY <1>0, <1>7, <2>3, <3>2, AppendOf
      <4> QED
        BY <1>7, <2>1, <2>3, <4>1, <4>2 DEF SentOrder, PhyConfOrder
    <3> QED  BY <1>6, <3>1, <3>2
  <2> QED  BY <2>2, <2>3 DEF PhyConfOrder
<1> QED  BY <1>10, <1>11, <1>12, <1>13, <1>14 DEF SentOrder

\* A new request is behind all others of its module.
LEMMA SubmitKeeps ==
  ASSUME TypeOK, SentOrder, Sheltered, NEW c \in Clients, NEW mode \in Modes[c],
         Submit(c, mode)
  PROVE  SentOrder'
<1>0. /\ txReq \in Seq(Request) /\ phyTx \in Seq(Request) /\ pending \in Request
      /\ nextId \in [Clients -> 1..(MaxReq + 1)]
  BY DEF TypeOK
<1>a. <<c, nextId[c]>> \in Keys /\ nextId[c] \in Int
  <2>1. nextId[c] \in 1..(MaxReq + 1) /\ Quota[c] \in 0..MaxReq /\ MaxReq \in Nat
    BY <1>0, BoundsAssumption
  <2>2. nextId[c] <= Quota[c]
    BY DEF Submit
  <2>3. nextId[c] \in Ids
    BY <2>1, <2>2 DEF Ids
  <2> QED  BY <2>1, <2>3 DEF Keys
<1>b. PICK k \in Keys : k = <<c, nextId[c]>>
  BY <1>a
<1>1. k[1] = c /\ k[2] = nextId[c] /\ nextId[c] \in Int
  BY <1>a, <1>b
<1> DEFINE req == [key |-> k, mode |-> mode]
           queue == Append(txReq, req)
<1>2. req \in Request /\ mode # "impolite" /\ req.key = k /\ req.mode = mode
  BY <1>1, ClientsAssumption DEF Request, Sheltered
<1>3. /\ txReq' = queue /\ nextId' = [nextId EXCEPT ![c] = @ + 1]
      /\ UNCHANGED <<chState, pending, hasPending, phyTx, phyConf, aired, verdicts,
                     cancelling>>
  BY <1>b DEF Submit, macVars, confVars
<1>4. \A i \in DOMAIN queue :
        queue[i] = req \/ \E j \in DOMAIN txReq : queue[i] = txReq[j]
  BY <1>0, <1>2, AppendOf
<1> HIDE DEF req
<1>5. ~Submitted(k) /\ aired[k] = 0 /\ Unanswered(k)
  BY <1>1 DEF SentOrder, Unborn, Submitted
<1>6. ASSUME NEW l \in Keys, Submitted(l) PROVE Before(l, k) /\ Submitted(l)'
  <2>1. l[1] \in Clients /\ l[2] \in Int /\ nextId[l[1]] \in Int
    BY <1>0 DEF Keys, Ids
  <2> QED  BY <1>0, <1>1, <1>3, <1>6, <2>1 DEF Submitted, Before
<1>7. ASSUME NEW l \in Keys, ~Submitted(l)' PROVE ~Submitted(l)
  BY <1>6, <1>7
<1>8. \A i \in DOMAIN txReq : txReq[i].key \in Keys /\ Submitted(txReq[i].key)
  <2> SUFFICES ASSUME NEW i \in DOMAIN txReq
               PROVE  txReq[i].key \in Keys /\ Submitted(txReq[i].key)
    OBVIOUS
  <2>1. txReq[i] \in Request
    BY <1>0
  <2> QED  BY <2>1 DEF SentOrder, TxReqOrder, Fresh, Request
<1>9. \A i \in DOMAIN phyTx : phyTx[i].key \in Keys /\ Submitted(phyTx[i].key)
  <2> SUFFICES ASSUME NEW i \in DOMAIN phyTx
               PROVE  phyTx[i].key \in Keys /\ Submitted(phyTx[i].key)
    OBVIOUS
  <2>1. phyTx[i] \in Request
    BY <1>0
  <2> QED  BY <2>1 DEF SentOrder, PhyTxOrder, Sending, Request
<1>10. \A l \in Keys : aired[l] > 0 => Submitted(l)
  BY DEF SentOrder, Unborn
<1>11. Submitted(k)' /\ BehindAired(k) /\ BehindPhy(k)
  <2>1. nextId'[c] = nextId[c] + 1
    BY <1>0, <1>3
  <2>2. Submitted(k)'
    BY <1>1, <2>1 DEF Submitted
  <2> QED  BY <1>6, <1>9, <1>10, <2>2 DEF BehindAired, BehindPhy
<1>12. InOrder(queue)
  <2>1. InOrder(txReq) /\ \A i \in DOMAIN txReq : Before(txReq[i].key, req.key)
    BY <1>2, <1>6, <1>8 DEF SentOrder, TxReqOrder
  <2> QED  BY <1>0, <1>2, <2>1, OrderAppend
<1> HIDE DEF queue
<1>13. cancelling' = 0 /\ Unborn'
  BY <1>3, <1>7 DEF SentOrder, Unborn, Unanswered
<1>14. TxReqOrder'
  <2>1. ASSUME NEW i \in DOMAIN txReq'
        PROVE  Fresh(txReq[i].key)' /\ txReq'[i].mode # "impolite"
    <3>0. i \in DOMAIN queue /\ txReq'[i] = queue[i]
      BY <1>3
    <3>1. CASE queue[i] = req
      BY <1>2, <1>3, <1>5, <1>11, <3>0, <3>1
      DEF Fresh, Submitted, Unanswered, BehindAired, BehindPhy
    <3>2. ASSUME NEW j \in DOMAIN txReq, queue[i] = txReq[j]
          PROVE  Fresh(txReq[i].key)' /\ txReq'[i].mode # "impolite"
      <4>1. /\ Fresh(txReq[j].key) /\ txReq[j].mode # "impolite"
            /\ txReq[j].key[2] < nextId'[txReq[j].key[1]]
        BY <1>6, <1>8 DEF SentOrder, TxReqOrder, Submitted
      <4> QED
        BY <1>3, <3>0, <3>2, <4>1
        DEF Fresh, Submitted, Unanswered, BehindAired, BehindPhy
    <3> QED  BY <1>4, <3>0, <3>1, <3>2
  <2> QED  BY <1>3, <1>12, <2>1 DEF TxReqOrder, InOrder
<1>15. PendingOrder'
  <2>1. pending.key \in Keys
    BY <1>0 DEF Request
  <2>2. ASSUME hasPending \/ Lbt
        PROVE  /\ Submitted(pending.key)' /\ Unanswered(pending.key)
               /\ \A i \in DOMAIN queue : Before(pending.key, queue[i].key)
               /\ Lbt => Fresh(pending.key)
    <3>1. /\ Submitted(pending.key) /\ Unanswered(pending.key)
          /\ \A i \in DOMAIN txReq : Before(pending.key, txReq[i].key)
          /\ Lbt => Fresh(pending.key)
      BY <2>2 DEF SentOrder, PendingOrder
    <3>2. Before(pending.key, k) /\ pending.key[2] < nextId'[pending.key[1]]
      BY <1>6, <2>1, <3>1 DEF Submitted
    <3> QED  BY <1>2, <1>3, <1>4, <3>1, <3>2 DEF Submitted
  <2> QED
    BY <1>3, <2>2
    DEF PendingOrder, Lbt, Fresh, Submitted, Unanswered, BehindAired, BehindPhy
<1>16. PhyTxOrder'
  <2>1. ASSUME NEW i \in DOMAIN phyTx PROVE Sending(phyTx[i].key)'
    <3>1. Sending(phyTx[i].key) /\ phyTx[i].key[2] < nextId'[phyTx[i].key[1]]
      BY <1>6, <1>9 DEF SentOrder, PhyTxOrder, Submitted
    <3> QED  BY <1>3, <3>1 DEF Sending, Submitted, BehindAired
  <2> QED  BY <1>3, <2>1 DEF SentOrder, PhyTxOrder, InOrder
<1>17. PhyConfOrder'
  BY <1>3 DEF SentOrder, PhyConfOrder, Sent
<1> QED  BY <1>13, <1>14, <1>15, <1>16, <1>17 DEF SentOrder

LEMMA InitOrder == Init => SentOrder
<1> SUFFICES ASSUME Init PROVE SentOrder
  OBVIOUS
<1>1. Unborn
  BY DEF Init, Unborn, Unanswered
<1>2. TxReqOrder /\ PhyTxOrder /\ PhyConfOrder
  BY DEF Init, TxReqOrder, PhyTxOrder, PhyConfOrder, InOrder
<1>3. PendingOrder
  BY DEF Init, PendingOrder, Lbt
<1> QED  BY <1>1, <1>2, <1>3 DEF Init, SentOrder

ServiceStep == [Service!Next]_(Service!vars)

\* What the service sees of giving a request up, rejecting or confirming it.
LEMMA RefusalMapped ==
  ASSUME TypeOK, NEW k \in Keys, NEW r \in {"ABORTED", "CANCELLED", "DEADLINE"},
         Submitted(k), Unanswered(k), r # "ABORTED" => aired[k] = 0,
         PostConf(k, r), UNCHANGED <<nextId, aired>>
  PROVE  ServiceStep
<1>1. ConfTypes /\ r \in Results
  BY DEF TypeOK, ConfTypes, Results
<1>2. CASE verdicts' = verdicts
  BY <1>2 DEF ServiceStep, Service!vars
<1>3. CASE verdicts' = [verdicts EXCEPT ![k][r] = @ + 1]
  <2>1. Service!Submitted(k) /\ Service!Report(k, r)
    BY <1>3 DEF Submitted, Service!Submitted, Service!Report
  <2>2. ~Service!Refused(k, Service!Refusals) /\ verdicts[k]["OK"] = 0
    BY DEF Unanswered, Results, Service!Refused, Service!Refusals, Service!Final
  <2>3. r \in Service!Final => aired[k] = 0
    BY DEF Service!Final
  <2>4. Service!Refuse(k, r)
    BY <2>1, <2>2, <2>3 DEF Service!Refuse
  <2>5. k \in Service!Keys /\ r \in Service!Refusals
    BY DEF Keys, Ids, Service!Keys, Service!Refusals, Service!Final
  <2> QED  BY <2>4, <2>5 DEF ServiceStep, Service!Next
<1> QED  BY <1>1, <1>2, <1>3, PostConfAnswers

\* A step in which nobody asks, nothing goes out and nobody is answered.
LEMMA StutterMapped ==
  ASSUME UNCHANGED <<nextId, aired, verdicts>>
  PROVE  ServiceStep
  BY DEF ServiceStep, Service!vars

\* mac_tx_slot_schedule() of the request the MAC listens for.
LEMMA ScheduleMapped ==
  ASSUME TypeOK, SentOrder, Lbt, NEW tm,
         SlotSchedule(pending, hasPending, tm, "TX_PENDING"),
         UNCHANGED <<pending, nextId, aired, txReq, phyConf, cancelling>>
  PROVE  SentOrder' /\ ServiceStep
<1>0. /\ pending.key \in Keys /\ Submitted(pending.key) /\ Unanswered(pending.key)
      /\ aired[pending.key] = 0
  BY DEF TypeOK, Request, SentOrder, PendingOrder, Fresh
<1>1. CASE phyTx' = Append(phyTx, pending) /\ chState' = "TX_PENDING"
           /\ hasPending' = hasPending /\ UNCHANGED confVars
  BY <1>1, HandOverKeeps, StutterMapped DEF Lbt, confVars
<1>2. CASE PostConf(pending.key, "CANCELLED") /\ chState' = "IDLE_MONITOR"
           /\ hasPending' = FALSE /\ UNCHANGED phyTx
  BY <1>0, <1>2, GivingUpKeeps, RefusalMapped DEF Lbt
<1>3. CASE chState' = "TX_PENDING" /\ UNCHANGED <<hasPending, phyTx, confVars>>
  BY <1>3, OrderFrame, StutterMapped DEF Lbt, confVars
<1> QED  BY <1>1, <1>2, <1>3 DEF SlotSchedule

\* Every step keeps the order and is a step of the service.
LEMMA NextMapped ==
  TypeOK /\ SentOrder /\ Sheltered /\ [Next]_vars => SentOrder' /\ ServiceStep
<1> SUFFICES ASSUME TypeOK, SentOrder, Sheltered, [Next]_vars
             PROVE  SentOrder' /\ ServiceStep
  OBVIOUS
<1> DEFINE Good == SentOrder' /\ ServiceStep
<1> USE DEF macVars, queueVars, clientVars, confVars
\* A step that moves no request and reports nothing.
<1>a. ASSUME UNCHANGED <<nextId, aired, verdicts, txReq, phyTx, phyConf, cancelling,
                         pending>>,
             hasPending' \/ Lbt' => hasPending \/ Lbt, Lbt' => Lbt
      PROVE  Good
  BY <1>a, OrderFrame, StutterMapped
<1>b. pending.key \in Keys /\ txReq \in Seq(Request) /\ phyConf \in Seq(PhyDone)
  BY DEF TypeOK, Request
<1>1. CASE EpollWait
  BY <1>1, <1>a DEF EpollWait, Lbt
<1>2. CASE IdleSrchEvent
  <2>1. CASE chState = "QUALIFY_IDLE"
    <3> DEFINE tm == Disarm(Drain(tmr, "idle_srch"), "tx_lmt")
    <3>1. SlotSchedule(pending, hasPending, tm, "TX_PENDING")
      BY <1>2, <2>1 DEF IdleSrchEvent
    <3>2. UNCHANGED <<pending, nextId, aired, txReq, phyConf, cancelling>> /\ Lbt
      BY <1>2, <2>1 DEF IdleSrchEvent, Lbt
    <3> HIDE DEF tm
    <3> QED  BY <3>1, <3>2, ScheduleMapped
  <2>2. CASE chState # "QUALIFY_IDLE"
    BY <1>2, <1>a, <2>2 DEF IdleSrchEvent, Lbt
  <2> QED  BY <2>1, <2>2
<1>3. CASE HoldoffEvent
  BY <1>3, <1>a DEF HoldoffEvent, HoldoffWith, Lbt
<1>4. CASE TxLmtEvent
  <2>1. CASE hasPending
    <3>1. /\ PostConf(pending.key, "ABORTED") /\ ~hasPending' /\ ~Lbt'
          /\ UNCHANGED <<nextId, aired, txReq, phyTx, phyConf, cancelling>>
      BY <1>4, <2>1 DEF TxLmtEvent, Lbt
    <3>2. Submitted(pending.key) /\ Unanswered(pending.key)
      BY <2>1 DEF SentOrder, PendingOrder
    <3> QED  BY <1>b, <2>1, <3>1, <3>2, GivingUpKeeps, RefusalMapped
  <2>2. CASE ~hasPending
    BY <1>4, <1>a, <2>2 DEF TxLmtEvent, Lbt
  <2> QED  BY <2>1, <2>2
<1>5. CASE TxReqEvent
  <2> DEFINE req == Head(txReq)
  <2>1. /\ txReq # <<>> /\ txReq' = Tail(txReq)
        /\ UNCHANGED <<phyConf, nextId, cancelling, aired>>
    BY <1>5 DEF TxReqEvent
  <2>2. req.key \in Keys /\ Fresh(req.key) /\ req.mode # "impolite"
    <3>1. 1 \in DOMAIN txReq /\ req = txReq[1] /\ req \in Request
      BY <1>b, <2>1, TailOf, QueueTyped
    <3> QED  BY <3>1 DEF SentOrder, TxReqOrder, Request
  <2>3. CASE RejectLate(req)
    BY <2>1, <2>2, <2>3, RejectKeeps, RefusalMapped DEF RejectLate, Fresh
  <2>4. CASE Accept(req)
    <3>1. pending' = req /\ UNCHANGED <<phyTx, verdicts>>
      BY <2>2, <2>4 DEF Accept, AcceptWith
    <3> QED  BY <2>1, <3>1, AcceptKeeps, StutterMapped
  <2> QED  BY <1>5, <2>3, <2>4 DEF TxReqEvent
<1>6. CASE RxBurstEvent
  BY <1>6, <1>a DEF RxBurstEvent, HandleRxBurst, DataWhileListening, Lbt
<1>7. CASE PhyConfEvent
  <2> DEFINE k == Head(phyConf).key
  <2>1. /\ phyConf # <<>> /\ phyConf' = Tail(phyConf) /\ ~hasPending' /\ ~Lbt'
        /\ PostConf(k, PhyResult)
        /\ UNCHANGED <<nextId, aired, txReq, phyTx, cancelling>>
    BY <1>7 DEF PhyConfEvent, PhyConfWith, Lbt
  <2>2. Sent(Head(phyConf))
    <3>1. 1 \in DOMAIN phyConf /\ Head(phyConf) = phyConf[1]
      BY <1>b, <2>1, TailOf
    <3> QED  BY <3>1 DEF SentOrder, PhyConfOrder
  <2>3. /\ k \in Keys /\ aired[k] = 1 /\ verdicts[k]["OK"] = 0
        /\ PhyResult = "OK"
    BY <2>2 DEF Sent, PhyResult
  <2>4. SentOrder'
    BY <2>1, <2>3, ConfirmKeeps
  <2>5. ServiceStep
    <3>1. ConfTypes /\ "OK" \in Results
      BY DEF TypeOK, ConfTypes, Results
    <3>2. CASE verdicts' = verdicts
      BY <2>1, <3>2, StutterMapped
    <3>3. CASE verdicts' = [verdicts EXCEPT ![k]["OK"] = @ + 1]
      <4>1. Service!Confirm(k) /\ k \in Service!Keys
        BY <2>1, <2>3, <3>3
        DEF Service!Confirm, Service!Report, Service!Keys, Keys, Ids
      <4> HIDE DEF k
      <4> QED  BY <4>1 DEF ServiceStep, Service!Next
    <3> QED  BY <2>1, <2>3, <3>1, <3>2, <3>3, PostConfAnswers
  <2> QED  BY <2>4, <2>5
<1>8. CASE Tick
  BY <1>8, <1>a DEF Tick, Lbt
<1>9. ASSUME NEW t \in Timers, Expire(t) PROVE Good
  BY <1>9, <1>a DEF Expire, Lbt
<1>10. CASE PhySlot
  <2>1. phyTx \in Seq(Request) /\ phyTx # <<>> /\ aired \in [Keys -> Nat]
    BY <1>10 DEF TypeOK, PhySlot
  <2>2. PICK k \in Keys : k = Head(phyTx).key
    <3>1. Head(phyTx) \in Request
      BY <2>1, QueueTyped
    <3> QED  BY <3>1 DEF Request
  <2>3. Sending(k)
    <3>1. 1 \in DOMAIN phyTx /\ Head(phyTx) = phyTx[1]
      BY <2>1, TailOf
    <3> QED  BY <2>2, <3>1 DEF SentOrder, PhyTxOrder
  <2>4. /\ aired' = [aired EXCEPT ![k] = 1] /\ UNCHANGED <<nextId, verdicts>>
    BY <1>10, <2>2, <2>3 DEF PhySlot, Sending
  <2>5. ASSUME NEW id \in 1..MaxReq, id > k[2] PROVE aired[<<k[1], id>>] = 0
    <3>1. <<k[1], id>> \in Keys /\ k[2] \in Int
      BY DEF Keys, Ids
    <3>2. ~(aired[<<k[1], id>>] > 0)
      BY <2>3, <2>5, <3>1 DEF Sending, BehindAired, Before
    <3> QED  BY <2>1, <3>1, <3>2
  <2>6. ~Service!Refused(k, Service!Final)
    BY <2>3 DEF Sending, Service!Refused, Service!Final
  <2>7. Service!Transmit(k)
    BY <2>3, <2>4, <2>5, <2>6
    DEF Sending, Submitted, Service!Submitted, Service!Transmit
  <2>8. ServiceStep
    BY <2>7 DEF ServiceStep, Service!Next, Service!Keys, Keys, Ids
  <2> QED  BY <1>10, <2>8, SlotKeeps
<1>11. CASE PhyFault
  BY <1>11 DEF PhyFault, Sheltered, TypeOK
<1>12. CASE ChannelBurst
  BY <1>12, <1>a DEF ChannelBurst, Lbt
<1>13. ASSUME NEW c \in Clients, NEW mode \in Modes[c], Submit(c, mode)
       PROVE  Good
  <2>1. Service!Submit(c)
    BY <1>13 DEF Submit, Service!Submit
  <2>2. ServiceStep
    BY <2>1 DEF ServiceStep, Service!Next
  <2> QED  BY <1>13, <2>2, SubmitKeeps
<1>14. ASSUME NEW c \in Clients, TakeConf(c) PROVE Good
  BY <1>14, <1>a DEF TakeConf, Lbt
<1>15. ASSUME NEW id \in Ids, CancelBegin(id) PROVE Good
  BY <1>15 DEF CancelBegin, Sheltered
<1>16. CASE CancelEnd
  BY <1>16 DEF CancelEnd, SentOrder
<1>17. CASE UNCHANGED vars
  BY <1>17, <1>a DEF vars, Lbt
<1> QED
  BY <1>1, <1>2, <1>3, <1>4, <1>5, <1>6, <1>7, <1>8, <1>9, <1>10, <1>11,
     <1>12, <1>13, <1>14, <1>15, <1>16, <1>17
  DEF Next, MacStep

\* With no request that skips listening, no cancellation and no failing PHY
\* read, however many modules share the slot and whatever the queues' depth:
\* a burst goes out at most once and after the earlier ones of its module, OK
\* is reported once and only after it, and a request refused as cancelled or
\* late stays unsent.
THEOREM ServiceImplemented == Sheltered => (Spec => ImplementsService)
<1> SUFFICES ASSUME Sheltered PROVE Spec => ImplementsService
  OBVIOUS
<1>1. Init => Service!Init
  BY DEF Init, Service!Init, Keys, Ids, Results, Service!Keys, Service!Results,
         Service!Refusals, Service!Final
<1>2. TypeOK /\ SentOrder /\ [Next]_vars => SentOrder' /\ [Service!Next]_(Service!vars)
  BY NextMapped DEF ServiceStep
<1> QED
  BY TypeCorrect, InitOrder, <1>1, <1>2, PTL
  DEF Spec, ImplementsService, Service!Spec

----------------------------------------------------------------------------
(* One module, one request at a time: the snapshot tells the truth.        *)

\* What PoliteTx and AbortOnlyAfterLimit need: a module that waits for each
\* answer, nobody who cancels, and a PHY whose reads do not fail.
Solo ==
  /\ \E c \in Clients : Clients = {c}
  /\ Window <= 1 /\ ~AllowCancel /\ MaxFaults = 0

Last(c) == <<c, nextId[c] - 1>>

\* The module has no answer to the request, nor will it get one from the PHY.
Untold(k) ==
  /\ k[2] \notin done[k[1]]
  /\ \A i \in DOMAIN confQ[k[1]] : confQ[k[1]][i].id # k[2]
Unserved(k) ==
  /\ Untold(k)
  /\ \A i \in DOMAIN phyTx : phyTx[i].key # k
  /\ \A i \in DOMAIN phyConf : phyConf[i].key # k

Ticking == \E t \in Timers : tmr[t].kern # "off"

\* What is answered, sent or being sent was submitted, and the PHY succeeds.
Known ==
  /\ cancelling = 0
  /\ \A i \in DOMAIN phyTx : Submitted(phyTx[i].key)
  /\ \A i \in DOMAIN phyConf :
       phyConf[i].key \in Keys /\ phyConf[i].ok /\ Submitted(phyConf[i].key)
  /\ \A c \in Clients :
       /\ \A id \in done[c] : id < nextId[c]
       /\ \A i \in DOMAIN confQ[c] : confQ[c][i].id < nextId[c]

\* A timer that ticks, and a request held or in the queue, is about the newest
\* request, and that one is unanswered: no other comes before it is.
Newest ==
  \A c \in Clients :
    /\ Ticking \/ txReq # <<>> => nextId[c] > 1 /\ Unserved(Last(c))
    /\ hasPending => pending.key = Last(c) /\ nextId[c] > 1 /\ Untold(Last(c))
    /\ \A i \in DOMAIN txReq : txReq[i].key = Last(c)

\* So a request is taken up with no timer ticking, and no expiry waits in the
\* snapshot it is taken up from.
OneAtATime ==
  /\ Len(txReq) <= 1
  /\ Ticking \/ hasPending => txReq = <<>>
  /\ "tx_req" \in batch => batch \cap Timers = {}

\* A timer in the snapshot has not been started again, and listening and
\* holding off exclude each other.
Separate ==
  /\ \A t \in Timers : /\ tmr[t].kern # "off" => tmr[t].armed
                       /\ t \in batch => tmr[t].kern # "running"
  /\ tmr["idle_srch"].kern = "off" \/ tmr["holdoff"].kern = "off"
  /\ "holdoff" \in batch => "idle_srch" \notin batch /\ chState # "QUALIFY_IDLE"

\* The two clocks agree with the timers that measure them.
ListenedSince ==
  chState = "QUALIFY_IDLE" =>
    /\ tmr["idle_srch"].kern = "running" => IdleSrch <= listened + tmr["idle_srch"].left
    /\ tmr["idle_srch"].kern = "expired" => listened = IdleSrch
WaitedSince ==
  /\ tmr["tx_lmt"].kern = "running" => TxLmt <= waited + tmr["tx_lmt"].left
  /\ tmr["tx_lmt"].kern = "expired" \/ "tx_lmt" \in batch => waited = TxLmt

Clocked  == Separate /\ ListenedSince /\ WaitedSince
InHand   == Known /\ Newest /\ OneAtATime

\* Stopping a timer, or reading its expiry, leaves it off and the others alone.
LEMMA DisarmStops ==
  ASSUME NEW tm \in [Timers -> Timer], NEW t \in Timers,
         tm[t].kern # "off" => tm[t].armed
  PROVE  /\ Disarm(tm, t) \in [Timers -> Timer] /\ Disarm(tm, t)[t].kern = "off"
         /\ \A u \in Timers \ {t} : Disarm(tm, t)[u] = tm[u]
<1>1. Disarm(tm, t) \in [Timers -> Timer]
  BY TimersTyped, DelaysFit
<1>2. Disarm(tm, t)[t].kern = "off"
  BY DEF Disarm, Off
<1>3. \A u \in Timers \ {t} : Disarm(tm, t)[u] = tm[u]
  BY DEF Disarm
<1> QED  BY <1>1, <1>2, <1>3

LEMMA DrainStops ==
  ASSUME NEW tm \in [Timers -> Timer], NEW t \in Timers, tm[t].kern # "running"
  PROVE  /\ Drain(tm, t) \in [Timers -> Timer] /\ Drain(tm, t)[t].kern = "off"
         /\ \A u \in Timers \ {t} : Drain(tm, t)[u] = tm[u]
<1>1. Drain(tm, t) \in [Timers -> Timer]
  BY TimersTyped, DelaysFit
<1>2. Drain(tm, t)[t].kern = "off"
  <2>1. tm[t] \in Timer /\ tm[t].kern \in {"off", "expired"}
    BY DEF Timer
  <2>2. [tm[t] EXCEPT !.armed = FALSE].kern = tm[t].kern
    BY <2>1 DEF Timer
  <2>3. Drain(tm, t)[t] = IF tm[t].kern = "expired" THEN Off
                                        ELSE [tm[t] EXCEPT !.armed = FALSE]
    BY DEF Drain
  <2> QED  BY <2>1, <2>2, <2>3 DEF Off
<1>3. \A u \in Timers \ {t} : Drain(tm, t)[u] = tm[u]
  BY DEF Drain
<1> QED  BY <1>1, <1>2, <1>3

\* Starting a timer.
LEMMA ArmStarts ==
  ASSUME NEW tm \in [Timers -> Timer], NEW t \in Timers, NEW k \in Ticks
  PROVE  /\ Arm(tm, t, k) \in [Timers -> Timer]
         /\ Arm(tm, t, k)[t] = [kern |-> "running", left |-> k, armed |-> TRUE]
         /\ \A u \in Timers \ {t} : Arm(tm, t, k)[u] = tm[u]
<1>1. Arm(tm, t, k) \in [Timers -> Timer]
  BY TimersTyped
<1> QED  BY <1>1 DEF Arm

\* Timers that are off or armed are all off after they are all disarmed.
LEMMA AllDisarmed ==
  ASSUME NEW tm \in [Timers -> Timer],
         \A t \in Timers : tm[t].kern # "off" => tm[t].armed
  PROVE  \A t \in Timers : DisarmAll(tm)[t].kern = "off"
<1> DEFINE one == Disarm(tm, "idle_srch")
           two == Disarm(one, "holdoff")
<1>1. /\ one \in [Timers -> Timer] /\ one["idle_srch"].kern = "off"
      /\ one["holdoff"] = tm["holdoff"] /\ one["tx_lmt"] = tm["tx_lmt"]
  BY DisarmStops
<1>2. /\ two \in [Timers -> Timer] /\ two["idle_srch"].kern = "off"
      /\ two["holdoff"].kern = "off" /\ two["tx_lmt"] = tm["tx_lmt"]
  <2> HIDE DEF one
  <2> QED  BY <1>1, DisarmStops
<1>3. \A t \in Timers : Disarm(two, "tx_lmt")[t].kern = "off"
  <2> HIDE DEF two
  <2> QED  BY <1>2, DisarmStops
<1> QED  BY <1>3 DEF DisarmAll

\* Nothing is timed, and the snapshot only shrank.
LEMMA ClockStopped ==
  ASSUME Clocked, \A t \in Timers : tmr'[t].kern = "off",
         batch' \subseteq batch, chState' # "QUALIFY_IDLE",
         waited' = waited \/ batch \cap Timers = {}
  PROVE  Clocked'
  BY DEF Clocked, Separate, ListenedSince, WaitedSince

\* Nothing is timed anew.
LEMMA ClockKept ==
  ASSUME Clocked, UNCHANGED <<tmr, waited>>, batch' \subseteq batch,
         chState' # "QUALIFY_IDLE" \/ (chState' = chState /\ listened' = listened)
  PROVE  Clocked'
  BY DEF Clocked, Separate, ListenedSince, WaitedSince

\* An expiry is read that the state has no use for.
LEMMA ClockDrained ==
  ASSUME Clocked, tmr \in [Timers -> Timer], NEW t \in Timers, t \in batch,
         tmr' = Drain(tmr, t), batch' \subseteq batch,
         UNCHANGED <<waited, listened, chState>>
  PROVE  Clocked' /\ \A u \in Timers : tmr'[u].kern # "off" => tmr[u].kern # "off"
<1>1. /\ tmr'[t].kern = "off"
      /\ \A u \in Timers \ {t} : tmr'[u] = tmr[u]
  BY DrainStops DEF Clocked, Separate
<1> QED  BY <1>1 DEF Clocked, Separate, ListenedSince, WaitedSince

\* T_IdleSrch hands the burst over with no timer left.
LEMMA HandOverStops ==
  ASSUME TypeOK, LbtArmed, ~AllowCancel, Clocked, IdleSrchEvent,
         chState = "QUALIFY_IDLE"
  PROVE  /\ \A t \in Timers : tmr'[t].kern = "off"
         /\ chState' # "QUALIFY_IDLE" /\ listened = IdleSrch /\ hasPending
<1> DEFINE drained == Drain(tmr, "idle_srch")
           tm == Disarm(drained, "tx_lmt")
<1>0. tmr \in [Timers -> Timer] /\ hasPending \in BOOLEAN
  BY DEF TypeOK
<1>1. /\ "idle_srch" \in batch /\ tmr["idle_srch"].kern # "off" /\ hasPending
      /\ SlotSchedule(pending, hasPending, tm, "TX_PENDING")
  BY DEF IdleSrchEvent, Serve, LbtArmed, Live
<1>2. tmr["idle_srch"].kern \in {"off", "running", "expired"}
  BY <1>0 DEF Timer
<1>3. tmr["idle_srch"].kern = "expired" /\ tmr["holdoff"].kern = "off"
  BY <1>1, <1>2 DEF Clocked, Separate
<1>4. /\ drained \in [Timers -> Timer] /\ drained["idle_srch"].kern = "off"
      /\ drained["holdoff"] = tmr["holdoff"] /\ drained["tx_lmt"] = tmr["tx_lmt"]
  BY <1>0, <1>3, DrainStops
<1>5. /\ tm \in [Timers -> Timer] /\ \A t \in Timers : tm[t].kern = "off"
  <2>1. tmr["tx_lmt"].kern # "off" => tmr["tx_lmt"].armed
    BY DEF Clocked, Separate
  <2> HIDE DEF drained
  <2> QED  BY <1>3, <1>4, <2>1, DisarmStops
<1>6. \A t \in Timers : DisarmAll(tm)[t].kern = "off"
  <2> HIDE DEF tm
  <2> QED  BY <1>5, AllDisarmed
<1>7. \A t \in Timers : tmr'[t].kern = "off"
  <2> HIDE DEF tm
  <2> QED  BY <1>1, <1>5, <1>6 DEF SlotSchedule
<1>8. chState' # "QUALIFY_IDLE"
  <2> HIDE DEF tm
  <2> QED  BY <1>0, <1>1 DEF SlotSchedule
<1>9. listened = IdleSrch
  BY <1>3 DEF Clocked, ListenedSince
<1> QED  BY <1>1, <1>7, <1>8, <1>9

\* T_DataTxLmt gives the request up with no timer left.
LEMMA GivingUpStops ==
  ASSUME TypeOK, Clocked, TxLmtEvent, hasPending
  PROVE  /\ \A t \in Timers : tmr'[t].kern = "off"
         /\ chState' # "QUALIFY_IDLE" /\ waited = TxLmt
<1> DEFINE drained == Drain(tmr, "tx_lmt")
           one == Disarm(drained, "idle_srch")
<1>0. tmr \in [Timers -> Timer] /\ "tx_lmt" \in batch
  BY DEF TypeOK, TxLmtEvent, Serve
<1>1. /\ tmr["tx_lmt"].kern # "running" /\ waited = TxLmt
      /\ \A t \in Timers : tmr[t].kern # "off" => tmr[t].armed
  BY <1>0 DEF Clocked, Separate, WaitedSince
<1>2. /\ drained \in [Timers -> Timer] /\ drained["tx_lmt"].kern = "off"
      /\ drained["holdoff"] = tmr["holdoff"]
      /\ drained["idle_srch"] = tmr["idle_srch"]
  BY <1>0, <1>1, DrainStops
<1>3. /\ one \in [Timers -> Timer] /\ one["tx_lmt"].kern = "off"
      /\ one["holdoff"] = tmr["holdoff"] /\ one["idle_srch"].kern = "off"
  <2> HIDE DEF drained
  <2> QED  BY <1>1, <1>2, DisarmStops
<1>4. tmr' = Disarm(one, "holdoff") /\ chState' = "IDLE_MONITOR"
  BY DEF TxLmtEvent
<1>5. \A t \in Timers : tmr'[t].kern = "off"
  <2> HIDE DEF one
  <2> QED  BY <1>1, <1>3, <1>4, DisarmStops
<1> QED  BY <1>1, <1>4, <1>5

\* T_Holdoff starts T_IdleSrch again.
LEMMA HoldoffListens ==
  ASSUME TypeOK, LbtArmed, ~AllowCancel, Clocked, HoldoffEvent, chState = "HOLDOFF"
  PROVE  Clocked'
<1> DEFINE drained == Drain(tmr, "holdoff")
<1>0. tmr \in [Timers -> Timer] /\ listened \in Nat
  BY TimingAssumption DEF TypeOK
<1>1. /\ "holdoff" \in batch /\ batch' = batch \ {"holdoff"}
      /\ tmr["holdoff"].kern # "off" /\ chState' = "QUALIFY_IDLE"
      /\ tmr' = Arm(drained, "idle_srch", IdleSrch)
      /\ listened' = 0 /\ waited' = waited
  BY DEF HoldoffEvent, HoldoffWith, Serve, LbtArmed, Live, clockVars
<1>2. tmr["holdoff"].kern # "running" /\ "idle_srch" \notin batch
  BY <1>1 DEF Clocked, Separate
<1>3. /\ drained \in [Timers -> Timer] /\ drained["holdoff"].kern = "off"
      /\ drained["tx_lmt"] = tmr["tx_lmt"]
  BY <1>0, <1>2, DrainStops
<1>4. /\ tmr'["idle_srch"] = [kern |-> "running", left |-> IdleSrch, armed |-> TRUE]
      /\ tmr'["holdoff"].kern = "off" /\ tmr'["tx_lmt"] = tmr["tx_lmt"]
  <2> HIDE DEF drained
  <2> QED  BY <1>1, <1>3, ArmStarts, DelaysFit
<1>5. /\ tmr'["idle_srch"].kern = "running" /\ tmr'["idle_srch"].armed
      /\ tmr'["idle_srch"].left = IdleSrch
  BY <1>4
<1>6. Separate'
  BY <1>1, <1>2, <1>4, <1>5 DEF Clocked, Separate
<1>7. ListenedSince'
  BY <1>0, <1>1, <1>5, TimingAssumption DEF ListenedSince
<1>8. WaitedSince'
  BY <1>1, <1>4 DEF Clocked, WaitedSince
<1> QED  BY <1>6, <1>7, <1>8 DEF Clocked

\* A request is accepted with no timer ticking and none in the snapshot.
LEMMA AcceptClocked ==
  ASSUME TypeOK, LbtArmed, ~AllowCancel, InHand, Clocked,
         "tx_req" \in batch, txReq # <<>>, batch' \subseteq batch,
         NEW req, Accept(req)
  PROVE  Clocked'
<1>0. tmr \in [Timers -> Timer] /\ chState \in ChStates
  BY DEF TypeOK
<1>1. /\ \A t \in Timers : tmr[t].kern = "off"
      /\ batch \cap Timers = {} /\ chState # "QUALIFY_IDLE"
  BY DEF InHand, OneAtATime, Ticking, LbtArmed, Live
<1>2. CASE req.mode = "impolite"
  <2>1. SlotSchedule(req, TRUE, tmr, chState)
    BY <1>2 DEF Accept, AcceptWith
  <2>2. \A t \in Timers : DisarmAll(tmr)[t].kern = "off"
    BY <1>0, <1>1, AllDisarmed
  <2>3. \A t \in Timers : tmr'[t].kern = "off"
    BY <1>1, <2>1, <2>2 DEF SlotSchedule
  <2>4. chState' # "QUALIFY_IDLE"
    BY <1>1, <2>1, ScheduleListens
  <2> QED  BY <1>1, <2>3, <2>4, ClockStopped
<1>3. CASE req.mode # "impolite"
  <2> DEFINE limited == Arm(tmr, "tx_lmt", TxLmt)
  <2>1. /\ tmr' = Arm(limited, "idle_srch", IdleSrch) /\ waited' = 0
        /\ chState' = "QUALIFY_IDLE" /\ listened' = 0
    BY <1>3 DEF Accept, AcceptWith
  <2>2. /\ limited \in [Timers -> Timer] /\ limited["holdoff"] = tmr["holdoff"]
        /\ limited["tx_lmt"] = [kern |-> "running", left |-> TxLmt, armed |-> TRUE]
    BY <1>0, ArmStarts, DelaysFit
  <2>3. /\ tmr'["idle_srch"] = [kern |-> "running", left |-> IdleSrch, armed |-> TRUE]
        /\ tmr'["tx_lmt"] = [kern |-> "running", left |-> TxLmt, armed |-> TRUE]
        /\ tmr'["holdoff"] = tmr["holdoff"]
    <3> DEFINE both == Arm(limited, "idle_srch", IdleSrch)
    <3>1. IdleSrch \in Ticks
      BY DelaysFit
    <3> HIDE DEF limited
    <3>2. limited \in [Timers -> Timer]
      BY <2>2
    <3>3. /\ both["idle_srch"] = [kern |-> "running", left |-> IdleSrch, armed |-> TRUE]
          /\ both["tx_lmt"] = limited["tx_lmt"] /\ both["holdoff"] = limited["holdoff"]
      BY <3>1, <3>2, ArmStarts
    <3> HIDE DEF both
    <3>4. tmr' = both
      BY <2>1 DEF both
    <3> QED  BY <2>2, <3>3, <3>4
  <2>4. /\ tmr'["idle_srch"].kern = "running" /\ tmr'["idle_srch"].armed
        /\ tmr'["tx_lmt"].kern = "running" /\ tmr'["tx_lmt"].armed
        /\ tmr'["idle_srch"].left = IdleSrch /\ tmr'["tx_lmt"].left = TxLmt
        /\ tmr'["holdoff"].kern = "off" /\ batch' \cap Timers = {}
    BY <1>1, <2>3
  <2>5. Separate'
    BY <2>4 DEF Separate
  <2>6. ListenedSince' /\ WaitedSince'
    BY <2>1, <2>4, TimingAssumption DEF ListenedSince, WaitedSince
  <2> QED  BY <2>5, <2>6 DEF Clocked
<1> QED  BY <1>2, <1>3

\* A data burst read while listening starts T_Holdoff in place of T_IdleSrch.
LEMMA HeardClocked ==
  ASSUME TypeOK, Clocked, RxBurstEvent, DataWhileListening
  PROVE  Clocked'
<1> DEFINE calm == Disarm(tmr, "idle_srch")
<1>0. tmr \in [Timers -> Timer]
  BY DEF TypeOK
<1>1. PICK bursts \in 0..HoldoffMax :
        /\ tmr' = Arm(calm, "holdoff", bursts) /\ chState' = "HOLDOFF"
        /\ batch' \subseteq batch /\ waited' = waited
  BY DEF RxBurstEvent, HandleRxBurst, Serve, clockVars
<1>2. /\ calm \in [Timers -> Timer] /\ calm["idle_srch"].kern = "off"
      /\ calm["tx_lmt"] = tmr["tx_lmt"]
  BY <1>0, DisarmStops DEF Clocked, Separate
<1>3. bursts \in Ticks
  BY <1>1, DelaysFit
<1>4. /\ tmr'["holdoff"] = [kern |-> "running", left |-> bursts, armed |-> TRUE]
      /\ tmr'["idle_srch"].kern = "off" /\ tmr'["tx_lmt"] = tmr["tx_lmt"]
  <2> DEFINE started == Arm(calm, "holdoff", bursts)
  <2> HIDE DEF calm
  <2>1. calm \in [Timers -> Timer]
    BY <1>2
  <2>2. /\ started["holdoff"] = [kern |-> "running", left |-> bursts, armed |-> TRUE]
        /\ started["idle_srch"] = calm["idle_srch"]
        /\ started["tx_lmt"] = calm["tx_lmt"]
    <3>1. /\ started["holdoff"] = [kern |-> "running", left |-> bursts, armed |-> TRUE]
          /\ \A u \in Timers \ {"holdoff"} : started[u] = calm[u]
      <4>1. "holdoff" \in Timers
        OBVIOUS
      <4> HIDE DEF Timers
      <4> QED  BY <1>3, <2>1, <4>1, ArmStarts
    <3> QED  BY <3>1
  <2> HIDE DEF started
  <2>3. tmr' = started
    BY <1>1 DEF started
  <2> QED  BY <1>2, <2>2, <2>3
<1>5. tmr'["holdoff"].kern = "running" /\ tmr'["holdoff"].armed
  BY <1>4
<1>6. "holdoff" \notin batch
  BY DEF Clocked, Separate, DataWhileListening
<1>7. Separate'
  BY <1>1, <1>4, <1>5, <1>6 DEF Clocked, Separate
<1>8. ListenedSince' /\ WaitedSince'
  BY <1>1, <1>4 DEF Clocked, ListenedSince, WaitedSince
<1> QED  BY <1>7, <1>8 DEF Clocked

LEMMA NextClocked ==
  ASSUME Solo, TypeOK, LbtArmed, InHand, Clocked, [Next]_vars
  PROVE  Clocked'
<1>0. /\ tmr \in [Timers -> Timer] /\ ~AllowCancel
      /\ listened \in 0..IdleSrch /\ waited \in 0..TxLmt
      /\ IdleSrch \in Nat /\ TxLmt \in Nat
  BY TimingAssumption DEF TypeOK, Solo
<1>1. CASE EpollWait
  <2>1. /\ batch' = Ready /\ UNCHANGED <<tmr, chState, listened, waited>>
    BY <1>1 DEF EpollWait, clockVars
  <2>2. \A t \in Timers : t \in batch' => tmr[t].kern = "expired"
    BY <2>1 DEF Ready
  <2>3. chState = "QUALIFY_IDLE" => tmr["idle_srch"].kern # "off"
    BY <1>0 DEF LbtArmed, Live
  <2> QED
    BY <2>1, <2>2, <2>3 DEF Clocked, Separate, ListenedSince, WaitedSince
<1>2. CASE IdleSrchEvent
  <2>1. CASE chState = "QUALIFY_IDLE"
    <3>1. batch' \subseteq batch /\ waited' = waited
      BY <1>2 DEF IdleSrchEvent, Serve, clockVars
    <3> QED  BY <1>0, <1>2, <2>1, <3>1, HandOverStops, ClockStopped
  <2>2. CASE chState # "QUALIFY_IDLE"
    <3>1. /\ "idle_srch" \in batch /\ tmr' = Drain(tmr, "idle_srch")
          /\ batch' \subseteq batch /\ UNCHANGED <<waited, listened, chState>>
      BY <1>2, <2>2 DEF IdleSrchEvent, Serve, clockVars
    <3> QED  BY <1>0, <3>1, ClockDrained
  <2> QED  BY <2>1, <2>2
<1>3. CASE HoldoffEvent
  <2>1. CASE chState = "HOLDOFF"
    BY <1>0, <1>3, <2>1, HoldoffListens
  <2>2. CASE chState # "HOLDOFF"
    <3>1. /\ "holdoff" \in batch /\ tmr' = Drain(tmr, "holdoff")
          /\ batch' \subseteq batch /\ UNCHANGED <<waited, listened, chState>>
      BY <1>3, <2>2 DEF HoldoffEvent, HoldoffWith, Serve, clockVars
    <3> QED  BY <1>0, <3>1, ClockDrained
  <2> QED  BY <2>1, <2>2
<1>4. CASE TxLmtEvent
  <2>1. CASE hasPending
    <3>1. batch' \subseteq batch /\ waited' = waited
      BY <1>4 DEF TxLmtEvent, Serve, clockVars
    <3> QED  BY <1>4, <2>1, <3>1, GivingUpStops, ClockStopped
  <2>2. CASE ~hasPending
    <3>1. /\ "tx_lmt" \in batch /\ tmr' = Drain(tmr, "tx_lmt")
          /\ batch' \subseteq batch /\ UNCHANGED <<waited, listened, chState>>
      BY <1>4, <2>2 DEF TxLmtEvent, Serve, clockVars
    <3> QED  BY <1>0, <3>1, ClockDrained
  <2> QED  BY <2>1, <2>2
<1>5. CASE TxReqEvent
  <2>1. /\ "tx_req" \in batch /\ batch' \subseteq batch /\ txReq # <<>>
        /\ RejectLate(Head(txReq)) \/ Accept(Head(txReq))
    BY <1>5 DEF TxReqEvent, Serve
  <2>2. CASE RejectLate(Head(txReq))
    BY <2>1, <2>2, ClockKept DEF RejectLate
  <2>3. CASE Accept(Head(txReq))
    BY <1>0, <2>1, <2>3, AcceptClocked
  <2> QED  BY <2>1, <2>2, <2>3
<1>6. CASE RxBurstEvent
  <2>1. CASE DataWhileListening
    BY <1>6, <2>1, HeardClocked
  <2>2. CASE ~DataWhileListening
    <3>1. UNCHANGED <<tmr, waited, listened, chState>> /\ batch' \subseteq batch
      BY <1>6, <2>2 DEF RxBurstEvent, HandleRxBurst, Serve, clockVars
    <3> QED  BY <3>1, ClockKept
  <2> QED  BY <2>1, <2>2
<1>7. CASE PhyConfEvent
  <2>1. /\ UNCHANGED <<tmr, waited>> /\ batch' \subseteq batch
        /\ chState' = "IDLE_MONITOR"
    BY <1>7 DEF PhyConfEvent, PhyConfWith, Serve, clockVars
  <2> QED  BY <2>1, ClockKept
<1>8. CASE Tick
  <2>1. ASSUME NEW t \in Timers
        PROVE  /\ tmr'[t].kern = tmr[t].kern /\ tmr'[t].armed = tmr[t].armed
               /\ tmr[t].kern = "running" =>
                    tmr[t].left \in Nat \ {0} /\ tmr'[t].left = tmr[t].left - 1
    <3>1. tmr[t] \in Timer /\ Ticks \subseteq Nat
      BY <1>0, TimingAssumption DEF Ticks
    <3>2. tmr[t].kern = "running" => tmr[t].left \in Nat /\ tmr[t].left > 0
      BY <1>8, <3>1 DEF Tick, Timer
    <3>3. tmr'[t] = IF tmr[t].kern = "running"
                      THEN [tmr[t] EXCEPT !.left = @ - 1] ELSE tmr[t]
      BY <1>8 DEF Tick
    <3> QED  BY <3>1, <3>2, <3>3 DEF Timer
  <2>2. /\ listened' = (IF listened < IdleSrch THEN listened + 1 ELSE listened)
        /\ waited' = (IF waited < TxLmt THEN waited + 1 ELSE waited)
        /\ chState' = chState /\ batch' = batch
    BY <1>8 DEF Tick
  <2>3. Separate'
    BY <2>1, <2>2 DEF Clocked, Separate
  <2>4. ListenedSince'
    BY <1>0, <2>1, <2>2 DEF Clocked, ListenedSince
  <2>5. WaitedSince'
    BY <1>0, <2>1, <2>2 DEF Clocked, WaitedSince
  <2> QED  BY <2>3, <2>4, <2>5 DEF Clocked
<1>9. ASSUME NEW t \in Timers, Expire(t) PROVE Clocked'
  <2>1. /\ tmr[t].kern = "running" /\ tmr[t].left = 0
        /\ tmr' = [tmr EXCEPT ![t].kern = "expired"]
        /\ UNCHANGED <<listened, waited, chState, batch>>
    BY <1>9 DEF Expire, Due, Expired, clockVars
  <2>2. /\ tmr'[t].kern = "expired" /\ tmr'[t].armed = tmr[t].armed
        /\ \A u \in Timers \ {t} : tmr'[u] = tmr[u]
    BY <1>0, <2>1 DEF Timer
  <2>3. Separate'
    BY <2>1, <2>2 DEF Clocked, Separate
  <2>4. ListenedSince'
    BY <1>0, <2>1, <2>2 DEF Clocked, ListenedSince
  <2>5. WaitedSince'
    BY <1>0, <2>1, <2>2 DEF Clocked, WaitedSince
  <2> QED  BY <2>3, <2>4, <2>5 DEF Clocked
<1>a. ASSUME UNCHANGED <<tmr, waited, listened, chState, batch>> PROVE Clocked'
  BY <1>a, ClockKept
<1>10. CASE PhySlot
  BY <1>10, <1>a DEF PhySlot, macVars, clockVars
<1>11. CASE PhyFault
  BY <1>11, <1>a DEF PhyFault, macVars, clockVars
<1>12. CASE ChannelBurst
  BY <1>12, <1>a DEF ChannelBurst, macVars
<1>13. ASSUME NEW c \in Clients, NEW mode \in Modes[c], Submit(c, mode)
       PROVE  Clocked'
  BY <1>13, <1>a DEF Submit, macVars, clockVars
<1>14. ASSUME NEW c \in Clients, TakeConf(c) PROVE Clocked'
  BY <1>14, <1>a DEF TakeConf, macVars, clockVars
<1>15. ASSUME NEW id \in Ids, CancelBegin(id) PROVE Clocked'
  BY <1>0, <1>15 DEF CancelBegin
<1>16. CASE CancelEnd
  BY <1>16 DEF CancelEnd, InHand, Known
<1>17. CASE UNCHANGED vars
  BY <1>17, <1>a DEF vars, macVars, clockVars
<1> QED
  BY <1>1, <1>2, <1>3, <1>4, <1>5, <1>6, <1>7, <1>8, <1>9, <1>10, <1>11,
     <1>12, <1>13, <1>14, <1>15, <1>16, <1>17
  DEF Next, MacStep

\* A key names a request.
LEMMA KeysName == \A key \in Keys : key # Garbage /\ key = <<key[1], key[2]>>
  BY DEF Keys, Garbage

\* mac_post_tx_conf() tells the module of the request it names, and of no other.
LEMMA ConfAdded ==
  ASSUME TypeOK, NEW key \in Keys, NEW result, PostConf(key, result),
         NEW c \in Clients, NEW i \in DOMAIN confQ'[c]
  PROVE  \/ i \in DOMAIN confQ[c] /\ confQ'[c][i] = confQ[c][i]
         \/ c = key[1] /\ confQ'[c][i].id = key[2]
<1> DEFINE conf == [id |-> key[2], result |-> result]
<1>1. key # Garbage /\ confQ \in [Clients -> Seq(Conf)]
  <2>1. key # Garbage
    BY KeysName
  <2> QED  BY <2>1 DEF TypeOK
<1>2. CASE confQ' = confQ
  BY <1>2
<1>3. CASE confQ' = [confQ EXCEPT ![key[1]] = Append(@, conf)] /\ c # key[1]
  BY <1>1, <1>3
<1>4. CASE confQ' = [confQ EXCEPT ![key[1]] = Append(@, conf)] /\ c = key[1]
  <2>1. confQ'[c] = Append(confQ[c], conf)
    BY <1>1, <1>4
  <2>2. \/ i \in DOMAIN confQ[c] /\ Append(confQ[c], conf)[i] = confQ[c][i]
        \/ Append(confQ[c], conf)[i] = conf
    <3>1. confQ[c] \in Seq(Conf \cup {conf}) /\ conf \in Conf \cup {conf}
      BY <1>1
    <3> HIDE DEF conf
    <3> QED  BY <2>1, <3>1, AppendOf
  <2> QED  BY <1>4, <2>1, <2>2
<1> QED  BY <1>1, <1>2, <1>3, <1>4 DEF PostConf

\* What is answered stays submitted, and another request stays untold.
LEMMA AnswerKnown ==
  ASSUME TypeOK, Known, NEW key \in Keys, NEW result, PostConf(key, result),
         Submitted(key), UNCHANGED <<nextId, done>>
  PROVE  /\ \A c \in Clients :
              /\ \A id \in done'[c] : id < nextId'[c]
              /\ \A i \in DOMAIN confQ'[c] : confQ'[c][i].id < nextId'[c]
         /\ \A c \in Clients :
              key # Last(c) /\ Untold(Last(c)) => Untold(Last(c))'
<1>1. ASSUME NEW c \in Clients, NEW i \in DOMAIN confQ'[c]
      PROVE  confQ'[c][i].id < nextId'[c]
  <2>1. CASE i \in DOMAIN confQ[c] /\ confQ'[c][i] = confQ[c][i]
    BY <2>1 DEF Known
  <2>2. CASE c = key[1] /\ confQ'[c][i].id = key[2]
    BY <2>2 DEF Submitted
  <2> QED  BY <1>1, <2>1, <2>2, ConfAdded
<1>2. ASSUME NEW c \in Clients, key # Last(c), Untold(Last(c))
      PROVE  Untold(Last(c))'
  <2>1. ASSUME NEW i \in DOMAIN confQ'[c] PROVE confQ'[c][i].id # nextId[c] - 1
    <3>1. CASE i \in DOMAIN confQ[c] /\ confQ'[c][i] = confQ[c][i]
      BY <1>2, <3>1 DEF Untold, Last
    <3>2. CASE c = key[1] /\ confQ'[c][i].id = key[2]
      <4>1. key = <<key[1], key[2]>>
        BY KeysName
      <4> QED  BY <1>2, <3>2, <4>1 DEF Last
    <3> QED  BY <2>1, <3>1, <3>2, ConfAdded
  <2> QED  BY <1>2, <2>1 DEF Untold, Last
<1> QED  BY <1>1, <1>2 DEF Known

\* A step that tells nobody anything and takes up no request.
LEMMA InHandKept ==
  ASSUME InHand, Ticking' => Ticking,
         UNCHANGED <<nextId, done, confQ, phyTx, phyConf, cancelling, txReq>>,
         hasPending' => hasPending /\ pending' = pending,
         batch' \subseteq batch \/ ("tx_req" \in batch' => batch' \cap Timers = {})
  PROVE  InHand'
<1>1. Known'
  BY DEF InHand, Known, Submitted
<1>2. Newest'
  BY DEF InHand, Newest, Unserved, Untold, Last
<1>3. OneAtATime'
  BY DEF InHand, OneAtATime
<1> QED  BY <1>1, <1>2, <1>3 DEF InHand

\* Nothing is left to be served, and the newest request is answered, or held
\* by the PHY and not yet told of.
LEMMA InHandServed ==
  ASSUME Known', ~Ticking', txReq' = <<>>,
         hasPending' => \A c \in Clients :
           pending'.key = Last(c)' /\ nextId'[c] > 1 /\ Untold(Last(c))',
         "tx_req" \in batch' => batch' \cap Timers = {}
  PROVE  InHand'
<1>1. Newest'
  BY DEF Newest
<1>2. OneAtATime'
  BY DEF OneAtATime
<1> QED  BY <1>1, <1>2 DEF InHand

\* The request held is given up, or a late one refused.
LEMMA InHandAnswered ==
  ASSUME TypeOK, InHand, NEW c \in Clients, NEW key \in Keys, NEW result,
         PostConf(key, result), Submitted(key), ~Ticking', txReq' = <<>>, ~hasPending',
         UNCHANGED <<nextId, done, phyTx, phyConf, cancelling>>,
         batch' \subseteq batch
  PROVE  InHand'
<1>1. Known'
  BY AnswerKnown DEF InHand, Known, Submitted
<1> QED  BY <1>1, InHandServed DEF InHand, OneAtATime

\* A burst is handed to the PHY, or refused by it: mac_tx_slot_schedule().
LEMMA InHandScheduled ==
  ASSUME TypeOK, InHand, NEW req \in Request, NEW tm, NEW st,
         SlotSchedule(req, TRUE, tm, st), Submitted(req.key),
         \A c \in Clients : req.key = Last(c) /\ nextId[c] > 1 /\ Untold(Last(c)),
         pending' = req, ~Ticking', txReq' = <<>>,
         UNCHANGED <<nextId, done, phyConf, cancelling>>, batch' \subseteq batch
  PROVE  InHand'
<1>0. phyTx \in Seq(Request) /\ req.key \in Keys
  BY DEF TypeOK, Request
<1>1. CASE phyTx' = Append(phyTx, req) /\ UNCHANGED confVars
  <2>1. \A i \in DOMAIN phyTx' : Submitted(phyTx'[i].key)
    BY <1>0, <1>1, AppendOf DEF InHand, Known
  <2>2. Known'
    BY <1>1, <2>1 DEF InHand, Known, Submitted, confVars
  <2>3. \A c \in Clients : pending'.key = Last(c)' /\ nextId'[c] > 1 /\ Untold(Last(c))'
    BY <1>1 DEF Last, Untold, confVars
  <2> QED  BY <2>2, <2>3, InHandServed DEF InHand, OneAtATime
<1>2. CASE PostConf(req.key, "CANCELLED") /\ phyTx' = phyTx /\ hasPending' = FALSE
  <2>1. PICK c \in Clients : TRUE
    BY ClientsAssumption
  <2> QED  BY <1>0, <1>2, <2>1, InHandAnswered
<1> QED  BY <1>1, <1>2 DEF SlotSchedule

\* The newest request of a module is one it submitted.
LEMMA NewestSubmitted ==
  ASSUME TypeOK, NEW key \in Keys, \A c \in Clients : key = Last(c)
  PROVE  Submitted(key)
<1>1. key[1] \in Clients /\ nextId[key[1]] \in Nat
  BY BoundsAssumption DEF Keys, TypeOK
<1>2. key = Last(key[1])
  BY <1>1
<1>3. key[2] = nextId[key[1]] - 1
  BY <1>2 DEF Last
<1> QED  BY <1>1, <1>3 DEF Submitted

\* The head of the queue is refused, or becomes the request held.
LEMMA TakenUpInHand ==
  ASSUME TypeOK, InHand, TxReqEvent
  PROVE  InHand'
<1> DEFINE req == Head(txReq)
<1>1. /\ "tx_req" \in batch /\ batch' = batch \ {"tx_req"}
      /\ txReq # <<>> /\ txReq' = Tail(txReq)
      /\ RejectLate(req) \/ Accept(req)
      /\ UNCHANGED <<nextId, done, phyConf, cancelling>>
  BY DEF TxReqEvent, Serve, clientVars
<1>2. /\ txReq \in Seq(Request) /\ Len(txReq) <= 1 /\ ~Ticking /\ ~hasPending
      /\ tmr \in [Timers -> Timer]
  BY <1>1 DEF TypeOK, InHand, OneAtATime
<1>3. req \in Request /\ req.key \in Keys /\ req = txReq[1] /\ 1 \in DOMAIN txReq
      /\ txReq' = <<>>
  <2>1. req \in Request /\ req = txReq[1] /\ 1 \in DOMAIN txReq /\ Tail(txReq) = <<>>
    BY <1>1, <1>2
  <2> QED  BY <1>1, <2>1 DEF Request
<1>4. \A c \in Clients : req.key = Last(c) /\ nextId[c] > 1 /\ Unserved(Last(c))
  BY <1>1, <1>3 DEF InHand, Newest
<1>5. Submitted(req.key)
  BY <1>3, <1>4, NewestSubmitted
<1>6. \A t \in Timers : tmr[t].kern = "off"
  BY <1>2 DEF Ticking
<1> HIDE DEF req
<1>7. CASE RejectLate(req)
  <2>1. /\ PostConf(req.key, "DEADLINE") /\ ~hasPending' /\ phyTx' = phyTx
        /\ ~Ticking'
    BY <1>2, <1>7 DEF RejectLate, Ticking
  <2>2. PICK c \in Clients : TRUE
    BY ClientsAssumption
  <2> QED  BY <1>1, <1>3, <1>5, <2>1, <2>2, InHandAnswered
<1>8. CASE Accept(req) /\ req.mode = "impolite"
  <2>1. SlotSchedule(req, TRUE, tmr, chState) /\ pending' = req
    BY <1>8 DEF Accept, AcceptWith
  <2>2. \A t \in Timers : DisarmAll(tmr)[t].kern = "off"
    BY <1>2, <1>6, AllDisarmed
  <2>3. tmr' = tmr \/ tmr' = DisarmAll(tmr)
    BY <2>1 DEF SlotSchedule
  <2>4. ~Ticking'
    BY <1>6, <2>2, <2>3 DEF Ticking
  <2> QED
    BY <1>1, <1>3, <1>4, <1>5, <2>1, <2>4, InHandScheduled DEF Unserved
<1>9. CASE Accept(req) /\ req.mode # "impolite"
  <2>1. /\ pending' = req /\ UNCHANGED <<phyTx, confQ>>
    BY <1>9 DEF Accept, AcceptWith, confVars
  <2>2. Known'
    BY <1>1, <2>1 DEF InHand, Known, Submitted
  <2>3. Newest'
    BY <1>1, <1>3, <1>4, <2>1 DEF Newest, Unserved, Untold, Last
  <2>4. OneAtATime'
    <3>1. txReq' = <<>> /\ "tx_req" \notin batch'
      BY <1>1, <1>3
    <3> QED  BY <3>1 DEF OneAtATime
  <2> QED  BY <2>2, <2>3, <2>4 DEF InHand
<1> QED  BY <1>1, <1>7, <1>8, <1>9

\* The PHY's answer is about another request, if the newest is still served.
LEMMA ConfirmedInHand ==
  ASSUME TypeOK, InHand, PhyConfEvent
  PROVE  InHand'
<1> DEFINE key == Head(phyConf).key
<1>1. /\ phyConf # <<>> /\ phyConf' = Tail(phyConf) /\ ~hasPending'
      /\ PostConf(key, PhyResult) /\ batch' \subseteq batch
      /\ UNCHANGED <<tmr, txReq, phyTx, nextId, done, cancelling>>
  BY DEF PhyConfEvent, PhyConfWith, Serve, clientVars
<1>2. phyConf \in Seq(PhyDone)
  BY DEF TypeOK
<1>3. 1 \in DOMAIN phyConf /\ Head(phyConf) = phyConf[1]
  BY <1>1, <1>2, TailOf
<1>4. \A i \in DOMAIN Tail(phyConf) :
        i + 1 \in DOMAIN phyConf /\ Tail(phyConf)[i] = phyConf[i + 1]
  BY <1>1, <1>2, TailOf
<1>5. key \in Keys /\ Submitted(key)
  BY <1>3 DEF InHand, Known
<1>6. \A c \in Clients : Unserved(Last(c)) => key # Last(c)
  BY <1>3 DEF Unserved
<1> HIDE DEF key
<1>7. /\ \A c \in Clients :
           /\ \A id \in done'[c] : id < nextId'[c]
           /\ \A i \in DOMAIN confQ'[c] : confQ'[c][i].id < nextId'[c]
      /\ \A c \in Clients : key # Last(c) /\ Untold(Last(c)) => Untold(Last(c))'
  BY <1>1, <1>5, AnswerKnown DEF InHand
<1>8. Known'
  <2>1. \A i \in DOMAIN phyConf :
          phyConf[i].key \in Keys /\ phyConf[i].ok /\ Submitted(phyConf[i].key)
    BY DEF InHand, Known
  <2>2. \A i \in DOMAIN phyConf' :
          phyConf'[i].key \in Keys /\ phyConf'[i].ok /\ Submitted(phyConf[i].key)'
    BY <1>1, <1>4, <2>1 DEF Submitted
  <2>3. cancelling' = 0 /\ \A i \in DOMAIN phyTx' : Submitted(phyTx[i].key)'
    BY <1>1 DEF InHand, Known, Submitted
  <2> QED  BY <1>7, <2>2, <2>3 DEF Known
<1>9. Newest'
  <2>1. ASSUME NEW c \in Clients, Unserved(Last(c)) PROVE Unserved(Last(c))'
    <3>1. Untold(Last(c))' /\ Last(c)' = Last(c)
      BY <1>1, <1>6, <1>7, <2>1 DEF Unserved, Last
    <3> QED  BY <1>1, <1>4, <2>1, <3>1 DEF Unserved
  <2>2. Ticking' \/ txReq' # <<>> => Ticking \/ txReq # <<>>
    BY <1>1 DEF Ticking
  <2> QED  BY <1>1, <2>1, <2>2 DEF InHand, Newest, Last
<1>10. OneAtATime'
  BY <1>1 DEF InHand, OneAtATime, Ticking
<1> QED  BY <1>8, <1>9, <1>10 DEF InHand

\* The burst on the air goes from the PHY's queue to its answers, or is lost.
LEMMA AiredInHand ==
  ASSUME TypeOK, InHand, PhySlot
  PROVE  InHand'
<1> DEFINE key == Head(phyTx).key
           answer == [key |-> key, ok |-> TRUE]
<1>1. /\ phyTx # <<>> /\ phyTx' = Tail(phyTx)
      /\ phyConf' = phyConf \/ phyConf' = Append(phyConf, answer)
      /\ UNCHANGED <<tmr, txReq, hasPending, pending, batch, nextId, done, cancelling,
                     confQ>>
  BY DEF PhySlot, clientVars, macVars
<1>2. phyConf \in Seq(PhyDone) /\ phyTx \in Seq(Request)
  BY DEF TypeOK
<1>3. 1 \in DOMAIN phyTx /\ Head(phyTx) = phyTx[1] /\ Head(phyTx) \in Request
  BY <1>1, <1>2, TailOf
<1>4. \A i \in DOMAIN Tail(phyTx) :
        i + 1 \in DOMAIN phyTx /\ Tail(phyTx)[i] = phyTx[i + 1]
  BY <1>1, <1>2, TailOf
<1>5. key \in Keys /\ Submitted(key)
  BY <1>3 DEF InHand, Known, Request
<1>6. \A c \in Clients : Unserved(Last(c)) => key # Last(c)
  BY <1>3 DEF Unserved
<1> HIDE DEF key
<1>7. answer \in PhyDone /\ answer.key = key /\ answer.ok
  BY <1>5 DEF PhyDone
<1> HIDE DEF answer
<1>8. ASSUME NEW i \in DOMAIN phyConf'
      PROVE  \/ i \in DOMAIN phyConf /\ phyConf'[i] = phyConf[i]
             \/ phyConf'[i] = answer
  <2>1. CASE phyConf' = phyConf
    BY <1>8, <2>1
  <2>2. CASE phyConf' = Append(phyConf, answer)
    <3>1. i \in DOMAIN Append(phyConf, answer)
      BY <1>8, <2>2
    <3>2. \/ i \in DOMAIN phyConf /\ Append(phyConf, answer)[i] = phyConf[i]
          \/ Append(phyConf, answer)[i] = answer
      BY <1>2, <1>7, <3>1, AppendOf
    <3> QED  BY <2>2, <3>2
  <2> QED  BY <1>1, <2>1, <2>2
<1>9. Known'
  <2>1. /\ \A i \in DOMAIN phyConf :
             phyConf[i].key \in Keys /\ phyConf[i].ok /\ Submitted(phyConf[i].key)
        /\ \A i \in DOMAIN phyTx : Submitted(phyTx[i].key)
    BY DEF InHand, Known
  <2>2. ASSUME NEW i \in DOMAIN phyConf'
        PROVE  phyConf'[i].key \in Keys /\ phyConf'[i].ok /\ Submitted(phyConf[i].key)'
    BY <1>1, <1>5, <1>7, <1>8, <2>1 DEF Submitted
  <2>3. \A i \in DOMAIN phyTx' : Submitted(phyTx[i].key)'
    BY <1>1, <1>4, <2>1 DEF Submitted
  <2>4. /\ cancelling' = 0
        /\ \A c \in Clients :
             /\ \A id \in done'[c] : id < nextId'[c]
             /\ \A i \in DOMAIN confQ'[c] : confQ'[c][i].id < nextId'[c]
    BY <1>1 DEF InHand, Known
  <2> QED  BY <2>2, <2>3, <2>4 DEF Known
<1>10. Newest'
  <2>1. ASSUME NEW c \in Clients, Unserved(Last(c)) PROVE Unserved(Last(c))'
    <3>1. Untold(Last(c))' /\ Last(c)' = Last(c)
      BY <1>1, <2>1 DEF Unserved, Untold, Last
    <3>2. \A i \in DOMAIN phyConf' : phyConf'[i].key # Last(c)
      BY <1>6, <1>7, <1>8, <2>1 DEF Unserved
    <3> QED  BY <1>1, <1>4, <2>1, <3>1, <3>2 DEF Unserved
  <2>2. Ticking' \/ txReq' # <<>> => Ticking \/ txReq # <<>>
    BY <1>1 DEF Ticking
  <2>3. \A c \in Clients : Untold(Last(c)) => Untold(Last(c))'
    BY <1>1 DEF Untold, Last
  <2> QED  BY <1>1, <2>1, <2>2, <2>3 DEF InHand, Newest, Last
<1>11. OneAtATime'
  BY <1>1 DEF InHand, OneAtATime, Ticking
<1> QED  BY <1>9, <1>10, <1>11 DEF InHand

\* The only module submits when it has the answer to its newest request.
LEMMA SubmitInHand ==
  ASSUME Solo, TypeOK, InHand, NEW c \in Clients, NEW mode \in Modes[c], Submit(c, mode)
  PROVE  InHand'
<1> DEFINE n == nextId[c]
           req == [key |-> <<c, n>>, mode |-> mode]
<1>1. /\ txReq' = Append(txReq, req) /\ nextId' = [nextId EXCEPT ![c] = n + 1]
      /\ n <= Quota[c] /\ Cardinality(Outstanding(c)) < Window
      /\ UNCHANGED <<tmr, hasPending, batch, phyTx, phyConf, done, confQ, cancelling>>
  BY DEF Submit, macVars, confVars
<1>2. n \in Ids /\ n \in Nat \ {0} /\ nextId \in [Clients -> Nat] /\ req \in Request
  <2>1. n \in 1..(MaxReq + 1) /\ Quota[c] \in 0..MaxReq /\ MaxReq \in Nat
    BY BoundsAssumption DEF TypeOK
  <2>2. n \in Ids
    BY <1>1, <2>1 DEF Ids
  <2>3. nextId \in [Clients -> Nat]
    BY <2>1 DEF TypeOK
  <2> QED  BY <2>1, <2>2, <2>3, ClientsAssumption DEF Request, Keys
<1>3. Clients = {c}
  BY DEF Solo
<1>4. \A id \in Ids : id < n => id \in done[c]
  <2>1. IsFiniteSet(Outstanding(c))
    <3>1. IsFiniteSet(Ids)
      BY FS_Interval, BoundsAssumption DEF Ids
    <3> QED  BY <3>1, FS_Subset DEF Outstanding
  <2>2. Cardinality(Outstanding(c)) = 0
    <3>1. Cardinality(Outstanding(c)) \in Nat
      BY <2>1, FS_CardinalityType
    <3> QED  BY <1>1, <3>1, BoundsAssumption DEF Solo
  <2>3. Outstanding(c) = {}
    BY <2>1, <2>2, FS_EmptySet
  <2> QED  BY <2>3 DEF Outstanding
<1>5. n > 1 => ~Untold(Last(c))
  <2>1. n > 1 => n - 1 \in Ids /\ n - 1 < n
    BY <1>2, BoundsAssumption DEF Ids
  <2> QED  BY <1>4, <2>1 DEF Untold, Last
<1>6. ~Ticking /\ txReq = <<>> /\ ~hasPending
  BY <1>5 DEF InHand, Newest, Unserved
<1>7. Last(c)' = <<c, n>> /\ nextId'[c] = n + 1
  <2>1. nextId'[c] = n + 1
    BY <1>1, <1>2
  <2> QED  BY <1>2, <2>1 DEF Last
<1>8. Unserved(<<c, n>>)
  <2>1. Untold(<<c, n>>)
    BY <1>2 DEF InHand, Known, Untold
  <2>2. /\ \A i \in DOMAIN phyTx : phyTx[i].key # <<c, n>>
        /\ \A i \in DOMAIN phyConf : phyConf[i].key # <<c, n>>
    BY <1>2 DEF InHand, Known, Submitted
  <2> QED  BY <2>1, <2>2 DEF Unserved
<1> HIDE DEF n
<1>9. Known'
  <2>1. \A k \in Keys : Submitted(k) => Submitted(k)'
    <3>1. \A d \in Clients : nextId[d] \in Nat /\ nextId'[d] \in Nat /\ nextId[d] <= nextId'[d]
      BY <1>2, <1>3, <1>7 DEF n
    <3>2. \A k \in Keys : k[1] \in Clients /\ k[2] \in Nat
      BY DEF Keys, Ids
    <3> QED  BY <3>1, <3>2 DEF Submitted
  <2>2. \A i \in DOMAIN phyTx' : Submitted(phyTx[i].key)'
    <3>1. \A i \in DOMAIN phyTx : phyTx[i].key \in Keys /\ Submitted(phyTx[i].key)
      <4>1. phyTx \in Seq(Request)
        BY DEF TypeOK
      <4>2. \A i \in DOMAIN phyTx : phyTx[i] \in Request
        BY <4>1
      <4> QED  BY <4>2 DEF InHand, Known, Request
    <3> QED  BY <1>1, <2>1, <3>1
  <2>3. \A i \in DOMAIN phyConf' :
          phyConf'[i].key \in Keys /\ phyConf'[i].ok /\ Submitted(phyConf[i].key)'
    BY <1>1, <2>1 DEF InHand, Known
  <2>4. /\ \A id \in done'[c] : id < nextId'[c]
        /\ \A i \in DOMAIN confQ'[c] : confQ'[c][i].id < nextId'[c]
    <3>1. done[c] \subseteq Nat /\ confQ[c] \in Seq(Conf)
      BY DEF TypeOK, Ids
    <3>2. \A i \in DOMAIN confQ[c] : confQ[c][i].id \in Nat
      <4>1. \A i \in DOMAIN confQ[c] : confQ[c][i] \in Conf
        BY <3>1
      <4> QED  BY <4>1 DEF Conf, Ids
    <3>3. /\ \A id \in done[c] : id < n
          /\ \A i \in DOMAIN confQ[c] : confQ[c][i].id < n
      BY DEF InHand, Known, n
    <3>4. /\ \A id \in done[c] : id < n + 1
          /\ \A i \in DOMAIN confQ[c] : confQ[c][i].id < n + 1
      BY <1>2, <3>1, <3>2, <3>3
    <3> QED  BY <1>1, <1>7, <3>4
  <2>5. cancelling' = 0
    BY <1>1 DEF InHand, Known
  <2> QED  BY <1>3, <2>2, <2>3, <2>4, <2>5 DEF Known
<1>10. Newest'
  <2>1. Unserved(Last(c))'
    BY <1>1, <1>7, <1>8 DEF Unserved, Untold
  <2>2. ~hasPending' /\ nextId'[c] > 1
    BY <1>1, <1>2, <1>6, <1>7
  <2>3. \A i \in DOMAIN txReq' : txReq'[i].key = Last(c)'
    <3>1. txReq' = <<req>>
      BY <1>1, <1>6
    <3> QED  BY <1>7, <3>1
  <2> QED  BY <1>3, <2>1, <2>2, <2>3 DEF Newest
<1>11. OneAtATime'
  <2>1. Len(txReq') = 1
    <3>1. txReq' = <<req>>
      BY <1>1, <1>6
    <3> QED  BY <3>1
  <2>2. ~Ticking' /\ ~hasPending'
    BY <1>1, <1>6 DEF Ticking
  <2> QED  BY <1>1, <2>1, <2>2 DEF InHand, OneAtATime
<1> QED  BY <1>9, <1>10, <1>11 DEF InHand

\* A module reads an answer that is about an earlier request, if the newest
\* is still served.
LEMMA TakenInHand ==
  ASSUME TypeOK, InHand, NEW c \in Clients, TakeConf(c)
  PROVE  InHand'
<1> DEFINE q == confQ[c]
<1>1. /\ q # <<>> /\ confQ' = [confQ EXCEPT ![c] = Tail(q)]
      /\ done' = [done EXCEPT ![c] = @ \cup {Head(q).id}]
      /\ UNCHANGED <<tmr, hasPending, pending, txReq, batch, phyTx, phyConf, nextId, cancelling>>
  BY DEF TakeConf, macVars, queueVars
<1>2. confQ \in [Clients -> Seq(Conf)] /\ done \in [Clients -> SUBSET Ids] /\ q \in Seq(Conf)
  BY DEF TypeOK
<1>3. 1 \in DOMAIN q /\ Head(q) = q[1]
  BY <1>1, <1>2, TailOf
<1>4. \A i \in DOMAIN Tail(q) : i + 1 \in DOMAIN q /\ Tail(q)[i] = q[i + 1]
  BY <1>1, <1>2, TailOf
<1>5. /\ confQ'[c] = Tail(q) /\ done'[c] = done[c] \cup {q[1].id}
      /\ \A d \in Clients \ {c} : confQ'[d] = confQ[d] /\ done'[d] = done[d]
  BY <1>1, <1>2, <1>3
<1>6. /\ \A d \in Clients : /\ \A id \in done'[d] : id < nextId[d]
                            /\ \A i \in DOMAIN confQ'[d] : confQ'[d][i].id < nextId[d]
  <2>1. \A i \in DOMAIN q : q[i].id < nextId[c]
    BY DEF InHand, Known
  <2>2. \A d \in Clients : /\ \A id \in done[d] : id < nextId[d]
                           /\ \A i \in DOMAIN confQ[d] : confQ[d][i].id < nextId[d]
    BY DEF InHand, Known
  <2> HIDE DEF q
  <2> QED  BY <1>3, <1>4, <1>5, <2>1, <2>2
<1>7. Known'
  BY <1>1, <1>6 DEF InHand, Known, Submitted
<1>8. ASSUME NEW d \in Clients, Untold(Last(d)) PROVE Untold(Last(d))'
  <2>1. CASE d = c
    <3>1. nextId[c] - 1 \notin done[c] /\ \A i \in DOMAIN q : q[i].id # nextId[c] - 1
      BY <1>8, <2>1 DEF Untold, Last
    <3>2. /\ nextId[c] - 1 \notin done'[c]
          /\ \A i \in DOMAIN confQ'[c] : confQ'[c][i].id # nextId[c] - 1
      <4> HIDE DEF q
      <4> QED  BY <1>3, <1>4, <1>5, <3>1
    <3> QED  BY <1>1, <2>1, <3>2 DEF Untold, Last
  <2>2. CASE d # c
    BY <1>1, <1>5, <1>8, <2>2 DEF Untold, Last
  <2> QED  BY <2>1, <2>2
<1>9. Newest'
  <2>1. \A d \in Clients : Unserved(Last(d)) => Unserved(Last(d))'
    BY <1>1, <1>8 DEF Unserved, Last
  <2>2. Ticking' = Ticking
    BY <1>1 DEF Ticking
  <2> QED  BY <1>1, <1>8, <2>1, <2>2 DEF InHand, Newest, Last
<1>10. OneAtATime'
  BY <1>1 DEF InHand, OneAtATime, Ticking
<1> QED  BY <1>7, <1>9, <1>10 DEF InHand

\* T_IdleSrch hands the request held to the PHY.
LEMMA HandedOverInHand ==
  ASSUME TypeOK, LbtArmed, ~AllowCancel, Clocked, InHand, IdleSrchEvent,
         chState = "QUALIFY_IDLE"
  PROVE  InHand'
<1> DEFINE tm == Disarm(Drain(tmr, "idle_srch"), "tx_lmt")
<1>1. /\ SlotSchedule(pending, hasPending, tm, "TX_PENDING") /\ pending' = pending
      /\ txReq' = txReq /\ batch' \subseteq batch
      /\ UNCHANGED <<nextId, done, phyConf, cancelling>>
  BY DEF IdleSrchEvent, Serve, clientVars
<1> HIDE DEF tm
<1>2. hasPending = TRUE /\ ~Ticking' /\ pending \in Request
  BY HandOverStops DEF TypeOK, Ticking
<1>3. txReq' = <<>>
  BY <1>1, <1>2 DEF InHand, OneAtATime
<1>4. \A c \in Clients : pending.key = Last(c) /\ nextId[c] > 1 /\ Untold(Last(c))
  BY <1>2 DEF InHand, Newest
<1>5. Submitted(pending.key)
  BY <1>2, <1>4, NewestSubmitted DEF Request
<1> QED  BY <1>1, <1>2, <1>3, <1>4, <1>5, InHandScheduled

\* T_DataTxLmt gives the request held up.
LEMMA GivenUpInHand ==
  ASSUME TypeOK, Clocked, InHand, TxLmtEvent, hasPending
  PROVE  InHand'
<1>1. /\ ~hasPending' /\ PostConf(pending.key, "ABORTED") /\ batch' \subseteq batch
      /\ UNCHANGED <<nextId, done, phyTx, phyConf, cancelling, txReq>>
  BY DEF TxLmtEvent, Serve, clientVars, queueVars
<1>2. ~Ticking' /\ pending.key \in Keys
  BY GivingUpStops DEF TypeOK, Ticking, Request
<1>3. txReq' = <<>>
  BY <1>1 DEF InHand, OneAtATime
<1>4. Submitted(pending.key)
  BY <1>2, NewestSubmitted DEF InHand, Newest
<1>5. PICK c \in Clients : TRUE
  BY ClientsAssumption
<1> QED  BY <1>1, <1>2, <1>3, <1>4, <1>5, InHandAnswered

LEMMA NextInHand ==
  ASSUME Solo, TypeOK, LbtArmed, InHand, Clocked, [Next]_vars
  PROVE  InHand'
<1>0. tmr \in [Timers -> Timer] /\ ~AllowCancel
  BY DEF TypeOK, Solo
<1>1. CASE EpollWait
  <2>1. /\ batch' = Ready
        /\ UNCHANGED <<nextId, done, confQ, phyTx, phyConf, cancelling, txReq, tmr,
                       hasPending, pending>>
    BY <1>1 DEF EpollWait, clientVars, confVars, queueVars
  <2>2. "tx_req" \in batch' => txReq # <<>>
    BY <2>1 DEF Ready
  <2>3. "tx_req" \in batch' => batch' \cap Timers = {}
    BY <2>1, <2>2 DEF InHand, OneAtATime, Ticking, Ready
  <2> QED  BY <2>1, <2>3, InHandKept DEF Ticking
<1>2. CASE IdleSrchEvent
  <2>1. CASE chState = "QUALIFY_IDLE"
    BY <1>0, <1>2, <2>1, HandedOverInHand
  <2>2. CASE chState # "QUALIFY_IDLE"
    <3>1. /\ "idle_srch" \in batch /\ tmr' = Drain(tmr, "idle_srch")
          /\ batch' \subseteq batch /\ UNCHANGED <<waited, listened, chState>>
          /\ UNCHANGED <<nextId, done, confQ, phyTx, phyConf, cancelling, txReq,
                         hasPending, pending>>
      BY <1>2, <2>2 DEF IdleSrchEvent, Serve, clockVars, confVars, clientVars
    <3>2. Ticking' => Ticking
      BY <1>0, <3>1, ClockDrained DEF Ticking
    <3> QED  BY <3>1, <3>2, InHandKept
  <2> QED  BY <2>1, <2>2
<1>3. CASE HoldoffEvent
  <2>1. /\ "holdoff" \in batch /\ batch' \subseteq batch
        /\ UNCHANGED <<nextId, done, confQ, phyTx, phyConf, cancelling, txReq,
                       hasPending, pending>>
    BY <1>3 DEF HoldoffEvent, HoldoffWith, Serve, confVars, clientVars, queueVars
  <2>2. CASE chState = "HOLDOFF"
    <3>1. Ticking
      BY <1>0, <2>2 DEF LbtArmed, Live, Ticking
    <3> QED  BY <2>1, <3>1, InHandKept
  <2>3. CASE chState # "HOLDOFF"
    <3>1. tmr' = Drain(tmr, "holdoff") /\ UNCHANGED <<waited, listened, chState>>
      BY <1>3, <2>3 DEF HoldoffEvent, HoldoffWith, clockVars
    <3>2. Ticking' => Ticking
      BY <1>0, <2>1, <3>1, ClockDrained DEF Ticking
    <3> QED  BY <2>1, <3>2, InHandKept
  <2> QED  BY <2>2, <2>3
<1>4. CASE TxLmtEvent
  <2>1. CASE hasPending
    BY <1>4, <2>1, GivenUpInHand
  <2>2. CASE ~hasPending
    <3>1. /\ "tx_lmt" \in batch /\ tmr' = Drain(tmr, "tx_lmt")
          /\ batch' \subseteq batch /\ UNCHANGED <<waited, listened, chState>>
          /\ UNCHANGED <<nextId, done, confQ, phyTx, phyConf, cancelling, txReq,
                         hasPending, pending>>
      BY <1>4, <2>2 DEF TxLmtEvent, Serve, clockVars, confVars, clientVars, queueVars
    <3>2. Ticking' => Ticking
      BY <1>0, <3>1, ClockDrained DEF Ticking
    <3> QED  BY <3>1, <3>2, InHandKept
  <2> QED  BY <2>1, <2>2
<1>5. CASE TxReqEvent
  BY <1>5, TakenUpInHand
<1>6. CASE RxBurstEvent
  <2>1. /\ batch' \subseteq batch
        /\ UNCHANGED <<nextId, done, confQ, phyTx, phyConf, cancelling, txReq,
                       hasPending, pending>>
    BY <1>6 DEF RxBurstEvent, HandleRxBurst, Serve, confVars, clientVars
  <2>2. Ticking' => Ticking
    <3>1. chState = "QUALIFY_IDLE" => Ticking
      BY <1>0 DEF LbtArmed, Live, Ticking
    <3>2. chState # "QUALIFY_IDLE" => tmr' = tmr
      BY <1>6 DEF RxBurstEvent, HandleRxBurst, DataWhileListening
    <3> QED  BY <3>1, <3>2 DEF Ticking
  <2> QED  BY <2>1, <2>2, InHandKept
<1>7. CASE PhyConfEvent
  BY <1>7, ConfirmedInHand
<1>8. CASE Tick
  <2>1. UNCHANGED <<nextId, done, confQ, phyTx, phyConf, cancelling, txReq,
                    hasPending, pending, batch>>
    BY <1>8 DEF Tick, confVars, clientVars, queueVars
  <2>2. ASSUME NEW t \in Timers PROVE tmr'[t].kern = tmr[t].kern
    <3>1. tmr[t] \in Timer
      BY <1>0
    <3>2. tmr'[t] = IF tmr[t].kern = "running"
                      THEN [tmr[t] EXCEPT !.left = @ - 1] ELSE tmr[t]
      BY <1>8 DEF Tick
    <3> QED  BY <3>1, <3>2 DEF Timer
  <2> QED  BY <2>1, <2>2, InHandKept DEF Ticking
<1>9. ASSUME NEW t \in Timers, Expire(t) PROVE InHand'
  <2>1. UNCHANGED <<nextId, done, confQ, phyTx, phyConf, cancelling, txReq,
                    hasPending, pending, batch>>
    BY <1>9 DEF Expire, confVars, clientVars, queueVars
  <2>2. Ticking
    BY <1>9 DEF Expire, Due, Ticking
  <2> QED  BY <2>1, <2>2, InHandKept
<1>a. ASSUME UNCHANGED <<nextId, done, confQ, phyTx, phyConf, cancelling, txReq, tmr,
                         hasPending, pending, batch>>
      PROVE  InHand'
  BY <1>a, InHandKept DEF Ticking
<1>10. CASE PhySlot
  BY <1>10, AiredInHand
<1>11. CASE PhyFault
  BY <1>11 DEF PhyFault, Solo, TypeOK
<1>12. CASE ChannelBurst
  BY <1>12, <1>a DEF ChannelBurst, macVars, confVars, clientVars
<1>13. ASSUME NEW c \in Clients, NEW mode \in Modes[c], Submit(c, mode)
       PROVE  InHand'
  BY <1>13, SubmitInHand
<1>14. ASSUME NEW c \in Clients, TakeConf(c) PROVE InHand'
  BY <1>14, TakenInHand
<1>15. ASSUME NEW id \in Ids, CancelBegin(id) PROVE InHand'
  BY <1>0, <1>15 DEF CancelBegin
<1>16. CASE CancelEnd
  BY <1>16 DEF CancelEnd, InHand, Known
<1>17. CASE UNCHANGED vars
  BY <1>17, <1>a DEF vars, macVars, confVars, clientVars, queueVars
<1> QED
  BY <1>1, <1>2, <1>3, <1>4, <1>5, <1>6, <1>7, <1>8, <1>9, <1>10, <1>11,
     <1>12, <1>13, <1>14, <1>15, <1>16, <1>17
  DEF Next, MacStep

LEMMA InitTimed == Init => InHand /\ Clocked
<1> SUFFICES ASSUME Init PROVE InHand /\ Clocked
  OBVIOUS
<1>1. \A t \in Timers : tmr[t].kern = "off"
  BY DEF Init, Off
<1>2. InHand
  BY <1>1 DEF Init, InHand, Known, Newest, OneAtATime, Ticking
<1>3. Clocked
  BY <1>1 DEF Init, Clocked, Separate, ListenedSince, WaitedSince
<1> QED  BY <1>2, <1>3

LEMMA PoliteStep ==
  ASSUME Solo, TypeOK, LbtArmed, DataNoticed, Clocked, [Next]_vars, Scheduled,
         phyTx'[Len(phyTx')].mode # "impolite"
  PROVE  listened = IdleSrch /\ ("data" \in noise => Unread("data"))
<1>0. phyTx \in Seq(Request) /\ ~AllowCancel
  BY DEF TypeOK, Solo
<1>1. CASE IdleSrchEvent
  <2>1. chState = "QUALIFY_IDLE"
    BY <1>1 DEF IdleSrchEvent, Scheduled
  <2> QED  BY <1>0, <1>1, <2>1, HandOverStops DEF DataNoticed, Noticed
<1>2. CASE TxReqEvent
  <2>1. txReq \in Seq(Request) /\ txReq # <<>>
    BY <1>2 DEF TxReqEvent, TypeOK
  <2>2. PICK req \in Request : RejectLate(req) \/ Accept(req)
    BY <1>2, <2>1, TailOf DEF TxReqEvent
  <2>3. phyTx' # phyTx
    BY <1>0 DEF Scheduled
  <2>4. Accept(req) /\ req.mode = "impolite"
    BY <2>2, <2>3 DEF RejectLate, Accept, AcceptWith
  <2>5. SlotSchedule(req, TRUE, tmr, chState)
    BY <2>4 DEF Accept, AcceptWith
  <2>6. phyTx' = Append(phyTx, req)
    BY <2>3, <2>5 DEF SlotSchedule
  <2>7. phyTx'[Len(phyTx')] = req
    BY <1>0, <2>6
  <2> QED  BY <2>4, <2>7
<1>3. CASE PhySlot
  BY <1>0, <1>3 DEF PhySlot, Scheduled
<1>4. ASSUME phyTx' = phyTx PROVE FALSE
  BY <1>0, <1>4 DEF Scheduled
<1> HIDE DEF Scheduled
<1>5. IdleSrchEvent \/ TxReqEvent \/ PhySlot \/ phyTx' = phyTx
  BY DEF Next, MacStep, EpollWait, HoldoffEvent, HoldoffWith, TxLmtEvent, RxBurstEvent,
     HandleRxBurst, PhyConfEvent, PhyConfWith, Tick, Expire, PhyFault, ChannelBurst,
     TakeConf, Submit, CancelBegin, CancelEnd, vars, queueVars
<1> QED  BY <1>1, <1>2, <1>3, <1>4, <1>5

\* Only a report of ABORTED is one more.
LEMMA AbortReported ==
  ASSUME TypeOK, NEW key, NEW result, PostConf(key, result), NEW k \in Keys, Aborts(k),
         key \in Keys \cup {Garbage}
  PROVE  result = "ABORTED"
<1>1. verdicts \in [Keys -> [Results -> Nat]] /\ "ABORTED" \in Results
  BY DEF TypeOK, Results
<1>2. verdicts[k]["ABORTED"] \in Nat
  BY <1>1
<1>3. verdicts' # verdicts
  BY <1>2 DEF Aborts
<1>4. key \in Keys /\ verdicts' = [verdicts EXCEPT ![key][result] = @ + 1]
  BY <1>3 DEF PostConf, confVars
<1>5. result # "ABORTED" => verdicts'[k]["ABORTED"] = verdicts[k]["ABORTED"]
  BY <1>1, <1>4
<1> QED  BY <1>2, <1>5 DEF Aborts

LEMMA AbortStep ==
  ASSUME Solo, TypeOK, InHand, Clocked, [Next]_vars, NEW k \in Keys, Aborts(k)
  PROVE  waited = TxLmt
<1>0. verdicts' # verdicts /\ ~AllowCancel
  <2>1. verdicts[k]["ABORTED"] \in Nat
    BY DEF TypeOK, Results
  <2> QED  BY <2>1 DEF Aborts, Solo
<1>1. CASE TxLmtEvent
  <2>1. hasPending
    BY <1>0, <1>1 DEF TxLmtEvent, confVars
  <2> QED  BY <1>1, <2>1, GivingUpStops
<1>2. ASSUME NEW key \in Keys, NEW result, PostConf(key, result), result # "ABORTED"
      PROVE  FALSE
  BY <1>2, AbortReported
<1>3. CASE PhyConfEvent
  <2>1. phyConf # <<>> /\ PostConf(Head(phyConf).key, PhyResult)
    BY <1>3 DEF PhyConfEvent, PhyConfWith
  <2>2. 1 \in DOMAIN phyConf /\ Head(phyConf) = phyConf[1]
    BY <2>1, TailOf DEF TypeOK
  <2>3. Head(phyConf).key \in Keys /\ PhyResult = "OK"
    BY <2>2 DEF InHand, Known, PhyResult
  <2> QED  BY <1>2, <2>1, <2>3
<1>4. ASSUME NEW req \in Request, NEW has, NEW tm, NEW st, SlotSchedule(req, has, tm, st)
      PROVE  FALSE
  <2>1. PostConf(req.key, "CANCELLED") /\ req.key \in Keys
    BY <1>0, <1>4 DEF SlotSchedule, confVars, Request
  <2> QED  BY <1>2, <2>1
<1>5. CASE IdleSrchEvent
  <2>1. SlotSchedule(pending, hasPending, Disarm(Drain(tmr, "idle_srch"), "tx_lmt"),
                     "TX_PENDING")
    BY <1>0, <1>5 DEF IdleSrchEvent, confVars
  <2> QED  BY <1>4, <2>1 DEF TypeOK
<1>6. CASE TxReqEvent
  <2>1. txReq \in Seq(Request) /\ txReq # <<>>
    BY <1>6 DEF TxReqEvent, TypeOK
  <2>2. PICK req \in Request : RejectLate(req) \/ Accept(req)
    BY <1>6, <2>1, TailOf DEF TxReqEvent
  <2>3. CASE RejectLate(req)
    <3>1. PostConf(req.key, "DEADLINE") /\ req.key \in Keys
      BY <2>3 DEF RejectLate, Request
    <3> QED  BY <1>2, <3>1
  <2>4. CASE Accept(req)
    <3>1. SlotSchedule(req, TRUE, tmr, chState)
      BY <1>0, <2>4 DEF Accept, AcceptWith, confVars
    <3> QED  BY <1>4, <3>1
  <2> QED  BY <2>2, <2>3, <2>4
<1>7. ASSUME NEW id \in Ids, CancelBegin(id) PROVE FALSE
  BY <1>0, <1>7 DEF CancelBegin
<1>8. CASE CancelEnd
  BY <1>8 DEF CancelEnd, InHand, Known
<1>9. TxLmtEvent \/ PhyConfEvent \/ IdleSrchEvent \/ TxReqEvent \/ CancelEnd
  BY <1>0, <1>7 DEF Next, MacStep, EpollWait, HoldoffEvent, HoldoffWith, RxBurstEvent,
     HandleRxBurst, Tick, Expire, PhySlot, PhyFault, ChannelBurst, TakeConf, Submit,
     vars, confVars
<1> QED  BY <1>1, <1>3, <1>5, <1>6, <1>8, <1>9

\* However busy the channel and however late the thread, a burst that listens
\* goes to the PHY only after the MAC has listened for the whole of T_IdleSrch,
\* and the only data bursts heard meanwhile are unread in mq_phy_rx or were
\* dropped there: with one module that waits for each answer, no cancellation
\* and no failing read.  A data burst that is still unread when T_IdleSrch is
\* served is overlooked, and voice bursts always are: README, section 7.
THEOREM PoliteAfterListening == Solo => (Spec => PoliteTx)
<1> SUFFICES ASSUME Solo PROVE Spec => PoliteTx
  OBVIOUS
<1>1. TypeOK /\ LbtArmed /\ (InHand /\ Clocked) /\ [Next]_vars => (InHand /\ Clocked)'
  BY NextInHand, NextClocked
<1>2. TypeOK /\ LbtArmed /\ DataNoticed /\ (InHand /\ Clocked) /\ [Next]_vars =>
        [Scheduled /\ phyTx'[Len(phyTx')].mode # "impolite"
           => listened = IdleSrch /\ ("data" \in noise => Unread("data"))]_vars
  BY PoliteStep
<1> QED
  BY TypeCorrect, LbtAlwaysArmed, DataAlwaysNoticed, InitTimed, <1>1, <1>2, PTL
  DEF Spec, PoliteTx

\* Under the same conditions T_DataTxLmt gives a request up only when it has
\* been held that long.
THEOREM AbortsAfterLimit == Solo => (Spec => AbortOnlyAfterLimit)
<1> SUFFICES ASSUME Solo PROVE Spec => AbortOnlyAfterLimit
  OBVIOUS
<1>1. TypeOK /\ LbtArmed /\ (InHand /\ Clocked) /\ [Next]_vars => (InHand /\ Clocked)'
  BY NextInHand, NextClocked
<1>2. TypeOK /\ (InHand /\ Clocked) /\ [Next]_vars =>
        [(\E k \in Keys : Aborts(k)) => waited = TxLmt]_vars
  BY AbortStep
<1> QED
  BY TypeCorrect, LbtAlwaysArmed, InitTimed, <1>1, <1>2, PTL
  DEF Spec, AbortOnlyAfterLimit

=============================================================================
