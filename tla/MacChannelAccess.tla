-------------------------- MODULE MacChannelAccess --------------------------
(***************************************************************************)
(* The transmit half of one slot's MAC (mac_channel_access.c): the worker  *)
(* thread's epoll loop, the listen-before-transmit state machine and its   *)
(* three one-shot timers, the single pending_req, the request queue shared *)
(* by every CCL module of the slot, the PHY's transmit queue and its       *)
(* confirmation queue, and one confirmation queue per module.              *)
(*                                                                         *)
(* The loop is modelled as the code runs it: epoll_wait takes a snapshot   *)
(* of the ready descriptors and the thread then serves them one by one, in *)
(* any order.  A descriptor of the snapshot is served even when an earlier *)
(* one of the same snapshot has disarmed or re-armed its timer.            *)
(*                                                                         *)
(* Time is counted in timeslots (MAC_TIMESLOT_MS, 30 ms).  Timers due in   *)
(* the same timeslot expire in any order, and the thread may lag behind    *)
(* the clock by any number of timeslots.  What is heard on the channel is  *)
(* recorded when it is heard, whether or not the thread ever reads it.     *)
(***************************************************************************)
EXTENDS Integers, Sequences, FiniteSets, OneShotTimer

CONSTANTS
  Clients,      \* the modules that transmit on this slot (originated_from)
  Modes,        \* Modes[c]: the kinds of request client c submits
  Bursts,       \* the classes of burst others put on the channel
  Quota,        \* bound: Quota[c] requests of client c
  MaxReq,       \* bound: the largest quota
  Window,       \* requests a client keeps unconfirmed at a time
  QDepth,       \* DMR_MQ_MAX_MSGS, the depth of every queue
  IdleSrch,     \* MAC_T_IDLE_SRCH_MS in timeslots
  HoldoffMax,   \* MAC_MAX_HOLDOFF_BURSTS
  TxLmt,        \* MAC_T_DATA_TX_LMT_MS in timeslots
  AllowCancel,  \* does an application thread call mac_tx_cancel()?
  MaxFaults     \* bound: failing PHY reads

Mode == {"polite", "impolite", "deadline"}

\* What mac_handle_rx_burst() tells apart before it classifies a burst: data
\* of our colour code (or the all-site one), data of another, and all without
\* a data SYNC: voice A to F, reverse channel, noise.
BurstClass == {"data", "foreign", "voice"}

ASSUME ClientsAssumption ==
  /\ Clients # {}
  /\ Modes \in [Clients -> SUBSET Mode]
ASSUME BurstsAssumption == Bursts \subseteq BurstClass
ASSUME BoundsAssumption ==
  /\ Quota \in [Clients -> 0..MaxReq]
  /\ MaxReq \in Nat \ {0} /\ Window \in Nat /\ QDepth \in Nat \ {0}
  /\ MaxFaults \in Nat
ASSUME TimingAssumption ==
  /\ IdleSrch \in Nat \ {0} /\ HoldoffMax \in Nat /\ TxLmt \in Nat \ {0}
ASSUME CancelAssumption == AllowCancel \in BOOLEAN

VARIABLES
  chState,      \* ch_state
  pending,      \* pending_req
  hasPending,   \* has_pending
  tmr,          \* the one-shot timers: kernel side and the armed flag
  txReq,        \* mq_tx_req
  phyTx,        \* mq_phy_tx
  phyConf,      \* mq_phy_tx_conf
  phyRx,        \* mq_phy_rx
  heard,        \* has this timeslot's burst been heard already?
  confQ,        \* mq_tx_{voice,data,trunk,dcdm}_conf
  batch,        \* descriptors of the current epoll snapshot not yet served
  cancelling,   \* id an application thread is cancelling, 0 when none
  nextId,       \* next req_id of each client
  done,         \* ids each client has seen a confirmation for
  faults,       \* PHY faults so far
  \* history
  aired,        \* how often each request went out on the air
  verdicts,     \* how often each result was delivered for each request
  dropped,      \* requests one of whose confirmations met a full queue
  listened,     \* timeslots since T_IdleSrch was started, up to IdleSrch
  noise,        \* classes of burst queued since T_IdleSrch was started
  waited        \* timeslots since pending_req was accepted, up to TxLmt

macVars    == <<chState, pending, hasPending, tmr, batch>>
queueVars  == <<txReq, phyTx, phyConf, phyRx>>
clientVars == <<nextId, done>>
confVars   == <<confQ, verdicts, dropped>>
clockVars  == <<listened, waited, heard, noise>>
vars == <<macVars, queueVars, clientVars, confVars, clockVars,
          cancelling, faults, aired>>

ChStates == {"IDLE_MONITOR", "QUALIFY_IDLE", "HOLDOFF", "TX_PENDING"}
Timers   == {"idle_srch", "holdoff", "tx_lmt"}
Fds      == Timers \cup {"tx_req", "phy_rx", "phy_tx_conf"}
Results  == {"OK", "ABORTED", "CANCELLED", "DEADLINE"}
Ids      == 1..MaxReq
Keys     == Clients \X Ids
Request  == [key : Keys, mode : Mode]
Garbage  == <<>>                  \* a reply whose req_id and origin name nobody
PhyDone  == [key : Keys \cup {Garbage}, ok : BOOLEAN]
Conf     == [id : Ids, result : Results]
Ticks    == 0..(IdleSrch + HoldoffMax + TxLmt)
Timer    == [kern : {"off", "running", "expired"}, left : Ticks, armed : BOOLEAN]

\* A timer the kernel will still deliver, or has delivered and nobody read.
Live(t) == tmr[t].kern # "off"

----------------------------------------------------------------------------
(* Time.                                                                   *)

\* The kernel's clock: a timeslot passes once everything due has expired.
Tick ==
  /\ \A t \in Timers : tmr[t].kern = "running" => tmr[t].left > 0
  /\ \/ \E t \in Timers : tmr[t].kern = "running"
     \/ listened < IdleSrch
     \/ waited < TxLmt
     \/ heard
  /\ tmr' = [t \in Timers |->
               IF tmr[t].kern = "running"
                 THEN [tmr[t] EXCEPT !.left = @ - 1] ELSE tmr[t]]
  /\ listened' = IF listened < IdleSrch THEN listened + 1 ELSE listened
  /\ waited' = IF waited < TxLmt THEN waited + 1 ELSE waited
  /\ heard'  = FALSE
  /\ UNCHANGED <<chState, pending, hasPending, batch, queueVars, clientVars,
                 confVars, noise, cancelling, faults, aired>>

Expire(t) ==
  /\ Due(tmr, t)
  /\ tmr' = Expired(tmr, t)
  /\ UNCHANGED <<chState, pending, hasPending, batch, queueVars, clientVars,
                 confVars, clockVars, cancelling, faults, aired>>

----------------------------------------------------------------------------
(* Confirmations and scheduling.                                           *)

\* mac_post_tx_conf(): to the queue of the module the request came from; a
\* confirmation that meets a full queue, or names nobody, is only logged.
PostConf(key, result) ==
  \/ /\ key # Garbage
     /\ Len(confQ[key[1]]) < QDepth
     /\ confQ' = [confQ EXCEPT ![key[1]] =
                    Append(@, [id |-> key[2], result |-> result])]
     /\ verdicts' = [verdicts EXCEPT ![key][result] = @ + 1]
     /\ UNCHANGED dropped
  \/ /\ key # Garbage
     /\ Len(confQ[key[1]]) = QDepth
     /\ dropped' = dropped \cup {key}
     /\ UNCHANGED <<confQ, verdicts>>
  \/ /\ key = Garbage
     /\ UNCHANGED confVars

DisarmAll(tm) == Disarm(Disarm(Disarm(tm, "idle_srch"), "holdoff"), "tx_lmt")

\* Faulty: the module is told OK as soon as the PHY has the burst.
SlotScheduleConfirming(req, has, tm, st) ==
  /\ Len(phyTx) < QDepth
  /\ phyTx' = Append(phyTx, req)
  /\ tmr' = tm
  /\ chState' = st
  /\ hasPending' = has
  /\ PostConf(req.key, "OK")

\* Faulty: a full PHY queue is only logged.
SlotScheduleLogging(req, has, tm, st) ==
  /\ phyTx' = IF Len(phyTx) < QDepth THEN Append(phyTx, req) ELSE phyTx
  /\ tmr' = tm
  /\ chState' = st
  /\ hasPending' = has
  /\ UNCHANGED confVars

\* mac_tx_slot_schedule(req), req being pending_req: hand the burst to the
\* PHY; when its queue is full, mac_tx_cancel() the request.  tm and st are
\* the timers and the state the caller has established before the call, has
\* is has_pending at that point.
SlotSchedule(req, has, tm, st) ==
  \/ /\ Len(phyTx) < QDepth
     /\ phyTx' = Append(phyTx, req)
     /\ tmr' = tm
     /\ chState' = st
     /\ hasPending' = has
     /\ UNCHANGED confVars
  \/ /\ Len(phyTx) = QDepth
     /\ has
     /\ hasPending' = FALSE
     /\ tmr' = DisarmAll(tm)
     /\ PostConf(req.key, "CANCELLED")
     /\ chState' = "IDLE_MONITOR"
     /\ UNCHANGED phyTx
  \/ /\ Len(phyTx) = QDepth
     /\ ~has
     /\ tmr' = tm
     /\ chState' = st
     /\ UNCHANGED <<hasPending, phyTx, confVars>>

----------------------------------------------------------------------------
(* The MAC thread.                                                         *)

Ready ==
  {t \in Timers : tmr[t].kern = "expired"}
    \cup (IF txReq   # <<>> THEN {"tx_req"}      ELSE {})
    \cup (IF phyConf # <<>> THEN {"phy_tx_conf"} ELSE {})
    \cup (IF phyRx   # <<>> THEN {"phy_rx"}      ELSE {})

\* epoll_wait(): MAX_EPOLL_EVENTS is as large as the number of descriptors.
EpollWait ==
  /\ batch = {}
  /\ Ready # {}
  /\ batch' = Ready
  /\ UNCHANGED <<chState, pending, hasPending, tmr, queueVars, clientVars,
                 confVars, clockVars, cancelling, faults, aired>>

Serve(fd) == fd \in batch /\ batch' = batch \ {fd}

\* T_IdleSrch: the channel is qualified idle, hand the pending burst over.
IdleSrchEvent ==
  /\ Serve("idle_srch")
  /\ \/ /\ chState = "QUALIFY_IDLE"
        /\ SlotSchedule(pending, hasPending,
                        Disarm(Drain(tmr, "idle_srch"), "tx_lmt"), "TX_PENDING")
     \/ /\ chState # "QUALIFY_IDLE"
        /\ tmr' = Drain(tmr, "idle_srch")
        /\ UNCHANGED <<chState, hasPending, phyTx, confVars>>
  /\ UNCHANGED <<pending, txReq, phyConf, phyRx, clientVars, clockVars,
                 cancelling, faults, aired>>

\* Faulty: listening again, but T_IdleSrch is not started.
HoldoffEventUntimed ==
  /\ Serve("holdoff")
  /\ tmr' = Drain(tmr, "holdoff")
  /\ chState' = IF chState = "HOLDOFF" THEN "QUALIFY_IDLE" ELSE chState
  /\ UNCHANGED <<pending, hasPending, queueVars, clientVars, confVars,
                 clockVars, cancelling, faults, aired>>

\* mac_holdoff_expired(): listen again, from the beginning, for as long as
\* T_IdleSrch is started for.
HoldoffWith(idle) ==
  /\ Serve("holdoff")
  /\ \/ /\ chState = "HOLDOFF"
        /\ chState' = "QUALIFY_IDLE"
        /\ tmr' = Arm(Drain(tmr, "holdoff"), "idle_srch", idle)
        /\ listened' = 0
        /\ noise' = {}
     \/ /\ chState # "HOLDOFF"
        /\ tmr' = Drain(tmr, "holdoff")
        /\ UNCHANGED <<chState, listened, noise>>
  /\ UNCHANGED <<pending, hasPending, queueVars, clientVars, confVars, waited,
                 heard, cancelling, faults, aired>>

\* Faulty: T_IdleSrch is started one timeslot short.
HoldoffEventShort == HoldoffWith(IdleSrch - 1)

\* T_Holdoff: back to listening.
HoldoffEvent == HoldoffWith(IdleSrch)

\* T_DataTxLmt: give the pending request up.
TxLmtEvent ==
  /\ Serve("tx_lmt")
  /\ \/ /\ hasPending
        /\ hasPending' = FALSE
        /\ tmr' = Disarm(Disarm(Drain(tmr, "tx_lmt"), "idle_srch"), "holdoff")
        /\ PostConf(pending.key, "ABORTED")
        /\ chState' = "IDLE_MONITOR"
     \/ /\ ~hasPending
        /\ tmr' = Drain(tmr, "tx_lmt")
        /\ UNCHANGED <<chState, hasPending, confVars>>
  /\ UNCHANGED <<pending, queueVars, clientVars, clockVars, cancelling,
                 faults, aired>>

\* mac_handle_tx_req(), the deadline branch.
RejectLate(req) ==
  /\ req.mode = "deadline"
  /\ PostConf(req.key, "DEADLINE")
  /\ UNCHANGED <<chState, pending, hasPending, tmr, phyTx, waited, listened,
                 noise>>

\* mac_handle_tx_req(): the request becomes pending_req whatever was there.
\* tm is the timers with T_DataTxLmt started.
AcceptWith(req, tm) ==
  /\ pending' = req
  /\ waited' = 0
  /\ \/ /\ req.mode = "impolite"
        /\ SlotSchedule(req, TRUE, tmr, chState)
        /\ UNCHANGED <<listened, noise>>
     \/ /\ req.mode # "impolite"
        /\ hasPending' = TRUE
        /\ tmr' = Arm(tm, "idle_srch", IdleSrch)
        /\ chState' = "QUALIFY_IDLE"
        /\ listened' = 0
        /\ noise' = {}
        /\ UNCHANGED <<phyTx, confVars>>

\* Faulty: T_DataTxLmt runs no longer than T_IdleSrch; it is not started.
AcceptShort(req)   == AcceptWith(req, Arm(tmr, "tx_lmt", IdleSrch))
AcceptUntimed(req) == AcceptWith(req, tmr)

Accept(req) == AcceptWith(req, Arm(tmr, "tx_lmt", TxLmt))

TxReqEvent ==
  /\ Serve("tx_req")
  /\ txReq # <<>>
  /\ txReq' = Tail(txReq)
  /\ RejectLate(Head(txReq)) \/ Accept(Head(txReq))
  /\ UNCHANGED <<phyConf, phyRx, clientVars, heard, cancelling, faults, aired>>

\* mac_handle_rx_burst() up to the classification, which together with the
\* delivery belongs to the receive half: the colour code discards foreign data
\* before listen-before-transmit hears of it, and only data is busy.
HandleRxBurst(busy) ==
  /\ Serve("phy_rx")
  /\ phyRx # <<>>
  /\ phyRx' = Tail(phyRx)
  /\ \/ /\ busy
        /\ chState' = "HOLDOFF"
        /\ \E bursts \in 0..HoldoffMax :
             tmr' = Arm(Disarm(tmr, "idle_srch"), "holdoff", bursts)
     \/ /\ ~busy
        /\ UNCHANGED <<chState, tmr>>
  /\ UNCHANGED <<pending, hasPending, txReq, phyTx, phyConf, clientVars,
                 confVars, clockVars, cancelling, faults, aired>>

DataWhileListening == Head(phyRx) = "data" /\ chState = "QUALIFY_IDLE"

\* Faulty: a burst read once T_IdleSrch has expired no longer counts.
RxBurstEventTimely ==
  HandleRxBurst(DataWhileListening /\ tmr["idle_srch"].kern = "running")

RxBurstEvent == HandleRxBurst(DataWhileListening)

\* post_conf_from_phy(): the verdict goes to the request the PHY names; the
\* pending slot and the state are reset whatever they were about.
PhyConfWith(result, st) ==
  /\ Serve("phy_tx_conf")
  /\ phyConf # <<>>
  /\ phyConf' = Tail(phyConf)
  /\ hasPending' = FALSE
  /\ chState' = st
  /\ PostConf(Head(phyConf).key, result)
  /\ UNCHANGED <<pending, tmr, txReq, phyTx, phyRx, clientVars, clockVars,
                 cancelling, faults, aired>>

PhyResult == IF Head(phyConf).ok THEN "OK" ELSE "ABORTED"

\* Faulty: left in TRANSMITTING; a failure taken for success; an answer that
\* is not about pending_req thrown away.
PhyConfEventStaying  == PhyConfWith(PhyResult, "TRANSMITTING")
PhyConfEventTrusting == PhyConfWith("OK", "IDLE_MONITOR")
PhyConfEventPicky ==
  /\ Serve("phy_tx_conf")
  /\ phyConf' = Tail(phyConf)
  /\ hasPending' = FALSE
  /\ chState' = "IDLE_MONITOR"
  /\ IF phyConf # <<>> /\ Head(phyConf).key = pending.key /\ hasPending
       THEN PostConf(Head(phyConf).key, PhyResult)
       ELSE UNCHANGED confVars
  /\ UNCHANGED <<pending, tmr, txReq, phyTx, phyRx, clientVars, clockVars,
                 cancelling, faults, aired>>

PhyConfEvent == PhyConfWith(PhyResult, "IDLE_MONITOR")

MacStep ==
  \/ EpollWait
  \/ IdleSrchEvent \/ HoldoffEvent \/ TxLmtEvent
  \/ TxReqEvent \/ RxBurstEvent \/ PhyConfEvent

----------------------------------------------------------------------------
(* Around the MAC: PHY, channel, clients, application.                     *)

\* mac_trigger_slot_processing(): one burst per frame, confirmed at once; a
\* confirmation that meets a full queue is only logged.
PhySlot ==
  /\ phyTx # <<>>
  /\ phyTx' = Tail(phyTx)
  /\ LET key == Head(phyTx).key IN
       /\ aired' = [aired EXCEPT ![key] = @ + 1]
       /\ \/ /\ Len(phyConf) < QDepth
             /\ phyConf' = Append(phyConf, [key |-> key, ok |-> TRUE])
             /\ UNCHANGED dropped
          \/ /\ Len(phyConf) = QDepth
             /\ dropped' = dropped \cup {key}
             /\ UNCHANGED phyConf
  /\ UNCHANGED <<macVars, txReq, phyRx, clientVars, confQ, verdicts, clockVars,
                 cancelling, faults>>

\* A receive that fails for another reason than an empty queue is confirmed
\* as a failure of whatever request the uninitialised reply names.
PhyFault ==
  /\ faults < MaxFaults
  /\ faults' = faults + 1
  /\ Len(phyConf) < QDepth
  /\ \E key \in Keys \cup {Garbage} :
       phyConf' = Append(phyConf, [key |-> key, ok |-> FALSE])
  /\ UNCHANGED <<macVars, txReq, phyTx, phyRx, clientVars, confVars, clockVars,
                 cancelling, aired>>

\* dmr_mac_inject_rx_burst(): a burst is heard, at most one in a timeslot; when
\* mq_phy_rx is full it is dropped.
ChannelBurst ==
  /\ ~heard
  /\ heard' = TRUE
  /\ \E burst \in Bursts :
       \/ /\ Len(phyRx) < QDepth
          /\ phyRx' = Append(phyRx, burst)
          /\ noise' = noise \cup {burst}
       \/ /\ Len(phyRx) = QDepth
          /\ UNCHANGED <<phyRx, noise>>
  /\ UNCHANGED <<macVars, txReq, phyTx, phyConf, clientVars, confVars,
                 listened, waited, cancelling, faults, aired>>

Outstanding(c) == {id \in Ids : id < nextId[c]} \ done[c]

\* mac_tx_enqueue() with room in the queue; without, the caller gets
\* DMR_ERR_QUEUE_FULL and nothing changes.
Submit(c, mode) ==
  /\ nextId[c] <= Quota[c]
  /\ Cardinality(Outstanding(c)) < Window
  /\ Len(txReq) < QDepth
  /\ txReq' = Append(txReq, [key |-> <<c, nextId[c]>>, mode |-> mode])
  /\ nextId' = [nextId EXCEPT ![c] = @ + 1]
  /\ UNCHANGED <<macVars, phyTx, phyConf, phyRx, done, confVars, clockVars,
                 cancelling, faults, aired>>

TakeConf(c) ==
  /\ confQ[c] # <<>>
  /\ confQ' = [confQ EXCEPT ![c] = Tail(@)]
  /\ done' = [done EXCEPT ![c] = @ \cup {Head(confQ[c]).id}]
  /\ UNCHANGED <<macVars, queueVars, nextId, verdicts, dropped, clockVars,
                 cancelling, faults, aired>>

\* mac_tx_cancel() from an application thread.  Under the mutex it looks the
\* id up and clears the pending slot; after it, it posts the verdict to the
\* origin pending_req names by then.
CancelBegin(id) ==
  /\ AllowCancel
  /\ cancelling = 0
  /\ hasPending
  /\ pending.key[2] = id
  /\ cancelling' = id
  /\ hasPending' = FALSE
  /\ tmr' = DisarmAll(tmr)
  /\ UNCHANGED <<chState, pending, batch, queueVars, clientVars, confVars,
                 clockVars, faults, aired>>

CancelEnd ==
  /\ cancelling # 0
  /\ cancelling' = 0
  /\ PostConf(<<pending.key[1], cancelling>>, "CANCELLED")
  /\ chState' = "IDLE_MONITOR"
  /\ UNCHANGED <<pending, hasPending, tmr, batch, queueVars, clientVars,
                 clockVars, faults, aired>>

----------------------------------------------------------------------------
Init ==
  /\ chState = "IDLE_MONITOR"
  /\ pending = CHOOSE r \in Request : TRUE  \* read only once overwritten
  /\ hasPending = FALSE
  /\ tmr = [t \in Timers |-> Off]
  /\ txReq = <<>> /\ phyTx = <<>> /\ phyConf = <<>> /\ phyRx = <<>>
  /\ confQ = [c \in Clients |-> <<>>]
  /\ batch = {}
  /\ cancelling = 0
  /\ nextId = [c \in Clients |-> 1]
  /\ done = [c \in Clients |-> {}]
  /\ faults = 0
  /\ aired = [k \in Keys |-> 0]
  /\ verdicts = [k \in Keys |-> [r \in Results |-> 0]]
  /\ dropped = {}
  /\ listened = IdleSrch
  /\ noise = {}
  /\ waited = TxLmt
  /\ heard = FALSE

Next ==
  \/ MacStep
  \/ Tick
  \/ \E t \in Timers : Expire(t)
  \/ PhySlot \/ PhyFault \/ ChannelBurst
  \/ \E c \in Clients : TakeConf(c) \/ \E mode \in Modes[c] : Submit(c, mode)
  \/ \E id \in Ids : CancelBegin(id)
  \/ CancelEnd

Spec == Init /\ [][Next]_vars

\* The thread runs, the kernel delivers what is due and time passes.
MacFairness ==
  /\ WF_vars(MacStep)
  /\ WF_vars(Tick)
  /\ \A t \in Timers : WF_vars(Expire(t))

\* The slot timer keeps firing.
PhyFairness == WF_vars(PhySlot)

\* Modules read their confirmations.
ClientFairness == \A c \in Clients : WF_vars(TakeConf(c))

LiveSpec == Spec /\ MacFairness /\ PhyFairness /\ ClientFairness

----------------------------------------------------------------------------
(* Safety.                                                                 *)

TypeOK ==
  /\ chState \in ChStates
  /\ pending \in Request /\ hasPending \in BOOLEAN
  /\ tmr \in [Timers -> Timer]
  /\ txReq \in Seq(Request) /\ Len(txReq) <= QDepth
  /\ phyTx \in Seq(Request) /\ Len(phyTx) <= QDepth
  /\ phyConf \in Seq(PhyDone) /\ Len(phyConf) <= QDepth
  /\ phyRx \in Seq(Bursts) /\ Len(phyRx) <= QDepth
  /\ confQ \in [Clients -> Seq(Conf)]
  /\ \A c \in Clients : Len(confQ[c]) <= QDepth
  /\ batch \subseteq Fds
  /\ cancelling \in Ids \cup {0}
  /\ nextId \in [Clients -> 1..(MaxReq + 1)]
  /\ done \in [Clients -> SUBSET Ids]
  /\ faults \in 0..MaxFaults
  /\ aired \in [Keys -> Nat]
  /\ verdicts \in [Keys -> [Results -> Nat]]
  /\ dropped \subseteq Keys
  /\ listened \in 0..IdleSrch /\ waited \in 0..TxLmt /\ heard \in BOOLEAN
  /\ noise \subseteq Bursts

InQueue(q, req) == \E i \in DOMAIN q : q[i] = req
ConfirmedBy(q, key) == \E i \in DOMAIN q : q[i].key = key

\* A pending request never waits for nothing: either its limit timer runs, or
\* the PHY has its burst, or the PHY's answer is on the way or was lost to a
\* full queue.
PendingWatched ==
  hasPending =>
    \/ pending.mode # "impolite" /\ Live("tx_lmt")
    \/ InQueue(phyTx, pending)
    \/ ConfirmedBy(phyConf, pending.key)
    \/ pending.key \in dropped

\* Each state of listen-before-transmit has a request to serve and a running
\* timer that will take it on; mac_tx_cancel() alone may leave it otherwise.
LbtArmed ==
  ~AllowCancel =>
    /\ chState \in {"QUALIFY_IDLE", "HOLDOFF"} => hasPending /\ Live("tx_lmt")
    /\ chState = "QUALIFY_IDLE" => Live("idle_srch")
    /\ chState = "HOLDOFF" => Live("holdoff")

\* DMR_MAC_TX_OK is reported only for a burst that went out, and no more
\* often than it did.
OkTruthful == \A k \in Keys : verdicts[k]["OK"] <= aired[k]

Unread(burst) == \E i \in DOMAIN phyRx : phyRx[i] = burst

\* While the MAC takes the channel for idle, a burst of this class heard since
\* it began to listen is one the thread has not read.
Noticed(burst) ==
  chState = "QUALIFY_IDLE" /\ burst \in noise => Unread(burst)

\* So it is of data bursts, in whatever order bursts, requests, timers and
\* cancellations are served: what listen-before-transmit overlooks is what is
\* still in mq_phy_rx, or was lost to that queue being full.
DataNoticed == Noticed("data")

\* The head of mac_channel_access.c says it of every burst (:41-43).  The code
\* refutes it with a voice burst: README, section 7.
EveryBurstNoticed == \A burst \in Bursts : Noticed(burst)

Scheduled == Len(phyTx') > Len(phyTx)

\* A polite burst is handed to the PHY only after the MAC has listened for the
\* whole of T_IdleSrch, in which no data burst was heard but those it could not
\* know of: still in mq_phy_rx, or lost to that queue being full.
PoliteTx ==
  [][Scheduled /\ phyTx'[Len(phyTx')].mode # "impolite"
       => listened = IdleSrch /\ ("data" \in noise => Unread("data"))]_vars

Aborts(k) == verdicts'[k]["ABORTED"] > verdicts[k]["ABORTED"]

\* T_DataTxLmt gives a request up only when it has waited that long.
AbortOnlyAfterLimit == [][(\E k \in Keys : Aborts(k)) => waited = TxLmt]_vars

\* A request reported as given up before its opportunity does not go out, as
\* dmr_mac.h says. The code refutes it: README, section 7.
AbortedNeverAired == \A k \in Keys : verdicts[k]["ABORTED"] > 0 => aired[k] = 0

----------------------------------------------------------------------------
(* Liveness.                                                               *)

\* Listening ends, however busy the channel.
LbtEnds ==
  chState \in {"QUALIFY_IDLE", "HOLDOFF"}
    ~> chState \notin {"QUALIFY_IDLE", "HOLDOFF"}

\* A burst the PHY was given is answered, unless the answer met a full queue.
PhyAnswers ==
  \A k \in Keys :
    (\E i \in DOMAIN phyTx : phyTx[i].key = k)
      ~> (verdicts[k]["OK"] > 0 \/ k \in dropped)
=============================================================================
