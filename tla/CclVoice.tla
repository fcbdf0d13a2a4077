------------------------------ MODULE CclVoice ------------------------------
(***************************************************************************)
(* Voice call control on one slot (dmr_ccl_voice.c): the worker thread     *)
(* that takes push-to-talk events, MAC confirmations, received bursts and  *)
(* the MAC's synthetic events, and two timers, and moves one call through  *)
(* its states.                                                             *)
(*                                                                         *)
(* Only this thread changes the state, so a handler is one step.  It       *)
(* serves an epoll snapshot in any order and empties a queue before the    *)
(* next descriptor.  A running timer may expire at any moment.  The MAC    *)
(* answers the bursts it is given in order, and forgets one that a later   *)
(* one replaced.                                                           *)
(*                                                                         *)
(* A call stands for its pair of addresses; the answer to our request is   *)
(* marked with our own individual call.  Embedded link control is reduced  *)
(* to the burst that completes it, which decodes or does not.              *)
(* The call-alert and grant-rejected timers are never armed, nothing posts *)
(* the emergency event, and the audio path and callbacks have no state.    *)
(***************************************************************************)
EXTENDS Integers, Sequences, SequencesExt, OneShotTimer

CONSTANTS
  Calls,         \* calls of others heard on the air
  Ours,          \* those addressed to this radio
  MineGroup,     \* our own group call
  MineUnit,      \* our own individual call
  Frames,        \* the bursts of a superframe, A to F
  Presses,       \* the kinds of call the user makes
  MaxPress,      \* bound: key presses
  MacRoom,       \* bursts the MAC can hold: mq_tx_req and pending_req
  MacOut,        \* what the MAC may put on mq_rx_voice
  HasCallStart,  \* has the application registered on_call_start?
  QDepth         \* DMR_MQ_MAX_MSGS

ASSUME CallsAssumption ==
  /\ Ours \subseteq Calls
  /\ MineGroup # MineUnit /\ {MineGroup, MineUnit} \cap Calls = {}
  /\ Presses \subseteq {MineGroup, MineUnit}
ASSUME VoiceBounds ==
  /\ Frames \in Seq(STRING) /\ Len(Frames) > 1
  /\ MaxPress \in Nat /\ MacRoom \in Nat \ {0} /\ QDepth \in Nat \ {0}
ASSUME CallStartAssumption == HasCallStart \in BOOLEAN

VARIABLES
  state,         \* ctx->state
  call,          \* ctx->call: whose addresses it has
  sfIdx,         \* sf_burst_idx, the next position A..F counted from 0
  missedFrame,   \* sfVoice.missed_frame
  tmr,           \* tmr_hangtime, tmr_answer
  batch, queue,  \* rest of the epoll snapshot; the queue being emptied
  evtQ,          \* mq_evt
  confQ,         \* mq_mac_conf
  rxN,           \* bursts and events in mq_mac_rx (the MAC's mq_rx_voice)
  mac,           \* number of bursts the MAC has not answered
  presses, held, \* of the user's key
  \* history
  refused,       \* has a burst met a full queue?
  built,         \* the last burst of a call that was built
  tail           \* voice bursts built since the key was released

cclVars == <<state, call, sfIdx, missedFrame, tmr>>
loopVars == <<batch, queue>>
appVars == <<presses, held>>
txVars == <<mac, refused, built, tail>>
vars == <<cclVars, loopVars, evtQ, confQ, rxN, txVars, appVars>>

Receiving == {"RECEIVING", "LATE_ENTRY"}
Ending    == {"TX_TERMINATOR_ONCE_SF_FINISHED", "TX_SF_FINISHED_TERMINATOR",
              "TX_TERMINATOR"}
States    == {"IDLE", "TX_LC_HEADER", "TRANSMITTING", "HANGTIME", "UU_REQ_WAIT"}
               \cup Receiving \cup Ending
Timers    == {"hangtime", "answer"}
Queues    == {"evt", "conf", "rx"}
NoCall    == "none"
SfLast    == Len(Frames) - 1      \* SF_BURST_F
TailCap   == SfLast + 2           \* bound: tail counts no further

Live(t) == tmr[t].kern # "off"

----------------------------------------------------------------------------
(* Transmission: every handler builds at most one burst.                   *)

\* ccl_submit_burst(): the burst is lost when mq_tx_req is full.
Submit ==
  \/ /\ mac < MacRoom
     /\ mac' = mac + 1
     /\ UNCHANGED refused
  \/ /\ mac = MacRoom
     /\ refused' = TRUE
     /\ UNCHANGED mac

\* A CSBK: no part of the transmission.
SubmitCsbk == Submit /\ UNCHANGED <<built, tail>>

\* ccl_voice_tx_lc_header()
TxLcHeader ==
  /\ Submit
  /\ sfIdx' = 0
  /\ built' = "header"
  /\ tail' = 0

NextPositionUnwrapped(pos) == pos + 1                         \* Faulty.
NextPosition(pos) == IF pos < SfLast THEN pos + 1 ELSE 0

\* ccl_voice_tx_next_burst() for position pos
TxNextBurst(pos) ==
  /\ Submit
  /\ built' = Frames[pos + 1]
  /\ tail' = IF state \in Ending /\ tail < TailCap THEN tail + 1 ELSE tail
  /\ sfIdx' = NextPosition(pos)

\* ccl_voice_tx_terminator()
TxTerminator ==
  /\ Submit
  /\ built' = "terminator"
  /\ tail' = 0
  /\ UNCHANGED sfIdx

Silent == UNCHANGED <<sfIdx, txVars>>

----------------------------------------------------------------------------
(* The user's key.  tm stands for the timers once the descriptor served    *)
(* has been drained.                                                       *)

\* The wait for the called party; Faulty: without its timer.
AnswerWaitUntimed(tm) == tm
AnswerWait(tm)        == Arm(tm, "answer", 0)

\* CCL_EVT_PTT_PRESS
PttPress(c) ==
  \/ /\ state \in {"IDLE", "HANGTIME"}
     /\ call' = c
     /\ LET tm == Disarm(tmr, "hangtime") IN
          \/ /\ c = MineGroup
             /\ state' = "TX_LC_HEADER"
             /\ tmr' = tm
             /\ TxLcHeader
          \/ /\ c = MineUnit
             /\ state' = "UU_REQ_WAIT"
             /\ tmr' = AnswerWait(tm)
             /\ SubmitCsbk
             /\ UNCHANGED sfIdx
  \/ /\ state \notin {"IDLE", "HANGTIME"}
     /\ UNCHANGED <<state, call, tmr>>
     /\ Silent

\* CCL_EVT_PTT_RELEASE
PttRelease ==
  /\ \/ /\ state = "TRANSMITTING"
        /\ state' = "TX_TERMINATOR_ONCE_SF_FINISHED"
        /\ Silent
     \/ /\ state = "TX_LC_HEADER"
        /\ state' = "TX_TERMINATOR"
        /\ TxTerminator
     \/ /\ state \notin {"TRANSMITTING", "TX_LC_HEADER"}
        /\ UNCHANGED state
        /\ Silent
  /\ UNCHANGED <<call, tmr>>

----------------------------------------------------------------------------
(* Confirmations, which are not matched to the burst they are about.       *)

HangtimeStarts == state' = "HANGTIME" /\ tmr' = Arm(tmr, "hangtime", 0)

LastFrameDueEarly == sfIdx = SfLast - 1                                 \* Faulty.
LastFrameDue      == sfIdx = SfLast

\* Faulty: the superframe's end is not noted.
AfterLastFrameOn == "TX_TERMINATOR_ONCE_SF_FINISHED"
AfterLastFrame   == "TX_SF_FINISHED_TERMINATOR"

\* Faulty: the terminator's confirmation is overlooked.
TerminatorConfirmedDeaf == state = "TX_TERMINATOR" /\ Silent /\ UNCHANGED <<state, tmr>>
TerminatorConfirmed ==
  /\ state = "TX_TERMINATOR"
  /\ HangtimeStarts
  /\ Silent

\* CCL_EVT_TX_CONF
TxConf ==
  /\ \/ /\ state = "TX_LC_HEADER"
        /\ state' = "TRANSMITTING"
        /\ TxNextBurst(0)
        /\ UNCHANGED tmr
     \/ /\ state = "TRANSMITTING"
        /\ TxNextBurst(sfIdx)
        /\ UNCHANGED <<state, tmr>>
     \/ /\ state = "TX_TERMINATOR_ONCE_SF_FINISHED"
        /\ TxNextBurst(sfIdx)
        /\ state' = IF LastFrameDue THEN AfterLastFrame ELSE state
        /\ UNCHANGED tmr
     \/ /\ state = "TX_SF_FINISHED_TERMINATOR"
        /\ state' = "TX_TERMINATOR"
        /\ TxTerminator
        /\ UNCHANGED tmr
     \/ TerminatorConfirmed
     \/ /\ state \in {"IDLE", "HANGTIME", "UU_REQ_WAIT"} \cup Receiving
        /\ UNCHANGED <<state, tmr>>
        /\ Silent
  /\ UNCHANGED call

ToIdle == call' = NoCall /\ state' = "IDLE"

\* CCL_EVT_TX_ABORTED, whatever the state
TxAborted == ToIdle /\ UNCHANGED tmr /\ Silent

----------------------------------------------------------------------------
(* Reception.                                                              *)

Ignored == UNCHANGED <<state, call, missedFrame, tmr>> /\ Silent

CallEnds == ToIdle /\ tmr' = Disarm(tmr, "hangtime")

\* Category 1 of ccl_route_rx_burst(): the MAC's synthetic events.
SyntheticEvent(e) ==
  \/ /\ e = "LOST"
     /\ missedFrame' = (missedFrame \/ state \in Receiving \cup {"HANGTIME"})
     /\ UNCHANGED <<state, call, tmr>>
     /\ Silent
  \/ /\ \/ e = "CALL_ENDED_TIMEOUT" /\ state \in Receiving
        \/ e = "CALL_GONE" /\ state # "IDLE"
     /\ CallEnds
     /\ UNCHANGED missedFrame
     /\ Silent
  \/ /\ \/ e = "CALL_ENDED_TIMEOUT" /\ state \notin Receiving
        \/ e = "CALL_GONE" /\ state = "IDLE"
     /\ Ignored

\* Category 2: a burst A is followed up, or begins a late entry.
BurstA ==
  /\ state' = IF state \in Receiving THEN state ELSE "LATE_ENTRY"
  /\ missedFrame' = FALSE
  /\ UNCHANGED <<call, tmr>>
  /\ Silent

\* ccl_voice_process_emblc(), once the last fragment is there: what was put
\* together is a link control message, or fails its checks.  A late entry
\* becomes a reception only with somebody to tell.
EmbeddedLc(c) ==
  \/ /\ c \in Ours
     /\ call' = c
     /\ state' = IF HasCallStart THEN "RECEIVING" ELSE state
  \/ /\ c \notin Ours
     /\ state' = "IDLE"
     /\ UNCHANGED call
  \/ UNCHANGED <<state, call>>

\* Category 4: bursts B to F.
BurstBtoF(b) ==
  \/ /\ state \in Receiving /\ ~missedFrame /\ b.bit
     /\ EmbeddedLc(b.call)
     /\ UNCHANGED <<missedFrame, tmr>>
     /\ Silent
  \/ /\ ~(state \in Receiving /\ ~missedFrame /\ b.bit)
     /\ Ignored

\* ccl_voice_rx_lc_header()
LcHeader(c) ==
  \/ /\ c \in Ours
     /\ call' = c
     /\ state' = "RECEIVING"
     /\ UNCHANGED <<missedFrame, tmr>>
     /\ Silent
  \/ /\ c \notin Ours
     /\ Ignored

\* ccl_voice_rx_terminator(): of the call we have, whatever the state.
Terminator(c) ==
  \/ /\ c = call
     /\ HangtimeStarts
     /\ UNCHANGED <<call, missedFrame>>
     /\ Silent
  \/ /\ c # call
     /\ Ignored

\* ccl_voice_rx_csbk(): a request to call us, the answer to ours, an alert.
Csbk(b) ==
  \/ /\ b.type = "UU_V_REQ" /\ b.call \in Ours
     /\ call' = b.call
     /\ state' = "RECEIVING"
     /\ SubmitCsbk
     /\ UNCHANGED <<sfIdx, missedFrame, tmr>>
  \/ /\ b.type = "UU_ANS_RSP" /\ state = "UU_REQ_WAIT" /\ b.call = call
     /\ tmr' = Disarm(tmr, "answer")
     /\ \/ /\ b.bit
           /\ state' = "TX_LC_HEADER"
           /\ TxLcHeader
           /\ UNCHANGED call
        \/ /\ ~b.bit
           /\ ToIdle
           /\ Silent
     /\ UNCHANGED missedFrame
  \/ /\ b.type = "CALL_ALERT" /\ b.call \in Ours
     /\ SubmitCsbk
     /\ UNCHANGED <<state, call, sfIdx, missedFrame, tmr>>
  \/ /\ \/ b.type \in {"UU_V_REQ", "CALL_ALERT"} /\ b.call \notin Ours
        \/ b.type = "UU_ANS_RSP" /\ (state # "UU_REQ_WAIT" \/ b.call # call)
        \/ b.type \notin {"UU_V_REQ", "CALL_ALERT", "UU_ANS_RSP"}
     /\ Ignored

\* ccl_route_rx_burst()
RouteRxBurst(b) ==
  \/ "event" \in DOMAIN b /\ SyntheticEvent(b.event)
  \/ /\ "type" \in DOMAIN b
     /\ \/ b.type = "SYNC" /\ BurstA
        \/ b.type = "UNKNOWN" /\ BurstBtoF(b)
        \/ b.type = "LC_HEADER" /\ LcHeader(b.call)
        \/ b.type = "VOICE_TERMINATOR" /\ Terminator(b.call)
        \/ b.type \notin {"SYNC", "UNKNOWN", "LC_HEADER", "VOICE_TERMINATOR"}
           /\ Csbk(b)

----------------------------------------------------------------------------
(* The worker thread.                                                      *)

Ready ==
  {t \in Timers : tmr[t].kern = "expired"}
    \cup (IF evtQ   # <<>> THEN {"evt"}  ELSE {})
    \cup (IF confQ  # <<>> THEN {"conf"} ELSE {})
    \cup (IF rxN > 0 THEN {"rx"}   ELSE {})

EpollWait ==
  /\ batch = {} /\ queue = "none"
  /\ Ready # {}
  /\ batch' = Ready
  /\ UNCHANGED <<cclVars, queue, evtQ, confQ, rxN, txVars, appVars>>

\* CCL_EVT_TIMER_HANGTIME and CCL_EVT_TIMER_ANSWER: to IDLE in every state.
TimerReady(t) ==
  /\ queue = "none" /\ t \in batch
  /\ batch' = batch \ {t}
  /\ tmr' = Drain(tmr, t)
  /\ ToIdle
  /\ Silent
  /\ UNCHANGED <<missedFrame, queue, evtQ, confQ, rxN, appVars>>

Emptying(q) == queue \in {"none", q} /\ q \in batch /\ queue' = q

EvtReady ==
  /\ Emptying("evt") /\ evtQ # <<>>
  /\ evtQ' = Tail(evtQ)
  /\ \/ Head(evtQ) \in Presses /\ PttPress(Head(evtQ))
     \/ Head(evtQ) = "release" /\ PttRelease
  /\ UNCHANGED <<missedFrame, batch, confQ, rxN, appVars>>

ConfReady ==
  /\ Emptying("conf") /\ confQ # <<>>
  /\ confQ' = Tail(confQ)
  /\ \/ Head(confQ) = "OK" /\ TxConf
     \/ Head(confQ) # "OK" /\ TxAborted
  /\ UNCHANGED <<missedFrame, batch, evtQ, rxN, appVars>>

\* What is in the queue is settled when it is read.
RxReady(b) ==
  /\ Emptying("rx") /\ rxN > 0
  /\ rxN' = rxN - 1
  /\ RouteRxBurst(b)
  /\ UNCHANGED <<batch, evtQ, confQ, appVars>>

QueueEmpty(q, left) ==
  /\ queue = q
  /\ left = 0
  /\ queue' = "none"
  /\ batch' = batch \ {q}
  /\ UNCHANGED <<cclVars, evtQ, confQ, rxN, txVars, appVars>>

CclStep ==
  \/ EpollWait \/ (\E t \in Timers : TimerReady(t))
  \/ EvtReady \/ ConfReady \/ (\E b \in MacOut : RxReady(b))
  \/ QueueEmpty("evt", Len(evtQ)) \/ QueueEmpty("conf", Len(confQ))
  \/ QueueEmpty("rx", rxN)

----------------------------------------------------------------------------
(* The user, the kernel and the MAC.                                       *)

\* ccl_voice_ptt_press() and ccl_voice_ptt_release(); when mq_evt is full
\* they return an error and have no effect.
Press(c) ==
  /\ ~held /\ presses < MaxPress /\ Len(evtQ) < QDepth
  /\ held' = TRUE /\ presses' = presses + 1
  /\ evtQ' = Append(evtQ, c)
  /\ UNCHANGED <<cclVars, loopVars, confQ, rxN, txVars>>

Release ==
  /\ held /\ Len(evtQ) < QDepth
  /\ held' = FALSE
  /\ evtQ' = Append(evtQ, "release")
  /\ UNCHANGED <<cclVars, loopVars, confQ, rxN, txVars, presses>>

Expire(t) ==
  /\ Due(tmr, t)
  /\ tmr' = Expired(tmr, t)
  /\ UNCHANGED <<state, call, sfIdx, missedFrame, loopVars, evtQ, confQ, rxN,
                 txVars, appVars>>

\* An answer that meets a full queue is lost.
MacAnswers(result) ==
  /\ mac > 0
  /\ mac' = mac - 1
  /\ confQ' = IF Len(confQ) < QDepth THEN Append(confQ, result) ELSE confQ
  /\ UNCHANGED <<cclVars, loopVars, evtQ, rxN, refused, built, tail, appVars>>

\* A burst is replaced in pending_req by the next one and never answered.
MacForgets ==
  /\ mac > 1
  /\ mac' = mac - 1
  /\ UNCHANGED <<cclVars, loopVars, evtQ, confQ, rxN, refused, built, tail,
                 appVars>>

\* Bursts and events come a frame apart (60 ms), so that none arrives while
\* the queue is being emptied.
MacDelivers ==
  /\ rxN < QDepth /\ queue # "rx"
  /\ rxN' = rxN + 1
  /\ UNCHANGED <<cclVars, loopVars, evtQ, confQ, txVars, appVars>>

----------------------------------------------------------------------------
Init ==
  /\ state = "IDLE" /\ call = NoCall /\ sfIdx = 0 /\ missedFrame = FALSE
  /\ tmr = [t \in Timers |-> Off]
  /\ batch = {} /\ queue = "none"
  /\ evtQ = <<>> /\ confQ = <<>> /\ rxN = 0 /\ mac = 0
  /\ presses = 0 /\ held = FALSE /\ refused = FALSE
  /\ built = "terminator" /\ tail = 0

Next ==
  \/ CclStep
  \/ (\E c \in Presses : Press(c)) \/ Release
  \/ \E t \in Timers : Expire(t)
  \/ (\E result \in {"OK", "ABORTED"} : MacAnswers(result)) \/ MacForgets
  \/ MacDelivers

\* The thread runs, timers expire, and the MAC deals with what it is given
\* (MacChannelAccess!LbtEnds and PhyAnswers).
Fairness ==
  /\ WF_vars(CclStep)
  /\ \A t \in Timers : WF_vars(Expire(t))
  /\ WF_vars(\E result \in {"OK", "ABORTED"} : MacAnswers(result))

Spec     == Init /\ [][Next]_vars
LiveSpec == Spec /\ Fairness

----------------------------------------------------------------------------
(* Properties.                                                             *)

\* The controller's state has its type; sf_burst_idx stays a position.
TypeOK ==
  /\ state \in States
  /\ call \in Calls \cup {NoCall, MineGroup, MineUnit}
  /\ sfIdx \in 0..SfLast /\ missedFrame \in BOOLEAN
  /\ tmr \in [Timers -> [kern : {"off", "running", "expired"}, left : {0},
                         armed : BOOLEAN]]
  /\ batch \subseteq Timers \cup Queues /\ queue \in Queues \cup {"none"}
  /\ evtQ \in Seq(Presses \cup {"release"}) /\ Len(evtQ) <= QDepth
  /\ confQ \in Seq({"OK", "ABORTED"}) /\ Len(confQ) <= QDepth
  /\ rxN \in 0..QDepth
  /\ mac \in 0..MacRoom /\ refused \in BOOLEAN
  /\ presses \in 0..MaxPress /\ held \in BOOLEAN
  /\ tail \in 0..TailCap

\* The two states that only a timer is sure to end have that timer running,
\* expired or unread, whatever stale expiries of the same snapshot did
\* (tmr_hangtime, tmr_answer).
WaitsWatched ==
  /\ state = "HANGTIME" => Live("hangtime")
  /\ state = "UU_REQ_WAIT" => Live("answer")

\* What may be built after the last burst built.
MayFollow(b) ==
  \/ b = "header"
  \/ b = "terminator" /\ built \in {"header", Last(Frames)}
  \/ b = Head(Frames) /\ built \in {"header", Last(Frames)}
  \/ \E i \in 1..SfLast : b = Frames[i + 1] /\ built = Frames[i]

\* A terminator is only ever built after the header or after a superframe's
\* last burst, and the bursts of a superframe in their order, although
\* confirmations are not matched to bursts and a call may be pre-empted,
\* aborted and begun again between any two of them.
SuperframesWhole == [][built' # built => MayFollow(built')]_vars

\* After the key is released no more than one superframe is still sent
\* (CCL_STATE_TX_TERMINATOR_ONCE_SF_FINISHED).
TailBounded == state \in Ending => tail <= SfLast + 1

\* A transmission that is ending ends, unless a burst of it met a full
\* queue: each confirmation takes it one burst further.
TransmissionEnds ==
  (state \in Ending) ~> (state \notin Ending \/ refused)
=============================================================================
