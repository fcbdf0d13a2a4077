----------------------------- MODULE MacVoiceRx -----------------------------
(***************************************************************************)
(* The receive half of one slot's MAC (mac_channel_access.c): the          *)
(* classifier that routes decoded bursts to the queues of the modules, and *)
(* the voice superframe tracker, which finds out from time alone which     *)
(* undecodable bursts are voice, that one was lost, and that a call ended  *)
(* without a terminator.                                                   *)
(*                                                                         *)
(* As in MacChannelAccess the worker serves an epoll snapshot in any order *)
(* and may lag; its other descriptors do not touch this state.  A tick is  *)
(* 40 ms.  A burst has the type the classifier sees (the voice SYNC,       *)
(* undecodable, or the type and opcode decoded) and what only CCL Voice    *)
(* reads: the call it belongs to, and one bit of content (its embedded     *)
(* signalling ends a link control message; its answer is PROCEED).  What   *)
(* becomes of bursts for the other modules' queues is their matter.  The   *)
(* position in a loss event is left out, as its reader only logs it.       *)
(***************************************************************************)
EXTENDS Integers, Sequences, SequencesExt, OneShotTimer

CONSTANTS
  Tier3,        \* is ctx->tier DMR_TIER_3_TRUNKED?
  Calls,        \* the calls heard on the air
  Air,          \* the bursts heard on the air
  MinGap,       \* bound: ticks between two bursts on the air
  QDepth,       \* DMR_MQ_MAX_MSGS
  Guard,        \* MAC_VOICE_BURST_GUARD_MS in ticks
  SfGuard,      \* MAC_VOICE_SUPERFRAME_GUARD_MS
  Hangover,     \* MAC_VOICE_HANGOVER_MS
  MaxMissed     \* MAC_VOICE_MAX_MISSED_BURSTS

\* What the switch over CSBK opcodes distinguishes.
VoiceCsbks  == {"UU_V_REQ", "CALL_ALERT", "ACK_RSP", "CANCEL_CALL"}
SharedCsbks == {"UU_ANS_RSP", "EMERG_ALARM_ACK", "BS_DWNA"}
TrunkCsbks  == {"TV_GRANT", "TD_GRANT", "NET_STATUS", "ADJ_SITE", "MS_REGIST_RSP"}
DataBursts  == {"DATA_HEADER", "DATA_BLOCK", "DATA_TERMINATOR", "PREAMBLE"}
MbcBursts   == {"MBC_HEADER", "MBC_CONT"}
OtherBursts == {"IDLE", "PI_HEADER", "OTHER_CSBK"}
Decoded ==
  {"LC_HEADER", "VOICE_TERMINATOR", "CHANNEL_TIMING"}
    \cup VoiceCsbks \cup SharedCsbks \cup TrunkCsbks
    \cup DataBursts \cup MbcBursts \cup OtherBursts

\* FOREIGN: a data burst with another colour code.
Types == {"SYNC", "UNKNOWN", "FOREIGN"} \cup Decoded
Burst == [type : Types, call : Calls, bit : BOOLEAN]

ASSUME AirAssumption == Air \subseteq Burst /\ Tier3 \in BOOLEAN
ASSUME TrackerTiming ==
  /\ MinGap \in Nat /\ QDepth \in Nat \ {0} /\ MaxMissed \in Nat \ {0}
  /\ Guard \in Nat \ {0} /\ SfGuard \in Nat \ {0} /\ Hangover \in Nat \ {0}

VARIABLES
  state,        \* voice_rx.state
  pos,          \* voice_rx.expected_pos
  missed,       \* voice_rx.missed_count
  age,          \* ticks since voice_rx.last_burst_us, up to Oldest
  tmr,          \* tmr_voice_burst, tmr_voice_sf
  batch,        \* rest of the epoll snapshot
  phyRx,        \* mq_phy_rx
  voiceQ,       \* mq_rx_voice
  gap,          \* ticks since the last burst on the air, up to MinGap
  lostRun       \* history: losses reported since a voice burst was routed

rxVars == <<state, pos, missed, age>>
vars == <<rxVars, tmr, batch, phyRx, voiceQ, gap, lostRun>>

RxStates == {"IDLE", "ACTIVE", "HANGOVER"}
Timers   == {"voice_burst", "voice_sf"}
Fds      == Timers \cup {"phy_rx"}
Oldest   == Guard + Hangover
Events   == [event : {"LOST", "CALL_ENDED_TIMEOUT", "CALL_GONE"}]

Live(t) == tmr[t].kern # "off"

----------------------------------------------------------------------------
(* Time and the air.                                                       *)

Tick ==
  /\ \A t \in Timers : ~Due(tmr, t)
  /\ \/ \E t \in Timers : tmr[t].kern = "running"
     \/ age < Oldest
     \/ gap < MinGap
  /\ tmr' = [t \in Timers |->
               IF tmr[t].kern = "running"
                 THEN [tmr[t] EXCEPT !.left = @ - 1] ELSE tmr[t]]
  /\ age' = IF age < Oldest THEN age + 1 ELSE age
  /\ gap' = IF gap < MinGap THEN gap + 1 ELSE gap
  /\ UNCHANGED <<state, pos, missed, batch, phyRx, voiceQ, lostRun>>

Expire(t) ==
  /\ Due(tmr, t)
  /\ tmr' = Expired(tmr, t)
  /\ UNCHANGED <<rxVars, batch, phyRx, voiceQ, gap, lostRun>>

\* The PHY's receive callback; a burst that meets a full queue is lost.
BurstHeard(b) ==
  /\ gap = MinGap
  /\ gap' = 0
  /\ phyRx' = IF Len(phyRx) < QDepth THEN Append(phyRx, b) ELSE phyRx
  /\ UNCHANGED <<rxVars, tmr, batch, voiceQ, lostRun>>

----------------------------------------------------------------------------
(* The tracker.                                                            *)

\* mq_send() to mq_rx_voice, which may be full.
Put(msg) ==
  voiceQ' = IF Len(voiceQ) < QDepth THEN Append(voiceQ, msg) ELSE voiceQ

\* mac_voice_inject_synth()
Inject(e) == Put([event |-> e])

NextPosLate == IF pos > 5 THEN 1 ELSE pos + 1        \* Faulty: wraps late.
NextPos     == IF pos >= 5 THEN 1 ELSE pos + 1

BothArmed    == Arm(Arm(tmr, "voice_burst", Guard), "voice_sf", SfGuard)
BothDisarmed == Disarm(Disarm(tmr, "voice_burst"), "voice_sf")

\* Faulty: a voice burst renews the burst window only.
RenewBurstOnly == Arm(tmr, "voice_burst", Guard)
Renew == BothArmed

\* mac_voice_rx_enter_active()
EnterActive ==
  /\ state' = "ACTIVE" /\ pos' = 1 /\ missed' = 0 /\ age' = 0
  /\ tmr' = BothArmed

\* mac_voice_rx_got_burst()
GotBurst ==
  /\ missed' = 0 /\ age' = 0 /\ pos' = NextPos
  /\ tmr' = Renew
  /\ UNCHANGED state

\* Both, for an undecodable burst in the hangover.
EnterActiveAndGotBurst ==
  /\ state' = "ACTIVE" /\ pos' = 2 /\ missed' = 0 /\ age' = 0
  /\ tmr' = BothArmed

\* mac_voice_rx_end() with MAC_SYNTH_EVT_NONE
EndQuietly == tmr' = BothDisarmed

Routed(b) == Put(b) /\ lostRun' = 0
Dropped   == UNCHANGED <<voiceQ, lostRun>>

Undecodable(b) ==
  \/ /\ state = "ACTIVE" /\ age <= Guard
     /\ GotBurst
     /\ Routed(b)
  \/ /\ state = "HANGOVER"
     /\ EnterActiveAndGotBurst
     /\ Routed(b)
  \/ /\ \/ state = "IDLE"
        \/ state = "ACTIVE" /\ age > Guard
     /\ UNCHANGED <<rxVars, tmr>>
     /\ Dropped

\* Does a decoded burst other than a header belong on mq_rx_voice?
ForVoice(type) ==
  type \in {"VOICE_TERMINATOR"} \cup VoiceCsbks
          \cup (IF Tier3 THEN {} ELSE SharedCsbks)

\* Every decoded burst but a header leaves the tracker idle; only a
\* terminator stops its timers.
DecodedBurst(b) ==
  /\ state' = "IDLE"
  /\ UNCHANGED <<pos, missed, age>>
  /\ IF b.type = "VOICE_TERMINATOR" THEN EndQuietly ELSE UNCHANGED tmr
  /\ IF ForVoice(b.type) THEN Put(b) ELSE UNCHANGED voiceQ
  /\ UNCHANGED lostRun

\* mac_handle_rx_burst() and mac_classify_rx_burst()
HandleRxBurst(b) ==
  \/ /\ b.type = "FOREIGN"
     /\ UNCHANGED <<rxVars, tmr>>
     /\ Dropped
  \/ /\ b.type \in {"SYNC", "LC_HEADER"}
     /\ EnterActive
     /\ Routed(b)
  \/ b.type = "UNKNOWN" /\ Undecodable(b)
  \/ b.type \in Decoded \ {"LC_HEADER"} /\ DecodedBurst(b)

TooManyMissesLate == missed >= MaxMissed                      \* Faulty.
TooManyMisses == missed + 1 >= MaxMissed

\* The window of the next position; Faulty: it is not opened.
NextWindowShut(tm) == tm
NextWindow(tm)     == Arm(tm, "voice_burst", Guard)

\* mac_voice_burst_timer_expired(), tm being the timers once drained
BurstExpired(tm) ==
  \/ /\ state = "ACTIVE"
     /\ missed' = missed + 1
     /\ pos' = NextPos
     /\ Inject("LOST")
     /\ lostRun' = lostRun + 1
     /\ IF TooManyMisses
          THEN state' = "HANGOVER" /\ tmr' = Disarm(tm, "voice_burst")
          ELSE UNCHANGED state /\ tmr' = NextWindow(tm)
  \/ /\ state # "ACTIVE"
     /\ tmr' = tm
     /\ UNCHANGED <<state, pos, missed, voiceQ, lostRun>>

\* The last window of a call.
OpenHangoverUntimed(tm) == tmr' = Disarm(tm, "voice_burst")   \* Faulty.
OpenHangover(tm) ==
  tmr' = Arm(Disarm(tm, "voice_burst"), "voice_sf", Hangover)

\* mac_voice_sf_timer_expired()
SfExpired(tm) ==
  \/ /\ state = "ACTIVE"
     /\ state' = "HANGOVER"
     /\ Inject("CALL_ENDED_TIMEOUT")
     /\ OpenHangover(tm)
  \/ /\ state = "HANGOVER"
     /\ state' = "IDLE"
     /\ Inject("CALL_GONE")
     /\ tmr' = tm
  \/ /\ state = "IDLE"
     /\ tmr' = tm
     /\ UNCHANGED <<state, voiceQ>>

----------------------------------------------------------------------------
(* The worker and the reader of mq_rx_voice.                               *)

Ready == {t \in Timers : tmr[t].kern = "expired"}
           \cup {fd \in {"phy_rx"} : phyRx # <<>>}

EpollWait ==
  /\ batch = {}
  /\ Ready # {}
  /\ batch' = Ready
  /\ UNCHANGED <<rxVars, tmr, phyRx, voiceQ, gap, lostRun>>

Serve(fd) == fd \in batch /\ batch' = batch \ {fd}

BurstTimerReady ==
  /\ Serve("voice_burst")
  /\ BurstExpired(Drain(tmr, "voice_burst"))
  /\ UNCHANGED <<age, phyRx, gap>>

SfTimerReady ==
  /\ Serve("voice_sf")
  /\ SfExpired(Drain(tmr, "voice_sf"))
  /\ UNCHANGED <<pos, missed, age, phyRx, gap, lostRun>>

PhyRxReady ==
  /\ Serve("phy_rx")
  /\ phyRx # <<>>
  /\ HandleRxBurst(Head(phyRx))
  /\ phyRx' = Tail(phyRx)
  /\ UNCHANGED gap

MacStep == EpollWait \/ BurstTimerReady \/ SfTimerReady \/ PhyRxReady

\* CCL Voice takes the next burst or event.
Take ==
  /\ voiceQ # <<>>
  /\ voiceQ' = Tail(voiceQ)
  /\ UNCHANGED <<rxVars, tmr, batch, phyRx, gap, lostRun>>

Init ==
  /\ state = "IDLE" /\ pos = 0 /\ missed = 0 /\ age = Oldest
  /\ tmr = [t \in Timers |-> Off]
  /\ batch = {} /\ phyRx = <<>> /\ voiceQ = <<>>
  /\ gap = MinGap /\ lostRun = 0

Next ==
  \/ Tick
  \/ \E t \in Timers : Expire(t)
  \/ \E b \in Air : BurstHeard(b)
  \/ MacStep
  \/ Take

\* The worker thread is not stopped for ever, and time passes.  The air may
\* fall silent and the reader of the queue may stop.
Fairness ==
  /\ WF_vars(MacStep)
  /\ WF_vars(Tick)
  /\ \A t \in Timers : WF_vars(Expire(t))

Spec     == Init /\ [][Next]_vars
LiveSpec == Spec /\ Fairness

----------------------------------------------------------------------------
(* Properties.                                                             *)

\* The tracker's state has its type; in particular expected_pos stays a
\* position of the superframe (the wraps of mac_voice_rx_got_burst() and
\* mac_voice_burst_timer_expired()).
TypeOK ==
  /\ state \in RxStates /\ pos \in 0..5 /\ missed \in 0..MaxMissed
  /\ age \in 0..Oldest
  /\ tmr \in [Timers -> [kern : {"off", "running", "expired"}, left : 0..(Guard + SfGuard + Hangover),
                         armed : BOOLEAN]]
  /\ batch \subseteq Fds
  /\ phyRx \in Seq(Air) /\ Len(phyRx) <= QDepth
  /\ voiceQ \in Seq(Air \cup Events) /\ Len(voiceQ) <= QDepth
  /\ gap \in 0..MinGap /\ lostRun \in Nat

\* A call being tracked is never left without the timer that will end it:
\* the superframe watchdog runs, or its expiry is unread, in ACTIVE and in
\* HANGOVER, and so does the burst window in ACTIVE, whatever stale expiries
\* of the same snapshot are served after a burst re-armed them.
CallWatched ==
  /\ state \in {"ACTIVE", "HANGOVER"} => Live("voice_sf")
  /\ state = "ACTIVE" => Live("voice_burst")

\* The loss events between two voice bursts handed to CCL Voice never exceed
\* MAC_VOICE_MAX_MISSED_BURSTS, across silent resets and resumptions, so
\* concealment never runs on for a call that has ended.
LossesBounded == lostRun <= MaxMissed

\* "Definitive end" (CALL_GONE) is only ever reported when no voice burst
\* has been handled for a whole hangover window: a burst that resumes the
\* call at the last moment, in the snapshot of the expiry, is not betrayed.
GoneIsDefinitive ==
  [][ (Len(voiceQ') > Len(voiceQ) /\ Last(voiceQ') = [event |-> "CALL_GONE"])
        => age >= Hangover ]_vars

\* When the air falls silent every tracked call ends: the watchdogs of
\* mac_voice_burst_timer_expired() and mac_voice_sf_timer_expired() lead to
\* IDLE without any further burst.
SilenceEndsCalls ==
  (<>[](gap = MinGap /\ phyRx = <<>>)) => []<>(state = "IDLE")
=============================================================================
