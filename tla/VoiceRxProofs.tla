---------------------------- MODULE VoiceRxProofs ----------------------------
(***************************************************************************)
(* Theorems about what the receiver does with a voice call: the tracker of *)
(* its superframes, and the two codes that protect it on the air.          *)
(*                                                                         *)
(* The tracker: for every length of its guards and of the hangover, every  *)
(* number of tolerated losses and every queue depth.  The type invariant   *)
(* is not inductive alone: that missed_count stays within                  *)
(* MAC_VOICE_MAX_MISSED_BURSTS needs Counted, which says that the tracker  *)
(* leaves ACTIVE with the miss that reaches the limit, and that            *)
(* missed_count is what CCL Voice has been told.                           *)
(*                                                                         *)
(* The codes: the Hamming (7,4) code of the common announcement channel    *)
(* and the product code of the embedded link control, for every message    *)
(* and every damage of the stated kind.                                    *)
(***************************************************************************)
EXTENDS MacVoiceRx, Cach, EmbeddedLc, TLAPS

Lefts == 0..(Guard + SfGuard + Hangover)
Timer == [kern : {"off", "running", "expired"}, left : Lefts, armed : BOOLEAN]

\* In ACTIVE one more loss is within the limit, and the losses counted are
\* the losses reported since the last voice burst.
Counted == state = "ACTIVE" => missed < MaxMissed /\ lostRun = missed

\* The inductive invariant.
IInv == TypeOK /\ Counted /\ LossesBounded /\ CallWatched

----------------------------------------------------------------------------
(* The timers.                                                             *)

\* The three delays are delays a timer can hold.
LEMMA DelaysFit ==
  Guard \in Lefts /\ SfGuard \in Lefts /\ Hangover \in Lefts /\ 0 \in Lefts
  BY TrackerTiming DEF Lefts

\* Arming, disarming, draining and expiring a timer leave two timers.
LEMMA TimersTyped ==
  ASSUME NEW tm \in [Timers -> Timer], NEW t \in Timers, NEW k \in Lefts
  PROVE  /\ Arm(tm, t, k) \in [Timers -> Timer]
         /\ Disarm(tm, t) \in [Timers -> Timer]
         /\ Drain(tm, t) \in [Timers -> Timer]
         /\ Expired(tm, t) \in [Timers -> Timer]
<1>1. Off \in Timer
  BY DelaysFit DEF Off, Timer
<1>2. Arm(tm, t, k) \in [Timers -> Timer]
  BY DEF Arm, Timer
<1>3. Disarm(tm, t) \in [Timers -> Timer]
  BY <1>1 DEF Disarm
<1>4. [tm[t] EXCEPT !.armed = FALSE] \in Timer
  BY DEF Timer
<1>5. Drain(tm, t) \in [Timers -> Timer]
  BY <1>1, <1>4 DEF Drain
<1>6. Expired(tm, t) \in [Timers -> Timer]
  BY DEF Expired, Timer
<1> QED
  BY <1>2, <1>3, <1>5, <1>6

\* A timer that is armed, or has expired, is live.
LEMMA TimerLive ==
  ASSUME NEW tm \in [Timers -> Timer], NEW t \in Timers, NEW k \in Lefts
  PROVE  /\ Arm(tm, t, k)[t].kern = "running"
         /\ Expired(tm, t)[t].kern = "expired"
  BY DEF Arm, Expired, Timer

\* What is done to one timer leaves the other as it was.
LEMMA OtherTimer ==
  ASSUME NEW tm \in [Timers -> Timer], NEW t \in Timers, NEW k \in Lefts,
         NEW u \in Timers, u # t
  PROVE  /\ Arm(tm, t, k)[u] = tm[u] /\ Disarm(tm, t)[u] = tm[u]
         /\ Drain(tm, t)[u] = tm[u] /\ Expired(tm, t)[u] = tm[u]
  BY DEF Arm, Disarm, Drain, Expired

\* The two timers are different.
LEMMA TimersApart ==
  "voice_burst" \in Timers /\ "voice_sf" \in Timers /\ "voice_burst" # "voice_sf"
  BY DEF Timers

\* Renewing both windows makes both timers live.
LEMMA BothArmedLive ==
  ASSUME tmr \in [Timers -> Timer]
  PROVE  /\ BothArmed \in [Timers -> Timer]
         /\ BothArmed["voice_burst"].kern = "running"
         /\ BothArmed["voice_sf"].kern = "running"
<1> DEFINE one == Arm(tmr, "voice_burst", Guard)
<1>1. one \in [Timers -> Timer] /\ one["voice_burst"].kern = "running"
  BY TimersTyped, TimerLive, DelaysFit, TimersApart
<1>2. BothArmed = Arm(one, "voice_sf", SfGuard)
  BY DEF BothArmed
<1> HIDE DEF one
<1>3. /\ Arm(one, "voice_sf", SfGuard) \in [Timers -> Timer]
      /\ Arm(one, "voice_sf", SfGuard)["voice_sf"].kern = "running"
  BY <1>1, TimersTyped, TimerLive, DelaysFit, TimersApart
<1>4. Arm(one, "voice_sf", SfGuard)["voice_burst"] = one["voice_burst"]
  BY <1>1, OtherTimer, DelaysFit, TimersApart
<1> QED
  BY <1>1, <1>2, <1>3, <1>4

----------------------------------------------------------------------------
(* The parts of the type invariant.                                        *)

\* What the tracker's handlers write, apart from the timers.
TrackTypes ==
  /\ state \in RxStates /\ pos \in 0..5 /\ missed \in 0..MaxMissed
  /\ age \in 0..Oldest
  /\ voiceQ \in Seq(Air \cup Events) /\ Len(voiceQ) <= QDepth
  /\ lostRun \in Nat

\* What they leave alone.
RestTypes ==
  /\ batch \subseteq Fds
  /\ phyRx \in Seq(Air) /\ Len(phyRx) <= QDepth
  /\ gap \in 0..MinGap

\* The type invariant by its parts.
LEMMA TypeParts ==
  TypeOK <=> TrackTypes /\ tmr \in [Timers -> Timer] /\ RestTypes
  BY DEF TypeOK, TrackTypes, RestTypes, Timer, Lefts

\* mq_rx_voice never holds more than its depth, whatever is sent to it.
LEMMA PutTyped ==
  ASSUME TrackTypes, NEW msg \in Air \cup Events, Put(msg)
  PROVE  voiceQ' \in Seq(Air \cup Events) /\ Len(voiceQ') <= QDepth
<1> DEFINE S == Air \cup Events
<1>1. /\ voiceQ \in Seq(S) /\ Len(voiceQ) \in Nat /\ QDepth \in Nat
      /\ Len(voiceQ) <= QDepth
  BY TrackerTiming DEF TrackTypes
<1>2. CASE Len(voiceQ) < QDepth
  <2>1. voiceQ' = Append(voiceQ, msg)
    BY <1>2 DEF Put
  <2>2. voiceQ' \in Seq(S) /\ Len(voiceQ') = Len(voiceQ) + 1
    BY <2>1, <1>1
  <2> QED
    BY <2>2, <1>1, <1>2
<1>3. CASE ~(Len(voiceQ) < QDepth)
  BY <1>3, <1>1 DEF Put
<1> QED  BY <1>2, <1>3

\* The events are messages of mq_rx_voice.
LEMMA InjectTyped ==
  ASSUME TrackTypes, NEW e \in {"LOST", "CALL_ENDED_TIMEOUT", "CALL_GONE"},
         Inject(e)
  PROVE  voiceQ' \in Seq(Air \cup Events) /\ Len(voiceQ') <= QDepth
<1>1. [event |-> e] \in Air \cup Events
  BY DEF Events
<1> QED
  BY <1>1, PutTyped DEF Inject

\* A position is followed by a position.
LEMMA NextPosTyped == pos \in 0..5 => NextPos \in 0..5
  BY DEF NextPos

----------------------------------------------------------------------------
(* The tracker's handlers.                                                 *)

\* All of the invariant that a handler of the tracker may disturb.
Tracked ==
  /\ TrackTypes /\ tmr \in [Timers -> Timer]
  /\ Counted /\ LossesBounded /\ CallWatched

\* The inductive invariant by its parts.
LEMMA InvParts == IInv <=> Tracked /\ RestTypes
  BY TypeParts DEF IInv, Tracked

\* A voice burst that starts, goes on with or resumes a call: the count of
\* losses begins again on both sides, and both windows are renewed.
LEMMA VoiceBurst ==
  ASSUME Tracked, NEW b \in Air, Routed(b),
         EnterActive \/ (state = "ACTIVE" /\ GotBurst) \/ EnterActiveAndGotBurst
  PROVE  Tracked'
<1>1. voiceQ' \in Seq(Air \cup Events) /\ Len(voiceQ') <= QDepth
  BY PutTyped DEF Tracked, Routed
<1>2. /\ state' = "ACTIVE" /\ missed' = 0 /\ age' = 0 /\ lostRun' = 0
      /\ tmr' = BothArmed
  BY DEF Routed, EnterActive, GotBurst, EnterActiveAndGotBurst, Renew
<1>3. pos' \in 0..5
  BY NextPosTyped DEF Tracked, TrackTypes, EnterActive, GotBurst,
     EnterActiveAndGotBurst
<1>4. 0 \in 0..MaxMissed /\ 0 \in 0..Oldest /\ 0 < MaxMissed
  BY TrackerTiming DEF Oldest
<1>5. TrackTypes'
  BY <1>1, <1>2, <1>3, <1>4 DEF TrackTypes, RxStates
<1>6. /\ tmr' \in [Timers -> Timer]
      /\ tmr'["voice_burst"].kern = "running" /\ tmr'["voice_sf"].kern = "running"
  BY <1>2, BothArmedLive DEF Tracked
<1>7. CallWatched'
  BY <1>6 DEF CallWatched, Live
<1>8. Counted' /\ LossesBounded'
  BY <1>2, <1>4 DEF Counted, LossesBounded
<1> QED
  BY <1>5, <1>6, <1>7, <1>8 DEF Tracked

\* Bursts that do not belong to the call leave it alone or end it silently.
LEMMA OtherBurst ==
  ASSUME Tracked, NEW b \in Air,
         \/ UNCHANGED <<rxVars, tmr>> /\ Dropped
         \/ DecodedBurst(b)
  PROVE  Tracked'
<1>1. CASE UNCHANGED <<rxVars, tmr>> /\ Dropped
  BY <1>1 DEF Tracked, TrackTypes, Counted, LossesBounded, CallWatched, Live,
     Dropped, rxVars
<1>2. CASE DecodedBurst(b)
  <2>1. voiceQ' \in Seq(Air \cup Events) /\ Len(voiceQ') <= QDepth
    <3>1. CASE ForVoice(b.type)
      BY <3>1, <1>2, PutTyped DEF Tracked, DecodedBurst
    <3>2. CASE ~ForVoice(b.type)
      BY <3>2, <1>2 DEF Tracked, TrackTypes, DecodedBurst
    <3> QED  BY <3>1, <3>2
  <2>2. /\ state' = "IDLE"
        /\ pos' = pos /\ missed' = missed /\ age' = age /\ lostRun' = lostRun
    BY <1>2 DEF DecodedBurst
  <2>3. tmr' \in [Timers -> Timer]
    <3> DEFINE one == Disarm(tmr, "voice_burst")
    <3>1. one \in [Timers -> Timer]
      BY TimersTyped, TimersApart, DelaysFit DEF Tracked
    <3>2. tmr' = Disarm(one, "voice_sf") \/ tmr' = tmr
      BY <1>2 DEF DecodedBurst, EndQuietly, BothDisarmed
    <3> HIDE DEF one
    <3>3. Disarm(one, "voice_sf") \in [Timers -> Timer]
      BY <3>1, TimersTyped, TimersApart, DelaysFit
    <3> QED
      BY <3>2, <3>3 DEF Tracked
  <2>4. TrackTypes'
    BY <2>1, <2>2 DEF Tracked, TrackTypes, RxStates
  <2>5. Counted' /\ LossesBounded' /\ CallWatched'
    BY <2>2 DEF Tracked, Counted, LossesBounded, CallWatched
  <2> QED
    BY <2>3, <2>4, <2>5 DEF Tracked
<1> QED  BY <1>1, <1>2

\* mac_handle_rx_burst() keeps the tracker's invariant.
LEMMA BurstTracked ==
  ASSUME Tracked, NEW b \in Air, HandleRxBurst(b)
  PROVE  Tracked'
<1>1. CASE b.type = "FOREIGN" /\ UNCHANGED <<rxVars, tmr>> /\ Dropped
  BY <1>1, OtherBurst
<1>2. CASE EnterActive /\ Routed(b)
  BY <1>2, VoiceBurst
<1>3. CASE Undecodable(b)
  BY <1>3, VoiceBurst, OtherBurst DEF Undecodable
<1>4. CASE DecodedBurst(b)
  BY <1>4, OtherBurst
<1> QED
  BY <1>1, <1>2, <1>3, <1>4 DEF HandleRxBurst

\* mac_voice_burst_timer_expired(): the miss that reaches the limit leaves
\* ACTIVE; before, the next window is opened.
LEMMA MissTracked ==
  ASSUME Tracked, BurstTimerReady
  PROVE  Tracked'
<1> DEFINE tm == Drain(tmr, "voice_burst")
<1>1. tm \in [Timers -> Timer] /\ tm["voice_sf"] = tmr["voice_sf"]
  BY TimersTyped, OtherTimer, TimersApart, DelaysFit DEF Tracked
<1>2. BurstExpired(tm) /\ age' = age
  BY DEF BurstTimerReady
<1> HIDE DEF tm
<1>3. CASE state = "ACTIVE"
  <2>1. /\ missed' = missed + 1 /\ pos' = NextPos /\ lostRun' = lostRun + 1
        /\ Inject("LOST")
    BY <1>2, <1>3 DEF BurstExpired
  <2>2. /\ missed \in 0..MaxMissed /\ missed < MaxMissed /\ lostRun = missed
        /\ MaxMissed \in Nat
    BY <1>3, TrackerTiming DEF Tracked, TrackTypes, Counted
  <2>3. voiceQ' \in Seq(Air \cup Events) /\ Len(voiceQ') <= QDepth
    BY <2>1, InjectTyped DEF Tracked
  <2>4. pos' \in 0..5
    BY <2>1, NextPosTyped DEF Tracked, TrackTypes
  <2>5. /\ missed' \in 0..MaxMissed /\ lostRun' \in Nat
        /\ lostRun' = missed' /\ lostRun' <= MaxMissed
    BY <2>1, <2>2
  <2>6. CASE TooManyMisses
    <3>1. state' = "HANGOVER" /\ tmr' = Disarm(tm, "voice_burst")
      BY <1>2, <1>3, <2>6 DEF BurstExpired
    <3>2. tmr' \in [Timers -> Timer] /\ tmr'["voice_sf"] = tmr["voice_sf"]
      BY <3>1, <1>1, TimersTyped, OtherTimer, TimersApart, DelaysFit
    <3>3. TrackTypes'
      BY <3>1, <1>2, <2>3, <2>4, <2>5 DEF Tracked, TrackTypes, RxStates
    <3>4. CallWatched'
      BY <3>1, <3>2, <1>3 DEF Tracked, CallWatched, Live
    <3> QED
      BY <3>1, <3>2, <3>3, <3>4, <2>5 DEF Tracked, Counted, LossesBounded
  <2>7. CASE ~TooManyMisses
    <3>1. state' = "ACTIVE" /\ tmr' = Arm(tm, "voice_burst", Guard)
      BY <1>2, <1>3, <2>7 DEF BurstExpired, NextWindow
    <3>2. /\ tmr' \in [Timers -> Timer] /\ tmr'["voice_sf"] = tmr["voice_sf"]
          /\ tmr'["voice_burst"].kern = "running"
      <4>1. tmr' \in [Timers -> Timer] /\ tmr'["voice_burst"].kern = "running"
        BY <3>1, <1>1, TimersTyped, TimerLive, TimersApart, DelaysFit
      <4>2. tmr'["voice_sf"] = tmr["voice_sf"]
        BY <3>1, <1>1, OtherTimer, TimersApart, DelaysFit
      <4> QED  BY <4>1, <4>2
    <3>3. missed' < MaxMissed
      BY <2>1, <2>2, <2>7 DEF TooManyMisses
    <3>4. TrackTypes'
      BY <3>1, <1>2, <2>3, <2>4, <2>5 DEF Tracked, TrackTypes, RxStates
    <3>5. CallWatched'
      BY <3>1, <3>2, <1>3 DEF Tracked, CallWatched, Live
    <3> QED
      BY <3>2, <3>3, <3>4, <3>5, <2>5 DEF Tracked, Counted, LossesBounded
  <2> QED  BY <2>6, <2>7
<1>4. CASE state # "ACTIVE"
  <2>1. /\ tmr' = tm /\ state' = state /\ pos' = pos /\ missed' = missed
        /\ voiceQ' = voiceQ /\ lostRun' = lostRun
    BY <1>2, <1>4 DEF BurstExpired
  <2>2. TrackTypes'
    BY <2>1, <1>2 DEF Tracked, TrackTypes
  <2>3. CallWatched'
    BY <2>1, <1>1, <1>4 DEF Tracked, CallWatched, Live
  <2> QED
    BY <2>1, <2>2, <2>3, <1>1, <1>4 DEF Tracked, Counted, LossesBounded
<1> QED  BY <1>3, <1>4

\* mac_voice_sf_timer_expired(): ACTIVE ends in the hangover, whose window is
\* opened, and the hangover in IDLE.
LEMMA SuperframeTracked ==
  ASSUME Tracked, SfTimerReady
  PROVE  Tracked'
<1> DEFINE tm == Drain(tmr, "voice_sf")
           one == Disarm(tm, "voice_burst")
<1>1. tm \in [Timers -> Timer]
  BY TimersTyped, TimersApart, DelaysFit DEF Tracked
<1>2. /\ SfExpired(tm)
      /\ pos' = pos /\ missed' = missed /\ age' = age /\ lostRun' = lostRun
  BY DEF SfTimerReady
<1>3. LossesBounded'
  BY <1>2 DEF Tracked, LossesBounded
<1> HIDE DEF tm
<1>4. one \in [Timers -> Timer]
  BY <1>1, TimersTyped, TimersApart, DelaysFit
<1>5. CASE state = "ACTIVE"
  <2>1. /\ state' = "HANGOVER" /\ Inject("CALL_ENDED_TIMEOUT")
        /\ tmr' = Arm(one, "voice_sf", Hangover)
    BY <1>2, <1>5 DEF SfExpired, OpenHangover
  <2> HIDE DEF one
  <2>2. tmr' \in [Timers -> Timer] /\ tmr'["voice_sf"].kern = "running"
    BY <2>1, <1>4, TimersTyped, TimerLive, TimersApart, DelaysFit
  <2>3. voiceQ' \in Seq(Air \cup Events) /\ Len(voiceQ') <= QDepth
    BY <2>1, InjectTyped DEF Tracked
  <2>4. TrackTypes'
    BY <2>1, <2>3, <1>2 DEF Tracked, TrackTypes, RxStates
  <2>5. CallWatched' /\ Counted'
    BY <2>1, <2>2 DEF CallWatched, Live, Counted
  <2> QED
    BY <2>2, <2>4, <2>5, <1>3 DEF Tracked
<1>6. CASE state # "ACTIVE"
  <2>1. /\ state' = "IDLE" /\ tmr' = tm
        /\ voiceQ' = voiceQ \/ Inject("CALL_GONE")
    BY <1>2, <1>6 DEF SfExpired, Tracked, TrackTypes, RxStates
  <2>2. voiceQ' \in Seq(Air \cup Events) /\ Len(voiceQ') <= QDepth
    BY <2>1, InjectTyped DEF Tracked, TrackTypes
  <2>3. TrackTypes'
    BY <2>1, <2>2, <1>2 DEF Tracked, TrackTypes, RxStates
  <2>4. CallWatched' /\ Counted'
    BY <2>1 DEF CallWatched, Counted
  <2> QED
    BY <2>1, <2>3, <2>4, <1>1, <1>3 DEF Tracked
<1> QED  BY <1>5, <1>6

----------------------------------------------------------------------------
(* The invariant.                                                          *)

\* Before the first burst nothing is tracked.
LEMMA InitInv == Init => IInv
<1> SUFFICES ASSUME Init PROVE IInv
  OBVIOUS
<1>1. Off \in Timer
  BY DelaysFit DEF Off, Timer
<1>2. TrackTypes
  BY TrackerTiming DEF Init, TrackTypes, RxStates, Oldest
<1>3. RestTypes
  BY TrackerTiming DEF Init, RestTypes
<1>4. tmr \in [Timers -> Timer]
  BY <1>1 DEF Init
<1>5. Counted /\ LossesBounded /\ CallWatched
  BY TrackerTiming DEF Init, Counted, LossesBounded, CallWatched
<1> QED
  BY <1>2, <1>3, <1>4, <1>5, InvParts DEF Tracked

\* Every step keeps the invariant.
LEMMA NextInv == IInv /\ [Next]_vars => IInv'
<1> SUFFICES ASSUME IInv, [Next]_vars PROVE IInv'
  OBVIOUS
<1>1. Tracked /\ RestTypes
  BY InvParts
<1>2. SUFFICES Tracked' /\ RestTypes'
  BY InvParts, PTL
<1>3. CASE UNCHANGED vars
  BY <1>1, <1>3 DEF vars, rxVars, Tracked, TrackTypes, RestTypes, Counted,
     LossesBounded, CallWatched, Live
<1>4. CASE Tick
  <2>1. tmr' \in [Timers -> Timer]
    <3>1. ASSUME NEW t \in Timers, tmr[t].kern = "running"
          PROVE  [tmr[t] EXCEPT !.left = @ - 1] \in Timer
      <4>1. tmr[t] \in Timer /\ tmr[t].left # 0
        BY <3>1, <1>1, <1>4 DEF Tracked, Tick, Due
      <4>2. tmr[t].left - 1 \in Lefts
        BY <4>1, TrackerTiming DEF Timer, Lefts
      <4> QED
        BY <4>1, <4>2 DEF Timer
    <3> QED
      BY <3>1, <1>1, <1>4 DEF Tick, Tracked
  <2>2. ASSUME NEW t \in Timers PROVE tmr'[t].kern = tmr[t].kern
    BY <1>1, <1>4 DEF Tick, Tracked, Timer
  <2>3. /\ state' = state /\ pos' = pos /\ missed' = missed
        /\ voiceQ' = voiceQ /\ lostRun' = lostRun
        /\ batch' = batch /\ phyRx' = phyRx
    BY <1>4 DEF Tick
  <2>4. age' \in 0..Oldest /\ gap' \in 0..MinGap
    <3>1. age \in 0..Oldest /\ gap \in 0..MinGap /\ Oldest \in Nat /\ MinGap \in Nat
      BY <1>1, TrackerTiming DEF Tracked, TrackTypes, RestTypes, Oldest
    <3> HIDE DEF Oldest
    <3> QED  BY <1>4, <3>1 DEF Tick
  <2>5. TrackTypes' /\ RestTypes'
    BY <1>1, <2>3, <2>4 DEF Tracked, TrackTypes, RestTypes
  <2>6. CallWatched'
    BY <1>1, <2>2, <2>3, TimersApart DEF Tracked, CallWatched, Live
  <2> QED
    BY <1>1, <2>1, <2>3, <2>5, <2>6 DEF Tracked, Counted, LossesBounded
<1>5. ASSUME NEW t \in Timers, Expire(t) PROVE Tracked' /\ RestTypes'
  <2>1. /\ tmr' = Expired(tmr, t)
        /\ UNCHANGED <<state, pos, missed, age, batch, phyRx, voiceQ, gap, lostRun>>
    BY <1>5 DEF Expire, rxVars
  <2>2. tmr' \in [Timers -> Timer]
    BY <1>1, <2>1, TimersTyped, DelaysFit DEF Tracked
  <2>3. ASSUME NEW u \in Timers, Live(u) PROVE Live(u)'
    <3>1. CASE u = t
      BY <3>1, <1>1, <2>1, TimerLive, DelaysFit DEF Tracked, Live
    <3>2. CASE u # t
      BY <3>2, <2>3, <1>1, <2>1, OtherTimer, DelaysFit DEF Tracked, Live
    <3> QED  BY <3>1, <3>2
  <2>4. TrackTypes' /\ RestTypes'
    BY <1>1, <2>1 DEF Tracked, TrackTypes, RestTypes
  <2>5. CallWatched'
    BY <1>1, <2>1, <2>3, TimersApart DEF Tracked, CallWatched
  <2> QED
    BY <1>1, <2>1, <2>2, <2>4, <2>5 DEF Tracked, Counted, LossesBounded
<1>6. ASSUME NEW b \in Air, BurstHeard(b) PROVE Tracked' /\ RestTypes'
  <2>1. phyRx' \in Seq(Air) /\ Len(phyRx') <= QDepth
    <3>1. phyRx \in Seq(Air) /\ Len(phyRx) \in Nat /\ QDepth \in Nat
      BY <1>1, TrackerTiming DEF RestTypes
    <3>2. Append(phyRx, b) \in Seq(Air) /\ Len(Append(phyRx, b)) = Len(phyRx) + 1
      BY <3>1
    <3> QED
      BY <1>1, <1>6, <3>1, <3>2 DEF BurstHeard, RestTypes
  <2>2. gap' \in 0..MinGap /\ batch' = batch
    BY <1>6, TrackerTiming DEF BurstHeard
  <2>3. UNCHANGED <<state, pos, missed, age, tmr, voiceQ, lostRun>>
    BY <1>6 DEF BurstHeard, rxVars
  <2>4. Tracked'
    BY <1>1, <2>3 DEF Tracked, TrackTypes, Counted, LossesBounded, CallWatched,
       Live
  <2> QED
    BY <1>1, <2>1, <2>2, <2>4 DEF RestTypes
<1>7. CASE EpollWait
  <2>1. batch' \subseteq Fds
    BY <1>7 DEF EpollWait, Ready, Fds
  <2>2. UNCHANGED <<state, pos, missed, age, tmr, phyRx, voiceQ, gap, lostRun>>
    BY <1>7 DEF EpollWait, rxVars
  <2> QED
    BY <1>1, <2>1, <2>2 DEF Tracked, TrackTypes, RestTypes, Counted,
       LossesBounded, CallWatched, Live
<1>8. CASE BurstTimerReady
  <2>1. RestTypes'
    BY <1>1, <1>8 DEF BurstTimerReady, Serve, RestTypes
  <2> QED
    BY <1>1, <1>8, <2>1, MissTracked
<1>9. CASE SfTimerReady
  <2>1. RestTypes'
    BY <1>1, <1>9 DEF SfTimerReady, Serve, RestTypes
  <2> QED
    BY <1>1, <1>9, <2>1, SuperframeTracked
<1>10. CASE PhyRxReady
  <2>1. phyRx \in Seq(Air)
    BY <1>1 DEF RestTypes
  <2>2. phyRx # <<>>
    BY <1>10 DEF PhyRxReady
  <2>3. /\ Head(phyRx) \in Air /\ Tail(phyRx) \in Seq(Air)
        /\ Len(Tail(phyRx)) <= Len(phyRx) /\ Len(phyRx) \in Nat
        /\ Len(Tail(phyRx)) \in Nat
    BY <2>1, <2>2
  <2>4. RestTypes'
    BY <1>1, <1>10, <2>3, TrackerTiming DEF PhyRxReady, Serve, RestTypes
  <2>5. Tracked'
    BY <1>1, <1>10, <2>3, BurstTracked DEF PhyRxReady
  <2> QED  BY <2>4, <2>5
<1>11. CASE Take
  <2>1. voiceQ' \in Seq(Air \cup Events) /\ Len(voiceQ') <= QDepth
    <3> DEFINE S == Air \cup Events
    <3>1. voiceQ \in Seq(S) /\ voiceQ # <<>> /\ Len(voiceQ) <= QDepth
          /\ QDepth \in Nat
      BY <1>1, <1>11, TrackerTiming DEF Take, Tracked, TrackTypes
    <3> HIDE DEF S
    <3>2. /\ Tail(voiceQ) \in Seq(S) /\ Len(Tail(voiceQ)) = Len(voiceQ) - 1
          /\ Len(voiceQ) \in Nat
      BY <3>1
    <3> QED
      BY <1>11, <3>1, <3>2 DEF Take, S
  <2>2. UNCHANGED <<state, pos, missed, age, tmr, batch, phyRx, gap, lostRun>>
    BY <1>11 DEF Take, rxVars
  <2> QED
    BY <1>1, <2>1, <2>2 DEF Tracked, TrackTypes, RestTypes, Counted,
       LossesBounded, CallWatched, Live
<1> QED
  BY <1>3, <1>4, <1>5, <1>6, <1>7, <1>8, <1>9, <1>10, <1>11
     DEF Next, MacStep

\* The invariant holds for ever.
LEMMA Invariant == Spec => []IInv
  BY InitInv, NextInv, PTL DEF Spec

\* The tracker's variables keep their types: the position stays within the
\* superframe and the queues within their depth.
THEOREM TypeCorrect == Spec => []TypeOK
<1>1. IInv => TypeOK
  BY DEF IInv
<1> QED  BY <1>1, Invariant, PTL

\* No call is tracked without the watchdog that will end it, whatever stale
\* expiry is served after a burst renewed the timers.
THEOREM CallAlwaysWatched == Spec => []CallWatched
<1>1. IInv => CallWatched
  BY DEF IInv
<1> QED  BY <1>1, Invariant, PTL

\* CCL Voice is never told of more losses in a row than
\* MAC_VOICE_MAX_MISSED_BURSTS.
THEOREM LossesAlwaysBounded == Spec => []LossesBounded
<1>1. IInv => LossesBounded
  BY DEF IInv
<1> QED  BY <1>1, Invariant, PTL

----------------------------------------------------------------------------
(* The definitive end is definitive.                                       *)

\* What dmr_mac.h's settings satisfy: the superframe guard is no shorter than
\* the hangover, and one missed burst is forgiven.
Forgiving == Hangover <= SfGuard /\ MaxMissed >= 2

\* Of a call being tracked, the watchdog is as old as the last voice burst, or
\* the hangover's window.
Timely ==
  state # "IDLE" =>
    /\ tmr["voice_sf"].kern = "running" => age + tmr["voice_sf"].left >= Hangover
    /\ tmr["voice_sf"].kern = "expired" => age >= Hangover

\* A stale expiry of the watchdog, read after a burst of the same snapshot
\* renewed it, cannot find the tracker in the hangover: the burst window is
\* in the snapshot at most once, and one miss does not end a call.
Forgiven ==
  "voice_sf" \in batch =>
    /\ state = "HANGOVER" => age >= Hangover
    /\ state = "ACTIVE" =>
         age >= Hangover \/ ("voice_burst" \in batch => missed = 0)

Patient == Timely /\ Forgiven

\* The events do not look like bursts.
LEMMA EventsApart == \A b \in Air : \A e : b # [event |-> e]
<1> SUFFICES ASSUME NEW b \in Air, NEW e, b = [event |-> e] PROVE FALSE
  OBVIOUS
<1>1. DOMAIN b = {"type", "call", "bit"}
  BY AirAssumption DEF Burst
<1>2. DOMAIN b = {"event"}
  OBVIOUS
<1> QED  BY <1>1, <1>2

\* What is added to mq_rx_voice is what was sent.
LEMMA PutLast ==
  ASSUME TrackTypes, NEW msg \in Air \cup Events, Put(msg),
         Len(voiceQ') > Len(voiceQ)
  PROVE  Last(voiceQ') = msg
<1> DEFINE S == Air \cup Events
<1>1. voiceQ \in Seq(S) /\ Len(voiceQ) \in Nat
  BY DEF TrackTypes
<1>2. voiceQ' = Append(voiceQ, msg)
  BY <1>1 DEF Put
<1>3. /\ Len(Append(voiceQ, msg)) = Len(voiceQ) + 1
      /\ Append(voiceQ, msg)[Len(voiceQ) + 1] = msg
  BY <1>1
<1> QED  BY <1>2, <1>3 DEF Last

\* No burst is the event of the definitive end.
LEMMA BurstIsNotGone ==
  ASSUME TrackTypes, NEW b \in Air, Put(b), Len(voiceQ') > Len(voiceQ)
  PROVE  Last(voiceQ') # [event |-> "CALL_GONE"]
  BY PutLast, EventsApart

\* Renewing both windows gives the watchdog the superframe guard.
LEMMA RenewedGuard ==
  ASSUME tmr \in [Timers -> Timer]
  PROVE  BothArmed["voice_sf"].kern = "running" /\ BothArmed["voice_sf"].left = SfGuard
<1> DEFINE one == Arm(tmr, "voice_burst", Guard)
<1>1. one \in [Timers -> Timer]
  BY TimersTyped, DelaysFit, TimersApart
<1> HIDE DEF one
<1>2. Arm(one, "voice_sf", SfGuard)["voice_sf"].left = SfGuard
      /\ Arm(one, "voice_sf", SfGuard)["voice_sf"].kern = "running"
  BY <1>1, TimersApart DEF Arm
<1> QED  BY <1>2 DEF BothArmed, one

\* A burst handled is patient: a voice burst starts everything anew, others
\* leave the call alone or end it.
LEMMA BurstPatient ==
  ASSUME Tracked, Patient, Forgiving, NEW b \in Air, HandleRxBurst(b),
         batch' \subseteq batch
  PROVE  Patient'
<1>0. age \in 0..Oldest /\ tmr \in [Timers -> Timer]
  BY DEF Tracked, TrackTypes
<1>1. CASE UNCHANGED <<rxVars, tmr>>
  BY <1>1 DEF Patient, Timely, Forgiven, rxVars
<1>2. CASE state' = "ACTIVE" /\ missed' = 0 /\ age' = 0 /\ tmr' = BothArmed
  <2>1. tmr'["voice_sf"].kern = "running" /\ tmr'["voice_sf"].left = SfGuard
    BY <1>0, <1>2, RenewedGuard
  <2> QED
    BY <1>2, <2>1, TrackerTiming DEF Patient, Timely, Forgiven, Forgiving
<1>3. CASE state' = "IDLE"
  BY <1>3 DEF Patient, Timely, Forgiven
<1> QED
  BY <1>1, <1>2, <1>3
  DEF HandleRxBurst, EnterActive, Undecodable, GotBurst, EnterActiveAndGotBurst,
      DecodedBurst, Renew

\* A miss leaves the watchdog as it is, and ends the call only when it is the
\* second in a row.
LEMMA MissPatient ==
  ASSUME Tracked, Patient, Forgiving, BurstTimerReady
  PROVE  Patient'
<1> DEFINE tm == Drain(tmr, "voice_burst")
<1>1. tm \in [Timers -> Timer] /\ tm["voice_sf"] = tmr["voice_sf"]
  BY TimersTyped, OtherTimer, TimersApart, DelaysFit DEF Tracked
<1>2. /\ BurstExpired(tm) /\ age' = age /\ "voice_burst" \in batch
      /\ batch' = batch \ {"voice_burst"} /\ missed \in 0..MaxMissed
  BY DEF BurstTimerReady, Serve, Tracked, TrackTypes
<1> HIDE DEF tm
<1>3. tmr'["voice_sf"] = tmr["voice_sf"]
  <2>1. /\ Disarm(tm, "voice_burst")["voice_sf"] = tm["voice_sf"]
        /\ Arm(tm, "voice_burst", Guard)["voice_sf"] = tm["voice_sf"]
    BY <1>1, OtherTimer, TimersApart, DelaysFit
  <2> QED  BY <1>1, <1>2, <2>1 DEF BurstExpired, NextWindow
<1>4. CASE state = "ACTIVE" /\ state' = "HANGOVER"
  <2>1. missed # 0
    BY <1>2, <1>4, TrackerTiming DEF BurstExpired, TooManyMisses, Forgiving
  <2> QED
    BY <1>2, <1>3, <1>4, <2>1, TimersApart DEF Patient, Timely, Forgiven
<1>5. CASE state' = state
  BY <1>2, <1>3, <1>5, TimersApart DEF Patient, Timely, Forgiven
<1> QED  BY <1>2, <1>4, <1>5 DEF BurstExpired

\* The watchdog's expiry ends the call for good, or opens the last window.
LEMMA SuperframePatient ==
  ASSUME Tracked, Patient, SfTimerReady
  PROVE  Patient'
<1> DEFINE tm == Drain(tmr, "voice_sf")
           one == Disarm(tm, "voice_burst")
<1>1. tm \in [Timers -> Timer] /\ age' = age /\ age \in 0..Oldest
      /\ SfExpired(tm) /\ batch' = batch \ {"voice_sf"}
  BY TimersTyped, TimersApart, DelaysFit
  DEF Tracked, TrackTypes, SfTimerReady, Serve
<1> HIDE DEF tm
<1>2. one \in [Timers -> Timer]
  BY <1>1, TimersTyped, TimersApart, DelaysFit
<1>3. CASE state = "ACTIVE"
  <2>1. tmr' = Arm(one, "voice_sf", Hangover)
    BY <1>1, <1>3 DEF SfExpired, OpenHangover
  <2> HIDE DEF one
  <2>2. tmr'["voice_sf"].kern = "running" /\ tmr'["voice_sf"].left = Hangover
    BY <1>2, <2>1, TimersApart DEF Arm
  <2> QED
    BY <1>1, <2>2, TrackerTiming DEF Patient, Timely, Forgiven, Oldest
<1>4. CASE state # "ACTIVE"
  <2>1. state' = "IDLE"
    BY <1>1, <1>4 DEF SfExpired, Tracked, TrackTypes, RxStates
  <2> QED  BY <2>1 DEF Patient, Timely, Forgiven
<1> QED  BY <1>3, <1>4

LEMMA InitPatient == Init => Patient
  BY DEF Init, Patient, Timely, Forgiven

LEMMA NextPatient == IInv /\ Patient /\ Forgiving /\ [Next]_vars => Patient'
<1> SUFFICES ASSUME IInv, Patient, Forgiving, [Next]_vars PROVE Patient'
  OBVIOUS
<1>0. Tracked /\ tmr \in [Timers -> Timer] /\ age \in 0..Oldest
  BY InvParts DEF Tracked, TrackTypes
<1>a. ASSUME UNCHANGED <<rxVars, batch>>, tmr'["voice_sf"] = tmr["voice_sf"]
      PROVE  Patient'
  BY <1>a DEF Patient, Timely, Forgiven, rxVars
<1>1. CASE UNCHANGED vars
  BY <1>1, <1>a DEF vars
<1>2. CASE Tick
  <2> DEFINE sf == tmr["voice_sf"]
  <2>1. /\ state' = state /\ missed' = missed /\ batch' = batch
        /\ age' = IF age < Oldest THEN age + 1 ELSE age
    BY <1>2 DEF Tick
  <2>2. /\ age' >= age /\ age' \in Nat /\ age \in Nat
        /\ age' = age + 1 \/ age' >= Hangover
    BY <1>0, <2>1, TrackerTiming DEF Oldest
  <2>3. sf \in Timer /\ Hangover \in Nat
    BY <1>0, TimersApart, TrackerTiming
  <2>4. tmr'["voice_sf"] =
          IF sf.kern = "running" THEN [sf EXCEPT !.left = @ - 1] ELSE sf
    BY <1>2, TimersApart DEF Tick
  <2> HIDE DEF sf
  <2>5. /\ sf.left \in Nat
        /\ tmr'["voice_sf"].kern = sf.kern
        /\ sf.kern = "running" => tmr'["voice_sf"].left = sf.left - 1
    BY <2>3, <2>4, TrackerTiming DEF Timer, Lefts
  <2>6. sf.kern = "running" => sf.left # 0
    BY <1>2, TimersApart DEF Tick, Due, sf
  <2>7. Timely'
    <3>1. ASSUME state # "IDLE", sf.kern = "running"
          PROVE  age' + tmr'["voice_sf"].left >= Hangover
      <4>1. age + sf.left >= Hangover
        BY <3>1 DEF Patient, Timely, sf
      <4> QED  BY <2>2, <2>3, <2>5, <2>6, <3>1, <4>1
    <3>2. ASSUME state # "IDLE", sf.kern = "expired" PROVE age' >= Hangover
      <4>1. age >= Hangover
        BY <3>2 DEF Patient, Timely, sf
      <4> QED  BY <2>2, <2>3, <4>1
    <3> QED  BY <2>1, <2>5, <3>1, <3>2 DEF Timely
  <2>8. Forgiven'
    BY <2>1, <2>2, <2>3 DEF Patient, Forgiven
  <2> QED  BY <2>7, <2>8 DEF Patient
<1>3. ASSUME NEW t \in Timers, Expire(t) PROVE Patient'
  <2>1. tmr' = Expired(tmr, t) /\ Due(tmr, t) /\ UNCHANGED <<rxVars, batch>>
    BY <1>3 DEF Expire
  <2>2. CASE t = "voice_sf"
    <3>1. tmr["voice_sf"].kern = "running" /\ tmr["voice_sf"].left = 0
      BY <2>1, <2>2 DEF Due
    <3>2. tmr'["voice_sf"].kern = "expired"
      BY <1>0, <2>1, <2>2, TimerLive, DelaysFit
    <3> QED
      BY <1>0, <2>1, <3>1, <3>2, TrackerTiming
      DEF Patient, Timely, Forgiven, rxVars, Oldest
  <2>3. CASE t # "voice_sf"
    <3>1. tmr'["voice_sf"] = tmr["voice_sf"]
      BY <1>0, <2>1, <2>3, OtherTimer, TimersApart, DelaysFit
    <3> QED  BY <1>a, <2>1, <3>1
  <2> QED  BY <2>2, <2>3
<1>4. ASSUME NEW b \in Air, BurstHeard(b) PROVE Patient'
  BY <1>4, <1>a DEF BurstHeard
<1>5. CASE EpollWait
  <2>1. "voice_sf" \in batch' => tmr["voice_sf"].kern = "expired"
    BY <1>5 DEF EpollWait, Ready
  <2> QED
    BY <1>5, <2>1 DEF EpollWait, Patient, Timely, Forgiven, rxVars
<1>6. CASE BurstTimerReady
  BY <1>0, <1>6, MissPatient
<1>7. CASE SfTimerReady
  BY <1>0, <1>7, SuperframePatient
<1>8. CASE PhyRxReady
  <2>1. Head(phyRx) \in Air
    BY <1>8, InvParts DEF PhyRxReady, RestTypes
  <2>2. HandleRxBurst(Head(phyRx)) /\ batch' \subseteq batch
    BY <1>8 DEF PhyRxReady, Serve
  <2> QED  BY <1>0, <2>1, <2>2, BurstPatient
<1>9. CASE Take
  BY <1>9, <1>a DEF Take
<1> QED
  BY <1>1, <1>2, <1>3, <1>4, <1>5, <1>6, <1>7, <1>8, <1>9 DEF Next, MacStep

\* Only the watchdog's expiry in the hangover reports the definitive end.
LEMMA GoneStep ==
  ASSUME IInv, Patient, [Next]_vars,
         Len(voiceQ') > Len(voiceQ), Last(voiceQ') = [event |-> "CALL_GONE"]
  PROVE  age >= Hangover
<1>0. TrackTypes /\ voiceQ' # voiceQ /\ Len(voiceQ) \in Nat
  BY InvParts DEF Tracked, TrackTypes
<1>1. CASE BurstTimerReady
  <2>1. Inject("LOST")
    BY <1>0, <1>1 DEF BurstTimerReady, BurstExpired
  <2>2. Last(voiceQ') = [event |-> "LOST"]
    BY <1>0, <2>1, PutLast DEF Inject, Events
  <2> QED  BY <2>2
<1>2. CASE SfTimerReady
  <2>1. CASE state = "ACTIVE"
    <3>1. Inject("CALL_ENDED_TIMEOUT")
      BY <1>2, <2>1 DEF SfTimerReady, SfExpired
    <3>2. Last(voiceQ') = [event |-> "CALL_ENDED_TIMEOUT"]
      BY <1>0, <3>1, PutLast DEF Inject, Events
    <3> QED  BY <3>2
  <2>2. CASE state = "HANGOVER"
    BY <1>2, <2>2 DEF SfTimerReady, Serve, Patient, Forgiven
  <2>3. CASE state = "IDLE"
    BY <1>0, <1>2, <2>3 DEF SfTimerReady, SfExpired
  <2> QED  BY <1>0, <2>1, <2>2, <2>3 DEF TrackTypes, RxStates
<1>3. CASE PhyRxReady
  <2>1. Head(phyRx) \in Air
    BY <1>3, InvParts DEF PhyRxReady, RestTypes
  <2>2. Put(Head(phyRx))
    BY <1>0, <1>3
    DEF PhyRxReady, HandleRxBurst, Undecodable, DecodedBurst, Routed, Dropped
  <2> QED  BY <1>0, <2>1, <2>2, BurstIsNotGone
<1>4. CASE Take
  <2>1. voiceQ' = Tail(voiceQ) /\ voiceQ # <<>> /\ voiceQ \in Seq(Air \cup Events)
    BY <1>0, <1>4 DEF Take, TrackTypes
  <2>2. Len(Tail(voiceQ)) = Len(voiceQ) - 1
    BY <2>1
  <2>3. Len(voiceQ') = Len(voiceQ) - 1 /\ Len(voiceQ) \in Nat
    BY <1>0, <2>1, <2>2
  <2> QED  BY <2>3
<1> QED
  BY <1>0, <1>1, <1>2, <1>3, <1>4
  DEF Next, MacStep, Tick, Expire, BurstHeard, EpollWait, vars

\* With the settings of dmr_mac.h, a call is reported gone for good only when
\* no voice burst was handled for a whole hangover, in whatever order the
\* worker serves a snapshot that holds the burst and both expiries.
THEOREM GoneAlwaysDefinitive == Forgiving => (Spec => GoneIsDefinitive)
<1> SUFFICES ASSUME Forgiving PROVE Spec => GoneIsDefinitive
  OBVIOUS
<1>1. IInv /\ Patient /\ [Next]_vars => Patient'
  BY NextPatient
<1>2. IInv /\ Patient /\ [Next]_vars =>
        [(Len(voiceQ') > Len(voiceQ) /\ Last(voiceQ') = [event |-> "CALL_GONE"])
           => age >= Hangover]_vars
  BY GoneStep
<1> QED
  BY Invariant, InitPatient, <1>1, <1>2, PTL DEF Spec, GoneIsDefinitive

----------------------------------------------------------------------------
(* The common announcement channel.                                        *)

\* A word without an error has syndrome 0; one flipped bit gives the syndrome
\* that points at it.
LEMMA SyndromePoints ==
  ASSUME NEW d \in Tact
  PROVE  /\ Syndrome(hamming74_encode(d)) = 0
         /\ \A e \in 0..6 :
              LET s == Syndrome(Flip(hamming74_encode(d), e)) IN
                s \in 1..7 /\ SynToPos[s] = e
<1> DEFINE w == hamming74_encode(d)
<1>1. /\ w \in Word
      /\ w[6] = d[3] /\ w[5] = d[2] /\ w[4] = d[1] /\ w[3] = d[0]
      /\ w[2] = Xor3(d[3], d[2], d[1])
      /\ w[1] = Xor3(d[2], d[1], d[0])
      /\ w[0] = Xor3(d[3], d[2], d[0])
  BY DEF hamming74_encode, Tact, Word, Xor3
<1> HIDE DEF w
<1>2. Syndrome(w) = 0
  BY <1>1 DEF Syndrome, Bit, Odd4, Xor3, Tact, Word
<1>3. ASSUME NEW e \in 0..6
      PROVE  LET s == Syndrome(Flip(w, e)) IN s \in 1..7 /\ SynToPos[s] = e
  <2> DEFINE v == Flip(w, e)
  <2>1. v \in Word /\ v[e] = ~w[e] /\ \A i \in 0..6 \ {e} : v[i] = w[i]
    BY <1>1 DEF Flip, Word
  <2> HIDE DEF v
  <2>2. CASE e = 0
    <3>1. Syndrome(v) = 1
      BY <1>1, <2>1, <2>2 DEF Syndrome, Bit, Odd4, Xor3, Tact, Word
    <3> QED BY <2>2, <3>1 DEF v, SynToPos
  <2>3. CASE e = 1
    <3>1. Syndrome(v) = 2
      BY <1>1, <2>1, <2>3 DEF Syndrome, Bit, Odd4, Xor3, Tact, Word
    <3> QED BY <2>3, <3>1 DEF v, SynToPos
  <2>4. CASE e = 2
    <3>1. Syndrome(v) = 4
      BY <1>1, <2>1, <2>4 DEF Syndrome, Bit, Odd4, Xor3, Tact, Word
    <3> QED BY <2>4, <3>1 DEF v, SynToPos
  <2>5. CASE e = 3
    <3>1. Syndrome(v) = 3
      BY <1>1, <2>1, <2>5 DEF Syndrome, Bit, Odd4, Xor3, Tact, Word
    <3> QED BY <2>5, <3>1 DEF v, SynToPos
  <2>6. CASE e = 4
    <3>1. Syndrome(v) = 6
      BY <1>1, <2>1, <2>6 DEF Syndrome, Bit, Odd4, Xor3, Tact, Word
    <3> QED BY <2>6, <3>1 DEF v, SynToPos
  <2>7. CASE e = 5
    <3>1. Syndrome(v) = 7
      BY <1>1, <2>1, <2>7 DEF Syndrome, Bit, Odd4, Xor3, Tact, Word
    <3> QED BY <2>7, <3>1 DEF v, SynToPos
  <2>8. CASE e = 6
    <3>1. Syndrome(v) = 5
      BY <1>1, <2>1, <2>8 DEF Syndrome, Bit, Odd4, Xor3, Tact, Word
    <3> QED BY <2>8, <3>1 DEF v, SynToPos
  <2> QED BY <2>2, <2>3, <2>4, <2>5, <2>6, <2>7, <2>8
<1> QED BY <1>2, <1>3 DEF w

LEMMA EncodeIsWord ==
  ASSUME NEW d \in Tact
  PROVE  /\ hamming74_encode(d) \in Word
         /\ \A i \in 0..3 : hamming74_encode(d)[i + 3] = d[i]
<1> DEFINE w == hamming74_encode(d)
<1>1. /\ w \in Word
      /\ w[6] = d[3] /\ w[5] = d[2] /\ w[4] = d[1] /\ w[3] = d[0]
  BY DEF hamming74_encode, Tact, Word, Xor3
<1> HIDE DEF w
<1>2. \A i \in 0..3 : w[i + 3] = d[i]
  <2> TAKE i \in 0..3
  <2>1. i = 0 \/ i = 1 \/ i = 2 \/ i = 3
    OBVIOUS
  <2> QED BY <1>1, <2>1
<1> QED BY <1>1, <1>2 DEF w

\* hamming74_decode() returns the four bits that hamming74_encode() was given,
\* also when any one of the seven bits was flipped on the way.
THEOREM HammingCorrects ==
  ASSUME NEW d \in Tact
  PROVE  /\ hamming74_decode(hamming74_encode(d)) = d
         /\ \A e \in 0..6 : hamming74_decode(Flip(hamming74_encode(d), e)) = d
<1> DEFINE w == hamming74_encode(d)
<1>1. /\ w \in Word
      /\ \A i \in 0..3 : w[i + 3] = d[i]
  BY EncodeIsWord
<1>2. /\ Syndrome(w) = 0
      /\ \A e \in 0..6 :
           LET s == Syndrome(Flip(w, e)) IN s \in 1..7 /\ SynToPos[s] = e
  BY SyndromePoints
<1> HIDE DEF w
<1>3. [i \in 0..3 |-> w[i + 3]] = d
  BY <1>1 DEF Tact
<1>4. hamming74_decode(w) = d
  BY <1>2, <1>3 DEF hamming74_decode, Corrected
<1>5. ASSUME NEW e \in 0..6
      PROVE  hamming74_decode(Flip(w, e)) = d
  <2> DEFINE s == Syndrome(Flip(w, e))
  <2>1. s \in 1..7 /\ SynToPos[s] = e
    BY <1>2
  <2>2. Corrected(Flip(w, e)) = Flip(Flip(w, e), e)
    BY <2>1 DEF Corrected
  <2>3. Flip(Flip(w, e), e) = w
    BY <1>1 DEF Flip, Word
  <2> QED BY <2>2, <2>3, <1>3 DEF hamming74_decode
<1> QED BY <1>4, <1>5 DEF w

\* Two bits of the word are never next to each other on the air.
LEMMA WordBitsApart ==
  \A i, j \in 0..6 : WordAt[i] \in 0..23 /\ WordAt[j] # WordAt[i] + 1
<1>1. /\ WordAt[0] = 1 /\ WordAt[1] = 5 /\ WordAt[2] = 9 /\ WordAt[3] = 11
      /\ WordAt[4] = 15 /\ WordAt[5] = 19 /\ WordAt[6] = 23
  BY DEF WordAt
<1>2. \A i \in 0..6 : i = 0 \/ i = 1 \/ i = 2 \/ i = 3 \/ i = 4 \/ i = 5 \/ i = 6
  OBVIOUS
<1>3. \A i \in 0..6 : WordAt[i] \in {1, 5, 9, 11, 15, 19, 23}
  BY <1>1, <1>2
<1> QED BY <1>3

\* Different bits of the word have different places on the air.
LEMMA WordAtInjective ==
  \A i, j \in 0..6 : WordAt[i] = WordAt[j] => i = j
<1>1. /\ WordAt[0] = 1 /\ WordAt[1] = 5 /\ WordAt[2] = 9 /\ WordAt[3] = 11
      /\ WordAt[4] = 15 /\ WordAt[5] = 19 /\ WordAt[6] = 23
  BY DEF WordAt
<1>2. \A i \in 0..6 : i = 0 \/ i = 1 \/ i = 2 \/ i = 3 \/ i = 4 \/ i = 5 \/ i = 6
  OBVIOUS
<1> QED BY <1>1, <1>2

\* Every payload bit has a place on the air.
LEMMA PayloadAtWire ==
  \A i \in 0..16 : PayloadAt[i] \in 0..23
<1> QED BY DEF PayloadAt

\* mac_cach_build() and mac_cach_parse(): when two bits that follow each other
\* on the air are damaged, whichever two, all of AT, TC and LCSS are received
\* as they were sent, and so is the payload but for the damaged bits in it.
THEOREM TactSurvives ==
  ASSUME NEW tact \in Tact, NEW payload \in Payload, NEW wire \in Wire,
         NEW heard \in Wire, NEW hit \in 0..23,
         mac_cach_build(tact, payload, wire),
         \A b \in 0..23 \ {hit, hit + 1} : heard[b] = wire[b]
  PROVE  /\ mac_cach_parse(heard).tact = tact
         /\ \A i \in 0..16 :
              PayloadAt[i] \notin {hit, hit + 1} =>
                mac_cach_parse(heard).payload[i] = payload[i]
<1> DEFINE w == hamming74_encode(tact)
           v == cach_deinterleave(heard).word
<1>1. /\ w \in Word
      /\ \A i \in 0..6 : wire[WordAt[i]] = w[i]
      /\ \A i \in 0..16 : wire[PayloadAt[i]] = payload[i]
  BY EncodeIsWord DEF mac_cach_build, Interleaved
<1>2. /\ v \in Word
      /\ \A i \in 0..6 : v[i] = heard[WordAt[i]]
  BY WordBitsApart DEF cach_deinterleave, Word, Wire
<1>3. hamming74_decode(w) = tact
      /\ \A e \in 0..6 : hamming74_decode(Flip(w, e)) = tact
  BY HammingCorrects
<1>4. mac_cach_parse(heard).tact = hamming74_decode(v)
  BY DEF mac_cach_parse
<1> HIDE DEF w, v
<1>5. \A i, j \in 0..6 : v[i] # w[i] /\ v[j] # w[j] => i = j
  <2> SUFFICES ASSUME NEW i \in 0..6, NEW j \in 0..6, v[i] # w[i], v[j] # w[j]
               PROVE  i = j
    OBVIOUS
  <2>1. heard[WordAt[i]] # wire[WordAt[i]] /\ heard[WordAt[j]] # wire[WordAt[j]]
    BY <1>1, <1>2
  <2>2. WordAt[i] \in 0..23 /\ WordAt[j] \in 0..23
    BY WordBitsApart
  <2>3. WordAt[i] \in {hit, hit + 1} /\ WordAt[j] \in {hit, hit + 1}
    BY <2>1, <2>2
  <2>4. WordAt[i] = WordAt[j]
    BY <2>3, WordBitsApart
  <2> QED BY <2>4, WordAtInjective
<1>6. v = w \/ \E e \in 0..6 : v = Flip(w, e)
  <2>1. CASE \A i \in 0..6 : v[i] = w[i]
    BY <2>1, <1>1, <1>2 DEF Word
  <2>2. CASE \E e \in 0..6 : v[e] # w[e]
    <3>1. PICK e \in 0..6 : v[e] # w[e]
      BY <2>2
    <3>2. v[e] = ~w[e]
      BY <3>1, <1>1, <1>2 DEF Word
    <3>3. \A i \in 0..6 \ {e} : v[i] = w[i]
      BY <3>1, <1>5
    <3>4. v = Flip(w, e)
      BY <3>2, <3>3, <1>1, <1>2 DEF Flip, Word
    <3> QED BY <3>4
  <2> QED BY <2>1, <2>2
<1>7. hamming74_decode(v) = tact
  BY <1>3, <1>6
<1>8. ASSUME NEW i \in 0..16, PayloadAt[i] \notin {hit, hit + 1}
      PROVE  mac_cach_parse(heard).payload[i] = payload[i]
  <2>1. mac_cach_parse(heard).payload[i] = heard[PayloadAt[i]]
    BY DEF mac_cach_parse, cach_deinterleave
  <2>2. heard[PayloadAt[i]] = wire[PayloadAt[i]]
    BY <1>8, PayloadAtWire
  <2> QED BY <2>1, <2>2, <1>1
<1> QED BY <1>4, <1>7, <1>8

----------------------------------------------------------------------------
(* The embedded link control.                                              *)

LEMMA EncodeIsRow ==
  ASSUME NEW d \in Data
  PROVE  /\ hamming_16_11_encode(d) \in Row
         /\ DataOf(hamming_16_11_encode(d)) = d
         /\ \A k \in 0..4 : hamming_16_11_encode(d)[k] = Parity(d, k)
<1> DEFINE w == hamming_16_11_encode(d)
<1>1. \A k \in 0..4 : Parity(d, k) \in BOOLEAN
  <2> TAKE k \in 0..4
  <2>1. k = 0 \/ k = 1 \/ k = 2 \/ k = 3 \/ k = 4
    OBVIOUS
  <2> QED BY <2>1 DEF Parity, Xor7, Xor
<1>2. w \in Row
  <2>1. \A b \in 0..15 : (IF b >= 5 THEN d[b - 5] ELSE Parity(d, b)) \in BOOLEAN
    BY <1>1 DEF Data
  <2> QED BY <2>1 DEF hamming_16_11_encode, Row
<1>3. \A i \in 0..10 : w[i + 5] = d[i]
  BY DEF hamming_16_11_encode
<1>4. DataOf(w) = d
  <2> HIDE DEF w
  <2> QED BY <1>3 DEF DataOf, Data
<1>5. \A k \in 0..4 : w[k] = Parity(d, k)
  BY DEF hamming_16_11_encode
<1> QED BY <1>2, <1>4, <1>5

\* A row as encoded has no syndrome.
LEMMA CleanSyndrome ==
  ASSUME NEW d \in Data
  PROVE  hamming_16_11_syndrome(hamming_16_11_encode(d)) = {}
<1> DEFINE w == hamming_16_11_encode(d)
<1>1. /\ DataOf(w) = d
      /\ \A k \in 0..4 : w[k] = Parity(d, k)
  BY EncodeIsRow
<1> HIDE DEF w
<1>2. \A k \in 0..4 : ~Xor(Parity(DataOf(w), k), w[k])
  BY <1>1 DEF Xor
<1> QED BY <1>2 DEF hamming_16_11_syndrome, w

\* Whether parity bit k disagrees, with the sum written out.
LEMMA SyndromeOf ==
  ASSUME NEW w \in Row
  PROVE  LET s == hamming_16_11_syndrome(w) IN
         /\ s \in SUBSET (0..4)
         /\ 4 \in s <=> Xor(Xor7(w[15], w[14], w[13], w[12], w[10], w[8], w[7]), w[4])
         /\ 3 \in s <=> Xor(Xor7(w[14], w[13], w[12], w[11], w[9], w[7], w[6]), w[3])
         /\ 2 \in s <=> Xor(Xor7(w[13], w[12], w[11], w[10], w[8], w[6], w[5]), w[2])
         /\ 1 \in s <=> Xor(Xor7(w[15], w[14], w[13], w[11], w[9], w[8], w[5]), w[1])
         /\ 0 \in s <=> Xor(Xor7(w[15], w[13], w[10], w[9], w[7], w[6], w[5]), w[0])
<1> DEFINE d == DataOf(w)
<1>1. /\ d[10] = w[15] /\ d[9] = w[14] /\ d[8] = w[13] /\ d[7] = w[12]
      /\ d[6] = w[11] /\ d[5] = w[10] /\ d[4] = w[9] /\ d[3] = w[8]
      /\ d[2] = w[7] /\ d[1] = w[6] /\ d[0] = w[5]
  BY DEF DataOf
<1> HIDE DEF d
<1>2. hamming_16_11_syndrome(w) = {k \in 0..4 : Xor(Parity(d, k), w[k])}
  BY DEF hamming_16_11_syndrome, d
<1>3. /\ Parity(d, 4) = Xor7(w[15], w[14], w[13], w[12], w[10], w[8], w[7])
      /\ Parity(d, 3) = Xor7(w[14], w[13], w[12], w[11], w[9], w[7], w[6])
      /\ Parity(d, 2) = Xor7(w[13], w[12], w[11], w[10], w[8], w[6], w[5])
      /\ Parity(d, 1) = Xor7(w[15], w[14], w[13], w[11], w[9], w[8], w[5])
      /\ Parity(d, 0) = Xor7(w[15], w[13], w[10], w[9], w[7], w[6], w[5])
  BY <1>1 DEF Parity
<1> QED BY <1>2, <1>3

\* A flipped bit changes the syndrome by its mask.
LEMMA FlipSyndrome ==
  ASSUME NEW w \in Row, NEW e \in 0..15, NEW k \in 0..4
  PROVE  k \in hamming_16_11_syndrome(Flip(w, e))
           <=> Xor(k \in hamming_16_11_syndrome(w), k \in Mask[e])
<1> DEFINE v == Flip(w, e)
<1>1. v \in Row /\ v[e] = ~w[e] /\ \A i \in 0..15 \ {e} : v[i] = w[i]
  BY DEF Flip, Row
<1> HIDE DEF v
<1>2. \/ e = 0 \/ e = 1 \/ e = 2 \/ e = 3 \/ e = 4 \/ e = 5 \/ e = 6 \/ e = 7
      \/ e = 8 \/ e = 9 \/ e = 10 \/ e = 11 \/ e = 12 \/ e = 13 \/ e = 14 \/ e = 15
  OBVIOUS
<1>3. \A i \in 0..15 : w[i] \in BOOLEAN /\ v[i] \in BOOLEAN
  BY <1>1 DEF Row
<1>4. CASE k = 4
  <2>1. 4 \in Mask[e] <=> e \in {15, 14, 13, 12, 10, 8, 7, 4}
    BY <1>2 DEF Mask
  <2>2. 4 \in hamming_16_11_syndrome(w)
          <=> Xor(Xor7(w[15], w[14], w[13], w[12], w[10], w[8], w[7]), w[4])
    BY SyndromeOf
  <2>3. 4 \in hamming_16_11_syndrome(v)
          <=> Xor(Xor7(v[15], v[14], v[13], v[12], v[10], v[8], v[7]), v[4])
    BY <1>1, SyndromeOf
  <2>4. Xor(Xor7(v[15], v[14], v[13], v[12], v[10], v[8], v[7]), v[4])
          <=> Xor(Xor(Xor7(w[15], w[14], w[13], w[12], w[10], w[8], w[7]), w[4]),
                  e \in {15, 14, 13, 12, 10, 8, 7, 4})
    BY <1>1, <1>2, <1>3 DEF Xor, Xor7
  <2> QED BY <1>4, <2>1, <2>2, <2>3, <2>4 DEF v, Xor
<1>5. CASE k = 3
  <2>1. 3 \in Mask[e] <=> e \in {14, 13, 12, 11, 9, 7, 6, 3}
    BY <1>2 DEF Mask
  <2>2. 3 \in hamming_16_11_syndrome(w)
          <=> Xor(Xor7(w[14], w[13], w[12], w[11], w[9], w[7], w[6]), w[3])
    BY SyndromeOf
  <2>3. 3 \in hamming_16_11_syndrome(v)
          <=> Xor(Xor7(v[14], v[13], v[12], v[11], v[9], v[7], v[6]), v[3])
    BY <1>1, SyndromeOf
  <2>4. Xor(Xor7(v[14], v[13], v[12], v[11], v[9], v[7], v[6]), v[3])
          <=> Xor(Xor(Xor7(w[14], w[13], w[12], w[11], w[9], w[7], w[6]), w[3]),
                  e \in {14, 13, 12, 11, 9, 7, 6, 3})
    BY <1>1, <1>2, <1>3 DEF Xor, Xor7
  <2> QED BY <1>5, <2>1, <2>2, <2>3, <2>4 DEF v, Xor
<1>6. CASE k = 2
  <2>1. 2 \in Mask[e] <=> e \in {13, 12, 11, 10, 8, 6, 5, 2}
    BY <1>2 DEF Mask
  <2>2. 2 \in hamming_16_11_syndrome(w)
          <=> Xor(Xor7(w[13], w[12], w[11], w[10], w[8], w[6], w[5]), w[2])
    BY SyndromeOf
  <2>3. 2 \in hamming_16_11_syndrome(v)
          <=> Xor(Xor7(v[13], v[12], v[11], v[10], v[8], v[6], v[5]), v[2])
    BY <1>1, SyndromeOf
  <2>4. Xor(Xor7(v[13], v[12], v[11], v[10], v[8], v[6], v[5]), v[2])
          <=> Xor(Xor(Xor7(w[13], w[12], w[11], w[10], w[8], w[6], w[5]), w[2]),
                  e \in {13, 12, 11, 10, 8, 6, 5, 2})
    BY <1>1, <1>2, <1>3 DEF Xor, Xor7
  <2> QED BY <1>6, <2>1, <2>2, <2>3, <2>4 DEF v, Xor
<1>7. CASE k = 1
  <2>1. 1 \in Mask[e] <=> e \in {15, 14, 13, 11, 9, 8, 5, 1}
    BY <1>2 DEF Mask
  <2>2. 1 \in hamming_16_11_syndrome(w)
          <=> Xor(Xor7(w[15], w[14], w[13], w[11], w[9], w[8], w[5]), w[1])
    BY SyndromeOf
  <2>3. 1 \in hamming_16_11_syndrome(v)
          <=> Xor(Xor7(v[15], v[14], v[13], v[11], v[9], v[8], v[5]), v[1])
    BY <1>1, SyndromeOf
  <2>4. Xor(Xor7(v[15], v[14], v[13], v[11], v[9], v[8], v[5]), v[1])
          <=> Xor(Xor(Xor7(w[15], w[14], w[13], w[11], w[9], w[8], w[5]), w[1]),
                  e \in {15, 14, 13, 11, 9, 8, 5, 1})
    BY <1>1, <1>2, <1>3 DEF Xor, Xor7
  <2> QED BY <1>7, <2>1, <2>2, <2>3, <2>4 DEF v, Xor
<1>8. CASE k = 0
  <2>1. 0 \in Mask[e] <=> e \in {15, 13, 10, 9, 7, 6, 5, 0}
    BY <1>2 DEF Mask
  <2>2. 0 \in hamming_16_11_syndrome(w)
          <=> Xor(Xor7(w[15], w[13], w[10], w[9], w[7], w[6], w[5]), w[0])
    BY SyndromeOf
  <2>3. 0 \in hamming_16_11_syndrome(v)
          <=> Xor(Xor7(v[15], v[13], v[10], v[9], v[7], v[6], v[5]), v[0])
    BY <1>1, SyndromeOf
  <2>4. Xor(Xor7(v[15], v[13], v[10], v[9], v[7], v[6], v[5]), v[0])
          <=> Xor(Xor(Xor7(w[15], w[13], w[10], w[9], w[7], w[6], w[5]), w[0]),
                  e \in {15, 13, 10, 9, 7, 6, 5, 0})
    BY <1>1, <1>2, <1>3 DEF Xor, Xor7
  <2> QED BY <1>8, <2>1, <2>2, <2>3, <2>4 DEF v, Xor
<1> QED BY <1>4, <1>5, <1>6, <1>7, <1>8

\* Every mask has an odd number of bits.
Odd(s) == Xor(Xor(Xor(4 \in s, 3 \in s), Xor(2 \in s, 1 \in s)), 0 \in s)

LEMMA MasksOdd ==
  /\ \A b \in 0..15 : Mask[b] \in SUBSET (0..4) /\ Odd(Mask[b])
  /\ \A b, c \in 0..15 : Mask[b] = Mask[c] => b = c
<1>1. /\ Mask[15] = {4, 1, 0} /\ Mask[14] = {4, 3, 1} /\ Mask[13] = 0..4
      /\ Mask[12] = {4, 3, 2} /\ Mask[11] = {3, 2, 1} /\ Mask[10] = {4, 2, 0}
      /\ Mask[9] = {3, 1, 0} /\ Mask[8] = {4, 2, 1} /\ Mask[7] = {4, 3, 0}
      /\ Mask[6] = {3, 2, 0} /\ Mask[5] = {2, 1, 0} /\ Mask[4] = {4}
      /\ Mask[3] = {3} /\ Mask[2] = {2} /\ Mask[1] = {1} /\ Mask[0] = {0}
  BY DEF Mask
<1>2. \A b \in 0..15 :
        \/ b = 0 \/ b = 1 \/ b = 2 \/ b = 3 \/ b = 4 \/ b = 5 \/ b = 6 \/ b = 7
        \/ b = 8 \/ b = 9 \/ b = 10 \/ b = 11 \/ b = 12 \/ b = 13 \/ b = 14 \/ b = 15
  OBVIOUS
<1>3. ASSUME NEW b \in 0..15
      PROVE  Mask[b] \in SUBSET (0..4) /\ Odd(Mask[b])
  BY <1>1, <1>2 DEF Odd, Xor
<1>4. ASSUME NEW b \in 0..15, NEW c \in 0..15, Mask[b] = Mask[c]
      PROVE  b = c
  <2> DEFINE Number(s) ==
        16 * Bit(4 \in s) + 8 * Bit(3 \in s) + 4 * Bit(2 \in s)
        + 2 * Bit(1 \in s) + Bit(0 \in s)
  <2>1. /\ Number(Mask[15]) = 19 /\ Number(Mask[14]) = 26
        /\ Number(Mask[13]) = 31 /\ Number(Mask[12]) = 28
        /\ Number(Mask[11]) = 14 /\ Number(Mask[10]) = 21
        /\ Number(Mask[9]) = 11 /\ Number(Mask[8]) = 22
        /\ Number(Mask[7]) = 25 /\ Number(Mask[6]) = 13
        /\ Number(Mask[5]) = 7 /\ Number(Mask[4]) = 16
        /\ Number(Mask[3]) = 8 /\ Number(Mask[2]) = 4
        /\ Number(Mask[1]) = 2 /\ Number(Mask[0]) = 1
    BY <1>1 DEF Bit
  <2>2. Number(Mask[b]) = Number(Mask[c])
    BY <1>4
  <2> HIDE DEF Number
  <2> QED BY <1>2, <2>1, <2>2
<1> QED BY <1>3, <1>4

\* hamming_16_11_decode(): a row with one wrong bit is corrected.
LEMMA RowCorrects ==
  ASSUME NEW d \in Data
  PROVE  /\ hamming_16_11_decode(hamming_16_11_encode(d)) = [ok |-> TRUE, data |-> d]
         /\ \A e \in 0..15 :
              hamming_16_11_decode(Flip(hamming_16_11_encode(d), e))
                = [ok |-> TRUE, data |-> d]
<1> DEFINE w == hamming_16_11_encode(d)
<1>1. w \in Row /\ DataOf(w) = d
  BY EncodeIsRow
<1>2. hamming_16_11_syndrome(w) = {}
  BY CleanSyndrome
<1> HIDE DEF w
<1>3. hamming_16_11_decode(w) = [ok |-> TRUE, data |-> d]
  BY <1>1, <1>2 DEF hamming_16_11_decode
<1>4. ASSUME NEW e \in 0..15
      PROVE  hamming_16_11_decode(Flip(w, e)) = [ok |-> TRUE, data |-> d]
  <2> DEFINE syn == hamming_16_11_syndrome(Flip(w, e))
             hits == {b \in 0..15 : Mask[b] = syn}
  <2>1. syn \in SUBSET (0..4)
    BY DEF hamming_16_11_syndrome
  <2>2. \A k \in 0..4 : k \in syn <=> k \in Mask[e]
    BY <1>1, <1>2, FlipSyndrome DEF Xor
  <2>3. syn = Mask[e]
    BY <2>1, <2>2, MasksOdd
  <2>4. hits = {e}
    BY <2>3, MasksOdd
  <2>5. syn # {}
    BY <2>3, MasksOdd DEF Odd, Xor
  <2>6. Flip(Flip(w, e), e) = w
    BY <1>1 DEF Flip, Row
  <2>7. (CHOOSE b \in hits : TRUE) = e
    BY <2>4
  <2>8. hamming_16_11_decode(Flip(w, e))
          = [ok |-> TRUE, data |-> DataOf(Flip(Flip(w, e), e))]
    <3> HIDE DEF syn
    <3>1. hamming_16_11_decode(Flip(w, e))
            = [ok |-> syn = {} \/ hits # {},
               data |-> DataOf(IF syn = {} \/ hits = {} THEN Flip(w, e)
                               ELSE Flip(Flip(w, e), CHOOSE b \in hits : TRUE))]
      BY DEF hamming_16_11_decode, syn
    <3> QED BY <3>1, <2>4, <2>5, <2>7
  <2> QED BY <2>6, <2>8, <1>1
<1> QED BY <1>3, <1>4 DEF w

\* hamming_16_11_decode() rejects a row with two wrong bits; it never takes it
\* for a row with one.
LEMMA RowDetects ==
  ASSUME NEW d \in Data, NEW e \in 0..15, NEW f \in 0..15, e # f
  PROVE  ~hamming_16_11_decode(Flip(Flip(hamming_16_11_encode(d), e), f)).ok
<1> DEFINE w == hamming_16_11_encode(d)
           v == Flip(w, e)
           syn == hamming_16_11_syndrome(Flip(v, f))
<1>1. w \in Row /\ hamming_16_11_syndrome(w) = {}
  BY EncodeIsRow, CleanSyndrome
<1> HIDE DEF w
<1>2. v \in Row
  BY <1>1 DEF Flip, Row
<1>3. \A k \in 0..4 : k \in hamming_16_11_syndrome(v) <=> k \in Mask[e]
  BY <1>1, FlipSyndrome DEF Xor
<1> HIDE DEF v
<1>4. \A k \in 0..4 : k \in syn <=> Xor(k \in Mask[e], k \in Mask[f])
  BY <1>2, <1>3, FlipSyndrome DEF Xor
<1> HIDE DEF syn
<1>5. ~Odd(syn)
  <2>1. Odd(Mask[e]) /\ Odd(Mask[f])
    BY MasksOdd
  <2>2. /\ 4 \in syn <=> Xor(4 \in Mask[e], 4 \in Mask[f])
        /\ 3 \in syn <=> Xor(3 \in Mask[e], 3 \in Mask[f])
        /\ 2 \in syn <=> Xor(2 \in Mask[e], 2 \in Mask[f])
        /\ 1 \in syn <=> Xor(1 \in Mask[e], 1 \in Mask[f])
        /\ 0 \in syn <=> Xor(0 \in Mask[e], 0 \in Mask[f])
    BY <1>4
  <2> QED BY <2>1, <2>2 DEF Odd, Xor
<1>6. \A b \in 0..15 : Mask[b] # syn
  BY <1>5, MasksOdd
<1>7. syn # {}
  <2>1. Mask[e] # Mask[f] /\ Mask[e] \in SUBSET (0..4) /\ Mask[f] \in SUBSET (0..4)
    BY MasksOdd
  <2>2. \E k \in 0..4 : ~(k \in Mask[e] <=> k \in Mask[f])
    BY ONLY <2>1
  <2> QED BY <2>2, <1>4 DEF Xor
<1> QED BY <1>6, <1>7 DEF hamming_16_11_decode, syn, v, w

LEMMA RowDataIsData ==
  ASSUME NEW lc \in Lc, NEW r \in 0..6
  PROVE  RowData(lc, r) \in Data
<1>1. \A k : ChecksumBit(lc, k) \in BOOLEAN
  BY DEF ChecksumBit
<1>2. ASSUME NEW j \in 0..10
      PROVE  (IF r = 0 THEN lc[61 + j]
              ELSE IF r = 1 THEN lc[50 + j]
              ELSE IF j = 0 THEN ChecksumBit(lc, 6 - r)
              ELSE lc[10 * (6 - r) + j - 1]) \in BOOLEAN
  <2>1. CASE r = 0 \/ r = 1
    BY <2>1 DEF Lc
  <2>2. CASE ~(r = 0 \/ r = 1) /\ j = 0
    BY <2>2, <1>1
  <2>3. CASE ~(r = 0 \/ r = 1) /\ j # 0
    <3>1. 10 * (6 - r) + j - 1 \in 0..71
      BY <2>3
    <3> QED BY <2>3, <3>1 DEF Lc
  <2> QED BY <2>1, <2>2, <2>3
<1> QED BY <1>2 DEF RowData, Data

\* The rows of a transmission give its link control back.
LEMMA LcOfRows ==
  ASSUME NEW lc \in Lc
  PROVE  /\ LcOf([r \in 0..6 |-> RowData(lc, r)]) = lc
         /\ \A k \in 0..4 : RowData(lc, 6 - k)[0] = ChecksumBit(lc, k)
<1> DEFINE rows == [r \in 0..6 |-> RowData(lc, r)]
<1>1. ASSUME NEW i \in 0..71
      PROVE  (IF i >= 61 THEN rows[0][i - 61]
              ELSE IF i >= 50 THEN rows[1][i - 50]
              ELSE rows[6 - (i \div 10)][(i % 10) + 1]) = lc[i]
  <2>1. CASE i >= 61
    <3>1. i - 61 \in 0..10
      BY <2>1
    <3> QED BY <2>1, <3>1 DEF RowData
  <2>2. CASE i < 61 /\ i >= 50
    <3>1. i - 50 \in 0..10
      BY <2>2
    <3> QED BY <2>2, <3>1 DEF RowData
  <2>3. CASE i < 50
    <3> DEFINE q == i \div 10
               m == i % 10
    <3>1. q \in 0..4 /\ m \in 0..9 /\ i = 10 * q + m
      BY <2>3
    <3> HIDE DEF q, m
    <3>2. rows[6 - q] = RowData(lc, 6 - q)
      BY <3>1
    <3>3. RowData(lc, 6 - q)[m + 1] = lc[10 * (6 - (6 - q)) + (m + 1) - 1]
      BY <3>1 DEF RowData
    <3>4. 10 * (6 - (6 - q)) + (m + 1) - 1 = i
      BY <3>1
    <3> QED BY <2>3, <3>2, <3>3, <3>4 DEF q, m
  <2> QED BY <2>1, <2>2, <2>3
<1>2. LcOf(rows) = [i \in 0..71 |-> lc[i]]
  BY <1>1 DEF LcOf
<1>3. [i \in 0..71 |-> lc[i]] = lc
  BY DEF Lc
<1>4. ASSUME NEW k \in 0..4
      PROVE  RowData(lc, 6 - k)[0] = ChecksumBit(lc, k)
  <2>1. 6 - (6 - k) = k
    OBVIOUS
  <2>2. RowData(lc, 6 - k)[0] = ChecksumBit(lc, 6 - (6 - k))
    BY DEF RowData
  <2> QED BY <2>1, <2>2
<1> QED BY <1>2, <1>3, <1>4

LEMMA RowOfIsRow ==
  ASSUME NEW s \in Stream, NEW r \in 0..7
  PROVE  /\ RowOf(s, r) \in Row
         /\ \A b \in 0..15 : RowOf(s, r)[b] = s[8 * (15 - b) + r]
<1>1. \A b \in 0..15 : 8 * (15 - b) + r \in 0..127
  OBVIOUS
<1> QED BY <1>1 DEF RowOf, Row, Stream

AtMostOnePerRow(heard, s) ==
  \A r \in 0..6 : \A b, c \in 0..15 :
    RowOf(heard, r)[b] # RowOf(s, r)[b] /\ RowOf(heard, r)[c] # RowOf(s, r)[c]
      => b = c

\* emblc_bptc_encode() and emblc_bptc_decode(): the link control survives
\* damage that leaves at most one wrong bit in each of the seven rows.
LEMMA OnePerRow ==
  ASSUME NEW lc \in Lc, NEW s, emblc_bptc_encode(lc, s), NEW heard \in Stream,
         AtMostOnePerRow(heard, s)
  PROVE  emblc_bptc_decode(heard) = [ok |-> TRUE, lc |-> lc]
<1>1. ASSUME NEW r \in 0..6
      PROVE  hamming_16_11_decode(RowOf(heard, r)) = [ok |-> TRUE, data |-> RowData(lc, r)]
  <2> DEFINE v == RowOf(heard, r)
             w == RowOf(s, r)
  <2>1. RowData(lc, r) \in Data /\ w = hamming_16_11_encode(RowData(lc, r))
    BY RowDataIsData DEF emblc_bptc_encode
  <2>2. v \in Row /\ w \in Row
    BY <2>1, EncodeIsRow, RowOfIsRow
  <2>3. \A b, c \in 0..15 : v[b] # w[b] /\ v[c] # w[c] => b = c
    BY DEF AtMostOnePerRow
  <2> HIDE DEF v, w
  <2>4. v = w \/ \E e \in 0..15 : v = Flip(w, e)
    <3>1. CASE \A b \in 0..15 : v[b] = w[b]
      BY <3>1, <2>2 DEF Row
    <3>2. CASE \E e \in 0..15 : v[e] # w[e]
      <4>1. PICK e \in 0..15 : v[e] # w[e]
        BY <3>2
      <4>2. v[e] = ~w[e]
        BY <4>1, <2>2 DEF Row
      <4>3. \A b \in 0..15 \ {e} : v[b] = w[b]
        BY <4>1, <2>3
      <4>4. v = Flip(w, e)
        BY <4>2, <4>3, <2>2 DEF Flip, Row
      <4> QED BY <4>4
    <3> QED BY <3>1, <3>2
  <2>5. hamming_16_11_decode(v) = [ok |-> TRUE, data |-> RowData(lc, r)]
    BY <2>1, <2>4, RowCorrects
  <2> QED BY <2>5 DEF v
<1> DEFINE rows == [r \in 0..6 |-> hamming_16_11_decode(RowOf(heard, r))]
<1>2. \A r \in 0..6 : rows[r].ok = TRUE /\ rows[r].data = RowData(lc, r)
  BY <1>1
<1>3. emblc_bptc_decode(heard)
        = [ok |-> (\A r \in 0..6 : rows[r].ok)
                  /\ \A k \in 0..4 :
                       rows[6 - k].data[0]
                         = ChecksumBit(LcOf([r \in 0..6 |-> rows[r].data]), k),
           lc |-> IF \A r \in 0..6 : rows[r].ok
                  THEN LcOf([r \in 0..6 |-> rows[r].data])
                  ELSE [i \in 0..71 |-> FALSE]]
  BY DEF emblc_bptc_decode
<1> HIDE DEF rows
<1>4. [r \in 0..6 |-> rows[r].data] = [r \in 0..6 |-> RowData(lc, r)]
  BY <1>2
<1>5. LcOf([r \in 0..6 |-> rows[r].data]) = lc
  BY <1>4, LcOfRows
<1>6. \A k \in 0..4 : rows[6 - k].data[0] = ChecksumBit(lc, k)
  <2> TAKE k \in 0..4
  <2>1. rows[6 - k].data = RowData(lc, 6 - k)
    BY <1>2
  <2> QED BY <2>1, LcOfRows
<1>7. \A r \in 0..6 : rows[r].ok
  BY <1>2
<1> QED BY <1>3, <1>5, <1>6, <1>7

\* emblc_bptc_encode() and emblc_bptc_decode(): a burst of up to eight damaged
\* bits, wherever it falls in the four fragments, does not change the link
\* control that is received.
THEOREM BurstSurvives ==
  ASSUME NEW lc \in Lc, NEW s, emblc_bptc_encode(lc, s), NEW heard \in Stream,
         NEW hit \in 0..127,
         \A p \in 0..127 \ (hit .. hit + 7) : heard[p] = s[p]
  PROVE  emblc_bptc_decode(heard) = [ok |-> TRUE, lc |-> lc]
<1>1. s \in Stream
  BY DEF emblc_bptc_encode
<1>2. ASSUME NEW r \in 0..6, NEW b \in 0..15, NEW c \in 0..15,
             RowOf(heard, r)[b] # RowOf(s, r)[b],
             RowOf(heard, r)[c] # RowOf(s, r)[c]
      PROVE  b = c
  <2>1. /\ heard[8 * (15 - b) + r] # s[8 * (15 - b) + r]
        /\ heard[8 * (15 - c) + r] # s[8 * (15 - c) + r]
    <3>1. /\ RowOf(heard, r)[b] = heard[8 * (15 - b) + r]
          /\ RowOf(heard, r)[c] = heard[8 * (15 - c) + r]
          /\ RowOf(s, r)[b] = s[8 * (15 - b) + r]
          /\ RowOf(s, r)[c] = s[8 * (15 - c) + r]
      BY DEF RowOf
    <3> QED BY <1>2, <3>1
  <2>2. 8 * (15 - b) + r \in 0..127 /\ 8 * (15 - c) + r \in 0..127
    OBVIOUS
  <2>3. 8 * (15 - b) + r \in hit .. hit + 7 /\ 8 * (15 - c) + r \in hit .. hit + 7
    BY <2>1, <2>2
  <2> QED BY <2>3
<1>3. AtMostOnePerRow(heard, s)
  BY <1>2 DEF AtMostOnePerRow
<1> QED BY <1>3, OnePerRow

\* emblc_bptc_decode(): two wrong bits in one row, whatever the rest received,
\* are reported as a failure; the row is not "corrected" to link control that
\* nobody sent.
THEOREM TwoInRowRejected ==
  ASSUME NEW lc \in Lc, NEW s, emblc_bptc_encode(lc, s), NEW heard \in Stream,
         NEW r \in 0..6, NEW b \in 0..15, NEW c \in 0..15, b # c,
         \A i \in 0..15 :
           RowOf(heard, r)[i] # RowOf(s, r)[i] <=> i \in {b, c}
  PROVE  ~emblc_bptc_decode(heard).ok
<1> DEFINE v == RowOf(heard, r)
           w == RowOf(s, r)
<1>1. RowData(lc, r) \in Data /\ w = hamming_16_11_encode(RowData(lc, r))
  BY RowDataIsData DEF emblc_bptc_encode
<1>2. v \in Row /\ w \in Row
  BY <1>1, EncodeIsRow, RowOfIsRow
<1>3. \A i \in 0..15 : v[i] # w[i] <=> i \in {b, c}
  OBVIOUS
<1>4. ~hamming_16_11_decode(v).ok
  <2> HIDE DEF v, w
  <2>1. v = Flip(Flip(w, b), c)
    <3>1. \A i \in 0..15 : v[i] = Flip(Flip(w, b), c)[i]
      BY <1>2, <1>3 DEF Flip, Row
    <3> QED BY <3>1, <1>2 DEF Flip, Row
  <2> QED BY <2>1, <1>1, RowDetects
<1> QED BY <1>4 DEF emblc_bptc_decode, v

=============================================================================
