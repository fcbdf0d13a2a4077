--------------------------- MODULE CclVoiceProofs ---------------------------
(***************************************************************************)
(* Theorems about voice call control for any superframe of at least two    *)
(* bursts, any set of calls, queue depth and number of key presses, and    *)
(* whatever the MAC puts on the queue.                                     *)
(*                                                                         *)
(* Which burst may follow, and how long the tail is, depend on the past;   *)
(* Following and Tails say what the state and sf_burst_idx remember of it. *)
(***************************************************************************)
EXTENDS CclVoice, TLAPS

Timer == [kern : {"off", "running", "expired"}, left : {0}, armed : BOOLEAN]

\* The last burst built, as far as the state depends on it.
Following ==
  /\ state = "TX_LC_HEADER" => built = "header"
  /\ state \in {"TRANSMITTING", "TX_TERMINATOR_ONCE_SF_FINISHED"} =>
       built = IF sfIdx = 0 THEN Last(Frames) ELSE Frames[sfIdx]
  /\ state = "TX_SF_FINISHED_TERMINATOR" => built = Last(Frames)

\* The bursts built since the release.
Tails ==
  /\ state \in {"TX_LC_HEADER", "TRANSMITTING", "TX_TERMINATOR"} => tail = 0
  /\ state = "TX_TERMINATOR_ONCE_SF_FINISHED" => tail <= sfIdx
  /\ state = "TX_SF_FINISHED_TERMINATOR" => tail <= SfLast + 1

IInv == TypeOK /\ WaitsWatched /\ Following /\ Tails

LEMMA Bounds ==
  /\ SfLast \in Nat /\ SfLast >= 1 /\ Len(Frames) = SfLast + 1
  /\ Last(Frames) = Frames[SfLast + 1] /\ Head(Frames) = Frames[1]
  /\ TailCap = SfLast + 2
  /\ MaxPress \in Nat /\ MacRoom \in Nat /\ MacRoom >= 1
  /\ QDepth \in Nat /\ QDepth >= 1
<1>1. Len(Frames) \in Nat /\ Len(Frames) > 1 /\ Head(Frames) = Frames[1]
  BY VoiceBounds
<1>2. Last(Frames) = Frames[Len(Frames)]
  BY DEF Last
<1> QED BY <1>1, <1>2, VoiceBounds DEF SfLast, TailCap

\* The invariant by what the handlers write and what the loop does.
Callees   == Calls \cup {NoCall, MineGroup, MineUnit}
CoreTypes ==
  /\ state \in States /\ call \in Callees /\ sfIdx \in 0..SfLast
  /\ tmr \in [Timers -> Timer]
  /\ mac \in 0..MacRoom /\ refused \in BOOLEAN /\ tail \in 0..TailCap
LoopTypes ==
  /\ missedFrame \in BOOLEAN
  /\ batch \subseteq Timers \cup Queues /\ queue \in Queues \cup {"none"}
  /\ evtQ \in Seq(Presses \cup {"release"}) /\ Len(evtQ) <= QDepth
  /\ confQ \in Seq({"OK", "ABORTED"}) /\ Len(confQ) <= QDepth
  /\ rxN \in 0..QDepth
  /\ presses \in 0..MaxPress /\ held \in BOOLEAN
CoreInv == CoreTypes /\ WaitsWatched /\ Following /\ Tails

\* What a step of the controller has to show of itself.
Fits  == built' # built => MayFollow(built')
Keeps == CoreInv' /\ Fits

LEMMA InvParts == IInv <=> CoreInv /\ LoopTypes
  BY DEF IInv, TypeOK, CoreInv, CoreTypes, LoopTypes, Callees, Timer

Sending == {"TX_LC_HEADER", "TRANSMITTING"} \cup Ending

LEMMA StatesApart ==
  /\ "IDLE" \in States \ Sending /\ "HANGTIME" \in States \ Sending
  /\ "UU_REQ_WAIT" \in States \ Sending
  /\ "RECEIVING" \in States \ Sending /\ "LATE_ENTRY" \in States \ Sending
  /\ Sending \subseteq States
  BY DEF States, Sending, Ending, Receiving

----------------------------------------------------------------------------
(* Timers.                                                                 *)

LEMMA TimersNamed ==
  "hangtime" \in Timers /\ "answer" \in Timers /\ "hangtime" # "answer"
  BY DEF Timers

LEMMA TimersTyped ==
  ASSUME NEW tm \in [Timers -> Timer], NEW t \in Timers
  PROVE  /\ Arm(tm, t, 0) \in [Timers -> Timer]
         /\ Disarm(tm, t) \in [Timers -> Timer]
         /\ Drain(tm, t) \in [Timers -> Timer]
         /\ Expired(tm, t) \in [Timers -> Timer]
         /\ Arm(tm, t, 0)[t].kern = "running"
         /\ \A u \in Timers \ {t} : Disarm(tm, t)[u] = tm[u]
<1>1. Off \in Timer
  BY DEF Off, Timer
<1>2. Arm(tm, t, 0) \in [Timers -> Timer] /\ Arm(tm, t, 0)[t].kern = "running"
  BY DEF Arm, Timer
<1>3. Disarm(tm, t) \in [Timers -> Timer] /\ \A u \in Timers \ {t} : Disarm(tm, t)[u] = tm[u]
  BY <1>1 DEF Disarm
<1>4. [tm[t] EXCEPT !.armed = FALSE] \in Timer
  BY DEF Timer
<1>5. Drain(tm, t) \in [Timers -> Timer]
  BY <1>1, <1>4 DEF Drain
<1>6. Expired(tm, t) \in [Timers -> Timer]
  BY DEF Expired, Timer
<1> QED BY <1>2, <1>3, <1>5, <1>6

----------------------------------------------------------------------------
(* Handlers that build nothing.                                            *)

\* ... and do not begin to send.
LEMMA SilentKeeps ==
  ASSUME CoreInv, UNCHANGED <<sfIdx, built, tail>>,
         mac' \in 0..MacRoom, refused' \in BOOLEAN,
         state' \in States, state' = state \/ state' \notin Sending,
         call' \in Callees, tmr' \in [Timers -> Timer], WaitsWatched'
  PROVE  Keeps
<1>1. CoreTypes'
  BY DEF CoreInv, CoreTypes
<1>2. Following'
  BY DEF CoreInv, Following, Sending, Ending
<1>3. Tails'
  BY DEF CoreInv, Tails, Sending, Ending
<1> QED BY <1>1, <1>2, <1>3 DEF Keeps, CoreInv, Fits

\* ... and wait for nothing new.
LEMMA QuietKeeps ==
  ASSUME CoreInv, Silent, call' \in Callees, state' \in States,
         \/ state' = state /\ tmr' = tmr
         \/ state' \notin Sending \cup {"HANGTIME", "UU_REQ_WAIT"}
            /\ tmr' \in [Timers -> Timer]
  PROVE  Keeps
<1>1. WaitsWatched'
  BY DEF CoreInv, WaitsWatched, Live
<1>2. /\ UNCHANGED <<sfIdx, built, tail>> /\ mac' \in 0..MacRoom
      /\ refused' \in BOOLEAN /\ tmr' \in [Timers -> Timer]
  BY DEF Silent, txVars, CoreInv, CoreTypes
<1> QED BY <1>1, <1>2, SilentKeeps

LEMMA HangtimeKeeps ==
  ASSUME CoreInv, Silent, call' \in Callees, HangtimeStarts
  PROVE  Keeps
<1>1. tmr' \in [Timers -> Timer] /\ tmr'["hangtime"].kern = "running"
  BY TimersTyped, TimersNamed DEF HangtimeStarts, CoreInv, CoreTypes
<1>2. WaitsWatched'
  BY <1>1 DEF HangtimeStarts, WaitsWatched, Live
<1>3. /\ UNCHANGED <<sfIdx, built, tail>> /\ mac' \in 0..MacRoom
      /\ refused' \in BOOLEAN /\ state' = "HANGTIME"
  BY DEF Silent, txVars, CoreInv, CoreTypes, HangtimeStarts
<1> QED BY <1>1, <1>2, <1>3, StatesApart, SilentKeeps

LEMMA IgnoredKeeps == CoreInv /\ Ignored => Keeps
<1> SUFFICES ASSUME CoreInv, Ignored PROVE Keeps
  OBVIOUS
<1>1. Silent /\ call' \in Callees /\ state' \in States /\ state' = state /\ tmr' = tmr
  BY DEF Ignored, CoreInv, CoreTypes
<1> QED BY <1>1, QuietKeeps

LEMMA ToIdleKeeps ==
  ASSUME CoreInv, ToIdle, Silent, tmr' \in [Timers -> Timer]
  PROVE  Keeps
<1>1. call' \in Callees /\ state' = "IDLE"
  BY DEF ToIdle, Callees
<1> QED BY <1>1, QuietKeeps, StatesApart

----------------------------------------------------------------------------
(* The bursts built.                                                       *)

LEMMA SubmitTypes ==
  ASSUME CoreInv, Submit
  PROVE  mac' \in 0..MacRoom /\ refused' \in BOOLEAN
<1>1. mac \in 0..MacRoom /\ refused \in BOOLEAN
  BY DEF CoreInv, CoreTypes
<1>2. CASE mac < MacRoom /\ mac' = mac + 1 /\ UNCHANGED refused
  BY <1>1, <1>2, Bounds
<1>3. CASE mac = MacRoom /\ refused' = TRUE /\ UNCHANGED mac
  BY <1>1, <1>3
<1> QED BY <1>2, <1>3 DEF Submit

LEMMA HeaderKeeps ==
  ASSUME CoreInv, TxLcHeader, state' = "TX_LC_HEADER", call' \in Callees,
         tmr' \in [Timers -> Timer]
  PROVE  Keeps
<1>1. mac' \in 0..MacRoom /\ refused' \in BOOLEAN
  BY SubmitTypes DEF TxLcHeader
<1>2. sfIdx' = 0 /\ built' = "header" /\ tail' = 0
  BY DEF TxLcHeader
<1>3. CoreTypes'
  BY <1>1, <1>2, Bounds DEF CoreTypes, States
<1>4. WaitsWatched' /\ Following' /\ Tails' /\ Fits
  BY <1>2 DEF WaitsWatched, Following, Tails, Fits, MayFollow
<1> QED BY <1>3, <1>4 DEF Keeps, CoreInv

LEMMA TerminatorKeeps ==
  ASSUME CoreInv, TxTerminator, state' = "TX_TERMINATOR", call' \in Callees,
         tmr' \in [Timers -> Timer],
         state \in {"TX_LC_HEADER", "TX_SF_FINISHED_TERMINATOR"}
  PROVE  Keeps
<1>1. mac' \in 0..MacRoom /\ refused' \in BOOLEAN
  BY SubmitTypes DEF TxTerminator
<1>2. sfIdx' = sfIdx /\ built' = "terminator" /\ tail' = 0
  BY DEF TxTerminator
<1>3. CoreTypes'
  BY <1>1, <1>2, Bounds DEF CoreInv, CoreTypes, States, Ending
<1>4. WaitsWatched' /\ Following' /\ Tails'
  BY <1>2 DEF WaitsWatched, Following, Tails
<1>5. Fits
  BY <1>2 DEF CoreInv, Following, Fits, MayFollow
<1> QED BY <1>3, <1>4, <1>5 DEF Keeps, CoreInv

\* The next voice burst: the first after the header, then each in its turn.
LEMMA VoiceKeeps ==
  ASSUME CoreInv, NEW p \in 0..SfLast, TxNextBurst(p), UNCHANGED <<call, tmr>>,
         \/ state = "TX_LC_HEADER" /\ p = 0 /\ state' = "TRANSMITTING"
         \/ state = "TRANSMITTING" /\ p = sfIdx /\ state' = state
         \/ /\ state = "TX_TERMINATOR_ONCE_SF_FINISHED" /\ p = sfIdx
            /\ state' = IF p = SfLast THEN "TX_SF_FINISHED_TERMINATOR" ELSE state
  PROVE  Keeps
<1>1. mac' \in 0..MacRoom /\ refused' \in BOOLEAN
  BY SubmitTypes DEF TxNextBurst
<1>2. /\ built' = Frames[p + 1] /\ sfIdx' = (IF p < SfLast THEN p + 1 ELSE 0)
      /\ tail' = IF state \in Ending /\ tail < TailCap THEN tail + 1 ELSE tail
  BY DEF TxNextBurst, NextPosition
<1>3. tail \in 0..TailCap /\ sfIdx \in 0..SfLast /\ tail' \in 0..TailCap
  BY <1>2, Bounds DEF CoreInv, CoreTypes
<1>4. CoreTypes'
  BY <1>1, <1>2, <1>3, Bounds DEF CoreInv, CoreTypes, States, Ending
<1>5. WaitsWatched'
  BY DEF WaitsWatched
<1>6. built' = IF sfIdx' = 0 THEN Last(Frames) ELSE Frames[sfIdx']
  BY <1>2, Bounds
<1>7. Following'
  BY <1>2, <1>6, Bounds DEF Following
<1>8. Tails'
  BY <1>2, <1>3, Bounds DEF CoreInv, Tails, Ending
<1>9. Fits
  <2>1. CASE p = 0
    BY <1>2, <2>1, Bounds DEF CoreInv, Following, Fits, MayFollow
  <2>2. CASE p # 0
    <3>1. p \in 1..SfLast /\ built = Frames[p]
      BY <2>2, Bounds DEF CoreInv, Following
    <3> QED BY <1>2, <3>1 DEF Fits, MayFollow
  <2> QED BY <2>1, <2>2
<1> QED BY <1>4, <1>5, <1>7, <1>8, <1>9 DEF Keeps, CoreInv

----------------------------------------------------------------------------
(* The user's key and the confirmations.                                   *)

\* The wait for the called party begins with its timer.
LEMMA AnswerWaitKeeps ==
  ASSUME CoreInv, NEW tm \in [Timers -> Timer], SubmitCsbk, UNCHANGED sfIdx,
         call' \in Callees, state' = "UU_REQ_WAIT", tmr' = AnswerWait(tm)
  PROVE  Keeps
<1>1. tmr' \in [Timers -> Timer] /\ tmr'["answer"].kern = "running"
  BY TimersTyped, TimersNamed DEF AnswerWait
<1>2. WaitsWatched'
  BY <1>1 DEF WaitsWatched, Live
<1>3. /\ mac' \in 0..MacRoom /\ refused' \in BOOLEAN
      /\ UNCHANGED <<sfIdx, built, tail>>
  BY SubmitTypes DEF SubmitCsbk
<1> QED BY <1>1, <1>2, <1>3, StatesApart, SilentKeeps

LEMMA PttPressKeeps ==
  ASSUME CoreInv, NEW c \in Presses, PttPress(c)
  PROVE  Keeps
<1>1. c \in Callees
  BY CallsAssumption DEF Callees
<1>2. Disarm(tmr, "hangtime") \in [Timers -> Timer]
  BY TimersTyped, TimersNamed DEF CoreInv, CoreTypes
<1>3. CASE /\ call' = c /\ state' = "TX_LC_HEADER"
           /\ tmr' = Disarm(tmr, "hangtime") /\ TxLcHeader
  BY <1>1, <1>2, <1>3, HeaderKeeps
<1>4. CASE /\ call' = c /\ state' = "UU_REQ_WAIT"
           /\ tmr' = AnswerWait(Disarm(tmr, "hangtime"))
           /\ SubmitCsbk /\ UNCHANGED sfIdx
  BY <1>1, <1>2, <1>4, AnswerWaitKeeps
<1>5. CASE UNCHANGED <<state, call, tmr>> /\ Silent
  <2>1. call' \in Callees /\ state' \in States
    BY <1>5 DEF CoreInv, CoreTypes
  <2> QED BY <1>5, <2>1, QuietKeeps
<1> QED BY <1>3, <1>4, <1>5 DEF PttPress

LEMMA PttReleaseKeeps == CoreInv /\ PttRelease => Keeps
<1> SUFFICES ASSUME CoreInv, PttRelease PROVE Keeps
  OBVIOUS
<1>1. call' \in Callees /\ tmr' = tmr /\ tmr' \in [Timers -> Timer] /\ state \in States
  BY DEF PttRelease, CoreInv, CoreTypes
<1>2. CASE /\ state = "TRANSMITTING" /\ Silent
           /\ state' = "TX_TERMINATOR_ONCE_SF_FINISHED"
  <2>1. UNCHANGED <<sfIdx, mac, refused, built, tail>>
    BY <1>2 DEF Silent, txVars
  <2>2. CoreTypes'
    BY <1>1, <1>2, <2>1 DEF CoreInv, CoreTypes, States, Ending
  <2>3. Following' /\ WaitsWatched'
    BY <1>2, <2>1 DEF CoreInv, Following, WaitsWatched
  <2>4. Tails'
    BY <1>2, <2>1, Bounds DEF CoreInv, CoreTypes, Tails
  <2> QED BY <2>1, <2>2, <2>3, <2>4 DEF Keeps, CoreInv, Fits
<1>3. CASE state = "TX_LC_HEADER" /\ state' = "TX_TERMINATOR" /\ TxTerminator
  BY <1>1, <1>3, TerminatorKeeps
<1>4. CASE UNCHANGED state /\ Silent
  BY <1>1, <1>4, QuietKeeps
<1> QED BY <1>2, <1>3, <1>4 DEF PttRelease

LEMMA TxConfKeeps == CoreInv /\ TxConf => Keeps
<1> SUFFICES ASSUME CoreInv, TxConf PROVE Keeps
  OBVIOUS
<1>1. /\ call' = call /\ call' \in Callees /\ tmr \in [Timers -> Timer]
      /\ state \in States /\ sfIdx \in 0..SfLast /\ 0 \in 0..SfLast
  BY Bounds DEF TxConf, CoreInv, CoreTypes
<1>2. CASE /\ state = "TX_LC_HEADER" /\ state' = "TRANSMITTING"
           /\ TxNextBurst(0) /\ UNCHANGED tmr
  BY <1>1, <1>2, VoiceKeeps
<1>3. CASE state = "TRANSMITTING" /\ TxNextBurst(sfIdx) /\ UNCHANGED <<state, tmr>>
  BY <1>1, <1>3, VoiceKeeps
<1>4. CASE /\ state = "TX_TERMINATOR_ONCE_SF_FINISHED" /\ TxNextBurst(sfIdx)
           /\ state' = IF LastFrameDue THEN AfterLastFrame ELSE state
           /\ UNCHANGED tmr
  BY <1>1, <1>4, VoiceKeeps DEF LastFrameDue, AfterLastFrame
<1>5. CASE /\ state = "TX_SF_FINISHED_TERMINATOR" /\ state' = "TX_TERMINATOR"
           /\ TxTerminator /\ UNCHANGED tmr
  BY <1>1, <1>5, TerminatorKeeps
<1>6. CASE TerminatorConfirmed
  BY <1>1, <1>6, HangtimeKeeps DEF TerminatorConfirmed
<1>7. CASE UNCHANGED <<state, tmr>> /\ Silent
  BY <1>1, <1>7, QuietKeeps
<1> QED BY <1>2, <1>3, <1>4, <1>5, <1>6, <1>7 DEF TxConf

----------------------------------------------------------------------------
(* Reception.                                                              *)

LEMMA SyntheticKeeps ==
  ASSUME CoreInv, NEW e, SyntheticEvent(e)
  PROVE  Keeps
<1>1. CASE UNCHANGED <<state, call, tmr>> /\ Silent
  BY <1>1, QuietKeeps DEF CoreInv, CoreTypes
<1>2. CASE CallEnds /\ Silent
  <2>1. tmr' \in [Timers -> Timer]
    BY <1>2, TimersTyped, TimersNamed DEF CallEnds, CoreInv, CoreTypes
  <2> QED BY <1>2, <2>1, ToIdleKeeps DEF CallEnds
<1>3. CASE Ignored
  BY <1>3, IgnoredKeeps
<1> QED BY <1>1, <1>2, <1>3 DEF SyntheticEvent

LEMMA BurstAKeeps == CoreInv /\ BurstA => Keeps
<1> SUFFICES ASSUME CoreInv, BurstA PROVE Keeps
  OBVIOUS
<1>1. call' \in Callees /\ tmr' = tmr /\ tmr' \in [Timers -> Timer] /\ Silent
  BY DEF BurstA, CoreInv, CoreTypes
<1>2. state' = state \/ state' = "LATE_ENTRY"
  BY DEF BurstA
<1>3. state' \in States
  BY <1>2, StatesApart DEF CoreInv, CoreTypes
<1> QED BY <1>1, <1>2, <1>3, StatesApart, QuietKeeps

\* Receptions that begin.
LEMMA ReceivingKeeps ==
  ASSUME CoreInv, Silent, state' \in Receiving, call' \in Ours, UNCHANGED tmr
  PROVE  Keeps
<1>1. call' \in Callees /\ tmr' \in [Timers -> Timer]
  BY CallsAssumption DEF Callees, CoreInv, CoreTypes
<1> QED BY <1>1, StatesApart, QuietKeeps DEF Receiving

LEMMA BurstBtoFKeeps ==
  ASSUME CoreInv, NEW b, BurstBtoF(b)
  PROVE  Keeps
<1>1. CASE Ignored
  BY <1>1, IgnoredKeeps
<1>2. CASE EmbeddedLc(b.call) /\ state \in Receiving /\ UNCHANGED tmr /\ Silent
  <2>1. CASE b.call \in Ours /\ call' = b.call /\ state' \in {"RECEIVING", state}
    BY <1>2, <2>1, ReceivingKeeps DEF Receiving
  <2>2. CASE state' = "IDLE" /\ UNCHANGED call
    BY <1>2, <2>2, StatesApart, QuietKeeps DEF CoreInv, CoreTypes
  <2>3. CASE UNCHANGED <<state, call>>
    BY <1>2, <2>3, QuietKeeps DEF CoreInv, CoreTypes
  <2> QED BY <1>2, <2>1, <2>2, <2>3 DEF EmbeddedLc
<1> QED BY <1>1, <1>2 DEF BurstBtoF

LEMMA LcHeaderKeeps ==
  ASSUME CoreInv, NEW c, LcHeader(c)
  PROVE  Keeps
  BY ReceivingKeeps, IgnoredKeeps DEF LcHeader, Receiving

LEMMA VoiceTerminatorKeeps ==
  ASSUME CoreInv, NEW c, Terminator(c)
  PROVE  Keeps
<1>1. CASE Ignored
  BY <1>1, IgnoredKeeps
<1>2. CASE HangtimeStarts /\ UNCHANGED call /\ Silent
  BY <1>2, HangtimeKeeps DEF CoreInv, CoreTypes
<1> QED BY <1>1, <1>2 DEF Terminator

LEMMA CsbkKeeps ==
  ASSUME CoreInv, NEW b, Csbk(b)
  PROVE  Keeps
<1>1. CASE SubmitCsbk /\ UNCHANGED <<sfIdx, tmr>>
           /\ \/ call' \in Ours /\ state' = "RECEIVING"
              \/ UNCHANGED <<state, call>>
  <2>1. /\ mac' \in 0..MacRoom /\ refused' \in BOOLEAN
        /\ UNCHANGED <<sfIdx, built, tail>>
    BY <1>1, SubmitTypes DEF SubmitCsbk
  <2>2. call' \in Callees /\ state' \in States /\ tmr' \in [Timers -> Timer]
    BY <1>1, CallsAssumption, StatesApart DEF Callees, CoreInv, CoreTypes
  <2>3. WaitsWatched'
    BY <1>1 DEF CoreInv, WaitsWatched, Live
  <2> QED BY <1>1, <2>1, <2>2, <2>3, StatesApart, SilentKeeps
<1>2. CASE /\ tmr' = Disarm(tmr, "answer")
           /\ \/ state' = "TX_LC_HEADER" /\ TxLcHeader /\ UNCHANGED call
              \/ ToIdle /\ Silent
  <2>1. tmr' \in [Timers -> Timer] /\ call \in Callees
    BY <1>2, TimersTyped, TimersNamed DEF CoreInv, CoreTypes
  <2> QED BY <1>2, <2>1, HeaderKeeps, ToIdleKeeps
<1>3. CASE Ignored
  BY <1>3, IgnoredKeeps
<1> QED BY <1>1, <1>2, <1>3 DEF Csbk

LEMMA RouteKeeps ==
  ASSUME CoreInv, NEW b, RouteRxBurst(b)
  PROVE  Keeps
  BY SyntheticKeeps, BurstAKeeps, BurstBtoFKeeps, LcHeaderKeeps,
     VoiceTerminatorKeeps, CsbkKeeps
  DEF RouteRxBurst

LEMMA RouteTypes ==
  ASSUME LoopTypes, NEW b, RouteRxBurst(b)
  PROVE  missedFrame' \in BOOLEAN
<1>1. missedFrame \in BOOLEAN
  BY DEF LoopTypes
<1>2. ASSUME NEW e, SyntheticEvent(e) PROVE missedFrame' \in BOOLEAN
  BY <1>1, <1>2 DEF SyntheticEvent, Ignored
<1>3. ASSUME Csbk(b) PROVE missedFrame' \in BOOLEAN
  BY <1>1, <1>3 DEF Csbk, Ignored
<1>4. ASSUME BurstBtoF(b) PROVE missedFrame' \in BOOLEAN
  BY <1>1, <1>4 DEF BurstBtoF, Ignored
<1>5. ASSUME NEW c, LcHeader(c) \/ Terminator(c) PROVE missedFrame' \in BOOLEAN
  BY <1>1, <1>5 DEF LcHeader, Terminator, Ignored
<1> QED BY <1>2, <1>3, <1>4, <1>5 DEF RouteRxBurst, BurstA

----------------------------------------------------------------------------
(* The worker's loop and its surroundings.                                 *)

LEMMA QueueRead ==
  ASSUME NEW S, NEW q \in Seq(S), q # <<>>
  PROVE  /\ Head(q) \in S /\ Tail(q) \in Seq(S)
         /\ Len(q) \in Nat /\ Len(Tail(q)) = Len(q) - 1
  OBVIOUS

LEMMA QueueGrows ==
  ASSUME NEW S, NEW q \in Seq(S), NEW e \in S, Len(q) < QDepth
  PROVE  Append(q, e) \in Seq(S) /\ Len(Append(q, e)) <= QDepth
  BY Bounds

\* Steps outside the controller.
LEMMA OutsideKeeps ==
  ASSUME CoreInv, UNCHANGED <<cclVars, txVars>>
  PROVE  Keeps
  BY DEF CoreInv, CoreTypes, WaitsWatched, Live, Following, Tails, Keeps, Fits,
     cclVars, txVars

\* What a descriptor of the worker's needs to show.
Step == IInv' /\ Fits

LEMMA PartsStep == Keeps /\ LoopTypes' => Step
  BY InvParts DEF Step, Keeps, IInv, TypeOK, CoreInv, CoreTypes, LoopTypes,
     Callees, Timer

LEMMA EpollWaitKeeps == IInv /\ EpollWait => Step
<1> SUFFICES ASSUME IInv, EpollWait PROVE Step
  OBVIOUS
<1>1. batch' \subseteq Timers \cup Queues
  BY DEF EpollWait, Ready, Queues
<1>2. LoopTypes'
  BY <1>1, InvParts DEF EpollWait, LoopTypes, cclVars, appVars
<1> QED BY <1>2, InvParts, OutsideKeeps, PartsStep DEF EpollWait

LEMMA TimerReadyKeeps ==
  ASSUME IInv, NEW t \in Timers, TimerReady(t)
  PROVE  Step
<1>1. CoreInv /\ LoopTypes
  BY InvParts
<1>2. tmr' \in [Timers -> Timer]
  BY <1>1, TimersTyped DEF TimerReady, CoreInv, CoreTypes
<1>3. LoopTypes'
  BY <1>1 DEF TimerReady, LoopTypes, appVars
<1> QED BY <1>1, <1>2, <1>3, ToIdleKeeps, PartsStep DEF TimerReady

LEMMA EvtReadyKeeps == IInv /\ EvtReady => Step
<1> SUFFICES ASSUME IInv, EvtReady PROVE Step
  OBVIOUS
<1>1. CoreInv /\ LoopTypes
  BY InvParts
<1>2. /\ Tail(evtQ) \in Seq(Presses \cup {"release"})
      /\ Len(evtQ) \in Nat /\ Len(Tail(evtQ)) = Len(evtQ) - 1
  BY <1>1, QueueRead DEF EvtReady, LoopTypes
<1>3. LoopTypes'
  BY <1>1, <1>2, Bounds DEF EvtReady, Emptying, LoopTypes, Queues, appVars
<1>4. Keeps
  BY <1>1, PttPressKeeps, PttReleaseKeeps DEF EvtReady
<1> QED BY <1>3, <1>4, PartsStep

LEMMA ConfReadyKeeps == IInv /\ ConfReady => Step
<1> SUFFICES ASSUME IInv, ConfReady PROVE Step
  OBVIOUS
<1>1. CoreInv /\ LoopTypes
  BY InvParts
<1>2. /\ Tail(confQ) \in Seq({"OK", "ABORTED"})
      /\ Len(confQ) \in Nat /\ Len(Tail(confQ)) = Len(confQ) - 1
  BY <1>1, QueueRead DEF ConfReady, LoopTypes
<1>3. LoopTypes'
  BY <1>1, <1>2, Bounds DEF ConfReady, Emptying, LoopTypes, Queues, appVars
<1>4. ASSUME TxConf PROVE Keeps
  BY <1>1, <1>4, TxConfKeeps
<1>5. ASSUME TxAborted PROVE Keeps
  <2>1. tmr' \in [Timers -> Timer]
    BY <1>1, <1>5 DEF TxAborted, CoreInv, CoreTypes
  <2> QED BY <1>1, <1>5, <2>1, ToIdleKeeps DEF TxAborted
<1> QED BY <1>3, <1>4, <1>5, PartsStep DEF ConfReady

LEMMA RxReadyKeeps ==
  ASSUME IInv, NEW b, RxReady(b)
  PROVE  Step
<1>1. CoreInv /\ LoopTypes
  BY InvParts
<1>2. missedFrame' \in BOOLEAN
  BY <1>1, RouteTypes DEF RxReady
<1>3. LoopTypes'
  BY <1>1, <1>2, Bounds DEF RxReady, Emptying, LoopTypes, Queues, appVars
<1>4. Keeps
  BY <1>1, RouteKeeps DEF RxReady
<1> QED BY <1>3, <1>4, PartsStep

LEMMA QueueEmptyKeeps ==
  ASSUME IInv, NEW q, NEW left, QueueEmpty(q, left)
  PROVE  Step
<1>1. LoopTypes'
  BY InvParts DEF QueueEmpty, LoopTypes, cclVars, appVars
<1> QED BY <1>1, InvParts, OutsideKeeps, PartsStep DEF QueueEmpty

LEMMA CclStepKeeps == IInv /\ CclStep => Step
  BY EpollWaitKeeps, TimerReadyKeeps, EvtReadyKeeps, ConfReadyKeeps,
     RxReadyKeeps, QueueEmptyKeeps
  DEF CclStep

LEMMA KeyKeeps ==
  ASSUME IInv, NEW e \in Presses \cup {"release"}, Len(evtQ) < QDepth,
         evtQ' = Append(evtQ, e), held' \in BOOLEAN, presses' \in 0..MaxPress,
         UNCHANGED <<cclVars, loopVars, confQ, rxN, txVars>>
  PROVE  Step
<1>1. CoreInv /\ LoopTypes
  BY InvParts
<1>2. evtQ' \in Seq(Presses \cup {"release"}) /\ Len(evtQ') <= QDepth
  BY <1>1, QueueGrows DEF LoopTypes
<1>3. LoopTypes'
  BY <1>1, <1>2 DEF LoopTypes, loopVars, cclVars
<1> QED BY <1>1, <1>3, OutsideKeeps, PartsStep

LEMMA UserKeeps ==
  ASSUME IInv, Release \/ \E c \in Presses : Press(c)
  PROVE  Step
<1>1. presses \in 0..MaxPress
  BY DEF IInv, TypeOK
<1>2. CASE Release
  BY <1>1, <1>2, KeyKeeps DEF Release
<1>3. ASSUME NEW c \in Presses, Press(c) PROVE Step
  <2>1. presses' \in 0..MaxPress /\ held' \in BOOLEAN
    BY <1>1, <1>3, Bounds DEF Press
  <2> QED BY <1>3, <2>1, KeyKeeps DEF Press
<1> QED BY <1>2, <1>3

LEMMA ExpireKeeps ==
  ASSUME IInv, NEW t \in Timers, Expire(t)
  PROVE  Step
<1>1. CoreInv /\ LoopTypes
  BY InvParts
<1>2. tmr' \in [Timers -> Timer]
  BY <1>1, TimersTyped DEF Expire, CoreInv, CoreTypes
<1>3. \A u \in Timers : Live(u) => Live(u)'
  BY <1>1 DEF Expire, Expired, Live, CoreInv, CoreTypes, Timer
<1>4. WaitsWatched'
  BY <1>1, <1>3, TimersNamed DEF Expire, CoreInv, WaitsWatched
<1>5. Keeps
  BY <1>1, <1>2, <1>4, SilentKeeps DEF Expire, txVars, CoreInv, CoreTypes
<1>6. LoopTypes'
  BY <1>1 DEF Expire, LoopTypes, loopVars, appVars
<1> QED BY <1>5, <1>6, PartsStep

\* What the MAC takes off its hands.
LEMMA MacKeeps ==
  ASSUME IInv, mac > 0, mac' = mac - 1, LoopTypes',
         UNCHANGED <<cclVars, refused, built, tail>>
  PROVE  Step
<1>1. CoreInv
  BY InvParts
<1>2. mac' \in 0..MacRoom
  BY <1>1, Bounds DEF CoreInv, CoreTypes
<1>3. WaitsWatched'
  BY <1>1 DEF CoreInv, WaitsWatched, Live, cclVars
<1>4. Keeps
  BY <1>1, <1>2, <1>3, SilentKeeps DEF cclVars, CoreInv, CoreTypes
<1> QED BY <1>4, PartsStep

LEMMA MacAnswersKeeps ==
  ASSUME IInv, NEW result \in {"OK", "ABORTED"}, MacAnswers(result)
  PROVE  Step
<1>1. LoopTypes
  BY InvParts
<1>2. confQ' \in Seq({"OK", "ABORTED"}) /\ Len(confQ') <= QDepth
  BY <1>1, QueueGrows DEF MacAnswers, LoopTypes
<1>3. LoopTypes'
  BY <1>1, <1>2 DEF MacAnswers, LoopTypes, loopVars, cclVars, appVars
<1> QED BY <1>3, MacKeeps DEF MacAnswers

LEMMA MacForgetsKeeps == IInv /\ MacForgets => Step
<1> SUFFICES ASSUME IInv, MacForgets PROVE Step
  OBVIOUS
<1>1. LoopTypes'
  BY InvParts DEF MacForgets, LoopTypes, loopVars, cclVars, appVars
<1>2. mac > 0
  BY DEF MacForgets, IInv, TypeOK
<1> QED BY <1>1, <1>2, MacKeeps DEF MacForgets

LEMMA MacDeliversKeeps == IInv /\ MacDelivers => Step
<1> SUFFICES ASSUME IInv, MacDelivers PROVE Step
  OBVIOUS
<1>1. LoopTypes'
  BY InvParts, Bounds DEF MacDelivers, LoopTypes, loopVars, cclVars, appVars
<1> QED BY <1>1, InvParts, OutsideKeeps, PartsStep DEF MacDelivers

----------------------------------------------------------------------------
(* The theorems.                                                           *)

LEMMA InitInv == Init => IInv
<1> SUFFICES ASSUME Init PROVE IInv
  OBVIOUS
<1>1. Off \in Timer
  BY DEF Off, Timer
<1>2. CoreTypes
  <2>1. tmr \in [Timers -> Timer] /\ call \in Callees /\ state \in States
    BY <1>1 DEF Init, States, Callees
  <2>2. 0 \in 0..SfLast /\ 0 \in 0..MacRoom /\ 0 \in 0..TailCap
    BY Bounds
  <2> QED BY <2>1, <2>2 DEF Init, CoreTypes
<1>3. LoopTypes
  <2>1. 0 \in 0..QDepth /\ 0 \in 0..MaxPress
    BY Bounds
  <2>2. evtQ \in Seq(Presses \cup {"release"}) /\ Len(evtQ) <= QDepth
    BY Bounds DEF Init
  <2>3. confQ \in Seq({"OK", "ABORTED"}) /\ Len(confQ) <= QDepth
    BY Bounds DEF Init
  <2> QED BY <2>1, <2>2, <2>3 DEF Init, LoopTypes
<1>4. TypeOK
  BY <1>2, <1>3 DEF TypeOK, CoreTypes, LoopTypes, Callees, Timer
<1> QED BY <1>4 DEF Init, IInv, WaitsWatched, Following, Tails

LEMMA NextStep == IInv /\ [Next]_vars => Step
<1> SUFFICES ASSUME IInv, [Next]_vars PROVE Step
  OBVIOUS
<1>1. CASE UNCHANGED vars
  <2>1. LoopTypes'
    BY <1>1, InvParts DEF vars, LoopTypes, loopVars, cclVars, appVars
  <2> QED BY <1>1, <2>1, InvParts, OutsideKeeps, PartsStep DEF vars
<1> QED BY <1>1, CclStepKeeps, UserKeeps, ExpireKeeps, MacAnswersKeeps,
           MacForgetsKeeps, MacDeliversKeeps
        DEF Next

LEMMA InvAlways == Spec => []IInv
<1>1. IInv /\ [Next]_vars => IInv'
  BY NextStep DEF Step
<1> QED BY <1>1, InitInv, PTL DEF Spec

\* Whatever is pressed, confirmed and heard, every variable of the controller
\* keeps its type; in particular sf_burst_idx is always a position of the
\* superframe, and no queue exceeds its depth.
THEOREM TypeCorrect == Spec => []TypeOK
<1>1. IInv => TypeOK
  BY DEF IInv
<1> QED BY <1>1, InvAlways, PTL

\* HANGTIME and UU_REQ_WAIT always have their timer running, expired or
\* unread, whatever stale expiries of the same epoll snapshot did.
THEOREM WaitsAlwaysWatched == Spec => []WaitsWatched
<1>1. IInv => WaitsWatched
  BY DEF IInv
<1> QED BY <1>1, InvAlways, PTL

\* After the key is released no more than one superframe of any length is
\* still sent (CCL_STATE_TX_TERMINATOR_ONCE_SF_FINISHED).
THEOREM TailAlwaysBounded == Spec => []TailBounded
<1>1. IInv => TailBounded
  BY Bounds DEF IInv, TypeOK, Tails, TailBounded, Ending
<1> QED BY <1>1, InvAlways, PTL

\* Bursts are built in the order of the superframe and a terminator only after
\* the header or a whole superframe, although confirmations are not matched to
\* bursts (ccl_dispatch_event(), ccl_voice_tx_next_burst()).
THEOREM SuperframesAlwaysWhole == Spec => SuperframesWhole
<1>1. IInv /\ [Next]_vars => [built' # built => MayFollow(built')]_vars
  BY NextStep DEF Step, Fits
<1> QED BY <1>1, InvAlways, PTL DEF Spec, SuperframesWhole

=============================================================================
