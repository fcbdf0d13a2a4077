----------------------------- MODULE VoicePath ------------------------------
(***************************************************************************)
(* Voice reception end to end: the MAC's tracker (MacVoiceRx) puts bursts  *)
(* and events on mq_rx_voice, from which voice call control (CclVoice)     *)
(* takes them as its mq_mac_rx.  The rest of the two threads interleaves   *)
(* freely; only the shared queue is changed by both.                       *)
(***************************************************************************)
EXTENDS Integers, Sequences

CONSTANTS Tier3, Calls, Air, MinGap, QDepth, Guard, SfGuard, Hangover,
          MaxMissed, Ours, MineGroup, MineUnit, Frames, Presses, MaxPress,
          MacRoom, HasCallStart

VARIABLES
  voiceQ,                                          \* mq_rx_voice, shared
  macState, pos, missed, age, macTmr, macBatch, phyRx, gap, lostRun,
  state, call, sfIdx, missedFrame, tmr, batch, queue, evtQ, confQ, mac,
  presses, held, refused, built, tail

Mac == INSTANCE MacVoiceRx WITH state <- macState, tmr <- macTmr, batch <- macBatch
Ccl == INSTANCE CclVoice WITH
         rxN <- Len(voiceQ), MacOut <- Air \cup Mac!Events

macVars == <<macState, pos, missed, age, macTmr, macBatch, phyRx, gap, lostRun>>
cclVars == <<state, call, sfIdx, missedFrame, tmr, batch, queue, evtQ, confQ, mac,
             presses, held, refused, built, tail>>
vars == <<voiceQ, macVars, cclVars>>

\* The MAC, its timers, the air and time.
MacSide ==
  /\ \/ Mac!MacStep \/ Mac!Tick
     \/ \E t \in Mac!Timers : Mac!Expire(t)
     \/ \E b \in Air : Mac!BurstHeard(b)
  /\ UNCHANGED cclVars

\* Call control takes the first message of the shared queue.
Receive ==
  /\ voiceQ # <<>>
  /\ voiceQ' = Tail(voiceQ)
  /\ Ccl!RxReady(Head(voiceQ))
  /\ UNCHANGED macVars

\* The other steps of call control, its user and the transmitting MAC.
Elsewhere ==
  \/ Ccl!EpollWait \/ (\E t \in Ccl!Timers : Ccl!TimerReady(t) \/ Ccl!Expire(t))
  \/ Ccl!EvtReady \/ Ccl!ConfReady
  \/ Ccl!QueueEmpty("evt", Len(evtQ)) \/ Ccl!QueueEmpty("conf", Len(confQ))
  \/ Ccl!QueueEmpty("rx", Len(voiceQ))
  \/ (\E c \in Presses : Ccl!Press(c)) \/ Ccl!Release
  \/ (\E result \in {"OK", "ABORTED"} : Ccl!MacAnswers(result)) \/ Ccl!MacForgets
CclSide == UNCHANGED <<voiceQ, macVars>> /\ Elsewhere

Init == Mac!Init /\ Ccl!Init
Next == MacSide \/ Receive \/ CclSide

\* Both threads run, time passes and timers expire.
Fairness ==
  /\ WF_vars(Mac!MacStep /\ UNCHANGED cclVars)
  /\ WF_vars(Mac!Tick /\ UNCHANGED cclVars)
  /\ WF_vars((\E t \in Mac!Timers : Mac!Expire(t)) /\ UNCHANGED cclVars)
  /\ WF_vars(Receive)
  /\ WF_vars(CclSide)

LiveSpec == Init /\ [][Next]_vars /\ Fairness

----------------------------------------------------------------------------
\* Once the air is silent, and unless mq_rx_voice was ever full, no
\* reception goes on for ever: the terminator, the event by which the MAC
\* confirms it (dmr_ccl_voice.c:983-988) or its watchdogs have ended it, a
\* late entry included.
ReceptionEnds ==
  (<>[](gap = MinGap /\ phyRx = <<>>) /\ [](Len(voiceQ) < QDepth))
    => []<>(state \notin Ccl!Receiving)
=============================================================================
