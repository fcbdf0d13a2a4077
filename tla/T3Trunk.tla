------------------------------- MODULE T3Trunk -------------------------------
(***************************************************************************)
(* The Tier III trunking client (dmr_t3_trunk.c): random access, the wait  *)
(* for a grant, the back-off between attempts, and the two kinds of thread *)
(* that meet under state_mutex: the worker, which serves an epoll snapshot *)
(* of two timers and two queues, and application threads that request and  *)
(* cancel.                                                                 *)
(*                                                                         *)
(* Lock, body and the callbacks after unlocking are steps of their own.    *)
(* The bodies of the critical sections are single steps, so where two      *)
(* threads are inside at once (MutualExclusion fails) the races between    *)
(* their bodies are not explored further.                                  *)
(*                                                                         *)
(* A running timer may expire at any moment: no property here depends on   *)
(* how long the two waits are.  The MAC is what MacTxService leaves of it: *)
(* a submitted burst is confirmed, refused, or never answered.             *)
(***************************************************************************)
EXTENDS Integers, Sequences, FiniteSets, OneShotTimer

CONSTANTS
  Apps,          \* application threads
  Dsts,          \* destinations
  Wants,         \* Wants[a]: the destinations application thread a asks for
  MaxAttempts,   \* T3_RAND_MAX_ATTEMPTS
  QDepth,        \* DMR_MQ_MAX_MSGS
  MaxReq,        \* bound: calls of t3_trunk_request_channel()
  MaxCancels,    \* bound: calls of t3_trunk_cancel()
  MaxGrants      \* bound: grants the base station sends

ASSUME ThreadsAssumption == "worker" \notin Apps /\ "free" \notin Apps
ASSUME WantsAssumption == Dsts # {} /\ Wants \in [Apps -> SUBSET Dsts]
ASSUME TrunkBounds ==
  /\ MaxAttempts \in Nat \ {0} /\ QDepth \in Nat \ {0}
  /\ MaxReq \in Nat /\ MaxCancels \in Nat /\ MaxGrants \in Nat

VARIABLES
  state, req,      \* ctx->state, ctx->req
  txNext,          \* tx_req_id_next
  tmr,             \* tmr_holdoff, tmr_grantwait
  mutex,           \* state_mutex: who has it, or "free"
  pc, job,         \* where each thread is, and in which call or event
  note,            \* the verdict a thread is about to report
  batch, queue,    \* rest of the epoll snapshot; the queue being emptied
  confQ, rxQ,      \* mq_mac_conf, mq_mac_rx
  mac,             \* bursts the MAC has not answered
  asked, cancels, grants,   \* bounded counters
  \* history
  cur,             \* requests accepted so far
  sent,            \* C_RANDs queued for each request
  verdict, told    \* as in TrunkService

ctxVars  == <<state, req, txNext, tmr>>
envVars  == <<confQ, rxQ, mac>>
histVars == <<cur, sent, verdict, told>>
callVars == <<asked, cancels, grants>>
vars == <<ctxVars, mutex, pc, job, note, batch, queue, envVars, callVars,
          histVars>>

Threads == Apps \cup {"worker"}
Timers  == {"holdoff", "grantwait"}
States  == {"IDLE", "HOLDOFF", "GRANT_WAIT"}
Reqs    == 1..MaxReq
TxIds   == 0..(MaxReq * MaxAttempts)
Grant   == [dst : Dsts]
TxConf  == [id : TxIds, ok : BOOLEAN]
Jobs    == [op : {"none", "cancel", "holdoff", "grantwait"}]
             \cup [op : {"request"}, dst : Dsts]
             \cup [op : {"conf"}, msg : TxConf]
             \cup [op : {"rx"}, msg : Grant]
Verdicts == {"OK", "TIMEOUT", "TX_FAILED", "ABORTED"}

Live(t) == tmr[t].kern # "off"

----------------------------------------------------------------------------
(* Ways out of a critical section.  pthread_mutex_unlock() of the default  *)
(* mutex frees it whoever has it.                                          *)

NoJob  == [op |-> "none"]
NoNote == [req |-> 0, again |-> FALSE]

Leave(th) ==
  /\ mutex' = "free"
  /\ pc' = [pc EXCEPT ![th] = "idle"]
  /\ job' = [job EXCEPT ![th] = NoJob]
  /\ UNCHANGED note

\* Unlock and go on to report verdict v of request r; again: the caller will
\* unlock a second time when the report is done.
LeaveToTell(th, r, v, again) ==
  /\ mutex' = "free"
  /\ pc' = [pc EXCEPT ![th] = "tell"]
  /\ job' = [job EXCEPT ![th] = NoJob]
  /\ note' = [note EXCEPT ![th] = [req |-> r, again |-> again]]
  /\ verdict' = [verdict EXCEPT ![r] = v]

Closed == [req EXCEPT !.active = FALSE]
BothDisarmed == Disarm(Disarm(tmr, "grantwait"), "holdoff")

\* Faulty: the request stays active.
FinishLockedOpen(v, again) ==
  /\ tmr' = BothDisarmed
  /\ state' = "IDLE"
  /\ LeaveToTell("worker", cur, v, again)
  /\ UNCHANGED <<req, txNext, mac, sent>>

\* t3_trunk_finish_locked()
FinishLocked(v, again) ==
  /\ tmr' = BothDisarmed
  /\ req' = Closed
  /\ state' = "IDLE"
  /\ LeaveToTell("worker", cur, v, again)
  /\ UNCHANGED <<txNext, mac, sent>>

RetryWith(tm) ==
  /\ req' = [req EXCEPT !.attempt = @ + 1]
  /\ state' = "HOLDOFF"
  /\ tmr' = tm
  /\ Leave("worker")
  /\ UNCHANGED <<txNext, mac, sent, verdict>>

\* Faulty: the last attempt is not counted; no back-off is started.
RetryOrFailLate ==
  \/ /\ req.attempt >= MaxAttempts
     /\ FinishLocked("TIMEOUT", TRUE)
  \/ /\ req.attempt < MaxAttempts
     /\ RetryWith(Arm(tmr, "holdoff", 0))
RetryOrFailUntimed ==
  \/ /\ req.attempt + 1 >= MaxAttempts
     /\ FinishLocked("TIMEOUT", TRUE)
  \/ /\ req.attempt + 1 < MaxAttempts
     /\ RetryWith(tmr)

\* t3_trunk_retry_or_fail_locked() and the unlock of both its callers.
RetryOrFail ==
  \/ /\ req.attempt + 1 >= MaxAttempts
     /\ FinishLocked("TIMEOUT", TRUE)
  \/ /\ req.attempt + 1 < MaxAttempts
     /\ RetryWith(Arm(tmr, "holdoff", 0))

\* t3_trunk_submit_rand_access() for request r, as far as the queue has room.
SubmitRandAccess(r) ==
  /\ mac' = mac \cup {txNext}
  /\ txNext' = txNext + 1
  /\ sent' = [sent EXCEPT ![r] = @ + 1]

\* The queue is full: the id is used up all the same.
SubmitFails == txNext' = txNext + 1 /\ UNCHANGED <<mac, sent>>

Inside(th, op) == pc[th] = "inside" /\ job[th].op = op

----------------------------------------------------------------------------
(* The application's calls.                                                *)

\* t3_trunk_request_channel()
RequestBody(a) ==
  /\ Inside(a, "request")
  /\ \/ /\ req.active                              \* DMR_ERR_BUSY
        /\ Leave(a)
        /\ UNCHANGED <<ctxVars, mac, cur, sent, verdict>>
     \/ /\ ~req.active
        /\ cur' = cur + 1
        /\ SubmitRandAccess(cur + 1)
        /\ req' = [active |-> TRUE, dst |-> job[a].dst, attempt |-> 0,
                   randId |-> txNext]
        /\ state' = "GRANT_WAIT"
        /\ tmr' = Arm(tmr, "grantwait", 0)
        /\ Leave(a)
        /\ UNCHANGED verdict
     \/ /\ ~req.active
        /\ cur' = cur + 1
        /\ SubmitFails
        /\ req' = [active |-> FALSE, dst |-> job[a].dst, attempt |-> 0,
                   randId |-> 0]
        /\ LeaveToTell(a, cur + 1, "TX_FAILED", FALSE)
        /\ UNCHANGED <<state, tmr>>
  /\ UNCHANGED <<batch, queue, confQ, rxQ, callVars, told>>

\* t3_trunk_cancel()
CancelBody(a) ==
  /\ Inside(a, "cancel")
  /\ \/ /\ ~req.active
        /\ Leave(a)
        /\ UNCHANGED <<ctxVars, verdict>>
     \/ /\ req.active
        /\ tmr' = BothDisarmed
        /\ req' = Closed
        /\ state' = "IDLE"
        /\ LeaveToTell(a, cur, "ABORTED", FALSE)
        /\ UNCHANGED txNext
  /\ UNCHANGED <<batch, queue, envVars, callVars, cur, sent, told>>

Begin(th, j) ==
  /\ pc[th] = "idle"
  /\ pc' = [pc EXCEPT ![th] = "lock"]
  /\ job' = [job EXCEPT ![th] = j]

CallRequest(a, dst) ==
  /\ asked < MaxReq
  /\ asked' = asked + 1
  /\ Begin(a, [op |-> "request", dst |-> dst])
  /\ UNCHANGED <<ctxVars, mutex, note, batch, queue, envVars, cancels, grants,
                 histVars>>

CallCancel(a) ==
  /\ cancels < MaxCancels
  /\ cancels' = cancels + 1
  /\ Begin(a, [op |-> "cancel"])
  /\ UNCHANGED <<ctxVars, mutex, note, batch, queue, envVars, asked, grants,
                 histVars>>

----------------------------------------------------------------------------
(* Any thread.                                                             *)

Lock(th) ==
  /\ pc[th] = "lock"
  /\ mutex = "free"
  /\ mutex' = th
  /\ pc' = [pc EXCEPT ![th] = "inside"]
  /\ UNCHANGED <<ctxVars, job, note, batch, queue, envVars, callVars, histVars>>

\* on_channel_switch() where the verdict is a grant, then on_grant_result().
Tell(th) ==
  /\ pc[th] = "tell"
  /\ told' = [told EXCEPT ![note[th].req] = @ + 1]
  /\ pc' = [pc EXCEPT ![th] = IF note[th].again THEN "unlock" ELSE "idle"]
  /\ note' = [note EXCEPT ![th] = NoNote]
  /\ UNCHANGED <<ctxVars, mutex, job, batch, queue, envVars, callVars,
                 cur, sent, verdict>>

\* The second unlock, after t3_trunk_retry_or_fail_locked() has failed the
\* request.
UnlockAgain(th) ==
  /\ pc[th] = "unlock"
  /\ mutex' = "free"
  /\ pc' = [pc EXCEPT ![th] = "idle"]
  /\ UNCHANGED <<ctxVars, job, note, batch, queue, envVars, callVars, histVars>>

----------------------------------------------------------------------------
(* The worker.                                                             *)

Ready ==
  {t \in Timers : tmr[t].kern = "expired"}
    \cup (IF confQ # <<>> THEN {"conf"} ELSE {})
    \cup (IF rxQ   # <<>> THEN {"rx"}   ELSE {})

EpollWait ==
  /\ pc["worker"] = "idle"
  /\ batch = {}
  /\ Ready # {}
  /\ batch' = Ready
  /\ UNCHANGED <<ctxVars, mutex, pc, job, note, queue, envVars, callVars,
                 histVars>>

TimerReady(t) ==
  /\ queue = "none"
  /\ t \in batch
  /\ batch' = batch \ {t}
  /\ tmr' = Drain(tmr, t)
  /\ Begin("worker", [op |-> t])
  /\ UNCHANGED <<state, req, txNext, mutex, note, queue, envVars, callVars,
                 histVars>>

\* A queue is emptied before the next descriptor is looked at.
MessageReady(q, msgs) ==
  /\ queue \in {"none", q}
  /\ q \in batch
  /\ msgs # <<>>
  /\ queue' = q
  /\ Begin("worker", [op |-> q, msg |-> Head(msgs)])
  /\ UNCHANGED <<ctxVars, mutex, note, batch, mac, callVars, histVars>>

ConfReady == MessageReady("conf", confQ) /\ confQ' = Tail(confQ) /\ UNCHANGED rxQ
RxReady   == MessageReady("rx", rxQ)     /\ rxQ' = Tail(rxQ) /\ UNCHANGED confQ

QueueEmpty(q, msgs) ==
  /\ pc["worker"] = "idle"
  /\ queue = q
  /\ msgs = <<>>
  /\ queue' = "none"
  /\ batch' = batch \ {q}
  /\ UNCHANGED <<ctxVars, mutex, pc, job, note, envVars, callVars, histVars>>

Ignore == Leave("worker") /\ UNCHANGED <<ctxVars, mac, sent, verdict>>
WorkerOnly == UNCHANGED <<batch, queue, confQ, rxQ, callVars, cur, told>>

\* t3_trunk_handle_tx_conf()
HandleTxConf ==
  /\ Inside("worker", "conf")
  /\ LET conf  == job["worker"].msg
         retry == req.active /\ conf.id = req.randId /\ ~conf.ok
     IN  \/ retry /\ RetryOrFail
         \/ ~retry /\ Ignore
  /\ WorkerOnly

\* Faulty: the wait is over, and the request is left where it is.
HandleGrantWaitDeaf == Inside("worker", "grantwait") /\ Ignore /\ WorkerOnly

\* t3_trunk_handle_grantwait_timeout()
HandleGrantWait ==
  /\ Inside("worker", "grantwait")
  /\ LET waiting == req.active /\ state = "GRANT_WAIT" IN
       \/ waiting /\ RetryOrFail
       \/ ~waiting /\ Ignore
  /\ WorkerOnly

\* t3_trunk_handle_holdoff_timeout()
HandleHoldoff ==
  /\ Inside("worker", "holdoff")
  /\ \/ /\ ~(req.active /\ state = "HOLDOFF")
        /\ Ignore
     \/ /\ req.active /\ state = "HOLDOFF"
        /\ SubmitRandAccess(cur)
        /\ req' = [req EXCEPT !.randId = txNext]
        /\ state' = "GRANT_WAIT"
        /\ tmr' = Arm(tmr, "grantwait", 0)
        /\ Leave("worker")
        /\ UNCHANGED verdict
     \/ /\ req.active /\ state = "HOLDOFF"
        /\ SubmitFails
        /\ tmr' = BothDisarmed
        /\ req' = Closed
        /\ state' = "IDLE"
        /\ LeaveToTell("worker", cur, "TX_FAILED", FALSE)
  /\ WorkerOnly

\* t3_trunk_rx_burst() for a grant that decodes; any other burst is dropped
\* before the lock is taken.
HandleGrant ==
  /\ Inside("worker", "rx")
  /\ LET ours == /\ req.active /\ state = "GRANT_WAIT"
                 /\ job["worker"].msg.dst = req.dst
     IN  \/ ours /\ FinishLocked("OK", FALSE)
         \/ ~ours /\ Ignore
  /\ WorkerOnly

WorkerStep ==
  \/ EpollWait \/ (\E t \in Timers : TimerReady(t))
  \/ ConfReady \/ RxReady \/ QueueEmpty("conf", confQ) \/ QueueEmpty("rx", rxQ)
  \/ Lock("worker") \/ Tell("worker") \/ UnlockAgain("worker")
  \/ HandleTxConf \/ HandleGrantWait \/ HandleHoldoff \/ HandleGrant

AppStep(a) == Lock(a) \/ RequestBody(a) \/ CancelBody(a) \/ Tell(a)

----------------------------------------------------------------------------
(* Kernel, MAC and base station.                                           *)

Expire(t) ==
  /\ Due(tmr, t)
  /\ tmr' = Expired(tmr, t)
  /\ UNCHANGED <<state, req, txNext, mutex, pc, job, note, batch, queue,
                 envVars, callVars, histVars>>

\* The MAC answers a burst; it may also never do so, when the burst was
\* replaced or the answer met a full queue.  An answer overtaken by that of a
\* later burst has no effect (its id is no longer rand_req_id) and is left out.
MacAnswers(id, ok) ==
  /\ id \in mac
  /\ Len(confQ) < QDepth
  /\ mac' = {other \in mac : other > id}
  /\ confQ' = Append(confQ, [id |-> id, ok |-> ok])
  /\ UNCHANGED <<ctxVars, mutex, pc, job, note, batch, queue, rxQ, callVars,
                 histVars>>

\* The base station grants a channel for dst to whoever asked for it.
GrantArrives(dst) ==
  /\ grants < MaxGrants
  /\ Len(rxQ) < QDepth
  /\ grants' = grants + 1
  /\ rxQ' = Append(rxQ, [dst |-> dst])
  /\ UNCHANGED <<ctxVars, mutex, pc, job, note, batch, queue, confQ, mac,
                 asked, cancels, histVars>>

----------------------------------------------------------------------------
Init ==
  /\ state = "IDLE"
  /\ req = [active |-> FALSE, dst |-> CHOOSE d \in Dsts : TRUE, attempt |-> 0,
            randId |-> 0]
  /\ txNext = 1
  /\ tmr = [t \in Timers |-> Off]
  /\ mutex = "free"
  /\ pc = [th \in Threads |-> "idle"]
  /\ job = [th \in Threads |-> NoJob]
  /\ note = [th \in Threads |-> NoNote]
  /\ batch = {} /\ queue = "none"
  /\ confQ = <<>> /\ rxQ = <<>> /\ mac = {}
  /\ asked = 0 /\ cancels = 0 /\ grants = 0
  /\ cur = 0
  /\ sent = [r \in Reqs |-> 0]
  /\ verdict = [r \in Reqs |-> "none"]
  /\ told = [r \in Reqs |-> 0]

Next ==
  \/ WorkerStep
  \/ \E a \in Apps :
       AppStep(a) \/ CallCancel(a) \/ \E dst \in Wants[a] : CallRequest(a, dst)
  \/ \E t \in Timers : Expire(t)
  \/ \E id \in mac, ok \in BOOLEAN : MacAnswers(id, ok)
  \/ \E dst \in Dsts : GrantArrives(dst)

Spec == Init /\ [][Next]_vars

\* Threads run and timers expire; nothing is assumed of the MAC, the base
\* station or the application's next call.
Fairness ==
  /\ WF_vars(WorkerStep)
  /\ \A a \in Apps : WF_vars(AppStep(a))
  /\ \A t \in Timers : WF_vars(Expire(t))

LiveSpec == Spec /\ Fairness

----------------------------------------------------------------------------
(* Properties.                                                             *)

TypeOK ==
  /\ state \in States
  /\ req \in [active : BOOLEAN, dst : Dsts, attempt : 0..(MaxAttempts - 1),
              randId : TxIds]
  /\ txNext \in 1..(MaxReq * MaxAttempts + 1)
  /\ tmr \in [Timers -> [kern : {"off", "running", "expired"}, left : {0},
                         armed : BOOLEAN]]
  /\ mutex \in Threads \cup {"free"}
  /\ pc \in [Threads -> {"idle", "lock", "inside", "tell", "unlock"}]
  /\ job \in [Threads -> Jobs]
  /\ note \in [Threads -> [req : 0..MaxReq, again : BOOLEAN]]
  /\ batch \subseteq Timers \cup {"conf", "rx"}
  /\ queue \in {"none", "conf", "rx"}
  /\ confQ \in Seq(TxConf) /\ Len(confQ) <= QDepth
  /\ rxQ \in Seq(Grant) /\ Len(rxQ) <= QDepth
  /\ mac \subseteq TxIds
  /\ cur \in 0..MaxReq /\ asked \in 0..MaxReq
  /\ cancels \in 0..MaxCancels /\ grants \in 0..MaxGrants
  /\ sent \in [Reqs -> Nat]
  /\ verdict \in [Reqs -> Verdicts \cup {"none"}]
  /\ told \in [Reqs -> Nat]

Handling(t) == job["worker"].op = t /\ pc["worker"] \in {"lock", "inside"}

\* An open request always has the timer of its state running, expired, or in
\* the worker's hands, whatever cancel and request do between the worker's
\* reading the timer and taking the lock (tmr_grantwait, tmr_holdoff).
OpenWatched ==
  req.active =>
    \/ state = "GRANT_WAIT" /\ (Live("grantwait") \/ Handling("grantwait"))
    \/ state = "HOLDOFF" /\ (Live("holdoff") \/ Handling("holdoff"))

\* No request is transmitted more often than T3_RAND_MAX_ATTEMPTS, and the
\* open one no more often than the attempt counter says.
AttemptsBounded ==
  /\ \A r \in Reqs : sent[r] <= MaxAttempts
  /\ req.active => sent[cur] <= req.attempt + 1

\* state_mutex does what it is for. The code refutes it: README, section 7.
MutualExclusion ==
  \A th, other \in Threads :
    pc[th] = "inside" /\ pc[other] = "inside" => th = other

Service == INSTANCE TrunkService WITH
             accepted <- cur, open <- IF req.active THEN cur ELSE 0

\* Whatever races between cancel, grant, time-out and a failed transmission:
\* one open request, one verdict, one report.
ImplementsService == Service!Spec

\* No request stays open for ever, whatever the MAC and the base station do.
RequestsEnd == req.active ~> ~req.active
=============================================================================
