--------------------------- MODULE T3TrunkProofs ----------------------------
(***************************************************************************)
(* Theorems about the Tier III trunking client for any number of           *)
(* application threads, destinations, attempts, requests and grants.       *)
(*                                                                         *)
(* None of the properties is inductive. That the counters stay in their    *)
(* types needs an account of what was spent: requests by the calls still   *)
(* under way (CallsCounted), request numbers and transmissions by the      *)
(* attempts of the open request (IdsCounted, SentCounted). That the client *)
(* implements TrunkService needs to know who still has what to report      *)
(* (Reports).                                                              *)
(***************************************************************************)
EXTENDS T3Trunk, FiniteSetTheorems, TLAPS

Timer == [kern : {"off", "running", "expired"}, left : {0}, armed : BOOLEAN]

\* The type invariant by who writes what.
ContextTypes ==
  /\ state \in States
  /\ req \in [active : BOOLEAN, dst : Dsts, attempt : 0..(MaxAttempts - 1),
              randId : TxIds]
  /\ tmr \in [Timers -> Timer]
ThreadTypes ==
  /\ mutex \in Threads \cup {"free"}
  /\ pc \in [Threads -> {"idle", "lock", "inside", "tell", "unlock"}]
  /\ job \in [Threads -> Jobs]
  /\ note \in [Threads -> [req : 0..MaxReq, again : BOOLEAN]]
BatchTypes ==
  /\ batch \subseteq Timers \cup {"conf", "rx"}
  /\ queue \in {"none", "conf", "rx"}
QueueTypes ==
  /\ confQ \in Seq(TxConf) /\ Len(confQ) <= QDepth
  /\ rxQ \in Seq(Grant) /\ Len(rxQ) <= QDepth
  /\ mac \subseteq TxIds
CountTypes ==
  /\ asked \in 0..MaxReq
  /\ cancels \in 0..MaxCancels /\ grants \in 0..MaxGrants
HistoryTypes ==
  /\ txNext \in Nat \ {0}
  /\ cur \in 0..MaxReq
  /\ sent \in [Reqs -> Nat]
  /\ verdict \in [Reqs -> Verdicts \cup {"none"}]
  /\ told \in [Reqs -> Nat]

\* Applications that have called t3_trunk_request_channel() and are not
\* through with its critical section.
Callers == {a \in Apps : pc[a] \in {"lock", "inside"} /\ job[a].op = "request"}
CallsCounted == IsFiniteSet(Callers) /\ cur + Cardinality(Callers) <= asked

\* A request is open exactly when the client is waiting for something.
Phase ==
  IF req.active THEN state \in {"GRANT_WAIT", "HOLDOFF"} /\ cur >= 1
                ELSE state = "IDLE"

\* Submissions made for the open request.
Spent == req.attempt + (IF state = "GRANT_WAIT" THEN 1 ELSE 0)

IdsCounted ==
  IF req.active THEN txNext <= (cur - 1) * MaxAttempts + Spent + 1
                ELSE txNext <= cur * MaxAttempts + 1

SentCounted ==
  /\ \A r \in Reqs : sent[r] <= MaxAttempts /\ (r > cur => sent[r] = 0)
  /\ req.active => sent[cur] <= Spent

Accounts == CallsCounted /\ Phase /\ IdsCounted /\ SentCounted

Types == /\ ContextTypes /\ ThreadTypes /\ BatchTypes /\ QueueTypes
         /\ CountTypes /\ HistoryTypes
IInv  == Types /\ Accounts

\* What is still to be reported, and by whom.
Reports ==
  /\ req.active => verdict[cur] = "none"
  /\ \A r \in Reqs : r > cur => verdict[r] = "none"
  /\ \A r \in Reqs : verdict[r] = "none" => told[r] = 0
  /\ \A th \in Threads : pc[th] = "tell" =>
       /\ note[th].req \in 1..cur
       /\ verdict[note[th].req] # "none" /\ told[note[th].req] = 0
  /\ \A th, other \in Threads :
       pc[th] = "tell" /\ pc[other] = "tell" /\ note[th].req = note[other].req
         => th = other

LEMMA Bounds ==
  /\ MaxAttempts \in Nat /\ MaxAttempts >= 1 /\ QDepth \in Nat /\ QDepth >= 1
  /\ MaxReq \in Nat /\ MaxCancels \in Nat /\ MaxGrants \in Nat
  BY TrunkBounds

----------------------------------------------------------------------------
(* Request numbers: a request uses at most one for each of its attempts.   *)

LEMMA Products ==
  ASSUME NEW r \in 0..MaxReq
  PROVE  /\ r * MaxAttempts \in Nat
         /\ r * MaxAttempts <= MaxReq * MaxAttempts
         /\ (r - 1) * MaxAttempts = r * MaxAttempts - MaxAttempts
<1>1. /\ MaxAttempts \in Nat /\ MaxReq \in Nat /\ r \in Nat /\ r <= MaxReq
  BY Bounds
<1>2. r * MaxAttempts \in Nat
  BY <1>1
<1>3. r * MaxAttempts <= MaxReq * MaxAttempts
  <2>1. MaxReq * MaxAttempts = r * MaxAttempts + (MaxReq - r) * MaxAttempts
    BY <1>1
  <2>2. (MaxReq - r) * MaxAttempts \in Nat
    BY <1>1
  <2> QED BY <1>1, <1>2, <2>1, <2>2
<1>4. (r - 1) * MaxAttempts = r * MaxAttempts - MaxAttempts
  BY <1>1
<1> QED BY <1>2, <1>3, <1>4

\* The next number fits whenever a submission is due.
LEMMA NextIdFits ==
  ASSUME IInv
  PROVE  /\ txNext \in 1..(MaxReq * MaxAttempts + 1)
         /\ ~req.active /\ cur < MaxReq => txNext \in TxIds
         /\ req.active /\ state = "HOLDOFF" => txNext \in TxIds
<1> DEFINE P == cur * MaxAttempts
           Q == MaxReq * MaxAttempts
<1>1. /\ cur \in 0..MaxReq /\ txNext \in Nat \ {0}
      /\ req.attempt \in 0..(MaxAttempts - 1) /\ req.active \in BOOLEAN
  BY DEF IInv, Types, HistoryTypes, ContextTypes
<1>2. P \in Nat /\ P <= Q /\ (cur - 1) * MaxAttempts = P - MaxAttempts
  BY <1>1, Products
<1>3. cur < MaxReq => P + MaxAttempts <= Q
  <2> SUFFICES ASSUME cur < MaxReq PROVE P + MaxAttempts <= Q
    OBVIOUS
  <2>1. cur + 1 \in 0..MaxReq /\ (cur + 1) - 1 = cur
    BY <1>1, Bounds
  <2>2. /\ (cur + 1) * MaxAttempts \in Nat /\ (cur + 1) * MaxAttempts <= Q
        /\ ((cur + 1) - 1) * MaxAttempts = (cur + 1) * MaxAttempts - MaxAttempts
    BY <2>1, Products
  <2> HIDE DEF Q
  <2>3. P = (cur + 1) * MaxAttempts - MaxAttempts
    BY <2>1, <2>2
  <2> HIDE DEF P
  <2> QED BY <2>2, <2>3, <1>2, Bounds
<1>4. Q \in Nat
  BY Bounds
<1>5. IF req.active THEN txNext <= P - MaxAttempts + Spent + 1 ELSE txNext <= P + 1
  <2>1. (cur - 1) * MaxAttempts = P - MaxAttempts
    BY <1>2
  <2> QED BY <2>1 DEF IInv, Accounts, IdsCounted
<1>6. TxIds = 0..Q
  BY DEF TxIds
<1> HIDE DEF P, Q
<1>7. Spent \in 0..MaxAttempts /\ (state = "HOLDOFF" => Spent < MaxAttempts)
  BY <1>1, Bounds DEF Spent
<1>8. txNext \in 1..(Q + 1)
  BY <1>1, <1>2, <1>4, <1>5, <1>7, Bounds
<1>9. ~req.active /\ cur < MaxReq => txNext \in TxIds
  BY <1>1, <1>2, <1>3, <1>4, <1>5, <1>6, Bounds
<1>10. req.active /\ state = "HOLDOFF" => txNext \in TxIds
  BY <1>1, <1>2, <1>4, <1>5, <1>6, <1>7, Bounds
<1> QED BY <1>8, <1>9, <1>10 DEF Q

\* The properties of a state in which the invariant holds.
LEMMA InvImplies == IInv => TypeOK /\ AttemptsBounded
<1> SUFFICES ASSUME IInv PROVE TypeOK /\ AttemptsBounded
  OBVIOUS
<1>1. TypeOK
  BY NextIdFits DEF IInv, Types, ContextTypes, ThreadTypes, BatchTypes,
     QueueTypes, CountTypes, HistoryTypes, TypeOK, Timer
<1>2. \A r \in Reqs : sent[r] <= MaxAttempts
  BY DEF IInv, Accounts, SentCounted
<1>3. req.active => sent[cur] <= req.attempt + 1
  <2> SUFFICES ASSUME req.active PROVE sent[cur] <= req.attempt + 1
    OBVIOUS
  <2>1. cur \in Reqs /\ req.attempt \in 0..(MaxAttempts - 1)
    BY Bounds DEF IInv, Accounts, Phase, Types, HistoryTypes, ContextTypes, Reqs
  <2>2. sent[cur] \in Nat
    BY <2>1 DEF IInv, Types, HistoryTypes
  <2>3. Spent <= req.attempt + 1
    BY <2>1, Bounds DEF Spent
  <2>4. Spent \in Int
    BY <2>1, Bounds DEF Spent
  <2> QED BY <2>1, <2>2, <2>3, <2>4, Bounds DEF IInv, Accounts, SentCounted
<1> QED BY <1>1, <1>2, <1>3 DEF AttemptsBounded

----------------------------------------------------------------------------
(* The timers.                                                             *)

LEMMA TimersTyped ==
  ASSUME NEW tm \in [Timers -> Timer], NEW t \in Timers
  PROVE  /\ Arm(tm, t, 0) \in [Timers -> Timer]
         /\ Disarm(tm, t) \in [Timers -> Timer]
         /\ Drain(tm, t) \in [Timers -> Timer]
         /\ Expired(tm, t) \in [Timers -> Timer]
         /\ Arm(tm, t, 0)[t].kern = "running"
         /\ Expired(tm, t)[t].kern = "expired"
         /\ \A u \in Timers \ {t} :
              /\ Arm(tm, t, 0)[u] = tm[u] /\ Drain(tm, t)[u] = tm[u]
              /\ Expired(tm, t)[u] = tm[u]
<1>1. Off \in Timer
  BY DEF Off, Timer
<1>2. Arm(tm, t, 0) \in [Timers -> Timer]
  BY DEF Arm, Timer
<1>3. Disarm(tm, t) \in [Timers -> Timer]
  BY <1>1 DEF Disarm
<1>4. [tm[t] EXCEPT !.armed = FALSE] \in Timer
  BY DEF Timer
<1>5. Drain(tm, t) \in [Timers -> Timer]
  BY <1>1, <1>4 DEF Drain
<1>6. Expired(tm, t) \in [Timers -> Timer]
  BY DEF Expired, Timer
<1>7. /\ Arm(tm, t, 0)[t].kern = "running"
      /\ Expired(tm, t)[t].kern = "expired"
  BY DEF Arm, Expired, Timer
<1>8. \A u \in Timers \ {t} :
        /\ Arm(tm, t, 0)[u] = tm[u] /\ Drain(tm, t)[u] = tm[u]
        /\ Expired(tm, t)[u] = tm[u]
  BY DEF Arm, Drain, Expired
<1> QED BY <1>2, <1>3, <1>5, <1>6, <1>7, <1>8

LEMMA TimersNamed ==
  "holdoff" \in Timers /\ "grantwait" \in Timers /\ "holdoff" # "grantwait"
  BY DEF Timers

LEMMA BothDisarmedTyped ==
  ASSUME tmr \in [Timers -> Timer] PROVE BothDisarmed \in [Timers -> Timer]
  BY TimersTyped, TimersNamed DEF BothDisarmed

----------------------------------------------------------------------------
(* Threads and their calls.                                                *)

LEMMA ThreadsNamed ==
  /\ "worker" \in Threads /\ Apps \subseteq Threads /\ "worker" \notin Apps
  BY ThreadsAssumption DEF Threads

LEMMA JobsTyped ==
  /\ NoJob \in Jobs /\ [op |-> "cancel"] \in Jobs
  /\ \A t \in Timers : [op |-> t] \in Jobs
  /\ \A dst \in Dsts : [op |-> "request", dst |-> dst] \in Jobs
  /\ \A c \in TxConf : [op |-> "conf", msg |-> c] \in Jobs
  /\ \A g \in Grant : [op |-> "rx", msg |-> g] \in Jobs
<1>1. NoJob \in Jobs /\ [op |-> "cancel"] \in Jobs /\ \A t \in Timers : [op |-> t] \in Jobs
  BY DEF Jobs, NoJob, Timers
<1>2. \A dst \in Dsts : [op |-> "request", dst |-> dst] \in Jobs
  BY DEF Jobs
<1>3. \A c \in TxConf : [op |-> "conf", msg |-> c] \in Jobs
  BY DEF Jobs
<1>4. \A g \in Grant : [op |-> "rx", msg |-> g] \in Jobs
  BY DEF Jobs
<1> QED BY <1>1, <1>2, <1>3, <1>4

\* What a thread's job says of its argument.
LEMMA JobsRead ==
  ASSUME NEW j \in Jobs
  PROVE  /\ j.op = "request" => j.dst \in Dsts
         /\ j.op = "conf" => j.msg \in TxConf
         /\ j.op = "rx" => j.msg \in Grant
  BY DEF Jobs

LEMMA NoNoteTyped == NoNote \in [req : 0..MaxReq, again : BOOLEAN]
  BY Bounds DEF NoNote

\* Leaving a critical section.
LEMMA LeaveTypes ==
  ASSUME ThreadTypes, NEW th \in Threads, Leave(th)
  PROVE  ThreadTypes'
  BY JobsTyped DEF ThreadTypes, Leave

LEMMA TellTypes ==
  ASSUME ThreadTypes, HistoryTypes, NEW th \in Threads, NEW r \in 0..MaxReq,
         NEW v \in Verdicts, NEW again \in BOOLEAN, LeaveToTell(th, r, v, again)
  PROVE  ThreadTypes' /\ verdict' \in [Reqs -> Verdicts \cup {"none"}]
<1>1. [req |-> r, again |-> again] \in [req : 0..MaxReq, again : BOOLEAN]
  OBVIOUS
<1>2. ThreadTypes'
  BY <1>1, JobsTyped DEF ThreadTypes, LeaveToTell
<1>3. verdict' \in [Reqs -> Verdicts \cup {"none"}]
  BY DEF HistoryTypes, LeaveToTell
<1> QED BY <1>2, <1>3

\* A thread outside the critical section of a request is no caller.
LEMMA CallersLeave ==
  ASSUME ThreadTypes, NEW th \in Threads, NEW p, p \notin {"lock", "inside"},
         pc' = [pc EXCEPT ![th] = p], job' = [job EXCEPT ![th] = NoJob]
  PROVE  Callers' = Callers \ {th}
<1>1. \A a \in Apps : a # th => pc'[a] = pc[a] /\ job'[a] = job[a]
  BY DEF ThreadTypes, Threads
<1>2. th \in Apps => pc'[th] = p
  BY DEF ThreadTypes
<1> QED BY <1>1, <1>2 DEF Callers

LEMMA CallersStay ==
  ASSUME ThreadTypes, NEW th \in Threads, NEW p,
         pc[th] \in {"lock", "inside"} <=> p \in {"lock", "inside"},
         pc' = [pc EXCEPT ![th] = p], job' = job
  PROVE  Callers' = Callers
<1>1. \A a \in Apps : pc'[a] \in {"lock", "inside"} <=> pc[a] \in {"lock", "inside"}
  BY DEF ThreadTypes, Threads
<1> QED BY <1>1 DEF Callers

\* Fewer callers, and no further request.
LEMMA CountLeave ==
  ASSUME IInv, NEW th, Callers' = Callers \ {th}, UNCHANGED <<cur, asked>>
  PROVE  CallsCounted'
<1>1. IsFiniteSet(Callers) /\ cur + Cardinality(Callers) <= asked
  BY DEF IInv, Accounts, CallsCounted
<1>2. Cardinality(Callers) \in Nat
  BY <1>1, FS_CardinalityType
<1>4. /\ IsFiniteSet(Callers \ {th})
      /\ Cardinality(Callers \ {th}) <= Cardinality(Callers)
  BY <1>1, Callers \ {th} \in SUBSET Callers, FS_Subset
<1>5. Cardinality(Callers \ {th}) \in Nat
  BY <1>4, FS_CardinalityType
<1>3. cur \in Nat /\ asked \in Nat
  BY Bounds DEF IInv, Types, HistoryTypes, CountTypes
<1> QED BY <1>1, <1>2, <1>3, <1>4, <1>5 DEF CallsCounted

LEMMA CountStay ==
  ASSUME IInv, Callers' = Callers, UNCHANGED <<cur, asked>>
  PROVE  CallsCounted'
  BY DEF IInv, Accounts, CallsCounted

\* A caller's request is one of those asked for.
LEMMA CountAccept ==
  ASSUME IInv, NEW a \in Callers, Callers' = Callers \ {a}, cur' = cur + 1,
         UNCHANGED asked
  PROVE  CallsCounted' /\ cur + 1 \in 1..MaxReq
<1>1. IsFiniteSet(Callers) /\ cur + Cardinality(Callers) <= asked
  BY DEF IInv, Accounts, CallsCounted
<1>2. /\ IsFiniteSet(Callers \ {a})
      /\ Cardinality(Callers \ {a}) = Cardinality(Callers) - 1
      /\ Cardinality(Callers \ {a}) \in Nat /\ Cardinality(Callers) \in Nat
  BY <1>1, FS_RemoveElement, FS_CardinalityType
<1>3. cur \in Nat /\ asked \in 0..MaxReq
  BY Bounds DEF IInv, Types, HistoryTypes, CountTypes
<1> QED BY <1>1, <1>2, <1>3, Bounds DEF CallsCounted

\* One call more, by an application that made none.
LEMMA CountCall ==
  ASSUME IInv, NEW a, a \notin Callers, Callers' = Callers \cup {a},
         UNCHANGED cur, asked' = asked + 1
  PROVE  CallsCounted'
<1>1. IsFiniteSet(Callers) /\ cur + Cardinality(Callers) <= asked
  BY DEF IInv, Accounts, CallsCounted
<1>2. /\ IsFiniteSet(Callers \cup {a})
      /\ Cardinality(Callers \cup {a}) = Cardinality(Callers) + 1
  BY <1>1, FS_AddElement
<1>3. Cardinality(Callers) \in Nat
  BY <1>1, FS_CardinalityType
<1>4. cur \in Nat /\ asked \in Nat
  BY Bounds DEF IInv, Types, HistoryTypes, CountTypes
<1> QED BY <1>1, <1>2, <1>3, <1>4 DEF CallsCounted

----------------------------------------------------------------------------
(* The invariant by the kind of step.                                      *)

\* Steps that leave the request and its numbers alone.
LEMMA AccountsStay ==
  ASSUME IInv, CallsCounted', UNCHANGED <<state, req, txNext, cur, sent>>
  PROVE  Accounts'
  BY DEF IInv, Accounts, Phase, IdsCounted, SentCounted, Spent

\* The end of an open request, whoever brings it about; the submission that
\* failed may have used up a number.
Close(th, v, again) ==
  /\ req.active /\ th \in Threads /\ v \in Verdicts /\ again \in BOOLEAN
  /\ tmr' = BothDisarmed
  /\ req' = Closed
  /\ state' = "IDLE"
  /\ LeaveToTell(th, cur, v, again)
  /\ txNext' \in {txNext} \cup (IF state = "HOLDOFF" THEN {txNext + 1} ELSE {})
  /\ UNCHANGED <<batch, queue, envVars, callVars, cur, sent, told>>

LEMMA CloseTypes ==
  ASSUME IInv, NEW th, NEW v, NEW again, Close(th, v, again)
  PROVE  Types'
<1>1. ContextTypes'
  <2>1. tmr \in [Timers -> Timer] /\ tmr' = BothDisarmed
    BY DEF IInv, Types, ContextTypes, Close
  <2>2. tmr' \in [Timers -> Timer]
    BY <2>1, BothDisarmedTyped
  <2> QED BY <2>2 DEF IInv, Types, ContextTypes, Close, Closed, States
<1>2. ThreadTypes' /\ verdict' \in [Reqs -> Verdicts \cup {"none"}]
  <2>1. /\ ThreadTypes /\ HistoryTypes /\ th \in Threads /\ cur \in 0..MaxReq
        /\ v \in Verdicts /\ again \in BOOLEAN /\ LeaveToTell(th, cur, v, again)
    BY DEF IInv, Types, HistoryTypes, Close
  <2> QED BY <2>1, TellTypes
<1>3. BatchTypes' /\ QueueTypes' /\ CountTypes'
  BY DEF IInv, Types, BatchTypes, QueueTypes, CountTypes, Close, envVars, callVars
<1>4. HistoryTypes'
  BY <1>2 DEF IInv, Types, HistoryTypes, Close
<1> QED BY <1>1, <1>2, <1>3, <1>4 DEF Types

LEMMA CloseKeeps ==
  ASSUME IInv, NEW th, NEW v, NEW again, Close(th, v, again)
  PROVE  IInv'
<1>1. Types'
  BY CloseTypes
<1>2. CallsCounted'
  <2>1. Callers' = Callers \ {th}
    <3>1. /\ ThreadTypes /\ th \in Threads /\ pc' = [pc EXCEPT ![th] = "tell"]
          /\ job' = [job EXCEPT ![th] = NoJob]
      BY DEF IInv, Types, Close, LeaveToTell
    <3> QED BY <3>1, CallersLeave
  <2> QED BY <2>1, CountLeave DEF Close, callVars
<1>3. ~req'.active /\ state' = "IDLE"
  BY DEF Close, Closed, IInv, Types, ContextTypes
<1>4. IdsCounted'
  <2> DEFINE P == cur * MaxAttempts
  <2>1. /\ cur \in 0..MaxReq /\ txNext \in Nat \ {0}
        /\ req.attempt \in 0..(MaxAttempts - 1) /\ req.active /\ cur' = cur
    BY DEF IInv, Types, HistoryTypes, ContextTypes, Close
  <2>2. P \in Nat /\ (cur - 1) * MaxAttempts = P - MaxAttempts
    BY <2>1, Products
  <2>3. txNext <= P - MaxAttempts + Spent + 1
    <3>1. txNext <= (cur - 1) * MaxAttempts + Spent + 1
      BY <2>1 DEF IInv, Accounts, IdsCounted
    <3> QED BY <3>1, <2>2
  <2>4. Spent \in 0..MaxAttempts /\ (state = "HOLDOFF" => Spent < MaxAttempts)
    BY <2>1, Bounds DEF Spent
  <2>5. \/ txNext' = txNext
        \/ state = "HOLDOFF" /\ txNext' = txNext + 1
    BY DEF Close
  <2> HIDE DEF P
  <2>6. txNext' <= P + 1
    BY <2>1, <2>2, <2>3, <2>4, <2>5, Bounds
  <2> QED BY <1>3, <2>1, <2>6 DEF IdsCounted, P
<1>5. Phase' /\ SentCounted'
  BY <1>3 DEF Phase, SentCounted, IInv, Accounts, Close
<1> QED BY <1>1, <1>2, <1>4, <1>5 DEF IInv, Accounts

LEMMA FinishIsClose ==
  ASSUME IInv, NEW v \in Verdicts, NEW again \in BOOLEAN, req.active,
         FinishLocked(v, again), WorkerOnly
  PROVE  Close("worker", v, again)
  BY ThreadsNamed DEF FinishLocked, WorkerOnly, Close, envVars

\* Another attempt: the number of the one before was counted.
LEMMA RetryKeeps ==
  ASSUME IInv, req.active, req.attempt + 1 < MaxAttempts,
         RetryWith(Arm(tmr, "holdoff", 0)), WorkerOnly
  PROVE  IInv'
<1>1. /\ tmr \in [Timers -> Timer] /\ req.attempt \in 0..(MaxAttempts - 1)
      /\ state \in States
      /\ req \in [active : BOOLEAN, dst : Dsts, attempt : 0..(MaxAttempts - 1),
                  randId : TxIds]
  BY DEF IInv, Types, ContextTypes
<1>2. /\ req' = [req EXCEPT !.attempt = @ + 1] /\ state' = "HOLDOFF"
      /\ tmr' = Arm(tmr, "holdoff", 0) /\ Leave("worker")
      /\ UNCHANGED <<txNext, mac, sent, verdict, batch, queue, confQ, rxQ,
                     cur, told, callVars>>
  BY DEF RetryWith, WorkerOnly
<1>3. ContextTypes'
  <2>1. tmr' \in [Timers -> Timer]
    BY <1>1, <1>2, TimersTyped, TimersNamed
  <2>2. req.attempt + 1 \in 0..(MaxAttempts - 1)
    BY <1>1, Bounds
  <2> QED BY <1>1, <1>2, <2>1, <2>2 DEF ContextTypes, States
<1>4. Types'
  <2>1. ThreadTypes'
    BY <1>2, LeaveTypes, ThreadsNamed DEF IInv, Types
  <2> QED BY <1>2, <1>3, <2>1 DEF IInv, Types, BatchTypes, QueueTypes,
          CountTypes, HistoryTypes, callVars
<1>5. CallsCounted'
  <2>1. Callers' = Callers \ {"worker"}
    BY <1>2, CallersLeave, ThreadsNamed DEF IInv, Types, Leave
  <2> QED BY <1>2, <2>1, CountLeave DEF callVars
<1>6. /\ req'.active /\ req'.attempt = req.attempt + 1
      /\ cur' = cur /\ txNext' = txNext /\ sent' = sent
  BY <1>1, <1>2
<1>7. Spent' = req.attempt + 1 /\ Spent <= req.attempt + 1 /\ Spent \in Nat
  BY <1>1, <1>2, <1>6, Bounds DEF Spent
<1>8. Phase'
  BY <1>2, <1>6 DEF Phase, IInv, Accounts
<1>9. IdsCounted'
  <2> DEFINE P == (cur - 1) * MaxAttempts
  <2>1. P \in Int /\ txNext \in Int
    BY Bounds DEF IInv, Types, HistoryTypes
  <2>2. txNext <= P + Spent + 1
    BY DEF IInv, Accounts, IdsCounted
  <2> HIDE DEF P
  <2>3. txNext' <= P + Spent' + 1
    BY <1>1, <1>6, <1>7, <2>1, <2>2, Bounds
  <2> QED BY <1>6, <2>3 DEF P, IdsCounted
<1>10. SentCounted'
  <2>1. cur \in Reqs /\ sent[cur] \in Nat /\ sent[cur] <= Spent
    BY Bounds DEF IInv, Types, HistoryTypes, Accounts, Phase, Reqs, SentCounted
  <2>2. sent'[cur'] <= Spent'
    BY <1>1, <1>6, <1>7, <2>1, Bounds
  <2> QED BY <1>6, <2>2 DEF SentCounted, IInv, Accounts
<1> QED BY <1>4, <1>5, <1>8, <1>9, <1>10 DEF IInv, Accounts

\* The attempt after the back-off.
Resubmit ==
  /\ req.active /\ state = "HOLDOFF"
  /\ SubmitRandAccess(cur)
  /\ req' = [req EXCEPT !.randId = txNext]
  /\ state' = "GRANT_WAIT"
  /\ tmr' = Arm(tmr, "grantwait", 0)
  /\ Leave("worker")
  /\ UNCHANGED verdict

LEMMA ResubmitKeeps ==
  ASSUME IInv, Resubmit, WorkerOnly
  PROVE  IInv'
<1>1. /\ tmr \in [Timers -> Timer] /\ req.attempt \in 0..(MaxAttempts - 1)
      /\ req \in [active : BOOLEAN, dst : Dsts, attempt : 0..(MaxAttempts - 1),
                  randId : TxIds]
      /\ txNext \in Nat /\ sent \in [Reqs -> Nat] /\ mac \subseteq TxIds
  BY DEF IInv, Types, ContextTypes, HistoryTypes, QueueTypes
<1>2. /\ req' = [req EXCEPT !.randId = txNext] /\ state' = "GRANT_WAIT"
      /\ tmr' = Arm(tmr, "grantwait", 0) /\ Leave("worker")
      /\ mac' = mac \cup {txNext} /\ txNext' = txNext + 1
      /\ sent' = [sent EXCEPT ![cur] = @ + 1]
      /\ UNCHANGED <<verdict, batch, queue, confQ, rxQ, cur, told, callVars>>
  BY DEF Resubmit, SubmitRandAccess, WorkerOnly
<1>3. req.active /\ state = "HOLDOFF" /\ txNext \in TxIds /\ cur \in Reqs
  BY NextIdFits, Bounds DEF Resubmit, IInv, Accounts, Phase, Types, HistoryTypes, Reqs
<1>4. ContextTypes'
  <2>1. tmr' \in [Timers -> Timer]
    BY <1>1, <1>2, TimersTyped, TimersNamed
  <2> QED BY <1>1, <1>2, <1>3, <2>1 DEF ContextTypes, States
<1>5. Types'
  <2>1. ThreadTypes'
    BY <1>2, LeaveTypes, ThreadsNamed DEF IInv, Types
  <2>2. QueueTypes'
    BY <1>1, <1>2, <1>3 DEF IInv, Types, QueueTypes
  <2>3. sent[cur] + 1 \in Nat
    BY <1>1, <1>3
  <2>4. HistoryTypes'
    BY <1>1, <1>2, <1>3, <2>3 DEF IInv, Types, HistoryTypes
  <2> QED BY <1>2, <1>4, <2>1, <2>2, <2>4 DEF IInv, Types, BatchTypes,
          CountTypes, callVars
<1>6. CallsCounted'
  <2>1. Callers' = Callers \ {"worker"}
    BY <1>2, CallersLeave, ThreadsNamed DEF IInv, Types, Leave
  <2> QED BY <1>2, <2>1, CountLeave DEF callVars
<1>7. /\ req'.active /\ req'.attempt = req.attempt /\ cur' = cur
      /\ txNext' = txNext + 1 /\ sent'[cur] = sent[cur] + 1
      /\ \A r \in Reqs \ {cur} : sent'[r] = sent[r]
  BY <1>1, <1>2, <1>3
<1>8. Spent' = Spent + 1 /\ Spent = req.attempt /\ Spent < MaxAttempts
  BY <1>1, <1>2, <1>3, <1>7, Bounds DEF Spent
<1>9. Phase'
  BY <1>2, <1>7 DEF Phase, IInv, Accounts
<1>10. IdsCounted'
  <2> DEFINE P == (cur - 1) * MaxAttempts
  <2>1. P \in Int
    BY Bounds DEF IInv, Types, HistoryTypes
  <2>2. txNext <= P + Spent + 1
    BY <1>3 DEF IInv, Accounts, IdsCounted
  <2> HIDE DEF P
  <2>3. txNext' <= P + Spent' + 1
    BY <1>1, <1>7, <1>8, <2>1, <2>2
  <2> QED BY <1>7, <2>3 DEF P, IdsCounted
<1>11. SentCounted'
  <2>1. sent[cur] \in Nat /\ sent[cur] <= Spent
    BY <1>1, <1>3 DEF IInv, Accounts, SentCounted
  <2>2. sent'[cur] <= Spent' /\ sent'[cur] <= MaxAttempts
    BY <1>1, <1>7, <1>8, <2>1, Bounds
  <2>3. \A r \in Reqs : sent'[r] <= MaxAttempts /\ (r > cur => sent'[r] = 0)
    BY <1>3, <1>7, <2>2, Bounds DEF IInv, Accounts, SentCounted, Reqs
  <2> QED BY <1>7, <2>2, <2>3 DEF SentCounted
<1> QED BY <1>5, <1>6, <1>9, <1>10, <1>11 DEF IInv, Accounts

\* A thread that leaves without having done anything.
LEMMA LeaveKeeps ==
  ASSUME IInv, NEW th \in Threads, Leave(th),
         UNCHANGED <<ctxVars, batch, queue, envVars, callVars, histVars>>
  PROVE  IInv'
<1>1. ThreadTypes'
  BY LeaveTypes DEF IInv, Types
<1>2. Types'
  BY <1>1 DEF IInv, Types, ContextTypes, BatchTypes, QueueTypes, CountTypes,
     HistoryTypes, ctxVars, envVars, callVars, histVars
<1>3. Callers' = Callers \ {th}
  BY CallersLeave DEF IInv, Types, Leave
<1>4. CallsCounted'
  BY <1>3, CountLeave DEF callVars, histVars
<1>5. Accounts'
  BY <1>4, AccountsStay DEF ctxVars, histVars
<1> QED BY <1>2, <1>5 DEF IInv

----------------------------------------------------------------------------
(* The worker's handlers.                                                  *)

LEMMA IgnoreKeeps == IInv /\ Ignore /\ WorkerOnly => IInv'
  BY LeaveKeeps, ThreadsNamed DEF Ignore, WorkerOnly, envVars, histVars, ctxVars

LEMMA RetryOrFailKeeps ==
  IInv /\ req.active /\ RetryOrFail /\ WorkerOnly => IInv'
<1> SUFFICES ASSUME IInv, req.active, RetryOrFail, WorkerOnly PROVE IInv'
  OBVIOUS
<1>1. CASE FinishLocked("TIMEOUT", TRUE)
  BY <1>1, FinishIsClose, CloseKeeps DEF Verdicts
<1>2. CASE req.attempt + 1 < MaxAttempts /\ RetryWith(Arm(tmr, "holdoff", 0))
  BY <1>2, RetryKeeps
<1> QED BY <1>1, <1>2 DEF RetryOrFail

LEMMA HandleTxConfKeeps == IInv /\ HandleTxConf => IInv'
  BY IgnoreKeeps, RetryOrFailKeeps DEF HandleTxConf

LEMMA HandleGrantWaitKeeps == IInv /\ HandleGrantWait => IInv'
  BY IgnoreKeeps, RetryOrFailKeeps DEF HandleGrantWait

LEMMA HandleGrantKeeps == IInv /\ HandleGrant => IInv'
<1> SUFFICES ASSUME IInv, HandleGrant PROVE IInv'
  OBVIOUS
<1>1. CASE req.active /\ FinishLocked("OK", FALSE) /\ WorkerOnly
  BY <1>1, FinishIsClose, CloseKeeps DEF Verdicts
<1> QED BY <1>1, IgnoreKeeps DEF HandleGrant

LEMMA HoldoffFailIsClose ==
  ASSUME IInv, req.active, state = "HOLDOFF", SubmitFails, tmr' = BothDisarmed,
         req' = Closed, state' = "IDLE",
         LeaveToTell("worker", cur, "TX_FAILED", FALSE), WorkerOnly
  PROVE  Close("worker", "TX_FAILED", FALSE)
  BY ThreadsNamed DEF SubmitFails, WorkerOnly, Close, envVars, Verdicts

LEMMA HandleHoldoffKeeps == IInv /\ HandleHoldoff => IInv'
<1> SUFFICES ASSUME IInv, HandleHoldoff PROVE IInv'
  OBVIOUS
<1>1. CASE Resubmit /\ WorkerOnly
  BY <1>1, ResubmitKeeps
<1>2. CASE /\ req.active /\ state = "HOLDOFF" /\ SubmitFails
           /\ tmr' = BothDisarmed /\ req' = Closed /\ state' = "IDLE"
           /\ LeaveToTell("worker", cur, "TX_FAILED", FALSE) /\ WorkerOnly
  BY <1>2, HoldoffFailIsClose, CloseKeeps
<1> QED BY <1>1, <1>2, IgnoreKeeps DEF HandleHoldoff, Resubmit

----------------------------------------------------------------------------
(* The application's critical sections.                                    *)

LEMMA CancelIsClose ==
  ASSUME IInv, NEW a \in Apps, CancelBody(a), req.active
  PROVE  Close(a, "ABORTED", FALSE)
  BY ThreadsNamed DEF CancelBody, Close, envVars, Verdicts

LEMMA CancelKeeps ==
  ASSUME IInv, NEW a \in Apps, CancelBody(a)
  PROVE  IInv'
<1>1. CASE req.active
  BY <1>1, CancelIsClose, CloseKeeps
<1>2. CASE ~req.active
  BY <1>2, LeaveKeeps, ThreadsNamed DEF CancelBody, envVars, histVars, ctxVars
<1> QED BY <1>1, <1>2

\* What the two ways of accepting a request have in common.
Accepted(a) ==
  /\ Inside(a, "request") /\ ~req.active
  /\ cur' = cur + 1 /\ txNext' = txNext + 1
  /\ pc'[a] \notin {"lock", "inside"}
  /\ pc' = [pc EXCEPT ![a] = pc'[a]] /\ job' = [job EXCEPT ![a] = NoJob]
  /\ UNCHANGED <<batch, queue, confQ, rxQ, callVars, told>>

LEMMA AcceptedCounts ==
  ASSUME IInv, NEW a \in Apps, Accepted(a)
  PROVE  /\ CallsCounted' /\ cur + 1 \in 1..MaxReq /\ txNext \in TxIds
         /\ job[a].dst \in Dsts /\ Callers' = Callers \ {a}
<1>1. a \in Callers
  BY DEF Accepted, Inside, Callers
<1>2. Callers' = Callers \ {a}
  <2>1. /\ ThreadTypes /\ a \in Threads /\ pc'[a] \notin {"lock", "inside"}
        /\ pc' = [pc EXCEPT ![a] = pc'[a]] /\ job' = [job EXCEPT ![a] = NoJob]
    BY ThreadsNamed DEF Accepted, IInv, Types
  <2> HIDE DEF Callers
  <2> QED BY <2>1, CallersLeave
<1>3. CallsCounted' /\ cur + 1 \in 1..MaxReq
  BY <1>1, <1>2, CountAccept DEF Accepted, callVars
<1>4. txNext \in TxIds
  BY <1>3, NextIdFits, Bounds DEF Accepted, IInv, Types, HistoryTypes
<1>5. job[a].dst \in Dsts
  BY JobsRead, ThreadsNamed DEF Accepted, Inside, IInv, Types, ThreadTypes
<1> QED BY <1>2, <1>3, <1>4, <1>5

\* The queue had room.
Served(a) ==
  /\ Inside(a, "request") /\ ~req.active
  /\ cur' = cur + 1
  /\ SubmitRandAccess(cur + 1)
  /\ req' = [active |-> TRUE, dst |-> job[a].dst, attempt |-> 0,
             randId |-> txNext]
  /\ state' = "GRANT_WAIT"
  /\ tmr' = Arm(tmr, "grantwait", 0)
  /\ Leave(a)
  /\ UNCHANGED verdict
  /\ UNCHANGED <<batch, queue, confQ, rxQ, callVars, told>>

LEMMA ServedKeeps ==
  ASSUME IInv, NEW a \in Apps, Served(a)
  PROVE  IInv'
<1>1. /\ tmr \in [Timers -> Timer] /\ txNext \in Nat \ {0} /\ mac \subseteq TxIds
      /\ sent \in [Reqs -> Nat] /\ cur \in 0..MaxReq /\ a \in Threads
      /\ pc \in [Threads -> {"idle", "lock", "inside", "tell", "unlock"}]
  BY ThreadsNamed DEF IInv, Types, ContextTypes, HistoryTypes, QueueTypes, ThreadTypes
<1>2. /\ ~req.active /\ cur' = cur + 1 /\ txNext' = txNext + 1
      /\ mac' = mac \cup {txNext} /\ sent' = [sent EXCEPT ![cur + 1] = @ + 1]
      /\ req' = [active |-> TRUE, dst |-> job[a].dst, attempt |-> 0,
                 randId |-> txNext]
      /\ state' = "GRANT_WAIT" /\ tmr' = Arm(tmr, "grantwait", 0) /\ Leave(a)
      /\ UNCHANGED <<verdict, batch, queue, confQ, rxQ, callVars, told>>
  BY DEF Served, SubmitRandAccess
<1>3. Accepted(a)
  <2>1. pc'[a] = "idle" /\ pc' = [pc EXCEPT ![a] = pc'[a]]
    BY <1>1, <1>2 DEF Leave
  <2> QED BY <1>2, <2>1 DEF Accepted, Served, Leave
<1>4. /\ CallsCounted' /\ cur + 1 \in 1..MaxReq /\ txNext \in TxIds
      /\ job[a].dst \in Dsts
  BY <1>3, AcceptedCounts
<1>5. ContextTypes'
  <2>1. tmr' \in [Timers -> Timer]
    BY <1>1, <1>2, TimersTyped, TimersNamed
  <2>2. 0 \in 0..(MaxAttempts - 1)
    BY Bounds
  <2> QED BY <1>2, <1>4, <2>1, <2>2 DEF ContextTypes, States
<1>6. sent[cur + 1] = 0 /\ cur + 1 \in Reqs
  BY <1>1, <1>4 DEF Reqs, IInv, Accounts, SentCounted
<1>7. sent' \in [Reqs -> Nat] /\ sent'[cur + 1] = 1
      /\ \A r \in Reqs \ {cur + 1} : sent'[r] = sent[r]
  BY <1>1, <1>2, <1>6
<1>8. Types'
  <2>1. ThreadTypes'
    BY <1>1, <1>2, LeaveTypes DEF IInv, Types
  <2>2. QueueTypes'
    BY <1>1, <1>2, <1>4 DEF IInv, Types, QueueTypes
  <2>3. HistoryTypes'
    BY <1>1, <1>2, <1>4, <1>7 DEF IInv, Types, HistoryTypes
  <2> QED BY <1>2, <1>5, <2>1, <2>2, <2>3 DEF IInv, Types, BatchTypes,
          CountTypes, callVars
<1>9. req'.active /\ req'.attempt = 0
  BY <1>2
<1>10. Spent' = 1
  BY <1>2, <1>9 DEF Spent
<1>11. Phase'
  BY <1>1, <1>2, <1>9, <1>4 DEF Phase
<1>12. IdsCounted'
  <2>1. txNext <= cur * MaxAttempts + 1
    BY <1>2 DEF IInv, Accounts, IdsCounted
  <2>2. cur' - 1 = cur
    BY <1>1, <1>2
  <2>3. cur * MaxAttempts \in Int
    BY <1>1, Bounds
  <2>4. txNext' <= (cur' - 1) * MaxAttempts + Spent' + 1
    BY <1>1, <1>2, <1>10, <2>1, <2>2, <2>3
  <2> QED BY <1>9, <2>4 DEF IdsCounted
<1>13. SentCounted'
  <2>1. sent'[cur'] <= Spent'
    BY <1>2, <1>7, <1>10
  <2>2. \A r \in Reqs : sent'[r] <= MaxAttempts /\ (r > cur' => sent'[r] = 0)
    BY <1>1, <1>2, <1>7, Bounds DEF IInv, Accounts, SentCounted, Reqs
  <2> QED BY <2>1, <2>2 DEF SentCounted
<1> QED BY <1>4, <1>8, <1>11, <1>12, <1>13 DEF IInv, Accounts

\* The queue was full.
Refused(a) ==
  /\ Inside(a, "request") /\ ~req.active
  /\ cur' = cur + 1
  /\ SubmitFails
  /\ req' = [active |-> FALSE, dst |-> job[a].dst, attempt |-> 0, randId |-> 0]
  /\ LeaveToTell(a, cur + 1, "TX_FAILED", FALSE)
  /\ UNCHANGED <<state, tmr>>
  /\ UNCHANGED <<batch, queue, confQ, rxQ, callVars, told>>

LEMMA RefusedKeeps ==
  ASSUME IInv, NEW a \in Apps, Refused(a)
  PROVE  IInv'
<1>1. /\ txNext \in Nat \ {0} /\ cur \in 0..MaxReq /\ a \in Threads
      /\ pc \in [Threads -> {"idle", "lock", "inside", "tell", "unlock"}]
  BY ThreadsNamed DEF IInv, Types, HistoryTypes, ThreadTypes
<1>2. /\ ~req.active /\ cur' = cur + 1 /\ txNext' = txNext + 1
      /\ req' = [active |-> FALSE, dst |-> job[a].dst, attempt |-> 0,
                 randId |-> 0]
      /\ LeaveToTell(a, cur + 1, "TX_FAILED", FALSE)
      /\ UNCHANGED <<mac, sent, state, tmr, batch, queue, confQ, rxQ, callVars,
                     told>>
  BY DEF Refused, SubmitFails
<1>3. Accepted(a)
  <2>1. pc'[a] = "tell" /\ pc' = [pc EXCEPT ![a] = pc'[a]]
    BY <1>1, <1>2 DEF LeaveToTell
  <2> QED BY <1>2, <2>1 DEF Accepted, Refused, LeaveToTell
<1>4. /\ CallsCounted' /\ cur + 1 \in 1..MaxReq /\ txNext \in TxIds
      /\ job[a].dst \in Dsts
  BY <1>3, AcceptedCounts
<1>5. ContextTypes'
  <2>1. 0 \in 0..(MaxAttempts - 1) /\ 0 \in TxIds
    BY <1>1, <1>4, Bounds DEF TxIds
  <2> QED BY <1>2, <1>4, <2>1 DEF IInv, Types, ContextTypes
<1>6. Types'
  <2>1. ThreadTypes' /\ verdict' \in [Reqs -> Verdicts \cup {"none"}]
    <3>1. /\ ThreadTypes /\ HistoryTypes /\ cur + 1 \in 0..MaxReq
          /\ "TX_FAILED" \in Verdicts /\ FALSE \in BOOLEAN
      BY <1>4 DEF IInv, Types, Verdicts
    <3> QED BY <1>1, <1>2, <3>1, TellTypes
  <2>2. HistoryTypes'
    BY <1>1, <1>2, <1>4, <2>1 DEF IInv, Types, HistoryTypes
  <2> QED BY <1>2, <1>5, <2>1, <2>2 DEF IInv, Types, BatchTypes, QueueTypes,
          CountTypes, callVars
<1>7. ~req'.active
  BY <1>2
<1>8. Phase'
  BY <1>2, <1>7 DEF IInv, Accounts, Phase
<1>9. IdsCounted'
  <2> DEFINE P == cur * MaxAttempts
  <2>1. txNext <= P + 1
    BY <1>2 DEF IInv, Accounts, IdsCounted
  <2>2. (cur + 1) * MaxAttempts = P + MaxAttempts /\ P \in Int
    BY <1>1, Bounds
  <2> HIDE DEF P
  <2>3. txNext' <= (P + MaxAttempts) + 1
    BY <1>1, <1>2, <2>1, <2>2, Bounds
  <2>4. txNext' <= cur' * MaxAttempts + 1
    BY <1>2, <2>2, <2>3
  <2> QED BY <1>7, <2>4 DEF IdsCounted
<1>10. SentCounted'
  BY <1>1, <1>2, <1>7, Bounds DEF IInv, Accounts, SentCounted, Reqs
<1> QED BY <1>4, <1>6, <1>8, <1>9, <1>10 DEF IInv, Accounts

LEMMA RequestCases ==
  ASSUME NEW a \in Apps, RequestBody(a)
  PROVE  \/ Served(a) \/ Refused(a)
         \/ /\ Leave(a) /\ req.active
            /\ UNCHANGED <<ctxVars, batch, queue, envVars, callVars, histVars>>
  BY DEF RequestBody, Served, Refused, envVars, histVars

LEMMA RequestKeeps ==
  ASSUME IInv, NEW a \in Apps, RequestBody(a)
  PROVE  IInv'
  BY RequestCases, ServedKeeps, RefusedKeeps, LeaveKeeps, ThreadsNamed

----------------------------------------------------------------------------
(* Steps between the critical sections.                                    *)

LEMMA CallRequestKeeps ==
  ASSUME IInv, NEW a \in Apps, NEW dst \in Wants[a], CallRequest(a, dst)
  PROVE  IInv'
<1> DEFINE j == [op |-> "request", dst |-> dst]
<1>1. dst \in Dsts /\ a \in Threads
  BY WantsAssumption, ThreadsNamed
<1>2. j \in Jobs
  BY <1>1, JobsTyped
<1>3. /\ pc[a] = "idle" /\ pc' = [pc EXCEPT ![a] = "lock"]
      /\ job' = [job EXCEPT ![a] = j] /\ asked < MaxReq /\ asked' = asked + 1
      /\ UNCHANGED <<ctxVars, mutex, note, batch, queue, envVars, cancels,
                     grants, histVars>>
  BY DEF CallRequest, Begin
<1>4. ThreadTypes /\ asked \in 0..MaxReq
  BY DEF IInv, Types, CountTypes
<1>5. Callers' = Callers \cup {a} /\ a \notin Callers
  <2>1. \A b \in Apps : b # a => pc'[b] = pc[b] /\ job'[b] = job[b]
    BY <1>3, <1>4, ThreadsNamed DEF ThreadTypes
  <2>2. pc'[a] = "lock" /\ job'[a] = j
    BY <1>1, <1>3, <1>4 DEF ThreadTypes
  <2> QED BY <1>3, <2>1, <2>2 DEF Callers
<1>6. ThreadTypes'
  BY <1>2, <1>3, <1>4 DEF ThreadTypes
<1> HIDE DEF j
<1>7. Types'
  BY <1>3, <1>4, <1>6, Bounds DEF IInv, Types, ContextTypes, BatchTypes,
     QueueTypes, CountTypes, HistoryTypes, ctxVars, envVars, histVars
<1>8. CallsCounted'
  BY <1>3, <1>5, CountCall DEF histVars
<1>9. Accounts'
  BY <1>3, <1>8, AccountsStay DEF ctxVars, histVars
<1> QED BY <1>7, <1>9 DEF IInv

LEMMA CallCancelKeeps ==
  ASSUME IInv, NEW a \in Apps, CallCancel(a)
  PROVE  IInv'
<1>1. /\ pc[a] = "idle" /\ pc' = [pc EXCEPT ![a] = "lock"]
      /\ job' = [job EXCEPT ![a] = [op |-> "cancel"]]
      /\ cancels < MaxCancels /\ cancels' = cancels + 1
      /\ UNCHANGED <<ctxVars, mutex, note, batch, queue, envVars, asked,
                     grants, histVars>>
  BY DEF CallCancel, Begin
<1>2. ThreadTypes /\ cancels \in 0..MaxCancels /\ a \in Threads
  BY ThreadsNamed DEF IInv, Types, CountTypes
<1>3. ThreadTypes'
  BY <1>1, <1>2, JobsTyped DEF ThreadTypes
<1>4. Types'
  BY <1>1, <1>2, <1>3, Bounds DEF IInv, Types, ContextTypes, BatchTypes,
     QueueTypes, CountTypes, HistoryTypes, ctxVars, envVars, histVars
<1>5. Callers' = Callers
  <2>1. \A b \in Apps : b # a => pc'[b] = pc[b] /\ job'[b] = job[b]
    BY <1>1, <1>2, ThreadsNamed DEF ThreadTypes
  <2>2. job'[a].op = "cancel"
    BY <1>1, <1>2 DEF ThreadTypes
  <2> QED BY <1>1, <2>1, <2>2 DEF Callers
<1>6. Accounts'
  BY <1>1, <1>5, CountStay, AccountsStay DEF ctxVars, histVars
<1> QED BY <1>4, <1>6 DEF IInv

LEMMA LockKeeps ==
  ASSUME IInv, NEW th \in Threads, Lock(th)
  PROVE  IInv'
<1>1. ThreadTypes /\ pc[th] = "lock" /\ pc' = [pc EXCEPT ![th] = "inside"] /\ job' = job
      /\ UNCHANGED <<ctxVars, note, batch, queue, envVars, callVars, histVars>>
  BY DEF Lock, IInv, Types
<1>2. ThreadTypes'
  BY <1>1 DEF ThreadTypes, Lock
<1>3. Types'
  BY <1>1, <1>2 DEF IInv, Types, ContextTypes, BatchTypes, QueueTypes,
     CountTypes, HistoryTypes, ctxVars, envVars, callVars, histVars
<1>4. Callers' = Callers
  BY <1>1, CallersStay
<1>5. Accounts'
  BY <1>1, <1>4, CountStay, AccountsStay DEF ctxVars, callVars, histVars
<1> QED BY <1>3, <1>5 DEF IInv

LEMMA TellKeeps ==
  ASSUME IInv, NEW th \in Threads, Tell(th)
  PROVE  IInv'
<1> DEFINE r == note[th].req
           p == IF note[th].again THEN "unlock" ELSE "idle"
<1>1. /\ ThreadTypes /\ pc[th] = "tell" /\ pc' = [pc EXCEPT ![th] = p] /\ job' = job
      /\ told' = [told EXCEPT ![r] = @ + 1] /\ note' = [note EXCEPT ![th] = NoNote]
      /\ UNCHANGED <<ctxVars, mutex, batch, queue, envVars, callVars, cur, sent,
                     verdict>>
  BY DEF Tell, IInv, Types
<1>2. p \in {"unlock", "idle"}
  OBVIOUS
<1> HIDE DEF p, r
<1>3. ThreadTypes'
  BY <1>1, <1>2, NoNoteTyped DEF ThreadTypes
<1>4. told' \in [Reqs -> Nat]
  <2>1. told \in [Reqs -> Nat]
    BY DEF IInv, Types, HistoryTypes
  <2>2. CASE r \in Reqs
    <3>1. told[r] + 1 \in Nat
      BY <2>1, <2>2
    <3> QED BY <1>1, <2>1, <3>1
  <2>3. CASE r \notin Reqs
    BY <1>1, <2>1, <2>3
  <2> QED BY <2>2, <2>3
<1>5. Types'
  BY <1>1, <1>3, <1>4 DEF IInv, Types, ContextTypes, BatchTypes, QueueTypes,
     CountTypes, HistoryTypes, ctxVars, envVars, callVars
<1>6. Callers' = Callers
  BY <1>1, <1>2, CallersStay
<1>7. Accounts'
  BY <1>1, <1>6, CountStay, AccountsStay DEF ctxVars, callVars
<1> QED BY <1>5, <1>7 DEF IInv

LEMMA UnlockAgainKeeps ==
  ASSUME IInv, NEW th \in Threads, UnlockAgain(th)
  PROVE  IInv'
<1>1. ThreadTypes /\ pc[th] = "unlock" /\ pc' = [pc EXCEPT ![th] = "idle"] /\ job' = job
      /\ UNCHANGED <<ctxVars, note, batch, queue, envVars, callVars, histVars>>
  BY DEF UnlockAgain, IInv, Types
<1>2. ThreadTypes'
  BY <1>1 DEF ThreadTypes, UnlockAgain
<1>3. Types'
  BY <1>1, <1>2 DEF IInv, Types, ContextTypes, BatchTypes, QueueTypes,
     CountTypes, HistoryTypes, ctxVars, envVars, callVars, histVars
<1>4. Callers' = Callers
  BY <1>1, CallersStay
<1>5. Accounts'
  BY <1>1, <1>4, CountStay, AccountsStay DEF ctxVars, callVars, histVars
<1> QED BY <1>3, <1>5 DEF IInv

LEMMA EpollWaitKeeps == IInv /\ EpollWait => IInv'
<1> SUFFICES ASSUME IInv, EpollWait PROVE IInv'
  OBVIOUS
<1>1. /\ batch' = Ready
      /\ UNCHANGED <<ctxVars, mutex, pc, job, note, queue, envVars, callVars,
                     histVars>>
  BY DEF EpollWait
<1>2. Ready \subseteq Timers \cup {"conf", "rx"}
  BY DEF Ready
<1>3. Types'
  BY <1>1, <1>2 DEF IInv, Types, ContextTypes, BatchTypes, QueueTypes,
     CountTypes, HistoryTypes, ThreadTypes, ctxVars, envVars, callVars, histVars
<1>4. Callers' = Callers
  BY <1>1 DEF Callers
<1>5. Accounts'
  BY <1>1, <1>4, CountStay, AccountsStay DEF ctxVars, callVars, histVars
<1> QED BY <1>3, <1>5 DEF IInv

\* The worker takes up an event.
LEMMA EventKeeps ==
  ASSUME IInv, NEW j \in Jobs, j.op # "request", Begin("worker", j),
         UNCHANGED <<state, req, txNext, mutex, note, mac, callVars, histVars>>,
         tmr' \in [Timers -> Timer], BatchTypes', QueueTypes'
  PROVE  IInv'
<1>1. /\ ThreadTypes /\ pc["worker"] = "idle" /\ pc' = [pc EXCEPT !["worker"] = "lock"]
      /\ job' = [job EXCEPT !["worker"] = j]
  BY DEF Begin, IInv, Types
<1>2. ThreadTypes'
  BY <1>1 DEF ThreadTypes
<1>3. Types'
  BY <1>2 DEF IInv, Types, ContextTypes, CountTypes, HistoryTypes, callVars, histVars
<1>4. Callers' = Callers
  <2>1. \A a \in Apps : pc'[a] = pc[a] /\ job'[a] = job[a]
    BY <1>1, ThreadsNamed DEF ThreadTypes
  <2> QED BY <2>1 DEF Callers
<1>5. Accounts'
  BY <1>4, CountStay, AccountsStay DEF callVars, histVars
<1> QED BY <1>3, <1>5 DEF IInv

LEMMA TimerReadyKeeps ==
  ASSUME IInv, NEW t \in Timers, TimerReady(t)
  PROVE  IInv'
<1> DEFINE j == [op |-> t]
<1>1. j \in Jobs /\ j.op # "request"
  BY JobsTyped DEF Timers
<1>2. Begin("worker", j)
  BY DEF TimerReady
<1> HIDE DEF j
<1>3. tmr' \in [Timers -> Timer]
  BY TimersTyped DEF TimerReady, IInv, Types, ContextTypes
<1>4. BatchTypes' /\ QueueTypes'
  BY DEF TimerReady, IInv, Types, BatchTypes, QueueTypes, envVars
<1>5. UNCHANGED <<state, req, txNext, mutex, note, mac, callVars, histVars>>
  BY DEF TimerReady, envVars
<1> QED BY <1>1, <1>2, <1>3, <1>4, <1>5, EventKeeps

LEMMA QueueRead ==
  ASSUME NEW S, NEW q \in Seq(S), q # <<>>
  PROVE  /\ Head(q) \in S /\ Tail(q) \in Seq(S)
         /\ Len(q) \in Nat /\ Len(Tail(q)) = Len(q) - 1
  OBVIOUS

LEMMA ConfReadyKeeps == IInv /\ ConfReady => IInv'
<1> SUFFICES ASSUME IInv, ConfReady PROVE IInv'
  OBVIOUS
<1> DEFINE j == [op |-> "conf", msg |-> Head(confQ)]
<1>1. /\ confQ # <<>> /\ confQ \in Seq(TxConf) /\ confQ' = Tail(confQ) /\ rxQ' = rxQ
      /\ Begin("worker", j) /\ queue' = "conf" /\ batch' = batch
      /\ UNCHANGED <<ctxVars, mutex, note, mac, callVars, histVars>>
  BY DEF ConfReady, MessageReady, IInv, Types, QueueTypes
<1>2. /\ Head(confQ) \in TxConf /\ Tail(confQ) \in Seq(TxConf)
      /\ Len(confQ) \in Nat /\ Len(Tail(confQ)) = Len(confQ) - 1
  BY <1>1, QueueRead
<1>3. j \in Jobs /\ j.op # "request"
  BY <1>2, JobsTyped
<1> HIDE DEF j
<1>4. BatchTypes' /\ QueueTypes'
  BY <1>1, <1>2, Bounds DEF IInv, Types, BatchTypes, QueueTypes
<1>5. tmr' \in [Timers -> Timer]
  BY <1>1 DEF IInv, Types, ContextTypes, ctxVars
<1>6. UNCHANGED <<state, req, txNext, mutex, note, mac, callVars, histVars>>
  BY <1>1 DEF ctxVars
<1> QED BY <1>1, <1>3, <1>4, <1>5, <1>6, EventKeeps

LEMMA RxReadyKeeps == IInv /\ RxReady => IInv'
<1> SUFFICES ASSUME IInv, RxReady PROVE IInv'
  OBVIOUS
<1> DEFINE j == [op |-> "rx", msg |-> Head(rxQ)]
<1>1. /\ rxQ # <<>> /\ rxQ \in Seq(Grant) /\ rxQ' = Tail(rxQ) /\ confQ' = confQ
      /\ Begin("worker", j) /\ queue' = "rx" /\ batch' = batch
      /\ UNCHANGED <<ctxVars, mutex, note, mac, callVars, histVars>>
  BY DEF RxReady, MessageReady, IInv, Types, QueueTypes
<1>2. /\ Head(rxQ) \in Grant /\ Tail(rxQ) \in Seq(Grant)
      /\ Len(rxQ) \in Nat /\ Len(Tail(rxQ)) = Len(rxQ) - 1
  BY <1>1, QueueRead
<1>3. j \in Jobs /\ j.op # "request"
  BY <1>2, JobsTyped
<1> HIDE DEF j
<1>4. BatchTypes' /\ QueueTypes'
  BY <1>1, <1>2, Bounds DEF IInv, Types, BatchTypes, QueueTypes
<1>5. tmr' \in [Timers -> Timer]
  BY <1>1 DEF IInv, Types, ContextTypes, ctxVars
<1>6. UNCHANGED <<state, req, txNext, mutex, note, mac, callVars, histVars>>
  BY <1>1 DEF ctxVars
<1> QED BY <1>1, <1>3, <1>4, <1>5, <1>6, EventKeeps

\* Steps that no thread takes, and that leave the request alone.
LEMMA OutsideKeeps ==
  ASSUME IInv, BatchTypes', QueueTypes', CountTypes', tmr' \in [Timers -> Timer],
         UNCHANGED <<state, req, txNext, mutex, pc, job, note, asked, histVars>>
  PROVE  IInv'
<1>1. Types'
  BY DEF IInv, Types, ContextTypes, ThreadTypes, HistoryTypes, histVars
<1>2. Callers' = Callers
  BY DEF Callers
<1>3. Accounts'
  BY <1>2, CountStay, AccountsStay DEF histVars
<1> QED BY <1>1, <1>3 DEF IInv

LEMMA QueueEmptyKeeps ==
  ASSUME IInv, NEW q, NEW msgs, QueueEmpty(q, msgs)
  PROVE  IInv'
<1>1. BatchTypes' /\ QueueTypes' /\ CountTypes' /\ tmr' \in [Timers -> Timer]
  BY DEF QueueEmpty, IInv, Types, BatchTypes, QueueTypes, CountTypes,
     ContextTypes, ctxVars, envVars, callVars
<1> QED BY <1>1, OutsideKeeps DEF QueueEmpty, ctxVars, callVars

LEMMA ExpireKeeps ==
  ASSUME IInv, NEW t \in Timers, Expire(t)
  PROVE  IInv'
<1>1. tmr' \in [Timers -> Timer]
  BY TimersTyped DEF Expire, IInv, Types, ContextTypes
<1>2. BatchTypes' /\ QueueTypes' /\ CountTypes'
  BY DEF Expire, IInv, Types, BatchTypes, QueueTypes, CountTypes, envVars, callVars
<1> QED BY <1>1, <1>2, OutsideKeeps DEF Expire, callVars

LEMMA QueueGrows ==
  ASSUME NEW S, NEW q \in Seq(S), NEW e \in S, Len(q) < QDepth
  PROVE  Append(q, e) \in Seq(S) /\ Len(Append(q, e)) <= QDepth
  BY Bounds

LEMMA MacAnswersKeeps ==
  ASSUME IInv, NEW id \in mac, NEW ok \in BOOLEAN, MacAnswers(id, ok)
  PROVE  IInv'
<1> DEFINE conf == [id |-> id, ok |-> ok]
<1>1. /\ Len(confQ) < QDepth /\ mac' \subseteq mac
      /\ confQ' = Append(confQ, conf)
      /\ UNCHANGED <<ctxVars, mutex, pc, job, note, batch, queue, rxQ, callVars,
                     histVars>>
  BY DEF MacAnswers
<1>2. conf \in TxConf /\ confQ \in Seq(TxConf)
  BY DEF IInv, Types, QueueTypes, TxConf
<1> HIDE DEF conf
<1>3. QueueTypes'
  BY <1>1, <1>2, QueueGrows DEF IInv, Types, QueueTypes
<1>4. BatchTypes' /\ CountTypes' /\ tmr' \in [Timers -> Timer]
  BY <1>1 DEF IInv, Types, BatchTypes, CountTypes, ContextTypes, ctxVars, callVars
<1> QED BY <1>1, <1>3, <1>4, OutsideKeeps DEF ctxVars, callVars

LEMMA GrantArrivesKeeps ==
  ASSUME IInv, NEW dst \in Dsts, GrantArrives(dst)
  PROVE  IInv'
<1> DEFINE g == [dst |-> dst]
<1>1. /\ grants < MaxGrants /\ Len(rxQ) < QDepth /\ grants' = grants + 1
      /\ rxQ' = Append(rxQ, g)
      /\ UNCHANGED <<ctxVars, mutex, pc, job, note, batch, queue, confQ, mac,
                     asked, cancels, histVars>>
  BY DEF GrantArrives
<1>2. g \in Grant /\ rxQ \in Seq(Grant)
  BY DEF IInv, Types, QueueTypes, Grant
<1> HIDE DEF g
<1>3. QueueTypes'
  BY <1>1, <1>2, QueueGrows DEF IInv, Types, QueueTypes
<1>4. BatchTypes' /\ CountTypes' /\ tmr' \in [Timers -> Timer]
  BY <1>1, Bounds DEF IInv, Types, BatchTypes, CountTypes, ContextTypes, ctxVars
<1> QED BY <1>1, <1>3, <1>4, OutsideKeeps DEF ctxVars

----------------------------------------------------------------------------
(* Type correctness and the bound on attempts.                             *)

LEMMA InitInv == Init => IInv
<1> SUFFICES ASSUME Init PROVE IInv
  OBVIOUS
<1>1. ContextTypes
  <2>1. (CHOOSE d \in Dsts : TRUE) \in Dsts
    BY WantsAssumption
  <2>2. 0 \in 0..(MaxAttempts - 1) /\ 0 \in TxIds
    BY Bounds DEF TxIds
  <2>3. Off \in Timer
    BY DEF Off, Timer
  <2> QED BY <2>1, <2>2, <2>3 DEF Init, ContextTypes, States
<1>2. ThreadTypes
  BY JobsTyped, NoNoteTyped DEF Init, ThreadTypes
<1>3. BatchTypes /\ QueueTypes /\ CountTypes /\ HistoryTypes
  BY Bounds DEF Init, BatchTypes, QueueTypes, CountTypes, HistoryTypes, Reqs
<1>4. CallsCounted
  <2>1. Callers = {}
    BY ThreadsNamed DEF Init, Callers
  <2> QED BY <2>1, FS_EmptySet DEF Init, CallsCounted
<1>5. Phase /\ SentCounted
  BY Bounds DEF Init, Phase, SentCounted, Reqs
<1>6. IdsCounted
  BY Bounds DEF Init, IdsCounted
<1> QED BY <1>1, <1>2, <1>3, <1>4, <1>5, <1>6 DEF IInv, Types, Accounts

LEMMA NextInv == IInv /\ [Next]_vars => IInv'
<1> SUFFICES ASSUME IInv, [Next]_vars PROVE IInv'
  OBVIOUS
<1>1. CASE WorkerStep
  BY <1>1, EpollWaitKeeps, TimerReadyKeeps, ConfReadyKeeps, RxReadyKeeps,
     QueueEmptyKeeps, LockKeeps, TellKeeps, UnlockAgainKeeps, HandleTxConfKeeps,
     HandleGrantWaitKeeps, HandleHoldoffKeeps, HandleGrantKeeps, ThreadsNamed
  DEF WorkerStep
<1>2. ASSUME NEW a \in Apps,
             AppStep(a) \/ CallCancel(a) \/ \E dst \in Wants[a] : CallRequest(a, dst)
      PROVE  IInv'
  BY <1>2, LockKeeps, RequestKeeps, CancelKeeps, TellKeeps, CallCancelKeeps,
     CallRequestKeeps, ThreadsNamed
  DEF AppStep
<1>3. ASSUME NEW t \in Timers, Expire(t) PROVE IInv'
  BY <1>3, ExpireKeeps
<1>4. ASSUME NEW id \in mac, NEW ok \in BOOLEAN, MacAnswers(id, ok) PROVE IInv'
  BY <1>4, MacAnswersKeeps
<1>5. ASSUME NEW dst \in Dsts, GrantArrives(dst) PROVE IInv'
  BY <1>5, GrantArrivesKeeps
<1>6. CASE UNCHANGED vars
  <2>1. UNCHANGED <<ctxVars, mutex, pc, job, note, batch, queue, envVars,
                    callVars, histVars>>
    BY <1>6 DEF vars
  <2>2. BatchTypes' /\ QueueTypes' /\ CountTypes' /\ tmr' \in [Timers -> Timer]
    BY <2>1 DEF IInv, Types, BatchTypes, QueueTypes, CountTypes, ContextTypes,
       ctxVars, envVars, callVars
  <2> QED BY <2>1, <2>2, OutsideKeeps DEF ctxVars, callVars
<1> QED BY <1>1, <1>2, <1>3, <1>4, <1>5, <1>6 DEF Next

LEMMA InvAlways == Spec => []IInv
<1> QED BY InitInv, NextInv, PTL DEF Spec

\* However calls, time-outs, refusals and grants interleave, every variable of
\* the client stays in its type: the attempt counter below
\* T3_RAND_MAX_ATTEMPTS, the queues within their depth, and no more request
\* numbers used up than the attempts of the accepted requests.
THEOREM TypeCorrect == Spec => []TypeOK
  BY InvAlways, InvImplies, PTL

\* No request is transmitted more often than T3_RAND_MAX_ATTEMPTS, and the
\* open one no more often than its attempt counter says
\* (t3_trunk_retry_or_fail_locked()).
THEOREM AttemptsAlwaysBounded == Spec => []AttemptsBounded
  BY InvAlways, InvImplies, PTL

----------------------------------------------------------------------------
(* An open request is always being watched.                                *)

\* Steps of others than the worker, and of the worker between its jobs.
LEMMA WatchedStays ==
  ASSUME IInv, OpenWatched, UNCHANGED <<req, state>>,
         \A t \in Timers : Live(t) => Live(t)',
         \A t \in Timers : Handling(t) => Handling(t)' \/ Live(t)'
  PROVE  OpenWatched'
  BY TimersNamed DEF OpenWatched

\* The worker has no timer in its hands.
Empty == \A t \in Timers : ~Handling(t)

LEMMA WatchedWhenEmpty ==
  ASSUME OpenWatched, Empty, UNCHANGED <<req, state>>,
         \A t \in Timers : Live(t) => Live(t)' \/ Handling(t)'
  PROVE  OpenWatched'
  BY TimersNamed DEF OpenWatched, Empty

LEMMA SameTimers ==
  tmr' = tmr => \A t \in Timers : Live(t) => Live(t)'
  BY DEF Live

\* Steps that leave the worker and the timers alone.
LEMMA WatchedElsewhere ==
  ASSUME IInv, OpenWatched, UNCHANGED <<req, state, tmr>>,
         pc'["worker"] = pc["worker"], job'["worker"] = job["worker"]
  PROVE  OpenWatched'
  BY DEF OpenWatched, Live, Handling

LEMMA WatchedApps ==
  ASSUME IInv, OpenWatched, NEW a \in Apps, NEW p, NEW j,
         pc' = [pc EXCEPT ![a] = p], job' \in {job, [job EXCEPT ![a] = j]},
         UNCHANGED <<req, state, tmr>>
  PROVE  OpenWatched'
<1>1. pc'["worker"] = pc["worker"] /\ job'["worker"] = job["worker"]
  BY ThreadsNamed DEF IInv, Types, ThreadTypes
<1> QED BY <1>1, WatchedElsewhere

\* Nothing is open after these.
LEMMA WatchedClosed ==
  ASSUME IInv, NEW th, NEW v, NEW again, Close(th, v, again)
  PROVE  OpenWatched'
  BY DEF IInv, Types, ContextTypes, Close, Closed, OpenWatched

LEMMA WatchedRetry ==
  ASSUME IInv, RetryOrFail, WorkerOnly, req.active
  PROVE  OpenWatched'
<1>1. CASE FinishLocked("TIMEOUT", TRUE)
  BY <1>1, FinishIsClose, WatchedClosed DEF Verdicts
<1>2. CASE RetryWith(Arm(tmr, "holdoff", 0))
  <2>1. tmr'["holdoff"].kern = "running"
    BY <1>2, TimersTyped, TimersNamed DEF RetryWith, IInv, Types, ContextTypes
  <2>2. Live("holdoff")' /\ state' = "HOLDOFF"
    BY <1>2, <2>1 DEF Live, RetryWith
  <2> QED BY <2>2 DEF OpenWatched
<1> QED BY <1>1, <1>2 DEF RetryOrFail

\* A handler ignores what it woke up for only when the request waits for
\* something else.
LEMMA WatchedIgnore ==
  ASSUME IInv, OpenWatched, Ignore,
         req.active => ~(state = "GRANT_WAIT" /\ Handling("grantwait"))
                       /\ ~(state = "HOLDOFF" /\ Handling("holdoff"))
  PROVE  OpenWatched'
  BY DEF OpenWatched, Live, Ignore, ctxVars

LEMMA WatchedHandlers ==
  ASSUME IInv, OpenWatched,
         HandleTxConf \/ HandleGrantWait \/ HandleHoldoff \/ HandleGrant
  PROVE  OpenWatched'
<1>1. CASE HandleTxConf
  <2>1. CASE Ignore
    BY <1>1, <2>1, WatchedIgnore DEF HandleTxConf, Inside, Handling
  <2> QED BY <1>1, <2>1, WatchedRetry DEF HandleTxConf
<1>2. CASE HandleGrantWait
  <2>1. CASE ~(req.active /\ state = "GRANT_WAIT") /\ Ignore
    BY <1>2, <2>1, WatchedIgnore DEF HandleGrantWait, Inside, Handling
  <2> QED BY <1>2, <2>1, WatchedRetry DEF HandleGrantWait
<1>3. CASE HandleHoldoff
  <2>1. CASE ~(req.active /\ state = "HOLDOFF") /\ Ignore
    BY <1>3, <2>1, WatchedIgnore DEF HandleHoldoff, Inside, Handling
  <2>2. CASE Resubmit
    <3>1. tmr'["grantwait"].kern = "running"
      BY <2>2, TimersTyped, TimersNamed DEF Resubmit, IInv, Types, ContextTypes
    <3>2. Live("grantwait")' /\ state' = "GRANT_WAIT"
      BY <2>2, <3>1 DEF Live, Resubmit
    <3> QED BY <3>2 DEF OpenWatched
  <2>3. CASE /\ req.active /\ state = "HOLDOFF" /\ SubmitFails
             /\ tmr' = BothDisarmed /\ req' = Closed /\ state' = "IDLE"
             /\ LeaveToTell("worker", cur, "TX_FAILED", FALSE) /\ WorkerOnly
    BY <2>3, HoldoffFailIsClose, WatchedClosed
  <2> QED BY <1>3, <2>1, <2>2, <2>3 DEF HandleHoldoff, Resubmit
<1>4. CASE HandleGrant
  <2>1. CASE Ignore
    BY <1>4, <2>1, WatchedIgnore DEF HandleGrant, Inside, Handling
  <2>2. CASE req.active /\ FinishLocked("OK", FALSE) /\ WorkerOnly
    BY <2>2, FinishIsClose, WatchedClosed DEF Verdicts
  <2> QED BY <1>4, <2>1, <2>2 DEF HandleGrant
<1> QED BY <1>1, <1>2, <1>3, <1>4

LEMMA WatchedBodies ==
  ASSUME IInv, OpenWatched, NEW a \in Apps, RequestBody(a) \/ CancelBody(a)
  PROVE  OpenWatched'
<1>1. CASE Served(a)
  <2>1. tmr'["grantwait"].kern = "running"
    BY <1>1, TimersTyped, TimersNamed DEF Served, IInv, Types, ContextTypes
  <2>2. Live("grantwait")' /\ state' = "GRANT_WAIT"
    BY <1>1, <2>1 DEF Live, Served
  <2> QED BY <2>2 DEF OpenWatched
<1>2. CASE Refused(a)
  BY <1>2 DEF Refused, OpenWatched
<1>3. CASE Leave(a) /\ UNCHANGED ctxVars
  BY <1>3, WatchedApps DEF Leave, ctxVars
<1>4. CASE CancelBody(a) /\ req.active
  BY <1>4, CancelIsClose, WatchedClosed
<1>5. CASE CancelBody(a) /\ ~req.active
  BY <1>3, <1>5 DEF CancelBody
<1> QED BY <1>1, <1>2, <1>3, <1>4, <1>5, RequestCases

LEMMA WatchedTimerReady ==
  ASSUME IInv, OpenWatched, NEW t \in Timers, TimerReady(t)
  PROVE  OpenWatched'
<1>1. /\ pc["worker"] = "idle" /\ tmr' = Drain(tmr, t)
      /\ pc' = [pc EXCEPT !["worker"] = "lock"]
      /\ job' = [job EXCEPT !["worker"] = [op |-> t]]
      /\ UNCHANGED <<state, req>>
  BY DEF TimerReady, Begin
<1>2. Empty
  BY <1>1 DEF Empty, Handling
<1>3. Handling(t)'
  BY <1>1, ThreadsNamed DEF Handling, IInv, Types, ThreadTypes
<1>4. \A u \in Timers \ {t} : tmr'[u] = tmr[u]
  BY <1>1, TimersTyped DEF IInv, Types, ContextTypes
<1>5. \A u \in Timers : Live(u) => Live(u)' \/ Handling(u)'
  BY <1>3, <1>4 DEF Live
<1> QED BY <1>1, <1>2, <1>5, WatchedWhenEmpty

\* A thread that locks, reports or unlocks.
LEMMA WatchedThread ==
  ASSUME IInv, OpenWatched, NEW th \in Threads,
         Lock(th) \/ Tell(th) \/ UnlockAgain(th)
  PROVE  OpenWatched'
<1>1. UNCHANGED <<req, state, tmr, job>>
  BY DEF Lock, Tell, UnlockAgain, ctxVars
<1>2. pc["worker"] \in {"lock", "inside"} => pc'["worker"] \in {"lock", "inside"}
  <2>1. CASE Lock(th)
    BY <2>1 DEF Lock, IInv, Types, ThreadTypes
  <2>2. ASSUME NEW p, pc' = [pc EXCEPT ![th] = p], pc[th] \in {"tell", "unlock"}
        PROVE  pc["worker"] \in {"lock", "inside"} => pc'["worker"] = pc["worker"]
    BY <2>2 DEF IInv, Types, ThreadTypes
  <2>3. CASE Tell(th)
    BY <2>2, <2>3 DEF Tell
  <2>4. CASE UnlockAgain(th)
    BY <2>2, <2>4 DEF UnlockAgain
  <2> QED BY <2>1, <2>3, <2>4
<1>3. \A t \in Timers : Handling(t) => Handling(t)'
  BY <1>1, <1>2 DEF Handling
<1> QED BY <1>1, <1>3, WatchedStays, SameTimers

LEMMA WatchedMessage ==
  ASSUME IInv, OpenWatched, ConfReady \/ RxReady
  PROVE  OpenWatched'
<1>1. UNCHANGED <<req, state, tmr>> /\ pc["worker"] = "idle"
  BY DEF ConfReady, RxReady, MessageReady, Begin, ctxVars
<1>2. Empty
  BY <1>1 DEF Empty, Handling
<1> QED BY <1>1, <1>2, WatchedWhenEmpty, SameTimers

LEMMA WatchedExpire ==
  ASSUME IInv, OpenWatched, NEW t \in Timers, Expire(t)
  PROVE  OpenWatched'
<1>1. /\ tmr' = Expired(tmr, t) /\ UNCHANGED <<req, state, pc, job>>
  BY DEF Expire
<1>2. tmr'[t].kern = "expired" /\ \A u \in Timers \ {t} : tmr'[u] = tmr[u]
  BY <1>1, TimersTyped DEF IInv, Types, ContextTypes
<1>3. \A u \in Timers : Live(u) => Live(u)'
  BY <1>2 DEF Live
<1>4. \A u \in Timers : Handling(u) => Handling(u)'
  BY <1>1 DEF Handling
<1> QED BY <1>1, <1>3, <1>4, WatchedStays

LEMMA WatchedNext == IInv /\ OpenWatched /\ [Next]_vars => OpenWatched'
<1> SUFFICES ASSUME IInv, OpenWatched, [Next]_vars PROVE OpenWatched'
  OBVIOUS
<1>1. CASE EpollWait
  BY <1>1, WatchedElsewhere DEF EpollWait, ctxVars
<1>2. ASSUME NEW q, NEW msgs, QueueEmpty(q, msgs) PROVE OpenWatched'
  BY <1>2, WatchedElsewhere DEF QueueEmpty, ctxVars
<1>3. CASE WorkerStep
  BY <1>1, <1>2, <1>3, WatchedTimerReady, WatchedMessage, WatchedThread,
     WatchedHandlers, ThreadsNamed
  DEF WorkerStep
<1>4. ASSUME NEW a \in Apps, AppStep(a) PROVE OpenWatched'
  BY <1>4, WatchedThread, WatchedBodies, ThreadsNamed DEF AppStep
<1>5. ASSUME NEW a \in Apps,
             CallCancel(a) \/ \E dst \in Wants[a] : CallRequest(a, dst)
      PROVE  OpenWatched'
  BY <1>5, WatchedApps DEF CallCancel, CallRequest, Begin, ctxVars
<1>6. ASSUME NEW t \in Timers, Expire(t) PROVE OpenWatched'
  BY <1>6, WatchedExpire
<1>7. ASSUME NEW id \in mac, NEW ok \in BOOLEAN, MacAnswers(id, ok)
      PROVE  OpenWatched'
  BY <1>7, WatchedElsewhere DEF MacAnswers, ctxVars
<1>8. ASSUME NEW dst \in Dsts, GrantArrives(dst) PROVE OpenWatched'
  BY <1>8, WatchedElsewhere DEF GrantArrives, ctxVars
<1>9. CASE UNCHANGED vars
  BY <1>9, WatchedElsewhere DEF vars, ctxVars
<1> QED BY <1>3, <1>4, <1>5, <1>6, <1>7, <1>8, <1>9 DEF Next

\* Whatever cancel and request do between the worker's reading of a timer and
\* its taking the lock, an open request has the timer of its state running,
\* expired or in the worker's hands: no interleaving leaves a request that
\* nothing will end (t3_trunk_thread(), t3_trunk_cancel()).
THEOREM OpenAlwaysWatched == Spec => []OpenWatched
<1>1. Init => OpenWatched
  BY DEF Init, OpenWatched
<1> QED BY <1>1, InvAlways, WatchedNext, PTL DEF Spec

----------------------------------------------------------------------------
(* The client implements TrunkService.                                     *)

\* Steps that neither open, decide nor report a request.
Quiet ==
  /\ UNCHANGED <<cur, verdict, told>> /\ req'.active = req.active
  /\ \A th \in Threads : pc'[th] = "tell" => pc[th] = "tell" /\ note'[th] = note[th]

Simulates == Reports' /\ [Service!Next]_(Service!vars)

LEMMA QuietSimulates ==
  ASSUME IInv, Reports, Quiet
  PROVE  Simulates
<1>1. Reports'
  BY DEF Reports, Quiet
<1>2. UNCHANGED Service!vars
  BY DEF Quiet, Service!vars
<1> QED BY <1>1, <1>2 DEF Simulates

\* A thread that does not go on to report.
LEMMA ThreadQuiet ==
  ASSUME IInv, NEW th \in Threads, NEW p, p # "tell",
         pc' = [pc EXCEPT ![th] = p], UNCHANGED <<note, cur, verdict, told>>,
         req'.active = req.active
  PROVE  Quiet
  BY DEF Quiet, IInv, Types, ThreadTypes

\* Thread th goes on to report a verdict of request r that nobody else has.
LEMMA ReportsGrow ==
  ASSUME IInv, Reports, NEW th \in Threads, NEW r \in 1..cur', NEW v \in Verdicts,
         NEW again, LeaveToTell(th, r, v, again), verdict[r] = "none",
         cur' \in cur..MaxReq, req'.active = FALSE, UNCHANGED told
  PROVE  Reports'
<1>1. /\ pc' = [pc EXCEPT ![th] = "tell"]
      /\ note' = [note EXCEPT ![th] = [req |-> r, again |-> again]]
      /\ verdict' = [verdict EXCEPT ![r] = v]
  BY DEF LeaveToTell
<1>2. /\ r \in Reqs /\ cur \in 0..MaxReq /\ v # "none" /\ cur' \in Nat
      /\ verdict \in [Reqs -> Verdicts \cup {"none"}]
      /\ pc \in [Threads -> {"idle", "lock", "inside", "tell", "unlock"}]
      /\ note \in [Threads -> [req : 0..MaxReq, again : BOOLEAN]]
  BY Bounds DEF IInv, Types, HistoryTypes, ThreadTypes, Reqs, Verdicts
<1>3. /\ verdict'[r] = v
      /\ \A s \in Reqs \ {r} : verdict'[s] = verdict[s]
      /\ pc'[th] = "tell" /\ note'[th].req = r
      /\ \A other \in Threads \ {th} :
           pc'[other] = pc[other] /\ note'[other] = note[other]
  BY <1>1, <1>2
<1>4. told[r] = 0
  BY <1>2 DEF Reports
<1>5. \A s \in Reqs : s > cur' => verdict'[s] = "none"
  BY <1>2, <1>3 DEF Reports, Reqs
<1>6. ASSUME NEW s \in Reqs, verdict'[s] = "none" PROVE told'[s] = 0
  <2>1. verdict[s] = "none" /\ told'[s] = told[s]
    BY <1>2, <1>3, <1>6
  <2> QED  BY <2>1 DEF Reports
<1>7. ASSUME NEW other \in Threads, other # th, pc'[other] = "tell"
      PROVE  /\ note'[other].req \in 1..cur' /\ note'[other].req # r
             /\ verdict'[note'[other].req] # "none" /\ told'[note'[other].req] = 0
  <2> DEFINE s == note[other].req
  <2>1. pc[other] = "tell" /\ note'[other] = note[other]
    BY <1>3, <1>7
  <2>2. s \in 1..cur /\ verdict[s] # "none" /\ told[s] = 0
    BY <2>1 DEF Reports
  <2>3. s \in Reqs /\ s \in 1..cur' /\ s # r
    BY <1>2, <2>2 DEF Reqs
  <2> HIDE DEF s
  <2>4. verdict'[s] # "none" /\ told'[s] = 0
    BY <1>3, <2>2, <2>3
  <2> QED BY <2>1, <2>3, <2>4 DEF s
<1>8. \A other \in Threads : pc'[other] = "tell" =>
        /\ note'[other].req \in 1..cur'
        /\ verdict'[note'[other].req] # "none" /\ told'[note'[other].req] = 0
  BY <1>2, <1>3, <1>4, <1>7
<1>9. \A one, other \in Threads :
        pc'[one] = "tell" /\ pc'[other] = "tell" /\ note'[one].req = note'[other].req
          => one = other
  <2> SUFFICES ASSUME NEW one \in Threads, NEW other \in Threads,
                      pc'[one] = "tell", pc'[other] = "tell",
                      note'[one].req = note'[other].req
               PROVE  one = other
    OBVIOUS
  <2>1. CASE one = th \/ other = th
    BY <1>3, <1>7, <2>1
  <2>2. CASE one # th /\ other # th
    BY <1>3, <2>2 DEF Reports
  <2> QED BY <2>1, <2>2
<1> QED BY <1>5, <1>6, <1>8, <1>9 DEF Reports

LEMMA CloseSimulates ==
  ASSUME IInv, Reports, NEW th, NEW v, NEW again, Close(th, v, again)
  PROVE  Simulates
<1>1. /\ th \in Threads /\ v \in Verdicts /\ LeaveToTell(th, cur, v, again)
      /\ req.active /\ req'.active = FALSE /\ UNCHANGED <<cur, told>>
  BY DEF Close, Closed, IInv, Types, ContextTypes
<1>2. cur \in 1..MaxReq /\ cur # 0
  BY <1>1, Bounds DEF IInv, Types, HistoryTypes, Accounts, Phase
<1>3. Reports'
  <2>1. verdict[cur] = "none" /\ cur \in 1..cur' /\ cur' \in cur..MaxReq
    BY <1>1, <1>2, Bounds DEF Reports
  <2> QED BY <1>1, <2>1, ReportsGrow
<1>4. Service!Decide
  <2>1. verdict' = [verdict EXCEPT ![cur] = v] /\ v \in Service!Verdicts
    BY <1>1 DEF LeaveToTell, Verdicts, Service!Verdicts
  <2> QED BY <1>1, <1>2, <2>1 DEF Service!Decide
<1> QED BY <1>3, <1>4 DEF Simulates, Service!Next

LEMMA RefusedSimulates ==
  ASSUME IInv, Reports, NEW a \in Apps, Refused(a)
  PROVE  Simulates
<1>1. /\ a \in Threads /\ LeaveToTell(a, cur + 1, "TX_FAILED", FALSE)
      /\ ~req.active /\ req'.active = FALSE /\ cur' = cur + 1 /\ UNCHANGED told
  BY ThreadsNamed DEF Refused
<1>2. cur + 1 \in 1..MaxReq /\ cur \in 0..MaxReq
  <2>1. Accepted(a)
    <3>1. pc'[a] = "tell" /\ pc' = [pc EXCEPT ![a] = pc'[a]]
      BY <1>1 DEF LeaveToTell, IInv, Types, ThreadTypes
    <3> QED BY <1>1, <3>1 DEF Accepted, Refused, LeaveToTell, SubmitFails
  <2> QED BY <2>1, AcceptedCounts DEF IInv, Types, HistoryTypes
<1>3. Reports'
  <2>1. /\ verdict[cur + 1] = "none" /\ cur + 1 \in 1..cur'
        /\ cur' \in cur..MaxReq /\ "TX_FAILED" \in Verdicts
    BY <1>1, <1>2, Bounds DEF Reports, Reqs, Verdicts
  <2> QED BY <1>1, <2>1, ReportsGrow
<1>4. Service!Accept
  BY <1>1, <1>2, Bounds DEF Service!Accept, LeaveToTell
<1> QED BY <1>3, <1>4 DEF Simulates, Service!Next

LEMMA ServedSimulates ==
  ASSUME IInv, Reports, NEW a \in Apps, Served(a)
  PROVE  Simulates
<1>1. /\ a \in Threads /\ Leave(a) /\ ~req.active /\ req'.active = TRUE
      /\ cur' = cur + 1 /\ UNCHANGED <<verdict, told>>
  BY ThreadsNamed DEF Served
<1>2. cur + 1 \in 1..MaxReq /\ cur \in 0..MaxReq
  <2>1. Accepted(a)
    <3>1. pc'[a] = "idle" /\ pc' = [pc EXCEPT ![a] = pc'[a]]
      BY <1>1 DEF Leave, IInv, Types, ThreadTypes
    <3> QED BY <1>1, <3>1 DEF Accepted, Served, Leave, SubmitRandAccess
  <2> QED BY <2>1, AcceptedCounts DEF IInv, Types, HistoryTypes
<1>3. Reports'
  <2>1. \A th \in Threads : pc'[th] = "tell" => pc[th] = "tell" /\ note'[th] = note[th]
    BY <1>1 DEF Leave, IInv, Types, ThreadTypes
  <2>2. verdict[cur + 1] = "none"
    BY <1>2, Bounds DEF Reports, Reqs
  <2>3. \A th \in Threads : pc'[th] = "tell" =>
          /\ note'[th].req \in 1..cur'
          /\ verdict'[note'[th].req] # "none" /\ told'[note'[th].req] = 0
    BY <1>1, <1>2, <2>1 DEF Reports
  <2>4. \A th, other \in Threads :
          pc'[th] = "tell" /\ pc'[other] = "tell" /\ note'[th].req = note'[other].req
            => th = other
    BY <2>1 DEF Reports
  <2> QED BY <1>1, <1>2, <2>2, <2>3, <2>4 DEF Reports, Reqs
<1>4. Service!Accept
  BY <1>1, <1>2, Bounds DEF Service!Accept
<1> QED BY <1>3, <1>4 DEF Simulates, Service!Next

LEMMA TellSimulates ==
  ASSUME IInv, Reports, NEW th \in Threads, Tell(th)
  PROVE  Simulates
<1> DEFINE r == note[th].req
           p == IF note[th].again THEN "unlock" ELSE "idle"
<1>1. /\ pc[th] = "tell" /\ told' = [told EXCEPT ![r] = @ + 1]
      /\ pc' = [pc EXCEPT ![th] = p] /\ note' = [note EXCEPT ![th] = NoNote]
      /\ UNCHANGED <<req, cur, verdict>>
  BY DEF Tell, ctxVars
<1>2. /\ r \in 1..cur /\ verdict[r] # "none" /\ told[r] = 0
      /\ \A other \in Threads : other # th /\ pc[other] = "tell" => note[other].req # r
  BY <1>1 DEF Reports
<1>3. p # "tell"
  OBVIOUS
<1> HIDE DEF r, p
<1>4. r \in Reqs /\ told' = [told EXCEPT ![r] = 1]
  BY <1>1, <1>2, Bounds DEF IInv, Types, HistoryTypes, Reqs
<1>5. Service!Tell(r) /\ r \in Service!Reqs
  BY <1>1, <1>2, <1>4 DEF Service!Tell, Service!Reqs, Reqs
<1>6. Reports'
  <2>1. \A other \in Threads : pc'[other] = "tell" =>
          other # th /\ pc[other] = "tell" /\ note'[other] = note[other]
    BY <1>1, <1>3 DEF IInv, Types, ThreadTypes
  <2>2. \A s \in Reqs \ {r} : told'[s] = told[s]
    BY <1>4 DEF IInv, Types, HistoryTypes
  <2>3. \A s \in Reqs : verdict'[s] = "none" => told'[s] = 0
    BY <1>1, <1>2, <2>2 DEF Reports
  <2>4. ASSUME NEW other \in Threads, pc'[other] = "tell"
        PROVE  /\ note'[other].req \in 1..cur'
               /\ verdict'[note'[other].req] # "none"
               /\ told'[note'[other].req] = 0
    <3> DEFINE s == note[other].req
    <3>1. other # th /\ pc[other] = "tell" /\ note'[other] = note[other]
      BY <2>1, <2>4
    <3>2. s \in 1..cur /\ verdict[s] # "none" /\ told[s] = 0 /\ s # r
      BY <1>2, <3>1 DEF Reports
    <3>3. s \in Reqs
      BY <3>2, Bounds DEF Reqs, IInv, Types, HistoryTypes
    <3> HIDE DEF s
    <3>4. s \in 1..cur' /\ verdict'[s] # "none" /\ told'[s] = 0
      BY <1>1, <2>2, <3>2, <3>3
    <3> QED BY <3>1, <3>4 DEF s
  <2>5. \A one, other \in Threads :
          pc'[one] = "tell" /\ pc'[other] = "tell" /\ note'[one].req = note'[other].req
            => one = other
    BY <2>1 DEF Reports
  <2>6. /\ req'.active => verdict'[cur'] = "none"
        /\ \A s \in Reqs : s > cur' => verdict'[s] = "none"
    BY <1>1 DEF Reports
  <2> QED BY <2>3, <2>4, <2>5, <2>6 DEF Reports
<1> QED BY <1>5, <1>6 DEF Simulates, Service!Next

LEMMA RetrySimulates ==
  ASSUME IInv, Reports, RetryOrFail, WorkerOnly, req.active
  PROVE  Simulates
<1>1. CASE FinishLocked("TIMEOUT", TRUE)
  BY <1>1, FinishIsClose, CloseSimulates DEF Verdicts
<1>2. CASE RetryWith(Arm(tmr, "holdoff", 0))
  <2>1. req'.active = req.active
    BY <1>2 DEF RetryWith, IInv, Types, ContextTypes
  <2>2. Quiet
    BY <1>2, <2>1, ThreadQuiet, ThreadsNamed DEF RetryWith, Leave, WorkerOnly
  <2> QED BY <2>2, QuietSimulates
<1> QED BY <1>1, <1>2 DEF RetryOrFail

LEMMA IgnoreSimulates == IInv /\ Reports /\ Ignore /\ WorkerOnly => Simulates
<1> SUFFICES ASSUME IInv, Reports, Ignore, WorkerOnly PROVE Simulates
  OBVIOUS
<1>1. Quiet
  BY ThreadQuiet, ThreadsNamed DEF Ignore, Leave, WorkerOnly, ctxVars
<1> QED BY <1>1, QuietSimulates

LEMMA HandlersSimulate ==
  ASSUME IInv, Reports,
         HandleTxConf \/ HandleGrantWait \/ HandleHoldoff \/ HandleGrant
  PROVE  Simulates
<1>1. CASE HandleTxConf
  BY <1>1, IgnoreSimulates, RetrySimulates DEF HandleTxConf
<1>2. CASE HandleGrantWait
  BY <1>2, IgnoreSimulates, RetrySimulates DEF HandleGrantWait
<1>3. CASE HandleHoldoff
  <2>1. CASE Resubmit /\ WorkerOnly
    <3>1. req'.active = req.active
      BY <2>1 DEF Resubmit, IInv, Types, ContextTypes
    <3>2. Quiet
      BY <2>1, <3>1, ThreadQuiet, ThreadsNamed DEF Resubmit, Leave, WorkerOnly
    <3> QED BY <3>2, QuietSimulates
  <2>2. CASE /\ req.active /\ state = "HOLDOFF" /\ SubmitFails
             /\ tmr' = BothDisarmed /\ req' = Closed /\ state' = "IDLE"
             /\ LeaveToTell("worker", cur, "TX_FAILED", FALSE) /\ WorkerOnly
    BY <2>2, HoldoffFailIsClose, CloseSimulates
  <2> QED BY <1>3, <2>1, <2>2, IgnoreSimulates DEF HandleHoldoff, Resubmit
<1>4. CASE HandleGrant
  <2>1. CASE req.active /\ FinishLocked("OK", FALSE) /\ WorkerOnly
    BY <2>1, FinishIsClose, CloseSimulates DEF Verdicts
  <2> QED BY <1>4, <2>1, IgnoreSimulates DEF HandleGrant
<1> QED BY <1>1, <1>2, <1>3, <1>4

LEMMA BodiesSimulate ==
  ASSUME IInv, Reports, NEW a \in Apps, RequestBody(a) \/ CancelBody(a)
  PROVE  Simulates
<1>1. CASE Leave(a) /\ UNCHANGED <<req, cur, verdict, told>>
  BY <1>1, ThreadQuiet, QuietSimulates, ThreadsNamed DEF Leave
<1>2. CASE RequestBody(a)
  BY <1>1, <1>2, RequestCases, ServedSimulates, RefusedSimulates DEF ctxVars, histVars
<1>3. CASE CancelBody(a)
  BY <1>1, <1>3, CancelIsClose, CloseSimulates DEF CancelBody, ctxVars
<1> QED BY <1>2, <1>3

\* Steps of a thread that reports nothing, and of nobody.
LEMMA OthersSimulate ==
  ASSUME IInv, Reports, UNCHANGED <<note, cur, verdict, told, req>>,
         \/ pc' = pc
         \/ \E th \in Threads, p \in {"lock", "inside", "idle"} :
              pc' = [pc EXCEPT ![th] = p]
  PROVE  Simulates
<1>1. Quiet
  BY DEF Quiet, IInv, Types, ThreadTypes
<1> QED BY <1>1, QuietSimulates

LEMMA NextSimulates == IInv /\ Reports /\ [Next]_vars => Simulates
<1> SUFFICES ASSUME IInv, Reports, [Next]_vars PROVE Simulates
  OBVIOUS
<1>1. ASSUME NEW th \in Threads, Lock(th) \/ UnlockAgain(th) PROVE Simulates
  BY <1>1, OthersSimulate DEF Lock, UnlockAgain, ctxVars, histVars
<1>2. CASE EpollWait
  BY <1>2, OthersSimulate DEF EpollWait, ctxVars, histVars
<1>3. ASSUME NEW t \in Timers, TimerReady(t) PROVE Simulates
  BY <1>3, OthersSimulate, ThreadsNamed DEF TimerReady, Begin, histVars
<1>4. CASE ConfReady \/ RxReady
  BY <1>4, OthersSimulate, ThreadsNamed
  DEF ConfReady, RxReady, MessageReady, Begin, ctxVars, histVars
<1>5. ASSUME NEW q, NEW msgs, QueueEmpty(q, msgs) PROVE Simulates
  BY <1>5, OthersSimulate DEF QueueEmpty, ctxVars, histVars
<1>6. CASE WorkerStep
  BY <1>1, <1>2, <1>3, <1>4, <1>5, <1>6, TellSimulates, HandlersSimulate,
     ThreadsNamed
  DEF WorkerStep
<1>7. ASSUME NEW a \in Apps, AppStep(a) PROVE Simulates
  BY <1>1, <1>7, TellSimulates, BodiesSimulate, ThreadsNamed DEF AppStep
<1>8. ASSUME NEW a \in Apps,
             CallCancel(a) \/ \E dst \in Wants[a] : CallRequest(a, dst)
      PROVE  Simulates
  BY <1>8, OthersSimulate, ThreadsNamed
  DEF CallCancel, CallRequest, Begin, ctxVars, histVars
<1>9. ASSUME NEW t \in Timers, Expire(t) PROVE Simulates
  BY <1>9, OthersSimulate DEF Expire, histVars
<1>10. ASSUME NEW id \in mac, NEW ok \in BOOLEAN, MacAnswers(id, ok)
       PROVE  Simulates
  BY <1>10, OthersSimulate DEF MacAnswers, ctxVars, histVars
<1>11. ASSUME NEW dst \in Dsts, GrantArrives(dst) PROVE Simulates
  BY <1>11, OthersSimulate DEF GrantArrives, ctxVars, histVars
<1>12. CASE UNCHANGED vars
  BY <1>12, OthersSimulate DEF vars, ctxVars, histVars
<1> QED BY <1>6, <1>7, <1>8, <1>9, <1>10, <1>11, <1>12 DEF Next

LEMMA InitSimulates == Init => Reports /\ Service!Init
  BY ThreadsNamed DEF Init, Reports, Service!Init, Service!Reqs, Reqs

\* Whatever races between cancel, grant, time-out and a failed transmission,
\* the client keeps to TrunkService: one open request, one verdict for each
\* request accepted, reported once (t3_trunk_finish_locked(),
\* t3_trunk_cancel()).
THEOREM ServiceImplemented == Spec => ImplementsService
<1>1. Spec => []Reports
  BY InitSimulates, InvAlways, NextSimulates, PTL DEF Spec, Simulates
<1>2. IInv /\ Reports /\ [Next]_vars => [Service!Next]_(Service!vars)
  BY NextSimulates DEF Simulates
<1>3. Spec => Service!Init /\ [][Service!Next]_(Service!vars)
  BY InitSimulates, InvAlways, <1>1, <1>2, PTL DEF Spec
<1> QED BY <1>3 DEF ImplementsService, Service!Spec

=============================================================================
