----------------------------- MODULE DcdmProofs -----------------------------
(***************************************************************************)
(* Theorems about the election of the channel timing leader for any number *)
(* of radios, identifiers, retries and timer lengths, and any foreign      *)
(* radios.                                                                 *)
(*                                                                         *)
(* A handler is an operator from a context to the next; Moves says what    *)
(* all of them have in common, and the sub-procedures of dmr_dmo.c are     *)
(* proved to keep to it one by one.  The bound on the counter of requests  *)
(* for a leader is the hard part: it holds because no two of the timers    *)
(* and confirmations that continue such a request can be in one epoll      *)
(* snapshot (Election).                                                    *)
(***************************************************************************)
EXTENDS Dcdm, TLAPS

Timer == [kern : {"off", "running", "expired"}, left : Nat, armed : BOOLEAN]

Contexts ==
  [state : States, di : 0..3, id : Ids, lwatid : Watids, gen : 0..GenSpace,
   sa : Nat, kind : Kinds, pending : CtCsbk, submitted : BOOLEAN,
   retries : Nat, tmr : [Timers -> Timer]]

Answer == [ok : BOOLEAN, match : BOOLEAN]
MacReq == [ct : CtCsbk, match : BOOLEAN]

Has(c, t) == c.tmr[t].kern # "off"

LoopTypes(r) ==
  /\ batch[r] \subseteq Timers \cup {"conf", "rx"}
  /\ conf[r] \in Seq(Answer) /\ Len(conf[r]) <= QDepth
  /\ mac[r] \in Seq(MacReq) /\ Len(mac[r]) <= MacRoom
  /\ notifying[r] \in [at : {"no", "read", "clash", "past"}, ct : CtCsbk]
  /\ gone[r] \in BOOLEAN
RxTypes(r) == rx[r] \in Seq(CtCsbk) /\ Len(rx[r]) <= QDepth
Shapes ==
  /\ ctx \in [Radios -> Contexts]
  /\ batch = [r \in Radios |-> batch[r]] /\ rx = [r \in Radios |-> rx[r]]
  /\ conf = [r \in Radios |-> conf[r]] /\ mac = [r \in Radios |-> mac[r]]
  /\ notifying = [r \in Radios |-> notifying[r]]
  /\ gone = [r \in Radios |-> gone[r]]

\* The answer to the pending CT_CSBK is on its way.
Matched(r) == HasMatch(mac[r]) \/ HasMatch(conf[r])

Leading(c) == c.state = "LEADER" => Has(c, "beacon_interval")

\* A CT_CSBK not yet handed over is held off; of one handed over there is
\* an answer to come, or it is lost.
OnItsWay(c, there) ==
  c.kind # "NONE" => Has(c, "ct_rhot") \/ (c.submitted /\ there)

\* The wait for an answer is running, over, or about to be served.
Waits(c, b) == Has(c, "response_wait") \/ "response_wait" \in b

\* The minutes without a leader are over.
Over(c, b) ==
  \/ "no_leader" \in b
  \/ c.tmr["no_leader"].kern = "expired"
  \/ Due(c.tmr, "no_leader")

Requesting(c) == c.kind = "NOLEADER_REQ"

\* b is the epoll snapshot, matched says whether an answer is on its way, and
\* at where dmr_dmo_notify_tx() is.
Election(c, b, matched, at) ==
  /\ c.retries <= MaxRetries
  /\ Requesting(c) \/ Waits(c, b) => c.retries < MaxRetries
  /\ c.tmr["response_wait"].left = 0
  /\ Has(c, "response_wait") => c.tmr["response_wait"].armed
  /\ "response_wait" \in b => c.tmr["response_wait"].kern # "running"
  /\ "no_leader" \in b => ~Due(c.tmr, "no_leader")
  /\ c.state \notin Leaderless => ~Requesting(c) /\ ~Has(c, "response_wait")
  /\ Requesting(c) \/ Over(c, b) => ~Waits(c, b)
  /\ Requesting(c) /\ Over(c, b) =>
       ~Has(c, "ct_rhot") /\ "ct_rhot" \notin b /\ ~matched /\ at # "clash"

Sound(r) ==
  /\ ctx[r].di = Di[r] /\ LoopTypes(r)
  /\ Leading(ctx[r])
  /\ OnItsWay(ctx[r], Matched(r) \/ gone[r])
  /\ Election(ctx[r], batch[r], Matched(r), notifying[r].at)

IInv == Shapes /\ \A r \in Radios : Sound(r) /\ RxTypes(r)

----------------------------------------------------------------------------
(* Timers and identifiers.                                                 *)

LEMMA Bounds ==
  /\ IdSpace \in Nat /\ IdSpace >= 2 /\ GenSpace \in Nat /\ GenSpace >= 1
  /\ Tolerance \in Nat /\ MaxRetries \in Nat /\ MaxRetries >= 1
  /\ MacRoom \in Nat /\ MacRoom >= 1 /\ QDepth \in Nat /\ QDepth >= 1
  /\ BeaconInterval \in Nat /\ SyncAge \in Nat /\ SyncAgeWarning \in Nat
  /\ NoLeaderTimer \in Nat /\ NoLeaderTimer >= 1
  /\ SaPerTick \in Nat /\ SaPerTick >= 1
  BY IdsAssumption, DcdmBounds

LEMMA TimersStayTyped ==
  ASSUME NEW tm \in [Timers -> Timer], NEW t \in Timers, NEW k \in Nat
  PROVE  /\ Arm(tm, t, k) \in [Timers -> Timer]
         /\ Disarm(tm, t) \in [Timers -> Timer]
         /\ Drain(tm, t) \in [Timers -> Timer]
         /\ Expired(tm, t) \in [Timers -> Timer]
<1>1. tm[t] \in Timer
  OBVIOUS
<1>2. Off \in Timer
  BY DEF Off, Timer
<1>3. Arm(tm, t, k) \in [Timers -> Timer]
  BY DEF Arm, Timer
<1>4. Disarm(tm, t) \in [Timers -> Timer]
  BY <1>2 DEF Disarm
<1>5. Drain(tm, t) \in [Timers -> Timer]
  <2>1. [tm[t] EXCEPT !.armed = FALSE] \in Timer
    BY <1>1 DEF Timer
  <2> QED BY <1>2, <2>1 DEF Drain
<1>6. Expired(tm, t) \in [Timers -> Timer]
  <2>1. [tm[t] EXCEPT !.kern = "expired"] \in Timer
    BY <1>1 DEF Timer
  <2> QED BY <2>1 DEF Expired
<1> QED BY <1>3, <1>4, <1>5, <1>6

\* A WATID lies in the band of its preference.
LEMMA Band ==
  ASSUME NEW di \in 0..3, NEW id \in 0..(IdSpace - 1)
  PROVE  /\ Watid(di, id) \in Watids
         /\ di * IdSpace <= Watid(di, id) /\ Watid(di, id) < (di + 1) * IdSpace
<1>1. CASE di = 0
  BY <1>1, Bounds DEF Watid, Watids
<1>2. CASE di = 1
  BY <1>2, Bounds DEF Watid, Watids
<1>3. CASE di = 2
  BY <1>3, Bounds DEF Watid, Watids
<1>4. CASE di = 3
  BY <1>4, Bounds DEF Watid, Watids
<1> QED BY <1>1, <1>2, <1>3, <1>4

LEMMA HigherProduct ==
  ASSUME NEW low \in 0..3, NEW high \in 0..3, low < high
  PROVE  (low + 1) * IdSpace <= high * IdSpace
<1>1. CASE low = 0
  BY <1>1, Bounds
<1>2. CASE low = 1
  <2>1. high = 2 \/ high = 3
    BY <1>2
  <2> QED BY <1>2, <2>1, Bounds
<1>3. CASE low = 2
  <2>1. high = 3
    BY <1>3
  <2> QED BY <1>3, <2>1, Bounds
<1> QED BY <1>1, <1>2, <1>3

\* A higher preference outranks whatever the identifiers are.
LEMMA HigherBand ==
  ASSUME NEW low \in 0..3, NEW high \in 0..3, low < high,
         NEW i \in 0..(IdSpace - 1), NEW j \in 0..(IdSpace - 1)
  PROVE  Watid(low, i) < Watid(high, j)
<1>1. /\ Watid(low, i) < (low + 1) * IdSpace
      /\ high * IdSpace <= Watid(high, j)
      /\ Watid(low, i) \in Watids /\ Watid(high, j) \in Watids
  BY Band
<1>2. (low + 1) * IdSpace <= high * IdSpace
  BY HigherProduct
<1> DEFINE A == (low + 1) * IdSpace
           B == high * IdSpace
<1>3. A \in Nat /\ B \in Nat
  BY Bounds
<1>4. Watid(low, i) < A /\ A <= B /\ B <= Watid(high, j)
  BY <1>1, <1>2
<1> HIDE DEF A, B
<1> QED BY <1>1, <1>3, <1>4, Bounds DEF Watids

\* So does a preference above that of a WATID.
LEMMA Outranks ==
  ASSUME NEW w \in Watids, NEW di \in 0..3, NEW id \in 0..(IdSpace - 1),
         ~(di <= WatidDi(w))
  PROVE  Watid(di, id) > w
<1> DEFINE q == w \div IdSpace
<1>1. w \in Nat /\ w < 4 * IdSpace
  BY Bounds DEF Watids
<1>2. q \in Nat /\ w < IdSpace * q + IdSpace
  BY <1>1, Bounds
<1>3. q < di
  BY <1>2 DEF WatidDi
<1> HIDE DEF q
<1>4. q \in 0..2
  BY <1>2, <1>3
<1>5. w < di * IdSpace
  <2>1. CASE q = 0
    BY <2>1, <1>1, <1>2, <1>3, HigherProduct, Bounds
  <2>2. CASE q = 1
    BY <2>2, <1>1, <1>2, <1>3, HigherProduct, Bounds
  <2>3. CASE q = 2
    BY <2>3, <1>1, <1>2, <1>3, HigherProduct, Bounds
  <2> QED BY <1>4, <2>1, <2>2, <2>3
<1>6. di * IdSpace <= Watid(di, id) /\ Watid(di, id) \in Watids
  BY Band
<1> DEFINE P == di * IdSpace
<1>7. P \in Nat
  BY Bounds
<1>8. w < P /\ P <= Watid(di, id)
  BY <1>5, <1>6
<1> HIDE DEF P
<1> QED BY <1>1, <1>6, <1>7, <1>8, Bounds DEF Watids

----------------------------------------------------------------------------
(* The CT_CSBKs a radio builds, and its WATID.                             *)

LEMMA IdentifierTypes ==
  ASSUME NEW c \in Contexts
  PROVE  /\ WatidOf(c) \in Watids /\ WatidOf(c) > 0
         /\ c.id \in 0..(IdSpace - 1) /\ Nobody \in Watids
<1>1. c.id \in 1..(IdSpace - 1) /\ c.di \in 0..3
  BY DEF Contexts, Ids
<1>2. c.id \in 0..(IdSpace - 1)
  BY <1>1, Bounds
<1>3. Watid(c.di, c.id) \in Watids
  BY <1>1, <1>2, Band
<1>4. Watid(c.di, c.id) > 0
  <2>1. CASE c.di = 0
    BY <1>1, <2>1, Bounds DEF Watid
  <2>2. CASE c.di = 1
    BY <1>1, <2>2, Bounds DEF Watid
  <2>3. CASE c.di = 2
    BY <1>1, <2>3, Bounds DEF Watid
  <2>4. CASE c.di = 3
    BY <1>1, <2>4, Bounds DEF Watid
  <2> QED BY <1>1, <2>1, <2>2, <2>3, <2>4
<1>5. Nobody \in Watids
  BY Bounds DEF Nobody, Watids
<1> QED BY <1>2, <1>3, <1>4, <1>5 DEF WatidOf

LEMMA NamingTyped ==
  ASSUME NEW c \in Contexts, NEW leader \in Watids, NEW sdi \in 0..3,
         NEW cto \in Ctos
  PROVE  Naming(c, leader, sdi, cto) \in CtCsbk
<1>1. c.id \in 0..(IdSpace - 1)
  BY IdentifierTypes
<1>2. c.gen % GenSpace \in 0..(GenSpace - 1) /\ c.sa \in Nat
  BY Bounds DEF Contexts
<1> QED BY <1>1, <1>2 DEF Naming, CtCsbk

LEMMA BuildersTyped ==
  ASSUME NEW c \in Contexts
  PROVE  /\ Beacon(c) \in CtCsbk /\ Request(c) \in CtCsbk
         /\ Correction(c) \in CtCsbk /\ Refresh(c) \in CtCsbk
         /\ Appointment(c) \in CtCsbk /\ Proposal(c) \in CtCsbk
         /\ \A busy \in BOOLEAN : Terminator(c, busy) \in CtCsbk
<1>1. /\ WatidOf(c) \in Watids /\ Nobody \in Watids /\ c.lwatid \in Watids
      /\ c.di \in 0..3 /\ 0 \in 0..3 /\ 0 \in 0..(GenSpace - 1)
  BY IdentifierTypes, Bounds DEF Contexts
<1>2. {"unaligned_req", "unaligned_term", "status", "push"} \subseteq Ctos
  BY DEF Ctos
<1>3. Beacon(c) \in CtCsbk
  <2>1. Naming(c, WatidOf(c), c.di, "push") \in CtCsbk
    BY <1>1, <1>2, NamingTyped
  <2> QED BY <1>1, <2>1 DEF Beacon, CtCsbk
<1>4. Request(c) \in CtCsbk
  <2>1. Naming(c, Nobody, c.di, "unaligned_req") \in CtCsbk
    BY <1>1, <1>2, NamingTyped
  <2> QED BY <1>1, <2>1 DEF Request, CtCsbk
<1>5. Refresh(c) \in CtCsbk
  BY <1>1, <1>2, NamingTyped DEF Refresh
<1>6. Correction(c) \in CtCsbk
  <2>1. [Beacon(c) EXCEPT !.cto = "status"] \in CtCsbk
    BY <1>2, <1>3 DEF CtCsbk
  <2> QED BY <1>5, <2>1 DEF Correction, Refresh
<1>7. Appointment(c) \in CtCsbk
  BY <1>5 DEF Appointment, CtCsbk
<1>8. Proposal(c) \in CtCsbk
  BY <1>1, <1>2, NamingTyped DEF Proposal
<1>9. \A busy \in BOOLEAN : Terminator(c, busy) \in CtCsbk
  BY <1>1, <1>2, NamingTyped DEF Terminator
<1> QED BY <1>3, <1>4, <1>5, <1>6, <1>7, <1>8, <1>9

LEMMA NoCsbkTyped == NoCsbk \in CtCsbk
<1>1. 0 \in 0..(GenSpace - 1) /\ 0 \in 0..(IdSpace - 1) /\ 0 \in Nat /\ 0 \in 0..3
  BY Bounds
<1>2. Nobody \in Watids
  BY Bounds DEF Nobody, Watids
<1> QED BY <1>1, <1>2 DEF NoCsbk, CtCsbk, Ctos

----------------------------------------------------------------------------
(* What every sub-procedure of an evaluation keeps to.                     *)

Slow == {"no_leader", "response_wait"}

\* The leader role is taken with a beacon interval, and kept with it.
Beaconing(c, d) ==
  d.state = "LEADER" =>
    \/ Has(d, "beacon_interval")
    \/ c.state = "LEADER" /\ d.tmr["beacon_interval"] = c.tmr["beacon_interval"]

\* What is pending is new and held off, or as it was.
Held(c, d) ==
  d.kind = "NONE" \/ Has(d, "ct_rhot")
    \/ /\ d.kind = c.kind /\ d.submitted = c.submitted
       /\ d.tmr["ct_rhot"] = c.tmr["ct_rhot"]

Better(c, d) ==
  /\ c.state \in {"KNOWN", "LEADER"} /\ d.state = "KNOWN"
  /\ d.lwatid # LeaderOf(c)
  => d.lwatid > LeaderOf(c)

Keeps(c, d) ==
  /\ d \in Contexts /\ d.di = c.di /\ d.retries = c.retries
  /\ \A t \in Slow : d.tmr[t] = c.tmr[t]
  /\ d.kind = "NOLEADER_REQ" => c.kind = "NOLEADER_REQ"
  /\ Held(c, d)

Moves(c, d) == Keeps(c, d) /\ Beaconing(c, d) /\ Better(c, d)

LEMMA Scheduling ==
  ASSUME NEW c \in Contexts, NEW ct \in CtCsbk, NEW kind \in Kinds \ {"NONE"},
         NEW d, d = Schedule(c, ct, kind)
  PROVE  /\ d \in Contexts /\ Has(d, "ct_rhot") /\ d.kind = kind
         /\ d.di = c.di /\ d.id = c.id /\ d.retries = c.retries
         /\ d.state = c.state /\ d.lwatid = c.lwatid
         /\ \A t \in Timers \ {"ct_rhot"} : d.tmr[t] = c.tmr[t]
<1>1. c.tmr \in [Timers -> Timer] /\ "ct_rhot" \in Timers
  BY DEF Contexts, Timers
<1>2. Arm(c.tmr, "ct_rhot", 0) \in [Timers -> Timer]
  BY <1>1, TimersStayTyped
<1>3. d \in Contexts
  BY <1>2 DEF Schedule, Contexts
<1>4. d.tmr = Arm(c.tmr, "ct_rhot", 0)
  BY DEF Schedule, Contexts
<1>5. /\ Has(d, "ct_rhot")
      /\ \A t \in Timers \ {"ct_rhot"} : d.tmr[t] = c.tmr[t]
  BY <1>1, <1>4 DEF Arm, Has
<1> QED BY <1>3, <1>5 DEF Schedule, Contexts

\* e is c under another leader, identifier or state.
Relabelled(c, e) ==
  /\ e \in Contexts /\ e.di = c.di /\ e.retries = c.retries
  /\ e.tmr = c.tmr /\ e.kind = c.kind /\ e.submitted = c.submitted

LEMMA RelabelledKeeps ==
  ASSUME NEW c \in Contexts, NEW e, Relabelled(c, e)
  PROVE  Keeps(c, e)
  BY DEF Relabelled, Keeps, Held

LEMMA ScheduledKeeps ==
  ASSUME NEW c \in Contexts, NEW e, Relabelled(c, e), NEW ct \in CtCsbk,
         NEW kind \in Kinds \ {"NONE", "NOLEADER_REQ"},
         NEW d, d = Schedule(e, ct, kind)
  PROVE  /\ Keeps(c, d) /\ d.state = e.state /\ d.lwatid = e.lwatid
         /\ d.id = e.id
         /\ d.tmr["beacon_interval"] = c.tmr["beacon_interval"]
<1>1. /\ d \in Contexts /\ Has(d, "ct_rhot") /\ d.kind = kind
      /\ d.di = e.di /\ d.id = e.id /\ d.retries = e.retries
      /\ d.state = e.state /\ d.lwatid = e.lwatid
      /\ \A t \in Timers \ {"ct_rhot"} : d.tmr[t] = e.tmr[t]
  BY Scheduling DEF Relabelled
<1>2. /\ Slow \subseteq Timers \ {"ct_rhot"}
      /\ "beacon_interval" \in Timers \ {"ct_rhot"}
  BY DEF Slow, Timers
<1> QED BY <1>1, <1>2 DEF Keeps, Held, Relabelled

LEMMA ScMoves ==
  ASSUME NEW c \in Contexts
  PROVE  Moves(c, Sc(c))
<1>1. Correction(c) \in CtCsbk /\ "SC" \in Kinds \ {"NONE", "NOLEADER_REQ"}
  BY BuildersTyped DEF Kinds
<1>2. Relabelled(c, c)
  BY DEF Relabelled
<1>3. /\ Keeps(c, Sc(c)) /\ Sc(c).state = c.state /\ Sc(c).lwatid = c.lwatid
      /\ Sc(c).tmr["beacon_interval"] = c.tmr["beacon_interval"]
  BY <1>1, <1>2, ScheduledKeeps DEF Sc
<1> QED BY <1>3 DEF Moves, Beaconing, Better, LeaderOf

LEMMA AnlMoves ==
  ASSUME NEW c \in Contexts, NEW leader \in Watids,
         c.state \in {"KNOWN", "LEADER"} => leader > LeaderOf(c)
  PROVE  Moves(c, Anl(c, leader))
<1> DEFINE e == [c EXCEPT !.gen = 1, !.lwatid = leader, !.state = "KNOWN"]
           d == Anl(c, leader)
<1>1. 1 \in 0..GenSpace /\ "KNOWN" \in States
  BY Bounds DEF States
<1>2. Relabelled(c, e) /\ e.state = "KNOWN" /\ e.lwatid = leader
  BY <1>1 DEF Relabelled, Contexts
<1>3. d = Schedule(e, Appointment(e), "ANL")
  BY DEF Anl
<1> HIDE DEF e, d
<1>4. Appointment(e) \in CtCsbk /\ "ANL" \in Kinds \ {"NONE", "NOLEADER_REQ"}
  BY <1>2, BuildersTyped DEF Kinds, Relabelled
<1>5. Keeps(c, d) /\ d.state = "KNOWN" /\ d.lwatid = leader
  BY <1>2, <1>3, <1>4, ScheduledKeeps
<1>6. Moves(c, d)
  BY <1>5 DEF Moves, Beaconing, Better
<1> QED BY <1>6 DEF d

LEMMA FollowRelabels ==
  ASSUME NEW c \in Contexts, NEW ct \in CtCsbk
  PROVE  /\ Relabelled(c, Follow(c, ct))
         /\ Follow(c, ct).state = "KNOWN" /\ Follow(c, ct).lwatid = ct.leader
<1>1. ct.gen + 1 \in 0..GenSpace /\ ct.sa \in Nat /\ ct.leader \in Watids
  BY Bounds DEF CtCsbk
<1> QED BY <1>1 DEF Follow, Relabelled, Contexts, States

LEMMA AlKeeps ==
  ASSUME NEW c \in Contexts, NEW ct \in CtCsbk, NEW d, d = Al(c, ct)
  PROVE  Keeps(c, d) /\ (d = c \/ (d.state = "KNOWN" /\ d.lwatid = ct.leader))
<1> DEFINE e == Follow(c, ct)
           i == Remaining(SyncAge, ct.sa)
           j == Remaining(SyncAgeWarning, ct.sa)
<1>1. CASE ct.cto \in {"unaligned_req", "unaligned_term"}
  <2>1. d = c
    BY <1>1 DEF Al
  <2>2. Keeps(c, d)
    BY <2>1 DEF Keeps, Held
  <2> QED BY <2>1, <2>2
<1>2. CASE ct.cto \notin {"unaligned_req", "unaligned_term"}
  <2>1. i \in Nat /\ j \in Nat
    <3>1. ct.sa \div SaPerTick \in Int
      BY Bounds DEF CtCsbk
    <3> QED BY <3>1, Bounds DEF Remaining
  <2>2. d = [e EXCEPT !.tmr = Arm(Arm(@, "sync_age", i), "sync_age_warning", j)]
    BY <1>2 DEF Al
  <2>3. Relabelled(c, e) /\ e.state = "KNOWN" /\ e.lwatid = ct.leader
    BY FollowRelabels
  <2> HIDE DEF e, i, j
  <2>4. e \in Contexts /\ e.tmr \in [Timers -> Timer]
    BY <2>3 DEF Relabelled, Contexts
  <2> DEFINE f == Arm(e.tmr, "sync_age", i)
             g == Arm(f, "sync_age_warning", j)
  <2>5. {"sync_age", "sync_age_warning"} \subseteq Timers
    BY DEF Timers
  <2>6. f \in [Timers -> Timer] /\ g \in [Timers -> Timer]
    BY <2>1, <2>4, <2>5, TimersStayTyped
  <2>7. \A t \in Timers \ {"sync_age", "sync_age_warning"} : g[t] = e.tmr[t]
    BY <2>4 DEF Arm
  <2>8. d = [e EXCEPT !.tmr = g]
    BY <2>2
  <2> HIDE DEF f, g
  <2>9. /\ d \in Contexts /\ d.tmr = g /\ d.di = e.di /\ d.retries = e.retries
        /\ d.kind = e.kind /\ d.submitted = e.submitted
        /\ d.state = e.state /\ d.lwatid = e.lwatid
    BY <2>4, <2>6, <2>8 DEF Contexts
  <2>10. /\ \A t \in Slow : d.tmr[t] = c.tmr[t]
         /\ d.tmr["ct_rhot"] = c.tmr["ct_rhot"]
    BY <2>3, <2>7, <2>9 DEF Relabelled, Slow, Timers
  <2>11. Keeps(c, d)
    BY <2>3, <2>9, <2>10 DEF Keeps, Held, Relabelled
  <2>12. d.state = "KNOWN" /\ d.lwatid = ct.leader
    BY <2>3, <2>9
  <2> QED BY <2>11, <2>12
<1> QED BY <1>1, <1>2

LEMMA AlMoves ==
  ASSUME NEW c \in Contexts, NEW ct \in CtCsbk,
         c.state \in {"KNOWN", "LEADER"} => ct.leader >= LeaderOf(c)
  PROVE  Moves(c, Al(c, ct))
<1> DEFINE d == Al(c, ct)
<1>1. Keeps(c, d) /\ (d = c \/ (d.state = "KNOWN" /\ d.lwatid = ct.leader))
  BY AlKeeps
<1> HIDE DEF d
<1>2. ct.leader \in Watids /\ LeaderOf(c) \in Watids
  BY IdentifierTypes DEF LeaderOf, Contexts, CtCsbk
<1>3. CASE d = c
  BY <1>1, <1>3 DEF Moves, Beaconing, Better, LeaderOf, d
<1>4. CASE d.state = "KNOWN" /\ d.lwatid = ct.leader
  BY <1>1, <1>2, <1>4, Bounds DEF Moves, Beaconing, Better, Watids, d
<1> QED BY <1>1, <1>3, <1>4

LEMMA TpMoves ==
  ASSUME NEW c \in Contexts, NEW ct \in CtCsbk,
         c.state \in {"KNOWN", "LEADER"} => ct.leader >= LeaderOf(c)
  PROVE  Moves(c, Tp(c, ct))
<1> DEFINE e == Follow(c, ct)
           d == Tp(c, ct)
<1>1. Relabelled(c, e) /\ e.state = "KNOWN" /\ e.lwatid = ct.leader
  BY FollowRelabels
<1>2. d = Schedule(e, Proposal(e), "PROP")
  BY DEF Tp
<1> HIDE DEF e, d
<1>3. Proposal(e) \in CtCsbk /\ "PROP" \in Kinds \ {"NONE", "NOLEADER_REQ"}
  BY <1>1, BuildersTyped DEF Kinds, Relabelled
<1>4. Keeps(c, d) /\ d.state = "KNOWN" /\ d.lwatid = ct.leader
  BY <1>1, <1>2, <1>3, ScheduledKeeps
<1>5. ct.leader \in Watids /\ LeaderOf(c) \in Watids
  BY IdentifierTypes DEF LeaderOf, Contexts, CtCsbk
<1>6. Moves(c, d)
  BY <1>4, <1>5, Bounds DEF Moves, Beaconing, Better, Watids
<1> QED BY <1>6 DEF d

\* Another identifier, drawn at random.
LEMMA NewIdRelabels ==
  ASSUME NEW c \in Contexts, NEW id \in Ids
  PROVE  LET e == [c EXCEPT !.id = id] IN
           Relabelled(c, e) /\ e.state = c.state /\ e.lwatid = c.lwatid
  BY DEF Relabelled, Contexts

LEMMA KeepsAfter ==
  ASSUME NEW c \in Contexts, NEW e, NEW d, Relabelled(c, e), Keeps(e, d)
  PROVE  Keeps(c, d)
  BY DEF Relabelled, Keeps, Held

\* Only the leader resolves an identifier conflict.
LEMMA IcMoves ==
  ASSUME NEW c \in Contexts, NEW ct \in CtCsbk, NEW id \in Ids,
         c.state = "LEADER", ct.leader = WatidOf(c)
  PROVE  Moves(c, Ic(c, ct, id))
<1> DEFINE e == [c EXCEPT !.id = id]
           f == Al(e, ct)
<1>1. Relabelled(c, e) /\ e.state = "LEADER"
  BY NewIdRelabels
<1>2. Moves(c, c)
  BY DEF Moves, Keeps, Held, Beaconing, Better
<1>3. Moves(c, Sc(c))
  BY ScMoves
<1>4. Keeps(c, e)
  BY <1>1, RelabelledKeeps
<1>5. Moves(c, e)
  BY <1>1, <1>4 DEF Moves, Beaconing, Better, Relabelled
<1>6. Moves(c, f)
  <2>1. e \in Contexts
    BY <1>1 DEF Relabelled
  <2>2. Keeps(e, f) /\ (f = e \/ (f.state = "KNOWN" /\ f.lwatid = ct.leader))
    BY <2>1, AlKeeps
  <2> HIDE DEF e, f
  <2>3. Keeps(c, f)
    BY <1>1, <2>2, KeepsAfter
  <2>4. ct.leader = LeaderOf(c)
    BY DEF LeaderOf
  <2>5. CASE f = e
    BY <1>5, <2>5
  <2>6. CASE f.state = "KNOWN" /\ f.lwatid = ct.leader
    BY <2>3, <2>4, <2>6 DEF Moves, Beaconing, Better
  <2> QED BY <2>2, <2>5, <2>6
<1> QED BY <1>2, <1>3, <1>5, <1>6 DEF Ic

LEMMA LeadLeads ==
  ASSUME NEW c \in Contexts
  PROVE  LET d == Lead(c) IN
           /\ d \in Contexts /\ d.di = c.di /\ d.retries = c.retries
           /\ d.state = "LEADER" /\ d.kind = "OTHER"
           /\ Has(d, "beacon_interval") /\ Has(d, "ct_rhot")
           /\ \A t \in Slow : d.tmr[t] = c.tmr[t]
<1> DEFINE g == Arm(c.tmr, "beacon_interval", BeaconInterval)
           e == [c EXCEPT !.gen = 0, !.state = "LEADER", !.tmr = g]
           d == Lead(c)
<1>1. c.tmr \in [Timers -> Timer] /\ "beacon_interval" \in Timers
  BY DEF Contexts, Timers
<1>2. g \in [Timers -> Timer] /\ g["beacon_interval"].kern = "running"
  BY <1>1, Bounds, TimersStayTyped DEF Arm
<1>3. \A t \in Slow : g[t] = c.tmr[t]
  BY <1>1 DEF Arm, Slow, Timers
<1>4. d = Schedule(e, Beacon(e), "OTHER")
  BY DEF Lead
<1> HIDE DEF g
<1>5. /\ e \in Contexts /\ e.tmr = g /\ e.di = c.di /\ e.retries = c.retries
      /\ e.state = "LEADER"
  <2>1. 0 \in 0..GenSpace /\ "LEADER" \in States
    BY Bounds DEF States
  <2> QED BY <1>2, <2>1 DEF Contexts
<1> HIDE DEF d, e
<1>6. Beacon(e) \in CtCsbk /\ "OTHER" \in Kinds \ {"NONE"}
  BY <1>5, BuildersTyped DEF Kinds
<1>7. /\ d \in Contexts /\ Has(d, "ct_rhot") /\ d.kind = "OTHER"
      /\ d.di = e.di /\ d.retries = e.retries /\ d.state = e.state
      /\ \A t \in Timers \ {"ct_rhot"} : d.tmr[t] = e.tmr[t]
  BY <1>4, <1>5, <1>6, Scheduling
<1>8. Slow \subseteq Timers \ {"ct_rhot"} /\ "beacon_interval" \in Timers \ {"ct_rhot"}
  BY DEF Slow, Timers
<1>9. /\ Has(d, "beacon_interval")
      /\ \A t \in Slow : d.tmr[t] = c.tmr[t]
  BY <1>2, <1>3, <1>5, <1>7, <1>8 DEF Has
<1>10. /\ d \in Contexts /\ d.di = c.di /\ d.retries = c.retries
       /\ d.state = "LEADER" /\ d.kind = "OTHER"
       /\ Has(d, "beacon_interval") /\ Has(d, "ct_rhot")
       /\ \A t \in Slow : d.tmr[t] = c.tmr[t]
  BY <1>5, <1>7, <1>9
<1> QED BY <1>10 DEF d

LEMMA LeadMoves ==
  ASSUME NEW c \in Contexts
  PROVE  Moves(c, Lead(c))
<1> DEFINE d == Lead(c)
<1>1. /\ d \in Contexts /\ d.di = c.di /\ d.retries = c.retries
      /\ d.state = "LEADER" /\ d.kind = "OTHER"
      /\ Has(d, "beacon_interval") /\ Has(d, "ct_rhot")
      /\ \A t \in Slow : d.tmr[t] = c.tmr[t]
  BY LeadLeads
<1> HIDE DEF d
<1>2. Moves(c, d)
  BY <1>1 DEF Moves, Keeps, Held, Beaconing, Better
<1> QED BY <1>2 DEF d

----------------------------------------------------------------------------
(* The two evaluations.                                                    *)

LEMMA StillMoves ==
  ASSUME NEW c \in Contexts
  PROVE  Moves(c, c)
  BY DEF Moves, Keeps, Held, Beaconing, Better, LeaderOf

LEMMA SourceTypes ==
  ASSUME NEW ct \in CtCsbk
  PROVE  /\ SourceOf(ct) \in Watids /\ ct.leader \in Watids
         /\ ct.sdi \in 0..3 /\ ct.sid \in 0..(IdSpace - 1)
<1>1. /\ ct.leader \in Watids /\ ct.sdi \in 0..3 /\ ct.sid \in 0..(IdSpace - 1)
  BY DEF CtCsbk
<1> QED BY <1>1, Band DEF SourceOf

LEMMA WatidsAreInts ==
  ASSUME NEW w \in Watids
  PROVE  w \in Nat
  BY Bounds DEF Watids

LEMMA CceLeaderlessMoves ==
  ASSUME NEW c \in Contexts, NEW ct \in CtCsbk,
         c.state # "LEADER", c.lwatid = Nobody
  PROVE  Moves(c, CceLeaderless(c, ct))
<1>1. /\ LeaderOf(c) = 0 /\ ct.leader \in Nat /\ SourceOf(ct) \in Watids
      /\ SourceOf(ct) \in Nat /\ WatidOf(c) \in Nat /\ WatidOf(c) > 0
  BY SourceTypes, IdentifierTypes, WatidsAreInts DEF LeaderOf, Nobody
<1>2. CASE ct.leader # Nobody
  <2>1. ct.leader >= LeaderOf(c)
    BY <1>1
  <2>2. Moves(c, Al(c, ct))
    BY <2>1, AlMoves
  <2> QED BY <1>2, <2>2 DEF CceLeaderless
<1>3. CASE ct.leader = Nobody /\ SourceOf(ct) > WatidOf(c)
  <2>1. SourceOf(ct) > LeaderOf(c)
    BY <1>1, <1>3
  <2>2. Moves(c, Anl(c, SourceOf(ct)))
    BY <1>1, <2>1, AnlMoves
  <2> QED BY <1>3, <2>2 DEF CceLeaderless
<1>4. CASE ct.leader = Nobody /\ ~(SourceOf(ct) > WatidOf(c))
  <2> DEFINE d == Schedule(c, Request(c), "OTHER")
  <2>1. Request(c) \in CtCsbk /\ "OTHER" \in Kinds \ {"NONE", "NOLEADER_REQ"}
    BY BuildersTyped DEF Kinds
  <2>2. Relabelled(c, c)
    BY DEF Relabelled
  <2>3. /\ Keeps(c, d) /\ d.state = c.state /\ d.lwatid = c.lwatid
        /\ d.tmr["beacon_interval"] = c.tmr["beacon_interval"]
    BY <2>1, <2>2, ScheduledKeeps
  <2> HIDE DEF d
  <2>4. Moves(c, d)
    BY <2>3 DEF Moves, Beaconing, Better, LeaderOf
  <2> QED BY <1>4, <2>4 DEF CceLeaderless, d
<1> QED BY <1>2, <1>3, <1>4

LEMMA CceKnownMoves ==
  ASSUME NEW c \in Contexts, NEW ct \in CtCsbk, c.state # "LEADER"
  PROVE  Moves(c, CceKnown(c, ct))
<1>1. /\ LeaderOf(c) = c.lwatid /\ ct.leader \in Nat /\ c.lwatid \in Nat
      /\ c.lwatid \in Watids /\ SourceOf(ct) \in Watids
  BY SourceTypes, WatidsAreInts DEF LeaderOf, Contexts
<1>2. Moves(c, c)
  BY StillMoves
<1>3. ASSUME ct.leader >= c.lwatid
      PROVE  Moves(c, Al(c, ct)) /\ Moves(c, Tp(c, ct))
  BY <1>1, <1>3, AlMoves, TpMoves
<1>4. CASE ct.leader > c.lwatid
  <2>1. Moves(c, Al(c, ct)) /\ Moves(c, Tp(c, ct))
    BY <1>1, <1>3, <1>4
  <2>2. CceKnown(c, ct) = CceBetter(c, ct)
    BY <1>1, <1>4 DEF CceKnown
  <2>3. Moves(c, CceBetter(c, ct))
    BY <1>2, <2>1 DEF CceBetter
  <2> QED BY <2>2, <2>3
<1>5. CASE ct.leader < c.lwatid \/ (ct.leader = c.lwatid /\ ct.sa > c.sa)
  <2> DEFINE worse == \/ ct.leader < c.lwatid
                      \/ ct.leader = c.lwatid /\ ct.sa > c.sa
             same  == ct.leader = c.lwatid /\ ct.sa = c.sa /\ ct.gen < c.gen
  <2>0. ~(ct.leader > c.lwatid) /\ worse /\ ~same
    BY <1>1, <1>5 DEF CtCsbk, Contexts
  <2>1. CceKnown(c, ct) = CceWorse(c, ct)
    <3>1. CceKnown(c, ct) =
            CASE ct.leader > c.lwatid -> CceBetter(c, ct)
              [] worse -> CceWorse(c, ct)
              [] same -> CceNearer(c, ct)
              [] OTHER -> c
      BY DEF CceKnown
    <3> HIDE DEF worse, same
    <3> QED BY <2>0, <3>1
  <2>2. CASE ct.sdi <= WatidDi(c.lwatid)
    BY <2>1, <2>2, ScMoves DEF CceWorse
  <2>3. CASE ~(ct.sdi <= WatidDi(c.lwatid))
    <3>1. SourceOf(ct) > LeaderOf(c)
      BY <1>1, <2>3, SourceTypes, Outranks DEF SourceOf
    <3>2. Moves(c, Anl(c, SourceOf(ct)))
      BY <1>1, <3>1, AnlMoves
    <3> QED BY <2>1, <2>3, <3>2 DEF CceWorse
  <2> QED BY <2>2, <2>3
<1>6. CASE ct.leader = c.lwatid /\ ct.sa = c.sa
  <2>1. ct.sa \in Nat /\ c.sa \in Nat
    BY DEF CtCsbk, Contexts
  <2>2. Moves(c, Tp(c, ct))
    BY <1>1, <1>3, <1>6
  <2> DEFINE e == [c EXCEPT !.gen = ct.gen + 1]
  <2>3. Moves(c, e)
    <3>1. ct.gen + 1 \in 0..GenSpace
      BY Bounds DEF CtCsbk
    <3>2. Relabelled(c, e) /\ e.state = c.state /\ e.lwatid = c.lwatid
      BY <3>1 DEF Relabelled, Contexts
    <3>3. Keeps(c, e)
      BY <3>2, RelabelledKeeps
    <3> HIDE DEF e
    <3> QED BY <3>2, <3>3 DEF Moves, Beaconing, Better, LeaderOf, Relabelled
  <2>4. CceKnown(c, ct) \in {CceNearer(c, ct), c}
    BY <1>1, <1>6, <2>1 DEF CceKnown
  <2>5. CceNearer(c, ct) \in {Tp(c, ct), e}
    BY DEF CceNearer
  <2> QED BY <1>2, <2>2, <2>3, <2>4, <2>5
<1>7. CASE ct.leader = c.lwatid /\ ct.sa < c.sa
  <2>1. ct.sa \in Nat /\ c.sa \in Nat
    BY DEF CtCsbk, Contexts
  <2>2. CceKnown(c, ct) = c
    BY <1>1, <1>7, <2>1 DEF CceKnown
  <2> QED BY <1>2, <2>2
<1>8. ct.sa \in Nat /\ c.sa \in Nat
  BY DEF CtCsbk, Contexts
<1> QED BY <1>1, <1>4, <1>5, <1>6, <1>7, <1>8

\* What a context moves to after its identifier changed, unless it leads.
LEMMA MovesAfter ==
  ASSUME NEW c \in Contexts, NEW e, NEW d, Relabelled(c, e), Moves(e, d),
         e.state = c.state, e.lwatid = c.lwatid, c.state # "LEADER"
  PROVE  Moves(c, d)
<1>1. Keeps(c, d)
  BY KeepsAfter DEF Moves
<1> QED BY <1>1 DEF Moves, Beaconing, Better, LeaderOf, Relabelled

LEMMA CceMoves ==
  ASSUME NEW c \in Contexts, NEW ct \in CtCsbk, NEW id \in Ids,
         c.state # "LEADER"
  PROVE  Moves(c, Cce(c, ct, id))
<1> DEFINE e == IF Collides(c, ct) THEN [c EXCEPT !.id = id] ELSE c
           f == [c EXCEPT !.sa = ct.sa]
<1>1. /\ Relabelled(c, e) /\ e.state = c.state /\ e.lwatid = c.lwatid
  <2>1. CASE Collides(c, ct)
    BY <2>1, NewIdRelabels
  <2>2. CASE ~Collides(c, ct)
    BY <2>2 DEF Relabelled
  <2> QED BY <2>1, <2>2
<1>2. Relabelled(c, f) /\ f.state = c.state /\ f.lwatid = c.lwatid
  BY DEF Relabelled, Contexts, CtCsbk
<1>3. Cce(c, ct, id) =
        CASE Appointed(c, ct)      -> Lead(f)
          [] ~Appointed(c, ct) /\ c.lwatid = Nobody -> CceLeaderless(e, ct)
          [] ~Appointed(c, ct) /\ c.lwatid # Nobody -> CceKnown(e, ct)
  BY DEF Cce
<1> HIDE DEF e, f
<1>4. e \in Contexts /\ f \in Contexts
  BY <1>1, <1>2 DEF Relabelled
<1>5. CASE Appointed(c, ct)
  <2>1. Moves(c, Lead(f))
    BY <1>2, <1>4, LeadMoves, MovesAfter
  <2> QED BY <1>3, <1>5, <2>1
<1>6. CASE ~Appointed(c, ct) /\ c.lwatid = Nobody
  <2>1. Moves(c, CceLeaderless(e, ct))
    BY <1>1, <1>4, <1>6, CceLeaderlessMoves, MovesAfter
  <2> QED BY <1>3, <1>6, <2>1
<1>7. CASE ~Appointed(c, ct) /\ c.lwatid # Nobody
  <2>1. Moves(c, CceKnown(e, ct))
    BY <1>1, <1>4, CceKnownMoves, MovesAfter
  <2> QED BY <1>3, <1>7, <2>1
<1> QED BY <1>5, <1>6, <1>7

LEMMA LdrMoves ==
  ASSUME NEW c \in Contexts, NEW ct \in CtCsbk, NEW id \in Ids,
         c.state = "LEADER"
  PROVE  Moves(c, Ldr(c, ct, id))
<1> DEFINE own == WatidOf(c)
           sc  == \/ ct.leader # Nobody /\ ct.leader < own
                  \/ ct.leader = Nobody /\ ct.sdi <= c.di
           anl == \/ /\ ct.leader # Nobody /\ ct.leader > own
                     /\ ct.sdi > WatidDi(ct.leader)
                  \/ ct.leader = Nobody /\ ct.sdi > c.di
<1>1. /\ own \in Nat /\ own > 0 /\ ct.leader \in Nat /\ LeaderOf(c) = own
      /\ SourceOf(ct) \in Watids /\ SourceOf(ct) \in Nat /\ ct.leader \in Watids
      /\ ct.sdi \in 0..3 /\ c.di \in 0..3
      /\ ct.sid \in 0..(IdSpace - 1) /\ c.id \in 0..(IdSpace - 1)
  BY SourceTypes, IdentifierTypes, WatidsAreInts DEF LeaderOf, Contexts
<1>2. Moves(c, c) /\ Moves(c, Sc(c))
  BY StillMoves, ScMoves
<1>3. ASSUME anl PROVE Moves(c, Anl(c, SourceOf(ct)))
  <2>1. CASE ct.leader > own /\ ct.sdi > WatidDi(ct.leader)
    <3>0. ~(ct.sdi <= WatidDi(ct.leader))
      <4>1. WatidDi(ct.leader) \in Int
        BY <1>1, Bounds DEF WatidDi
      <4> QED BY <1>1, <2>1, <4>1
    <3>1. SourceOf(ct) > ct.leader
      BY <1>1, <3>0, Outranks DEF SourceOf
    <3>2. SourceOf(ct) > LeaderOf(c)
      BY <1>1, <2>1, <3>1
    <3> QED BY <1>1, <3>2, AnlMoves
  <2>2. CASE ct.sdi > c.di
    <3>1. Watid(c.di, c.id) < Watid(ct.sdi, ct.sid)
      BY <1>1, <2>2, HigherBand
    <3>2. SourceOf(ct) > LeaderOf(c)
      BY <1>1, <3>1 DEF SourceOf, WatidOf
    <3> QED BY <1>1, <3>2, AnlMoves
  <2> QED BY <1>3, <2>1, <2>2
<1>4. ct.leader = own => Moves(c, Ic(c, ct, id))
  BY IcMoves
<1>5. ct.leader > own => Moves(c, Al(c, ct))
  BY <1>1, AlMoves
<1>6. Ldr(c, ct, id) =
        CASE sc -> Sc(c)
          [] anl -> Anl(c, SourceOf(ct))
          [] ct.leader = own /\ ct.sa # c.sa -> Ic(c, ct, id)
          [] ct.leader > own /\ ct.sdi <= c.di -> Al(c, ct)
          [] OTHER -> c
  BY DEF Ldr
<1> HIDE DEF sc, anl, own
<1>7. \/ sc /\ Ldr(c, ct, id) = Sc(c)
      \/ anl /\ Ldr(c, ct, id) = Anl(c, SourceOf(ct))
      \/ ct.leader = own /\ Ldr(c, ct, id) = Ic(c, ct, id)
      \/ ct.leader > own /\ Ldr(c, ct, id) = Al(c, ct)
      \/ Ldr(c, ct, id) = c
  BY <1>6
<1> QED BY <1>2, <1>3, <1>4, <1>5, <1>7

----------------------------------------------------------------------------
(* What reaches the worker: a CT_CSBK, a timer, a confirmation.            *)

\* The wait for an answer ends; a request for a leader outlives what is heard
\* only unchanged.
Hears(c, d) ==
  /\ d \in Contexts /\ d.di = c.di /\ d.retries = c.retries
  /\ d.tmr["no_leader"] = c.tmr["no_leader"]
  /\ d.tmr["response_wait"] = Disarm(c.tmr, "response_wait")["response_wait"]
  /\ Requesting(d) => /\ Requesting(c) /\ d.state = c.state
                      /\ d.tmr["ct_rhot"] = c.tmr["ct_rhot"]
  /\ Held(c, d) /\ Beaconing(c, d) /\ Better(c, d)

LEMMA DispatchHears ==
  ASSUME NEW c \in Contexts, NEW ct \in CtCsbk, NEW id \in Ids
  PROVE  Hears(c, DispatchRx(c, ct, id))
<1> DEFINE tm == Disarm(c.tmr, "response_wait")
           heard == [c EXCEPT !.tmr = tm]
           tn == Disarm(tm, "ct_rhot")
           calm == [Unscheduled(heard) EXCEPT !.tmr = tn]
           e == IF Cancelled(c, ct) THEN calm ELSE heard
           d == DispatchRx(c, ct, id)
<1>1. c.tmr \in [Timers -> Timer] /\ {"response_wait", "ct_rhot"} \subseteq Timers
  BY DEF Contexts, Timers
<1>2. tm \in [Timers -> Timer] /\ tn \in [Timers -> Timer]
  BY <1>1, TimersStayTyped
<1>3. /\ \A t \in Timers \ {"response_wait"} : tm[t] = c.tmr[t]
      /\ \A t \in Timers \ {"ct_rhot"} : tn[t] = tm[t]
  BY <1>1, <1>2 DEF Disarm
<1>4. {"no_leader", "beacon_interval"} \subseteq Timers \ {"response_wait", "ct_rhot"}
  BY DEF Timers
<1>5. /\ heard \in Contexts /\ heard.tmr = tm /\ heard.kind = c.kind
      /\ heard.di = c.di /\ heard.retries = c.retries
      /\ heard.state = c.state /\ heard.lwatid = c.lwatid /\ heard.id = c.id
      /\ heard.submitted = c.submitted
  BY <1>2 DEF Contexts
<1>6. /\ calm \in Contexts /\ calm.tmr = tn /\ calm.kind = "NONE"
      /\ calm.di = c.di /\ calm.retries = c.retries
      /\ calm.state = c.state /\ calm.lwatid = c.lwatid /\ calm.id = c.id
  BY <1>2, NoCsbkTyped DEF Contexts, Unscheduled, Kinds
<1>7. d = IF Kept(c, ct) THEN heard
            ELSE IF c.state = "LEADER" THEN Ldr(e, ct, id) ELSE Cce(e, ct, id)
  <2>1. heard = [c EXCEPT !.tmr = Disarm(@, "response_wait")]
    OBVIOUS
  <2>2. Unscheduled(heard).tmr = tm
    BY <1>5 DEF Unscheduled, Contexts
  <2>3. calm = [Unscheduled(heard) EXCEPT !.tmr = Disarm(@, "ct_rhot")]
    BY <2>2
  <2> HIDE DEF heard, calm
  <2> QED BY <2>1, <2>3 DEF DispatchRx
<1> HIDE DEF tm, tn, heard, calm, d
<1>8. CASE Kept(c, ct)
  <2>1. d = heard
    BY <1>7, <1>8
  <2>2. Hears(c, heard)
    BY <1>1, <1>3, <1>4, <1>5 DEF Hears, Requesting, Held, Beaconing, Better, LeaderOf,
       WatidOf, tm
  <2> QED BY <2>1, <2>2 DEF d
<1>9. CASE ~Kept(c, ct)
  <2>1. /\ e \in Contexts /\ e.di = c.di /\ e.retries = c.retries
        /\ e.state = c.state /\ e.lwatid = c.lwatid /\ e.id = c.id
        /\ e.tmr["no_leader"] = c.tmr["no_leader"]
        /\ e.tmr["beacon_interval"] = c.tmr["beacon_interval"]
        /\ e.tmr["response_wait"] = tm["response_wait"]
    BY <1>1, <1>3, <1>4, <1>5, <1>6
  <2>2. /\ e.kind # "NOLEADER_REQ"
        /\ \/ e.kind = "NONE"
           \/ /\ e.kind = c.kind /\ e.submitted = c.submitted
              /\ e.tmr["ct_rhot"] = c.tmr["ct_rhot"]
    BY <1>1, <1>3, <1>5, <1>6, <1>9 DEF Cancelled
  <2> HIDE DEF e
  <2>3. Moves(e, d)
    BY <1>7, <1>9, <2>1, LdrMoves, CceMoves
  <2>4. /\ d \in Contexts /\ d.di = c.di /\ d.retries = c.retries
        /\ d.tmr["no_leader"] = c.tmr["no_leader"]
        /\ d.tmr["response_wait"] = tm["response_wait"]
        /\ ~Requesting(d)
    BY <2>1, <2>2, <2>3 DEF Moves, Keeps, Slow, Requesting
  <2>5. Held(c, d)
    BY <2>2, <2>3 DEF Moves, Keeps, Held
  <2>6. Beaconing(c, d) /\ Better(c, d)
    BY <2>1, <2>3 DEF Moves, Beaconing, Better, LeaderOf, WatidOf
  <2> QED BY <2>4, <2>5, <2>6 DEF Hears, d, tm
<1> QED BY <1>8, <1>9

LEMMA HearingElection ==
  ASSUME NEW c \in Contexts, NEW d, Hears(c, d), NEW b, NEW m \in BOOLEAN, NEW at,
         Election(c, b, m, at)
  PROVE  Election(d, b, m, at)
<1>1. c.tmr \in [Timers -> Timer] /\ {"response_wait", "no_leader"} \subseteq Timers
  BY DEF Contexts, Timers
<1>2. c.tmr["response_wait"] \in Timer
  BY <1>1
<1>3. /\ d.tmr["response_wait"].left = 0 /\ ~Has(d, "response_wait")
  <2>1. CASE c.tmr["response_wait"].armed
    BY <1>1, <2>1 DEF Hears, Disarm, Off, Has
  <2>2. CASE ~c.tmr["response_wait"].armed
    BY <1>1, <2>2 DEF Hears, Disarm, Election, Has
  <2> QED BY <2>1, <2>2
<1>4. Over(d, b) <=> Over(c, b)
  BY DEF Over, Due, Hears
<1>5. Waits(d, b) => Waits(c, b)
  BY <1>3 DEF Waits
<1>6. Requesting(d) => /\ Requesting(c) /\ d.state = c.state
                       /\ (Has(d, "ct_rhot") <=> Has(c, "ct_rhot"))
  BY DEF Hears, Has
<1>7. /\ d.retries = c.retries
      /\ "response_wait" \in b => d.tmr["response_wait"].kern # "running"
      /\ Due(d.tmr, "no_leader") <=> Due(c.tmr, "no_leader")
  BY <1>3 DEF Hears, Due, Has
<1> QED BY <1>3, <1>4, <1>5, <1>6, <1>7 DEF Election

Served(c, t) == [c EXCEPT !.tmr = Drain(@, t)]

\* A timer served is off, or already runs again.
LEMMA Draining ==
  ASSUME NEW c \in Contexts, NEW t \in Timers,
         NEW e, e = Served(c, t)
  PROVE  /\ e \in Contexts /\ e.di = c.di /\ e.id = c.id /\ e.retries = c.retries
         /\ e.state = c.state /\ e.lwatid = c.lwatid
         /\ e.kind = c.kind /\ e.submitted = c.submitted /\ e.pending = c.pending
         /\ \A u \in Timers \ {t} : e.tmr[u] = c.tmr[u]
         /\ e.tmr[t].kern = (IF c.tmr[t].kern = "expired" THEN "off"
                                                          ELSE c.tmr[t].kern)
         /\ (c.tmr[t].kern # "expired" => e.tmr[t].left = c.tmr[t].left)
         /\ (c.tmr[t].kern = "expired" => e.tmr[t].left = 0)
<1>1. c.tmr \in [Timers -> Timer]
  BY DEF Contexts
<1>2. Drain(c.tmr, t) \in [Timers -> Timer]
  BY <1>1, TimersStayTyped
<1>3. /\ e \in Contexts /\ e.tmr = Drain(c.tmr, t)
      /\ e.di = c.di /\ e.id = c.id /\ e.retries = c.retries
      /\ e.state = c.state /\ e.lwatid = c.lwatid
      /\ e.kind = c.kind /\ e.submitted = c.submitted /\ e.pending = c.pending
  BY <1>2 DEF Contexts, Served
<1>4. \A u \in Timers \ {t} : e.tmr[u] = c.tmr[u]
  BY <1>1, <1>3 DEF Drain
<1>5. CASE c.tmr[t].kern = "expired"
  <2>1. e.tmr[t] = Off
    BY <1>1, <1>3, <1>5 DEF Drain
  <2> QED BY <1>3, <1>4, <1>5, <2>1 DEF Off
<1>6. CASE c.tmr[t].kern # "expired"
  <2>1. e.tmr[t] = [c.tmr[t] EXCEPT !.armed = FALSE]
    BY <1>1, <1>3, <1>6 DEF Drain
  <2>2. c.tmr[t] \in Timer
    BY <1>1
  <2>3. e.tmr[t].kern = c.tmr[t].kern /\ e.tmr[t].left = c.tmr[t].left
    BY <2>1, <2>2 DEF Timer
  <2> QED BY <1>3, <1>4, <1>6, <2>3
<1> QED BY <1>5, <1>6

LEMMA DrainingElection ==
  ASSUME NEW c \in Contexts, NEW t \in Timers, NEW b, t \in b,
         NEW m \in BOOLEAN, NEW at, Election(c, b, m, at),
         NEW e, e = Served(c, t)
  PROVE  /\ Election(e, b \ {t}, m, at)
         /\ t = "no_leader" => ~Over(e, b \ {t}) /\ ~Waits(e, b \ {t})
         /\ t = "response_wait" =>
              ~Waits(e, b \ {t}) /\ ~Over(e, b \ {t}) /\ e.retries < MaxRetries
         /\ t = "ct_rhot" => ~(Requesting(e) /\ Over(e, b \ {t}))
<1>1. /\ e \in Contexts /\ e.retries = c.retries
      /\ e.state = c.state /\ e.kind = c.kind
      /\ \A u \in Timers \ {t} : e.tmr[u] = c.tmr[u]
      /\ e.tmr[t].kern = (IF c.tmr[t].kern = "expired" THEN "off"
                                                       ELSE c.tmr[t].kern)
      /\ (c.tmr[t].kern # "expired" => e.tmr[t].left = c.tmr[t].left)
      /\ (c.tmr[t].kern = "expired" => e.tmr[t].left = 0)
  BY Draining
<1>2. {"response_wait", "no_leader", "ct_rhot"} \subseteq Timers
  BY DEF Timers
<1>3. \A u \in Timers : Has(e, u) => Has(c, u)
  BY <1>1 DEF Has
<1>4. /\ e.tmr["response_wait"].left = 0
      /\ t = "response_wait" => ~Has(e, "response_wait")
      /\ Has(e, "response_wait") => e.tmr["response_wait"].armed
  <2>1. CASE t = "response_wait"
    <3>1. c.tmr["response_wait"].kern # "running" /\ c.tmr["response_wait"].left = 0
      BY <2>1 DEF Election
    <3>2. c.tmr["response_wait"].kern \in {"off", "running", "expired"}
      BY <1>2 DEF Contexts, Timer
    <3> QED BY <1>1, <2>1, <3>1, <3>2 DEF Has
  <2>2. CASE t # "response_wait"
    BY <1>1, <1>2, <2>2 DEF Election, Has
  <2> QED BY <2>1, <2>2
<1>5. Over(e, b \ {t}) => Over(c, b) /\ t # "no_leader"
  <2>1. CASE t = "no_leader"
    <3>1. ~Due(c.tmr, "no_leader")
      BY <2>1 DEF Election
    <3>2. e.tmr["no_leader"].kern # "expired"
      BY <1>1, <2>1
    <3>3. ~Due(e.tmr, "no_leader")
      BY <1>1, <2>1, <3>1 DEF Due
    <3> QED BY <2>1, <3>2, <3>3 DEF Over
  <2>2. CASE t # "no_leader"
    BY <1>1, <1>2, <2>2 DEF Over, Due
  <2> QED BY <2>1, <2>2
<1>6. Waits(e, b \ {t}) => Waits(c, b) /\ t # "response_wait"
  BY <1>2, <1>3, <1>4 DEF Waits
<1>7. /\ t = "no_leader" => Over(c, b)
      /\ t = "response_wait" => Waits(c, b)
  BY DEF Over, Waits
<1>8. Requesting(e) <=> Requesting(c)
  BY <1>1 DEF Requesting
<1>9. /\ "response_wait" \in b \ {t} => e.tmr["response_wait"].kern # "running"
      /\ "no_leader" \in b \ {t} => ~Due(e.tmr, "no_leader")
  BY <1>1, <1>2 DEF Election, Due
<1>10. Has(e, "ct_rhot") => Has(c, "ct_rhot")
  BY <1>2, <1>3
<1>11. Has(e, "response_wait") => Has(c, "response_wait")
  BY <1>2, <1>3
<1>12. Election(e, b \ {t}, m, at)
  BY <1>1, <1>4, <1>5, <1>6, <1>8, <1>9, <1>10, <1>11 DEF Election
<1>13. t = "no_leader" => ~Over(e, b \ {t}) /\ ~Waits(e, b \ {t})
  BY <1>5, <1>6, <1>7 DEF Election
<1>14. t = "response_wait" =>
         ~Waits(e, b \ {t}) /\ ~Over(e, b \ {t}) /\ e.retries < MaxRetries
  BY <1>1, <1>5, <1>6, <1>7 DEF Election
<1>15. t = "ct_rhot" => ~(Requesting(e) /\ Over(e, b \ {t}))
  BY <1>5, <1>8 DEF Election
<1> QED BY <1>12, <1>13, <1>14, <1>15

\* What a timer handler does, b being the snapshot that is left.
Answers(c, d, b, m, at) ==
  /\ d \in Contexts /\ d.di = c.di
  /\ Leading(c) => Leading(d)
  /\ Held(c, d) /\ Better(c, d)
  /\ Election(d, b, m, at)

\* Nothing of the election but the pending CT_CSBK changes.
LEMMA OtherElection ==
  ASSUME NEW c, NEW d, NEW b, NEW m \in BOOLEAN, NEW at,
         Election(c, b, m, at), ~Requesting(d), d.retries = c.retries,
         \A t \in Slow : d.tmr[t] = c.tmr[t],
         d.state = c.state \/ ~Has(c, "response_wait")
  PROVE  Election(d, b, m, at)
<1>1. "no_leader" \in Slow /\ "response_wait" \in Slow
  BY DEF Slow
<1>2. /\ d.tmr["no_leader"] = c.tmr["no_leader"]
      /\ d.tmr["response_wait"] = c.tmr["response_wait"]
  BY <1>1
<1>3. /\ Over(d, b) <=> Over(c, b)
      /\ Waits(d, b) <=> Waits(c, b)
      /\ Has(d, "response_wait") <=> Has(c, "response_wait")
      /\ Due(d.tmr, "no_leader") <=> Due(c.tmr, "no_leader")
  BY <1>2 DEF Over, Due, Waits, Has
<1> QED BY <1>2, <1>3 DEF Election

LEMMA RequestElection ==
  ASSUME NEW c \in Contexts, NEW b, NEW m \in BOOLEAN, NEW at,
         c.retries \in Nat, c.retries < MaxRetries, c.state \in Leaderless,
         ~Waits(c, b), ~Over(c, b),
         c.tmr["response_wait"].left = 0,
         NEW d, d = NoLeaderReq(c)
  PROVE  /\ d \in Contexts /\ d.di = c.di /\ d.state = c.state
         /\ Has(d, "ct_rhot") /\ Election(d, b, m, at)
<1>1. Request(c) \in CtCsbk /\ "NOLEADER_REQ" \in Kinds \ {"NONE"}
  BY BuildersTyped DEF Kinds
<1>2. /\ d \in Contexts /\ Has(d, "ct_rhot") /\ d.kind = "NOLEADER_REQ"
      /\ d.di = c.di /\ d.retries = c.retries /\ d.state = c.state
      /\ \A t \in Timers \ {"ct_rhot"} : d.tmr[t] = c.tmr[t]
  BY <1>1, Scheduling DEF NoLeaderReq
<1>3. {"no_leader", "response_wait"} \subseteq Timers \ {"ct_rhot"}
  BY DEF Timers
<1>4. /\ d.tmr["no_leader"] = c.tmr["no_leader"]
      /\ d.tmr["response_wait"] = c.tmr["response_wait"]
  BY <1>2, <1>3
<1>5. ~Waits(d, b) /\ ~Over(d, b) /\ ~Has(d, "response_wait")
  BY <1>4 DEF Waits, Over, Due, Has
<1>6. Election(d, b, m, at)
  BY <1>2, <1>4, <1>5, Bounds DEF Election, Waits, Over
<1> QED BY <1>2, <1>6

LEMMA NoLeaderAnswers ==
  ASSUME NEW c \in Contexts, NEW t, t = "no_leader", NEW b, t \in b,
         NEW m \in BOOLEAN, NEW at, Election(c, b, m, at),
         NEW e, e = Served(c, t), e.state \in Leaderless
  PROVE  Answers(c, NoLeaderReq([e EXCEPT !.retries = 0]), b \ {t}, m, at)
<1> DEFINE f == [e EXCEPT !.retries = 0]
           d == NoLeaderReq(f)
<1>1. /\ e \in Contexts /\ e.di = c.di /\ e.state = c.state
      /\ e.tmr["response_wait"] = c.tmr["response_wait"]
  BY Draining DEF Timers
<1>2. ~Over(e, b \ {t}) /\ ~Waits(e, b \ {t})
  BY DrainingElection DEF Timers
<1>3. /\ f \in Contexts /\ f.di = e.di /\ f.state = e.state /\ f.tmr = e.tmr
      /\ f.retries = 0
  BY <1>1 DEF Contexts
<1> HIDE DEF f
<1>4. ~Over(f, b \ {t}) /\ ~Waits(f, b \ {t})
  BY <1>2, <1>3 DEF Over, Waits, Has
<1>5. c.tmr["response_wait"].left = 0
  BY DEF Election
<1>6. /\ d \in Contexts /\ d.di = f.di /\ d.state = f.state
      /\ Has(d, "ct_rhot") /\ Election(d, b \ {t}, m, at)
  BY <1>1, <1>3, <1>4, <1>5, Bounds, RequestElection
<1> HIDE DEF d
<1>7. Answers(c, d, b \ {t}, m, at)
  BY <1>1, <1>3, <1>6 DEF Answers, Leading, Held, Better, Leaderless
<1> QED BY <1>7 DEF d, f

LEMMA ResponseMissingAnswers ==
  ASSUME NEW c \in Contexts, NEW t, t = "response_wait", NEW b, t \in b,
         NEW m \in BOOLEAN, NEW at, Election(c, b, m, at),
         NEW e, e = Served(c, t), e.state \in Leaderless
  PROVE  Answers(c, ResponseMissing(e), b \ {t}, m, at)
<1> DEFINE f == [e EXCEPT !.retries = @ + 1]
           g == [f EXCEPT !.sa = 0, !.lwatid = WatidOf(f)]
           d == ResponseMissing(e)
<1>1. /\ e \in Contexts /\ e.di = c.di /\ e.state = c.state
      /\ e.retries \in Nat
  BY Draining DEF Timers, Contexts
<1>2. /\ ~Waits(e, b \ {t}) /\ ~Over(e, b \ {t}) /\ e.retries < MaxRetries
      /\ Election(e, b \ {t}, m, at)
  <2>1. t \in Timers
    BY DEF Timers
  <2>2. Election(e, b \ {t}, m, at)
    BY <2>1, DrainingElection
  <2>3. ~Waits(e, b \ {t}) /\ ~Over(e, b \ {t}) /\ e.retries < MaxRetries
    BY <2>1, DrainingElection
  <2> QED BY <2>2, <2>3
<1>3. /\ f \in Contexts /\ f.di = e.di /\ f.state = e.state /\ f.tmr = e.tmr
      /\ f.retries = e.retries + 1
  BY <1>1 DEF Contexts
<1>4. d = IF f.retries >= MaxRetries THEN Lead(g) ELSE NoLeaderReq(f)
  BY DEF ResponseMissing, SelfPromote
<1> HIDE DEF f
<1>5. /\ ~Waits(f, b \ {t}) /\ ~Over(f, b \ {t})
      /\ f.tmr["response_wait"].left = 0
  BY <1>2, <1>3 DEF Over, Waits, Has, Election
<1>6. /\ g \in Contexts /\ g.di = f.di /\ g.tmr = f.tmr
      /\ g.retries = f.retries
  BY <1>3, IdentifierTypes DEF Contexts
<1> HIDE DEF g, d
<1>7. CASE f.retries >= MaxRetries
  <2>1. /\ d \in Contexts /\ d.di = g.di /\ d.retries = g.retries
        /\ d.state = "LEADER" /\ d.kind = "OTHER"
        /\ Has(d, "beacon_interval") /\ Has(d, "ct_rhot")
        /\ \A u \in Slow : d.tmr[u] = g.tmr[u]
    BY <1>4, <1>6, <1>7, LeadLeads
  <2>2. /\ d.tmr["response_wait"] = e.tmr["response_wait"]
        /\ d.tmr["no_leader"] = e.tmr["no_leader"]
    BY <1>3, <1>6, <2>1 DEF Slow
  <2>3. ~Waits(d, b \ {t}) /\ d.retries = MaxRetries
    BY <1>1, <1>2, <1>3, <1>6, <1>7, <2>1, <2>2, Bounds DEF Waits, Has
  <2>4. Election(d, b \ {t}, m, at)
    BY <1>2, <2>1, <2>2, <2>3, Bounds DEF Election, Requesting, Waits, Has, Due
  <2>5. Answers(c, d, b \ {t}, m, at)
    BY <1>1, <1>3, <1>6, <2>1, <2>4 DEF Answers, Leading, Held, Better
  <2> QED BY <2>5 DEF d
<1>8. CASE ~(f.retries >= MaxRetries)
  <2>1. /\ d \in Contexts /\ d.di = f.di /\ d.state = f.state
        /\ Has(d, "ct_rhot") /\ Election(d, b \ {t}, m, at)
    <3>1. f.retries \in Nat /\ f.retries < MaxRetries
      BY <1>1, <1>3, <1>8, Bounds
    <3>2. d = NoLeaderReq(f) /\ f.state \in Leaderless
      BY <1>3, <1>4, <1>8
    <3> QED BY <1>3, <1>5, <3>1, <3>2, RequestElection
  <2>2. Answers(c, d, b \ {t}, m, at)
    BY <1>1, <1>3, <2>1 DEF Answers, Leading, Held, Better, Leaderless
  <2> QED BY <2>2 DEF d
<1> QED BY <1>7, <1>8

LEMMA LoseLeaderAnswers ==
  ASSUME NEW c \in Contexts, NEW t, t = "sync_age", NEW b, t \in b,
         NEW m \in BOOLEAN, NEW at, Election(c, b, m, at),
         NEW e, e = Served(c, t), e.state = "KNOWN"
  PROVE  Answers(c, LoseLeader(e), b \ {t}, m, at)
<1> DEFINE g == Arm(e.tmr, "no_leader", NoLeaderTimer)
           d == LoseLeader(e)
<1>1. t \in Timers /\ {"no_leader", "response_wait", "beacon_interval", "ct_rhot"} \subseteq Timers
  BY DEF Timers
<1>2. /\ e \in Contexts /\ e.di = c.di /\ e.state = c.state /\ e.retries = c.retries
      /\ e.kind = c.kind /\ e.submitted = c.submitted
      /\ e.tmr["ct_rhot"] = c.tmr["ct_rhot"]
  <2>1. t \in Timers /\ "ct_rhot" \in Timers \ {t}
    BY <1>1
  <2>2. /\ e \in Contexts /\ e.di = c.di /\ e.state = c.state
        /\ e.retries = c.retries /\ e.kind = c.kind /\ e.submitted = c.submitted
    BY <2>1, Draining
  <2>3. e.tmr["ct_rhot"] = c.tmr["ct_rhot"]
    BY <2>1, Draining
  <2> QED BY <2>2, <2>3
<1>3. Election(e, b \ {t}, m, at)
  BY <1>1, DrainingElection
<1>4. e.tmr \in [Timers -> Timer]
  BY <1>2 DEF Contexts
<1>5. g \in [Timers -> Timer] /\ (\A u \in Timers \ {"no_leader"} : g[u] = e.tmr[u])
      /\ g["no_leader"] = [kern |-> "running", left |-> NoLeaderTimer, armed |-> TRUE]
  BY <1>1, <1>4, TimersStayTyped, Bounds DEF Arm
<1>6. /\ d \in Contexts /\ d.di = e.di /\ d.state = "LEADER_UNKNOWN"
      /\ d.retries = e.retries /\ d.kind = e.kind /\ d.submitted = e.submitted
      /\ d.tmr = g
  <2>1. 0 \in 0..GenSpace /\ Nobody \in Watids /\ "LEADER_UNKNOWN" \in States
    BY <1>2, Bounds, IdentifierTypes DEF States
  <2>2. d = [e EXCEPT !.gen = 0, !.sa = 0, !.lwatid = Nobody,
                      !.state = "LEADER_UNKNOWN", !.tmr = g]
    BY DEF LoseLeader
  <2> HIDE DEF g, d
  <2> QED BY <1>2, <1>5, <2>1, <2>2 DEF Contexts
<1> HIDE DEF g, d
<1>7. /\ d.tmr["response_wait"] = e.tmr["response_wait"]
      /\ d.tmr["ct_rhot"] = c.tmr["ct_rhot"]
  BY <1>1, <1>2, <1>5, <1>6
<1>8. ~Due(d.tmr, "no_leader") /\ d.tmr["no_leader"].kern # "expired"
  BY <1>5, <1>6, Bounds DEF Due
<1>9. ~Requesting(e) /\ ~Has(e, "response_wait")
  BY <1>3 DEF Election, Leaderless
<1>10. ~Requesting(d) /\ ~Has(d, "response_wait")
  BY <1>6, <1>7, <1>9 DEF Requesting, Has
<1>11. (Over(d, b \ {t}) => Over(e, b \ {t})) /\ (Waits(d, b \ {t}) <=> Waits(e, b \ {t}))
  BY <1>7, <1>8 DEF Over, Waits, Has
<1>12. Election(d, b \ {t}, m, at)
  BY <1>3, <1>6, <1>7, <1>8, <1>10, <1>11 DEF Election
<1>13. Answers(c, d, b \ {t}, m, at)
  BY <1>2, <1>6, <1>7, <1>12 DEF Answers, Leading, Held, Better
<1> QED BY <1>13 DEF d

LEMMA WarningAnswers ==
  ASSUME NEW c \in Contexts, NEW t, t = "sync_age_warning", NEW b, t \in b,
         NEW m \in BOOLEAN, NEW at, Election(c, b, m, at),
         NEW e, e = Served(c, t), e.state = "KNOWN"
  PROVE  Answers(c, Schedule(e, Refresh(e), "SYNCAGEWARNING_REQ"), b \ {t}, m, at)
<1> DEFINE d == Schedule(e, Refresh(e), "SYNCAGEWARNING_REQ")
<1>1. t \in Timers /\ Slow \subseteq Timers \ {"ct_rhot", t}
  BY DEF Timers, Slow
<1>2. /\ e \in Contexts /\ e.di = c.di /\ e.state = c.state /\ e.lwatid = c.lwatid
  BY <1>1, Draining
<1>3. Election(e, b \ {t}, m, at)
  BY <1>1, DrainingElection
<1>4. Refresh(e) \in CtCsbk /\ "SYNCAGEWARNING_REQ" \in Kinds \ {"NONE"}
  BY <1>2, BuildersTyped DEF Kinds
<1>5. /\ d \in Contexts /\ Has(d, "ct_rhot") /\ d.kind = "SYNCAGEWARNING_REQ"
      /\ d.di = e.di /\ d.retries = e.retries /\ d.state = e.state
      /\ d.lwatid = e.lwatid
      /\ \A u \in Timers \ {"ct_rhot"} : d.tmr[u] = e.tmr[u]
  BY <1>2, <1>4, Scheduling
<1> HIDE DEF d
<1>6. Election(d, b \ {t}, m, at)
  BY <1>1, <1>3, <1>5, OtherElection DEF Requesting
<1>7. Answers(c, d, b \ {t}, m, at)
  BY <1>2, <1>5, <1>6 DEF Answers, Leading, Held, Better, LeaderOf
<1> QED BY <1>7 DEF d

Rearmed(s) == [s EXCEPT !.tmr = Arm(@, "beacon_interval", BeaconInterval)]

LEMMA BeaconAnswers ==
  ASSUME NEW c \in Contexts, NEW t, t = "beacon_interval", NEW b, t \in b,
         NEW m \in BOOLEAN, NEW at, Election(c, b, m, at),
         NEW e, e = Served(c, t), e.state = "LEADER",
         NEW s, s = Schedule(e, Beacon(e), "OTHER"),
         NEW d, d = Rearmed(s)
  PROVE  Answers(c, d, b \ {t}, m, at)
<1> DEFINE g == Arm(s.tmr, "beacon_interval", BeaconInterval)
<1>1. /\ t \in Timers /\ Slow \subseteq Timers \ {"ct_rhot", t}
      /\ "ct_rhot" \in Timers
  BY DEF Timers, Slow
<1>2. e \in Contexts /\ e.di = c.di /\ e.state = c.state
  BY <1>1, Draining
<1>3. Election(e, b \ {t}, m, at)
  BY <1>1, DrainingElection
<1>4. Beacon(e) \in CtCsbk /\ "OTHER" \in Kinds \ {"NONE"}
  BY <1>2, BuildersTyped DEF Kinds
<1>5. /\ s \in Contexts /\ Has(s, "ct_rhot") /\ s.kind = "OTHER"
      /\ s.di = e.di /\ s.retries = e.retries /\ s.state = e.state
      /\ \A u \in Timers \ {"ct_rhot"} : s.tmr[u] = e.tmr[u]
  BY <1>2, <1>4, Scheduling
<1>6. s.tmr \in [Timers -> Timer]
  BY <1>5 DEF Contexts
<1>7. /\ g \in [Timers -> Timer] /\ g[t].kern = "running"
      /\ \A u \in Timers \ {t} : g[u] = s.tmr[u]
  BY <1>1, <1>6, TimersStayTyped, Bounds DEF Arm
<1> HIDE DEF g
<1>8. /\ d \in Contexts /\ d.tmr = g /\ d.di = s.di /\ d.retries = s.retries
      /\ d.state = s.state /\ d.kind = s.kind
  BY <1>5, <1>7 DEF Contexts, Rearmed, g
<1>9. /\ Has(d, "ct_rhot") /\ Has(d, t)
      /\ \A u \in Slow : d.tmr[u] = e.tmr[u]
  <2>1. Has(d, t)
    BY <1>7, <1>8 DEF Has
  <2>2. Has(d, "ct_rhot")
    BY <1>1, <1>5, <1>7, <1>8 DEF Has
  <2>3. ASSUME NEW u \in Slow PROVE d.tmr[u] = e.tmr[u]
    <3>1. u \in Timers \ {t} /\ u \in Timers \ {"ct_rhot"}
      BY <1>1
    <3>2. g[u] = s.tmr[u] /\ s.tmr[u] = e.tmr[u]
      BY <1>5, <1>7, <3>1
    <3> QED BY <1>8, <3>2
  <2> QED BY <2>1, <2>2, <2>3
<1>10. Election(d, b \ {t}, m, at)
  <2>1. ~Requesting(d) /\ d.retries = e.retries /\ d.state = e.state
    BY <1>5, <1>8 DEF Requesting
  <2> QED BY <1>3, <1>9, <2>1, OtherElection
<1> QED BY <1>2, <1>5, <1>8, <1>9, <1>10 DEF Answers, Leading, Held, Better

LEMMA IdleAnswers ==
  ASSUME NEW c \in Contexts, NEW t \in Timers \ {"ct_rhot"}, NEW b, t \in b,
         NEW m \in BOOLEAN, NEW at, Election(c, b, m, at),
         NEW e, e = Served(c, t), ~(t = "beacon_interval" /\ e.state = "LEADER")
  PROVE  Answers(c, e, b \ {t}, m, at)
<1>1. /\ e \in Contexts /\ e.di = c.di /\ e.state = c.state /\ e.lwatid = c.lwatid
      /\ e.kind = c.kind /\ e.submitted = c.submitted
      /\ \A u \in Timers \ {t} : e.tmr[u] = c.tmr[u]
  BY Draining
<1>2. Election(e, b \ {t}, m, at)
  BY DrainingElection
<1>3. Leading(c) => Leading(e)
  BY <1>1 DEF Leading, Has, Timers
<1>4. e.tmr["ct_rhot"] = c.tmr["ct_rhot"]
  BY <1>1 DEF Timers
<1> QED BY <1>1, <1>2, <1>3, <1>4 DEF Answers, Held, Better, LeaderOf

LEMMA TimerAnswers ==
  ASSUME NEW c \in Contexts, NEW t \in Timers \ {"ct_rhot"}, NEW b, t \in b,
         NEW m \in BOOLEAN, NEW at, Election(c, b, m, at),
         NEW e, e = Served(c, t)
  PROVE  Answers(c, TimerHandler(e, t), b \ {t}, m, at)
<1>1. CASE t = "no_leader" /\ e.state \in Leaderless
  <2>1. TimerHandler(e, t) = NoLeaderReq([e EXCEPT !.retries = 0])
    BY <1>1 DEF TimerHandler
  <2> QED BY <1>1, <2>1, NoLeaderAnswers
<1>2. CASE t = "response_wait" /\ e.state \in Leaderless
  <2>1. TimerHandler(e, t) = ResponseMissing(e)
    BY <1>2 DEF TimerHandler
  <2> QED BY <1>2, <2>1, ResponseMissingAnswers
<1>3. CASE t = "sync_age" /\ e.state = "KNOWN"
  <2>1. TimerHandler(e, t) = LoseLeader(e)
    BY <1>3 DEF TimerHandler
  <2> QED BY <1>3, <2>1, LoseLeaderAnswers
<1>4. CASE t = "sync_age_warning" /\ e.state = "KNOWN"
  <2>1. TimerHandler(e, t) = Schedule(e, Refresh(e), "SYNCAGEWARNING_REQ")
    BY <1>4 DEF TimerHandler
  <2> QED BY <1>4, <2>1, WarningAnswers
<1>5. CASE t = "beacon_interval" /\ e.state = "LEADER"
  <2> DEFINE s == Schedule(e, Beacon(e), "OTHER")
             d == Rearmed(s)
  <2>1. TimerHandler(e, t) = d
    BY <1>5 DEF TimerHandler, Rearmed
  <2>2. Answers(c, d, b \ {t}, m, at)
    BY <1>5, BeaconAnswers
  <2> QED BY <2>1, <2>2
<1>6. CASE /\ ~(t \in {"no_leader", "response_wait"} /\ e.state \in Leaderless)
           /\ ~(t \in {"sync_age", "sync_age_warning"} /\ e.state = "KNOWN")
           /\ ~(t = "beacon_interval" /\ e.state = "LEADER")
  <2>1. TimerHandler(e, t) = e
    BY <1>6 DEF TimerHandler
  <2> QED BY <1>6, <2>1, IdleAnswers
<1> QED BY <1>1, <1>2, <1>3, <1>4, <1>5, <1>6

LEMMA FewerAnswers ==
  ASSUME NEW c, NEW b, NEW m \in BOOLEAN, NEW n \in BOOLEAN, NEW at,
         Election(c, b, m, at), n => m
  PROVE  Election(c, b, n, at)
  BY DEF Election

\* What ends the wait for an answer to what is pending.
Ends(c, d) ==
  /\ d \in Contexts /\ d.di = c.di /\ d.state = c.state /\ d.lwatid = c.lwatid
  /\ d.id = c.id
  /\ d.tmr["beacon_interval"] = c.tmr["beacon_interval"]
  /\ d.kind = "NONE" \/ Has(d, "ct_rhot")

\* An answer for a request for a leader starts the wait for what other radios
\* say: the minutes without a leader cannot be over by then.
LEMMA ConfirmedEnds ==
  ASSUME NEW c \in Contexts, NEW b, NEW n \in BOOLEAN, NEW at,
         Election(c, b, TRUE, at), NEW d, d = Confirmed(c)
  PROVE  Ends(c, d) /\ Election(d, b, n, at)
<1> DEFINE tm == IF Requesting(c) THEN Arm(c.tmr, "response_wait", 0) ELSE c.tmr
<1>1. c.tmr \in [Timers -> Timer] /\ "response_wait" \in Timers
  BY DEF Contexts, Timers
<1>2. tm \in [Timers -> Timer]
  BY <1>1, TimersStayTyped
<1>3. \A u \in Timers \ {"response_wait"} : tm[u] = c.tmr[u]
  BY <1>1 DEF Arm
<1>4. Unscheduled(c) \in Contexts /\ Unscheduled(c).tmr = c.tmr
  BY NoCsbkTyped DEF Unscheduled, Contexts, Kinds
<1>5. d = [Unscheduled(c) EXCEPT !.tmr = tm]
  BY <1>4 DEF Confirmed, Requesting
<1>6. /\ d \in Contexts /\ d.di = c.di /\ d.state = c.state /\ d.id = c.id
      /\ d.lwatid = c.lwatid /\ d.retries = c.retries /\ d.kind = "NONE"
      /\ d.tmr = tm
  <2> HIDE DEF tm
  <2>1. /\ Unscheduled(c).di = c.di /\ Unscheduled(c).state = c.state
        /\ Unscheduled(c).id = c.id /\ Unscheduled(c).lwatid = c.lwatid
        /\ Unscheduled(c).retries = c.retries /\ Unscheduled(c).kind = "NONE"
    BY DEF Unscheduled, Contexts
  <2> QED BY <1>2, <1>4, <1>5, <2>1 DEF Contexts
<1>7. {"no_leader", "beacon_interval", "ct_rhot"} \subseteq Timers \ {"response_wait"}
  BY DEF Timers
<1>8. Ends(c, d)
  BY <1>3, <1>6, <1>7 DEF Ends
<1>9. Over(d, b) <=> Over(c, b)
  BY <1>3, <1>6, <1>7 DEF Over, Due
<1>10. ~Requesting(d)
  BY <1>6 DEF Requesting
<1>11. CASE Requesting(c)
  <2>1. tm["response_wait"] = [kern |-> "running", left |-> 0, armed |-> TRUE]
    BY <1>1, <1>11 DEF Arm
  <2>2. ~Over(c, b) /\ c.retries < MaxRetries /\ ~Waits(c, b) /\ c.state \in Leaderless
    BY <1>11 DEF Election
  <2>3. /\ "response_wait" \notin b
        /\ d.tmr["response_wait"].left = 0 /\ d.tmr["response_wait"].armed
    BY <1>6, <2>1, <2>2 DEF Waits
  <2>4. ~Over(d, b) /\ "no_leader" \notin b
    BY <1>9, <2>2 DEF Over
  <2> QED BY <1>6, <1>8, <1>10, <2>2, <2>3, <2>4 DEF Election
<1>12. CASE ~Requesting(c)
  <2>1. \A t \in Slow : d.tmr[t] = c.tmr[t]
    BY <1>6, <1>12
  <2>2. Election(d, b, TRUE, at)
    BY <1>6, <1>10, <2>1, OtherElection
  <2> QED BY <1>8, <2>2, FewerAnswers
<1> QED BY <1>11, <1>12

LEMMA UnscheduledEnds ==
  ASSUME NEW c \in Contexts, NEW b, NEW n \in BOOLEAN, NEW at,
         Election(c, b, TRUE, at), NEW d, d = Unscheduled(c)
  PROVE  Ends(c, d) /\ Election(d, b, n, at)
<1>1. /\ d \in Contexts /\ d.di = c.di /\ d.state = c.state /\ d.id = c.id
      /\ d.lwatid = c.lwatid /\ d.retries = c.retries /\ d.kind = "NONE"
      /\ d.tmr = c.tmr
  BY NoCsbkTyped DEF Unscheduled, Contexts, Kinds
<1>2. ~Requesting(d)
  BY <1>1 DEF Requesting
<1>3. Election(d, b, TRUE, at)
  BY <1>1, <1>2, OtherElection
<1>4. Election(d, b, n, at)
  BY <1>3, FewerAnswers
<1> QED BY <1>1, <1>4 DEF Ends

LEMMA RetryEnds ==
  ASSUME NEW c \in Contexts, NEW b, NEW n \in BOOLEAN, NEW at,
         Election(c, b, TRUE, at), NEW d, d = Retry(c)
  PROVE  Ends(c, d) /\ Election(d, b, n, at)
<1> DEFINE tm == Arm(c.tmr, "ct_rhot", 0)
<1>1. c.tmr \in [Timers -> Timer] /\ "ct_rhot" \in Timers
  BY DEF Contexts, Timers
<1>2. /\ tm \in [Timers -> Timer] /\ tm["ct_rhot"].kern = "running"
      /\ \A u \in Timers \ {"ct_rhot"} : tm[u] = c.tmr[u]
  BY <1>1, TimersStayTyped DEF Arm
<1>3. d = [c EXCEPT !.tmr = tm]
  BY DEF Retry
<1> HIDE DEF tm
<1>4. /\ d \in Contexts /\ d.di = c.di /\ d.state = c.state /\ d.id = c.id
      /\ d.lwatid = c.lwatid /\ d.retries = c.retries /\ d.kind = c.kind
      /\ d.tmr = tm
  BY <1>2, <1>3 DEF Contexts
<1>5. {"no_leader", "response_wait", "beacon_interval"} \subseteq Timers \ {"ct_rhot"}
  BY DEF Timers
<1>6. Has(d, "ct_rhot")
  BY <1>2, <1>4 DEF Has
<1>7. /\ d.tmr["no_leader"] = c.tmr["no_leader"]
      /\ d.tmr["response_wait"] = c.tmr["response_wait"]
      /\ d.tmr["beacon_interval"] = c.tmr["beacon_interval"]
  BY <1>2, <1>4, <1>5
<1>8. /\ Over(d, b) <=> Over(c, b)
      /\ Waits(d, b) <=> Waits(c, b)
      /\ Has(d, "response_wait") <=> Has(c, "response_wait")
      /\ Due(d.tmr, "no_leader") <=> Due(c.tmr, "no_leader")
      /\ Requesting(d) <=> Requesting(c)
  BY <1>4, <1>7 DEF Over, Due, Waits, Has, Requesting
<1>9. ~(Requesting(d) /\ Over(d, b))
  BY <1>8 DEF Election
<1>10. Election(d, b, n, at)
  BY <1>4, <1>7, <1>8, <1>9 DEF Election
<1> QED BY <1>4, <1>6, <1>7, <1>10 DEF Ends

HandedOver(c) == [c EXCEPT !.submitted = TRUE]

\* The holdoff of a request for a leader is over while there is time.
LEMMA SubmitElection ==
  ASSUME NEW c \in Contexts, NEW t, t = "ct_rhot", NEW b, t \in b,
         NEW m \in BOOLEAN, NEW n \in BOOLEAN, NEW at, NEW aft,
         Election(c, b, m, at), NEW e, e = Served(c, t),
         NEW d, d = HandedOver(e)
  PROVE  /\ d \in Contexts /\ d.di = c.di /\ d.state = c.state
         /\ d.lwatid = c.lwatid /\ d.id = c.id
         /\ d.submitted /\ d.kind = c.kind
         /\ d.tmr["beacon_interval"] = c.tmr["beacon_interval"]
         /\ Election(d, b \ {t}, n, aft)
<1>1. t \in Timers /\ "beacon_interval" \in Timers \ {t}
  BY DEF Timers
<1>2. /\ e \in Contexts /\ e.di = c.di /\ e.state = c.state
      /\ e.lwatid = c.lwatid /\ e.id = c.id /\ e.kind = c.kind
      /\ e.tmr["beacon_interval"] = c.tmr["beacon_interval"]
  BY <1>1, Draining
<1>3. Election(e, b \ {t}, m, at) /\ ~(Requesting(e) /\ Over(e, b \ {t}))
  BY <1>1, DrainingElection
<1>4. /\ d \in Contexts /\ d.di = e.di /\ d.state = e.state
      /\ d.lwatid = e.lwatid /\ d.id = e.id /\ d.retries = e.retries
      /\ d.submitted /\ d.kind = e.kind /\ d.tmr = e.tmr
  BY <1>2 DEF Contexts, HandedOver
<1>5. /\ Over(d, b \ {t}) <=> Over(e, b \ {t})
      /\ Waits(d, b \ {t}) <=> Waits(e, b \ {t})
      /\ Requesting(d) <=> Requesting(e)
      /\ Has(d, "response_wait") <=> Has(e, "response_wait")
  BY <1>4 DEF Over, Waits, Requesting, Has
<1>6. Election(d, b \ {t}, n, aft)
  BY <1>3, <1>4, <1>5 DEF Election
<1> QED BY <1>2, <1>4, <1>6

----------------------------------------------------------------------------
(* Queues of requests and answers.                                         *)

LEMMA AppendedMatch ==
  ASSUME NEW S, NEW q \in Seq(S), NEW x \in S
  PROVE  /\ HasMatch(q) => HasMatch(Append(q, x))
         /\ x.match => HasMatch(Append(q, x))
         /\ HasMatch(Append(q, x)) /\ ~x.match => HasMatch(q)
<1> DEFINE p == Append(q, x)
<1>1. /\ Len(q) \in Nat /\ DOMAIN q = 1..Len(q) /\ DOMAIN p = 1..(Len(q) + 1)
      /\ p[Len(q) + 1] = x /\ (\A i \in 1..Len(q) : p[i] = q[i])
  OBVIOUS
<1> HIDE DEF p
<1>2. ASSUME HasMatch(q) PROVE HasMatch(p)
  <2>1. PICK i \in 1..Len(q) : q[i].match
    BY <1>1, <1>2 DEF HasMatch
  <2>2. i \in DOMAIN p /\ p[i].match
    BY <1>1, <2>1
  <2> QED BY <2>2 DEF HasMatch
<1>3. ASSUME x.match PROVE HasMatch(p)
  <2>1. Len(q) + 1 \in DOMAIN p /\ p[Len(q) + 1].match
    BY <1>1, <1>3
  <2> QED BY <2>1 DEF HasMatch
<1>4. ASSUME HasMatch(p), ~x.match PROVE HasMatch(q)
  <2>1. PICK i \in 1..(Len(q) + 1) : p[i].match
    BY <1>1, <1>4 DEF HasMatch
  <2>2. i # Len(q) + 1
    BY <1>1, <1>4, <2>1
  <2>3. i \in DOMAIN q /\ q[i].match
    BY <1>1, <2>1, <2>2
  <2> QED BY <2>3 DEF HasMatch
<1> QED BY <1>2, <1>3, <1>4 DEF p

LEMMA HeadMatch ==
  ASSUME NEW S, NEW q \in Seq(S), q # <<>>
  PROVE  /\ Head(q).match => HasMatch(q)
         /\ HasMatch(Tail(q)) => HasMatch(q)
         /\ HasMatch(q) /\ ~Head(q).match => HasMatch(Tail(q))
<1> DEFINE p == Tail(q)
<1>1. /\ Len(q) \in Nat /\ Len(q) >= 1 /\ DOMAIN q = 1..Len(q)
      /\ DOMAIN p = 1..(Len(q) - 1) /\ Head(q) = q[1]
      /\ \A i \in 1..(Len(q) - 1) : p[i] = q[i + 1]
  OBVIOUS
<1> HIDE DEF p
<1>2. ASSUME Head(q).match PROVE HasMatch(q)
  <2>1. 1 \in DOMAIN q /\ q[1].match
    BY <1>1, <1>2
  <2> QED BY <2>1 DEF HasMatch
<1>3. ASSUME HasMatch(p) PROVE HasMatch(q)
  <2>1. PICK i \in 1..(Len(q) - 1) : p[i].match
    BY <1>1, <1>3 DEF HasMatch
  <2>2. i + 1 \in DOMAIN q /\ q[i + 1].match
    BY <1>1, <2>1
  <2> QED BY <2>2 DEF HasMatch
<1>4. ASSUME HasMatch(q), ~Head(q).match PROVE HasMatch(p)
  <2>1. PICK i \in 1..Len(q) : q[i].match
    BY <1>1, <1>4 DEF HasMatch
  <2>2. i # 1
    BY <1>1, <1>4, <2>1
  <2>3. i - 1 \in 1..(Len(q) - 1) /\ (i - 1) + 1 = i
    BY <1>1, <2>1, <2>2
  <2>4. i - 1 \in DOMAIN p /\ p[i - 1].match
    BY <1>1, <2>1, <2>3
  <2> QED BY <2>4 DEF HasMatch
<1> QED BY <1>2, <1>3, <1>4 DEF p

LEMMA EmptyMatch == ~HasMatch(<<>>)
  BY DEF HasMatch

LEMMA UnmatchedQueue ==
  ASSUME NEW S \in {Answer, MacReq}, NEW q \in Seq(S)
  PROVE  /\ Unmatched(q) \in Seq(S) /\ Len(Unmatched(q)) = Len(q)
         /\ ~HasMatch(Unmatched(q))
<1> DEFINE p == Unmatched(q)
<1>1. Len(q) \in Nat /\ DOMAIN q = 1..Len(q) /\ (\A i \in 1..Len(q) : q[i] \in S)
  OBVIOUS
<1>2. p = [i \in 1..Len(q) |-> [q[i] EXCEPT !.match = FALSE]]
  BY <1>1 DEF Unmatched
<1>3. ASSUME NEW i \in 1..Len(q)
      PROVE  p[i] \in S /\ ~p[i].match
  <2>1. p[i] = [q[i] EXCEPT !.match = FALSE] /\ q[i] \in S
    BY <1>1, <1>2
  <2> HIDE DEF p
  <2>2. CASE S = Answer
    <3>1. q[i] \in [ok : BOOLEAN, match : BOOLEAN]
      BY <2>1, <2>2 DEF Answer
    <3>2. p[i] \in [ok : BOOLEAN, match : BOOLEAN] /\ p[i].match = FALSE
      BY <2>1, <3>1
    <3> QED BY <2>2, <3>2 DEF Answer
  <2>3. CASE S = MacReq
    <3>1. q[i] \in [ct : CtCsbk, match : BOOLEAN]
      BY <2>1, <2>3 DEF MacReq
    <3>2. p[i] \in [ct : CtCsbk, match : BOOLEAN] /\ p[i].match = FALSE
      BY <2>1, <3>1
    <3> QED BY <2>3, <3>2 DEF MacReq
  <2> QED BY <2>2, <2>3
<1> HIDE DEF p
<1>4. p \in Seq(S) /\ Len(p) = Len(q) /\ DOMAIN p = 1..Len(q)
  BY <1>1, <1>2, <1>3
<1>5. ~HasMatch(p)
  BY <1>3, <1>4 DEF HasMatch
<1> QED BY <1>4, <1>5 DEF p

----------------------------------------------------------------------------
(* The steps.                                                              *)

\* A step of another radio leaves this one alone, but for what it hears.
Same(x) ==
  /\ ctx'[x] = ctx[x] /\ batch'[x] = batch[x] /\ conf'[x] = conf[x]
  /\ mac'[x] = mac[x] /\ notifying'[x] = notifying[x] /\ gone'[x] = gone[x]

LEMMA SameStaysSound ==
  ASSUME NEW x, Sound(x), Same(x)
  PROVE  Sound(x)'
  BY DEF Same, Sound, LoopTypes, Matched

LEMMA Assembled ==
  ASSUME IInv, NEW r \in Radios, Shapes', Sound(r)',
         \A x \in Radios \ {r} : Same(x),
         \A x \in Radios : RxTypes(x)'
  PROVE  IInv'
<1>1. ASSUME NEW x \in Radios PROVE Sound(x)'
  <2>1. CASE x = r
    BY <2>1
  <2>2. CASE x # r
    BY <2>2, SameStaysSound DEF IInv
  <2> QED BY <2>1, <2>2
<1> QED BY <1>1 DEF IInv

LEMMA ContextStep ==
  ASSUME Shapes, NEW r \in Radios, NEW d \in Contexts,
         ctx' = [ctx EXCEPT ![r] = d]
  PROVE  /\ ctx' \in [Radios -> Contexts] /\ ctx'[r] = d
         /\ \A x \in Radios \ {r} : ctx'[x] = ctx[x]
  BY DEF Shapes

LEMMA RxStays ==
  ASSUME IInv, UNCHANGED rx
  PROVE  \A x \in Radios : RxTypes(x)'
  BY DEF IInv, RxTypes

LEMMA SnapshotElection ==
  ASSUME NEW c, NEW b, NEW m \in BOOLEAN, NEW at, Election(c, {}, m, at),
         \A t \in b \cap Timers : c.tmr[t].kern = "expired"
  PROVE  Election(c, b, m, at)
<1>1. {"no_leader", "response_wait", "ct_rhot"} \subseteq Timers
  BY DEF Timers
<1>2. /\ Over(c, b) => Over(c, {})
      /\ "no_leader" \in b => ~Due(c.tmr, "no_leader")
  BY <1>1 DEF Over, Due
<1>3. /\ Waits(c, b) => Waits(c, {})
      /\ "response_wait" \in b => c.tmr["response_wait"].kern # "running"
  BY <1>1 DEF Waits, Has
<1>4. "ct_rhot" \in b => Has(c, "ct_rhot")
  BY <1>1 DEF Has
<1> QED BY <1>2, <1>3, <1>4 DEF Election

LEMMA EpollWaitStep ==
  ASSUME IInv, NEW r \in Radios, EpollWait(r)
  PROVE  IInv'
<1>1. batch[r] = {} /\ UNCHANGED <<ctx, queue, rx, conf, mac, notifying, airVars, histVars>>
  BY DEF EpollWait
<1>2. PICK fds \in SUBSET Ready(r) : batch' = [batch EXCEPT ![r] = fds]
  BY DEF EpollWait
<1>3. Shapes /\ Sound(r)
  BY DEF IInv
<1>4. /\ batch'[r] = fds /\ (\A x \in Radios \ {r} : batch'[x] = batch[x])
      /\ batch' = [x \in Radios |-> batch'[x]]
  BY <1>2, <1>3 DEF Shapes
<1>5. /\ fds \subseteq Timers \cup {"conf", "rx"}
      /\ \A t \in fds \cap Timers : ctx[r].tmr[t].kern = "expired"
  BY <1>2 DEF Ready, Timers
<1>6. Shapes'
  BY <1>1, <1>3, <1>4 DEF Shapes, histVars
<1>7. Election(ctx[r], fds, Matched(r), notifying[r].at)
  <2>1. Matched(r) \in BOOLEAN
    BY DEF Matched, HasMatch
  <2> QED BY <1>1, <1>3, <1>5, <2>1, SnapshotElection DEF Sound
<1>8. Sound(r)'
  BY <1>1, <1>3, <1>4, <1>5, <1>7 DEF Sound, LoopTypes, Matched, histVars
<1>9. \A x \in Radios \ {r} : Same(x)
  BY <1>1, <1>4 DEF Same, histVars
<1> QED BY <1>1, <1>6, <1>8, <1>9, RxStays, Assembled

\* What becomes of a context, when the worker has not handed anything over.
LEMMA Becoming ==
  ASSUME Shapes, NEW r \in Radios, gone[r] \in BOOLEAN, NEW d \in Contexts,
         Becomes(r, d)
  PROVE  /\ ctx' \in [Radios -> Contexts] /\ ctx'[r] = d
         /\ gone' = [x \in Radios |-> gone'[x]] /\ gone'[r] \in BOOLEAN
         /\ gone'[r] <=> gone[r] /\ d.submitted /\ d.kind # "NONE"
         /\ \A x \in Radios \ {r} : ctx'[x] = ctx[x] /\ gone'[x] = gone[x]
<1>1. ctx' = [ctx EXCEPT ![r] = d]
  BY DEF Becomes
<1>2. gone = [x \in Radios |-> gone[x]]
  BY DEF Shapes
<1>3. gone' = [gone EXCEPT ![r] = gone[r] /\ d.submitted /\ d.kind # "NONE"]
  BY DEF Becomes
<1>4. /\ gone' = [x \in Radios |-> gone'[x]]
      /\ gone'[r] = (gone[r] /\ d.submitted /\ d.kind # "NONE")
      /\ \A x \in Radios \ {r} : gone'[x] = gone[x]
  BY <1>2, <1>3
<1> QED BY <1>1, <1>4, ContextStep DEF Contexts

\* A handler that holds what it does not replace leaves it on its way.
LEMMA HeldOnItsWay ==
  ASSUME NEW c \in Contexts, NEW d \in Contexts, NEW m \in BOOLEAN,
         NEW g \in BOOLEAN, OnItsWay(c, m \/ g), Held(c, d)
  PROVE  OnItsWay(d, m \/ (g /\ d.submitted /\ d.kind # "NONE"))
  BY DEF OnItsWay, Held, Has

LEMMA TimerReadyStep ==
  ASSUME IInv, NEW r \in Radios, NEW t \in Timers, TimerReady(r, t)
  PROVE  IInv'
<1> DEFINE c == ctx[r]
           e == Served(c, t)
           d == TimerHandler(e, t)
           at == notifying[r].at
<1>1. /\ t \in Timers \ {"ct_rhot"} /\ t \in batch[r]
      /\ batch' = [batch EXCEPT ![r] = @ \ {t}]
      /\ Becomes(r, d)
      /\ UNCHANGED <<queue, rx, conf, mac, notifying, airVars, mistaken>>
  BY DEF TimerReady, ServesTimer, Drained, Served
<1>2. Shapes /\ Sound(r) /\ c \in Contexts /\ Matched(r) \in BOOLEAN
      /\ gone[r] \in BOOLEAN
  BY DEF IInv, Shapes, Sound, LoopTypes, Matched, HasMatch
<1>3. Election(c, batch[r], Matched(r), at)
  BY <1>2 DEF Sound
<1>4. Answers(c, d, batch[r] \ {t}, Matched(r), at)
  <2> HIDE DEF c, at
  <2> QED BY <1>1, <1>2, <1>3, TimerAnswers
<1> HIDE DEF d
<1>5. /\ batch'[r] = batch[r] \ {t} /\ (\A x \in Radios \ {r} : batch'[x] = batch[x])
      /\ batch' = [x \in Radios |-> batch'[x]]
  BY <1>1, <1>2 DEF Shapes
<1>6. d \in Contexts /\ d.di = c.di /\ (Leading(c) => Leading(d)) /\ Held(c, d)
  BY <1>4 DEF Answers
<1>7. /\ ctx' \in [Radios -> Contexts] /\ ctx'[r] = d
      /\ gone' = [x \in Radios |-> gone'[x]] /\ gone'[r] \in BOOLEAN
      /\ gone'[r] <=> gone[r] /\ d.submitted /\ d.kind # "NONE"
      /\ \A x \in Radios \ {r} : ctx'[x] = ctx[x] /\ gone'[x] = gone[x]
  BY <1>1, <1>2, <1>6, Becoming
<1>8. Shapes'
  BY <1>1, <1>2, <1>5, <1>7 DEF Shapes
<1>9. OnItsWay(d, Matched(r) \/ gone'[r])
  <2>1. OnItsWay(d, Matched(r) \/ (gone[r] /\ d.submitted /\ d.kind # "NONE"))
    BY <1>2, <1>6, HeldOnItsWay DEF Sound
  <2> QED BY <1>7, <2>1 DEF OnItsWay
<1>10. Matched(r)' = Matched(r) /\ notifying'[r].at = at
  BY <1>1 DEF Matched
<1>11. LoopTypes(r)'
  BY <1>1, <1>2, <1>5, <1>7 DEF LoopTypes, Sound
<1>12. Sound(r)'
  BY <1>2, <1>4, <1>5, <1>6, <1>7, <1>9, <1>10, <1>11 DEF Sound, Answers
<1>13. \A x \in Radios \ {r} : Same(x)
  BY <1>1, <1>5, <1>7 DEF Same
<1> QED BY <1>1, <1>8, <1>12, <1>13, RxStays, Assembled

LEMMA RxReadyStep ==
  ASSUME IInv, NEW r \in Radios, RxReady(r)
  PROVE  IInv'
<1> DEFINE c == ctx[r]
           ct == Head(rx[r])
           at == notifying[r].at
<1>1. /\ rx[r] # <<>> /\ rx' = [rx EXCEPT ![r] = Tail(@)]
      /\ UNCHANGED <<batch, conf, mac, notifying, airVars, mistaken>>
  BY DEF RxReady
<1>2. /\ Shapes /\ Sound(r) /\ c \in Contexts /\ Matched(r) \in BOOLEAN
      /\ gone[r] \in BOOLEAN /\ RxTypes(r)
  BY DEF IInv, Shapes, Sound, LoopTypes, Matched, HasMatch
<1>3. PICK id \in Ids : Becomes(r, DispatchRx(c, ct, id))
  BY DEF RxReady
<1>4. ct \in CtCsbk
  BY <1>1, <1>2 DEF RxTypes
<1> DEFINE d == DispatchRx(c, ct, id)
<1>5. Hears(c, d)
  BY <1>2, <1>4, DispatchHears
<1>6. Becomes(r, d)
  BY <1>3
<1> HIDE DEF d
<1>7. Election(d, batch[r], Matched(r), at)
  <2>1. Election(c, batch[r], Matched(r), at)
    BY <1>2 DEF Sound
  <2> HIDE DEF c, at
  <2> QED BY <1>2, <1>5, <2>1, HearingElection
<1>8. d \in Contexts /\ d.di = c.di /\ Held(c, d) /\ (Leading(c) => Leading(d))
  BY <1>5 DEF Hears, Beaconing, Leading, Has
<1>9. /\ ctx' \in [Radios -> Contexts] /\ ctx'[r] = d
      /\ gone' = [x \in Radios |-> gone'[x]] /\ gone'[r] \in BOOLEAN
      /\ gone'[r] <=> gone[r] /\ d.submitted /\ d.kind # "NONE"
      /\ \A x \in Radios \ {r} : ctx'[x] = ctx[x] /\ gone'[x] = gone[x]
  BY <1>2, <1>6, <1>8, Becoming
<1>10. /\ rx' = [x \in Radios |-> rx'[x]] /\ rx'[r] = Tail(rx[r])
       /\ \A x \in Radios \ {r} : rx'[x] = rx[x]
  BY <1>1, <1>2 DEF Shapes
<1>11. Shapes'
  BY <1>1, <1>2, <1>9, <1>10 DEF Shapes
<1>12. OnItsWay(d, Matched(r) \/ gone'[r])
  <2>1. OnItsWay(d, Matched(r) \/ (gone[r] /\ d.submitted /\ d.kind # "NONE"))
    BY <1>2, <1>8, HeldOnItsWay DEF Sound
  <2> QED BY <1>9, <2>1 DEF OnItsWay
<1>13. Matched(r)' = Matched(r) /\ notifying'[r].at = at
  BY <1>1 DEF Matched
<1>14. LoopTypes(r)'
  BY <1>1, <1>2, <1>9 DEF LoopTypes, Sound
<1>15. Sound(r)'
  BY <1>1, <1>2, <1>7, <1>8, <1>9, <1>12, <1>13, <1>14 DEF Sound
<1>16. \A x \in Radios \ {r} : Same(x)
  BY <1>1, <1>9 DEF Same
<1>17. ASSUME NEW x \in Radios PROVE RxTypes(x)'
  <2>1. RxTypes(x)
    BY DEF IInv
  <2>2. CASE x = r
    <3>1. Tail(rx[r]) \in Seq(CtCsbk) /\ Len(Tail(rx[r])) <= QDepth
      BY <1>1, <1>2, Bounds DEF RxTypes
    <3> QED BY <1>10, <2>2, <3>1 DEF RxTypes
  <2>3. CASE x # r
    BY <1>10, <2>1, <2>3 DEF RxTypes
  <2> QED BY <2>2, <2>3
<1> QED BY <1>11, <1>15, <1>16, <1>17, Assembled

\* The two ways to hand a CT_CSBK over: the MAC has room for it, or not.
LEMMA Submitting ==
  ASSUME NEW q \in Seq(MacReq), Len(q) <= MacRoom, NEW ct \in CtCsbk
  PROVE  LET p == Append(Unmatched(q), [ct |-> ct, match |-> TRUE]) IN
           /\ Unmatched(q) \in Seq(MacReq) /\ Len(Unmatched(q)) <= MacRoom
           /\ p \in Seq(MacReq) /\ HasMatch(p)
           /\ Len(q) < MacRoom => Len(p) <= MacRoom
<1> DEFINE u == Unmatched(q)
           x == [ct |-> ct, match |-> TRUE]
<1>1. u \in Seq(MacReq) /\ Len(u) = Len(q)
  BY UnmatchedQueue
<1>2. x \in MacReq /\ x.match
  BY DEF MacReq
<1> HIDE DEF u, x
<1>3. HasMatch(Append(u, x))
  BY <1>1, <1>2, AppendedMatch
<1>4. /\ Append(u, x) \in Seq(MacReq)
      /\ Len(q) < MacRoom => Len(Append(u, x)) <= MacRoom
  BY <1>1, <1>2, Bounds
<1> QED BY <1>1, <1>3, <1>4 DEF u, x

LEMMA RhotReadyStep ==
  ASSUME IInv, NEW r \in Radios, RhotReady(r)
  PROVE  IInv'
<1> DEFINE t == "ct_rhot"
           c == ctx[r]
           e == Served(c, t)
           at == notifying[r].at
<1>1. /\ t \in batch[r] /\ batch' = [batch EXCEPT ![r] = @ \ {t}]
      /\ UNCHANGED <<queue, rx, airVars, mistaken>>
      /\ \/ e.kind # "NONE" /\ Submit(r, e)
         \/ /\ e.kind = "NONE" /\ Becomes(r, e)
            /\ UNCHANGED <<conf, mac, notifying>>
  BY DEF RhotReady, ServesTimer, Drained, Served
<1>2. /\ Shapes /\ Sound(r) /\ c \in Contexts /\ Matched(r) \in BOOLEAN
      /\ gone[r] \in BOOLEAN
  BY DEF IInv, Shapes, Sound, LoopTypes, Matched, HasMatch
<1>3. Election(c, batch[r], Matched(r), at)
  BY <1>2 DEF Sound
<1>4. /\ batch'[r] = batch[r] \ {t} /\ (\A x \in Radios \ {r} : batch'[x] = batch[x])
      /\ batch' = [x \in Radios |-> batch'[x]]
  BY <1>1, <1>2 DEF Shapes
<1>5. t \in Timers /\ "beacon_interval" \in Timers \ {t}
  BY DEF Timers
<1>6. /\ e \in Contexts /\ e.di = c.di /\ e.state = c.state /\ e.kind = c.kind
      /\ e.pending = c.pending
      /\ e.tmr["beacon_interval"] = c.tmr["beacon_interval"]
  <2> HIDE DEF t, c, e
  <2> QED BY <1>2, <1>5, Draining DEF e
<1>7. Leading(c)
  BY <1>2 DEF Sound
<1>8. CASE e.kind = "NONE" /\ Becomes(r, e) /\ UNCHANGED <<conf, mac, notifying>>
  <2>1. Election(e, batch[r] \ {t}, Matched(r), at)
    <3> HIDE DEF c, at, t
    <3> QED BY <1>1, <1>2, <1>3, <1>5, DrainingElection
  <2> HIDE DEF e
  <2>2. /\ ctx' \in [Radios -> Contexts] /\ ctx'[r] = e
        /\ gone' = [x \in Radios |-> gone'[x]] /\ gone'[r] \in BOOLEAN
        /\ \A x \in Radios \ {r} : ctx'[x] = ctx[x] /\ gone'[x] = gone[x]
    BY <1>2, <1>6, <1>8, Becoming
  <2>3. Shapes'
    BY <1>1, <1>2, <1>4, <1>8, <2>2 DEF Shapes
  <2>4. OnItsWay(e, (Matched(r) \/ gone[r])')
    BY <1>8 DEF OnItsWay
  <2>5. Leading(e)
    BY <1>6, <1>7 DEF Leading, Has
  <2>6. Matched(r)' = Matched(r) /\ notifying'[r].at = at
    BY <1>8 DEF Matched
  <2>7. LoopTypes(r)'
    BY <1>2, <1>4, <1>8, <2>2 DEF LoopTypes, Sound
  <2>8. Sound(r)'
    BY <1>2, <1>4, <1>6, <2>1, <2>2, <2>4, <2>5, <2>6, <2>7 DEF Sound
  <2>9. \A x \in Radios \ {r} : Same(x)
    BY <1>4, <1>8, <2>2 DEF Same
  <2> QED BY <1>1, <2>3, <2>8, <2>9, RxStays, Assembled
<1>9. CASE e.kind # "NONE" /\ Submit(r, e)
  <2> DEFINE d == HandedOver(e)
             aft == CASE at = "read" -> "clash" [] at = "clash" -> "past"
                      [] OTHER -> at
             u == Unmatched(mac[r])
             p == Append(u, [ct |-> e.pending, match |-> TRUE])
  <2>1. /\ ctx' = [ctx EXCEPT ![r] = d]
        /\ conf' = [conf EXCEPT ![r] = Unmatched(@)]
        /\ \/ /\ Len(mac[r]) < MacRoom /\ mac' = [mac EXCEPT ![r] = p]
              /\ gone' = [gone EXCEPT ![r] = FALSE]
           \/ /\ Len(mac[r]) = MacRoom /\ mac' = [mac EXCEPT ![r] = u]
              /\ gone' = [gone EXCEPT ![r] = TRUE]
    <3> HIDE DEF e
    <3> QED BY <1>2, <1>9 DEF Submit, Shapes, HandedOver
  <2>2. notifying' = [notifying EXCEPT ![r] = [@ EXCEPT !.at = aft]]
    <3> HIDE DEF e
    <3> QED BY <1>9 DEF Submit
  <2>3. /\ d \in Contexts /\ d.di = c.di /\ d.state = c.state
        /\ d.submitted /\ d.kind = c.kind
        /\ d.tmr["beacon_interval"] = c.tmr["beacon_interval"]
        /\ \A n \in BOOLEAN : Election(d, batch[r] \ {t}, n, aft)
    <3> HIDE DEF c, at, aft, t
    <3>1. t = "ct_rhot"
      BY DEF t
    <3>2. ASSUME NEW n \in BOOLEAN
          PROVE  /\ d \in Contexts /\ d.di = c.di /\ d.state = c.state
                 /\ d.submitted /\ d.kind = c.kind
                 /\ d.tmr["beacon_interval"] = c.tmr["beacon_interval"]
                 /\ Election(d, batch[r] \ {t}, n, aft)
      <4>1. e = Served(c, t) /\ d = HandedOver(e)
        OBVIOUS
      <4> HIDE DEF e, d
      <4> QED BY <1>1, <1>2, <1>3, <3>1, <4>1, SubmitElection
    <3> QED BY <3>2
  <2> HIDE DEF d, aft
  <2>4. LoopTypes(r)
    BY <1>2 DEF Sound
  <2>5. e.pending \in CtCsbk
    <3> HIDE DEF e
    <3> QED BY <1>6 DEF Contexts
  <2> HIDE DEF e
  <2>6. /\ u \in Seq(MacReq) /\ Len(u) <= MacRoom
        /\ p \in Seq(MacReq) /\ HasMatch(p)
        /\ Len(mac[r]) < MacRoom => Len(p) <= MacRoom
    BY <2>4, <2>5, Submitting DEF LoopTypes
  <2> HIDE DEF u, p
  <2>7. Unmatched(conf[r]) \in Seq(Answer) /\ Len(Unmatched(conf[r])) <= QDepth
    BY <2>4, UnmatchedQueue DEF LoopTypes
  <2>8. /\ ctx' \in [Radios -> Contexts] /\ ctx'[r] = d
        /\ \A x \in Radios \ {r} : ctx'[x] = ctx[x]
    BY <1>2, <2>1, <2>3, ContextStep
  <2>9. /\ conf' = [x \in Radios |-> conf'[x]] /\ conf'[r] = Unmatched(conf[r])
        /\ \A x \in Radios \ {r} : conf'[x] = conf[x]
    BY <1>2, <2>1 DEF Shapes
  <2>10. /\ mac' = [x \in Radios |-> mac'[x]]
         /\ mac'[r] \in Seq(MacReq) /\ Len(mac'[r]) <= MacRoom
         /\ \A x \in Radios \ {r} : mac'[x] = mac[x]
    <3>1. \/ mac' = [mac EXCEPT ![r] = p] /\ Len(p) <= MacRoom
          \/ mac' = [mac EXCEPT ![r] = u]
      BY <2>1, <2>6
    <3> QED BY <1>2, <2>6, <3>1 DEF Shapes
  <2>11. /\ gone' = [x \in Radios |-> gone'[x]] /\ gone'[r] \in BOOLEAN
         /\ HasMatch(mac'[r]) \/ gone'[r] = TRUE
         /\ \A x \in Radios \ {r} : gone'[x] = gone[x]
    <3>1. CASE gone' = [gone EXCEPT ![r] = FALSE] /\ mac' = [mac EXCEPT ![r] = p]
      BY <1>2, <2>6, <3>1 DEF Shapes
    <3>2. CASE gone' = [gone EXCEPT ![r] = TRUE]
      BY <1>2, <3>2 DEF Shapes
    <3> QED BY <2>1, <3>1, <3>2
  <2>12. /\ notifying' = [x \in Radios |-> notifying'[x]]
         /\ notifying'[r] \in [at : {"no", "read", "clash", "past"}, ct : CtCsbk]
         /\ notifying'[r].at = aft
         /\ \A x \in Radios \ {r} : notifying'[x] = notifying[x]
    <3>1. notifying[r] \in [at : {"no", "read", "clash", "past"}, ct : CtCsbk]
      BY <2>4 DEF LoopTypes
    <3>2. aft \in {"no", "read", "clash", "past"}
      BY <3>1 DEF aft
    <3>3. notifying'[r] = [notifying[r] EXCEPT !.at = aft]
      BY <1>2, <2>2 DEF Shapes
    <3>4. /\ notifying' = [x \in Radios |-> notifying'[x]]
          /\ \A x \in Radios \ {r} : notifying'[x] = notifying[x]
      BY <1>2, <2>2 DEF Shapes
    <3> QED BY <3>1, <3>2, <3>3, <3>4
  <2>13. Shapes'
    BY <1>4, <1>1, <1>2, <2>8, <2>9, <2>10, <2>11, <2>12 DEF Shapes
  <2>14. LoopTypes(r)'
    BY <1>4, <2>4, <2>7, <2>9, <2>10, <2>11, <2>12 DEF LoopTypes
  <2>15. OnItsWay(d, (Matched(r) \/ gone[r])')
    BY <2>3, <2>11 DEF OnItsWay, Matched
  <2>16. Matched(r)' \in BOOLEAN
    BY DEF Matched, HasMatch
  <2>17. Leading(d)
    BY <1>7, <2>3 DEF Leading, Has
  <2>18. Sound(r)'
    BY <1>2, <1>4, <2>3, <2>8, <2>12, <2>14, <2>15, <2>16, <2>17 DEF Sound
  <2>19. \A x \in Radios \ {r} : Same(x)
    BY <1>4, <2>8, <2>9, <2>10, <2>11, <2>12 DEF Same
  <2> QED BY <1>1, <2>13, <2>18, <2>19, RxStays, Assembled
<1> QED BY <1>1, <1>8, <1>9

LEMMA ConfReadyStep ==
  ASSUME IInv, NEW r \in Radios, ConfReady(r)
  PROVE  IInv'
<1> DEFINE c == ctx[r]
           cf == Head(conf[r])
           at == notifying[r].at
<1>1. /\ conf[r] # <<>> /\ conf' = [conf EXCEPT ![r] = Tail(@)]
      /\ UNCHANGED <<batch, rx, mac, notifying, airVars>>
  BY DEF ConfReady
<1>2. /\ Shapes /\ Sound(r) /\ c \in Contexts /\ Matched(r) \in BOOLEAN
      /\ gone[r] \in BOOLEAN /\ LoopTypes(r)
  BY DEF IInv, Shapes, Sound, LoopTypes, Matched, HasMatch
<1>3. Election(c, batch[r], Matched(r), at)
  BY <1>2 DEF Sound
<1>4. /\ conf' = [x \in Radios |-> conf'[x]] /\ conf'[r] = Tail(conf[r])
      /\ \A x \in Radios \ {r} : conf'[x] = conf[x]
  BY <1>1, <1>2 DEF Shapes
<1>5. Tail(conf[r]) \in Seq(Answer) /\ Len(Tail(conf[r])) <= QDepth
  BY <1>1, <1>2, Bounds DEF LoopTypes
<1>6. /\ cf.match => HasMatch(conf[r])
      /\ HasMatch(Tail(conf[r])) => HasMatch(conf[r])
      /\ HasMatch(conf[r]) /\ ~cf.match => HasMatch(Tail(conf[r]))
  BY <1>1, <1>2, HeadMatch DEF LoopTypes
<1>7. Matched(r)' \in BOOLEAN
  BY DEF Matched, HasMatch
<1>8. CASE c.kind # "NONE" /\ cf.match
  <2>1. PICK d : /\ Becomes(r, d)
                 /\ d = Confirmed(c) \/ d = Retry(c) \/ d = Unscheduled(c)
    BY <1>8 DEF ConfReady
  <2>2. Matched(r) = TRUE
    BY <1>6, <1>8, <1>2 DEF Matched
  <2>3. Ends(c, d) /\ Election(d, batch[r], Matched(r)', at)
    <3>1. Election(c, batch[r], TRUE, at)
      BY <1>3, <2>2
    <3> HIDE DEF c, at
    <3>2. CASE d = Confirmed(c)
      BY <1>2, <1>7, <3>1, <3>2, ConfirmedEnds
    <3>3. CASE d = Retry(c)
      BY <1>2, <1>7, <3>1, <3>3, RetryEnds
    <3>4. CASE d = Unscheduled(c)
      BY <1>2, <1>7, <3>1, <3>4, UnscheduledEnds
    <3> QED BY <2>1, <3>2, <3>3, <3>4
  <2>4. d \in Contexts
    BY <2>3 DEF Ends
  <2>5. /\ ctx' \in [Radios -> Contexts] /\ ctx'[r] = d
        /\ gone' = [x \in Radios |-> gone'[x]] /\ gone'[r] \in BOOLEAN
        /\ \A x \in Radios \ {r} : ctx'[x] = ctx[x] /\ gone'[x] = gone[x]
    BY <1>2, <2>1, <2>4, Becoming
  <2>6. Shapes'
    BY <1>1, <1>2, <1>4, <2>5 DEF Shapes
  <2>7. OnItsWay(d, (Matched(r) \/ gone[r])')
    BY <2>3 DEF OnItsWay, Ends
  <2>8. Leading(d)
    BY <1>2, <2>3 DEF Leading, Ends, Sound, Has
  <2>9. LoopTypes(r)'
    BY <1>1, <1>2, <1>4, <1>5, <2>5 DEF LoopTypes
  <2>10. Sound(r)'
    BY <1>1, <1>2, <2>3, <2>5, <2>7, <2>8, <2>9 DEF Sound, Ends
  <2>11. \A x \in Radios \ {r} : Same(x)
    BY <1>1, <1>4, <2>5 DEF Same
  <2> QED BY <1>1, <2>6, <2>10, <2>11, RxStays, Assembled
<1>9. CASE ~(c.kind # "NONE" /\ cf.match)
  <2>1. UNCHANGED <<ctx, histVars>>
    BY <1>9 DEF ConfReady
  <2>2. Shapes'
    BY <1>1, <1>2, <1>4, <2>1 DEF Shapes, histVars
  <2>3. LoopTypes(r)'
    BY <1>1, <1>2, <1>4, <1>5, <2>1 DEF LoopTypes, histVars
  <2>4. Matched(r)' => Matched(r)
    BY <1>1, <1>4, <1>6 DEF Matched
  <2>5. Election(c, batch[r], Matched(r)', at)
    BY <1>2, <1>3, <1>7, <2>4, FewerAnswers
  <2>6. OnItsWay(c, (Matched(r) \/ gone[r])')
    <3>1. CASE c.kind = "NONE"
      BY <3>1 DEF OnItsWay
    <3>2. CASE ~cf.match
      <4>1. Matched(r) \/ gone[r] => (Matched(r) \/ gone[r])'
        BY <1>1, <1>4, <1>6, <2>1, <3>2 DEF Matched, histVars
      <4> QED BY <1>2, <4>1 DEF OnItsWay, Sound
    <3> QED BY <1>9, <3>1, <3>2
  <2>7. Sound(r)'
    BY <1>1, <1>2, <2>1, <2>3, <2>5, <2>6 DEF Sound
  <2>8. \A x \in Radios \ {r} : Same(x)
    BY <1>1, <1>4, <2>1 DEF Same, histVars
  <2> QED BY <1>1, <2>2, <2>7, <2>8, RxStays, Assembled
<1> QED BY <1>8, <1>9

\* The snapshot loses a queue that is empty.
LEMMA QueueEmptyStep ==
  ASSUME IInv, NEW r \in Radios, NEW q \in {"conf", "rx"}, NEW left,
         QueueEmpty(r, q, left)
  PROVE  IInv'
<1> DEFINE c == ctx[r]
           b == batch[r] \ {q}
<1>1. /\ batch' = [batch EXCEPT ![r] = @ \ {q}]
      /\ UNCHANGED <<ctx, rx, conf, mac, notifying, airVars, histVars>>
  BY DEF QueueEmpty
<1>2. Shapes /\ Sound(r) /\ LoopTypes(r)
  BY DEF IInv, Sound
<1>3. /\ batch'[r] = b /\ (\A x \in Radios \ {r} : batch'[x] = batch[x])
      /\ batch' = [x \in Radios |-> batch'[x]]
  BY <1>1, <1>2 DEF Shapes
<1>4. Shapes'
  BY <1>1, <1>2, <1>3 DEF Shapes, histVars
<1>5. Election(c, b, Matched(r), notifying[r].at)
  <2>1. (Over(c, b) <=> Over(c, batch[r])) /\ (Waits(c, b) <=> Waits(c, batch[r]))
    BY DEF Over, Waits
  <2>2. \A t \in {"no_leader", "response_wait", "ct_rhot"} : t \in b <=> t \in batch[r]
    OBVIOUS
  <2>3. Election(c, batch[r], Matched(r), notifying[r].at)
    BY <1>2 DEF Sound
  <2> HIDE DEF b, c
  <2> QED BY <2>1, <2>2, <2>3 DEF Election
<1>6. LoopTypes(r)'
  BY <1>1, <1>2, <1>3 DEF LoopTypes, histVars
<1>7. Sound(r)'
  BY <1>1, <1>2, <1>3, <1>5, <1>6 DEF Sound, Matched, histVars
<1>8. \A x \in Radios \ {r} : Same(x)
  BY <1>1, <1>3 DEF Same, histVars
<1> QED BY <1>1, <1>4, <1>7, <1>8, RxStays, Assembled

LEMMA NotifyBeginStep ==
  ASSUME IInv, NEW r \in Radios, NotifyBegin(r)
  PROVE  IInv'
<1> DEFINE c == ctx[r]
<1>1. UNCHANGED <<ctx, loopVars, rx, conf, mac, inRange, histVars>>
  BY DEF NotifyBegin
<1>2. PICK busy \in BOOLEAN :
        notifying' = [notifying EXCEPT ![r] =
                        [at |-> "read", ct |-> Terminator(c, busy)]]
  BY DEF NotifyBegin
<1>3. Shapes /\ Sound(r) /\ LoopTypes(r) /\ c \in Contexts
  BY DEF IInv, Sound, Shapes
<1>4. Terminator(c, busy) \in CtCsbk
  BY <1>3, BuildersTyped
<1>5. /\ notifying'[r] = [at |-> "read", ct |-> Terminator(c, busy)]
      /\ \A x \in Radios \ {r} : notifying'[x] = notifying[x]
      /\ notifying' = [x \in Radios |-> notifying'[x]]
  BY <1>2, <1>3 DEF Shapes
<1>6. Shapes'
  BY <1>1, <1>3, <1>5 DEF Shapes, histVars, loopVars
<1>7. LoopTypes(r)'
  BY <1>1, <1>3, <1>4, <1>5 DEF LoopTypes, histVars, loopVars
<1>8. Election(c, batch[r], Matched(r), "read")
  BY <1>3 DEF Sound, Election
<1>9. notifying'[r].at = "read"
  BY <1>5
<1>10. Sound(r)'
  BY <1>1, <1>3, <1>7, <1>8, <1>9 DEF Sound, Matched, histVars, loopVars
<1>11. \A x \in Radios \ {r} : Same(x)
  BY <1>1, <1>5 DEF Same, histVars, loopVars
<1> QED BY <1>1, <1>6, <1>10, <1>11, RxStays, Assembled

LEMMA NotifyEndStep ==
  ASSUME IInv, NEW r \in Radios, NotifyEnd(r)
  PROVE  IInv'
<1> DEFINE c == ctx[r]
           q == [ct |-> notifying[r].ct, match |-> notifying[r].at = "clash"]
<1>1. /\ notifying' = [notifying EXCEPT ![r] = Idle]
      /\ \/ /\ Len(mac[r]) < MacRoom
            /\ mac' = [mac EXCEPT ![r] = Append(@, q)]
         \/ UNCHANGED mac
      /\ UNCHANGED <<ctx, loopVars, rx, conf, airVars, histVars>>
  BY DEF NotifyEnd
<1>2. /\ Shapes /\ Sound(r) /\ LoopTypes(r) /\ c \in Contexts
      /\ Matched(r) \in BOOLEAN /\ Matched(r)' \in BOOLEAN
  BY DEF IInv, Sound, Shapes, Matched, HasMatch
<1>3. q \in MacReq /\ (q.match <=> notifying[r].at = "clash")
  BY <1>2 DEF LoopTypes, MacReq
<1>4. /\ notifying'[r] = Idle
      /\ \A x \in Radios \ {r} : notifying'[x] = notifying[x]
      /\ notifying' = [x \in Radios |-> notifying'[x]]
  BY <1>1, <1>2 DEF Shapes
<1>5. mac[r] \in Seq(MacReq) /\ Len(mac[r]) <= MacRoom
  BY <1>2 DEF LoopTypes
<1> HIDE DEF q
<1>6. /\ mac' = [x \in Radios |-> mac'[x]]
      /\ mac'[r] \in Seq(MacReq) /\ Len(mac'[r]) <= MacRoom
      /\ HasMatch(mac[r]) => HasMatch(mac'[r])
      /\ HasMatch(mac'[r]) => HasMatch(mac[r]) \/ notifying[r].at = "clash"
      /\ \A x \in Radios \ {r} : mac'[x] = mac[x]
  <2>1. CASE Len(mac[r]) < MacRoom /\ mac' = [mac EXCEPT ![r] = Append(@, q)]
    <3>1. /\ mac' = [x \in Radios |-> mac'[x]] /\ mac'[r] = Append(mac[r], q)
          /\ \A x \in Radios \ {r} : mac'[x] = mac[x]
      BY <1>2, <2>1 DEF Shapes
    <3>2. Append(mac[r], q) \in Seq(MacReq) /\ Len(Append(mac[r], q)) <= MacRoom
      BY <1>3, <1>5, <2>1, Bounds
    <3>3. /\ HasMatch(mac[r]) => HasMatch(Append(mac[r], q))
          /\ HasMatch(Append(mac[r], q)) => HasMatch(mac[r]) \/ q.match
      BY <1>3, <1>5, AppendedMatch
    <3> QED BY <1>3, <3>1, <3>2, <3>3
  <2>2. CASE UNCHANGED mac
    BY <1>2, <1>5, <2>2 DEF Shapes
  <2> QED BY <1>1, <2>1, <2>2
<1>7. Shapes'
  BY <1>1, <1>2, <1>4, <1>6 DEF Shapes, histVars, loopVars
<1>8. Idle \in [at : {"no", "read", "clash", "past"}, ct : CtCsbk] /\ Idle.at = "no"
  BY NoCsbkTyped DEF Idle
<1>9. LoopTypes(r)'
  BY <1>1, <1>2, <1>4, <1>6, <1>8 DEF LoopTypes, histVars, loopVars
<1>10. Election(c, batch[r], Matched(r)', "no")
  <2>1. Matched(r)' => Matched(r) \/ notifying[r].at = "clash"
    BY <1>1, <1>6 DEF Matched
  <2> QED BY <1>2, <2>1 DEF Sound, Election
<1>11. OnItsWay(c, (Matched(r) \/ gone[r])')
  <2>1. Matched(r) \/ gone[r] => (Matched(r) \/ gone[r])'
    BY <1>1, <1>6 DEF Matched, histVars
  <2> QED BY <1>2, <2>1 DEF Sound, OnItsWay
<1>12. notifying'[r].at = "no"
  BY <1>4, <1>8
<1>13. Sound(r)'
  BY <1>1, <1>2, <1>9, <1>10, <1>11, <1>12 DEF Sound, loopVars
<1>14. \A x \in Radios \ {r} : Same(x)
  BY <1>1, <1>4, <1>6 DEF Same, histVars, loopVars
<1> QED BY <1>1, <1>7, <1>13, <1>14, RxStays, Assembled

\* The kernel's timers: an expiry changes nothing but what is due.
LEMMA ExpireStep ==
  ASSUME IInv, NEW r \in Radios, NEW t \in Timers, Expire(r, t)
  PROVE  IInv'
<1> DEFINE c == ctx[r]
           tm == Expired(c.tmr, t)
           d == [c EXCEPT !.tmr = tm]
<1>1. /\ Due(c.tmr, t)
      /\ ctx' = [ctx EXCEPT ![r].tmr = Expired(@, t)]
      /\ UNCHANGED <<loopVars, rx, conf, mac, notifying, airVars, histVars>>
  BY DEF Expire
<1>2. /\ Shapes /\ Sound(r) /\ LoopTypes(r) /\ c \in Contexts
      /\ c.tmr \in [Timers -> Timer]
  BY DEF IInv, Sound, Shapes, Contexts
<1>3. tm \in [Timers -> Timer]
  BY <1>2, TimersStayTyped
<1>4. c.tmr[t] \in Timer
  BY <1>2
<1>5. /\ tm[t].kern = "expired" /\ tm[t].left = c.tmr[t].left
      /\ tm[t].armed = c.tmr[t].armed
      /\ \A u \in Timers \ {t} : tm[u] = c.tmr[u]
  BY <1>2, <1>4 DEF Expired, Timer
<1>6. ctx' = [ctx EXCEPT ![r] = d]
  BY <1>1
<1> HIDE DEF tm
<1>7. /\ d \in Contexts /\ d.di = c.di /\ d.state = c.state /\ d.kind = c.kind
      /\ d.submitted = c.submitted /\ d.retries = c.retries /\ d.tmr = tm
  BY <1>2, <1>3 DEF Contexts
<1> HIDE DEF d
<1>8. /\ ctx' \in [Radios -> Contexts] /\ ctx'[r] = d
      /\ \A x \in Radios \ {r} : ctx'[x] = ctx[x]
  BY <1>2, <1>6, <1>7, ContextStep
<1>9. \A u \in Timers : Has(d, u) <=> Has(c, u)
  BY <1>1, <1>5, <1>7 DEF Has, Due
<1>10. {"no_leader", "response_wait", "ct_rhot", "beacon_interval"} \subseteq Timers
  BY DEF Timers
<1>11. Over(d, batch[r]) => Over(c, batch[r])
  BY <1>1, <1>5, <1>7, <1>10 DEF Over, Due
<1>12. Waits(d, batch[r]) <=> Waits(c, batch[r])
  BY <1>9, <1>10 DEF Waits
<1>13. /\ d.tmr["response_wait"].left = c.tmr["response_wait"].left
       /\ d.tmr["response_wait"].armed = c.tmr["response_wait"].armed
       /\ d.tmr["response_wait"].kern = "running" => c.tmr["response_wait"].kern = "running"
       /\ Due(d.tmr, "no_leader") => Due(c.tmr, "no_leader")
  BY <1>1, <1>5, <1>7, <1>10 DEF Due
<1>14. /\ Has(d, "response_wait") <=> Has(c, "response_wait")
       /\ Has(d, "ct_rhot") <=> Has(c, "ct_rhot")
       /\ Has(d, "beacon_interval") <=> Has(c, "beacon_interval")
       /\ Requesting(d) <=> Requesting(c)
  BY <1>7, <1>9, <1>10 DEF Requesting
<1>15. Election(d, batch[r], Matched(r), notifying[r].at)
  <2>1. Election(c, batch[r], Matched(r), notifying[r].at)
    BY <1>2 DEF Sound
  <2> HIDE DEF c
  <2> QED BY <1>7, <1>11, <1>12, <1>13, <1>14, <2>1 DEF Election
<1>16. OnItsWay(d, Matched(r) \/ gone[r]) /\ Leading(d)
  BY <1>2, <1>7, <1>14 DEF OnItsWay, Leading, Sound
<1>17. Shapes'
  BY <1>1, <1>2, <1>8 DEF Shapes, histVars, loopVars
<1>18. LoopTypes(r)'
  BY <1>1, <1>2 DEF LoopTypes, histVars, loopVars
<1>19. Sound(r)'
  BY <1>1, <1>2, <1>7, <1>8, <1>15, <1>16, <1>18 DEF Sound, Matched, histVars, loopVars
<1>20. \A x \in Radios \ {r} : Same(x)
  BY <1>1, <1>8 DEF Same, histVars, loopVars
<1> QED BY <1>1, <1>17, <1>19, <1>20, RxStays, Assembled

\* An answer, or its disappearance: what was to come is there or lost.
LEMMA MacDoing ==
  ASSUME IInv, NEW r \in Radios, NEW ok \in BOOLEAN, mac[r] # <<>>,
         MacDone(r, ok) \/ (/\ mac' = [mac EXCEPT ![r] = Tail(@)]
                            /\ gone' = [gone EXCEPT ![r] = @ \/ Head(mac[r]).match]
                            /\ UNCHANGED conf),
         UNCHANGED <<ctx, loopVars, notifying>>,
         rx' = [x \in Radios |-> rx'[x]], \A x \in Radios : RxTypes(x)'
  PROVE  IInv'
<1> DEFINE a == [ok |-> ok, match |-> Head(mac[r]).match]
<1>1. Shapes /\ Sound(r) /\ LoopTypes(r)
  BY DEF IInv, Sound
<1>2. mac[r] \in Seq(MacReq) /\ Len(mac[r]) <= MacRoom
      /\ conf[r] \in Seq(Answer) /\ Len(conf[r]) <= QDepth
      /\ gone[r] \in BOOLEAN
  BY <1>1 DEF LoopTypes
<1>3. Head(mac[r]) \in MacReq /\ Tail(mac[r]) \in Seq(MacReq)
      /\ Len(Tail(mac[r])) <= MacRoom
  BY <1>2, Bounds
<1>4. a \in Answer /\ a.match = Head(mac[r]).match /\ Head(mac[r]).match \in BOOLEAN
  BY <1>3 DEF Answer, MacReq
<1>5. /\ HasMatch(Tail(mac[r])) => HasMatch(mac[r])
      /\ HasMatch(mac[r]) /\ ~Head(mac[r]).match => HasMatch(Tail(mac[r]))
      /\ Head(mac[r]).match => HasMatch(mac[r])
  BY <1>2, HeadMatch
<1>6. mac' = [mac EXCEPT ![r] = Tail(@)]
  BY DEF MacDone
<1>7. /\ mac' = [x \in Radios |-> mac'[x]] /\ mac'[r] = Tail(mac[r])
      /\ \A x \in Radios \ {r} : mac'[x] = mac[x]
  BY <1>1, <1>6 DEF Shapes
<1>8. \/ /\ Len(conf[r]) < QDepth
         /\ conf' = [conf EXCEPT ![r] = Append(@, a)] /\ UNCHANGED gone
      \/ /\ gone' = [gone EXCEPT ![r] = @ \/ Head(mac[r]).match]
         /\ UNCHANGED conf
  BY DEF MacDone
<1> HIDE DEF a
<1>9. /\ conf' = [x \in Radios |-> conf'[x]] /\ gone' = [x \in Radios |-> gone'[x]]
      /\ conf'[r] \in Seq(Answer) /\ Len(conf'[r]) <= QDepth
      /\ gone'[r] \in BOOLEAN
      /\ \A x \in Radios \ {r} : conf'[x] = conf[x] /\ gone'[x] = gone[x]
      /\ HasMatch(conf[r]) => HasMatch(conf'[r])
      /\ HasMatch(conf'[r]) => HasMatch(conf[r]) \/ Head(mac[r]).match
      /\ gone[r] => gone'[r]
      /\ Head(mac[r]).match => HasMatch(conf'[r]) \/ gone'[r]
  <2>1. CASE /\ Len(conf[r]) < QDepth
             /\ conf' = [conf EXCEPT ![r] = Append(@, a)] /\ UNCHANGED gone
    <3>1. /\ conf' = [x \in Radios |-> conf'[x]] /\ conf'[r] = Append(conf[r], a)
          /\ \A x \in Radios \ {r} : conf'[x] = conf[x]
      BY <1>1, <2>1 DEF Shapes
    <3>2. Append(conf[r], a) \in Seq(Answer) /\ Len(Append(conf[r], a)) <= QDepth
      BY <1>2, <1>4, <2>1, Bounds
    <3>3. /\ HasMatch(conf[r]) => HasMatch(Append(conf[r], a))
          /\ a.match => HasMatch(Append(conf[r], a))
          /\ HasMatch(Append(conf[r], a)) /\ ~a.match => HasMatch(conf[r])
      BY <1>2, <1>4, AppendedMatch
    <3> QED BY <1>1, <1>2, <1>4, <2>1, <3>1, <3>2, <3>3 DEF Shapes
  <2>2. CASE /\ gone' = [gone EXCEPT ![r] = @ \/ Head(mac[r]).match]
             /\ UNCHANGED conf
    <3>1. /\ gone' = [x \in Radios |-> gone'[x]]
          /\ gone'[r] = (gone[r] \/ Head(mac[r]).match)
          /\ \A x \in Radios \ {r} : gone'[x] = gone[x]
      BY <1>1, <2>2 DEF Shapes
    <3>2. conf' = [x \in Radios |-> conf'[x]]
      BY <1>1, <2>2 DEF Shapes
    <3> QED BY <1>2, <1>4, <2>2, <3>1, <3>2
  <2> QED BY <1>8, <2>1, <2>2
<1>10. Shapes'
  BY <1>1, <1>7, <1>9 DEF Shapes, loopVars
<1>11. LoopTypes(r)'
  BY <1>1, <1>3, <1>7, <1>9 DEF LoopTypes, loopVars
<1>12. Matched(r)' => Matched(r)
  BY <1>5, <1>7, <1>9 DEF Matched
<1>13. Matched(r) \/ gone[r] => (Matched(r) \/ gone[r])'
  BY <1>5, <1>7, <1>9 DEF Matched
<1>14. Election(ctx[r], batch[r], Matched(r)', notifying[r].at)
  BY <1>1, <1>12 DEF Election, Sound
<1>15. OnItsWay(ctx[r], (Matched(r) \/ gone[r])')
  BY <1>1, <1>13 DEF OnItsWay, Sound
<1>16. Sound(r)'
  BY <1>1, <1>11, <1>14, <1>15 DEF Sound, loopVars
<1>17. \A x \in Radios \ {r} : Same(x)
  BY <1>7, <1>9 DEF Same, loopVars
<1> QED BY <1>10, <1>16, <1>17, Assembled

LEMMA Delivering ==
  ASSUME IInv, NEW ct \in CtCsbk, NEW hearers, Deliver(ct, hearers)
  PROVE  rx' = [x \in Radios |-> rx'[x]] /\ \A x \in Radios : RxTypes(x)'
<1>1. rx' = [r \in Radios |->
               IF r \in hearers /\ Len(rx[r]) < QDepth THEN Append(rx[r], ct)
                                                      ELSE rx[r]]
  BY DEF Deliver
<1>2. ASSUME NEW x \in Radios PROVE RxTypes(x)'
  <2>1. rx[x] \in Seq(CtCsbk) /\ Len(rx[x]) <= QDepth
    BY DEF IInv, RxTypes
  <2>2. \/ rx'[x] = Append(rx[x], ct) /\ Len(rx[x]) < QDepth
        \/ rx'[x] = rx[x]
    BY <1>1
  <2> QED BY <2>1, <2>2, Bounds DEF RxTypes
<1> QED BY <1>1, <1>2

LEMMA MacStep ==
  ASSUME IInv, NEW r \in Radios,
         MacAirs(r) \/ AirLoses(r) \/ MacRefuses(r) \/ MacForgets(r)
  PROVE  IInv'
<1>1. Shapes /\ LoopTypes(r)
  BY DEF IInv, Sound
<1>2. ASSUME mac[r] # <<>> PROVE Head(mac[r]).ct \in CtCsbk
  <2>1. mac[r] \in Seq(MacReq)
    BY <1>1 DEF LoopTypes
  <2>2. Head(mac[r]) \in MacReq
    BY <1>2, <2>1
  <2> QED BY <2>2 DEF MacReq
<1>3. CASE MacAirs(r)
  <2>1. /\ mac[r] # <<>> /\ MacDone(r, TRUE) /\ Deliver(Head(mac[r]).ct, Others(r))
        /\ UNCHANGED <<ctx, loopVars, notifying>>
    BY <1>3 DEF MacAirs
  <2>2. rx' = [x \in Radios |-> rx'[x]] /\ \A x \in Radios : RxTypes(x)'
    BY <1>2, <2>1, Delivering
  <2> QED BY <2>1, <2>2, MacDoing
<1>4. CASE AirLoses(r)
  <2>1. /\ mac[r] # <<>> /\ MacDone(r, TRUE)
        /\ UNCHANGED <<ctx, loopVars, notifying>>
    BY <1>4 DEF AirLoses
  <2>2. PICK hearers \in SUBSET Others(r) : Deliver(Head(mac[r]).ct, hearers)
    BY <1>4 DEF AirLoses
  <2>3. rx' = [x \in Radios |-> rx'[x]] /\ \A x \in Radios : RxTypes(x)'
    BY <1>2, <2>1, <2>2, Delivering
  <2> QED BY <2>1, <2>3, MacDoing
<1>5. CASE MacRefuses(r)
  <2>1. /\ mac[r] # <<>> /\ MacDone(r, FALSE) /\ UNCHANGED rx
        /\ UNCHANGED <<ctx, loopVars, notifying>>
    BY <1>5 DEF MacRefuses
  <2>2. rx' = [x \in Radios |-> rx'[x]] /\ \A x \in Radios : RxTypes(x)'
    BY <1>1, <2>1, RxStays DEF Shapes
  <2> QED BY <2>1, <2>2, MacDoing
<1>6. CASE MacForgets(r)
  <2>1. /\ mac[r] # <<>> /\ mac' = [mac EXCEPT ![r] = Tail(@)]
        /\ gone' = [gone EXCEPT ![r] = @ \/ Head(mac[r]).match]
        /\ UNCHANGED conf /\ UNCHANGED rx
        /\ UNCHANGED <<ctx, loopVars, notifying>>
    BY <1>6 DEF MacForgets
  <2>2. rx' = [x \in Radios |-> rx'[x]] /\ \A x \in Radios : RxTypes(x)'
    BY <1>1, <2>1, RxStays DEF Shapes
  <2> QED BY <2>1, <2>2, MacDoing
<1> QED BY <1>3, <1>4, <1>5, <1>6

LEMMA AirStep ==
  ASSUME IInv, ForeignAirs \/ Meet
  PROVE  IInv'
<1>1. UNCHANGED <<ctx, loopVars, conf, mac, notifying, histVars>>
  BY DEF ForeignAirs, Meet
<1>2. rx' = [x \in Radios |-> rx'[x]] /\ \A x \in Radios : RxTypes(x)'
  <2>1. CASE ForeignAirs
    <3>1. PICK ct \in Foreign, hearers \in (SUBSET Radios) \ {{}} :
            Deliver(ct, hearers)
      BY <2>1 DEF ForeignAirs
    <3>2. ct \in CtCsbk
      BY ForeignAssumption
    <3> QED BY <3>1, <3>2, Delivering
  <2>2. CASE Meet
    BY <2>2, RxStays DEF Meet, IInv, Shapes
  <2> QED BY <2>1, <2>2
<1>3. \A x \in Radios : Same(x)
  BY <1>1 DEF Same, loopVars, histVars
<1>4. Shapes'
  BY <1>1, <1>2 DEF Shapes, IInv, loopVars, histVars
<1>5. \A x \in Radios : Sound(x)'
  BY <1>3, SameStaysSound DEF IInv
<1> QED BY <1>2, <1>4, <1>5 DEF IInv

\* A tick comes when everything is settled: whatever becomes due meets a radio
\* that waits for nothing.
Ticked(c) == [c EXCEPT !.tmr = CountedDown(@)]

LEMMA TickedSound ==
  ASSUME NEW c \in Contexts, NEW m \in BOOLEAN, NEW at,
         Election(c, {}, m, at), ~m, at = "no",
         \A t \in Timers : ~Due(c.tmr, t) /\ c.tmr[t].kern # "expired",
         ~Has(c, "ct_rhot"), NEW d, d = Ticked(c)
  PROVE  /\ d \in Contexts /\ d.di = c.di /\ d.state = c.state /\ d.kind = c.kind
         /\ d.submitted = c.submitted
         /\ (Leading(c) => Leading(d)) /\ (\A t \in Timers : Has(d, t) <=> Has(c, t))
         /\ Election(d, {}, m, at)
<1> DEFINE tm == CountedDown(c.tmr)
<1>1. c.tmr \in [Timers -> Timer]
  BY DEF Contexts
<1>2. ASSUME NEW t \in Timers
      PROVE  tm[t] \in Timer /\ tm[t].kern = c.tmr[t].kern
             /\ (tm[t].kern # "running" => tm[t] = c.tmr[t])
  <2>1. c.tmr[t] \in Timer
    BY <1>1
  <2>2. CASE c.tmr[t].kern = "running"
    <3>1. c.tmr[t].left \in Nat /\ c.tmr[t].left # 0
      BY <2>1, <2>2 DEF Due, Timer
    <3>2. c.tmr[t].left - 1 \in Nat
      BY <3>1
    <3>3. tm[t] = [c.tmr[t] EXCEPT !.left = c.tmr[t].left - 1]
      BY <2>2 DEF CountedDown
    <3> HIDE DEF tm
    <3> QED BY <2>1, <2>2, <3>2, <3>3 DEF Timer
  <2>3. CASE c.tmr[t].kern # "running"
    BY <2>1, <2>3 DEF CountedDown
  <2> QED BY <2>2, <2>3
<1>3. tm \in [Timers -> Timer]
  BY <1>2 DEF CountedDown
<1> HIDE DEF tm
<1>4. d = [c EXCEPT !.tmr = tm]
  BY DEF Ticked, tm
<1>5. /\ d \in Contexts /\ d.di = c.di /\ d.state = c.state /\ d.kind = c.kind
      /\ d.submitted = c.submitted /\ d.retries = c.retries /\ d.tmr = tm
  BY <1>3, <1>4 DEF Contexts
<1>6. \A t \in Timers : Has(d, t) <=> Has(c, t)
  BY <1>2, <1>5 DEF Has
<1>7. {"no_leader", "response_wait", "ct_rhot", "beacon_interval"} \subseteq Timers
  BY DEF Timers
<1>8. ~Has(c, "response_wait")
  <2>1. /\ c.tmr["response_wait"].left = 0 /\ ~Due(c.tmr, "response_wait")
        /\ c.tmr["response_wait"].kern # "expired"
    BY <1>7 DEF Election
  <2>2. c.tmr["response_wait"] \in Timer
    BY <1>1, <1>7
  <2> QED BY <2>1, <2>2 DEF Due, Has, Timer
<1>9. ~Has(d, "response_wait") /\ d.tmr["response_wait"].left = 0
  <2>1. d.tmr["response_wait"].kern # "running"
    BY <1>6, <1>7, <1>8 DEF Has
  <2>2. d.tmr["response_wait"] = c.tmr["response_wait"]
    BY <1>2, <1>5, <1>7, <2>1
  <2> QED BY <1>6, <1>7, <1>8, <2>2 DEF Election
<1>10. ~Waits(d, {}) /\ ~Has(d, "ct_rhot")
  BY <1>6, <1>7, <1>9 DEF Waits
<1>11. Requesting(d) <=> Requesting(c)
  BY <1>5 DEF Requesting
<1>12. Election(d, {}, m, at)
  BY <1>5, <1>9, <1>10, <1>11 DEF Election
<1>13. Leading(c) => Leading(d)
  BY <1>5, <1>6, <1>7 DEF Leading
<1> QED BY <1>5, <1>6, <1>12, <1>13

LEMMA TickStep ==
  ASSUME IInv, Tick
  PROVE  IInv'
<1>1. /\ Settled
      /\ \A r \in Radios, t \in Timers : ~Due(ctx[r].tmr, t)
      /\ UNCHANGED <<loopVars, rx, conf, mac, notifying, airVars, histVars>>
  BY DEF Tick
<1>2. ctx' = [r \in Radios |-> Ticked(ctx[r])]
  BY DEF Tick, Ticked
<1>3. ASSUME NEW r \in Radios
      PROVE  ctx'[r] \in Contexts /\ Sound(r)'
  <2> DEFINE c == ctx[r]
             d == Ticked(c)
  <2>1. Shapes /\ Sound(r) /\ LoopTypes(r) /\ c \in Contexts
    BY DEF IInv, Shapes, Sound
  <2>2. /\ batch[r] = {} /\ Ready(r) = {} /\ mac[r] = <<>>
        /\ notifying[r] = Idle /\ c.tmr["ct_rhot"].kern = "off"
    BY <1>1 DEF Settled
  <2>3. conf[r] = <<>> /\ \A t \in Timers : c.tmr[t].kern # "expired"
    BY <2>2 DEF Ready
  <2>4. ~Matched(r) /\ Matched(r) \in BOOLEAN
    BY <2>2, <2>3, EmptyMatch DEF Matched
  <2>5. Election(c, {}, Matched(r), notifying[r].at)
    BY <2>1, <2>2 DEF Sound
  <2>6. notifying[r].at = "no"
    BY <2>2 DEF Idle
  <2>7. \A t \in Timers : ~Due(c.tmr, t) /\ c.tmr[t].kern # "expired"
    BY <1>1, <2>3
  <2>8. ~Has(c, "ct_rhot")
    BY <2>2 DEF Has
  <2>9. /\ d \in Contexts /\ d.di = c.di /\ d.state = c.state /\ d.kind = c.kind
        /\ d.submitted = c.submitted
        /\ (Leading(c) => Leading(d)) /\ (\A t \in Timers : Has(d, t) <=> Has(c, t))
        /\ Election(d, {}, Matched(r), notifying[r].at)
    <3> HIDE DEF c
    <3> QED BY <2>1, <2>4, <2>5, <2>6, <2>7, <2>8, TickedSound
  <2>10. ctx'[r] = d
    BY <1>2
  <2> HIDE DEF d
  <2>11. OnItsWay(d, Matched(r) \/ gone[r])
    BY <2>1, <2>9 DEF OnItsWay, Sound, Timers
  <2>12. LoopTypes(r)'
    BY <1>1, <2>1 DEF LoopTypes, loopVars, histVars
  <2>13. Sound(r)'
    BY <1>1, <2>1, <2>2, <2>9, <2>10, <2>11, <2>12 DEF Sound, Matched, loopVars, histVars
  <2> QED BY <2>9, <2>10, <2>13
<1>4. Shapes'
  <2>1. ctx' \in [Radios -> Contexts]
    BY <1>2, <1>3
  <2> QED BY <1>1, <2>1 DEF Shapes, IInv, loopVars, histVars
<1>5. \A r \in Radios : RxTypes(r)'
  BY <1>1, RxStays
<1> QED BY <1>3, <1>4, <1>5 DEF IInv

----------------------------------------------------------------------------
(* The invariant is inductive.                                             *)

LEMMA Initially == Init => IInv
<1> SUFFICES ASSUME Init PROVE IInv
  OBVIOUS
<1>1. ASSUME NEW r \in Radios
      PROVE  /\ InitialContext(r) \in Contexts /\ InitialContext(r).di = Di[r]
             /\ Leading(InitialContext(r)) /\ InitialContext(r).kind = "NONE"
             /\ Election(InitialContext(r), {}, FALSE, "no")
  <2> DEFINE c == InitialContext(r)
             off == [t \in Timers |-> Off]
             tm == Arm(off, "no_leader", NoLeaderTimer)
  <2>1. "no_leader" \in Timers /\ "response_wait" \in Timers /\ Off \in Timer
    BY DEF Timers, Off, Timer
  <2>2. off \in [Timers -> Timer]
    BY <2>1
  <2>3. tm \in [Timers -> Timer]
    BY <2>1, <2>2, Bounds, TimersStayTyped
  <2>4. /\ tm["response_wait"] = Off
        /\ tm["no_leader"] = [kern |-> "running", left |-> NoLeaderTimer, armed |-> TRUE]
    BY <2>1 DEF Arm
  <2>5. /\ Di[r] \in 0..3 /\ FirstId[r] \in Ids /\ Nobody \in Watids
        /\ 0 \in 0..GenSpace /\ "TIMING_UNKNOWN" \in States /\ "NONE" \in Kinds
    <3>1. Nobody \in Watids /\ 0 \in 0..GenSpace
      BY Bounds DEF Nobody, Watids
    <3> QED BY <3>1, IdsAssumption DEF States, Kinds
  <2> HIDE DEF tm
  <2>6. c = [state |-> "TIMING_UNKNOWN", di |-> Di[r], id |-> FirstId[r],
             lwatid |-> Nobody, gen |-> 0, sa |-> 0, kind |-> "NONE",
             pending |-> NoCsbk, submitted |-> FALSE,
             retries |-> 0, tmr |-> tm]
    BY DEF InitialContext, tm
  <2> HIDE DEF c
  <2>7. /\ c \in Contexts /\ c.di = Di[r] /\ c.state = "TIMING_UNKNOWN"
        /\ c.kind = "NONE" /\ c.retries = 0 /\ c.tmr = tm
    BY <2>3, <2>5, <2>6, NoCsbkTyped DEF Contexts
  <2>8. Leading(c)
    BY <2>7 DEF Leading
  <2>9. Election(c, {}, FALSE, "no")
    BY <2>4, <2>7, Bounds
    DEF Election, Requesting, Waits, Over, Due, Has, Off, Leaderless
  <2> QED BY <2>7, <2>8, <2>9 DEF c
<1>2. /\ ctx = [r \in Radios |-> InitialContext(r)]
      /\ batch = [r \in Radios |-> {}] /\ rx = [r \in Radios |-> <<>>]
      /\ conf = [r \in Radios |-> <<>>] /\ mac = [r \in Radios |-> <<>>]
      /\ notifying = [r \in Radios |-> Idle]
      /\ gone = [r \in Radios |-> FALSE]
  BY DEF Init
<1>3. Shapes
  BY <1>1, <1>2 DEF Shapes
<1>4. ASSUME NEW r \in Radios PROVE Sound(r) /\ RxTypes(r)
  <2>1. /\ ctx[r] = InitialContext(r) /\ batch[r] = {} /\ rx[r] = <<>>
        /\ conf[r] = <<>> /\ mac[r] = <<>> /\ notifying[r] = Idle
        /\ gone[r] = FALSE
    BY <1>2
  <2>2. /\ <<>> \in Seq(CtCsbk) /\ <<>> \in Seq(Answer) /\ <<>> \in Seq(MacReq)
        /\ Len(<<>>) = 0
    OBVIOUS
  <2>3. Idle \in [at : {"no", "read", "clash", "past"}, ct : CtCsbk] /\ Idle.at = "no"
    BY NoCsbkTyped DEF Idle
  <2>4. LoopTypes(r) /\ RxTypes(r)
    <3>1. rx[r] \in Seq(CtCsbk) /\ conf[r] \in Seq(Answer) /\ mac[r] \in Seq(MacReq)
      BY <2>1, <2>2
    <3>2. Len(rx[r]) = 0 /\ Len(conf[r]) = 0 /\ Len(mac[r]) = 0
      BY <2>1, <2>2
    <3>3. Len(rx[r]) <= QDepth /\ Len(conf[r]) <= QDepth /\ Len(mac[r]) <= MacRoom
      BY <3>2, Bounds
    <3> QED BY <2>1, <2>3, <3>1, <3>3 DEF LoopTypes, RxTypes
  <2>5. Matched(r) = FALSE
    BY <2>1, EmptyMatch DEF Matched, HasMatch
  <2>6. OnItsWay(ctx[r], Matched(r) \/ gone[r])
    BY <1>1, <2>1 DEF OnItsWay
  <2>7. ctx[r].di = Di[r] /\ Leading(ctx[r])
    BY <1>1, <2>1
  <2>8. Election(ctx[r], batch[r], Matched(r), notifying[r].at)
    BY <1>1, <2>1, <2>3, <2>5
  <2> QED BY <2>4, <2>6, <2>7, <2>8 DEF Sound
<1> QED BY <1>3, <1>4 DEF IInv

LEMMA Inductive == IInv /\ [Next]_vars => IInv'
<1> SUFFICES ASSUME IInv, [Next]_vars PROVE IInv'
  OBVIOUS
<1>1. ASSUME NEW r \in Radios, RadioStep(r) PROVE IInv'
  <2>1. CASE EpollWait(r)
    BY <2>1, EpollWaitStep
  <2>2. CASE \E t \in Timers : TimerReady(r, t)
    BY <2>2, TimerReadyStep
  <2>3. CASE RhotReady(r)
    BY <2>3, RhotReadyStep
  <2>4. CASE ConfReady(r)
    BY <2>4, ConfReadyStep
  <2>5. CASE RxReady(r)
    BY <2>5, RxReadyStep
  <2>6. CASE QueueEmpty(r, "conf", conf[r])
    BY <2>6, QueueEmptyStep
  <2>7. CASE QueueEmpty(r, "rx", rx[r])
    BY <2>7, QueueEmptyStep
  <2> QED BY <1>1, <2>1, <2>2, <2>3, <2>4, <2>5, <2>6, <2>7 DEF RadioStep
<1>2. ASSUME NEW r \in Radios, NotifyBegin(r) \/ NotifyEnd(r) PROVE IInv'
  BY <1>2, NotifyBeginStep, NotifyEndStep
<1>3. ASSUME NEW r \in Radios, \E t \in Timers : Expire(r, t) PROVE IInv'
  BY <1>3, ExpireStep
<1>4. ASSUME NEW r \in Radios,
             MacAirs(r) \/ AirLoses(r) \/ MacRefuses(r) \/ MacForgets(r)
      PROVE  IInv'
  BY <1>4, MacStep
<1>5. CASE Tick
  BY <1>5, TickStep
<1>6. CASE ForeignAirs \/ Meet
  BY <1>6, AirStep
<1>7. CASE UNCHANGED vars
  <2>1. \A r \in Radios : Same(r)
    BY <1>7 DEF vars, Same, loopVars, histVars
  <2>2. Shapes' /\ \A r \in Radios : RxTypes(r)'
    BY <1>7, RxStays DEF vars, Shapes, IInv, loopVars, histVars
  <2>3. \A r \in Radios : Sound(r)'
    BY <2>1, SameStaysSound DEF IInv
  <2> QED BY <2>2, <2>3 DEF IInv
<1> QED BY <1>1, <1>2, <1>3, <1>4, <1>5, <1>6, <1>7 DEF Next

THEOREM Invariant == Spec => []IInv
  BY Initially, Inductive, PTL DEF Spec

----------------------------------------------------------------------------
(* What follows from it.                                                   *)

LEMMA IInvTypeOK == IInv => TypeOK
<1> SUFFICES ASSUME IInv, NEW r \in Radios
             PROVE  LET c == ctx[r] IN
                      /\ c.state \in States /\ c.di = Di[r] /\ c.id \in Ids
                      /\ c.lwatid \in Watids /\ c.gen \in 0..GenSpace
                      /\ c.sa \in Nat
                      /\ c.kind \in Kinds /\ c.submitted \in BOOLEAN
                      /\ c.retries \in 0..MaxRetries
                      /\ DOMAIN c.tmr = Timers
                      /\ batch[r] \subseteq Timers \cup {"conf", "rx"}
                      /\ Len(rx[r]) <= QDepth /\ Len(conf[r]) <= QDepth
                      /\ Len(mac[r]) <= MacRoom
  BY DEF TypeOK
<1>1. ctx[r] \in Contexts /\ Sound(r) /\ RxTypes(r)
  BY DEF IInv, Shapes
<1>2. ctx[r].retries \in 0..MaxRetries
  BY <1>1, Bounds DEF Sound, Election, Contexts
<1> QED BY <1>1, <1>2 DEF Sound, LoopTypes, RxTypes, Contexts

\* Every context keeps its type for ever; in particular the generation fits
\* its byte, and a radio that nobody answers asks for a leader
\* DMO_NOLEADER_MAX_RETRIES times at most before it leads itself, however the
\* confirmations, the timers and dmr_dmo_notify_tx() of other threads fall.
THEOREM TypeCorrect == Spec => []TypeOK
  BY Invariant, IInvTypeOK, PTL

\* A leader always has its next beacon coming: dmo_thread() never leads
\* without the beacon interval, whichever way the role came.
THEOREM LeaderAlwaysBeacons == Spec => []LeaderBeacons
<1>1. IInv => LeaderBeacons
  BY DEF IInv, Sound, Leading, LeaderBeacons, Live, Has
<1> QED BY <1>1, Invariant, PTL

\* A CT_CSBK that is pending is held off, with the MAC, confirmed but not yet
\* served, or lost with its request: there is no fifth place for it, for any
\* number of radios, requests and losses.
THEOREM PendingAlwaysOnItsWay == Spec => []PendingOnItsWay
<1>1. IInv => PendingOnItsWay
  BY DEF IInv, Sound, OnItsWay, Matched, PendingOnItsWay, Live, Has
<1> QED BY <1>1, Invariant, PTL

----------------------------------------------------------------------------
(* Only a better leader is followed.                                       *)

LEMMA BetterStill ==
  ASSUME NEW c, NEW d, d.state = c.state \/ d.state # "KNOWN",
         d.lwatid = c.lwatid \/ d.state # "KNOWN"
  PROVE  Better(c, d)
  BY DEF Better, LeaderOf

LEMMA StepIsBetter ==
  ASSUME IInv, [Next]_vars, NEW r \in Radios
  PROVE  Better(ctx[r], ctx'[r])
<1> DEFINE c == ctx[r]
<1>1. Shapes /\ Sound(r) /\ RxTypes(r) /\ c \in Contexts
      /\ gone[r] \in BOOLEAN /\ Matched(r) \in BOOLEAN
  BY DEF IInv, Shapes, Sound, LoopTypes, Matched, HasMatch
<1>2. ASSUME ctx'[r] = ctx[r] PROVE Better(c, ctx'[r])
  BY <1>2, BetterStill
<1>3. ASSUME NEW x \in Radios, RadioStep(x), x # r PROVE Better(c, ctx'[r])
  <2>1. ctx'[r] = ctx[r]
    BY <1>1, <1>3 DEF RadioStep, EpollWait, TimerReady, RhotReady, ConfReady,
       RxReady, QueueEmpty, Becomes, Submit, Shapes
  <2> QED BY <1>2, <2>1
<1>4. ASSUME EpollWait(r) \/ QueueEmpty(r, "conf", conf[r]) \/ QueueEmpty(r, "rx", rx[r])
      PROVE Better(c, ctx'[r])
  BY <1>2, <1>4 DEF EpollWait, QueueEmpty
<1>5. ASSUME NEW t \in Timers, TimerReady(r, t) PROVE Better(c, ctx'[r])
  <2> DEFINE d == TimerHandler(Served(c, t), t)
  <2>1. t \in Timers \ {"ct_rhot"} /\ t \in batch[r] /\ ctx' = [ctx EXCEPT ![r] = d]
    BY <1>5 DEF TimerReady, ServesTimer, Drained, Served, Becomes
  <2>2. Election(c, batch[r], Matched(r), notifying[r].at)
    BY <1>1 DEF Sound
  <2>3. Answers(c, d, batch[r] \ {t}, Matched(r), notifying[r].at)
    <3> HIDE DEF c
    <3> QED BY <1>1, <2>1, <2>2, TimerAnswers
  <2> HIDE DEF d
  <2>4. Better(c, d) /\ ctx'[r] = d
    BY <1>1, <2>1, <2>3 DEF Answers, Shapes
  <2> QED BY <2>4
<1>6. ASSUME RhotReady(r) PROVE Better(c, ctx'[r])
  <2> DEFINE e == Served(c, "ct_rhot")
  <2>1. ctx' = [ctx EXCEPT ![r] = e] \/ ctx' = [ctx EXCEPT ![r] = HandedOver(e)]
    BY <1>6 DEF RhotReady, Drained, Served, Becomes, Submit, HandedOver
  <2>2. e \in Contexts /\ e.state = c.state /\ e.lwatid = c.lwatid
    BY <1>1, Draining DEF Timers
  <2> HIDE DEF e
  <2>3. HandedOver(e).state = e.state /\ HandedOver(e).lwatid = e.lwatid
    BY <2>2 DEF HandedOver, Contexts
  <2>4. ctx'[r] = e \/ ctx'[r] = HandedOver(e)
    BY <1>1, <2>1 DEF Shapes
  <2> QED BY <2>2, <2>3, <2>4, BetterStill
<1>7. ASSUME ConfReady(r) PROVE Better(c, ctx'[r])
  <2>1. \/ UNCHANGED ctx
        \/ \E d \in {Confirmed(c), Retry(c), Unscheduled(c)} :
             ctx' = [ctx EXCEPT ![r] = d]
    BY <1>7 DEF ConfReady, Becomes
  <2>2. ASSUME NEW d \in {Confirmed(c), Retry(c), Unscheduled(c)}
        PROVE  d.state = c.state /\ d.lwatid = c.lwatid
    <3> HIDE DEF c
    <3>1. Unscheduled(c).state = c.state /\ Unscheduled(c).lwatid = c.lwatid
      BY <1>1 DEF Unscheduled, Contexts
    <3>2. Retry(c).state = c.state /\ Retry(c).lwatid = c.lwatid
      BY <1>1 DEF Retry, Contexts
    <3>3. Confirmed(c).state = c.state /\ Confirmed(c).lwatid = c.lwatid
      BY <1>1 DEF Confirmed, Unscheduled, Contexts
    <3> QED BY <2>2, <3>1, <3>2, <3>3
  <2>3. ASSUME NEW d \in {Confirmed(c), Retry(c), Unscheduled(c)},
               ctx' = [ctx EXCEPT ![r] = d]
        PROVE  Better(c, ctx'[r])
    <3>1. ctx'[r] = d
      BY <1>1, <2>3 DEF Shapes
    <3> QED BY <2>2, <3>1, BetterStill
  <2> QED BY <1>2, <2>1, <2>3
<1>8. ASSUME RxReady(r) PROVE Better(c, ctx'[r])
  <2>1. PICK id \in Ids : ctx' = [ctx EXCEPT ![r] = DispatchRx(c, Head(rx[r]), id)]
    BY <1>8 DEF RxReady, Becomes
  <2>2. Head(rx[r]) \in CtCsbk
    BY <1>1, <1>8 DEF RxReady, RxTypes
  <2>3. Hears(c, DispatchRx(c, Head(rx[r]), id))
    BY <1>1, <2>2, DispatchHears
  <2>4. ctx'[r] = DispatchRx(c, Head(rx[r]), id)
    BY <1>1, <2>1 DEF Shapes
  <2> QED BY <2>3, <2>4 DEF Hears
<1>9. ASSUME NEW x \in Radios, NEW t \in Timers, Expire(x, t)
      PROVE  Better(c, ctx'[r])
  <2>1. ctx' = [ctx EXCEPT ![x].tmr = Expired(@, t)]
    BY <1>9 DEF Expire
  <2>2. ctx'[r].state = c.state /\ ctx'[r].lwatid = c.lwatid
    BY <1>1, <2>1 DEF Shapes, Contexts
  <2> QED BY <2>2, BetterStill
<1>10. ASSUME Tick PROVE Better(c, ctx'[r])
  <2>1. ctx' = [x \in Radios |-> Ticked(ctx[x])]
    BY <1>10 DEF Tick, Ticked
  <2>2. ctx'[r].state = c.state /\ ctx'[r].lwatid = c.lwatid
    BY <1>1, <2>1 DEF Ticked, Contexts
  <2> QED BY <2>2, BetterStill
<1>11. ASSUME \/ \E x \in Radios : \/ NotifyBegin(x) \/ NotifyEnd(x)
                                   \/ MacAirs(x) \/ AirLoses(x)
                                   \/ MacRefuses(x) \/ MacForgets(x)
              \/ ForeignAirs \/ Meet \/ UNCHANGED vars
       PROVE  Better(c, ctx'[r])
  <2>1. UNCHANGED ctx
    BY <1>11 DEF NotifyBegin, NotifyEnd, MacAirs, AirLoses, MacRefuses,
       MacForgets, ForeignAirs, Meet, vars
  <2> QED BY <1>2, <2>1
<1>12. ASSUME NEW x \in Radios, RadioStep(x) PROVE Better(c, ctx'[r])
  BY <1>3, <1>4, <1>5, <1>6, <1>7, <1>8, <1>12 DEF RadioStep
<1> HIDE DEF c
<1>13. Better(c, ctx'[r])
  BY <1>9, <1>10, <1>11, <1>12 DEF Next
<1> QED BY <1>13 DEF c

\* Whoever follows a leader, or leads, changes over only to a leader of a
\* higher WATID: through every branch of dmo_cce() and dmo_ldr(), appointments,
\* identifier conflicts and whatever other radios send included.
THEOREM OnlyBetterLeaderFollowed == Spec => OnlyBetterLeader
<1>1. IInv /\ [Next]_vars =>
        [\A r \in Radios :
           LET c == ctx[r]  d == ctx'[r] IN
             /\ c.state \in {"KNOWN", "LEADER"} /\ d.state = "KNOWN"
             /\ d.lwatid # LeaderOf(c)
             => d.lwatid > LeaderOf(c)]_vars
  BY StepIsBetter DEF Better
<1> QED BY <1>1, Invariant, PTL DEF Spec, OnlyBetterLeader

=============================================================================
