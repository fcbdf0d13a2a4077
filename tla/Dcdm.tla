-------------------------------- MODULE Dcdm --------------------------------
(***************************************************************************)
(* Channel timing leader election in direct mode (dmr_dmo.c) among several *)
(* radios on one frequency.  Each radio runs one worker thread that takes  *)
(* received channel timing messages (CT_CSBK), MAC confirmations and six   *)
(* one-shot timers, and keeps at most one CT_CSBK pending, which it hands  *)
(* to its MAC after a random holdoff (CT_RHOT).                            *)
(*                                                                         *)
(* A handler runs under state_mutex and is one step; what it does to the   *)
(* context is an operator from a context to the next.  Timers of minutes   *)
(* are counted down by Tick, which waits for the exchange under way (up to *)
(* seconds) to be over; the two short ones, CT_RHOT and response_wait, are *)
(* untimed, or with Patient response_wait too outlasts the exchange.  The  *)
(* MAC sends what it is given in order and confirms it, refuses it, or     *)
(* forgets it when a later request takes its place.                        *)
(***************************************************************************)
EXTENDS Integers, Sequences, FiniteSets, OneShotTimer

CONSTANTS
  Radios,       \* the radios
  Di,           \* Di[r]: leader_di, its preference for being the leader
  FirstId,      \* FirstId[r]: the MS identifier it powers up with
  IdSpace,      \* 2^20: identifiers are 1..IdSpace-1
  GenSpace,     \* 2^5: the generation as it is sent
  Tolerance,    \* 10: sync ages this close are the same
  MaxRetries,   \* DMO_NOLEADER_MAX_RETRIES
  Talkers,      \* radios whose voice or data module knows of this one
  Foreign,      \* CT_CSBKs sent by radios that are not modelled
  NoLeaderTimer, BeaconInterval, SyncAge, SyncAgeWarning, \* in ticks
  SaPerTick,    \* sync age increments (DMO_SA_INCR_MS) in a tick
  Patient,      \* is a reply in time for DMO_RESPONSE_WAIT_MS?
  Prompt,       \* does a thread wake up for one descriptor at a time?
  MacRoom,      \* requests the MAC can hold
  QDepth,       \* DMR_MQ_MAX_MSGS
  MaxTrouble    \* bound: bursts lost or refused, messages of foreign radios,
                \* calls of dmr_dmo_notify_tx()

Ids == 1..(IdSpace - 1)

ASSUME IdsAssumption ==
  /\ IdSpace \in Nat \ {0, 1} /\ GenSpace \in Nat \ {0}
  /\ Di \in [Radios -> 0..3] /\ FirstId \in [Radios -> Ids]
ASSUME DcdmBounds ==
  /\ Tolerance \in Nat /\ MaxRetries \in Nat \ {0}
  /\ MacRoom \in Nat \ {0} /\ QDepth \in Nat \ {0}
  /\ MaxTrouble \in Nat
  /\ Patient \in BOOLEAN /\ Prompt \in BOOLEAN
  /\ {BeaconInterval, SyncAge, SyncAgeWarning} \subseteq Nat
  /\ NoLeaderTimer \in Nat \ {0} /\ SaPerTick \in Nat \ {0}

\* DMO_WATID(): the preference outranks the identifier; 0 is nobody.
Watid(di, id) == di * IdSpace + id
WatidDi(w)    == w \div IdSpace
WatidId(w)    == w % IdSpace
Watids        == 0..(4 * IdSpace - 1)
Nobody        == 0

States == {"TIMING_UNKNOWN", "LEADER_UNKNOWN", "KNOWN", "LEADER"}
Leaderless == {"TIMING_UNKNOWN", "LEADER_UNKNOWN"}
Kinds  == {"NONE", "NOLEADER_REQ", "SYNCAGEWARNING_REQ", "SC", "ANL", "PROP",
           "OTHER"}
Ctos   == {"unaligned_req", "unaligned_term", "status", "push"}
Timers == {"ct_rhot", "no_leader", "response_wait", "sync_age",
           "sync_age_warning", "beacon_interval"}

\* dmr_ct_csbk_t, with the leader as a WATID.
CtCsbk == [leader : Watids, nl : BOOLEAN, gen : 0..(GenSpace - 1), sa : Nat,
           sdi : 0..3, sid : 0..(IdSpace - 1), cto : Ctos]
ASSUME ForeignAssumption == Foreign \subseteq CtCsbk /\ Talkers \subseteq Radios

VARIABLES
  ctx,        \* the context of each radio
  batch, queue,  \* rest of its epoll snapshot; the queue being emptied
  rx,         \* mq_mac_rx
  conf,       \* mq_mac_conf
  mac,        \* requests its MAC has not dealt with
  notifying,  \* dmr_dmo_notify_tx() under way on another thread
  inRange,    \* do the radios hear each other?
  trouble,    \* what MaxTrouble counts
  gone,       \* history: the request for the pending CT_CSBK is lost
  mistaken    \* history: a CT_CSBK was completed by an answer to another

loopVars == <<batch, queue>>
airVars  == <<inRange, trouble>>
histVars == <<gone, mistaken>>
vars == <<ctx, loopVars, rx, conf, mac, notifying, airVars, histVars>>

SourceOf(ct) == Watid(ct.sdi, ct.sid)
WatidOf(c)   == Watid(c.di, c.id)

----------------------------------------------------------------------------
(* CT_CSBKs a radio builds.                                                *)

Naming(c, leader, sdi, cto) ==
  [leader |-> leader, nl |-> FALSE, gen |-> c.gen % GenSpace, sa |-> c.sa,
   sdi |-> sdi, sid |-> c.id, cto |-> cto]

Beacon(c)  == [Naming(c, WatidOf(c), c.di, "push") EXCEPT !.gen = 0]
Request(c) == [Naming(c, Nobody, c.di, "unaligned_req")
                 EXCEPT !.gen = 0, !.sa = 0]
Correction(c) ==
  IF c.state = "LEADER"
    THEN [Beacon(c) EXCEPT !.cto = "status"]
    ELSE Naming(c, c.lwatid, 0, "status")
Refresh(c)     == Naming(c, c.lwatid, 0, "status")
AppointmentUnmarked(c) == Refresh(c)                        \* Faulty.
Appointment(c) == [Refresh(c) EXCEPT !.nl = TRUE]
Proposal(c)    == Naming(c, c.lwatid, 0, "push")

\* dmo_schedule_ct_csbk_tx(): one CT_CSBK is pending; a later one takes its
\* place.  submitted says whether pending_req_id has been set for it.
Schedule(c, ct, kind) ==
  [c EXCEPT !.pending = ct, !.kind = kind, !.submitted = FALSE,
            !.tmr = Arm(@, "ct_rhot", 0)]

\* Nothing is pending; what was is not read again.
NoCsbk == [leader |-> Nobody, nl |-> FALSE, gen |-> 0, sa |-> 0, sdi |-> 0,
           sid |-> 0, cto |-> "unaligned_req"]
Idle == [at |-> "no", ct |-> NoCsbk]      \* of dmr_dmo_notify_tx()

Unscheduled(c) ==
  [c EXCEPT !.kind = "NONE", !.pending = NoCsbk, !.submitted = FALSE]

----------------------------------------------------------------------------
(* The sub-procedures.                                                     *)

\* dmo_sc(): Send Correction
Sc(c) == Schedule(c, Correction(c), "SC")

\* dmo_anl(): Appoint New Leader
Anl(c, leader) ==
  LET d == [c EXCEPT !.gen = 1, !.lwatid = leader, !.state = "KNOWN"]
  IN  Schedule(d, Appointment(d), "ANL")

Follow(c, ct) ==
  [c EXCEPT !.gen = ct.gen + 1, !.sa = ct.sa, !.lwatid = ct.leader,
            !.state = "KNOWN"]

\* What a sync age leaves of a timer, rounded up.
Remaining(ticks, sa) ==
  LET spent == sa \div SaPerTick IN IF spent < ticks THEN ticks - spent ELSE 0

\* dmo_al(): Accept Leader
Al(c, ct) ==
  IF ct.cto \in {"unaligned_req", "unaligned_term"}
    THEN c
    ELSE [Follow(c, ct) EXCEPT
            !.tmr = Arm(Arm(@, "sync_age", Remaining(SyncAge, ct.sa)),
                        "sync_age_warning", Remaining(SyncAgeWarning, ct.sa))]

\* dmo_tp(): Timing Push
Tp(c, ct) ==
  LET d == Follow(c, ct) IN Schedule(d, Proposal(d), "PROP")

Near(n) == n \in -Tolerance..Tolerance
MultipleOf(sa, own) ==
  own # 0 /\ (Near(sa % own) \/ Near((sa % own) - own))

\* dmo_ic(): Identifier Conflict; id is the identifier drawn at random.
Ic(c, ct, id) ==
  LET d == [c EXCEPT !.id = id] IN
  IF Near(ct.sa - c.sa) THEN c
  ELSE IF MultipleOf(ct.sa, c.sa) THEN Sc(c)
  ELSE IF id > WatidId(ct.leader) THEN d
  ELSE Al(d, ct)

\* Faulty: no beacon follows the first.
LeadSilently(c) == Schedule([c EXCEPT !.gen = 0, !.state = "LEADER"], Beacon(c),
                            "OTHER")

\* The transition of CCE bullet 1 and of dmo_self_promote_to_leader().
Lead(c) ==
  LET d == [c EXCEPT !.gen = 0, !.state = "LEADER",
                     !.tmr = Arm(@, "beacon_interval", BeaconInterval)]
  IN  Schedule(d, Beacon(d), "OTHER")

----------------------------------------------------------------------------
(* dmo_cce(): evaluation by a radio that is not the leader.                *)

Appointed(c, ct) == ct.leader = WatidOf(c) /\ ct.nl

\* Bullet 2: somebody else goes by our WATID.
Collides(c, ct) ==
  ct.leader = WatidOf(c) /\ (~ct.nl \/ ct.sid = c.id)

\* Bullet 3
CceLeaderless(c, ct) ==
  IF ct.leader # Nobody THEN Al(c, ct)
  ELSE IF SourceOf(ct) > WatidOf(c) THEN Anl(c, SourceOf(ct))
  ELSE Schedule(c, Request(c), "OTHER")

\* Bullets 6 and 7
CceBetter(c, ct) ==
  CASE ct.cto = "push"           -> Tp(c, ct)
    [] ct.cto = "unaligned_term" -> Al(c, ct)
    [] OTHER                     -> c

\* Bullet 5
CceWorse(c, ct) ==
  IF ct.sdi <= WatidDi(c.lwatid) THEN Sc(c) ELSE Anl(c, SourceOf(ct))

\* Bullets 8 and 9
CceNearer(c, ct) ==
  IF ct.cto = "push" THEN Tp(c, ct) ELSE [c EXCEPT !.gen = ct.gen + 1]

\* Faulty: whatever is pushed is passed on.
CceKnownCredulous(c, ct) ==
  IF ct.cto = "push" THEN Tp(c, ct) ELSE CceBetter(c, ct)

CceKnown(c, ct) ==
  CASE ct.leader > c.lwatid -> CceBetter(c, ct)
    [] \/ ct.leader < c.lwatid
       \/ ct.leader = c.lwatid /\ ct.sa > c.sa -> CceWorse(c, ct)
    [] ct.leader = c.lwatid /\ ct.sa = c.sa /\ ct.gen < c.gen ->
         CceNearer(c, ct)
    [] OTHER -> c

Cce(c, ct, id) ==
  LET d == IF Collides(c, ct) THEN [c EXCEPT !.id = id] ELSE c IN
  CASE Appointed(c, ct)      -> Lead([c EXCEPT !.sa = ct.sa])
    [] ~Appointed(c, ct) /\ c.lwatid = Nobody -> CceLeaderless(d, ct)
    [] ~Appointed(c, ct) /\ c.lwatid # Nobody -> CceKnown(d, ct)

\* Faulty: corrects and appoints, but never gives in.
LdrStubborn(c, ct, id) ==
  IF ct.leader < WatidOf(c) THEN Sc(c) ELSE c

\* dmo_ldr(): evaluation by the leader.
Ldr(c, ct, id) ==
  LET own == WatidOf(c)
      named == ct.leader # Nobody IN
  CASE \/ named /\ ct.leader < own
       \/ ~named /\ ct.sdi <= c.di -> Sc(c)
    [] \/ named /\ ct.leader > own /\ ct.sdi > WatidDi(ct.leader)
       \/ ~named /\ ct.sdi > c.di -> Anl(c, SourceOf(ct))
    [] ct.leader = own /\ ct.sa # c.sa -> Ic(c, ct, id)
    [] ct.leader > own /\ ct.sdi <= c.di -> Al(c, ct)
    [] OTHER -> c

----------------------------------------------------------------------------
(* dmo_check_pending_tx_interception(): what a CT_CSBK heard means for the *)
(* one pending.                                                            *)

Unaligned(ct) == ct.cto \in {"unaligned_req", "unaligned_term"}

Kept(c, ct) ==
  \/ /\ c.kind = "NOLEADER_REQ"
     /\ ct.leader # Nobody /\ WatidDi(ct.leader) < c.di
  \/ /\ c.kind = "SYNCAGEWARNING_REQ"
     /\ \/ Unaligned(ct)
        \/ ct.leader < c.lwatid
        \/ ct.leader = c.lwatid /\ ct.sa > c.sa
  \/ /\ c.kind = "SC"
     /\ \/ Unaligned(ct)
        \/ ct.leader < (IF c.state = "LEADER" THEN WatidOf(c) ELSE c.lwatid)
  \/ /\ c.kind \in {"ANL", "PROP"}
     /\ ct.leader <= c.lwatid /\ SourceOf(ct) <= c.lwatid
     /\ ~(/\ c.kind = "PROP" /\ ct.leader = c.lwatid
          /\ ct.cto = "push" /\ ct.sa = c.sa)

Cancelled(c, ct) == c.kind \notin {"NONE", "OTHER"} /\ ~Kept(c, ct)

\* dmo_dispatch_rx()
DispatchRx(c, ct, id) ==
  LET heard == [c EXCEPT !.tmr = Disarm(@, "response_wait")]
      d == IF Cancelled(c, ct)
             THEN [Unscheduled(heard) EXCEPT !.tmr = Disarm(@, "ct_rhot")]
             ELSE heard
  IN  IF Kept(c, ct) THEN heard
      ELSE IF c.state = "LEADER" THEN Ldr(d, ct, id) ELSE Cce(d, ct, id)

----------------------------------------------------------------------------
(* Timers and confirmations.                                               *)

NoLeaderReq(c) == Schedule(c, Request(c), "NOLEADER_REQ")

SelfPromote(c) == Lead([c EXCEPT !.sa = 0, !.lwatid = WatidOf(c)])

LoseLeader(c) ==
  [c EXCEPT !.gen = 0, !.sa = 0, !.lwatid = Nobody,
            !.state = "LEADER_UNKNOWN",
            !.tmr = Arm(@, "no_leader", NoLeaderTimer)]

\* Faulty: one attempt more than there may be.
ResponseMissingOnceMore(c) ==
  LET d == [c EXCEPT !.retries = @ + 1] IN
  IF c.retries >= MaxRetries THEN SelfPromote(d) ELSE NoLeaderReq(d)

ResponseMissing(c) ==
  LET d == [c EXCEPT !.retries = @ + 1] IN
  IF d.retries >= MaxRetries THEN SelfPromote(d) ELSE NoLeaderReq(d)

\* The handlers of the timers other than CT_RHOT, c being drained already.
TimerHandler(c, t) ==
  CASE t = "no_leader" /\ c.state \in Leaderless ->
         NoLeaderReq([c EXCEPT !.retries = 0])
    [] t = "response_wait" /\ c.state \in Leaderless -> ResponseMissing(c)
    [] t = "sync_age" /\ c.state = "KNOWN" -> LoseLeader(c)
    [] t = "sync_age_warning" /\ c.state = "KNOWN" ->
         Schedule(c, Refresh(c), "SYNCAGEWARNING_REQ")
    [] t = "beacon_interval" /\ c.state = "LEADER" ->
         LET d == Schedule(c, Beacon(c), "OTHER")
         IN  [d EXCEPT !.tmr = Arm(@, "beacon_interval", BeaconInterval)]
    [] OTHER -> c

\* dmo_handle_tx_conf() for DMR_MAC_TX_OK and for anything else.
Confirmed(c) ==
  [Unscheduled(c) EXCEPT
     !.tmr = IF c.kind = "NOLEADER_REQ" THEN Arm(@, "response_wait", 0)
                                        ELSE @]
RetryAtOnce(c) == c                                    \* Faulty: no holdoff.
Retry(c) == [c EXCEPT !.tmr = Arm(@, "ct_rhot", 0)]

----------------------------------------------------------------------------
(* The worker thread of radio r.                                           *)

Ready(r) ==
  {t \in Timers : ctx[r].tmr[t].kern = "expired"}
    \cup (IF conf[r] # <<>> THEN {"conf"} ELSE {})
    \cup (IF rx[r]   # <<>> THEN {"rx"}   ELSE {})

EpollWait(r) ==
  /\ batch[r] = {} /\ queue[r] = "none"
  /\ \E fds \in SUBSET Ready(r) :
       /\ IF Prompt THEN Cardinality(fds) = 1
                    ELSE fds = Ready(r) /\ fds # {}
       /\ batch' = [batch EXCEPT ![r] = fds]
  /\ UNCHANGED <<ctx, queue, rx, conf, mac, notifying, airVars, histVars>>

\* A new CT_CSBK is pending, or none: nothing of it is lost.
Becomes(r, c) ==
  /\ ctx' = [ctx EXCEPT ![r] = c]
  /\ gone' = [gone EXCEPT ![r] = @ /\ c.submitted /\ c.kind # "NONE"]

ServesTimer(r, t) ==
  /\ queue[r] = "none" /\ t \in batch[r]
  /\ batch' = [batch EXCEPT ![r] = @ \ {t}]

Drained(r, t) == [ctx[r] EXCEPT !.tmr = Drain(@, t)]

TimerReady(r, t) ==
  /\ t # "ct_rhot"
  /\ ServesTimer(r, t)
  /\ Becomes(r, TimerHandler(Drained(r, t), t))
  /\ UNCHANGED <<queue, rx, conf, mac, notifying, airVars, mistaken>>

Unmatched(q) == [i \in DOMAIN q |-> [q[i] EXCEPT !.match = FALSE]]

\* dmo_submit_pending_ct_csbk(): pending_req_id moves to the new request,
\* whether or not the MAC has room for it.
Submit(r, c) ==
  /\ ctx' = [ctx EXCEPT ![r] = [c EXCEPT !.submitted = TRUE]]
  /\ conf' = [conf EXCEPT ![r] = Unmatched(@)]
  /\ notifying' = [notifying EXCEPT ![r].at =
                     CASE @ = "read" -> "clash" [] @ = "clash" -> "past"
                       [] OTHER -> @]
  /\ \/ /\ Len(mac[r]) < MacRoom
        /\ mac' = [mac EXCEPT ![r] =
                      Append(Unmatched(@), [ct |-> c.pending, match |-> TRUE])]
        /\ gone' = [gone EXCEPT ![r] = FALSE]
     \/ /\ Len(mac[r]) = MacRoom
        /\ mac' = [mac EXCEPT ![r] = Unmatched(@)]
        /\ gone' = [gone EXCEPT ![r] = TRUE]

\* dmo_handle_ct_rhot_expiry()
RhotReady(r) ==
  /\ ServesTimer(r, "ct_rhot")
  /\ LET c == Drained(r, "ct_rhot") IN
       \/ /\ c.kind # "NONE"
          /\ Submit(r, c)
       \/ /\ c.kind = "NONE"
          /\ Becomes(r, c)
          /\ UNCHANGED <<conf, mac, notifying>>
  /\ UNCHANGED <<queue, rx, airVars, mistaken>>

Emptying(r, q) ==
  /\ queue[r] \in {"none", q} /\ q \in batch[r]
  /\ queue' = [queue EXCEPT ![r] = q]

\* An unsuccessful attempt is repeated, for two minutes at most.
ConfReady(r) ==
  /\ Emptying(r, "conf") /\ conf[r] # <<>>
  /\ conf' = [conf EXCEPT ![r] = Tail(@)]
  /\ LET c == ctx[r]
         cf == Head(conf[r]) IN
       \/ /\ c.kind # "NONE" /\ cf.match /\ cf.ok
          /\ Becomes(r, Confirmed(c))
          /\ mistaken' = (mistaken \/ ~c.submitted)
       \/ /\ c.kind # "NONE" /\ cf.match /\ ~cf.ok
          /\ Becomes(r, Retry(c)) \/ Becomes(r, Unscheduled(c))
          /\ UNCHANGED mistaken
       \/ ~(c.kind # "NONE" /\ cf.match) /\ UNCHANGED <<ctx, histVars>>
  /\ UNCHANGED <<batch, rx, mac, notifying, airVars>>

RxReady(r) ==
  /\ Emptying(r, "rx") /\ rx[r] # <<>>
  /\ rx' = [rx EXCEPT ![r] = Tail(@)]
  /\ \E id \in Ids : Becomes(r, DispatchRx(ctx[r], Head(rx[r]), id))
  /\ UNCHANGED <<batch, conf, mac, notifying, airVars, mistaken>>

QueueEmpty(r, q, left) ==
  /\ queue[r] = q /\ left = <<>>
  /\ queue' = [queue EXCEPT ![r] = "none"]
  /\ batch' = [batch EXCEPT ![r] = @ \ {q}]
  /\ UNCHANGED <<ctx, rx, conf, mac, notifying, airVars, histVars>>

RadioStep(r) ==
  \/ EpollWait(r) \/ (\E t \in Timers : TimerReady(r, t)) \/ RhotReady(r)
  \/ ConfReady(r) \/ RxReady(r)
  \/ QueueEmpty(r, "conf", conf[r]) \/ QueueEmpty(r, "rx", rx[r])

----------------------------------------------------------------------------
(* Voice and data of the same radio, the kernel, the MAC and the air.      *)

Trouble == trouble < MaxTrouble /\ trouble' = trouble + 1

\* dmr_dmo_notify_tx(): the CT_CSBK after a transmission of another module,
\* built, numbered and sent without state_mutex.  Between its reading and its
\* writing tx_req_id_next, a submission takes the same number.
Terminator(c, busy) ==
  Naming(c, c.lwatid, 0,
         IF c.lwatid = Nobody THEN "unaligned_req"
           ELSE IF busy THEN "unaligned_term" ELSE "status")

NotifyBegin(r) ==
  /\ r \in Talkers /\ notifying[r] = Idle /\ Trouble
  /\ \E busy \in BOOLEAN :
       notifying' = [notifying EXCEPT ![r] =
                       [at |-> "read", ct |-> Terminator(ctx[r], busy)]]
  /\ UNCHANGED <<ctx, loopVars, rx, conf, mac, inRange, histVars>>

NotifyEnd(r) ==
  /\ notifying[r] # Idle
  /\ notifying' = [notifying EXCEPT ![r] = Idle]
  /\ IF Len(mac[r]) < MacRoom
       THEN mac' = [mac EXCEPT ![r] =
                      Append(@, [ct |-> notifying[r].ct,
                                 match |-> notifying[r].at = "clash"])]
       ELSE UNCHANGED mac
  /\ UNCHANGED <<ctx, loopVars, rx, conf, airVars, histVars>>

\* Nothing is pending, being sent, received, reported or decided anywhere.
Settled ==
  \A r \in Radios :
    /\ ctx[r].tmr["ct_rhot"].kern = "off"
    /\ batch[r] = {} /\ Ready(r) = {} /\ mac[r] = <<>>
    /\ notifying[r] = Idle

Expire(r, t) ==
  /\ Due(ctx[r].tmr, t)
  /\ Patient /\ t = "response_wait" => Settled
  /\ ctx' = [ctx EXCEPT ![r].tmr = Expired(@, t)]
  /\ UNCHANGED <<loopVars, rx, conf, mac, notifying, airVars, histVars>>

\* The kernel counts down what runs.
CountedDown(tm) ==
  [t \in Timers |->
     IF tm[t].kern = "running" THEN [tm[t] EXCEPT !.left = @ - 1] ELSE tm[t]]

\* Minutes pass, between exchanges that take seconds.
Tick ==
  /\ Settled
  /\ \A r \in Radios, t \in Timers : ~Due(ctx[r].tmr, t)
  /\ \E r \in Radios, t \in Timers : ctx[r].tmr[t].kern = "running"
  /\ ctx' = [r \in Radios |-> [ctx[r] EXCEPT !.tmr = CountedDown(@)]]
  /\ UNCHANGED <<loopVars, rx, conf, mac, notifying, airVars, histVars>>

\* The answer to the first request, or its disappearance.
MacDone(r, ok) ==
  /\ mac' = [mac EXCEPT ![r] = Tail(@)]
  /\ \/ /\ Len(conf[r]) < QDepth
        /\ conf' = [conf EXCEPT ![r] =
                       Append(@, [ok |-> ok, match |-> Head(mac[r]).match])]
        /\ UNCHANGED gone
     \/ /\ Len(conf[r]) = QDepth
        /\ gone' = [gone EXCEPT ![r] = @ \/ Head(mac[r]).match]
        /\ UNCHANGED conf

Deliver(ct, hearers) ==
  rx' = [r \in Radios |->
           IF r \in hearers /\ Len(rx[r]) < QDepth THEN Append(rx[r], ct)
                                                  ELSE rx[r]]

Others(r) == IF inRange THEN Radios \ {r} ELSE {}

\* A burst takes longer than a thread needs to serve what has come.
KeptUp == \A r \in Radios : batch[r] = {} /\ rx[r] = <<>> /\ conf[r] = <<>>

MacAirs(r) ==
  /\ mac[r] # <<>> /\ (Prompt => KeptUp)
  /\ MacDone(r, TRUE)
  /\ Deliver(Head(mac[r]).ct, Others(r))
  /\ UNCHANGED <<ctx, loopVars, notifying, airVars, mistaken>>

AirLoses(r) ==
  /\ mac[r] # <<>> /\ Trouble
  /\ MacDone(r, TRUE)
  /\ \E hearers \in SUBSET Others(r) :
       hearers # Others(r) /\ Deliver(Head(mac[r]).ct, hearers)
  /\ UNCHANGED <<ctx, loopVars, notifying, inRange, mistaken>>

MacRefuses(r) ==
  /\ mac[r] # <<>> /\ Trouble
  /\ MacDone(r, FALSE)
  /\ UNCHANGED <<ctx, loopVars, rx, notifying, inRange, mistaken>>

\* A later request takes the place of the first, this module's or another's.
MacForgets(r) ==
  /\ mac[r] # <<>>
  /\ IF Len(mac[r]) > 1 THEN UNCHANGED trouble ELSE Trouble
  /\ mac' = [mac EXCEPT ![r] = Tail(@)]
  /\ gone' = [gone EXCEPT ![r] = @ \/ Head(mac[r]).match]
  /\ UNCHANGED <<ctx, loopVars, rx, conf, notifying, inRange, mistaken>>

\* A radio of another make is heard by some.
ForeignAirs ==
  /\ Trouble
  /\ \E ct \in Foreign, hearers \in (SUBSET Radios) \ {{}} :
       Deliver(ct, hearers)
  /\ UNCHANGED <<ctx, loopVars, conf, mac, notifying, inRange, histVars>>

\* The radios come within range of each other.
Meet ==
  /\ ~inRange
  /\ inRange' = TRUE
  /\ UNCHANGED <<ctx, loopVars, rx, conf, mac, notifying, trouble, histVars>>

----------------------------------------------------------------------------
\* dmr_dmo_init() and dmr_dmo_start()
InitialContext(r) ==
  [state |-> "TIMING_UNKNOWN", di |-> Di[r], id |-> FirstId[r],
   lwatid |-> Nobody, gen |-> 0, sa |-> 0, kind |-> "NONE",
   pending |-> NoCsbk, submitted |-> FALSE,
   retries |-> 0,
   tmr |-> Arm([t \in Timers |-> Off], "no_leader", NoLeaderTimer)]

Init ==
  /\ ctx = [r \in Radios |-> InitialContext(r)]
  /\ batch = [r \in Radios |-> {}] /\ queue = [r \in Radios |-> "none"]
  /\ rx = [r \in Radios |-> <<>>]
  /\ conf = [r \in Radios |-> <<>>] /\ mac = [r \in Radios |-> <<>>]
  /\ notifying = [r \in Radios |-> Idle]
  /\ inRange = FALSE /\ trouble = 0
  /\ gone = [r \in Radios |-> FALSE] /\ mistaken = FALSE

Next ==
  \/ \E r \in Radios :
       \/ RadioStep(r)
       \/ NotifyBegin(r) \/ NotifyEnd(r)
       \/ \E t \in Timers : Expire(r, t)
       \/ MacAirs(r) \/ AirLoses(r) \/ MacRefuses(r) \/ MacForgets(r)
  \/ Tick \/ ForeignAirs \/ Meet

\* What can be done without the time passing gets done, time passes, and the
\* radios meet in the end.
Work == \E r \in Radios :
  RadioStep(r) \/ MacAirs(r) \/ NotifyEnd(r) \/ \E t \in Timers : Expire(r, t)
Fairness == WF_vars(Work) /\ WF_vars(Tick) /\ WF_vars(Meet)

Spec     == Init /\ [][Next]_vars
LiveSpec == Spec /\ Fairness

----------------------------------------------------------------------------
(* Properties.                                                             *)

\* The context has its type; in particular the generation fits its byte.
TypeOK ==
  /\ \A r \in Radios :
       LET c == ctx[r] IN
         /\ c.state \in States /\ c.di = Di[r] /\ c.id \in Ids
         /\ c.lwatid \in Watids /\ c.gen \in 0..GenSpace /\ c.sa \in Nat
         /\ c.kind \in Kinds /\ c.submitted \in BOOLEAN
         /\ c.retries \in 0..MaxRetries
         /\ DOMAIN c.tmr = Timers
         /\ batch[r] \subseteq Timers \cup {"conf", "rx"}
         /\ Len(rx[r]) <= QDepth /\ Len(conf[r]) <= QDepth
         /\ Len(mac[r]) <= MacRoom

Live(r, t) == ctx[r].tmr[t].kern # "off"

\* The leader always has its next beacon coming.
LeaderBeacons ==
  \A r \in Radios : ctx[r].state = "LEADER" => Live(r, "beacon_interval")

HasMatch(q) == \E i \in DOMAIN q : q[i].match

\* A pending CT_CSBK is always on its way: held off, with the MAC, being
\* confirmed, or lost on the way.
PendingOnItsWay ==
  \A r \in Radios :
    ctx[r].kind # "NONE" =>
      \/ Live(r, "ct_rhot")
      \/ HasMatch(mac[r]) \/ HasMatch(conf[r])
      \/ gone[r]

LeaderOf(c) == IF c.state = "LEADER" THEN WatidOf(c) ELSE c.lwatid

\* Whoever follows a leader, or leads, begins to follow another only if
\* that one outranks the first.
OnlyBetterLeader ==
  [][\A r \in Radios :
       LET c == ctx[r]  d == ctx'[r] IN
         /\ c.state \in {"KNOWN", "LEADER"} /\ d.state = "KNOWN"
         /\ d.lwatid # LeaderOf(c)
         => d.lwatid > LeaderOf(c)]_vars

\* A confirmation completes the pending CT_CSBK only if that CT_CSBK was
\* handed to the MAC. The code refutes it: README, section 7.
ConfirmedWasSubmitted ==
  [][\A r \in Radios :
       /\ conf'[r] # conf[r] /\ conf[r] # <<>> /\ conf'[r] = Tail(conf[r])
       /\ ctx[r].kind # "NONE" /\ ctx'[r].kind = "NONE"
       => ctx[r].submitted]_vars

Leaders == {r \in Radios : ctx[r].state = "LEADER"}

\* Radios that come within range of each other have one leader at most in the
\* end, whatever they were before and whatever was lost.
OneLeader == <>[](Cardinality(Leaders) <= 1)

\* Left to themselves, the radios follow the same leader again and again.
Agreement ==
  []<>(\/ \E l \in Leaders : \A r \in Radios \ {l} :
            ctx[r].state = "KNOWN" /\ ctx[r].lwatid = WatidOf(ctx[l])
       \/ trouble > 0 \/ mistaken)
=============================================================================
