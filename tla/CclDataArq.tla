----------------------------- MODULE CclDataArq -----------------------------
(***************************************************************************)
(* Packet and short data with acknowledgement and selective retry          *)
(* (dmr_ccl_data.c) between radios on one channel.  Each radio sends at    *)
(* most one message and reassembles at most one; both share one state      *)
(* variable.  A worker thread takes MAC confirmations, received bursts and *)
(* two one-shot timers; the application submits under the same mutex.      *)
(*                                                                         *)
(* A handler is an operator from a context to the next.  It submits at     *)
(* most one burst, under request identifier id, or id = NoId when the      *)
(* queue to the MAC refuses it, and leaves it in out.                      *)
(*                                                                         *)
(* A block carries the number and the last-block flag that its receiver    *)
(* reads.  These are not the ones its sender gave it: the payload is       *)
(* copied over them (llc_csbk.c:852), so both depend on the message.       *)
(***************************************************************************)
EXTENDS Sequences, FiniteSets, OneShotTimer

CONSTANTS
  Radios,
  Messages,
  Msg,          \* Msg[m]: sender, destination, kind and blocks of a message
  MaxRetries,   \* CCL_DATA_MAX_RETRIES
  Half,         \* 64: blocks a C_RDATA burst reports on
  AbSpace,      \* 2^6: the block count of a short data header
  MacRoom,      \* requests the MAC can hold
  QDepth,       \* DMR_MQ_MAX_MSGS
  Spaced,       \* do the applications send only when all is quiet, and what
                \* was left half-way has been forgotten (T_RX_STALL)?
  MaxTrouble    \* bound: bursts lost, refused or forgotten, timers that
                \* expire while bursts are on their way

\* sap, SARQ and the block count decide how a header is taken; blocks[i] is
\* what the receiver reads in block i - 1; fits says that the blocks announced
\* take no more than CCL_DATA_MAX_PAYLOAD octets, as none do.
Lead == [last : BOOLEAN, no : 0..127]
ASSUME MsgAssumption ==
  \A m \in Messages :
    /\ Msg[m].from \in Radios /\ Msg[m].to \in Radios \ {Msg[m].from}
    /\ Msg[m].kind \in {"IP", "DEFINED", "RAW", "STATUS_PRECODED"}
    /\ Msg[m].confirmed \in BOOLEAN /\ Msg[m].fits \in BOOLEAN
    /\ Msg[m].blocks \in Seq(Lead)
    /\ Msg[m].kind = "STATUS_PRECODED" <=> Msg[m].blocks = <<>>
    /\ Msg[m].blocks = <<>> => Msg[m].fits
ASSUME DataBounds ==
  /\ MaxRetries \in Nat /\ Half \in Nat \ {0} /\ AbSpace \in Nat \ {0}
  /\ MacRoom \in Nat \ {0} /\ QDepth \in Nat \ {0} /\ MaxTrouble \in Nat
  /\ Spaced \in BOOLEAN

States == {"IDLE", "TX_BURST_PENDING", "TX_WAIT_ACK", "RX_REASSEMBLE",
           "TX_WAIT_SACK_DATA"}
Phases == {"PREAMBLE", "HEADER", "BLOCKS", "DONE"}
Timers == {"response", "rx_stall"}
Fds    == Timers \union {"conf", "rx"}

VARIABLES
  ctx,      \* the context of each radio
  batch,    \* the rest of its epoll snapshot
  mac,      \* requests its MAC has not dealt with
  conf,     \* mq_mac_conf
  heard,    \* mq_mac_rx
  trouble   \* what MaxTrouble counts

vars == <<ctx, batch, mac, conf, heard, trouble>>

----------------------------------------------------------------------------
(* Messages and bursts.                                                    *)

NBlocks(m)   == Len(Msg[m].blocks)
Confirmed(m) == Msg[m].confirmed
Short(m)     == Msg[m].kind # "IP"

\* Short data headers have six bits for the count, the others enough.
Announced(m) == IF Short(m) THEN NBlocks(m) % AbSpace ELSE NBlocks(m)

\* Blocks of a message that one bitmap or two report on.
InHalf(m, half) ==
  {i \in 0..(Announced(m) - 1) : i \div Half = half}
Bitmaps(m) == IF Announced(m) > Half THEN 2 ELSE 1

Silent           == [kind |-> "none"]
Preamble         == [kind |-> "preamble"]
Header(m, full)  == [kind |-> "header", msg |-> m, full |-> full]
Block(m, i)      == [kind |-> "block", lead |-> Msg[m].blocks[i + 1]]
Rdata(zeros)     == [kind |-> "rdata", zeros |-> zeros]
Response(m, class, follow) ==
  [kind |-> "response", to |-> Msg[m].from, class |-> class,
   follow |-> follow]

Classes == {"ACK", "NACK", "SACK"}
Bursts ==
  {Silent, Preamble}
    \union [kind : {"header"}, msg : Messages, full : BOOLEAN]
    \union [kind : {"block"}, lead : Lead]
    \union [kind : {"rdata"}, zeros : SUBSET (0..(Half - 1))]
    \union [kind : {"response"}, to : Radios, class : Classes, follow : 0..2]

\* A bitmap taken for a block: its first octet reports on blocks 0 to 7.
LeadOf(burst) ==
  LET One(i) == IF i \in burst.zeros THEN 0 ELSE 1
  IN  IF burst.kind = "block" THEN burst.lead
      ELSE [last |-> One(0) = 1,
            no |-> 64 * One(1) + 32 * One(2) + 16 * One(3) + 8 * One(4)
                     + 4 * One(5) + 2 * One(6) + One(7)]

NoTx   == [active |-> FALSE]
NoRx   == [active |-> FALSE]
NoId   == 0
NoSack == [phase |-> 0, id |-> NoId]    \* sack_tx_active is FALSE
MaxId  == MacRoom + QDepth + 3

Transfer(m) ==
  [active |-> TRUE, msg |-> m, phase |-> "PREAMBLE", idx |-> 0, tries |-> 0,
   list |-> <<>>, id |-> NoId, follow |-> 0, maps |-> <<>>]
Reassembly(m) ==
  [active |-> TRUE, msg |-> m, seen |-> {}, failed |-> ~Msg[m].fits,
   sack |-> NoSack]

----------------------------------------------------------------------------
(* Sending a message.                                                      *)

\* ccl_data_tx_next_burst(): the message's blocks in order, or those listed.
SeqLen(tx) == IF tx.list = <<>> THEN NBlocks(tx.msg) ELSE Len(tx.list)
TxBurst(tx) ==
  CASE tx.phase = "PREAMBLE" -> Preamble
    [] tx.phase = "HEADER"   -> Header(tx.msg, tx.list = <<>>)
    [] tx.phase = "BLOCKS"   ->
         Block(tx.msg, IF tx.list = <<>> THEN tx.idx ELSE tx.list[tx.idx + 1])
TxNextBurst(c, id) == [c EXCEPT !.out = TxBurst(c.tx), !.tx.id = id]

\* ccl_data_tx_finish()
TxFinish(c, success) ==
  [c EXCEPT !.told[c.tx.msg] = IF success THEN "ok" ELSE "failed",
            !.tx = NoTx, !.state = "IDLE", !.tmr = Disarm(@, "response")]

\* The part ccl_data_tx_retry() and ccl_data_tx_retry_selective() share.
TxRestartUnbounded(c, list, id) ==              \* Faulty: retries one too often.
  IF c.tx.tries > MaxRetries \/ id = NoId THEN TxFinish(c, FALSE)
  ELSE [TxNextBurst([c EXCEPT !.tx.tries = @ + 1, !.tx.list = list,
                              !.tx.phase = "PREAMBLE", !.tx.idx = 0], id)
          EXCEPT !.state = "TX_BURST_PENDING"]
TxRestart(c, list, id) ==
  IF c.tx.tries >= MaxRetries \/ id = NoId THEN TxFinish(c, FALSE)
  ELSE [TxNextBurst([c EXCEPT !.tx.tries = @ + 1, !.tx.list = list,
                              !.tx.phase = "PREAMBLE", !.tx.idx = 0], id)
          EXCEPT !.state = "TX_BURST_PENDING"]

\* A retry after a failure in a selective retry repeats the listed blocks.
TxRetry(c, id) ==
  TxRestart([c EXCEPT !.tmr = Disarm(@, "response")], c.tx.list, id)

\* ccl_data_tx_common(), ccl_data_tx_short_common()
Submit(c, m, id) ==
  TxNextBurst([c EXCEPT !.tx = Transfer(m), !.told[m] = "sending",
                        !.state = "TX_BURST_PENDING"], id)

Advance(c, phase, idx, id) ==
  LET d == [c EXCEPT !.tx.phase = phase, !.tx.idx = idx]
  IN  IF id = NoId THEN TxFinish(d, FALSE) ELSE TxNextBurst(d, id)

\* The last burst of a sequence is confirmed.
SequenceSentUnwatched(c) ==                          \* Faulty: no T_Response.
  IF Confirmed(c.tx.msg)
    THEN [c EXCEPT !.tx.phase = "DONE", !.tx.list = <<>>,
                   !.state = "TX_WAIT_ACK"]
    ELSE TxFinish(c, TRUE)
SequenceSent(c) ==
  IF Confirmed(c.tx.msg)
    THEN [c EXCEPT !.tx.phase = "DONE", !.tx.list = <<>>,
                   !.state = "TX_WAIT_ACK", !.tmr = Arm(@, "response", 0)]
    ELSE TxFinish(c, TRUE)

\* ccl_data_handle_sack_tx_conf(): the bursts of our own SACK, in turn.
OwnSack(c, cf) ==
  c.rx.active /\ c.rx.sack # NoSack /\ cf.id = c.rx.sack.id
HandleSackTxConf(c, cf, id) ==
  LET rx == c.rx
      missing == InHalf(rx.msg, rx.sack.phase) \ rx.seen
  IN  IF ~cf.ok \/ rx.sack.phase >= Bitmaps(rx.msg) \/ id = NoId
        THEN [c EXCEPT !.rx.sack = NoSack]
        ELSE [c EXCEPT !.rx.sack = [phase |-> rx.sack.phase + 1, id |-> id],
                       !.out = Rdata({i % Half : i \in missing})]

\* ccl_data_handle_tx_conf()
HandleTxConf(c, cf, id) ==
  LET tx == c.tx
  IN  CASE OwnSack(c, cf) -> HandleSackTxConf(c, cf, id)
        [] ~OwnSack(c, cf) /\ (~tx.active \/ cf.id # tx.id) -> c
        [] OTHER ->
             IF ~cf.ok
               THEN IF Confirmed(tx.msg) THEN TxRetry(c, id)
                                         ELSE TxFinish(c, FALSE)
               ELSE CASE tx.phase = "PREAMBLE" -> Advance(c, "HEADER", 0, id)
                      [] tx.phase = "HEADER" /\ NBlocks(tx.msg) = 0 ->
                           SequenceSent(c)
                      [] tx.phase = "HEADER" /\ NBlocks(tx.msg) > 0 ->
                           Advance(c, "BLOCKS", 0, id)
                      [] tx.phase = "BLOCKS" ->
                           IF tx.idx + 1 = SeqLen(tx)
                             THEN SequenceSent(c)
                             ELSE Advance(c, "BLOCKS", tx.idx + 1, id)
                      [] tx.phase = "DONE" -> c

\* ccl_data_handle_response_timeout()
ResponseTimeoutNoSack(c, id) ==            \* Faulty: bitmaps may stay away.
  IF c.tx.active /\ Confirmed(c.tx.msg) /\ c.state = "TX_WAIT_ACK"
    THEN TxRetry(c, id) ELSE c
ResponseTimeout(c, id) ==
  IF /\ c.tx.active /\ Confirmed(c.tx.msg)
     /\ c.state \in {"TX_WAIT_ACK", "TX_WAIT_SACK_DATA"}
    THEN TxRetry(c, id) ELSE c

\* ccl_data_rx_response(): whoever it comes from, whatever it answers.
RxResponseAny(c, burst, r, id) ==               \* Faulty: a NACK is an ACK.
  IF ~c.tx.active \/ c.state # "TX_WAIT_ACK" \/ burst.to # r THEN c
  ELSE TxFinish(c, TRUE)
RxResponseSwapped(c, burst, r, id) ==              \* Faulty: classes swapped.
  IF ~c.tx.active \/ c.state # "TX_WAIT_ACK" \/ burst.to # r THEN c
  ELSE IF burst.class = "NACK" THEN TxFinish(c, TRUE) ELSE TxRetry(c, id)
RxResponse(c, burst, r, id) ==
  IF \/ ~c.tx.active \/ c.state # "TX_WAIT_ACK" \/ burst.to # r
     \/ ~Confirmed(c.tx.msg)
    THEN c
  ELSE CASE burst.class = "ACK"  -> TxFinish(c, TRUE)
         [] burst.class = "NACK" -> TxRetry(c, id)
         [] burst.class = "SACK" ->
              [c EXCEPT !.tx.follow = burst.follow, !.tx.maps = <<>>,
                        !.state = "TX_WAIT_SACK_DATA",
                        !.tmr = Arm(@, "response", 0)]

\* ccl_data_rx_sack_data(): the zeros of the bitmaps, in order of arrival.
Missing(tx, maps) ==
  {i \in 0..(NBlocks(tx.msg) - 1) :
     i \div Half >= Len(maps) \/ i % Half \in maps[i \div Half + 1]}
Ascending(blocks) ==
  CHOOSE list \in [1..Cardinality(blocks) -> blocks] :
    \A i, j \in DOMAIN list : i < j => list[i] < list[j]
RxSackData(c, zeros, id) ==
  LET maps == Append(c.tx.maps, zeros)
      missing == Missing(c.tx, maps)
      list == Ascending(missing)
  IN  IF Len(maps) < c.tx.follow THEN [c EXCEPT !.tx.maps = maps]
      ELSE IF missing = {} THEN TxFinish(c, TRUE)
      ELSE TxRestart([c EXCEPT !.tx.maps = maps], list, id)

----------------------------------------------------------------------------
(* Receiving a message.                                                    *)

\* ccl_data_send_response(): nothing remembers that it was refused.
Respond(c, m, class, id) ==
  IF id = NoId THEN c ELSE [c EXCEPT !.out = Response(m, class, 0)]

\* ccl_data_send_sack()
SendSack(c, id) ==
  IF id = NoId THEN [c EXCEPT !.rx.sack = NoSack]
  ELSE [c EXCEPT !.rx.sack = [phase |-> 0, id |-> id],
                 !.out = Response(c.rx.msg, "SACK", Bitmaps(c.rx.msg))]

Deliver(c, m) == [c EXCEPT !.copies[m] = @ + 1]

\* The reassembly is over, with a response if one is wanted.
RxConclude(c, delivers, id) ==
  LET m == c.rx.msg
      d == IF delivers THEN Deliver(c, m) ELSE c
      e == [d EXCEPT !.rx = NoRx, !.state = "IDLE"]
  IN  IF Confirmed(m)
        THEN Respond(e, m, IF c.rx.failed THEN "NACK" ELSE "ACK", id)
        ELSE e

\* ccl_data_rx_start(), ccl_data_rx_short_start(): SARQ continues with what
\* it has; no header is for another radio, or known already.
Continues(c, burst) ==
  LET m == burst.msg
      was == c.rx.msg
  IN  /\ ~burst.full /\ c.rx.active /\ Confirmed(was)
      /\ Msg[m].from = Msg[was].from /\ Msg[m].to = Msg[was].to
      /\ Short(m) <=> Short(was)                        \* the same SAP
      /\ Announced(m) > 0 \/ Msg[m].kind \in {"IP", "DEFINED"}
RxStart(c, burst, id) ==
  LET m == burst.msg
      d == [c EXCEPT !.rx = Reassembly(m)]
  IN  CASE Continues(c, burst) -> [c EXCEPT !.tmr = Arm(@, "rx_stall", 0)]
        [] ~Continues(c, burst) /\ Announced(m) = 0 ->
             RxConclude(d, TRUE, id)
        [] OTHER ->
             [d EXCEPT !.state = "RX_REASSEMBLE",
                       !.tmr = Arm(@, "rx_stall", 0)]

\* ccl_data_rx_block(): a number out of range spoils the message.
Accumulate(rx, lead) ==
  IF lead.no < Announced(rx.msg) THEN [rx EXCEPT !.seen = @ \union {lead.no}]
                                 ELSE [rx EXCEPT !.failed = TRUE]
RxBlock(c, lead, id) ==
  LET d == [c EXCEPT !.rx = Accumulate(@, lead),
                     !.tmr = Arm(@, "rx_stall", 0)]
      whole == Cardinality(d.rx.seen) >= Announced(d.rx.msg)
      sacks == ~whole /\ ~d.rx.failed /\ Confirmed(d.rx.msg)
  IN  CASE ~c.rx.active -> c
        [] c.rx.active /\ ~lead.last /\ ~whole -> d
        [] c.rx.active /\ (lead.last \/ whole) /\ sacks -> SendSack(d, id)
        [] OTHER ->
             RxConclude([d EXCEPT !.tmr = Disarm(@, "rx_stall")],
                        whole /\ ~d.rx.failed, id)

\* ccl_data_handle_rx_stall_timeout()
RxStallTimeout(c) ==
  IF c.rx.active /\ c.state = "RX_REASSEMBLE"
    THEN [c EXCEPT !.rx = NoRx, !.state = "IDLE"] ELSE c

\* ccl_data_rx_burst(), for the zeros read if it is taken for a bitmap.  The
\* MAC keeps what it cannot decode to itself (mac_channel_access.c:917).
AwaitsBitmap(c, burst) ==
  burst.kind \in {"block", "rdata"} /\ c.state = "TX_WAIT_SACK_DATA"
RxBurst(c, burst, zeros, r, id) ==
  CASE burst.kind = "header"   -> RxStart(c, burst, id)
    [] burst.kind = "response" -> RxResponse(c, burst, r, id)
    [] AwaitsBitmap(c, burst)  -> RxSackData(c, zeros, id)
    [] OTHER                   -> RxBlock(c, LeadOf(burst), id)

\* What octets 0 to 7 or 15 of a block say of our blocks if it is taken for a
\* bitmap depends on its payload.
Zeros(c, burst) ==
  CASE burst.kind = "rdata" -> {burst.zeros}
    [] burst.kind = "block" /\ AwaitsBitmap(c, burst) ->
         SUBSET {i % Half : i \in 0..(NBlocks(c.tx.msg) - 1)}
    [] OTHER -> {{}}

----------------------------------------------------------------------------
(* Steps.                                                                  *)

Trouble == trouble < MaxTrouble /\ trouble' = trouble + 1

Others(r) == Radios \ {r}

\* tx_req_id_next++: an identifier nobody waits for or is about to confirm.
FreshId(r) ==
  LET c == ctx[r]
      waited == (IF c.tx.active THEN {c.tx.id} ELSE {})
                  \union (IF c.rx.active THEN {c.rx.sack.id} ELSE {})
      used == {mac[r][i].id : i \in DOMAIN mac[r]}
                \union {conf[r][i].id : i \in DOMAIN conf[r]}
  IN  CHOOSE n \in 1..MaxId : n \notin waited \union used

\* A handler runs, and leaves the context after[id]; mac_tx_enqueue() takes its
\* burst, or refuses it because the queue is full, perhaps of other modules'
\* requests.
Ids(r) == {NoId, FreshId(r)}
Runs(r, after) ==
  LET id == FreshId(r)
      d  == after[id]
  IN  \/ /\ d.out = Silent
         /\ ctx' = [ctx EXCEPT ![r] = d]
         /\ UNCHANGED <<mac, trouble>>
      \/ /\ d.out # Silent /\ Len(mac[r]) < MacRoom
         /\ ctx' = [ctx EXCEPT ![r] = [d EXCEPT !.out = Silent]]
         /\ mac' = [mac EXCEPT ![r] = Append(@, [id |-> id, burst |-> d.out])]
         /\ UNCHANGED trouble
      \/ /\ d.out # Silent
         /\ IF Len(mac[r]) = MacRoom THEN UNCHANGED trouble ELSE Trouble
         /\ ctx' = [ctx EXCEPT ![r] = after[NoId]]
         /\ UNCHANGED mac

\* epoll_wait() returns when something is ready, and then all that is.
Ready(r) ==
  {t \in Timers : ctx[r].tmr[t].kern = "expired"}
    \union (IF conf[r] # <<>> THEN {"conf"} ELSE {})
    \union (IF heard[r] # <<>> THEN {"rx"} ELSE {})
Batch(r) == IF batch[r] = {} THEN Ready(r) ELSE batch[r]

\* A queue is read until it is empty.
Served(r, fd, queue) ==
  batch' = [batch EXCEPT ![r] = IF Len(queue) > 1 THEN Batch(r)
                                                  ELSE Batch(r) \ {fd}]

ConfReady(r) ==
  /\ "conf" \in Batch(r)
  /\ Runs(r, [id \in Ids(r) |-> HandleTxConf(ctx[r], Head(conf[r]), id)])
  /\ conf' = [conf EXCEPT ![r] = Tail(@)]
  /\ Served(r, "conf", conf[r])
  /\ UNCHANGED heard

RxReady(r) ==
  /\ "rx" \in Batch(r)
  /\ \E zeros \in Zeros(ctx[r], Head(heard[r])) :
       Runs(r, [id \in Ids(r) |->
                 RxBurst(ctx[r], Head(heard[r]), zeros, r, id)])
  /\ heard' = [heard EXCEPT ![r] = Tail(@)]
  /\ Served(r, "rx", heard[r])
  /\ UNCHANGED conf

\* The expiry is read, if it is still there, before the handler looks.
TimerReady(r, t) ==
  LET c == [ctx[r] EXCEPT !.tmr = Drain(@, t)]
  IN  /\ t \in Batch(r)
      /\ Runs(r, [id \in Ids(r) |->
                    IF t = "response" THEN ResponseTimeout(c, id)
                                      ELSE RxStallTimeout(c)])
      /\ Served(r, t, <<>>)
      /\ UNCHANGED <<conf, heard>>

\* A thread has served what is ready before the next burst is on the air.
\* Quiet: nothing is under way, and a timer that expires now is not early.
KeptUp == \A r \in Radios : batch[r] = {} /\ conf[r] = <<>> /\ heard[r] = <<>>
Quiet  == KeptUp /\ \A r \in Radios : mac[r] = <<>>

\* The application: refused while a transfer is active, or if the preamble
\* cannot be queued; then nothing changes.  Nothing asks about rx.
Send(r, m) ==
  /\ Msg[m].from = r /\ ctx[r].told[m] = "new"
  /\ ~ctx[r].tx.active
  /\ Len(mac[r]) < MacRoom
  /\ Spaced => Quiet /\ ~ctx[Msg[m].to].rx.active
  /\ LET id == FreshId(r)
         d  == Submit(ctx[r], m, id)
     IN  /\ ctx' = [ctx EXCEPT ![r] = [d EXCEPT !.out = Silent]]
         /\ mac' = [mac EXCEPT ![r] = Append(@, [id |-> id, burst |-> d.out])]
  /\ UNCHANGED <<batch, conf, heard, trouble>>

Expire(r, t) ==
  /\ Due(ctx[r].tmr, t)
  /\ IF Quiet THEN UNCHANGED trouble ELSE Trouble
  /\ ctx' = [ctx EXCEPT ![r].tmr = Expired(@, t)]
  /\ UNCHANGED <<batch, mac, conf, heard>>

\* The MAC is done with the oldest request.  A full queue loses a message;
\* preambles have no effect on the radios that hear them.
Push(queue, x) == IF Len(queue) < QDepth THEN Append(queue, x) ELSE queue
MacDone(r, ok) ==
  /\ mac' = [mac EXCEPT ![r] = Tail(@)]
  /\ conf' = [conf EXCEPT ![r] = Push(@, [id |-> Head(mac[r]).id, ok |-> ok])]
Heard(r, hearers) ==
  heard' = [q \in Radios |->
              IF q \in hearers /\ Head(mac[r]).burst # Preamble
                THEN Push(heard[q], Head(mac[r]).burst) ELSE heard[q]]

MacAirs(r) ==
  /\ mac[r] # <<>> /\ KeptUp
  /\ MacDone(r, TRUE)
  /\ Heard(r, Others(r))
  /\ UNCHANGED <<ctx, batch, trouble>>

AirLoses(r) ==
  /\ mac[r] # <<>> /\ KeptUp /\ Trouble
  /\ MacDone(r, TRUE)
  /\ \E hearers \in (SUBSET Others(r)) \ {Others(r)} : Heard(r, hearers)
  /\ UNCHANGED <<ctx, batch>>

MacRefuses(r) ==
  /\ mac[r] # <<>> /\ KeptUp /\ Trouble
  /\ MacDone(r, FALSE)
  /\ UNCHANGED <<ctx, batch, heard>>

\* A later request of this module takes the place of the first.
MacForgets(r) ==
  /\ Len(mac[r]) > 1 /\ Trouble
  /\ mac' = [mac EXCEPT ![r] = Tail(@)]
  /\ UNCHANGED <<ctx, batch, conf, heard>>

----------------------------------------------------------------------------
\* ccl_data_init() and ccl_data_start()
InitialContext ==
  [state |-> "IDLE", tx |-> NoTx, rx |-> NoRx,
   tmr |-> [t \in Timers |-> Off], out |-> Silent,
   told |-> [m \in Messages |-> "new"], copies |-> [m \in Messages |-> 0]]

Init ==
  /\ ctx = [r \in Radios |-> InitialContext]
  /\ batch = [r \in Radios |-> {}]
  /\ mac = [r \in Radios |-> <<>>] /\ conf = [r \in Radios |-> <<>>]
  /\ heard = [r \in Radios |-> <<>>]
  /\ trouble = 0

Worker(r) ==
  ConfReady(r) \/ RxReady(r) \/ \E t \in Timers : TimerReady(r, t)

Next ==
  \E r \in Radios :
    \/ Worker(r)
    \/ \E m \in Messages : Send(r, m)
    \/ \E t \in Timers : Expire(r, t)
    \/ MacAirs(r) \/ AirLoses(r) \/ MacRefuses(r) \/ MacForgets(r)

Spec == Init /\ [][Next]_vars

\* The threads run, the MAC answers what it holds, the timers expire; the
\* application need not send.
LiveSpec ==
  /\ Spec
  /\ \A r \in Radios :
       /\ WF_vars(Worker(r))
       /\ WF_vars(MacAirs(r))
       /\ \A t \in Timers : WF_vars(Expire(r, t))

----------------------------------------------------------------------------
(* Properties.                                                             *)

Requests == [id : 1..MaxId, burst : Bursts \ {Silent}]
Confs    == [id : 1..MaxId, ok : BOOLEAN]

TransferOK(tx) ==
  \/ tx = NoTx
  \/ /\ tx.msg \in Messages /\ tx.phase \in Phases /\ tx.id \in 1..MaxId
     /\ tx.tries \in 0..MaxRetries
     /\ \A i \in DOMAIN tx.list : tx.list[i] \in 0..(NBlocks(tx.msg) - 1)
     /\ tx.phase = "BLOCKS" => tx.idx \in 0..(SeqLen(tx) - 1)
     /\ tx.follow \in 0..2 /\ Len(tx.maps) <= tx.follow
ReassemblyOK(rx) ==
  \/ rx = NoRx
  \/ /\ rx.msg \in Messages /\ rx.failed \in BOOLEAN
     /\ rx.seen \subseteq 0..(Announced(rx.msg) - 1)
     /\ rx.sack # NoSack =>
          rx.sack.phase \in 0..Bitmaps(rx.msg) /\ rx.sack.id \in 1..MaxId

\* Every variable has its type; the position in a sequence of bursts is inside
\* it, a list to repeat names blocks of the message, a bitmap was announced,
\* and no retry exceeds CCL_DATA_MAX_RETRIES.
TypeOK ==
  /\ \A r \in Radios :
       /\ ctx[r].state \in States /\ ctx[r].out = Silent
       /\ TransferOK(ctx[r].tx) /\ ReassemblyOK(ctx[r].rx)
       /\ ctx[r].told \in [Messages -> {"new", "sending", "ok", "failed"}]
       /\ ctx[r].copies \in [Messages -> Nat]
       /\ batch[r] \subseteq Fds
       /\ mac[r] \in Seq(Requests) /\ Len(mac[r]) <= MacRoom
       /\ conf[r] \in Seq(Confs) /\ Len(conf[r]) <= QDepth
       /\ heard[r] \in Seq(Bursts \ {Silent}) /\ Len(heard[r]) <= QDepth
  /\ trouble \in 0..MaxTrouble

\* Nothing waits for another radio unwatched: T_Response runs, or its expiry
\* is about to be read, while a response or its bitmaps are awaited, and so
\* does T_RX_STALL while a message is reassembled.
Live(c, t) == c.tmr[t].kern # "off"
ResponseWatched ==
  \A r \in Radios :
    ctx[r].state \in {"TX_WAIT_ACK", "TX_WAIT_SACK_DATA"} =>
      ctx[r].tx.active /\ Live(ctx[r], "response")
StallWatched == \A r \in Radios : ctx[r].rx.active => Live(ctx[r], "rx_stall")
WaitsWatched == ResponseWatched /\ StallWatched

\* A second copy of a message reaches the application only after something
\* went wrong on the way, and there are no more copies than transmissions.  A
\* message cut short is read as ending before its last block, by its payload
\* or by a count that wraps: the receiver then answers while the sender still
\* sends and does not listen, and all is repeated for no fault.
Copies(m)     == ctx[Msg[m].to].copies[m]
CutShort(m)   ==
  \/ Announced(m) < NBlocks(m)
  \/ \E i \in 1..(NBlocks(m) - 1) : Msg[m].blocks[i].last
WithinRetries == \A m \in Messages : Copies(m) <= 1 + MaxRetries
CopiesCovered ==
  WithinRetries /\ \A m \in Messages : CutShort(m) \/ Copies(m) <= 1 + trouble

\* What the sender's application knows of a message.
Told(m) == ctx[Msg[m].from].told[m]

\* dmr_ccl_data.h's promise to the applications: every accepted message is
\* reported once, and success of a confirmed one only after its delivery.
Service == INSTANCE DataService WITH
  NeedsAck  <- {m \in Messages : Confirmed(m)},
  told      <- [m \in Messages |-> Told(m)],
  delivered <- {m \in Messages : ctx[Msg[m].to].copies[m] > 0}
ImplementsService == Service!Spec

\* Every accepted message is reported: on_tx_complete() is called.
TransfersEnd ==
  \A m \in Messages :
    Told(m) = "sending" ~> Told(m) \in {"ok", "failed"}

\* And no reassembly stays: a message lost half-way is forgotten.
ExchangesEnd ==
  /\ TransfersEnd
  /\ \A r \in Radios : ctx[r].rx.active ~> ~ctx[r].rx.active
=============================================================================
