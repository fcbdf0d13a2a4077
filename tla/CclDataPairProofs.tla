------------------------- MODULE CclDataPairProofs -------------------------
(***************************************************************************)
(* What one radio that sends to another can rely on, for every message,    *)
(* every number of blocks and retries and every bound on what goes wrong.  *)
(*                                                                         *)
(* CopiesCovered: each copy of a message but the first is paid for by a    *)
(* burst that was lost, refused or forgotten, or by a timer that expired   *)
(* early.  Its invariant has two parts.  Lined says who may act: one burst *)
(* or confirmation is under way, the sender awaits the confirmation of the *)
(* one burst its MAC has, and what the receiver has and hears is from one  *)
(* message.  Paid is an account: copies delivered, and what may still come *)
(* before anything else goes wrong (Cost, Early), are within the trouble   *)
(* so far.  Each step is shown to leave one of a few forms, and each form  *)
(* to add no more to a message's account than it adds to the trouble.      *)
(*                                                                         *)
(* ImplementsService: success is reported of what was delivered only, and  *)
(* once.  With PairInv and Lined it takes Shown, about the one or two      *)
(* bitmaps of a SACK: those that came, heard or on their way, together     *)
(* leave a block to send again, so they are never taken for an             *)
(* acknowledgement.                                                        *)
(***************************************************************************)
EXTENDS CclDataArqProofs

----------------------------------------------------------------------------
(* The invariant: Lined and Paid.                                          *)

\* The numbers that the receiver of a message reads in its blocks.  A message
\* it can deliver fits, and has a block of every number.
Leads(m)   == Range(Msg[m].blocks)
Numbers(m) == {lead.no : lead \in Leads(m)}
Whole(m)   == Msg[m].fits /\ 0..(NBlocks(m) - 1) \subseteq Numbers(m)
Fair(m)    == ~CutShort(m) /\ Whole(m)

\* One burst or confirmation at a time, of one side at a time.
Turns(s, e) ==
  /\ \A r \in Radios : Len(conf[r]) \in 0..1 /\ Len(heard[r]) \in 0..1
  /\ conf[s] # <<>> \/ heard[e] # <<>> => conf[e] = <<>> /\ heard[s] = <<>>

\* The sender awaits the confirmation of the one burst its MAC has, or an
\* answer to a message all of which was confirmed.
Sending(s, e) ==
  LET c == ctx[s]
  IN  /\ c.tx.active <=> c.state # "IDLE"
      /\ c.state \in {"IDLE", "TX_BURST_PENDING", "TX_WAIT_ACK", "TX_WAIT_SACK_DATA"}
      /\ c.state = "TX_BURST_PENDING" =>
           /\ c.tx.phase # "DONE"
           /\ \/ /\ mac[s] = <<[id |-> c.tx.id, burst |-> TxBurst(c.tx)]>>
                 /\ conf[s] = <<>>
              \/ /\ mac[s] = <<>>
                 /\ \E ok \in BOOLEAN :
                      /\ conf[s] = <<[id |-> c.tx.id, ok |-> ok]>>
                      /\ ok \/ heard[e] = <<>>
      /\ c.state # "TX_BURST_PENDING" => mac[s] = <<>> /\ conf[s] = <<>>
      /\ c.state \in {"TX_WAIT_ACK", "TX_WAIT_SACK_DATA"} =>
           c.tx.phase = "DONE" /\ c.tx.list = <<>>
      /\ c.state = "TX_WAIT_SACK_DATA" => heard[e] = <<>>

\* The receiver asks for its next bitmap when all it asked for before is done.
InLine(e) ==
  LET d == ctx[e]
  IN  /\ d.rx.active /\ d.rx.sack # NoSack =>
           /\ \A i \in DOMAIN mac[e] : mac[e][i].id = d.rx.sack.id => i = Len(mac[e])
           /\ conf[e] # <<>> /\ Head(conf[e]).id = d.rx.sack.id => mac[e] = <<>>
      /\ \A i \in DOMAIN mac[e] : mac[e][i].burst.kind = "rdata" => i = 1

\* What it has of a message, and hears, is from its blocks.
Heeds(s, e) ==
  LET d == ctx[e]
  IN  /\ \A u \in Hears(e) : u.kind \in {"header", "block"}
      /\ d.rx.active =>
           /\ \A u \in Hears(e) : u.kind = "block" => u.lead \in Leads(d.rx.msg)
           /\ d.rx.seen \subseteq Numbers(d.rx.msg)
           /\ ~Msg[d.rx.msg].fits => d.rx.failed
           /\ Fair(d.rx.msg) => ~d.rx.failed
      /\ \A m \in Messages :
           /\ ctx[s].told[m] = "new" => d.copies[m] = 0
           /\ ~CutShort(m) /\ ~Whole(m) => d.copies[m] = 0
      /\ ctx[s].tx.active /\ Fair(ctx[s].tx.msg) =>
           \A u \in Asked(e) \union Hears(s) :
             u.kind = "response" => u.class # "NACK"
      /\ \A u \in Asked(e) \union Hears(s) : u.kind = "response" => u.to = s

Lined(s, e) == Turns(s, e) /\ Sending(s, e) /\ InLine(e) /\ Heeds(s, e)

Bit(p) == IF p THEN 1 ELSE 0
Acks(u)  == u.kind = "response" /\ u.class = "ACK"
Sacks(u) == u.kind = "response" /\ u.class = "SACK"

\* Identifiers e is to be told about.
Named(e) == {z.id : z \in Range(mac[e]) \union Range(conf[e])}
\* Nothing but acknowledgements is to come from e.
Clear(e) ==
  /\ \A u \in Asked(e) : Acks(u)
  /\ ctx[e].rx.active /\ ctx[e].rx.sack # NoSack => ctx[e].rx.sack.id \notin Named(e)

HeaderHeard(e) == \E u \in Hears(e) : u.kind = "header"
Pending(e) == heard[e] # <<>> /\ (ctx[e].rx.active \/ HeaderHeard(e))
\* The reassembly is given up before the next burst is on the air.
Doomed(e) == ctx[e].rx.active /\ heard[e] = <<>> /\ "rx_stall" \in batch[e]
Reached(e) == (ctx[e].rx.active /\ ~Doomed(e)) \/ HeaderHeard(e)

\* Blocks, of those in turn, that are not on the air yet.
Remaining(s) ==
  LET tx == ctx[s].tx
      last == SeqLen(tx) - 1
  IN  CASE tx.phase \in {"PREAMBLE", "HEADER"} -> 0..last
        [] tx.phase = "BLOCKS" -> (IF mac[s] # <<>> THEN tx.idx ELSE tx.idx + 1)..last
        [] OTHER -> {}
NumbersOf(m, blocks) == {Msg[m].blocks[i + 1].no : i \in blocks}

\* Every block comes as it is expected.
Lacks(rx) == 0..(Announced(rx.msg) - 1) \ rx.seen
NosHeard(e) == {u.lead.no : u \in {v \in Hears(e) : v.kind = "block"}}
Kept(e) ==
  /\ ctx[e].rx.active /\ ~ctx[e].rx.failed /\ ctx[e].rx.sack = NoSack
  /\ "rx_stall" \notin batch[e] /\ ctx[e].tmr["rx_stall"].kern # "expired"
OnTime(s, e) ==
  LET m == ctx[s].tx.msg
      due == NumbersOf(m, Remaining(s))
  IN  /\ Clear(e)
      /\ \A u \in Hears(e) : u.kind = "header" =>
           u.full /\ Remaining(s) = 0..(NBlocks(m) - 1)
      /\ ~HeaderHeard(e) =>
           /\ Kept(e)
           /\ Lacks(ctx[e].rx) = due \union NosHeard(e)
           /\ due \intersect NosHeard(e) = {}

Starting(s) ==
  \/ ctx[s].tx.phase = "PREAMBLE"
  \/ ctx[s].tx.phase = "HEADER" /\ mac[s] # <<>>
Refused(s) == \E cf \in Range(conf[s]) : ~cf.ok

Still == \A r \in Radios : mac[r] = <<>> /\ conf[r] = <<>> /\ heard[r] = <<>>
Expiry(s) == ctx[s].tmr["response"].kern = "expired"
Noticed(s) == "response" \in batch[s]
\* An expiry of T_Response will be read while a response may still come.
Early(s) ==
  /\ ~Still
  /\ IF ctx[s].state # "TX_BURST_PENDING" THEN Expiry(s) \/ Noticed(s)
     ELSE IF ctx[s].tx.phase = "PREAMBLE"
       THEN conf[s] # <<>> /\ Expiry(s) /\ ~Noticed(s) /\ batch[s] # {}
     ELSE IF mac[s] # <<>> THEN Expiry(s) /\ ~Noticed(s)
     ELSE Expiry(s) \/ Noticed(s)

Acked(s, e) ==
  /\ ctx[s].state # "TX_WAIT_SACK_DATA"
  /\ \A u \in Asked(e) \union Hears(s) : Acks(u)
  /\ Asked(e) \union Hears(s) # {}
Takeable(s, e) ==
  /\ ctx[s].state = "TX_WAIT_SACK_DATA" \/ \E u \in Hears(s) : Sacks(u)
  /\ \E u \in Asked(e) \union Hears(s) : u.kind = "rdata"

\* Copies that may still come of the message in transfer, before anything
\* else goes wrong.
Cost(s, e) ==
  IF Starting(s)
    THEN Bit(~(ctx[s].tx.list = <<>> /\ Clear(e) /\ ~Refused(s))) + Bit(Pending(e))
  ELSE IF Refused(s) THEN 1
  ELSE IF Remaining(s) # {}
    THEN Bit(Reached(e) /\ ~(OnTime(s, e) /\ ctx[s].tx.list = <<>>))
  ELSE IF Pending(e) THEN Bit(~OnTime(s, e))
  ELSE IF ctx[e].rx.active THEN 1
  ELSE IF ~Confirmed(ctx[s].tx.msg) \/ Acked(s, e) THEN -1
  ELSE Bit(Takeable(s, e))
Expects(e, m) ==
  /\ heard[e] # <<>>
  /\ \/ ctx[e].rx.active /\ ctx[e].rx.msg = m
     \/ \E u \in Hears(e) : u.kind = "header" /\ u.msg = m
Paid(s, e) ==
  \A m \in Messages : Fair(m) =>
    IF ctx[s].tx.active /\ ctx[s].tx.msg = m
      THEN ctx[e].copies[m] + Bit(Early(s)) + Cost(s, e) <= trouble
      ELSE ctx[e].copies[m] + Bit(Expects(e, m)) <= trouble + 1

----------------------------------------------------------------------------
(* What exactly the sender's handlers leave.                               *)

\* The transfer is over; it starts again, with these blocks; the next burst
\* is submitted; all is sent, and a response awaited.
Ends(c, d) ==
  d.tx = NoTx /\ d.state = "IDLE" /\ d.out = Silent
Restarts(c, d, list, id) ==
  /\ d.tx.active /\ d.tx.msg = c.tx.msg /\ d.tx.phase = "PREAMBLE"
  /\ d.tx.list = list /\ d.tx.id = id
  /\ d.state = "TX_BURST_PENDING" /\ d.out = TxBurst(d.tx)
Moves(c, d, phase, idx, id) ==
  /\ d.tx.active /\ d.tx.msg = c.tx.msg /\ d.tx.phase = phase
  /\ d.tx.list = c.tx.list /\ d.tx.idx = idx /\ d.tx.id = id
  /\ d.state = c.state /\ d.out = TxBurst(d.tx) /\ d.tmr = c.tmr
Completes(c, d) ==
  /\ d.tx.active /\ d.tx.msg = c.tx.msg /\ d.tx.phase = "DONE"
  /\ d.tx.list = <<>> /\ Confirmed(c.tx.msg)
  /\ d.state = "TX_WAIT_ACK" /\ d.out = Silent
  /\ d.tmr["response"].kern = "running"
\* It receives nothing meanwhile.
Apart(c, d) == d.rx = c.rx /\ d.copies = c.copies

LEMMA TxFinishEnds ==
  ASSUME NEW c \in Context, c.out = Silent, NEW success \in BOOLEAN
  PROVE  LET d == TxFinish(c, success) IN Ends(c, d) /\ Apart(c, d)
  BY DEF TxFinish, Context, Ends, Apart

\* The burst that is sent does not depend on the identifier it gets.
LEMMA TxBurstId ==
  ASSUME NEW tx \in Going, NEW id
  PROVE  TxBurst([tx EXCEPT !.id = id]) = TxBurst(tx)
<1> DEFINE y == [tx EXCEPT !.id = id]
<1>1. y.phase = tx.phase /\ y.list = tx.list /\ y.idx = tx.idx /\ y.msg = tx.msg
  BY DEF Going
<1> HIDE DEF y
<1>2. TxBurst(y) = TxBurst(tx)
  BY <1>1 DEF TxBurst
<1> QED  BY <1>2 DEF y

LEMMA TxNextBurstMoves ==
  ASSUME NEW c \in Context, c.tx.active, NEW id \in 1..MaxId
  PROVE  LET d == TxNextBurst(c, id)
         IN  Moves(c, d, c.tx.phase, c.tx.idx, id) /\ Apart(c, d)
<1> DEFINE x == [c.tx EXCEPT !.id = id]
<1>1. c.tx \in Going
  BY ContextFields
<1>2. TxNextBurst(c, id) = [c EXCEPT !.out = TxBurst(c.tx), !.tx = x]
  BY DEF TxNextBurst, Context
<1>3. /\ x.active /\ x.msg = c.tx.msg /\ x.phase = c.tx.phase /\ x.idx = c.tx.idx
      /\ x.list = c.tx.list /\ x.id = id
  BY <1>1 DEF Going
<1>4. TxBurst(x) = TxBurst(c.tx)
  BY <1>1, TxBurstId
<1> HIDE DEF x
<1>5. LET d == TxNextBurst(c, id) IN
      /\ d.tx = x /\ d.rx = c.rx /\ d.copies = c.copies
      /\ d.state = c.state /\ d.tmr = c.tmr /\ d.out = TxBurst(c.tx)
  BY <1>2 DEF Context
<1> QED  BY <1>3, <1>4, <1>5 DEF Moves, Apart

LEMMA TxRestartRestarts ==
  ASSUME NEW c \in Context, c.out = Silent, c.tx.active, NEW list \in Seq(Nat),
         NEW id \in 0..MaxId
  PROVE  LET d == TxRestart(c, list, id)
         IN  (Ends(c, d) \/ Restarts(c, d, list, id)) /\ Apart(c, d)
<1>1. CASE c.tx.tries >= MaxRetries \/ id = NoId
  BY <1>1, TxFinishEnds DEF TxRestart
<1>2. CASE ~(c.tx.tries >= MaxRetries \/ id = NoId)
  <2> DEFINE x == [c.tx EXCEPT !.tries = @ + 1, !.list = list,
                               !.phase = "PREAMBLE", !.idx = 0]
             e == [c EXCEPT !.tx = x]
             f == TxNextBurst(e, id)
             d == TxRestart(c, list, id)
  <2>1. c.tx \in Going
    BY ContextFields
  <2>2. e = [c EXCEPT !.tx.tries = @ + 1, !.tx.list = list,
                      !.tx.phase = "PREAMBLE", !.tx.idx = 0]
    BY <2>1 DEF Context, Going
  <2>3. x.tries = c.tx.tries + 1 /\ c.tx.tries \in 0..MaxRetries
    BY <2>1 DEF Going
  <2>4. x.tries \in 0..MaxRetries
    BY <1>2, <2>3, DataBounds, SMTT(30)
  <2>5. x \in Going /\ x.phase = "PREAMBLE" /\ x.active /\ x.msg = c.tx.msg
        /\ x.list = list
    BY <2>1, <2>4 DEF Going, Phases
  <2> HIDE DEF x
  <2>6. e \in Context /\ e.tx = x /\ Apart(c, e)
    BY <2>5 DEF Context, Apart
  <2>7. id \in 1..MaxId
    BY <1>2 DEF NoId
  <2>8. d = [f EXCEPT !.state = "TX_BURST_PENDING"]
    BY <1>2, <2>2 DEF TxRestart
  <2>9. f = [e EXCEPT !.out = TxBurst(e.tx), !.tx = [e.tx EXCEPT !.id = id]]
    BY <2>6 DEF TxNextBurst, Context
  <2> HIDE DEF e
  <2>10. Moves(e, f, x.phase, x.idx, id) /\ Apart(e, f)
    BY <2>5, <2>6, <2>7, TxNextBurstMoves
  <2>11. DOMAIN f = DOMAIN e /\ DOMAIN e = {"state", "tx", "rx", "tmr", "out", "told", "copies"}
    BY <2>6, <2>9 DEF Context
  <2> HIDE DEF f
  <2>12. d.state = "TX_BURST_PENDING" /\ d.tx = f.tx
         /\ d.rx = f.rx /\ d.copies = f.copies /\ d.out = f.out
    BY <2>8, <2>11
  <2> HIDE DEF d
  <2>13. Restarts(c, d, list, id) /\ Apart(c, d)
    BY <2>5, <2>6, <2>10, <2>12 DEF Restarts, Moves, Apart
  <2> QED  BY <2>13 DEF d
<1> QED  BY <1>1, <1>2

LEMMA TxRetryRestarts ==
  ASSUME NEW c \in Context, c.out = Silent, c.tx.active, NEW id \in 0..MaxId
  PROVE  LET d == TxRetry(c, id)
         IN  (Ends(c, d) \/ Restarts(c, d, c.tx.list, id)) /\ Apart(c, d)
<1> DEFINE tm == Disarm(c.tmr, "response")
           e == [c EXCEPT !.tmr = tm]
<1>1. tm \in [Timers -> Timer]
  BY ContextFields, TimersTyped DEF Timers
<1>2. e = [c EXCEPT !.tmr = Disarm(@, "response")]
  BY DEF Context
<1> HIDE DEF tm
<1>3. e \in Context /\ e.tx = c.tx /\ Apart(c, e) /\ e.out = Silent
  BY <1>1 DEF Context, Apart
<1>4. c.tx.list \in Seq(Nat)
  BY ContextFields DEF Going
<1>5. TxRetry(c, id) = TxRestart(e, c.tx.list, id)
  BY <1>2 DEF TxRetry
<1> HIDE DEF e
<1>6. LET d == TxRestart(e, c.tx.list, id)
      IN  (Ends(e, d) \/ Restarts(e, d, c.tx.list, id)) /\ Apart(e, d)
  BY <1>3, <1>4, TxRestartRestarts
<1> QED  BY <1>3, <1>5, <1>6 DEF Ends, Restarts, Apart

LEMMA AdvanceMoves ==
  ASSUME NEW c \in Context, c.out = Silent, c.tx.active, NEW id \in 0..MaxId,
         NEW phase \in {"HEADER", "BLOCKS"}, NEW idx \in Nat
  PROVE  LET d == Advance(c, phase, idx, id)
         IN  (Ends(c, d) \/ Moves(c, d, phase, idx, id)) /\ Apart(c, d)
<1> DEFINE x == [c.tx EXCEPT !.phase = phase, !.idx = idx]
           e == [c EXCEPT !.tx = x]
<1>1. c.tx \in Going
  BY ContextFields
<1>2. x \in Going /\ x.active /\ x.phase = phase /\ x.msg = c.tx.msg
      /\ x.idx = idx /\ x.list = c.tx.list
  BY <1>1 DEF Going, Phases
<1>3. e = [c EXCEPT !.tx.phase = phase, !.tx.idx = idx]
  BY <1>1 DEF Context, Going
<1> HIDE DEF x
<1>4. e \in Context /\ e.tx = x /\ Apart(c, e) /\ e.out = Silent
      /\ e.state = c.state /\ e.tmr = c.tmr
  BY <1>2 DEF Context, Apart
<1> HIDE DEF e
<1>6. CASE id = NoId
  <2>1. Advance(c, phase, idx, id) = TxFinish(e, FALSE)
    BY <1>3, <1>6 DEF Advance, e
  <2> QED  BY <1>4, <2>1, TxFinishEnds DEF Ends, Apart
<1>7. CASE id # NoId
  <2>1. Advance(c, phase, idx, id) = TxNextBurst(e, id)
    BY <1>3, <1>7 DEF Advance, e
  <2>2. id \in 1..MaxId
    BY <1>7 DEF NoId
  <2> DEFINE d == TxNextBurst(e, id)
  <2>3. Moves(e, d, x.phase, x.idx, id) /\ Apart(e, d)
    BY <1>2, <1>4, <2>2, TxNextBurstMoves
  <2> HIDE DEF d
  <2>4. Moves(c, d, phase, idx, id) /\ Apart(c, d)
    BY <1>2, <1>4, <2>3 DEF Moves, Apart
  <2> QED  BY <2>1, <2>4 DEF d
<1> QED  BY <1>6, <1>7

LEMMA ArmedRuns ==
  ASSUME NEW tm \in [Timers -> Timer], NEW t \in Timers
  PROVE  /\ Arm(tm, t, 0)[t].kern = "running"
         /\ \A u \in Timers \ {t} : Arm(tm, t, 0)[u] = tm[u]
<1>1. Arm(tm, t, 0)[t] = [kern |-> "running", left |-> 0, armed |-> TRUE]
  BY DEF Arm
<1>2. \A u \in Timers \ {t} : Arm(tm, t, 0)[u] = tm[u]
  BY DEF Arm
<1> QED  BY <1>1, <1>2

LEMMA SequenceSentCompletes ==
  ASSUME NEW c \in Context, c.out = Silent, c.tx.active
  PROVE  LET d == SequenceSent(c)
         IN  (Ends(c, d) \/ Completes(c, d)) /\ Apart(c, d)
<1>1. CASE ~Confirmed(c.tx.msg)
  BY <1>1, TxFinishEnds DEF SequenceSent
<1>2. CASE Confirmed(c.tx.msg)
  <2> DEFINE x == [c.tx EXCEPT !.phase = "DONE", !.list = <<>>]
             tm == Arm(c.tmr, "response", 0)
             d == [c EXCEPT !.tx = x, !.state = "TX_WAIT_ACK", !.tmr = tm]
  <2>1. c.tx \in Going /\ c.tmr \in [Timers -> Timer]
    BY ContextFields
  <2>2. x.active /\ x.phase = "DONE" /\ x.msg = c.tx.msg /\ x.list = <<>>
    BY <2>1 DEF Going
  <2>3. SequenceSent(c) = d
    BY <1>2, <2>1 DEF SequenceSent, Context, Going
  <2>4. tm["response"].kern = "running"
    BY <2>1, ArmedRuns DEF Timers
  <2> HIDE DEF x, tm
  <2>5. d.tx = x /\ d.out = Silent /\ d.state = "TX_WAIT_ACK"
        /\ d.tmr = tm /\ Apart(c, d)
    BY DEF Context, Apart
  <2> HIDE DEF d
  <2> QED  BY <1>2, <2>2, <2>3, <2>4, <2>5 DEF Completes
<1> QED  BY <1>1, <1>2

\* A SACK announced bitmaps; one of them came, and more are to come.
Announces(c, d, follow) ==
  /\ d.tx.active /\ d.tx.msg = c.tx.msg /\ d.tx.phase = c.tx.phase
  /\ d.tx.list = c.tx.list /\ d.tx.follow = follow /\ d.tx.maps = <<>>
  /\ d.state = "TX_WAIT_SACK_DATA" /\ d.out = Silent
  /\ d.tmr["response"].kern = "running"
Collects(c, d, zeros) ==
  /\ d.tx.active /\ d.tx.msg = c.tx.msg /\ d.tx.phase = c.tx.phase
  /\ d.tx.list = c.tx.list /\ d.tx.follow = c.tx.follow
  /\ d.tx.maps = Append(c.tx.maps, zeros)
  /\ Len(d.tx.maps) < d.tx.follow
  /\ d.state = c.state /\ d.out = Silent /\ d.tmr = c.tmr

\* The steps of a transmission, in turn.
Follows(c, d, cf, id) ==
  \/ Ends(c, d)
  \/ ~cf.ok /\ Restarts(c, d, c.tx.list, id)
  \/ cf.ok /\ c.tx.phase = "PREAMBLE" /\ Moves(c, d, "HEADER", 0, id)
  \/ /\ cf.ok /\ c.tx.phase = "HEADER" /\ NBlocks(c.tx.msg) > 0
     /\ Moves(c, d, "BLOCKS", 0, id)
  \/ /\ cf.ok /\ c.tx.phase = "BLOCKS" /\ c.tx.idx + 1 # SeqLen(c.tx)
     /\ Moves(c, d, "BLOCKS", c.tx.idx + 1, id)
  \/ /\ cf.ok
     /\ \/ c.tx.phase = "HEADER" /\ NBlocks(c.tx.msg) = 0
        \/ c.tx.phase = "BLOCKS" /\ c.tx.idx + 1 = SeqLen(c.tx)
     /\ Completes(c, d)

LEMMA HandleTxConfFollows ==
  ASSUME NEW c, Sound(c), c.out = Silent, NEW cf \in Confs, NEW id \in 0..MaxId,
         ~c.rx.active, c.tx.active, cf.id = c.tx.id, c.tx.phase # "DONE"
  PROVE  LET d == HandleTxConf(c, cf, id)
         IN  Follows(c, d, cf, id) /\ Apart(c, d)
<1> DEFINE d == HandleTxConf(c, cf, id)
<1>1. ~OwnSack(c, cf)
  BY DEF OwnSack
<1>2. c \in Context /\ c.tx \in Going
  BY ContextFields DEF Sound, SoundParts
<1>3. c.tx.phase \in Phases /\ c.tx.idx \in Nat /\ NBlocks(c.tx.msg) \in Nat
  BY <1>2, NBlocksNat DEF Going
<1>4. CASE ~cf.ok /\ Confirmed(c.tx.msg)
  <2>1. d = TxRetry(c, id)
    BY <1>1, <1>4 DEF HandleTxConf
  <2> QED  BY <1>2, <1>4, <2>1, TxRetryRestarts DEF Follows
<1>5. CASE ~cf.ok /\ ~Confirmed(c.tx.msg)
  <2>1. d = TxFinish(c, FALSE)
    BY <1>1, <1>5 DEF HandleTxConf
  <2> QED  BY <1>2, <2>1, TxFinishEnds DEF Follows
<1>6. CASE cf.ok /\ c.tx.phase = "PREAMBLE"
  <2>1. d = Advance(c, "HEADER", 0, id)
    BY <1>1, <1>6 DEF HandleTxConf
  <2> QED  BY <1>2, <1>6, <2>1, AdvanceMoves DEF Follows
<1>7. CASE cf.ok /\ c.tx.phase = "HEADER" /\ NBlocks(c.tx.msg) > 0
  <2>1. d = Advance(c, "BLOCKS", 0, id)
    BY <1>1, <1>3, <1>7 DEF HandleTxConf
  <2> QED  BY <1>2, <1>7, <2>1, AdvanceMoves DEF Follows
<1>8. CASE cf.ok /\ c.tx.phase = "BLOCKS" /\ c.tx.idx + 1 # SeqLen(c.tx)
  <2>1. d = Advance(c, "BLOCKS", c.tx.idx + 1, id)
    BY <1>1, <1>8 DEF HandleTxConf
  <2>2. c.tx.idx + 1 \in Nat
    BY <1>3
  <2> QED  BY <1>2, <1>8, <2>1, <2>2, AdvanceMoves DEF Follows
<1>9. CASE cf.ok /\ (\/ c.tx.phase = "HEADER" /\ NBlocks(c.tx.msg) = 0
                     \/ c.tx.phase = "BLOCKS" /\ c.tx.idx + 1 = SeqLen(c.tx))
  <2>1. d = SequenceSent(c)
    BY <1>1, <1>9 DEF HandleTxConf
  <2> QED  BY <1>2, <1>9, <2>1, SequenceSentCompletes DEF Follows
<1> HIDE DEF d
<1> QED  BY <1>3, <1>4, <1>5, <1>6, <1>7, <1>8, <1>9 DEF Phases

\* A response is heeded where one is awaited.
Heedful(c, u, r) ==
  /\ c.tx.active /\ c.state = "TX_WAIT_ACK" /\ u.to = r /\ Confirmed(c.tx.msg)

LEMMA RxResponseFollows ==
  ASSUME NEW c, Sound(c), c.out = Silent, NEW u \in Sent,
         u.kind = "response", NEW r \in Radios, NEW id \in 0..MaxId
  PROVE  LET d == RxResponse(c, u, r, id)
         IN  IF ~Heedful(c, u, r) THEN d = c
             ELSE /\ Apart(c, d)
                  /\ \/ Ends(c, d)
                     \/ u.class = "NACK" /\ Restarts(c, d, c.tx.list, id)
                     \/ u.class = "SACK" /\ Announces(c, d, u.follow)
<1> DEFINE d == RxResponse(c, u, r, id)
<1>0. c \in Context
  BY DEF Sound, SoundParts
<1>1. CASE ~Heedful(c, u, r)
  BY <1>1 DEF RxResponse, Heedful
<1>2. CASE Heedful(c, u, r) /\ u.class = "ACK"
  <2>1. d = TxFinish(c, TRUE)
    BY <1>2 DEF RxResponse, Heedful
  <2> QED  BY <1>0, <1>2, <2>1, TxFinishEnds
<1>3. CASE Heedful(c, u, r) /\ u.class = "NACK"
  <2>1. d = TxRetry(c, id)
    BY <1>3 DEF RxResponse, Heedful
  <2>2. c.tx.active
    BY <1>3 DEF Heedful
  <2> QED  BY <1>0, <1>3, <2>1, <2>2, TxRetryRestarts
<1>4. CASE Heedful(c, u, r) /\ u.class = "SACK"
  <2> DEFINE x == [c.tx EXCEPT !.follow = u.follow, !.maps = <<>>]
             tm == Arm(c.tmr, "response", 0)
             e == [c EXCEPT !.tx = x, !.state = "TX_WAIT_SACK_DATA", !.tmr = tm]
  <2>1. c.tx \in Going /\ c.tmr \in [Timers -> Timer]
    BY <1>0, <1>4, ContextFields DEF Heedful
  <2>2. x.active /\ x.msg = c.tx.msg /\ x.phase = c.tx.phase
        /\ x.list = c.tx.list /\ x.follow = u.follow /\ x.maps = <<>>
    BY <2>1 DEF Going
  <2>3. d = e
    BY <1>0, <1>4, <2>1 DEF RxResponse, Context, Going, Heedful
  <2>4. tm["response"].kern = "running"
    BY <2>1, ArmedRuns DEF Timers
  <2> HIDE DEF x, tm
  <2>5. e.tx = x /\ e.out = Silent /\ e.state = "TX_WAIT_SACK_DATA"
        /\ e.tmr = tm /\ Apart(c, e)
    BY <1>0 DEF Context, Apart
  <2> HIDE DEF e, d
  <2>6. Announces(c, d, u.follow)
    BY <2>2, <2>3, <2>4, <2>5 DEF Announces
  <2> QED  BY <1>4, <2>3, <2>5, <2>6 DEF d
<1>5. u.class \in {"ACK", "NACK", "SACK"}
  BY SentFields DEF Classes
<1> QED  BY <1>1, <1>2, <1>3, <1>4, <1>5

LEMMA RxSackDataFollows ==
  ASSUME NEW c, Sound(c), c.out = Silent, c.state = "TX_WAIT_SACK_DATA",
         NEW zeros \in SUBSET Nat, NEW id \in 0..MaxId
  PROVE  LET d == RxSackData(c, zeros, id)
             maps == Append(c.tx.maps, zeros)
         IN  /\ Apart(c, d)
             /\ \/ Collects(c, d, zeros)
                \/ /\ ~(Len(maps) < c.tx.follow)
                   /\ \/ Ends(c, d)
                      \/ \E list \in Seq(Nat) : Restarts(c, d, list, id)
<1> DEFINE maps == Append(c.tx.maps, zeros)
           missing == Missing(c.tx, maps)
           x == [c.tx EXCEPT !.maps = maps]
           e == [c EXCEPT !.tx = x]
           d == RxSackData(c, zeros, id)
<1>1. c \in Context /\ c.tx.active /\ c.tx \in Going
  BY ContextFields DEF Sound, SoundParts
<1>2. maps \in Seq(SUBSET Nat)
  <2>1. c.tx.maps \in Seq(SUBSET Nat)
    BY <1>1 DEF Going
  <2> QED  BY <2>1, AppendProperties
<1>3. x \in Going /\ x.active /\ x.phase = c.tx.phase /\ x.msg = c.tx.msg
      /\ x.list = c.tx.list /\ x.maps = maps /\ x.follow = c.tx.follow
  BY <1>1, <1>2 DEF Going
<1>4. e = [c EXCEPT !.tx.maps = maps]
  BY <1>1 DEF Context, Going
<1> HIDE DEF maps, x
<1>5. e \in Context /\ e.tx = x /\ e.out = Silent
      /\ e.state = c.state /\ e.tmr = c.tmr /\ Apart(c, e)
  BY <1>1, <1>3 DEF Context, Apart
<1>7. CASE Len(maps) < c.tx.follow
  <2>1. d = e
    BY <1>4, <1>7 DEF RxSackData, maps
  <2> HIDE DEF d, e
  <2>2. Collects(c, d, zeros)
    BY <1>3, <1>5, <1>7, <2>1 DEF Collects, maps
  <2> QED  BY <1>5, <2>1, <2>2 DEF d
<1>8. CASE ~(Len(maps) < c.tx.follow) /\ missing = {}
  <2>1. d = TxFinish(c, TRUE)
    BY <1>8 DEF RxSackData, maps
  <2> QED  BY <1>1, <1>8, <2>1, TxFinishEnds DEF maps
<1>9. CASE ~(Len(maps) < c.tx.follow) /\ missing # {}
  <2> DEFINE list == Ascending(missing)
  <2>1. d = TxRestart(e, list, id)
    BY <1>4, <1>9 DEF RxSackData, maps
  <2>2. missing \in SUBSET (0..(NBlocks(c.tx.msg) - 1)) /\ IsFiniteSet(missing)
    BY <1>1, MissingBlocks
  <2> HIDE DEF missing
  <2>3. missing \in SUBSET Nat
    BY <2>2
  <2>4. list \in Seq(missing)
    BY <2>2, <2>3, AscendingLists
  <2> HIDE DEF list
  <2>5. list \in Seq(Nat)
    BY <2>3, <2>4, SeqMonotonic
  <2> HIDE DEF e, d
  <2>6. (Ends(e, d) \/ Restarts(e, d, list, id)) /\ Apart(e, d)
    BY <1>3, <1>5, <2>1, <2>5, TxRestartRestarts
  <2>7. (Ends(c, d) \/ Restarts(c, d, list, id)) /\ Apart(c, d)
    BY <1>3, <1>5, <2>6 DEF Ends, Restarts, Apart
  <2> QED  BY <1>9, <2>5, <2>7 DEF d, maps
<1> QED  BY <1>7, <1>8, <1>9

LEMMA ResponseTimeoutFollows ==
  ASSUME NEW c, Sound(c), c.out = Silent, NEW id \in 0..MaxId
  PROVE  LET d == ResponseTimeout(c, id)
         IN  IF c.tx.active /\ Confirmed(c.tx.msg)
                /\ c.state \in {"TX_WAIT_ACK", "TX_WAIT_SACK_DATA"}
               THEN (Ends(c, d) \/ Restarts(c, d, c.tx.list, id)) /\ Apart(c, d)
               ELSE d = c
<1>1. c \in Context
  BY DEF Sound, SoundParts
<1> QED  BY <1>1, TxRetryRestarts DEF ResponseTimeout

----------------------------------------------------------------------------
(* What a worker's step changes, and what it costs.                        *)

\* A handler's context d is its radio's, its burst is with the MAC under an
\* identifier of its own, and nothing else has changed there; a burst that is
\* refused though there is room was counted.
Became(r, d, id) ==
  /\ \A q \in Radios \ {r} : ctx'[q] = ctx[q] /\ mac'[q] = mac[q]
  /\ ctx'[r].tx = d.tx /\ ctx'[r].rx = d.rx /\ ctx'[r].state = d.state
  /\ ctx'[r].tmr = d.tmr /\ ctx'[r].told = d.told /\ ctx'[r].copies = d.copies
  /\ \/ d.out = Silent /\ mac'[r] = mac[r]
     \/ /\ d.out # Silent /\ id \in 1..MaxId
        /\ \A i \in DOMAIN mac[r] : mac[r][i].id # id
        /\ mac'[r] = Append(mac[r], [id |-> id, burst |-> d.out])
Charged(r, id) ==
  /\ trouble' \in Nat /\ trouble <= trouble' /\ trouble' <= trouble + 1
  /\ id = NoId /\ Len(mac[r]) < MacRoom => trouble' = trouble + 1

LEMMA TroubleNat == Typed => trouble \in Nat
  BY DataBounds DEF Typed

LEMMA RunsBecame ==
  ASSUME Typed, NEW r \in Radios, NEW after,
         \A id \in Ids(r) : Handled(after[id], id),
         Runs(r, after)
  PROVE  \E id \in Ids(r) :
           Handled(after[id], id) /\ Became(r, after[id], id) /\ Charged(r, id)
<1> DEFINE n == FreshId(r)
           d == after[n]
           f == after[NoId]
<1>1. n \in 1..MaxId /\ n # NoId /\ n \in Ids(r) /\ NoId \in Ids(r)
      /\ \A i \in DOMAIN mac[r] : mac[r][i].id # n
  BY FreshIdFree DEF NoId, Ids
<1>2. Sound(d) /\ Sound(f) /\ f.out = Silent
  BY <1>1 DEF Handled
<1>3. trouble \in Nat /\ Len(mac[r]) <= MacRoom /\ MacRoom \in Nat /\ Len(mac[r]) \in Nat
  <2>1. mac[r] \in Seq([id : 1..MaxId, burst : Sent \ {Silent}])
    BY DEF Typed
  <2> QED  BY <2>1, TroubleNat, DataBounds, LenProperties DEF Typed
<1>4. ASSUME NEW id \in Ids(r), NEW x, Sound(x), Ran(r, x, id)
      PROVE  Became(r, x, id)
  <2>1. /\ \A q \in Radios \ {r} : ctx'[q] = ctx[q]
        /\ ctx'[r].tx = x.tx /\ ctx'[r].rx = x.rx /\ ctx'[r].state = x.state
        /\ ctx'[r].tmr = x.tmr /\ ctx'[r].told = x.told
        /\ ctx'[r].copies = x.copies
    BY <1>4, RanFields
  <2>2. mac \in [Radios -> Seq([id : 1..MaxId, burst : Sent \ {Silent}])]
    BY DEF Typed
  <2>3. CASE x.out = Silent
    BY <1>4, <2>1, <2>3 DEF Ran, Became
  <2>4. CASE x.out # Silent
    <3>1. id = n
      BY <1>4, <2>4 DEF Ran, Ids
    <3> DEFINE y == [id |-> id, burst |-> x.out]
    <3>2. mac' = [mac EXCEPT ![r] = Append(mac[r], y)]
      BY <1>4, <2>4 DEF Ran
    <3> HIDE DEF y
    <3>3. mac'[r] = Append(mac[r], y) /\ \A q \in Radios \ {r} : mac'[q] = mac[q]
      BY <2>2, <3>2
    <3> QED  BY <1>1, <2>1, <2>4, <3>1, <3>3 DEF Became, y
  <2> QED  BY <2>3, <2>4
<1>5. CASE d.out = Silent /\ ctx' = [ctx EXCEPT ![r] = d] /\ UNCHANGED <<mac, trouble>>
  <2>1. [d EXCEPT !.out = Silent] = d
    BY <1>2, <1>5 DEF Context, Sound, SoundParts
  <2>2. Ran(r, d, n)
    BY <1>5, <2>1 DEF Ran
  <2>3. Charged(r, n)
    BY <1>1, <1>3, <1>5 DEF Charged
  <2> QED  BY <1>1, <1>2, <1>4, <2>2, <2>3
<1>6. CASE /\ d.out # Silent /\ Len(mac[r]) < MacRoom
           /\ ctx' = [ctx EXCEPT ![r] = [d EXCEPT !.out = Silent]]
           /\ mac' = [mac EXCEPT ![r] = Append(@, [id |-> n, burst |-> d.out])]
           /\ UNCHANGED trouble
  <2>1. Ran(r, d, n)
    BY <1>1, <1>6 DEF Ran
  <2>2. Charged(r, n)
    BY <1>1, <1>3, <1>6 DEF Charged
  <2> QED  BY <1>1, <1>2, <1>4, <2>1, <2>2
<1>7. CASE /\ d.out # Silent
           /\ IF Len(mac[r]) = MacRoom THEN UNCHANGED trouble ELSE Trouble
           /\ ctx' = [ctx EXCEPT ![r] = f]
           /\ UNCHANGED mac
  <2>1. [f EXCEPT !.out = Silent] = f
    BY <1>2 DEF Context, Sound, SoundParts
  <2>2. Ran(r, f, NoId)
    BY <1>2, <1>7, <2>1 DEF Ran
  <2>3. Charged(r, NoId)
    BY <1>3, <1>7 DEF Charged, Trouble
  <2> QED  BY <1>1, <1>2, <1>4, <2>2, <2>3
<1> QED  BY <1>5, <1>6, <1>7 DEF Runs

\* The snapshot of the next wait, or the rest of this one.
LEMMA ServedBatch ==
  ASSUME Typed, NEW r \in Radios, NEW fd, NEW q, Len(q) \in 0..1, Served(r, fd, q)
  PROVE  /\ batch'[r] = Batch(r) \ {fd}
         /\ \A p \in Radios \ {r} : batch'[p] = batch[p]
<1>1. batch \in [Radios -> SUBSET Fds]
  BY DEF Typed
<1> DEFINE rest == Batch(r) \ {fd}
<1>2. batch' = [batch EXCEPT ![r] = rest]
  <2> DEFINE n == Len(q)
  <2>1. n \in 0..1 /\ batch' = [batch EXCEPT ![r] = IF n > 1 THEN Batch(r) ELSE rest]
    BY DEF Served
  <2> HIDE DEF n
  <2>2. ~(n > 1)
    BY <2>1
  <2> QED  BY <2>1, <2>2
<1> HIDE DEF rest
<1>3. batch'[r] = rest /\ \A p \in Radios \ {r} : batch'[p] = batch[p]
  BY <1>1, <1>2
<1> QED  BY <1>3 DEF rest

LEMMA ConfBecame ==
  ASSUME Typed, NEW r \in Radios, ConfReady(r), Len(conf[r]) \in 0..1
  PROVE  /\ conf[r] # <<>> /\ Head(conf[r]) \in Confs /\ "conf" \in Batch(r)
         /\ \E id \in Ids(r) :
              LET d == HandleTxConf(ctx[r], Head(conf[r]), id)
              IN  Handled(d, id) /\ Became(r, d, id) /\ Charged(r, id)
         /\ conf' = [conf EXCEPT ![r] = Tail(@)] /\ heard' = heard
         /\ batch'[r] = Batch(r) \ {"conf"}
         /\ \A p \in Radios \ {r} : batch'[p] = batch[p]
<1>1. conf[r] # <<>> /\ Head(conf[r]) \in Confs
  BY ConfRan
<1> DEFINE after == [id \in Ids(r) |-> HandleTxConf(ctx[r], Head(conf[r]), id)]
<1>2. \A id \in Ids(r) : id \in 0..MaxId
  BY FreshIdFree, MaxIdNat DEF Ids, NoId
<1>3. \A id \in Ids(r) : Handled(after[id], id)
  BY <1>1, <1>2, HandleTxConfHandled DEF Typed
<1>4. Runs(r, after)
  BY DEF ConfReady
<1> HIDE DEF after
<1>5. \E id \in Ids(r) :
        Handled(after[id], id) /\ Became(r, after[id], id) /\ Charged(r, id)
  BY <1>3, <1>4, RunsBecame
<1>6. \A id \in Ids(r) : after[id] = HandleTxConf(ctx[r], Head(conf[r]), id)
  BY DEF after
<1>7. /\ batch'[r] = Batch(r) \ {"conf"}
      /\ \A p \in Radios \ {r} : batch'[p] = batch[p]
  BY ServedBatch DEF ConfReady
<1> QED  BY <1>1, <1>5, <1>6, <1>7 DEF ConfReady

LEMMA RxBecame ==
  ASSUME Typed, NEW r \in Radios, RxReady(r), Len(heard[r]) \in 0..1
  PROVE  /\ heard[r] # <<>> /\ Head(heard[r]) \in Audible /\ "rx" \in Batch(r)
         /\ \E zeros \in Zeros(ctx[r], Head(heard[r])) : \E id \in Ids(r) :
              LET d == RxBurst(ctx[r], Head(heard[r]), zeros, r, id)
              IN  Handled(d, id) /\ Became(r, d, id) /\ Charged(r, id)
         /\ heard' = [heard EXCEPT ![r] = Tail(@)] /\ conf' = conf
         /\ batch'[r] = Batch(r) \ {"rx"}
         /\ \A p \in Radios \ {r} : batch'[p] = batch[p]
<1>1. heard[r] # <<>> /\ Head(heard[r]) \in Audible
  BY RxRan
<1>2. PICK zeros \in Zeros(ctx[r], Head(heard[r])) :
        Runs(r, [id \in Ids(r) |-> RxBurst(ctx[r], Head(heard[r]), zeros, r, id)])
  BY DEF RxReady
<1> DEFINE after == [id \in Ids(r) |-> RxBurst(ctx[r], Head(heard[r]), zeros, r, id)]
<1>3. \A id \in Ids(r) : id \in 0..MaxId
  BY FreshIdFree, MaxIdNat DEF Ids, NoId
<1>4. \A id \in Ids(r) : Handled(after[id], id)
  BY <1>1, <1>3, RxBurstHandled DEF Typed
<1>5. Runs(r, after)
  BY <1>2
<1> HIDE DEF after
<1>6. \E id \in Ids(r) :
        Handled(after[id], id) /\ Became(r, after[id], id) /\ Charged(r, id)
  BY <1>4, <1>5, RunsBecame
<1>7. \A id \in Ids(r) : after[id] = RxBurst(ctx[r], Head(heard[r]), zeros, r, id)
  BY DEF after
<1>8. /\ batch'[r] = Batch(r) \ {"rx"}
      /\ \A p \in Radios \ {r} : batch'[p] = batch[p]
  BY ServedBatch DEF RxReady
<1> QED  BY <1>1, <1>6, <1>7, <1>8 DEF RxReady

LEMMA TimerBecame ==
  ASSUME Typed, NEW r \in Radios, NEW t \in Timers, TimerReady(r, t)
  PROVE  /\ t \in Batch(r)
         /\ \E id \in Ids(r) :
              LET d == TimerServed(r, t, id)
              IN  Handled(d, id) /\ Became(r, d, id) /\ Charged(r, id)
         /\ conf' = conf /\ heard' = heard
         /\ batch'[r] = Batch(r) \ {t}
         /\ \A p \in Radios \ {r} : batch'[p] = batch[p]
<1> DEFINE after == [id \in Ids(r) |-> TimerServed(r, t, id)]
           c == [ctx[r] EXCEPT !.tmr = Drain(@, t)]
<1>1. ctx[r] \in Context /\ Sound(ctx[r]) /\ ctx[r].out = Silent
  BY DEF Typed
<1>2. Drain(ctx[r].tmr, t) \in [Timers -> Timer]
  BY <1>1, ContextFields, TimersTyped
<1>3. Sound(c) /\ c.out = Silent
  BY <1>1, <1>2, TimerHandled
<1>4. \A id \in Ids(r) : id \in 0..MaxId
  BY FreshIdFree, MaxIdNat DEF Ids, NoId
<1>5. \A id \in Ids(r) : TimerServed(r, t, id)
        = IF t = "response" THEN ResponseTimeout(c, id) ELSE RxStallTimeout(c)
  BY DEF TimerServed
<1> HIDE DEF c
<1>6. \A id \in Ids(r) : Handled(TimerServed(r, t, id), id)
  BY <1>3, <1>4, <1>5, ResponseTimeoutHandled, RxStallTimeoutHandled DEF Handled
<1>7. Runs(r, after)
  BY DEF TimerReady, TimerServed
<1>8. \A id \in Ids(r) : Handled(after[id], id)
  BY <1>6
<1> HIDE DEF after
<1>9. \E id \in Ids(r) :
        Handled(after[id], id) /\ Became(r, after[id], id) /\ Charged(r, id)
  BY <1>7, <1>8, RunsBecame
<1>10. \A id \in Ids(r) : after[id] = TimerServed(r, t, id)
  BY DEF after
<1>11. Len(<<>>) \in 0..1
  OBVIOUS
<1>12. /\ batch'[r] = Batch(r) \ {t}
       /\ \A p \in Radios \ {r} : batch'[p] = batch[p]
  BY <1>11, ServedBatch DEF TimerReady
<1> QED  BY <1>9, <1>10, <1>12 DEF TimerReady

----------------------------------------------------------------------------
(* Queues of one element at most.                                          *)

LEMMA Singles ==
  ASSUME NEW x
  PROVE  /\ Append(<<>>, x) = <<x>> /\ Head(<<x>>) = x /\ Tail(<<x>>) = <<>>
         /\ <<x>> # <<>> /\ Len(<<x>>) = 1 /\ Len(<<>>) = 0
         /\ Range(<<x>>) = {x} /\ Range(<<>>) = {}
         /\ DOMAIN <<x>> = {1} /\ <<x>>[1] = x
<1>1. Append(<<>>, x) = <<x>>
  <2>1. <<>> \in Seq({x}) /\ <<x>> \in Seq({x})
    OBVIOUS
  <2> QED  BY <2>1
<1>2. DOMAIN <<x>> = 1..1 /\ <<x>>[1] = x
  OBVIOUS
<1>3. 1..1 = {1}
  OBVIOUS
<1>4. Range(<<x>>) = {x}
  BY <1>2, <1>3 DEF Range
<1>5. Range(<<>>) = {}
  BY DEF Range
<1> QED  BY <1>1, <1>2, <1>3, <1>4, <1>5

LEMMA ShortQueue ==
  ASSUME NEW S, NEW q \in Seq(S), Len(q) \in 0..1
  PROVE  /\ q = <<>> \/ (\E x \in S : q = <<x>>)
         /\ q # <<>> => Tail(q) = <<>> /\ Range(q) = {Head(q)} /\ q = <<Head(q)>>
<1>1. CASE q = <<>>
  BY <1>1
<1>2. CASE q # <<>>
  <2>1. Len(q) = 1 /\ q[1] \in S /\ DOMAIN q = 1..1
    BY <1>2
  <2> DEFINE x == q[1]
  <2>2. q = <<x>>
    BY <2>1
  <2> HIDE DEF x
  <2> QED  BY <2>1, <2>2, Singles DEF x
<1> QED  BY <1>1, <1>2

LEMMA EmptyRange ==
  ASSUME NEW S, NEW q \in Seq(S)
  PROVE  Range(q) = {} <=> q = <<>>
<1>1. CASE q = <<>>
  BY <1>1, Singles
<1>2. CASE q # <<>>
  BY <1>2, RangeOfTail
<1> QED  BY <1>1, <1>2

\* What is pushed on an empty queue is all that is on it.
LEMMA PushedAlone ==
  ASSUME NEW x
  PROVE  Push(<<>>, x) = <<x>>
<1>1. Len(<<>>) < QDepth
  BY DataBounds
<1> QED  BY <1>1, Singles DEF Push

----------------------------------------------------------------------------
(* The sender's steps keep all in line.                                    *)

\* The other radio is left alone, and what the sender has heard or had
\* confirmed becomes no more.
SenderOnly(s, e) ==
  /\ ctx'[e] = ctx[e] /\ mac'[e] = mac[e] /\ conf'[e] = conf[e]
  /\ heard'[e] = heard[e] /\ batch'[e] = batch[e]
  /\ conf'[s] \in {<<>>, conf[s]} /\ heard'[s] \in {<<>>, heard[s]}
  /\ \A m \in Messages : ctx'[s].told[m] = "new" => ctx[s].told[m] = "new"
  /\ ctx'[s].tx.active => ctx[s].tx.active /\ ctx'[s].tx.msg = ctx[s].tx.msg

LEMMA SenderKeepsRest ==
  ASSUME NEW s \in Radios, NEW e \in Radios, Pair(s, e), Lined(s, e),
         SenderOnly(s, e)
  PROVE  Turns(s, e)' /\ InLine(e)' /\ Heeds(s, e)'
<1>1. Radios = {s, e} /\ s # e
  BY DEF Pair
<1>2. Turns(s, e)'
  <2>1. Len(<<>>) \in 0..1
    OBVIOUS
  <2>2. \A r \in Radios : Len(conf'[r]) \in 0..1 /\ Len(heard'[r]) \in 0..1
    BY <1>1, <2>1 DEF Lined, Turns, SenderOnly
  <2> QED  BY <2>2 DEF Lined, Turns, SenderOnly
<1>3. InLine(e)'
  BY DEF Lined, InLine, SenderOnly
<1>4. Heeds(s, e)'
  <2>1. Asked(e)' = Asked(e) /\ Hears(e)' = Hears(e)
    BY DEF SenderOnly, Asked, Hears
  <2>2. \A u \in Hears(s)' : u \in Hears(s)
    BY Singles DEF SenderOnly, Hears
  <2>3. ctx'[e] = ctx[e]
    BY DEF SenderOnly
  <2>4. Heeds(s, e)
    BY DEF Lined
  <2> QED  BY <2>1, <2>2, <2>3, <2>4 DEF Heeds, SenderOnly
<1> QED  BY <1>2, <1>3, <1>4

\* It tells its application of a message only what it did not know, whichever
\* step its worker takes.
LEMMA SenderTells ==
  ASSUME NEW s \in Radios, NEW e \in Radios, Pair(s, e), PairInv(s, e), Worker(s)
  PROVE  \A m \in Messages : ctx'[s].told[m] = "new" => ctx[s].told[m] = "new"
<1>0. Typed /\ Tracked /\ OneWayFrom(s)
  BY DEF PairInv
<1>1. ctx[s].rx.active = FALSE
  BY <1>0, ContextFields DEF Typed, OneWayFrom
<1>2. PICK id, d : Works(s, d, id)
  BY <1>0, <1>1, WorkerWorks
<1>3. ctx'[s].told = d.told
  BY <1>0, <1>2, RanFields DEF Works
<1>4. ctx[s].tx.active => /\ ctx[s].tx.msg \in Messages
                          /\ ctx[s].told[ctx[s].tx.msg] = "sending"
  BY <1>0, ContextFields DEF Typed, Tracked, Going
<1>5. PICK in, mayOk : Step(ctx[s], d, in, mayOk)
  BY <1>2 DEF Works
<1>6. Idle(ctx[s], d) \/ TxStep(ctx[s], d, mayOk) \/ RxStep(ctx[s], d, in)
  BY <1>5 DEF Step
<1> QED  BY <1>3, <1>4, <1>6 DEF Idle, TxStep, GoesOn, Over, RxStep

\* The transfer goes on in one of the ways its handlers leave it.
Proceeds(c, d, id) ==
  \/ Ends(c, d)
  \/ \E list : Restarts(c, d, list, id)
  \/ /\ c.state = "TX_BURST_PENDING"
     /\ \E phase \in {"HEADER", "BLOCKS"} : \E idx : Moves(c, d, phase, idx, id)
  \/ Completes(c, d)
  \/ \E follow : c.state = "TX_WAIT_ACK" /\ Announces(c, d, follow)
  \/ \E zeros : c.state = "TX_WAIT_SACK_DATA" /\ Collects(c, d, zeros)

LEMMA SenderProceeds ==
  ASSUME NEW s \in Radios, NEW e \in Radios, Pair(s, e), Typed, Lined(s, e),
         SenderOnly(s, e), NEW id, NEW d, Sound(d), Became(s, d, id),
         Proceeds(ctx[s], d, id), mac[s] = <<>>, conf'[s] = <<>>,
         d.state = "TX_WAIT_SACK_DATA" => heard[e] = <<>>
  PROVE  Sending(s, e)'
<1> DEFINE c == ctx[s]
           f == ctx'[s]
<1>1. d \in Context /\ NoTx.active = FALSE
  BY DEF Sound, SoundParts, NoTx
<1>2. /\ f.tx = d.tx /\ f.state = d.state /\ heard'[e] = heard[e]
      /\ \/ d.out = Silent /\ mac'[s] = <<>>
         \/ /\ d.out # Silent
            /\ mac'[s] = <<[id |-> id, burst |-> d.out]>>
  BY Singles DEF Became, SenderOnly
<1>3. Sending(s, e)
  BY DEF Lined
<1>4. ASSUME d.tx.active, d.tx.phase \in {"PREAMBLE", "HEADER", "BLOCKS"}
      PROVE  TxBurst(d.tx) # Silent
  <2>1. d.tx \in Going
    BY <1>1, <1>4, ContextFields
  <2>2. TxBurst(d.tx).kind \in {"preamble", "header", "block"}
    BY <1>4, <2>1, TxBurstKind
  <2> QED  BY <2>2 DEF Silent
<1> HIDE DEF f
<1>5. CASE Ends(c, d)
  BY <1>1, <1>2, <1>5 DEF Ends, Sending, f
<1>6. CASE \E list : Restarts(c, d, list, id)
  BY <1>2, <1>4, <1>6 DEF Restarts, Sending, f
<1>7. CASE /\ c.state = "TX_BURST_PENDING"
           /\ \E phase \in {"HEADER", "BLOCKS"} : \E idx : Moves(c, d, phase, idx, id)
  BY <1>2, <1>4, <1>7 DEF Moves, Sending, f
<1>8. CASE Completes(c, d)
  BY <1>2, <1>8 DEF Completes, Sending, f
<1>9. CASE \E follow : c.state = "TX_WAIT_ACK" /\ Announces(c, d, follow)
  BY <1>2, <1>3, <1>9 DEF Announces, Sending, f
<1>10. CASE \E zeros : c.state = "TX_WAIT_SACK_DATA" /\ Collects(c, d, zeros)
  BY <1>2, <1>3, <1>10 DEF Collects, Sending, f
<1> QED  BY <1>5, <1>6, <1>7, <1>8, <1>9, <1>10 DEF Proceeds

----------------------------------------------------------------------------
(* The sender's steps, one by one.                                         *)

LEMMA PairFacts ==
  ASSUME NEW s \in Radios, NEW e \in Radios, Pair(s, e), PairInv(s, e)
  PROVE  /\ Radios = {s, e} /\ s # e
         /\ Typed /\ Tracked /\ OneWayFrom(s) /\ Current(s, e)
         /\ \A m \in Messages : Msg[m].from = s /\ Msg[m].to = e
         /\ \A r \in Radios : /\ ctx[r] \in Context /\ Sound(ctx[r])
                              /\ ctx[r].out = Silent
         /\ ~ctx[s].rx.active /\ ~ctx[e].tx.active
         /\ ctx[s].tx.active => /\ ctx[s].tx \in Going
                                /\ ctx[s].tx.msg \in Messages
         /\ \A u \in Asked(e) \union Hears(s) : u.kind \in {"response", "rdata"}
         /\ heard \in [Radios -> Seq(Audible)] /\ conf \in [Radios -> Seq(Confs)]
<1>1. Typed /\ Tracked /\ OneWayFrom(s) /\ Current(s, e) /\ Answers(s, e)
  BY DEF PairInv
<1>2. Radios = {s, e} /\ s # e /\ \A m \in Messages : Msg[m].from = s /\ Msg[m].to = e
  BY DEF Pair
<1>3. \A r \in Radios : ctx[r] \in Context /\ Sound(ctx[r]) /\ ctx[r].out = Silent
  BY <1>1 DEF Typed
<1>4. ~ctx[s].rx.active
  BY <1>1 DEF OneWayFrom
<1>5. e \in Radios \ {s}
  BY <1>2
<1>6. ~ctx[e].tx.active
  BY <1>1, <1>2, <1>5, OthersListen
<1>7. ctx[s].tx.active => ctx[s].tx \in Going
  BY <1>3, ContextFields
<1>8. ctx[s].tx.active => ctx[s].tx.msg \in Messages
  BY <1>7 DEF Going
<1>9. \A u \in Asked(e) \union Hears(s) : u.kind \in {"response", "rdata"}
  BY <1>1 DEF Answers, Apt
<1>10. heard \in [Radios -> Seq(Audible)] /\ conf \in [Radios -> Seq(Confs)]
  BY <1>1 DEF Typed
<1> QED  BY <1>1, <1>2, <1>3, <1>4, <1>6, <1>7, <1>8, <1>9, <1>10

\* A step of the sender's worker ended in d, under identifier id.
SenderRan(s, e, d, id) ==
  /\ id \in Ids(s) /\ Handled(d, id) /\ Became(s, d, id) /\ Charged(s, id)
  /\ SenderOnly(s, e)

LEMMA IdsFit ==
  ASSUME Typed, NEW r \in Radios, NEW id \in Ids(r)
  PROVE  id \in 0..MaxId
<1>1. FreshId(r) \in 1..MaxId
  BY FreshIdFree
<1> QED  BY <1>1, MaxIdNat DEF Ids, NoId

\* It is the confirmation of its burst that the sender takes.
SenderConfirmed(s, e, cf, id, d) ==
  /\ ctx[s].state = "TX_BURST_PENDING" /\ ctx[s].tx.active
  /\ mac[s] = <<>> /\ heard[s] = <<>>
  /\ conf[s] = <<cf>> /\ conf'[s] = <<>>
  /\ cf.ok \/ heard[e] = <<>>
  /\ heard' = heard /\ batch'[s] = Batch(s) \ {"conf"}
  /\ SenderRan(s, e, d, id) /\ Follows(ctx[s], d, cf, id)

LEMMA SenderConf ==
  ASSUME NEW s \in Radios, NEW e \in Radios, Pair(s, e), PairInv(s, e),
         Lined(s, e), ConfReady(s)
  PROVE  /\ \E cf, id, d : SenderConfirmed(s, e, cf, id, d)
         /\ Sending(s, e)'
<1> DEFINE c == ctx[s]
<1>0. /\ Radios = {s, e} /\ s # e /\ Typed /\ Sound(c) /\ c.out = Silent
      /\ ~c.rx.active /\ conf \in [Radios -> Seq(Confs)]
  BY PairFacts
<1>1. Len(conf[s]) \in 0..1 /\ Sending(s, e) /\ Turns(s, e)
  BY DEF Lined, Turns
<1>2. /\ conf[s] # <<>> /\ Head(conf[s]) \in Confs
      /\ conf' = [conf EXCEPT ![s] = Tail(@)] /\ heard' = heard
      /\ batch'[s] = Batch(s) \ {"conf"}
      /\ \A p \in Radios \ {s} : batch'[p] = batch[p]
  BY <1>0, <1>1, ConfBecame
<1> DEFINE cf == Head(conf[s])
<1>3. PICK id \in Ids(s) :
        LET d == HandleTxConf(c, cf, id)
        IN  Handled(d, id) /\ Became(s, d, id) /\ Charged(s, id)
  BY <1>0, <1>1, ConfBecame
<1> DEFINE d == HandleTxConf(c, cf, id)
<1>4. conf[s] = <<cf>> /\ Tail(conf[s]) = <<>>
  BY <1>0, <1>1, <1>2, ShortQueue
<1> HIDE DEF cf
<1>5. /\ c.state = "TX_BURST_PENDING" /\ c.tx.active /\ c.tx.phase # "DONE"
      /\ mac[s] = <<>> /\ cf.id = c.tx.id /\ (cf.ok \/ heard[e] = <<>>)
  <2>1. c.state = "TX_BURST_PENDING" /\ c.tx.active /\ c.tx.phase # "DONE"
    BY <1>1, <1>2 DEF Sending
  <2>2. PICK ok \in BOOLEAN :
          /\ mac[s] = <<>> /\ conf[s] = <<[id |-> c.tx.id, ok |-> ok]>>
          /\ ok \/ heard[e] = <<>>
    BY <1>1, <1>2, <2>1 DEF Sending
  <2>3. cf = [id |-> c.tx.id, ok |-> ok]
    BY <1>4, <2>2
  <2> QED  BY <2>1, <2>2, <2>3
<1>6. heard[s] = <<>>
  BY <1>1, <1>2 DEF Turns
<1>7. conf'[s] = <<>> /\ conf'[e] = conf[e]
  BY <1>0, <1>2, <1>4
<1>8. cf \in Confs /\ id \in 0..MaxId
  BY <1>0, <1>2, IdsFit DEF cf
<1>9. Follows(c, d, cf, id) /\ Apart(c, d)
  BY <1>0, <1>5, <1>8, HandleTxConfFollows
<1>10. Handled(d, id) /\ Became(s, d, id) /\ Charged(s, id)
  BY <1>3
<1> HIDE DEF d
<1>11. \A m \in Messages : ctx'[s].told[m] = "new" => ctx[s].told[m] = "new"
  BY SenderTells DEF Worker
<1>12. d.tx.active => d.tx.msg = c.tx.msg
  BY <1>9 DEF Follows, Ends, Restarts, Moves, Completes, NoTx
<1>13. SenderOnly(s, e)
  <2>1. e \in Radios \ {s}
    BY <1>0
  <2>2. ctx'[e] = ctx[e] /\ mac'[e] = mac[e] /\ batch'[e] = batch[e]
    BY <1>2, <1>10, <2>1 DEF Became
  <2>3. ctx'[s].tx = d.tx
    BY <1>10 DEF Became
  <2> QED  BY <1>2, <1>5, <1>7, <1>11, <1>12, <2>2, <2>3 DEF SenderOnly
<1>14. SenderConfirmed(s, e, cf, id, d)
  BY <1>2, <1>4, <1>5, <1>6, <1>7, <1>9, <1>10, <1>13 DEF SenderConfirmed, SenderRan
<1>15. Sending(s, e)'
  <2>1. Proceeds(c, d, id)
    BY <1>5, <1>9 DEF Proceeds, Follows
  <2>2. d.state # "TX_WAIT_SACK_DATA"
    BY <1>5, <1>9 DEF Follows, Ends, Restarts, Moves, Completes
  <2>3. Sound(d)
    BY <1>10 DEF Handled
  <2> QED  BY <1>0, <1>5, <1>7, <1>10, <1>13, <2>1, <2>2, <2>3, SenderProceeds
<1> QED  BY <1>14, <1>15

\* The transfer stays as it is.
LEMMA SenderStays ==
  ASSUME NEW s \in Radios, NEW e \in Radios, Sending(s, e), SenderOnly(s, e),
         ctx'[s].tx = ctx[s].tx, ctx'[s].state = ctx[s].state,
         mac'[s] = mac[s], conf'[s] = conf[s]
  PROVE  Sending(s, e)'
<1>1. heard'[e] = heard[e]
  BY DEF SenderOnly
<1> QED  BY <1>1 DEF Sending

\* It takes what it hears as a response or as a bitmap, or for nothing.
Heeded(c, d, u, s, id) ==
  \/ /\ d = c
     /\ u.kind = "rdata" => c.state # "TX_WAIT_SACK_DATA"
     /\ u.kind = "response" => ~Heedful(c, u, s)
  \/ /\ u.kind = "response" /\ Heedful(c, u, s)
     /\ \/ Ends(c, d)
        \/ u.class = "NACK" /\ Restarts(c, d, c.tx.list, id)
        \/ u.class = "SACK" /\ Announces(c, d, u.follow)
  \/ /\ u.kind = "rdata" /\ c.state = "TX_WAIT_SACK_DATA"
     /\ \/ Ends(c, d)
        \/ Collects(c, d, u.zeros)
        \/ \E list : Restarts(c, d, list, id)
SenderHeard(s, e, u, id, d) ==
  /\ heard[s] = <<u>> /\ heard'[s] = <<>> /\ heard[e] = <<>>
  /\ conf[s] = <<>> /\ conf' = conf /\ batch'[s] = Batch(s) \ {"rx"}
  /\ SenderRan(s, e, d, id) /\ Heeded(ctx[s], d, u, s, id)

LEMMA RxHeeded ==
  ASSUME NEW c, Sound(c), c.out = Silent, ~c.rx.active, NEW s \in Radios,
         NEW u \in Audible, u.kind \in {"response", "rdata"},
         NEW zeros \in Zeros(c, u), NEW id \in 0..MaxId
  PROVE  LET d == RxBurst(c, u, zeros, s, id)
         IN  /\ Heeded(c, d, u, s, id)
             /\ d.tx.active => c.tx.active /\ d.tx.msg = c.tx.msg
<1> DEFINE d == RxBurst(c, u, zeros, s, id)
<1>0. u \in Sent
  BY DEF Audible
<1>1. CASE u.kind = "response"
  <2>1. d = RxResponse(c, u, s, id)
    BY <1>1 DEF RxBurst, AwaitsBitmap
  <2>2. IF ~Heedful(c, u, s) THEN d = c
        ELSE \/ Ends(c, d)
             \/ u.class = "NACK" /\ Restarts(c, d, c.tx.list, id)
             \/ u.class = "SACK" /\ Announces(c, d, u.follow)
    BY <1>0, <1>1, <2>1, RxResponseFollows
  <2> HIDE DEF d
  <2>3. Heeded(c, d, u, s, id) /\ (d.tx.active => c.tx.active /\ d.tx.msg = c.tx.msg)
    BY <1>1, <2>2 DEF Heeded, Heedful, Ends, Restarts, Announces, NoTx
  <2> QED  BY <2>3 DEF d
<1>2. CASE u.kind = "rdata" /\ c.state = "TX_WAIT_SACK_DATA"
  <2>1. d = RxSackData(c, zeros, id)
    BY <1>2 DEF RxBurst, AwaitsBitmap
  <2>2. zeros \in SUBSET Nat /\ zeros = u.zeros
    BY <1>0, <1>2, ZerosFit DEF Zeros
  <2>3. Collects(c, d, u.zeros) \/ Ends(c, d) \/ \E list : Restarts(c, d, list, id)
    BY <1>2, <2>1, <2>2, RxSackDataFollows
  <2>4. c.tx.active
    BY <1>2 DEF Sound
  <2> HIDE DEF d
  <2>5. Heeded(c, d, u, s, id)
    BY <1>2, <2>3 DEF Heeded
  <2>6. d.tx.active => d.tx.msg = c.tx.msg
    BY <2>3 DEF Ends, Restarts, Collects, NoTx
  <2>7. Heeded(c, d, u, s, id) /\ (d.tx.active => c.tx.active /\ d.tx.msg = c.tx.msg)
    BY <2>4, <2>5, <2>6
  <2> QED  BY <2>7 DEF d
<1>3. CASE u.kind = "rdata" /\ c.state # "TX_WAIT_SACK_DATA"
  <2>0. d = RxBlock(c, LeadOf(u), id)
    BY <1>3 DEF RxBurst, AwaitsBitmap
  <2>1. d = c
    BY <2>0 DEF RxBlock
  <2> HIDE DEF d
  <2>2. Heeded(c, d, u, s, id) /\ (d.tx.active => c.tx.active /\ d.tx.msg = c.tx.msg)
    BY <1>3, <2>1 DEF Heeded
  <2> QED  BY <2>2 DEF d
<1> QED  BY <1>1, <1>2, <1>3

LEMMA SenderRx ==
  ASSUME NEW s \in Radios, NEW e \in Radios, Pair(s, e), PairInv(s, e),
         Lined(s, e), RxReady(s)
  PROVE  /\ \E u, id, d : SenderHeard(s, e, u, id, d)
         /\ Sending(s, e)'
<1> DEFINE c == ctx[s]
<1>0. /\ Radios = {s, e} /\ s # e /\ Typed /\ Sound(c) /\ c.out = Silent
      /\ ~c.rx.active /\ heard \in [Radios -> Seq(Audible)]
      /\ \A u \in Hears(s) : u.kind \in {"response", "rdata"}
  BY PairFacts
<1>1. Len(heard[s]) \in 0..1 /\ Sending(s, e) /\ Turns(s, e)
  BY DEF Lined, Turns
<1>2. /\ heard[s] # <<>> /\ Head(heard[s]) \in Audible
      /\ heard' = [heard EXCEPT ![s] = Tail(@)] /\ conf' = conf
      /\ batch'[s] = Batch(s) \ {"rx"}
      /\ \A p \in Radios \ {s} : batch'[p] = batch[p]
  BY <1>0, <1>1, RxBecame
<1> DEFINE u == Head(heard[s])
<1>3. PICK zeros \in Zeros(c, u), id \in Ids(s) :
        LET d == RxBurst(c, u, zeros, s, id)
        IN  Handled(d, id) /\ Became(s, d, id) /\ Charged(s, id)
  BY <1>0, <1>1, RxBecame
<1> DEFINE d == RxBurst(c, u, zeros, s, id)
<1>4. heard[s] = <<u>> /\ Tail(heard[s]) = <<>> /\ u \in Hears(s)
  BY <1>0, <1>1, <1>2, ShortQueue DEF Hears
<1>5. conf[s] = <<>> /\ heard[e] = <<>>
  BY <1>1, <1>2 DEF Turns
<1>6. heard'[s] = <<>> /\ heard'[e] = heard[e]
  BY <1>0, <1>2, <1>4
<1>7. u.kind \in {"response", "rdata"} /\ u \in Audible /\ id \in 0..MaxId
  BY <1>0, <1>2, <1>4, IdsFit
<1> HIDE DEF u
<1>8. Heeded(c, d, u, s, id) /\ (d.tx.active => c.tx.active /\ d.tx.msg = c.tx.msg)
  BY <1>0, <1>7, RxHeeded
<1>9. Handled(d, id) /\ Became(s, d, id) /\ Charged(s, id)
  BY <1>3
<1> HIDE DEF d
<1>10. \A m \in Messages : ctx'[s].told[m] = "new" => ctx[s].told[m] = "new"
  BY SenderTells DEF Worker
<1>11. SenderOnly(s, e)
  <2>1. e \in Radios \ {s}
    BY <1>0
  <2>2. ctx'[e] = ctx[e] /\ mac'[e] = mac[e] /\ batch'[e] = batch[e]
    BY <1>2, <1>9, <2>1 DEF Became
  <2>3. ctx'[s].tx = d.tx
    BY <1>9 DEF Became
  <2> QED  BY <1>2, <1>6, <1>8, <1>10, <2>2, <2>3 DEF SenderOnly
<1>12. SenderHeard(s, e, u, id, d)
  BY <1>2, <1>4, <1>5, <1>6, <1>8, <1>9, <1>11 DEF SenderHeard, SenderRan
<1>13. ASSUME d = c PROVE Sending(s, e)'
  <2>1. c.out = Silent
    BY <1>0
  <2> HIDE DEF c
  <2>2. /\ ctx'[s].tx = c.tx /\ ctx'[s].state = c.state /\ mac'[s] = mac[s]
    BY <1>9, <1>13, <2>1 DEF Became
  <2> USE DEF c
  <2> QED  BY <1>1, <1>2, <1>11, <2>2, SenderStays
<1>14. ASSUME d # c PROVE Sending(s, e)'
  <2>1. c.state \in {"TX_WAIT_ACK", "TX_WAIT_SACK_DATA"}
    BY <1>8, <1>14 DEF Heeded, Heedful
  <2>2. mac[s] = <<>>
    BY <1>1, <2>1 DEF Sending
  <2>3. Proceeds(c, d, id)
    BY <1>8, <1>14 DEF Proceeds, Heeded, Heedful
  <2>4. Sound(d)
    BY <1>9 DEF Handled
  <2>5. conf'[s] = <<>>
    BY <1>2, <1>5
  <2> QED  BY <1>0, <1>5, <1>9, <1>11, <2>2, <2>3, <2>4, <2>5, SenderProceeds
<1> QED  BY <1>12, <1>13, <1>14

\* The expiry of one of its timers is read.
SenderTimed(s, e, t, id, d) ==
  /\ t \in Batch(s) /\ conf' = conf /\ heard' = heard
  /\ batch'[s] = Batch(s) \ {t}
  /\ SenderRan(s, e, d, id)
  /\ \/ /\ mac'[s] = mac[s] /\ ctx'[s].tx = ctx[s].tx
        /\ ctx'[s].state = ctx[s].state /\ ctx'[s].tmr = Drain(ctx[s].tmr, t)
        /\ t = "response" =>
             ctx[s].state \notin {"TX_WAIT_ACK", "TX_WAIT_SACK_DATA"}
     \/ /\ t = "response" /\ ctx[s].state \in {"TX_WAIT_ACK", "TX_WAIT_SACK_DATA"}
        /\ Ends(ctx[s], d) \/ Restarts(ctx[s], d, ctx[s].tx.list, id)

LEMMA SenderTimer ==
  ASSUME NEW s \in Radios, NEW e \in Radios, Pair(s, e), PairInv(s, e),
         Lined(s, e), NEW t \in Timers, TimerReady(s, t)
  PROVE  /\ \E id, d : SenderTimed(s, e, t, id, d)
         /\ Sending(s, e)'
<1> DEFINE c == ctx[s]
           tm == Drain(c.tmr, t)
           x == [c EXCEPT !.tmr = tm]
<1>0. /\ Radios = {s, e} /\ s # e /\ Typed /\ Tracked /\ Sound(c)
      /\ c \in Context /\ c.out = Silent /\ ~c.rx.active
  BY PairFacts
<1>1. Sending(s, e) /\ Turns(s, e)
  BY DEF Lined
<1>2. /\ t \in Batch(s) /\ conf' = conf /\ heard' = heard
      /\ batch'[s] = Batch(s) \ {t}
      /\ \A p \in Radios \ {s} : batch'[p] = batch[p]
  BY <1>0, TimerBecame
<1>3. PICK id \in Ids(s) :
        LET d == TimerServed(s, t, id)
        IN  Handled(d, id) /\ Became(s, d, id) /\ Charged(s, id)
  BY <1>0, TimerBecame
<1> DEFINE d == TimerServed(s, t, id)
<1>4. Handled(d, id) /\ Became(s, d, id) /\ Charged(s, id) /\ id \in 0..MaxId
  BY <1>0, <1>3, IdsFit
<1>5. x = [c EXCEPT !.tmr = Drain(@, t)]
  BY <1>0 DEF Context
<1>6. tm \in [Timers -> Timer]
  BY <1>0, ContextFields, TimersTyped
<1>7. Sound(x) /\ x.out = Silent
  BY <1>0, <1>6, TimerHandled
<1>8. x.tx = c.tx /\ x.rx = c.rx /\ x.state = c.state /\ x.tmr = tm
  BY <1>0 DEF Context
<1>9. d = IF t = "response" THEN ResponseTimeout(x, id) ELSE RxStallTimeout(x)
  BY <1>5 DEF TimerServed
<1>10. c.state \in {"TX_WAIT_ACK", "TX_WAIT_SACK_DATA"} =>
         c.tx.active /\ Confirmed(c.tx.msg)
  BY <1>0 DEF Tracked, Attentive, AsksOnly, Sound
<1> DEFINE waits == c.state \in {"TX_WAIT_ACK", "TX_WAIT_SACK_DATA"}
<1> HIDE DEF x
<1>11. IF t = "response" /\ waits
         THEN Ends(x, d) \/ Restarts(x, d, x.tx.list, id)
         ELSE d = x
  <2>1. CASE t = "response"
    BY <1>4, <1>7, <1>8, <1>9, <1>10, <2>1, ResponseTimeoutFollows
  <2>2. CASE t # "response"
    BY <1>0, <1>8, <1>9, <2>2 DEF RxStallTimeout
  <2> QED  BY <2>1, <2>2
<1> HIDE DEF d
<1>12. IF t = "response" /\ waits
         THEN Ends(c, d) \/ Restarts(c, d, c.tx.list, id)
         ELSE d = x
  BY <1>8, <1>11 DEF Ends, Restarts
<1>13. d.tx.active => c.tx.active /\ d.tx.msg = c.tx.msg
  BY <1>8, <1>10, <1>12 DEF Ends, Restarts, NoTx
<1>14. \A m \in Messages : ctx'[s].told[m] = "new" => ctx[s].told[m] = "new"
  BY SenderTells DEF Worker
<1>15. SenderOnly(s, e)
  <2>1. e \in Radios \ {s}
    BY <1>0
  <2>2. ctx'[e] = ctx[e] /\ mac'[e] = mac[e] /\ batch'[e] = batch[e]
    BY <1>2, <1>4, <2>1 DEF Became
  <2>3. ctx'[s].tx = d.tx
    BY <1>4 DEF Became
  <2> QED  BY <1>2, <1>13, <1>14, <2>2, <2>3 DEF SenderOnly
<1>16. CASE t = "response" /\ waits
  <2>1. SenderTimed(s, e, t, id, d)
    BY <1>2, <1>4, <1>12, <1>15, <1>16 DEF SenderTimed, SenderRan
  <2>2. mac[s] = <<>> /\ conf'[s] = <<>>
    BY <1>1, <1>2, <1>16 DEF Sending
  <2>3. Proceeds(c, d, id) /\ Sound(d)
    BY <1>4, <1>12, <1>16 DEF Proceeds, Handled
  <2>4. d.state # "TX_WAIT_SACK_DATA"
    BY <1>12, <1>16 DEF Ends, Restarts
  <2>5. Sending(s, e)'
    BY <1>0, <1>4, <1>15, <2>2, <2>3, <2>4, SenderProceeds
  <2> QED  BY <2>1, <2>5
<1>17. CASE ~(t = "response" /\ waits)
  <2>1. /\ ctx'[s].tx = c.tx /\ ctx'[s].state = c.state /\ mac'[s] = mac[s]
        /\ ctx'[s].tmr = tm
    BY <1>4, <1>7, <1>8, <1>12, <1>17 DEF Became
  <2>2. SenderTimed(s, e, t, id, d)
    BY <1>2, <1>4, <1>15, <1>17, <2>1 DEF SenderTimed, SenderRan
  <2>3. conf'[s] = conf[s]
    BY <1>2
  <2>4. Sending(s, e)'
    BY <1>1, <1>15, <2>1, <2>3, SenderStays
  <2> QED  BY <2>2, <2>4
<1> QED  BY <1>16, <1>17

LEMMA SenderLined ==
  ASSUME NEW s \in Radios, NEW e \in Radios, Pair(s, e), PairInv(s, e),
         Lined(s, e), Worker(s)
  PROVE  Lined(s, e)'
<1>1. Sending(s, e)' /\ SenderOnly(s, e)
  <2>1. CASE ConfReady(s)
    BY <2>1, SenderConf DEF SenderConfirmed, SenderRan
  <2>2. CASE RxReady(s)
    BY <2>2, SenderRx DEF SenderHeard, SenderRan
  <2>3. CASE \E t \in Timers : TimerReady(s, t)
    BY <2>3, SenderTimer DEF SenderTimed, SenderRan
  <2> QED  BY <2>1, <2>2, <2>3 DEF Worker
<1> QED  BY <1>1, SenderKeepsRest DEF Lined

----------------------------------------------------------------------------
(* The numbers of a message's blocks.                                      *)

LEMMA LeadsOf ==
  ASSUME NEW m \in Messages
  PROVE  /\ NBlocks(m) \in Nat /\ DOMAIN Msg[m].blocks = 1..NBlocks(m)
         /\ \A i \in 1..NBlocks(m) :
              /\ Msg[m].blocks[i] \in Leads(m) /\ Msg[m].blocks[i].no \in Numbers(m)
              /\ Msg[m].blocks[i].no \in 0..127 /\ Msg[m].blocks[i].last \in BOOLEAN
         /\ \A lead \in Leads(m) : /\ lead.no \in Numbers(m)
                                   /\ \E i \in 1..NBlocks(m) : lead = Msg[m].blocks[i]
         /\ \A n \in Numbers(m) : \E i \in 1..NBlocks(m) : n = Msg[m].blocks[i].no
<1>1. Msg[m].blocks \in Seq(Lead)
  BY MsgAssumption
<1>2. /\ NBlocks(m) \in Nat /\ DOMAIN Msg[m].blocks = 1..NBlocks(m)
      /\ \A i \in 1..NBlocks(m) : Msg[m].blocks[i] \in Lead
  BY <1>1 DEF NBlocks
<1>3. \A i \in 1..NBlocks(m) :
        Msg[m].blocks[i].no \in 0..127 /\ Msg[m].blocks[i].last \in BOOLEAN
  BY <1>2 DEF Lead
<1> QED  BY <1>2, <1>3 DEF Leads, Numbers, Range

\* A message that is not cut short announces all its blocks.
LEMMA AllAnnounced ==
  ASSUME NEW m \in Messages, ~CutShort(m)
  PROVE  /\ Announced(m) = NBlocks(m) /\ NBlocks(m) \in Nat
         /\ \A i \in 1..(NBlocks(m) - 1) : ~Msg[m].blocks[i].last
<1>1. Announced(m) \in Nat /\ Announced(m) <= NBlocks(m) /\ NBlocks(m) \in Nat
  BY AnnouncedSmaller, NBlocksNat
<1> QED  BY <1>1 DEF CutShort

\* One that can be delivered has one block of each number, and no other.
LEMMA FairNumbers ==
  ASSUME NEW m \in Messages, Fair(m)
  PROVE  /\ Numbers(m) = 0..(NBlocks(m) - 1)
         /\ \A i, j \in 1..NBlocks(m) :
              Msg[m].blocks[i].no = Msg[m].blocks[j].no => i = j
<1> DEFINE n == NBlocks(m)
           S == 1..n
           T == Numbers(m)
           f == [i \in S |-> Msg[m].blocks[i].no]
<1>1. n \in Nat /\ 0..(n - 1) \subseteq T
  BY NBlocksNat DEF Fair, Whole
<1>2. f \in Surjection(S, T)
  <2>1. f \in [S -> T]
    BY LeadsOf
  <2>2. \A t \in T : \E i \in S : f[i] = t
    BY LeadsOf
  <2> QED  BY <2>1, <2>2 DEF Surjection
<1>3. IsFiniteSet(S) /\ Cardinality(S) = n
  BY <1>1, FS_Interval
<1>4. /\ IsFiniteSet(T) /\ Cardinality(T) <= Cardinality(S)
      /\ Cardinality(T) = Cardinality(S) <=> f \in Injection(S, T)
  BY <1>2, <1>3, FS_Surjection
<1>5. Cardinality(0..(n - 1)) = n
  BY <1>1, FS_Interval
<1>6. /\ Cardinality(0..(n - 1)) <= Cardinality(T)
      /\ Cardinality(T) = Cardinality(0..(n - 1)) => T = 0..(n - 1)
  BY <1>1, <1>4, FS_Subset
<1>7. Cardinality(T) \in Nat
  BY <1>4, FS_CardinalityType
<1>8. Cardinality(T) = n
  BY <1>1, <1>3, <1>4, <1>5, <1>6, <1>7
<1>9. f \in Injection(S, T)
  BY <1>3, <1>4, <1>8
<1>10. \A i, j \in S : f[i] = f[j] => i = j
  BY <1>9 DEF Injection, IsInjective
<1> QED  BY <1>5, <1>6, <1>8, <1>10

\* A set of numbers seen that is as large as what is announced is all of it.
LEMMA WholeSeen ==
  ASSUME NEW n \in Nat, NEW seen, seen \subseteq 0..(n - 1)
  PROVE  Cardinality(seen) >= n <=> 0..(n - 1) \ seen = {}
<1>1. IsFiniteSet(0..(n - 1)) /\ Cardinality(0..(n - 1)) = n
  BY FS_Interval
<1>2. /\ IsFiniteSet(seen) /\ Cardinality(seen) <= n
      /\ Cardinality(seen) = n => seen = 0..(n - 1)
  BY <1>1, FS_Subset
<1>3. Cardinality(seen) \in Nat
  BY <1>2, FS_CardinalityType
<1>4. ASSUME Cardinality(seen) >= n PROVE 0..(n - 1) \ seen = {}
  <2>1. Cardinality(seen) = n
    BY <1>2, <1>3, <1>4
  <2> QED  BY <1>2, <2>1
<1>5. ASSUME 0..(n - 1) \ seen = {} PROVE Cardinality(seen) >= n
  <2>1. seen = 0..(n - 1)
    BY <1>5
  <2> QED  BY <1>1, <2>1
<1> QED  BY <1>4, <1>5

----------------------------------------------------------------------------
(* What exactly the receiver's handlers leave.                             *)

\* The zeros of a bitmap: the blocks of its half that are missing.
Reports(rx, half) == {i % Half : i \in InHalf(rx.msg, half) \ rx.seen}

\* The reassembly is left alone; another begins; it is over, with a response
\* if one is wanted; a block is noted; a SACK is sent, or a bitmap that it
\* announced; the reassembly is dropped.
Keeps(c, d) ==
  d.rx = c.rx /\ d.copies = c.copies /\ d.out = Silent
Begins(c, d, m) ==
  /\ d.rx = Reassembly(m) /\ d.copies = c.copies /\ d.out = Silent
  /\ d.tmr["rx_stall"].kern = "running"
Concludes(c, d, m, delivers, failed, id) ==
  /\ d.rx = NoRx
  /\ d.copies = IF delivers THEN [c.copies EXCEPT ![m] = @ + 1] ELSE c.copies
  /\ d.out = IF Confirmed(m) /\ id # NoId
               THEN Response(m, IF failed THEN "NACK" ELSE "ACK", 0) ELSE Silent
Notes(c, d, lead) ==
  /\ d.rx = Accumulate(c.rx, lead) /\ d.copies = c.copies /\ d.out = Silent
  /\ d.tmr["rx_stall"].kern = "running"
Replies(c, d, lead, id) ==
  /\ d.copies = c.copies
  /\ IF id = NoId
       THEN /\ d.rx = [Accumulate(c.rx, lead) EXCEPT !.sack = NoSack]
            /\ d.out = Silent
       ELSE /\ d.rx = [Accumulate(c.rx, lead)
                         EXCEPT !.sack = [phase |-> 0, id |-> id]]
            /\ d.out = Response(c.rx.msg, "SACK", Bitmaps(c.rx.msg))
Maps(c, d, id) ==
  /\ d.copies = c.copies
  /\ \/ d.rx = [c.rx EXCEPT !.sack = NoSack] /\ d.out = Silent
     \/ /\ id # NoId /\ c.rx.sack.phase < Bitmaps(c.rx.msg)
        /\ d.rx = [c.rx EXCEPT !.sack = [phase |-> c.rx.sack.phase + 1, id |-> id]]
        /\ d.out = Rdata(Reports(c.rx, c.rx.sack.phase))
Drops(c, d) ==
  c.rx.active /\ d.rx = NoRx /\ d.copies = c.copies /\ d.out = Silent

LEMMA RxConcludeConcludes ==
  ASSUME NEW c \in Context, c.out = Silent, NEW delivers \in BOOLEAN, NEW id
  PROVE  Concludes(c, RxConclude(c, delivers, id), c.rx.msg, delivers,
                   c.rx.failed, id)
<1> DEFINE m == c.rx.msg
           x == IF delivers THEN Deliver(c, m) ELSE c
           y == [x EXCEPT !.rx = NoRx, !.state = "IDLE"]
           d == RxConclude(c, delivers, id)
<1>1. DOMAIN x = DOMAIN c /\ x = [f \in DOMAIN c |-> x[f]] /\ x.out = Silent
      /\ x.copies = IF delivers THEN [c.copies EXCEPT ![m] = @ + 1] ELSE c.copies
  BY DEF Context, Deliver
<1> HIDE DEF x
<1>2. /\ y.rx = NoRx /\ y.out = Silent /\ y.copies = x.copies
      /\ DOMAIN y = DOMAIN c /\ y = [f \in DOMAIN c |-> y[f]]
  BY <1>1 DEF Context
<1>3. d = IF Confirmed(m)
            THEN Respond(y, m, IF c.rx.failed THEN "NACK" ELSE "ACK", id)
            ELSE y
  BY DEF RxConclude, x
<1> HIDE DEF y
<1>4. d.rx = y.rx /\ d.copies = y.copies
      /\ d.out = IF Confirmed(m) /\ id # NoId
                   THEN Response(m, IF c.rx.failed THEN "NACK" ELSE "ACK", 0)
                   ELSE Silent
  BY <1>2, <1>3 DEF Respond, Context
<1> HIDE DEF d
<1>5. Concludes(c, d, m, delivers, c.rx.failed, id)
  BY <1>1, <1>2, <1>4 DEF Concludes
<1> QED  BY <1>5 DEF d

LEMMA RxStartLeaves ==
  ASSUME NEW c, Sound(c), c.out = Silent, NEW u \in Sent, u.kind = "header",
         NEW id \in 0..MaxId
  PROVE  LET d == RxStart(c, u, id)
         IN  \/ Continues(c, u) /\ Keeps(c, d)
             \/ /\ Announced(u.msg) = 0
                /\ Concludes(c, d, u.msg, TRUE, ~Msg[u.msg].fits, id)
             \/ Announced(u.msg) # 0 /\ Begins(c, d, u.msg)
<1> DEFINE d == RxStart(c, u, id)
           x == [c EXCEPT !.rx = Reassembly(u.msg)]
<1>1. c \in Context /\ SoundParts(c) /\ u.msg \in Messages
  BY SentFields DEF Sound, SoundParts
<1>2. /\ x \in Context /\ x.out = Silent /\ x.rx = Reassembly(u.msg)
      /\ x.tmr = c.tmr
  BY <1>1, ReassemblySound DEF SoundParts
<1>3. x.copies = c.copies
  BY <1>1 DEF Context
<1>4. c.tmr \in [Timers -> Timer] /\ "rx_stall" \in Timers
  BY <1>1, ContextFields DEF Timers
<1>5. CASE Continues(c, u)
  <2>1. d = [c EXCEPT !.tmr = Arm(@, "rx_stall", 0)]
    BY <1>5 DEF RxStart
  <2>2. Keeps(c, d)
    BY <1>1, <2>1 DEF Keeps, Context
  <2> QED  BY <1>5, <2>2
<1>6. CASE ~Continues(c, u) /\ Announced(u.msg) = 0
  <2>1. d = RxConclude(x, TRUE, id)
    BY <1>6 DEF RxStart
  <2>2. /\ Reassembly(u.msg).msg = u.msg
        /\ Reassembly(u.msg).failed = ~Msg[u.msg].fits
    BY DEF Reassembly
  <2>3. Concludes(x, d, u.msg, TRUE, ~Msg[u.msg].fits, id)
    BY <1>2, <2>1, <2>2, RxConcludeConcludes
  <2> HIDE DEF d, x
  <2>4. Concludes(c, d, u.msg, TRUE, ~Msg[u.msg].fits, id)
    BY <1>3, <2>3 DEF Concludes
  <2> QED  BY <1>6, <2>4 DEF d
<1>7. CASE ~Continues(c, u) /\ Announced(u.msg) # 0
  <2> DEFINE tm == Arm(c.tmr, "rx_stall", 0)
             y == [x EXCEPT !.state = "RX_REASSEMBLE", !.tmr = tm]
  <2>1. d = y
    BY <1>2, <1>7 DEF RxStart, Context
  <2>2. tm["rx_stall"].kern = "running"
    BY <1>4, ArmedRuns
  <2> HIDE DEF x, tm
  <2>3. y.rx = Reassembly(u.msg) /\ y.copies = c.copies /\ y.out = Silent /\ y.tmr = tm
    BY <1>2, <1>3 DEF Context
  <2>4. Begins(c, d, u.msg)
    BY <2>1, <2>2, <2>3 DEF Begins
  <2> QED  BY <1>7, <2>4
<1> QED  BY <1>5, <1>6, <1>7

LEMMA RxBlockLeaves ==
  ASSUME NEW c, Sound(c), c.out = Silent, c.rx.active, NEW lead,
         lead.no \in Nat, lead.last \in BOOLEAN, NEW id \in 0..MaxId
  PROVE  LET d == RxBlock(c, lead, id)
             rx == Accumulate(c.rx, lead)
             whole == Cardinality(rx.seen) >= Announced(c.rx.msg)
         IN  \/ ~lead.last /\ ~whole /\ Notes(c, d, lead)
             \/ /\ ~whole /\ ~rx.failed /\ Confirmed(c.rx.msg)
                /\ lead.last /\ Replies(c, d, lead, id)
             \/ /\ lead.last \/ whole
                /\ whole \/ rx.failed \/ ~Confirmed(c.rx.msg)
                /\ Concludes(c, d, c.rx.msg, whole /\ ~rx.failed, rx.failed, id)
<1> DEFINE d == RxBlock(c, lead, id)
           n == Noted(c, lead)
           rx == Accumulate(c.rx, lead)
           whole == Cardinality(rx.seen) >= Announced(c.rx.msg)
           sacks == ~whole /\ ~rx.failed /\ Confirmed(c.rx.msg)
<1>1. /\ Sound(n) /\ n.out = Silent /\ n.rx = rx /\ n.tmr = Arm(c.tmr, "rx_stall", 0)
      /\ n.rx.active /\ n.rx.msg = c.rx.msg /\ n.copies = c.copies
  BY NotedSound
<1>2. n \in Context
  BY <1>1 DEF Sound, SoundParts
<1>3. c.tmr \in [Timers -> Timer] /\ "rx_stall" \in Timers
  BY ContextFields DEF Timers, Sound, SoundParts
<1>4. n.tmr["rx_stall"].kern = "running"
  BY <1>1, <1>3, ArmedRuns
<1>5. rx \in Taking /\ rx.failed \in BOOLEAN
  BY <1>1, <1>2, ContextFields DEF Taking
<1> DEFINE f == [n EXCEPT !.tmr = Disarm(@, "rx_stall")]
<1>6. d = IF ~lead.last /\ ~whole THEN n
          ELSE IF sacks THEN SendSack(n, id)
          ELSE RxConclude(f, whole /\ ~rx.failed, id)
  BY <1>1 DEF RxBlock, Noted
<1> HIDE DEF n, rx
<1>7. CASE ~lead.last /\ ~whole
  <2>1. Notes(c, d, lead)
    BY <1>1, <1>4, <1>6, <1>7 DEF Notes, rx
  <2> QED  BY <1>7, <2>1 DEF rx
<1>8. CASE (lead.last \/ whole) /\ sacks
  <2>1. d = SendSack(n, id)
    BY <1>6, <1>8
  <2>2. /\ d.copies = c.copies
        /\ IF id = NoId
             THEN d.rx = [rx EXCEPT !.sack = NoSack] /\ d.out = Silent
             ELSE /\ d.rx = [rx EXCEPT !.sack = [phase |-> 0, id |-> id]]
                  /\ d.out = Response(c.rx.msg, "SACK", Bitmaps(c.rx.msg))
    BY <1>1, <1>2, <2>1 DEF SendSack, Context
  <2> HIDE DEF d
  <2>3. Replies(c, d, lead, id)
    BY <2>2 DEF Replies, rx
  <2> QED  BY <1>8, <2>3 DEF rx, d
<1>9. CASE (lead.last \/ whole) /\ ~sacks
  <2>1. d = RxConclude(f, whole /\ ~rx.failed, id)
    BY <1>6, <1>9
  <2>2. Disarm(n.tmr, "rx_stall") \in [Timers -> Timer]
    BY <1>2, <1>3, ContextFields, TimersTyped
  <2>3. f \in Context /\ f.out = Silent /\ f.rx = rx /\ f.copies = c.copies
    BY <1>1, <1>2, <2>2 DEF Context
  <2>4. rx.msg = c.rx.msg
    BY <1>1
  <2>5. (whole /\ ~rx.failed) \in BOOLEAN
    OBVIOUS
  <2> HIDE DEF f, d
  <2>6. Concludes(f, d, c.rx.msg, whole /\ ~rx.failed, rx.failed, id)
    BY <2>1, <2>3, <2>4, <2>5, RxConcludeConcludes
  <2>7. Concludes(c, d, c.rx.msg, whole /\ ~rx.failed, rx.failed, id)
    BY <2>3, <2>6 DEF Concludes
  <2> QED  BY <1>9, <2>7 DEF rx, d
<1> QED  BY <1>7, <1>8, <1>9

LEMMA HandleSackTxConfLeaves ==
  ASSUME NEW c, Sound(c), c.out = Silent, c.rx.active, NEW cf, NEW id
  PROVE  Maps(c, HandleSackTxConf(c, cf, id), id)
<1> DEFINE rx == c.rx
           zeros == Reports(rx, rx.sack.phase)
           x == [rx EXCEPT !.sack = NoSack]
           y == [rx EXCEPT !.sack = [phase |-> rx.sack.phase + 1, id |-> id]]
           d == HandleSackTxConf(c, cf, id)
<1>1. c \in Context /\ c.rx \in Taking
  BY ContextFields DEF Sound, SoundParts
<1>2. d = IF ~cf.ok \/ rx.sack.phase >= Bitmaps(rx.msg) \/ id = NoId
            THEN [c EXCEPT !.rx = x] ELSE [c EXCEPT !.rx = y, !.out = Rdata(zeros)]
  BY <1>1 DEF HandleSackTxConf, Context, Taking, Reports
<1>3. rx.sack.phase \in Int /\ Bitmaps(rx.msg) \in Int
  <2>1. rx.sack.phase \in 0..2
    BY <1>1 DEF Taking
  <2>2. Bitmaps(rx.msg) \in {1, 2}
    BY DEF Bitmaps
  <2> QED  BY <2>1, <2>2
<1> DEFINE w == Rdata(zeros)
<1> HIDE DEF x, y, w
<1>4. CASE ~cf.ok \/ rx.sack.phase >= Bitmaps(rx.msg) \/ id = NoId
  <2>1. d.rx = x /\ d.out = Silent /\ d.copies = c.copies
    BY <1>1, <1>2, <1>4 DEF Context
  <2> HIDE DEF d
  <2>2. Maps(c, d, id)
    BY <2>1 DEF Maps, x
  <2> QED  BY <2>2 DEF d
<1>5. CASE ~(~cf.ok \/ rx.sack.phase >= Bitmaps(rx.msg) \/ id = NoId)
  <2>1. d = [c EXCEPT !.rx = y, !.out = w]
    BY <1>2, <1>5 DEF w
  <2>2. d.rx = y /\ d.out = w /\ d.copies = c.copies
    BY <1>1, <2>1 DEF Context
  <2>3. rx.sack.phase < Bitmaps(rx.msg) /\ id # NoId
    BY <1>3, <1>5
  <2> HIDE DEF d
  <2>4. Maps(c, d, id)
    BY <2>2, <2>3 DEF Maps, y, w
  <2> QED  BY <2>4 DEF d
<1> QED  BY <1>4, <1>5

----------------------------------------------------------------------------
(* The receiver's steps keep all in line.                                  *)

\* The sender is left alone, and what the receiver has heard or had confirmed
\* becomes no more.
ReceiverOnly(s, e) ==
  /\ ctx'[s] = ctx[s] /\ mac'[s] = mac[s] /\ conf'[s] = conf[s]
  /\ heard'[s] = heard[s] /\ batch'[s] = batch[s]
  /\ conf'[e] \in {<<>>, conf[e]} /\ heard'[e] \in {<<>>, heard[e]}
ReceiverRan(s, e, d, id) ==
  /\ id \in Ids(e) /\ Handled(d, id) /\ Became(e, d, id) /\ Charged(e, id)
  /\ ReceiverOnly(s, e)

\* What it answers and delivers is in line with the messages.
Orderly(s, e, d, id) ==
  /\ d.rx.active /\ d.rx.sack # NoSack =>
       \/ d.out # Silent /\ d.rx.sack.id = id
       \/ d.out = Silent /\ ctx[e].rx.active /\ d.rx.sack = ctx[e].rx.sack
  /\ d.out # Silent => conf'[e] = <<>>
  /\ d.out.kind = "rdata" => mac[e] = <<>>
  /\ d.out.kind = "response" =>
       /\ d.out.to = s
       /\ ctx[s].tx.active /\ Fair(ctx[s].tx.msg) => d.out.class # "NACK"
  /\ d.rx.active =>
       /\ heard'[e] = <<>> \/ (ctx[e].rx.active /\ d.rx.msg = ctx[e].rx.msg)
       /\ d.rx.seen \subseteq Numbers(d.rx.msg)
       /\ ~Msg[d.rx.msg].fits => d.rx.failed
       /\ Fair(d.rx.msg) => ~d.rx.failed
  /\ \A m \in Messages :
       /\ ctx[s].told[m] = "new" => d.copies[m] = 0
       /\ ~CutShort(m) /\ ~Whole(m) => d.copies[m] = 0

LEMMA AppendedAt ==
  ASSUME NEW S, NEW q \in Seq(S), NEW x
  PROVE  /\ Len(Append(q, x)) = Len(q) + 1 /\ Len(q) \in Nat
         /\ DOMAIN q = 1..Len(q) /\ DOMAIN Append(q, x) = 1..(Len(q) + 1)
         /\ \A i \in 1..Len(q) : Append(q, x)[i] = q[i]
         /\ Append(q, x)[Len(q) + 1] = x
<1>1. q \in Seq(S \union {x}) /\ x \in S \union {x}
  OBVIOUS
<1> QED  BY <1>1

LEMMA ReceiverLines ==
  ASSUME NEW s \in Radios, NEW e \in Radios, Pair(s, e), PairInv(s, e),
         Lined(s, e), NEW id, NEW d, ReceiverRan(s, e, d, id), Orderly(s, e, d, id)
  PROVE  Lined(s, e)'
<1> DEFINE c == ctx[e]
           q == mac[e]
           x == [id |-> id, burst |-> d.out]
<1>0. Radios = {s, e} /\ s # e /\ Typed
  BY PairFacts
<1>1. ReceiverOnly(s, e) /\ Became(e, d, id)
  BY DEF ReceiverRan
<1>2. Turns(s, e) /\ Sending(s, e) /\ InLine(e) /\ Heeds(s, e)
  BY DEF Lined
<1>3. q \in Seq([id : 1..MaxId, burst : Sent \ {Silent}])
  BY <1>0 DEF Typed
<1>4. \/ d.out = Silent /\ mac'[e] = q
      \/ /\ d.out # Silent /\ \A i \in DOMAIN q : q[i].id # id
         /\ mac'[e] = Append(q, x)
  BY <1>1 DEF Became
<1>5. /\ Len(Append(q, x)) = Len(q) + 1 /\ Len(q) \in Nat
      /\ DOMAIN q = 1..Len(q) /\ DOMAIN Append(q, x) = 1..(Len(q) + 1)
      /\ \A i \in 1..Len(q) : Append(q, x)[i] = q[i]
      /\ Append(q, x)[Len(q) + 1] = x
  BY <1>3, AppendedAt
<1>6. /\ ctx'[e].rx = d.rx /\ ctx'[e].copies = d.copies
  BY <1>1 DEF Became
<1>7. Turns(s, e)'
  <2>1. Len(<<>>) \in 0..1
    OBVIOUS
  <2>2. \A r \in Radios : Len(conf'[r]) \in 0..1 /\ Len(heard'[r]) \in 0..1
    BY <1>0, <1>1, <1>2, <2>1 DEF Turns, ReceiverOnly
  <2> QED  BY <1>1, <1>2, <2>2 DEF Turns, ReceiverOnly
<1>8. Sending(s, e)'
  BY <1>1, <1>2 DEF Sending, ReceiverOnly
<1>9. InLine(e)'
  <2>1. ASSUME d.rx.active, d.rx.sack # NoSack
        PROVE  /\ \A i \in DOMAIN mac'[e] :
                    mac'[e][i].id = d.rx.sack.id => i = Len(mac'[e])
               /\ conf'[e] # <<>> /\ Head(conf'[e]).id = d.rx.sack.id =>
                    mac'[e] = <<>>
    <3>1. CASE d.out # Silent /\ d.rx.sack.id = id
      <4>1. x.id = id /\ mac'[e] = Append(q, x) /\ conf'[e] = <<>>
        BY <1>4, <3>1 DEF Orderly
      <4>2. \A i \in 1..Len(q) : q[i].id # id
        BY <1>4, <1>5, <3>1
      <4> HIDE DEF q, x
      <4>3. \A i \in DOMAIN mac'[e] : mac'[e][i].id = id => i = Len(mac'[e])
        BY <1>5, <4>1, <4>2
      <4> QED  BY <3>1, <4>1, <4>3
    <3>2. CASE d.out = Silent /\ c.rx.active /\ d.rx.sack = c.rx.sack
      <4>1. mac'[e] = mac[e] /\ conf'[e] \in {<<>>, conf[e]}
        BY <1>1, <1>4, <3>2 DEF ReceiverOnly
      <4>2. c.rx.sack # NoSack
        BY <2>1, <3>2
      <4> QED  BY <1>2, <3>2, <4>1, <4>2 DEF InLine
    <3> QED  BY <2>1, <3>1, <3>2 DEF Orderly
  <2>2. ASSUME NEW i \in DOMAIN mac'[e], mac'[e][i].burst.kind = "rdata"
        PROVE  i = 1
    <3>1. CASE mac'[e] = q
      BY <1>2, <2>2, <3>1 DEF InLine
    <3>2. CASE mac'[e] = Append(q, x) /\ i \in 1..Len(q)
      BY <1>2, <1>5, <2>2, <3>2 DEF InLine
    <3>3. CASE mac'[e] = Append(q, x) /\ i = Len(q) + 1
      <4>1. d.out.kind = "rdata"
        BY <1>5, <2>2, <3>3
      <4>2. q = <<>>
        BY <4>1 DEF Orderly
      <4>3. Len(q) = 0
        BY <4>2
      <4> QED  BY <3>3, <4>3
    <3> HIDE DEF q, x
    <3>4. i \in 1..Len(q) \/ i = Len(q) + 1 \/ mac'[e] = q
      BY <1>4, <1>5, <2>2
    <3> QED  BY <1>4, <3>1, <3>2, <3>3, <3>4
  <2> QED  BY <1>6, <2>1, <2>2 DEF InLine
<1>10. Heeds(s, e)'
  <2>1. \A u \in Hears(e)' : u \in Hears(e)
    BY <1>1, Singles DEF ReceiverOnly, Hears
  <2>2. heard'[e] = <<>> => Hears(e)' = {}
    BY Singles DEF Hears
  <2>3. Hears(s)' = Hears(s) /\ ctx'[s] = ctx[s]
    BY <1>1 DEF ReceiverOnly, Hears
  <2>4. \A u \in Asked(e)' : u \in Asked(e) \/ (u = d.out /\ u # Silent)
    <3>1. CASE mac'[e] = q
      BY <3>1 DEF Asked
    <3>2. CASE d.out # Silent /\ mac'[e] = Append(q, x)
      <4> HIDE DEF q
      <4>1. \A z \in Range(mac'[e]) : z \in Range(q) \/ z = x
        BY <1>5, <3>2 DEF Range
      <4> USE DEF q
      <4> QED  BY <3>2, <4>1 DEF Asked
    <3> QED  BY <1>4, <3>1, <3>2
  <2>5. \A u \in Hears(e)' : u.kind \in {"header", "block"}
    BY <1>2, <2>1 DEF Heeds
  <2>6. d.rx.active =>
          /\ \A u \in Hears(e)' : u.kind = "block" => u.lead \in Leads(d.rx.msg)
          /\ d.rx.seen \subseteq Numbers(d.rx.msg)
          /\ ~Msg[d.rx.msg].fits => d.rx.failed
          /\ Fair(d.rx.msg) => ~d.rx.failed
    BY <1>2, <2>1, <2>2 DEF Heeds, Orderly
  <2>7. \A m \in Messages :
          /\ ctx'[s].told[m] = "new" => d.copies[m] = 0
          /\ ~CutShort(m) /\ ~Whole(m) => d.copies[m] = 0
    BY <2>3 DEF Orderly
  <2>8. ctx'[s].tx.active /\ Fair(ctx'[s].tx.msg) =>
          \A u \in Asked(e)' \union Hears(s)' :
            u.kind = "response" => u.class # "NACK"
    BY <1>2, <2>3, <2>4 DEF Heeds, Orderly
  <2>9. \A u \in Asked(e)' \union Hears(s)' : u.kind = "response" => u.to = s
    BY <1>2, <2>3, <2>4 DEF Heeds, Orderly
  <2> QED  BY <1>6, <2>5, <2>6, <2>7, <2>8, <2>9 DEF Heeds
<1> QED  BY <1>7, <1>8, <1>9, <1>10 DEF Lined

\* A block of a message that can be delivered does not spoil it.
LEMMA AccumulateHeeds ==
  ASSUME NEW rx \in Taking, RxSound(rx), NEW lead \in Leads(rx.msg),
         rx.seen \subseteq Numbers(rx.msg),
         ~Msg[rx.msg].fits => rx.failed, Fair(rx.msg) => ~rx.failed
  PROVE  LET y == Accumulate(rx, lead)
         IN  /\ y.active /\ y.msg = rx.msg /\ y.sack = rx.sack /\ y \in Taking
             /\ y.seen \subseteq Numbers(rx.msg)
             /\ ~Msg[rx.msg].fits => y.failed
             /\ Fair(rx.msg) => ~y.failed /\ y.seen = rx.seen \union {lead.no}
<1> DEFINE y == Accumulate(rx, lead)
<1>1. rx.msg \in Messages
  BY DEF Taking
<1>2. lead.no \in Numbers(rx.msg) /\ lead.no \in Nat
  <2>1. PICK i \in 1..NBlocks(rx.msg) : lead = Msg[rx.msg].blocks[i]
    BY <1>1, LeadsOf, Zenon
  <2>2. lead.no \in Numbers(rx.msg) /\ lead.no \in 0..127
    BY <1>1, <2>1, LeadsOf
  <2> QED  BY <2>2
<1>3. /\ y \in Taking /\ y.msg = rx.msg /\ y.sack = rx.sack
      /\ y.active /\ y.seen \subseteq rx.seen \union {lead.no}
      /\ rx.failed => y.failed
  BY <1>2, AccumulateSound
<1>4. ASSUME Fair(rx.msg)
      PROVE  ~y.failed /\ y.seen = rx.seen \union {lead.no}
  <2>1. ~CutShort(rx.msg)
    BY <1>4 DEF Fair
  <2>2. Announced(rx.msg) = NBlocks(rx.msg) /\ NBlocks(rx.msg) \in Nat
    BY <1>1, <2>1, AllAnnounced
  <2>3. lead.no < Announced(rx.msg)
    BY <1>1, <1>2, <1>4, <2>2, FairNumbers
  <2>4. y = [rx EXCEPT !.seen = @ \union {lead.no}]
    BY <2>3 DEF Accumulate
  <2>5. y.failed = rx.failed /\ y.seen = rx.seen \union {lead.no}
    BY <2>4 DEF Taking
  <2> QED  BY <1>4, <2>5
<1> HIDE DEF y
<1>5. y.seen \subseteq Numbers(rx.msg)
  BY <1>2, <1>3
<1> QED  BY <1>3, <1>4, <1>5 DEF y

\* What is in line before the receiver's step.
Settled(s, e) ==
  /\ Heeds(s, e) /\ ctx[e] \in Context
  /\ ctx[e].rx.active => /\ ctx[e].rx \in Taking /\ ctx[e].rx.msg \in Messages
                         /\ RxSound(ctx[e].rx)
LEMMA PairSettled ==
  ASSUME NEW s \in Radios, NEW e \in Radios, Pair(s, e), PairInv(s, e),
         Lined(s, e)
  PROVE  Settled(s, e)
<1>1. ctx[e] \in Context /\ Sound(ctx[e])
  BY PairFacts
<1>2. ctx[e].rx.active => ctx[e].rx \in Taking
  BY <1>1, ContextFields
<1> QED  BY <1>1, <1>2 DEF Settled, Lined, Sound, SoundParts, Taking

LEMMA KeepsOrderly ==
  ASSUME NEW s, NEW e, Settled(s, e), NEW d, NEW id,
         Keeps(ctx[e], d) \/ Drops(ctx[e], d)
  PROVE  Orderly(s, e, d, id)
<1>1. Heeds(s, e)
  BY DEF Settled
<1>2. NoRx.active = FALSE /\ d.out = Silent /\ Silent.kind = "none"
  BY DEF NoRx, Keeps, Drops, Silent
<1> QED  BY <1>1, <1>2 DEF Heeds, Keeps, Drops, Orderly

LEMMA BeginsOrderly ==
  ASSUME NEW s, NEW e, Settled(s, e), NEW d, NEW id, NEW m \in Messages,
         Begins(ctx[e], d, m), heard'[e] = <<>>
  PROVE  Orderly(s, e, d, id)
<1>1. Heeds(s, e)
  BY DEF Settled
<1>2. d.out = Silent /\ Silent.kind = "none" /\ d.copies = ctx[e].copies
  BY DEF Begins, Silent
<1>3. /\ d.rx.active /\ d.rx.msg = m /\ d.rx.seen = {} /\ d.rx.sack = NoSack
      /\ d.rx.failed = ~Msg[m].fits
  BY DEF Begins, Reassembly
<1>4. Fair(m) => Msg[m].fits
  BY DEF Fair, Whole
<1> QED  BY <1>1, <1>2, <1>3, <1>4 DEF Heeds, Orderly

LEMMA NotesOrderly ==
  ASSUME NEW s, NEW e, Settled(s, e), NEW d, NEW id, ctx[e].rx.active,
         NEW lead \in Leads(ctx[e].rx.msg), Notes(ctx[e], d, lead)
  PROVE  Orderly(s, e, d, id)
<1> DEFINE rx == ctx[e].rx
           y == Accumulate(rx, lead)
<1>1. Heeds(s, e) /\ rx \in Taking /\ RxSound(rx)
  BY DEF Settled
<1>2. d.out = Silent /\ Silent.kind = "none" /\ d.copies = ctx[e].copies /\ d.rx = y
  BY DEF Notes, Silent
<1>3. /\ y.active /\ y.msg = rx.msg /\ y.sack = rx.sack
      /\ y.seen \subseteq Numbers(rx.msg)
      /\ ~Msg[rx.msg].fits => y.failed
      /\ Fair(rx.msg) => ~y.failed
  BY <1>1, AccumulateHeeds DEF Heeds
<1> HIDE DEF y
<1> QED  BY <1>1, <1>2, <1>3 DEF Heeds, Orderly

LEMMA RepliesOrderly ==
  ASSUME NEW s, NEW e, Settled(s, e), NEW d, NEW id, ctx[e].rx.active,
         NEW lead \in Leads(ctx[e].rx.msg), Replies(ctx[e], d, lead, id),
         Msg[ctx[e].rx.msg].from = s, conf'[e] = <<>>
  PROVE  Orderly(s, e, d, id)
<1> DEFINE rx == ctx[e].rx
           y == Accumulate(rx, lead)
<1>1. Heeds(s, e) /\ rx \in Taking /\ RxSound(rx)
  BY DEF Settled
<1>2. /\ y.active /\ y.msg = rx.msg /\ y.sack = rx.sack /\ y \in Taking
      /\ y.seen \subseteq Numbers(rx.msg)
      /\ ~Msg[rx.msg].fits => y.failed
      /\ Fair(rx.msg) => ~y.failed
  BY <1>1, AccumulateHeeds DEF Heeds
<1> DEFINE w == Response(rx.msg, "SACK", Bitmaps(rx.msg))
<1>3. w.kind = "response" /\ w.to = s /\ w.class = "SACK" /\ Silent.kind = "none"
  BY DEF Response, Silent
<1>4. /\ d.copies = ctx[e].copies
      /\ IF id = NoId THEN d.rx = [y EXCEPT !.sack = NoSack] /\ d.out = Silent
         ELSE d.rx = [y EXCEPT !.sack = [phase |-> 0, id |-> id]] /\ d.out = w
  BY DEF Replies
<1> HIDE DEF y, w
<1>5. /\ d.rx.active = y.active /\ d.rx.msg = y.msg /\ d.rx.seen = y.seen
      /\ d.rx.failed = y.failed
      /\ IF id = NoId THEN d.rx.sack = NoSack
         ELSE d.rx.sack = [phase |-> 0, id |-> id]
  BY <1>2, <1>4 DEF Taking
<1>6. /\ d.rx.sack # NoSack => d.out # Silent /\ d.rx.sack.id = id
      /\ d.out.kind \in {"none", "response"}
      /\ d.out.kind = "response" => d.out.to = s /\ d.out.class = "SACK"
  BY <1>3, <1>4, <1>5
<1>7. d.rx.active =>
        /\ d.rx.msg = rx.msg /\ d.rx.seen \subseteq Numbers(d.rx.msg)
        /\ ~Msg[d.rx.msg].fits => d.rx.failed
        /\ Fair(d.rx.msg) => ~d.rx.failed
  BY <1>2, <1>5
<1> QED  BY <1>1, <1>4, <1>6, <1>7 DEF Heeds, Orderly

LEMMA MapsOrderly ==
  ASSUME NEW s, NEW e, Settled(s, e), NEW d, NEW id, ctx[e].rx.active,
         Maps(ctx[e], d, id), mac[e] = <<>>, conf'[e] = <<>>
  PROVE  Orderly(s, e, d, id)
<1> DEFINE rx == ctx[e].rx
<1>1. Heeds(s, e) /\ rx \in Taking
  BY DEF Settled
<1>2. Silent.kind = "none"
  BY DEF Silent
<1>3. /\ d.rx.active = rx.active /\ d.rx.msg = rx.msg /\ d.rx.seen = rx.seen
      /\ d.rx.failed = rx.failed
      /\ \/ d.rx.sack = NoSack /\ d.out = Silent
         \/ d.out.kind = "rdata" /\ d.rx.sack.id = id
  <2>1. CASE d.rx = [rx EXCEPT !.sack = NoSack] /\ d.out = Silent
    BY <1>1, <2>1 DEF Taking
  <2>2. ASSUME NEW phase, d.rx = [rx EXCEPT !.sack = [phase |-> phase, id |-> id]]
        PROVE  /\ d.rx.active = rx.active /\ d.rx.msg = rx.msg
               /\ d.rx.seen = rx.seen /\ d.rx.failed = rx.failed
               /\ d.rx.sack.id = id
    <3> DEFINE k == [phase |-> phase, id |-> id]
    <3>1. k.id = id
      OBVIOUS
    <3> HIDE DEF k
    <3>2. d.rx = [rx EXCEPT !.sack = k]
      BY <2>2 DEF k
    <3> QED  BY <1>1, <3>1, <3>2 DEF Taking
  <2> DEFINE n == rx.sack.phase + 1
  <2>3. CASE d.rx = [rx EXCEPT !.sack = [phase |-> n, id |-> id]]
             /\ d.out = Rdata(Reports(rx, rx.sack.phase))
    <3>1. d.out.kind = "rdata"
      BY <2>3 DEF Rdata
    <3> HIDE DEF n
    <3> QED  BY <2>2, <2>3, <3>1
  <2> QED  BY <2>1, <2>3 DEF Maps
<1>4. d.copies = ctx[e].copies
  BY DEF Maps
<1> QED  BY <1>1, <1>2, <1>3, <1>4 DEF Heeds, Orderly

\* What is over is delivered whole, and is of a message that was accepted.
LEMMA ConcludesOrderly ==
  ASSUME NEW s, NEW e, Settled(s, e), NEW d, NEW id, NEW m \in Messages,
         NEW delivers \in BOOLEAN, NEW failed \in BOOLEAN,
         Concludes(ctx[e], d, m, delivers, failed, id),
         ctx[s].told[m] # "new", delivers /\ ~CutShort(m) => Whole(m),
         Fair(m) => ~failed, ctx[s].tx.active => m = ctx[s].tx.msg,
         Msg[m].from = s, conf'[e] = <<>>
  PROVE  Orderly(s, e, d, id)
<1> DEFINE w == Response(m, IF failed THEN "NACK" ELSE "ACK", 0)
<1>1. Heeds(s, e) /\ ctx[e].copies \in [Messages -> Nat]
  BY ContextFields DEF Settled
<1>2. /\ w.kind = "response" /\ w.to = s /\ Silent.kind = "none"
      /\ w.class = IF failed THEN "NACK" ELSE "ACK"
  BY DEF Response, Silent
<1>3. d.rx = NoRx /\ NoRx.active = FALSE /\ d.out \in {w, Silent}
  BY DEF Concludes, NoRx
<1> HIDE DEF w
<1>4. /\ d.out.kind \in {"response", "none"}
      /\ d.out.kind = "response" => d.out.to = s
      /\ d.out.kind = "response" /\ Fair(m) => d.out.class = "ACK"
  BY <1>2, <1>3
<1>5. \A k \in Messages : k # m \/ ~delivers => d.copies[k] = ctx[e].copies[k]
  BY <1>1 DEF Concludes
<1>6. \A k \in Messages :
        /\ ctx[s].told[k] = "new" => d.copies[k] = 0
        /\ ~CutShort(k) /\ ~Whole(k) => d.copies[k] = 0
  BY <1>1, <1>5 DEF Heeds
<1> QED  BY <1>3, <1>4, <1>6 DEF Orderly

----------------------------------------------------------------------------
(* The receiver's steps, one by one.                                       *)

\* It takes the confirmation of a burst of its SACK, or of another answer.
ReceiverConfirmed(s, e, cf, id, d) ==
  /\ conf[e] = <<cf>> /\ conf'[e] = <<>> /\ conf[s] = <<>>
  /\ heard[e] = <<>> /\ heard' = heard
  /\ batch'[e] = Batch(e) \ {"conf"} /\ ReceiverRan(s, e, d, id)
  /\ \/ Keeps(ctx[e], d) /\ d.tmr = ctx[e].tmr
     \/ OwnSack(ctx[e], cf) /\ Maps(ctx[e], d, id)

LEMMA ReceiverConf ==
  ASSUME NEW s \in Radios, NEW e \in Radios, Pair(s, e), PairInv(s, e),
         Lined(s, e), ConfReady(e)
  PROVE  /\ \E cf, id, d : ReceiverConfirmed(s, e, cf, id, d)
         /\ Lined(s, e)'
<1> DEFINE c == ctx[e]
<1>0. /\ Radios = {s, e} /\ s # e /\ Typed /\ Sound(c) /\ c.out = Silent
      /\ ~c.tx.active /\ conf \in [Radios -> Seq(Confs)]
  BY PairFacts
<1>1. Len(conf[e]) \in 0..1 /\ Turns(s, e) /\ InLine(e)
  BY DEF Lined, Turns
<1>2. /\ conf[e] # <<>> /\ Head(conf[e]) \in Confs
      /\ conf' = [conf EXCEPT ![e] = Tail(@)] /\ heard' = heard
      /\ batch'[e] = Batch(e) \ {"conf"}
      /\ \A p \in Radios \ {e} : batch'[p] = batch[p]
  BY <1>0, <1>1, ConfBecame
<1> DEFINE cf == Head(conf[e])
<1>3. PICK id \in Ids(e) :
        LET d == HandleTxConf(c, cf, id)
        IN  Handled(d, id) /\ Became(e, d, id) /\ Charged(e, id)
  BY <1>0, <1>1, ConfBecame
<1> DEFINE d == HandleTxConf(c, cf, id)
<1>4. conf[e] = <<cf>> /\ Tail(conf[e]) = <<>>
  BY <1>0, <1>1, <1>2, ShortQueue
<1>5. conf[s] = <<>> /\ heard[e] = <<>>
  BY <1>1, <1>2 DEF Turns
<1>6. conf'[e] = <<>> /\ conf'[s] = conf[s]
  BY <1>0, <1>2, <1>4
<1>7. IF OwnSack(c, cf) THEN c.rx.active /\ mac[e] = <<>> /\ Maps(c, d, id)
                        ELSE d = c
  <2>1. CASE OwnSack(c, cf)
    <3>1. d = HandleSackTxConf(c, cf, id) /\ c.rx.active /\ c.rx.sack # NoSack
          /\ cf.id = c.rx.sack.id
      BY <2>1 DEF HandleTxConf, OwnSack
    <3>2. mac[e] = <<>>
      BY <1>1, <1>2, <3>1 DEF InLine
    <3> QED  BY <1>0, <2>1, <3>1, <3>2, HandleSackTxConfLeaves
  <2>2. CASE ~OwnSack(c, cf)
    BY <1>0, <2>2 DEF HandleTxConf
  <2> QED  BY <2>1, <2>2
<1>8. Handled(d, id) /\ Became(e, d, id) /\ Charged(e, id)
  BY <1>3
<1> HIDE DEF d, cf
<1>9. ReceiverOnly(s, e)
  <2>1. s \in Radios \ {e}
    BY <1>0
  <2>2. ctx'[s] = ctx[s] /\ mac'[s] = mac[s] /\ batch'[s] = batch[s]
    BY <1>2, <1>8, <2>1 DEF Became
  <2> QED  BY <1>2, <1>6, <2>2 DEF ReceiverOnly
<1>10. ReceiverRan(s, e, d, id)
  BY <1>8, <1>9 DEF ReceiverRan
<1>11. d = c => Keeps(c, d) /\ d.tmr = c.tmr
  BY <1>0 DEF Keeps
<1>12. ReceiverConfirmed(s, e, cf, id, d)
  BY <1>2, <1>4, <1>5, <1>6, <1>7, <1>10, <1>11 DEF ReceiverConfirmed
<1>13. Orderly(s, e, d, id)
  <2>1. Settled(s, e)
    BY PairSettled
  <2> QED  BY <1>6, <1>7, <1>11, <2>1, KeepsOrderly, MapsOrderly
<1> QED  BY <1>10, <1>12, <1>13, ReceiverLines

\* It reads the expiry of one of its timers.
ReceiverTimed(s, e, t, id, d) ==
  /\ t \in Batch(e) /\ conf' = conf /\ heard' = heard
  /\ batch'[e] = Batch(e) \ {t} /\ ReceiverRan(s, e, d, id)
  /\ \/ /\ Keeps(ctx[e], d) /\ d.tmr = Drain(ctx[e].tmr, t)
        /\ t = "rx_stall" => ~ctx[e].rx.active
     \/ t = "rx_stall" /\ Drops(ctx[e], d)

LEMMA ReceiverTimer ==
  ASSUME NEW s \in Radios, NEW e \in Radios, Pair(s, e), PairInv(s, e),
         Lined(s, e), NEW t \in Timers, TimerReady(e, t)
  PROVE  /\ \E id, d : ReceiverTimed(s, e, t, id, d)
         /\ Lined(s, e)'
<1> DEFINE c == ctx[e]
           tm == Drain(c.tmr, t)
           x == [c EXCEPT !.tmr = tm]
<1>0. /\ Radios = {s, e} /\ s # e /\ Typed /\ OneWayFrom(s) /\ Sound(c)
      /\ c \in Context /\ c.out = Silent /\ ~c.tx.active
  BY PairFacts DEF Sound, SoundParts
<1>1. Listening(c)
  BY <1>0 DEF OneWayFrom
<1>2. /\ t \in Batch(e) /\ conf' = conf /\ heard' = heard
      /\ batch'[e] = Batch(e) \ {t}
      /\ \A p \in Radios \ {e} : batch'[p] = batch[p]
  BY <1>0, TimerBecame
<1>3. PICK id \in Ids(e) :
        LET d == TimerServed(e, t, id)
        IN  Handled(d, id) /\ Became(e, d, id) /\ Charged(e, id)
  BY <1>0, TimerBecame
<1> DEFINE d == TimerServed(e, t, id)
<1>4. Handled(d, id) /\ Became(e, d, id) /\ Charged(e, id)
  BY <1>3
<1>5. x = [c EXCEPT !.tmr = Drain(@, t)]
  BY <1>0 DEF Context
<1>6. tm \in [Timers -> Timer]
  BY <1>0, ContextFields, TimersTyped
<1>7. x \in Context /\ x.out = Silent
  BY <1>0, <1>6, TimerHandled DEF Sound, SoundParts
<1>8. x.tx = c.tx /\ x.rx = c.rx /\ x.state = c.state /\ x.tmr = tm
      /\ x.copies = c.copies
  BY <1>0 DEF Context
<1>9. d = IF t = "response" THEN ResponseTimeout(x, id) ELSE RxStallTimeout(x)
  BY <1>5 DEF TimerServed
<1> HIDE DEF d, x, tm
<1>10. \/ Keeps(c, d) /\ d.tmr = tm /\ (t = "rx_stall" => ~c.rx.active)
       \/ t = "rx_stall" /\ Drops(c, d)
  <2>1. CASE t = "response"
    <3>1. d = x
      BY <1>0, <1>8, <1>9, <2>1 DEF ResponseTimeout
    <3> QED  BY <1>7, <1>8, <2>1, <3>1 DEF Keeps
  <2>2. CASE t = "rx_stall" /\ ~c.rx.active
    <3>1. d = x
      BY <1>8, <1>9, <2>2 DEF RxStallTimeout
    <3> QED  BY <1>7, <1>8, <2>2, <3>1 DEF Keeps
  <2>3. CASE t = "rx_stall" /\ c.rx.active
    <3>1. c.state = "RX_REASSEMBLE"
      BY <1>1, <2>3 DEF Listening
    <3>2. d = [x EXCEPT !.rx = NoRx, !.state = "IDLE"]
      BY <1>8, <1>9, <2>3, <3>1 DEF RxStallTimeout
    <3>3. d.rx = NoRx /\ d.copies = x.copies /\ d.out = x.out
      BY <1>7, <3>2 DEF Context
    <3> QED  BY <1>7, <1>8, <2>3, <3>3 DEF Drops
  <2> QED  BY <2>1, <2>2, <2>3 DEF Timers
<1>11. ReceiverOnly(s, e)
  <2>1. s \in Radios \ {e}
    BY <1>0
  <2>2. ctx'[s] = ctx[s] /\ mac'[s] = mac[s] /\ batch'[s] = batch[s]
    BY <1>2, <1>4, <2>1 DEF Became
  <2> QED  BY <1>2, <2>2 DEF ReceiverOnly
<1>12. ReceiverRan(s, e, d, id)
  BY <1>4, <1>11 DEF ReceiverRan
<1>13. ReceiverTimed(s, e, t, id, d)
  BY <1>2, <1>10, <1>12 DEF ReceiverTimed, tm
<1>14. Orderly(s, e, d, id)
  BY <1>10, PairSettled, KeepsOrderly
<1> QED  BY <1>12, <1>13, <1>14, ReceiverLines

\* It takes a header, or a block of what it reassembles.
TakesHeader(c, d, u, id) ==
  \/ Continues(c, u) /\ Keeps(c, d)
  \/ /\ Announced(u.msg) = 0
     /\ Concludes(c, d, u.msg, TRUE, ~Msg[u.msg].fits, id)
  \/ Announced(u.msg) # 0 /\ Begins(c, d, u.msg)
TakesBlock(c, d, lead, id) ==
  LET rx == Accumulate(c.rx, lead)
      whole == Cardinality(rx.seen) >= Announced(c.rx.msg)
  IN  \/ ~lead.last /\ ~whole /\ Notes(c, d, lead)
      \/ /\ ~whole /\ ~rx.failed /\ Confirmed(c.rx.msg)
         /\ lead.last /\ Replies(c, d, lead, id)
      \/ /\ lead.last \/ whole
         /\ whole \/ rx.failed \/ ~Confirmed(c.rx.msg)
         /\ Concludes(c, d, c.rx.msg, whole /\ ~rx.failed, rx.failed, id)
ReceiverHeard(s, e, u, id, d) ==
  /\ heard[e] = <<u>> /\ heard'[e] = <<>> /\ heard[s] = <<>>
  /\ conf[e] = <<>> /\ conf' = conf
  /\ batch'[e] = Batch(e) \ {"rx"} /\ ReceiverRan(s, e, d, id)
  /\ \/ u.kind = "header" /\ u.msg \in Messages /\ TakesHeader(ctx[e], d, u, id)
     \/ u.kind = "block" /\ ~ctx[e].rx.active /\ Keeps(ctx[e], d)
     \/ /\ u.kind = "block" /\ ctx[e].rx.active
        /\ u.lead \in Leads(ctx[e].rx.msg) /\ TakesBlock(ctx[e], d, u.lead, id)

LEMMA RxTakes ==
  ASSUME NEW c, Sound(c), c.out = Silent, ~c.tx.active, NEW u \in Audible,
         u.kind \in {"header", "block"}, NEW zeros, NEW r, NEW id \in 0..MaxId
  PROVE  LET d == RxBurst(c, u, zeros, r, id)
         IN  \/ u.kind = "header" /\ u.msg \in Messages /\ TakesHeader(c, d, u, id)
             \/ u.kind = "block" /\ ~c.rx.active /\ Keeps(c, d)
             \/ u.kind = "block" /\ c.rx.active /\ TakesBlock(c, d, u.lead, id)
<1> DEFINE d == RxBurst(c, u, zeros, r, id)
<1>0. u \in Sent
  BY DEF Audible
<1>1. CASE u.kind = "header"
  <2>1. d = RxStart(c, u, id)
    BY <1>1 DEF RxBurst, AwaitsBitmap
  <2>2. u.msg \in Messages
    BY <1>0, <1>1, SentFields
  <2>3. TakesHeader(c, d, u, id)
    BY <1>0, <1>1, <2>1, RxStartLeaves DEF TakesHeader
  <2> QED  BY <1>1, <2>2, <2>3
<1>2. CASE u.kind = "block"
  <2>1. c.state # "TX_WAIT_SACK_DATA"
    BY DEF Sound
  <2>2. LeadOf(u) = u.lead
    BY <1>2 DEF LeadOf
  <2>3. d = RxBlock(c, LeadOf(u), id)
    BY <1>2, <2>1 DEF RxBurst, AwaitsBitmap
  <2>4. CASE ~c.rx.active
    <3>1. d = c
      BY <2>3, <2>4 DEF RxBlock
    <3> HIDE DEF d
    <3>2. Keeps(c, d)
      BY <3>1 DEF Keeps
    <3> QED  BY <1>2, <2>4, <3>2 DEF d
  <2>5. CASE c.rx.active
    <3>1. LeadOf(u).no \in Nat /\ LeadOf(u).last \in BOOLEAN
      BY <1>0, <1>2, LeadFits
    <3>2. TakesBlock(c, d, u.lead, id)
      BY <2>2, <2>3, <2>5, <3>1, RxBlockLeaves DEF TakesBlock
    <3> QED  BY <1>2, <2>5, <3>2
  <2> QED  BY <2>4, <2>5
<1> QED  BY <1>1, <1>2

LEMMA LeadNumber ==
  ASSUME NEW m \in Messages, NEW lead \in Leads(m)
  PROVE  lead.no \in Nat /\ lead.last \in BOOLEAN /\ lead.no \in Numbers(m)
<1>1. PICK i \in 1..NBlocks(m) : lead = Msg[m].blocks[i]
  BY LeadsOf
<1>2. /\ lead.no \in 0..127 /\ lead.last \in BOOLEAN /\ lead.no \in Numbers(m)
  BY <1>1, LeadsOf
<1>3. \A n \in 0..127 : n \in Nat
  OBVIOUS
<1> QED  BY <1>2, <1>3

\* Nothing of an empty message is missing, and it fits.
LEMMA EmptyFits ==
  ASSUME NEW m \in Messages, NBlocks(m) = 0
  PROVE  Msg[m].fits /\ Whole(m)
<1>1. Msg[m].blocks \in Seq(Lead)
  BY MsgAssumption
<1>2. Msg[m].blocks = <<>>
  BY <1>1 DEF NBlocks
<1>3. Msg[m].fits
  BY <1>2, MsgAssumption
<1>4. 0..(NBlocks(m) - 1) = {}
  OBVIOUS
<1> QED  BY <1>3, <1>4 DEF Whole

LEMMA HeaderOrderly ==
  ASSUME NEW s, NEW e, Settled(s, e), NEW d, NEW id, NEW u,
         u.msg \in Messages, TakesHeader(ctx[e], d, u, id),
         ctx[s].told[u.msg] # "new", ctx[s].tx.active => u.msg = ctx[s].tx.msg,
         Msg[u.msg].from = s, conf'[e] = <<>>, heard'[e] = <<>>
  PROVE  Orderly(s, e, d, id)
<1> DEFINE m == u.msg
<1>1. CASE Keeps(ctx[e], d)
  BY <1>1, KeepsOrderly
<1>2. CASE Begins(ctx[e], d, m)
  BY <1>2, BeginsOrderly
<1>3. CASE Announced(m) = 0 /\ Concludes(ctx[e], d, m, TRUE, ~Msg[m].fits, id)
  <2>1. ~CutShort(m) => Whole(m)
    BY <1>3, AllAnnounced, EmptyFits
  <2>2. Fair(m) => Msg[m].fits
    BY DEF Fair, Whole
  <2> QED  BY <1>3, <2>1, <2>2, ConcludesOrderly
<1> QED  BY <1>1, <1>2, <1>3 DEF TakesHeader

LEMMA BlockOrderly ==
  ASSUME NEW s, NEW e, Settled(s, e), NEW d, NEW id, ctx[e].rx.active,
         NEW lead \in Leads(ctx[e].rx.msg), TakesBlock(ctx[e], d, lead, id),
         ctx[s].told[ctx[e].rx.msg] # "new",
         ctx[s].tx.active => ctx[e].rx.msg = ctx[s].tx.msg,
         Msg[ctx[e].rx.msg].from = s, conf'[e] = <<>>
  PROVE  Orderly(s, e, d, id)
<1> DEFINE m == ctx[e].rx.msg
           y == Accumulate(ctx[e].rx, lead)
           whole == Cardinality(y.seen) >= Announced(m)
<1>1. CASE Notes(ctx[e], d, lead)
  BY <1>1, NotesOrderly
<1>2. CASE Replies(ctx[e], d, lead, id)
  BY <1>2, RepliesOrderly
<1>3. CASE Concludes(ctx[e], d, m, whole /\ ~y.failed, y.failed, id)
  <2>1. /\ m \in Messages /\ ctx[e].rx \in Taking /\ RxSound(ctx[e].rx)
        /\ Heeds(s, e)
    BY DEF Settled
  <2>2. lead.no \in Nat
    BY <2>1, LeadNumber
  <2>3. /\ y \in Taking /\ RxSound(y) /\ y.msg = m
    BY <2>1, <2>2, AccumulateSound
  <2>4. /\ y.seen \subseteq Numbers(m) /\ (~Msg[m].fits => y.failed)
        /\ Fair(m) => ~y.failed
    BY <2>1, AccumulateHeeds DEF Heeds
  <2>5. y.failed \in BOOLEAN
    BY <2>3 DEF Taking
  <2> HIDE DEF y
  <2>6. ASSUME whole, ~y.failed, ~CutShort(m) PROVE Whole(m)
    <3>1. Announced(m) = NBlocks(m) /\ NBlocks(m) \in Nat
      BY <2>1, <2>6, AllAnnounced
    <3>2. y.seen \subseteq 0..(NBlocks(m) - 1)
      BY <2>3, <3>1 DEF RxSound
    <3>3. 0..(NBlocks(m) - 1) \ y.seen = {}
      BY <2>6, <3>1, <3>2, WholeSeen
    <3> QED  BY <2>4, <2>6, <3>3 DEF Whole
  <2>7. (whole /\ ~y.failed) \in BOOLEAN
    OBVIOUS
  <2> QED  BY <1>3, <2>1, <2>4, <2>5, <2>6, <2>7, ConcludesOrderly
<1> QED  BY <1>1, <1>2, <1>3 DEF TakesBlock

LEMMA ReceiverRx ==
  ASSUME NEW s \in Radios, NEW e \in Radios, Pair(s, e), PairInv(s, e),
         Lined(s, e), RxReady(e)
  PROVE  /\ \E u, id, d : ReceiverHeard(s, e, u, id, d)
         /\ Lined(s, e)'
<1> DEFINE c == ctx[e]
<1>0. /\ Radios = {s, e} /\ s # e /\ Typed /\ Sound(c) /\ c.out = Silent
      /\ ~c.tx.active /\ heard \in [Radios -> Seq(Audible)] /\ Current(s, e)
      /\ \A m \in Messages : Msg[m].from = s
  BY PairFacts
<1>1. Len(heard[e]) \in 0..1 /\ Turns(s, e) /\ Heeds(s, e)
  BY DEF Lined, Turns
<1>2. /\ heard[e] # <<>> /\ Head(heard[e]) \in Audible
      /\ heard' = [heard EXCEPT ![e] = Tail(@)] /\ conf' = conf
      /\ batch'[e] = Batch(e) \ {"rx"}
      /\ \A p \in Radios \ {e} : batch'[p] = batch[p]
  BY <1>0, <1>1, RxBecame
<1> DEFINE u == Head(heard[e])
<1>3. PICK zeros \in Zeros(c, u), id \in Ids(e) :
        LET d == RxBurst(c, u, zeros, e, id)
        IN  Handled(d, id) /\ Became(e, d, id) /\ Charged(e, id)
  BY <1>0, <1>1, RxBecame
<1> DEFINE d == RxBurst(c, u, zeros, e, id)
<1>4. heard[e] = <<u>> /\ Tail(heard[e]) = <<>> /\ u \in Hears(e)
  BY <1>0, <1>1, <1>2, ShortQueue DEF Hears
<1>5. conf[e] = <<>> /\ heard[s] = <<>>
  BY <1>1, <1>2 DEF Turns
<1>6. heard'[e] = <<>> /\ heard'[s] = heard[s]
  BY <1>0, <1>2, <1>4
<1>7. u.kind \in {"header", "block"} /\ u \in Audible /\ id \in 0..MaxId
  BY <1>0, <1>1, <1>2, <1>4, IdsFit DEF Heeds
<1>8. u.kind = "block" /\ c.rx.active => u.lead \in Leads(c.rx.msg)
  BY <1>1, <1>4 DEF Heeds
<1> HIDE DEF u
<1>9. \/ u.kind = "header" /\ u.msg \in Messages /\ TakesHeader(c, d, u, id)
      \/ u.kind = "block" /\ ~c.rx.active /\ Keeps(c, d)
      \/ u.kind = "block" /\ c.rx.active /\ TakesBlock(c, d, u.lead, id)
  BY <1>0, <1>7, RxTakes
<1>10. Handled(d, id) /\ Became(e, d, id) /\ Charged(e, id)
  BY <1>3
<1> HIDE DEF d
<1>11. ReceiverOnly(s, e)
  <2>1. s \in Radios \ {e}
    BY <1>0
  <2>2. ctx'[s] = ctx[s] /\ mac'[s] = mac[s] /\ batch'[s] = batch[s]
    BY <1>2, <1>10, <2>1 DEF Became
  <2> QED  BY <1>2, <1>6, <2>2 DEF ReceiverOnly
<1>12. ReceiverRan(s, e, d, id)
  BY <1>10, <1>11 DEF ReceiverRan
<1>13. ReceiverHeard(s, e, u, id, d)
  BY <1>2, <1>4, <1>5, <1>6, <1>8, <1>9, <1>12 DEF ReceiverHeard
<1>14. Settled(s, e) /\ conf'[e] = <<>>
  BY <1>2, <1>5, PairSettled
<1>15. Orderly(s, e, d, id)
  <2>1. CASE u.kind = "header" /\ u.msg \in Messages /\ TakesHeader(c, d, u, id)
    <3>1. u.msg \in Abroad(s, e)
      BY <1>4, <2>1 DEF Abroad, HeadersTo
    <3>2. ctx[s].told[u.msg] # "new" /\ (ctx[s].tx.active => u.msg = ctx[s].tx.msg)
      BY <1>0, <3>1 DEF Current
    <3> QED  BY <1>0, <1>6, <1>14, <2>1, <3>2, HeaderOrderly
  <2>2. CASE u.kind = "block" /\ ~c.rx.active /\ Keeps(c, d)
    BY <1>14, <2>2, KeepsOrderly
  <2>3. CASE u.kind = "block" /\ c.rx.active /\ TakesBlock(c, d, u.lead, id)
    <3>1. c.rx.msg \in Abroad(s, e)
      BY <2>3 DEF Abroad
    <3>2. /\ ctx[s].told[c.rx.msg] # "new" /\ c.rx.msg \in Messages
          /\ ctx[s].tx.active => c.rx.msg = ctx[s].tx.msg
      BY <1>0, <3>1 DEF Current
    <3> QED  BY <1>0, <1>8, <1>14, <2>3, <3>2, BlockOrderly
  <2> QED  BY <1>9, <2>1, <2>2, <2>3
<1> QED  BY <1>12, <1>13, <1>15, ReceiverLines

LEMMA ReceiverLined ==
  ASSUME NEW s \in Radios, NEW e \in Radios, Pair(s, e), PairInv(s, e),
         Lined(s, e), Worker(e)
  PROVE  Lined(s, e)'
  BY ReceiverConf, ReceiverRx, ReceiverTimer DEF Worker

----------------------------------------------------------------------------
(* The application and the timers keep all in line.                        *)

\* All is quiet when s accepts m, and its preamble is with the MAC.
SenderSends(s, e, m) ==
  /\ \A r \in Radios : /\ batch[r] = {} /\ conf[r] = <<>> /\ heard[r] = <<>>
                       /\ mac[r] = <<>>
  /\ conf' = conf /\ heard' = heard /\ batch' = batch /\ trouble' = trouble
  /\ ctx'[e] = ctx[e] /\ mac'[e] = mac[e] /\ ~ctx[e].rx.active
  /\ ~ctx[s].tx.active /\ ctx[s].told[m] = "new"
  /\ ctx'[s].tx.active /\ ctx'[s].tx.msg = m /\ ctx'[s].tx.phase = "PREAMBLE"
  /\ ctx'[s].tx.list = <<>> /\ ctx'[s].state = "TX_BURST_PENDING"
  /\ ctx'[s].told[m] = "sending"
  /\ \A k \in Messages \ {m} : ctx'[s].told[k] = ctx[s].told[k]
  /\ TxBurst(ctx'[s].tx) = Preamble
  /\ mac'[s] = <<[id |-> ctx'[s].tx.id, burst |-> Preamble]>>

LEMMA SendSends ==
  ASSUME NEW s \in Radios, NEW e \in Radios, Spaced, Pair(s, e), PairInv(s, e),
         NEW r \in Radios, NEW m \in Messages, Send(r, m)
  PROVE  r = s /\ SenderSends(s, e, m)
<1> DEFINE c == ctx[s]
           id == FreshId(s)
           x == [Transfer(m) EXCEPT !.id = id]
           d == Submit(c, m, id)
<1>0. /\ Radios = {s, e} /\ s # e /\ Typed /\ Sound(c) /\ c \in Context
      /\ \A k \in Messages : Msg[k].from = s /\ Msg[k].to = e
  BY PairFacts
<1>1. r = s
  BY <1>0 DEF Send
<1>2. /\ Quiet /\ ~ctx[e].rx.active /\ ~c.tx.active /\ c.told[m] = "new"
      /\ UNCHANGED <<batch, conf, heard, trouble>>
      /\ ctx' = [ctx EXCEPT ![s] = [d EXCEPT !.out = Silent]]
      /\ mac' = [mac EXCEPT ![s] = Append(@, [id |-> id, burst |-> d.out])]
  BY <1>0, <1>1 DEF Send
<1>3. \A q \in Radios : batch[q] = {} /\ conf[q] = <<>> /\ heard[q] = <<>> /\ mac[q] = <<>>
  BY <1>2 DEF Quiet, KeptUp
<1>4. d.tx = x /\ d.out = TxBurst(Transfer(m)) /\ d \in Context
      /\ d.state = "TX_BURST_PENDING"
      /\ d.told = [c.told EXCEPT ![m] = "sending"]
  <2>1. d.tx = x /\ d.out = TxBurst(Transfer(m)) /\ d.state = "TX_BURST_PENDING"
        /\ d.told = [c.told EXCEPT ![m] = "sending"]
    BY <1>0 DEF Submit, TxNextBurst, Context
  <2>2. id \in 1..MaxId
    BY <1>0, FreshIdFree
  <2> HIDE DEF id
  <2>3. Sound(Submit(c, m, id))
    BY <1>0, <1>2, <2>2, SubmitSound DEF Typed
  <2> QED  BY <2>1, <2>3 DEF Sound, SoundParts
<1>5. TxBurst(Transfer(m)) = Preamble
  BY DEF TxBurst, Transfer
<1>6. /\ x.active /\ x.msg = m /\ x.phase = "PREAMBLE" /\ x.list = <<>> /\ x.id = id
  BY DEF Transfer
<1> HIDE DEF x
<1>7. TxBurst(x) = Preamble
  BY <1>6 DEF TxBurst
<1> HIDE DEF d, id
<1>8. LET f == [d EXCEPT !.out = Silent]
      IN  f.tx = x /\ f.state = "TX_BURST_PENDING"
          /\ f.told = [c.told EXCEPT ![m] = "sending"]
  BY <1>4 DEF Context
<1>9. /\ ctx'[s] = [d EXCEPT !.out = Silent] /\ ctx'[e] = ctx[e]
      /\ mac'[s] = Append(mac[s], [id |-> id, burst |-> d.out]) /\ mac'[e] = mac[e]
  BY <1>0, <1>2 DEF Typed
<1>10. c.told \in [Messages -> {"new", "sending", "ok", "failed"}]
  BY <1>0, ContextFields
<1>11. mac'[s] = <<[id |-> id, burst |-> Preamble]>>
  BY <1>3, <1>4, <1>5, <1>9, Singles
<1>12. /\ ctx'[s].tx = x /\ ctx'[s].state = "TX_BURST_PENDING"
       /\ ctx'[s].told[m] = "sending"
       /\ \A k \in Messages \ {m} : ctx'[s].told[k] = c.told[k]
  BY <1>8, <1>9, <1>10
<1> QED  BY <1>1, <1>2, <1>3, <1>6, <1>7, <1>9, <1>11, <1>12 DEF SenderSends

LEMMA SendLined ==
  ASSUME NEW s \in Radios, NEW e \in Radios, Spaced, Pair(s, e), PairInv(s, e),
         Lined(s, e), NEW r \in Radios, NEW m \in Messages, Send(r, m)
  PROVE  Lined(s, e)'
<1>1. SenderSends(s, e, m)
  BY SendSends
<1>2. Asked(e)' = {} /\ Hears(s)' = {} /\ Hears(e)' = {}
  <2>1. mac'[e] = <<>> /\ heard'[s] = <<>> /\ heard'[e] = <<>>
    BY <1>1 DEF SenderSends
  <2>2. Range(<<>>) = {}
    BY DEF Range
  <2> QED  BY <2>1, <2>2 DEF Asked, Hears
<1>3. Turns(s, e)'
  BY <1>1 DEF SenderSends, Lined, Turns
<1>4. Sending(s, e)'
  BY <1>1 DEF SenderSends, Sending
<1>5. InLine(e)'
  BY <1>1 DEF SenderSends, InLine
<1>6. Heeds(s, e)'
  <2>1. \A k \in Messages : ctx'[s].told[k] = "new" => ctx[s].told[k] = "new"
    BY <1>1 DEF SenderSends
  <2>2. \A k \in Messages :
          /\ ctx'[s].told[k] = "new" => ctx'[e].copies[k] = 0
          /\ ~CutShort(k) /\ ~Whole(k) => ctx'[e].copies[k] = 0
    BY <1>1, <2>1 DEF SenderSends, Lined, Heeds
  <2> QED  BY <1>1, <1>2, <2>2 DEF SenderSends, Heeds
<1> QED  BY <1>3, <1>4, <1>5, <1>6 DEF Lined

\* A timer expires: nothing else changes, and it costs where it is early.
TimerExpires(r, t) ==
  /\ ctx[r].tmr[t].kern = "running"
  /\ mac' = mac /\ conf' = conf /\ heard' = heard /\ batch' = batch
  /\ \A q \in Radios :
       /\ ctx'[q].tx = ctx[q].tx /\ ctx'[q].rx = ctx[q].rx
       /\ ctx'[q].state = ctx[q].state /\ ctx'[q].told = ctx[q].told
       /\ ctx'[q].copies = ctx[q].copies
       /\ \A u \in Timers : q # r \/ u # t => ctx'[q].tmr[u] = ctx[q].tmr[u]
  /\ ctx'[r].tmr[t].kern = "expired"
  /\ \/ Quiet /\ trouble' = trouble
     \/ trouble' = trouble + 1

LEMMA ExpireExpires ==
  ASSUME Typed, NEW r \in Radios, NEW t \in Timers, Expire(r, t)
  PROVE  TimerExpires(r, t)
<1> DEFINE tm == Expired(ctx[r].tmr, t)
<1>1. ctx[r] \in Context /\ ctx[r].tmr \in [Timers -> Timer]
  BY ContextFields DEF Typed
<1>2. ctx' = [ctx EXCEPT ![r] = [ctx[r] EXCEPT !.tmr = tm]] /\ DOMAIN ctx = Radios
  BY DEF Expire, Typed
<1>3. tm[t].kern = "expired" /\ \A u \in Timers \ {t} : tm[u] = ctx[r].tmr[u]
  BY <1>1 DEF Expired, Timer
<1> HIDE DEF tm
<1>4. LET e == ctx'[r] IN
      /\ e.tx = ctx[r].tx /\ e.rx = ctx[r].rx /\ e.state = ctx[r].state
      /\ e.told = ctx[r].told /\ e.copies = ctx[r].copies /\ e.tmr = tm
  BY <1>1, <1>2 DEF Context
<1>5. \A q \in Radios \ {r} : ctx'[q] = ctx[q]
  BY <1>2
<1> QED  BY <1>3, <1>4, <1>5 DEF Expire, TimerExpires, Trouble, Due

LEMMA ExpireLined ==
  ASSUME NEW s \in Radios, NEW e \in Radios, Pair(s, e), PairInv(s, e),
         Lined(s, e), NEW r \in Radios, NEW t \in Timers, Expire(r, t)
  PROVE  Lined(s, e)'
<1>1. TimerExpires(r, t)
  BY PairFacts, ExpireExpires
<1>2. Asked(e)' = Asked(e) /\ Hears(s)' = Hears(s) /\ Hears(e)' = Hears(e)
  BY <1>1 DEF TimerExpires, Asked, Hears
<1>3. Turns(s, e)'
  BY <1>1 DEF TimerExpires, Lined, Turns
<1>4. Sending(s, e)'
  BY <1>1 DEF TimerExpires, Lined, Sending
<1>5. InLine(e)'
  BY <1>1 DEF TimerExpires, Lined, InLine
<1>6. Heeds(s, e)'
  BY <1>1, <1>2 DEF TimerExpires, Lined, Heeds
<1> QED  BY <1>3, <1>4, <1>5, <1>6 DEF Lined

----------------------------------------------------------------------------
(* The MAC keeps all in line.                                              *)

LEMMA TailAt ==
  ASSUME NEW S, NEW q \in Seq(S), q # <<>>
  PROVE  /\ Len(q) \in Nat \ {0} /\ Len(Tail(q)) = Len(q) - 1
         /\ DOMAIN q = 1..Len(q) /\ DOMAIN Tail(q) = 1..(Len(q) - 1)
         /\ \A i \in 1..(Len(q) - 1) : Tail(q)[i] = q[i + 1]
         /\ Head(q) = q[1] /\ (Len(q) = 1 => Tail(q) = <<>>)
  OBVIOUS

LEMMA ShortLen ==
  ASSUME NEW q, q = <<>> \/ \E x : q = <<x>>
  PROVE  Len(q) \in 0..1
  BY Singles

\* The sender's MAC has dealt with its burst: the receiver hears it, unless it
\* is a preamble, or something went wrong.
SenderAirs(s, e) ==
  LET tx == ctx[s].tx
  IN  /\ ctx' = ctx /\ batch' = batch
      /\ ctx[s].state = "TX_BURST_PENDING" /\ tx.active /\ tx.phase # "DONE"
      /\ mac[s] = <<[id |-> tx.id, burst |-> TxBurst(tx)]>>
      /\ mac'[s] = <<>> /\ mac'[e] = mac[e]
      /\ \A r \in Radios : batch[r] = {} /\ conf[r] = <<>> /\ heard[r] = <<>>
      /\ conf'[e] = <<>> /\ heard'[s] = <<>>
      /\ \/ /\ conf'[s] = <<[id |-> tx.id, ok |-> TRUE]>> /\ trouble' = trouble
            /\ heard'[e] = IF TxBurst(tx) = Preamble THEN <<>> ELSE <<TxBurst(tx)>>
         \/ /\ trouble' = trouble + 1 /\ heard'[e] = <<>>
            /\ \E ok \in BOOLEAN : conf'[s] = <<[id |-> tx.id, ok |-> ok]>>

LEMMA HeardIs ==
  ASSUME Typed, NEW r \in Radios, NEW q \in Radios \ {r}, Radios = {r, q},
         KeptUp, NEW hearers \in SUBSET Others(r), Heard(r, hearers)
  PROVE  /\ heard'[r] = <<>>
         /\ heard'[q] = IF q \in hearers /\ Head(mac[r]).burst # Preamble
                          THEN <<Head(mac[r]).burst>> ELSE <<>>
<1>1. heard[r] = <<>> /\ heard[q] = <<>>
  BY DEF KeptUp
<1>2. r \notin hearers
  BY DEF Others
<1> QED  BY <1>1, <1>2, PushedAlone DEF Heard

LEMMA SenderMac ==
  ASSUME NEW s \in Radios, NEW e \in Radios, Pair(s, e), PairInv(s, e),
         Lined(s, e), MacAirs(s) \/ AirLoses(s) \/ MacRefuses(s) \/ MacForgets(s)
  PROVE  SenderAirs(s, e) /\ Sending(s, e)'
<1> DEFINE tx == ctx[s].tx
           x == [id |-> tx.id, burst |-> TxBurst(tx)]
<1>0. Radios = {s, e} /\ s # e /\ Typed /\ e \in Radios \ {s} /\ Others(s) = {e}
  BY PairFacts DEF Others
<1>1. mac[s] # <<>> /\ mac' = [mac EXCEPT ![s] = Tail(@)] /\ ctx' = ctx
  BY <1>0, MacTakes
<1>2. /\ ctx[s].state = "TX_BURST_PENDING" /\ tx.active /\ tx.phase # "DONE"
      /\ mac[s] = <<x>> /\ conf[s] = <<>>
  BY <1>1 DEF Lined, Sending
<1>3. Head(mac[s]) = x /\ Tail(mac[s]) = <<>> /\ Len(mac[s]) = 1
  BY <1>2, Singles
<1>4. mac'[s] = <<>> /\ mac'[e] = mac[e]
  BY <1>0, <1>1, <1>3 DEF Typed
<1>5. x.id = tx.id /\ x.burst = TxBurst(tx)
  OBVIOUS
<1> HIDE DEF x
<1>13. ~MacForgets(s)
  BY <1>3 DEF MacForgets
<1>6. KeptUp /\ \A r \in Radios : batch[r] = {} /\ conf[r] = <<>> /\ heard[r] = <<>>
  <2>1. KeptUp
    BY <1>13 DEF MacAirs, AirLoses, MacRefuses
  <2> QED  BY <2>1 DEF KeptUp
<1>7. ASSUME NEW ok \in BOOLEAN, MacDone(s, ok)
      PROVE  conf'[s] = <<[id |-> tx.id, ok |-> ok]>> /\ conf'[e] = <<>>
  <2> DEFINE y == [id |-> tx.id, ok |-> ok]
  <2>1. conf' = [conf EXCEPT ![s] = Push(conf[s], y)]
    BY <1>3, <1>5, <1>7 DEF MacDone
  <2>2. Push(conf[s], y) = <<y>>
    BY <1>6, PushedAlone
  <2> HIDE DEF y
  <2>3. conf'[s] = <<y>> /\ conf'[e] = conf[e]
    BY <1>0, <2>1, <2>2 DEF Typed
  <2> QED  BY <1>6, <2>3 DEF y
<1>8. batch' = batch
  BY <1>3 DEF MacAirs, AirLoses, MacRefuses, MacForgets
<1>9. CASE MacAirs(s)
  <2>1. conf'[s] = <<[id |-> tx.id, ok |-> TRUE]>> /\ conf'[e] = <<>>
    BY <1>7, <1>9 DEF MacAirs
  <2>2. /\ heard'[s] = <<>> /\ trouble' = trouble
        /\ heard'[e] = IF TxBurst(tx) = Preamble THEN <<>> ELSE <<TxBurst(tx)>>
    <3>1. Heard(s, Others(s)) /\ trouble' = trouble
      BY <1>9 DEF MacAirs
    <3> QED  BY <1>0, <1>3, <1>5, <1>6, <3>1, HeardIs
  <2>3. SenderAirs(s, e)
    BY <1>1, <1>2, <1>4, <1>6, <1>8, <2>1, <2>2 DEF SenderAirs, x
  <2>4. Sending(s, e)'
    BY <1>1, <1>2, <1>4, <2>1 DEF Sending, Lined
  <2> QED  BY <2>3, <2>4
<1>10. ASSUME NEW ok \in BOOLEAN, MacDone(s, ok), heard'[s] = <<>>,
              heard'[e] = <<>>, trouble' = trouble + 1
       PROVE  SenderAirs(s, e) /\ Sending(s, e)'
  <2>1. conf'[s] = <<[id |-> tx.id, ok |-> ok]>> /\ conf'[e] = <<>>
    BY <1>7, <1>10
  <2>2. SenderAirs(s, e)
    BY <1>1, <1>2, <1>4, <1>6, <1>8, <1>10, <2>1 DEF SenderAirs, x
  <2>3. Sending(s, e)'
    BY <1>1, <1>2, <1>4, <1>10, <2>1 DEF Sending, Lined
  <2> QED  BY <2>2, <2>3
<1>11. CASE AirLoses(s)
  <2>1. PICK hearers \in (SUBSET Others(s)) \ {Others(s)} : Heard(s, hearers)
    BY <1>11 DEF AirLoses
  <2>2. e \notin hearers
    BY <1>0, <2>1
  <2>3. heard'[s] = <<>> /\ heard'[e] = <<>>
    BY <1>0, <1>6, <2>1, <2>2, HeardIs
  <2> QED  BY <1>10, <1>11, <2>3 DEF AirLoses, Trouble
<1>12. CASE MacRefuses(s)
  BY <1>0, <1>6, <1>10, <1>12 DEF MacRefuses, Trouble
<1> QED  BY <1>9, <1>11, <1>12, <1>13

\* The receiver's MAC has dealt with its first burst, or forgets it.
ReceiverAirs(s, e) ==
  /\ ctx' = ctx /\ batch' = batch /\ mac[e] # <<>>
  /\ mac'[e] = Tail(mac[e]) /\ mac'[s] = mac[s]
  /\ conf'[s] = conf[s] /\ heard'[e] = heard[e]
  /\ \/ conf' = conf /\ heard' = heard /\ trouble' = trouble + 1
     \/ /\ \A r \in Radios : batch[r] = {} /\ conf[r] = <<>> /\ heard[r] = <<>>
        /\ \E ok \in BOOLEAN : conf'[e] = <<[id |-> Head(mac[e]).id, ok |-> ok]>>
        /\ \/ heard'[s] = <<Head(mac[e]).burst>> /\ trouble' = trouble
           \/ heard'[s] = <<>> /\ trouble' = trouble + 1

LEMMA ReceiverMac ==
  ASSUME NEW s \in Radios, NEW e \in Radios, Pair(s, e), PairInv(s, e),
         Lined(s, e), MacAirs(e) \/ AirLoses(e) \/ MacRefuses(e) \/ MacForgets(e)
  PROVE  ReceiverAirs(s, e)
<1>0. Radios = {s, e} /\ s # e /\ Typed /\ s \in Radios \ {e} /\ Others(e) = {s}
  BY PairFacts DEF Others
<1> DEFINE x == Head(mac[e])
<1>1. mac[e] # <<>> /\ mac' = [mac EXCEPT ![e] = Tail(@)] /\ ctx' = ctx
      /\ x.burst \in Asked(e)
  BY <1>0, MacTakes
<1>2. mac'[e] = Tail(mac[e]) /\ mac'[s] = mac[s]
  BY <1>0, <1>1 DEF Typed
<1>3. x.burst # Preamble
  <2>1. x.burst.kind \in {"response", "rdata"}
    BY <1>1, PairFacts
  <2> QED  BY <2>1 DEF Preamble
<1> HIDE DEF x
<1>4. batch' = batch
  BY DEF MacAirs, AirLoses, MacRefuses, MacForgets
<1>5. ASSUME NEW ok \in BOOLEAN, MacDone(e, ok), KeptUp
      PROVE  conf'[e] = <<[id |-> x.id, ok |-> ok]>> /\ conf'[s] = conf[s]
  <2> DEFINE y == [id |-> x.id, ok |-> ok]
  <2>1. conf' = [conf EXCEPT ![e] = Push(conf[e], y)]
    BY <1>5 DEF MacDone, x
  <2>2. Push(conf[e], y) = <<y>>
    BY <1>5, PushedAlone DEF KeptUp
  <2> HIDE DEF y
  <2>3. conf'[e] = <<y>> /\ conf'[s] = conf[s]
    BY <1>0, <2>1, <2>2 DEF Typed
  <2> QED  BY <2>3 DEF y
<1>6. CASE MacAirs(e)
  <2>1. KeptUp /\ MacDone(e, TRUE) /\ Heard(e, Others(e)) /\ trouble' = trouble
    BY <1>6 DEF MacAirs
  <2>2. conf'[e] = <<[id |-> x.id, ok |-> TRUE]>> /\ conf'[s] = conf[s]
    BY <1>5, <2>1
  <2>3. heard'[e] = <<>> /\ heard'[s] = <<x.burst>>
    BY <1>0, <1>3, <2>1, HeardIs DEF x
  <2> QED  BY <1>1, <1>2, <1>4, <2>1, <2>2, <2>3 DEF ReceiverAirs, KeptUp, x
<1>7. ASSUME NEW ok \in BOOLEAN, MacDone(e, ok), KeptUp, heard'[s] = <<>>,
             heard'[e] = <<>>, trouble' = trouble + 1
      PROVE  ReceiverAirs(s, e)
  <2>1. conf'[e] = <<[id |-> x.id, ok |-> ok]>> /\ conf'[s] = conf[s]
    BY <1>5, <1>7
  <2> QED  BY <1>1, <1>2, <1>4, <1>7, <2>1 DEF ReceiverAirs, KeptUp, x
<1>8. CASE AirLoses(e)
  <2>1. PICK hearers \in (SUBSET Others(e)) \ {Others(e)} : Heard(e, hearers)
    BY <1>8 DEF AirLoses
  <2>2. s \notin hearers
    BY <1>0, <2>1
  <2>3. KeptUp /\ MacDone(e, TRUE) /\ trouble' = trouble + 1
    BY <1>8 DEF AirLoses, Trouble
  <2>4. heard'[e] = <<>> /\ heard'[s] = <<>>
    BY <1>0, <2>1, <2>2, <2>3, HeardIs
  <2> QED  BY <1>7, <2>3, <2>4
<1>9. CASE MacRefuses(e)
  <2>1. KeptUp /\ MacDone(e, FALSE) /\ trouble' = trouble + 1 /\ heard' = heard
    BY <1>9 DEF MacRefuses, Trouble
  <2>2. heard'[e] = <<>> /\ heard'[s] = <<>>
    BY <1>0, <2>1 DEF KeptUp
  <2> QED  BY <1>7, <2>1, <2>2
<1>10. CASE MacForgets(e)
  <2>1. conf' = conf /\ heard' = heard /\ trouble' = trouble + 1
    BY <1>10 DEF MacForgets, Trouble
  <2> QED  BY <1>1, <1>2, <1>4, <2>1 DEF ReceiverAirs
<1> QED  BY <1>6, <1>8, <1>9, <1>10

\* What the sender's MAC tells the receiver is from the message in transfer.
LEMMA SenderMacLined ==
  ASSUME NEW s \in Radios, NEW e \in Radios, Pair(s, e), PairInv(s, e),
         Lined(s, e), SenderAirs(s, e), Sending(s, e)'
  PROVE  Lined(s, e)'
<1> DEFINE tx == ctx[s].tx
           u == TxBurst(tx)
<1>0. /\ Radios = {s, e} /\ s # e /\ Sound(ctx[s]) /\ Current(s, e)
      /\ tx \in Going /\ tx.msg \in Messages /\ TxSound(tx)
  BY PairFacts DEF SenderAirs, Sound, SoundParts
<1>1. heard'[e] = <<>> \/ (u # Preamble /\ heard'[e] = <<u>>)
  BY DEF SenderAirs
<1>2. u.kind \in {"preamble", "header", "block"} /\ tx.phase \in Phases /\ tx.phase # "DONE"
  BY <1>0, TxBurstKind DEF SenderAirs, Going
<1>3. Turns(s, e)'
  <2> HIDE DEF u
  <2>1. conf'[e] = <<>> /\ heard'[s] = <<>>
    BY DEF SenderAirs
  <2>2. \E x : conf'[s] = <<x>>
    BY DEF SenderAirs
  <2>3. /\ Len(conf'[s]) \in 0..1 /\ Len(conf'[e]) \in 0..1
        /\ Len(heard'[s]) \in 0..1 /\ Len(heard'[e]) \in 0..1
    BY <1>1, <2>1, <2>2, ShortLen
  <2> QED  BY <1>0, <2>1, <2>3 DEF Turns
<1>4. InLine(e)'
  BY DEF SenderAirs, Lined, InLine
<1>5. Hears(e)' \subseteq {u} \ {Preamble} /\ Hears(s)' = {} /\ Asked(e)' = Asked(e)
  <2> HIDE DEF u
  <2>1. Range(<<>>) = {} /\ Range(<<u>>) = {u}
    BY Singles, Zenon
  <2> QED  BY <1>1, <2>1 DEF SenderAirs, Hears, Asked
<1>6. u.kind = "preamble" => u = Preamble
  BY <1>2 DEF TxBurst, Preamble, Header, Block, Phases
<1>7. \A v \in Hears(e)' : v.kind \in {"header", "block"}
  BY <1>2, <1>5, <1>6
<1>8. u.kind = "block" => u.lead \in Leads(tx.msg)
  <2>1. SUFFICES ASSUME u.kind = "block" PROVE u.lead \in Leads(tx.msg)
    OBVIOUS
  <2> DEFINE i == IF tx.list = <<>> THEN tx.idx ELSE tx.list[tx.idx + 1]
  <2>2. tx.phase = "BLOCKS" /\ u = Block(tx.msg, i)
    BY <1>2, <2>1 DEF TxBurst, Preamble, Header, Phases
  <2>3. i \in 0..(NBlocks(tx.msg) - 1)
    <3>1. tx.idx \in 0..(SeqLen(tx) - 1) /\ tx.list \in Seq(Nat) /\ tx.idx \in Nat
          /\ NBlocks(tx.msg) \in Nat
      BY <1>0, <2>2, NBlocksNat DEF TxSound, Going
    <3>2. CASE tx.list = <<>>
      BY <3>1, <3>2 DEF SeqLen
    <3>3. CASE tx.list # <<>>
      <4>1. tx.idx + 1 \in DOMAIN tx.list
        BY <3>1, <3>3 DEF SeqLen
      <4> QED  BY <1>0, <3>3, <4>1 DEF TxSound
    <3> QED  BY <3>2, <3>3
  <2> HIDE DEF i
  <2>4. i + 1 \in 1..NBlocks(tx.msg)
    BY <1>0, <2>3, NBlocksNat
  <2>5. u.lead = Msg[tx.msg].blocks[i + 1]
    BY <2>2 DEF Block
  <2> QED  BY <1>0, <2>4, <2>5, LeadsOf
<1>9. ctx[e].rx.active => ctx[e].rx.msg = tx.msg
  BY <1>0 DEF Current, Abroad, SenderAirs
<1> HIDE DEF u
<1>10. ctx[e].rx.active =>
         \A v \in Hears(e)' : v.kind = "block" => v.lead \in Leads(ctx[e].rx.msg)
  BY <1>5, <1>8, <1>9
<1>11. Heeds(s, e)'
  <2>1. ctx' = ctx /\ Heeds(s, e)
    BY DEF SenderAirs, Lined
  <2> QED  BY <1>5, <1>7, <1>10, <2>1 DEF Heeds
<1> QED  BY <1>3, <1>4, <1>11 DEF Lined

LEMMA ReceiverMacLined ==
  ASSUME NEW s \in Radios, NEW e \in Radios, Pair(s, e), PairInv(s, e),
         Lined(s, e), ReceiverAirs(s, e)
  PROVE  Lined(s, e)'
<1> DEFINE q == mac[e]
           x == Head(q)
<1>0. Radios = {s, e} /\ s # e /\ Typed
  BY PairFacts
<1>1. q \in Seq([id : 1..MaxId, burst : Sent \ {Silent}]) /\ q # <<>>
  BY <1>0 DEF Typed, ReceiverAirs
<1>2. /\ Len(q) \in Nat \ {0} /\ Len(Tail(q)) = Len(q) - 1
      /\ DOMAIN q = 1..Len(q) /\ DOMAIN Tail(q) = 1..(Len(q) - 1)
      /\ \A i \in 1..(Len(q) - 1) : Tail(q)[i] = q[i + 1]
      /\ x = q[1] /\ (Len(q) = 1 => Tail(q) = <<>>)
  BY <1>1, TailAt
<1>3. x \in Range(q) /\ Range(Tail(q)) \subseteq Range(q)
  BY <1>1, RangeOfTail
<1>4. /\ ctx' = ctx /\ mac'[e] = Tail(q) /\ mac'[s] = mac[s]
      /\ conf'[s] = conf[s] /\ heard'[e] = heard[e]
  BY DEF ReceiverAirs
<1>5. \/ conf' = conf /\ heard' = heard
      \/ /\ \A r \in Radios : conf[r] = <<>> /\ heard[r] = <<>>
         /\ \E ok \in BOOLEAN : conf'[e] = <<[id |-> x.id, ok |-> ok]>>
         /\ heard'[s] \in {<<x.burst>>, <<>>}
  BY DEF ReceiverAirs
<1> HIDE DEF q, x
<1>6. Turns(s, e)'
  <2>1. CASE conf' = conf /\ heard' = heard
    BY <2>1 DEF Lined, Turns
  <2>2. CASE /\ \A r \in Radios : conf[r] = <<>> /\ heard[r] = <<>>
             /\ \E ok \in BOOLEAN : conf'[e] = <<[id |-> x.id, ok |-> ok]>>
             /\ heard'[s] \in {<<x.burst>>, <<>>}
    <3>1. \E y : conf'[e] = <<y>>
      BY <2>2
    <3>2. conf'[s] = <<>> /\ heard'[e] = <<>>
      BY <1>4, <2>2
    <3>3. /\ Len(conf'[s]) \in 0..1 /\ Len(conf'[e]) \in 0..1
          /\ Len(heard'[s]) \in 0..1 /\ Len(heard'[e]) \in 0..1
      BY <2>2, <3>1, <3>2, ShortLen
    <3> QED  BY <1>0, <3>2, <3>3 DEF Turns
  <2> QED  BY <1>5, <2>1, <2>2
<1>7. Sending(s, e)'
  BY <1>4 DEF Lined, Sending
<1>8. InLine(e)'
  <2> DEFINE rx == ctx[e].rx
  <2>1. ASSUME rx.active, rx.sack # NoSack
        PROVE  /\ \A i \in DOMAIN mac'[e] :
                    mac'[e][i].id = rx.sack.id => i = Len(mac'[e])
               /\ conf'[e] # <<>> /\ Head(conf'[e]).id = rx.sack.id =>
                    mac'[e] = <<>>
    <3>1. \A i \in 1..Len(q) : q[i].id = rx.sack.id => i = Len(q)
      BY <1>2, <2>1 DEF Lined, InLine, q
    <3>2. \A i \in 1..(Len(q) - 1) : i + 1 \in 1..Len(q)
      BY <1>2
    <3>4. ASSUME NEW i \in DOMAIN mac'[e], mac'[e][i].id = rx.sack.id
          PROVE  i = Len(mac'[e])
      <4>1. i \in 1..(Len(q) - 1) /\ i + 1 \in 1..Len(q)
        BY <1>2, <1>4, <3>2, <3>4
      <4>2. q[i + 1].id = rx.sack.id
        BY <1>2, <1>4, <3>4, <4>1
      <4>3. i + 1 = Len(q)
        BY <3>1, <4>1, <4>2
      <4> QED  BY <1>2, <1>4, <4>1, <4>3
    <3>5. ASSUME conf'[e] # <<>>, Head(conf'[e]).id = rx.sack.id
          PROVE  mac'[e] = <<>>
      <4>1. CASE conf' = conf
        <5>1. mac[e] = <<>>
          BY <2>1, <3>5, <4>1 DEF Lined, InLine
        <5> QED  BY <1>1, <5>1 DEF q
      <4>2. CASE \E ok \in BOOLEAN : conf'[e] = <<[id |-> x.id, ok |-> ok]>>
        <5>1. PICK ok \in BOOLEAN : conf'[e] = <<[id |-> x.id, ok |-> ok]>>
          BY <4>2
        <5>2. Head(conf'[e]).id = x.id
          BY <5>1, Singles
        <5>3. 1 \in 1..Len(q)
          BY <1>2
        <5>4. Len(q) = 1
          BY <1>2, <3>1, <3>5, <5>2, <5>3
        <5> QED  BY <1>2, <1>4, <5>4
      <4> QED  BY <1>5, <4>1, <4>2
    <3> QED  BY <3>4, <3>5
  <2>2. ASSUME NEW i \in DOMAIN mac'[e], mac'[e][i].burst.kind = "rdata"
        PROVE  FALSE
    <3>1. i \in 1..(Len(q) - 1) /\ q[i + 1].burst.kind = "rdata"
      BY <1>2, <1>4, <2>2
    <3>2. i + 1 \in 1..Len(q) /\ i + 1 # 1
      BY <1>2, <3>1
    <3> QED  BY <1>2, <3>1, <3>2 DEF Lined, InLine, q
  <2> QED  BY <1>4, <2>1, <2>2 DEF InLine
<1>9. Heeds(s, e)'
  <2>1. Asked(e)' \subseteq Asked(e) /\ Hears(e)' = Hears(e) /\ x.burst \in Asked(e)
    BY <1>3, <1>4 DEF Asked, Hears, q
  <2>2. Hears(s)' \subseteq Asked(e) \union Hears(s)
    <3>1. Range(<<>>) = {} /\ Range(<<x.burst>>) = {x.burst}
      BY Singles
    <3> QED  BY <1>5, <2>1, <3>1 DEF Hears
  <2>3. Heeds(s, e)
    BY DEF Lined
  <2> QED  BY <1>4, <2>1, <2>2, <2>3 DEF Heeds
<1> QED  BY <1>6, <1>7, <1>8, <1>9 DEF Lined

LEMMA InitLined ==
  ASSUME NEW s \in Radios, NEW e \in Radios, Pair(s, e), Init
  PROVE  Lined(s, e)
<1>1. \A r \in Radios : /\ ctx[r] = InitialContext /\ mac[r] = <<>>
                        /\ conf[r] = <<>> /\ heard[r] = <<>>
  BY DEF Init
<1>2. Asked(e) = {} /\ Hears(s) = {} /\ Hears(e) = {}
  <2>1. Range(<<>>) = {}
    BY DEF Range
  <2> QED  BY <1>1, <2>1 DEF Asked, Hears
<1>3. ~InitialContext.tx.active /\ ~InitialContext.rx.active
      /\ InitialContext.state = "IDLE"
      /\ \A m \in Messages : InitialContext.copies[m] = 0
  BY DEF InitialContext, NoTx, NoRx
<1>4. Len(<<>>) = 0
  OBVIOUS
<1>5. Turns(s, e)
  BY <1>1, <1>4 DEF Turns
<1>6. Sending(s, e) /\ InLine(e)
  BY <1>1, <1>3 DEF Sending, InLine
<1>7. Heeds(s, e)
  BY <1>1, <1>2, <1>3 DEF Heeds
<1> QED  BY <1>5, <1>6, <1>7 DEF Lined

LEMMA NextLined ==
  ASSUME NEW s \in Radios, NEW e \in Radios, Spaced, Pair(s, e), PairInv(s, e),
         Lined(s, e), [Next]_vars
  PROVE  Lined(s, e)'
<1>0. Radios = {s, e}
  BY PairFacts
<1>1. CASE UNCHANGED vars
  BY <1>1 DEF vars, Lined, Turns, Sending, InLine, Heeds, Asked, Hears
<1>2. ASSUME NEW r \in Radios, Worker(r) PROVE Lined(s, e)'
  BY <1>0, <1>2, SenderLined, ReceiverLined
<1>3. ASSUME NEW r \in Radios, NEW m \in Messages, Send(r, m) PROVE Lined(s, e)'
  BY <1>3, SendLined
<1>4. ASSUME NEW r \in Radios, NEW t \in Timers, Expire(r, t) PROVE Lined(s, e)'
  BY <1>4, ExpireLined
<1>5. ASSUME NEW r \in Radios,
             MacAirs(r) \/ AirLoses(r) \/ MacRefuses(r) \/ MacForgets(r)
      PROVE  Lined(s, e)'
  <2>1. CASE r = s
    BY <1>5, <2>1, SenderMac, SenderMacLined
  <2>2. CASE r = e
    BY <1>5, <2>2, ReceiverMac, ReceiverMacLined
  <2> QED  BY <1>0, <2>1, <2>2
<1> QED  BY <1>1, <1>2, <1>3, <1>4, <1>5 DEF Next

----------------------------------------------------------------------------
(* What a message may still cost.                                          *)

LEMMA BitIs ==
  ASSUME NEW p
  PROVE  Bit(p) \in 0..1 /\ (p => Bit(p) = 1) /\ (~p => Bit(p) = 0)
  BY DEF Bit

CostFits(s, e) ==
  /\ Cost(s, e) \in -1..2
  /\ ~Pending(e) => Cost(s, e) <= 1
  /\ ~Starting(s) => Cost(s, e) <= 1
  /\ Starting(s) \/ Refused(s) \/ Remaining(s) # {} \/ Pending(e) => Cost(s, e) >= 0
LEMMA CostRange ==
  ASSUME NEW s, NEW e
  PROVE  CostFits(s, e) /\ CostFits(s, e)'
<1>1. CostFits(s, e)
  BY DEF CostFits, Cost, Bit
<1>2. CostFits(s, e)'
  BY DEF CostFits, Cost, Bit
<1> QED  BY <1>1, <1>2

\* What has come of a message, and may still come.
Need(s, e, m) ==
  IF ctx[s].tx.active /\ ctx[s].tx.msg = m
    THEN ctx[e].copies[m] + Bit(Early(s)) + Cost(s, e)
    ELSE ctx[e].copies[m] + Bit(Expects(e, m)) - 1

LEMMA PaidNeeds ==
  ASSUME NEW s \in Radios, NEW e \in Radios, Typed, Typed'
  PROVE  /\ trouble \in Nat /\ trouble' \in Nat
         /\ \A m \in Messages : ctx[e].copies[m] \in Nat /\ ctx'[e].copies[m] \in Nat
         /\ Paid(s, e) <=> \A m \in Messages : Fair(m) => Need(s, e, m) <= trouble
         /\ Paid(s, e)' <=> \A m \in Messages : Fair(m) => Need(s, e, m)' <= trouble'
<1>1. trouble \in Nat /\ trouble' \in Nat
  BY DataBounds DEF Typed
<1>2. \A m \in Messages : ctx[e].copies[m] \in Nat /\ ctx'[e].copies[m] \in Nat
  BY ContextFields DEF Typed
<1>3. Paid(s, e) <=> \A m \in Messages : Fair(m) => Need(s, e, m) <= trouble
  BY <1>1, <1>2, BitIs DEF Paid, Need
<1>4. Paid(s, e)' <=> \A m \in Messages : Fair(m) => Need(s, e, m)' <= trouble'
  BY <1>1, <1>2, BitIs DEF Paid, Need
<1> QED  BY <1>1, <1>2, <1>3, <1>4

\* A step pays if no message's need grows more than the trouble does.
Pays(s, e) ==
  \A m \in Messages :
    Fair(m) => Need(s, e, m)' <= Need(s, e, m) + (trouble' - trouble)
LEMMA NeedInt ==
  ASSUME NEW s \in Radios, NEW e \in Radios, Typed, Typed', NEW m \in Messages
  PROVE  Need(s, e, m) \in Int /\ Need(s, e, m)' \in Int
<1>1. ctx[e].copies[m] \in Nat /\ ctx'[e].copies[m] \in Nat
  BY PaidNeeds
<1>2. Cost(s, e) \in -1..2 /\ Cost(s, e)' \in -1..2
  BY CostRange DEF CostFits
<1>3. Bit(Early(s)) \in 0..1 /\ Bit(Expects(e, m)) \in 0..1
  BY BitIs
<1>4. Bit(Early(s))' \in 0..1 /\ Bit(Expects(e, m))' \in 0..1
  BY DEF Bit
<1>5. Need(s, e, m) \in Int
  BY <1>1, <1>2, <1>3 DEF Need
<1>6. Need(s, e, m)' \in Int
  BY <1>1, <1>2, <1>4 DEF Need
<1> QED  BY <1>5, <1>6
LEMMA PaysPaid ==
  ASSUME NEW s \in Radios, NEW e \in Radios, Typed, Typed', Paid(s, e), Pays(s, e)
  PROVE  Paid(s, e)'
<1>1. trouble \in Nat /\ trouble' \in Nat
  BY PaidNeeds
<1>2. ASSUME NEW m \in Messages, Fair(m) PROVE Need(s, e, m)' <= trouble'
  <2>1. Need(s, e, m) \in Int /\ Need(s, e, m)' \in Int
    BY NeedInt
  <2>2. Need(s, e, m) <= trouble
    BY <1>2, PaidNeeds
  <2>3. Need(s, e, m)' <= Need(s, e, m) + (trouble' - trouble)
    BY <1>2 DEF Pays
  <2> QED  BY <1>1, <2>1, <2>2, <2>3
<1> QED  BY <1>2, PaidNeeds

\* A message of which a copy is expected has not cost all it may.
LEMMA ExpectsCost ==
  ASSUME NEW s, NEW e, NEW m
  PROVE  Bit(Expects(e, m)) - 1 <= Cost(s, e)
<1>1. Cost(s, e) \in -1..2 /\ (Pending(e) => Cost(s, e) >= 0)
  BY CostRange DEF CostFits
<1>2. Expects(e, m) => Pending(e)
  BY DEF Expects, Pending, HeaderHeard
<1> QED  BY <1>1, <1>2, BitIs

\* The sender's step pays if it does for the message in transfer.
LEMMA SenderPays ==
  ASSUME NEW s \in Radios, NEW e \in Radios, Typed, Typed', SenderOnly(s, e),
         trouble <= trouble',
         ctx'[s].tx.active /\ Fair(ctx[s].tx.msg) =>
           Bit(Early(s))' + Cost(s, e)'
             <= Bit(Early(s)) + Cost(s, e) + (trouble' - trouble)
  PROVE  Pays(s, e)
<1> SUFFICES ASSUME NEW m \in Messages, Fair(m)
             PROVE  Need(s, e, m)' <= Need(s, e, m) + (trouble' - trouble)
  BY DEF Pays
<1>1. /\ trouble \in Nat /\ trouble' \in Nat /\ ctx[e].copies[m] \in Nat
  BY PaidNeeds
<1>2. Cost(s, e) \in -1..2 /\ Cost(s, e)' \in -1..2
  BY CostRange DEF CostFits
<1>3. Bit(Early(s)) \in 0..1 /\ Bit(Expects(e, m)) \in 0..1
  BY BitIs
<1>4. Bit(Early(s))' \in 0..1
  BY DEF Bit
<1>5. ctx'[e] = ctx[e] /\ heard'[e] = heard[e]
  BY DEF SenderOnly
<1>6. Bit(Expects(e, m))' = Bit(Expects(e, m))
  BY <1>5 DEF Bit, Expects, Hears
<1>7. CASE ctx[s].tx.active /\ ctx[s].tx.msg = m
  <2>1. CASE ctx'[s].tx.active
    <3>1. ctx'[s].tx.msg = m
      BY <1>7, <2>1 DEF SenderOnly
    <3> QED  BY <1>1, <1>2, <1>3, <1>4, <1>5, <1>7, <2>1, <3>1 DEF Need
  <2>2. CASE ~ctx'[s].tx.active
    <3>1. Bit(Expects(e, m)) - 1 <= Cost(s, e)
      BY ExpectsCost
    <3> QED  BY <1>1, <1>2, <1>3, <1>5, <1>6, <1>7, <2>2, <3>1 DEF Need
  <2> QED  BY <2>1, <2>2
<1>8. CASE ~(ctx[s].tx.active /\ ctx[s].tx.msg = m)
  <2>1. ~(ctx'[s].tx.active /\ ctx'[s].tx.msg = m)
    BY <1>8 DEF SenderOnly
  <2> QED  BY <1>1, <1>3, <1>5, <1>6, <1>8, <2>1 DEF Need
<1> QED  BY <1>7, <1>8

----------------------------------------------------------------------------
(* The sender's steps cost no more than they may.                          *)

LEMMA SenderNoMore ==
  ASSUME NEW s \in Radios, NEW e \in Radios, Typed, Typed', SenderOnly(s, e),
         trouble <= trouble',
         ctx'[s].tx.active /\ Fair(ctx[s].tx.msg) =>
           (Early(s)' => Early(s)) /\ Cost(s, e)' <= Cost(s, e)
  PROVE  Pays(s, e)
<1>1. /\ trouble \in Nat /\ trouble' \in Nat
  BY DataBounds DEF Typed
<1>2. Cost(s, e) \in -1..2 /\ Cost(s, e)' \in -1..2
  BY CostRange DEF CostFits
<1>3. Bit(Early(s)) \in 0..1 /\ Bit(Early(s))' \in 0..1
  BY DEF Bit
<1>4. (Early(s)' => Early(s)) => Bit(Early(s))' <= Bit(Early(s))
  BY DEF Bit
<1>5. ctx'[s].tx.active /\ Fair(ctx[s].tx.msg) =>
        Bit(Early(s))' + Cost(s, e)'
          <= Bit(Early(s)) + Cost(s, e) + (trouble' - trouble)
  BY <1>1, <1>2, <1>3, <1>4
<1> QED  BY <1>5, SenderPays

\* What the receiver has is as it was, and so is what is on its way to it.
LEMMA SenderLeaves ==
  ASSUME NEW s, NEW e, SenderOnly(s, e)
  PROVE  /\ Asked(e)' = Asked(e) /\ Hears(e)' = Hears(e)
         /\ Clear(e)' <=> Clear(e)
         /\ Pending(e)' <=> Pending(e)
         /\ Reached(e)' <=> Reached(e)
         /\ ctx'[s].tx.msg = ctx[s].tx.msg /\ Remaining(s)' = Remaining(s) =>
              (OnTime(s, e)' <=> OnTime(s, e))
<1>1. /\ ctx'[e] = ctx[e] /\ mac'[e] = mac[e] /\ conf'[e] = conf[e]
      /\ heard'[e] = heard[e] /\ batch'[e] = batch[e]
  BY DEF SenderOnly
<1>2. Asked(e)' = Asked(e) /\ Hears(e)' = Hears(e) /\ Named(e)' = Named(e)
  BY <1>1 DEF Asked, Hears, Named
<1>3. /\ HeaderHeard(e)' <=> HeaderHeard(e)
      /\ NosHeard(e)' = NosHeard(e) /\ (Kept(e)' <=> Kept(e))
      /\ Doomed(e)' <=> Doomed(e)
  BY <1>1, <1>2 DEF HeaderHeard, NosHeard, Kept, Doomed
<1>4. Clear(e)' <=> Clear(e)
  BY <1>1, <1>2 DEF Clear
<1>5. (Pending(e)' <=> Pending(e)) /\ (Reached(e)' <=> Reached(e))
  BY <1>1, <1>3 DEF Pending, Reached
<1>6. ASSUME ctx'[s].tx.msg = ctx[s].tx.msg, Remaining(s)' = Remaining(s)
      PROVE  OnTime(s, e)' <=> OnTime(s, e)
  BY <1>1, <1>2, <1>3, <1>4, <1>6 DEF OnTime
<1> QED  BY <1>2, <1>4, <1>5, <1>6

\* The cost stays, where the sender stands as before.
LEMMA SenderCost ==
  ASSUME NEW s \in Radios, NEW e \in Radios, SenderOnly(s, e),
         ctx'[s].tx.msg = ctx[s].tx.msg,
         Starting(s)' <=> Starting(s), Refused(s)' <=> Refused(s),
         Remaining(s)' = Remaining(s),
         Starting(s) \/ Remaining(s) # {} => ctx'[s].tx.list = ctx[s].tx.list,
         ~Starting(s) /\ Remaining(s) = {} =>
           /\ Acked(s, e) => Acked(s, e)'
           /\ Takeable(s, e)' => Takeable(s, e)
  PROVE  Cost(s, e)' <= Cost(s, e)
<1>1. /\ Clear(e)' <=> Clear(e)
      /\ Pending(e)' <=> Pending(e)
      /\ Reached(e)' <=> Reached(e)
      /\ OnTime(s, e)' <=> OnTime(s, e)
  BY SenderLeaves
<1>2. ctx'[e] = ctx[e]
  BY DEF SenderOnly
<1>3. CASE Starting(s)
  BY <1>1, <1>3 DEF Cost, Bit
<1>4. CASE ~Starting(s) /\ (Refused(s) \/ Remaining(s) # {})
  BY <1>1, <1>4 DEF Cost, Bit
<1>5. CASE ~Starting(s) /\ ~Refused(s) /\ Remaining(s) = {}
  BY <1>1, <1>2, <1>5 DEF Cost, Bit
<1> QED  BY <1>3, <1>4, <1>5

\* Whether the expiry of T_Response is noticed with the rest of a snapshot.
LEMMA NoticedLater ==
  ASSUME NEW s, NEW fd, fd # "response", batch'[s] = Batch(s) \ {fd}
  PROVE  Noticed(s)' <=> IF batch[s] = {} THEN Expiry(s) ELSE Noticed(s)
BY DEF Noticed, Expiry, Batch, Ready, Timers

\* Which blocks a sender has not sent while it waits for a confirmation, and
\* with its burst with the MAC.
LEMMA RemainingIs ==
  ASSUME NEW s
  PROVE  LET tx == ctx[s].tx
             x == ctx'[s].tx
         IN  /\ tx.phase \in {"PREAMBLE", "HEADER"} =>
                  Remaining(s) = 0..(SeqLen(tx) - 1)
             /\ tx.phase = "BLOCKS" /\ mac[s] = <<>> =>
                  Remaining(s) = (tx.idx + 1)..(SeqLen(tx) - 1)
             /\ tx.phase = "BLOCKS" /\ mac[s] # <<>> =>
                  Remaining(s) = tx.idx..(SeqLen(tx) - 1)
             /\ tx.phase = "DONE" => Remaining(s) = {}
             /\ x.phase \in {"PREAMBLE", "HEADER"} =>
                  Remaining(s)' = 0..(SeqLen(x) - 1)
             /\ x.phase = "BLOCKS" /\ mac'[s] = <<>> =>
                  Remaining(s)' = (x.idx + 1)..(SeqLen(x) - 1)
             /\ x.phase = "BLOCKS" /\ mac'[s] # <<>> =>
                  Remaining(s)' = x.idx..(SeqLen(x) - 1)
             /\ x.phase = "DONE" => Remaining(s)' = {}
<1> USE DEF SeqLen
<1>1. /\ ctx[s].tx.phase \in {"PREAMBLE", "HEADER"} =>
                  Remaining(s) = 0..(SeqLen(ctx[s].tx) - 1)
      /\ ctx[s].tx.phase = "BLOCKS" /\ mac[s] = <<>> =>
                  Remaining(s) = (ctx[s].tx.idx + 1)..(SeqLen(ctx[s].tx) - 1)
      /\ ctx[s].tx.phase = "BLOCKS" /\ mac[s] # <<>> =>
                  Remaining(s) = ctx[s].tx.idx..(SeqLen(ctx[s].tx) - 1)
      /\ ctx[s].tx.phase = "DONE" => Remaining(s) = {}
  BY DEF Remaining
<1>2. /\ ctx'[s].tx.phase \in {"PREAMBLE", "HEADER"} =>
                  Remaining(s)' = 0..(SeqLen(ctx'[s].tx) - 1)
      /\ ctx'[s].tx.phase = "BLOCKS" /\ mac'[s] = <<>> =>
                  Remaining(s)' = (ctx'[s].tx.idx + 1)..(SeqLen(ctx'[s].tx) - 1)
      /\ ctx'[s].tx.phase = "BLOCKS" /\ mac'[s] # <<>> =>
                  Remaining(s)' = ctx'[s].tx.idx..(SeqLen(ctx'[s].tx) - 1)
      /\ ctx'[s].tx.phase = "DONE" => Remaining(s)' = {}
  BY DEF Remaining
<1> QED  BY <1>1, <1>2

\* The transfer starts again: nothing is early, and a copy may come at most.
LEMMA RestartsCost ==
  ASSUME NEW s \in Radios, NEW e \in Radios, Sending(s, e)', NEW c, NEW d,
         NEW list, NEW id, Restarts(c, d, list, id),
         ctx'[s].tx = d.tx, ctx'[s].state = d.state, conf'[s] = <<>>,
         heard'[e] = <<>>
  PROVE  /\ Starting(s)' /\ ~Early(s)' /\ ~Refused(s)' /\ ~Pending(e)'
         /\ Cost(s, e)' <= 1
         /\ list = <<>> /\ Clear(e)' => Cost(s, e)' = 0
<1>1. Starting(s)'
  BY DEF Restarts, Starting
<1>2. ~Early(s)'
  BY DEF Restarts, Early
<1>3. Range(<<>>) = {}
  BY DEF Range
<1>4. ~Refused(s)'
  BY <1>3 DEF Refused
<1>5. ~Pending(e)'
  BY DEF Pending
<1>6. Cost(s, e)' <= 1
  BY <1>5, CostRange DEF CostFits
<1>7. list = <<>> /\ Clear(e)' => Cost(s, e)' = 0
  <2>1. ctx'[s].tx.list = list
    BY DEF Restarts
  <2> QED  BY <1>1, <1>4, <1>5, <2>1 DEF Cost, Bit
<1> QED  BY <1>1, <1>2, <1>4, <1>5, <1>6, <1>7

\* What the sender's step on a confirmation leaves.
LEMMA SenderConfLeaves ==
  ASSUME NEW s, NEW e, NEW cf, NEW id, NEW d, SenderConfirmed(s, e, cf, id, d)
  PROVE  /\ ctx'[s].tx = d.tx /\ ctx'[s].state = d.state /\ ctx'[s].tmr = d.tmr
         /\ SenderOnly(s, e) /\ conf'[s] = <<>> /\ heard'[s] = heard[s]
         /\ ctx[s].state = "TX_BURST_PENDING" /\ ctx[s].tx.active
         /\ mac[s] = <<>> /\ conf[s] = <<cf>>
         /\ batch'[s] = Batch(s) \ {"conf"}
         /\ Follows(ctx[s], d, cf, id) /\ trouble <= trouble'
         /\ ~cf.ok => heard[e] = <<>> /\ heard'[e] = <<>>
<1>1. /\ SenderRan(s, e, d, id) /\ conf'[s] = <<>> /\ heard' = heard
      /\ ctx[s].state = "TX_BURST_PENDING" /\ ctx[s].tx.active
      /\ mac[s] = <<>> /\ conf[s] = <<cf>>
      /\ batch'[s] = Batch(s) \ {"conf"}
      /\ Follows(ctx[s], d, cf, id)
      /\ cf.ok \/ heard[e] = <<>>
  BY DEF SenderConfirmed
<1>2. Became(s, d, id) /\ Charged(s, id) /\ SenderOnly(s, e)
  BY <1>1 DEF SenderRan
<1>3. ctx'[s].tx = d.tx /\ ctx'[s].state = d.state /\ ctx'[s].tmr = d.tmr
  BY <1>2 DEF Became
<1>4. trouble <= trouble'
  BY <1>2 DEF Charged
<1>5. heard'[s] = heard[s] /\ heard'[e] = heard[e]
  BY <1>1
<1> QED  BY <1>1, <1>2, <1>3, <1>4, <1>5

\* The next burst is submitted.
LEMMA MovesCost ==
  ASSUME NEW s \in Radios, NEW e \in Radios, Pair(s, e), PairInv(s, e),
         Lined(s, e), Sending(s, e)', NEW cf, NEW id, NEW d,
         SenderConfirmed(s, e, cf, id, d), cf.ok, NEW phase, NEW idx,
         Moves(ctx[s], d, phase, idx, id),
         \/ ctx[s].tx.phase = "PREAMBLE" /\ phase = "HEADER"
         \/ ctx[s].tx.phase = "HEADER" /\ phase = "BLOCKS" /\ idx = 0
         \/ /\ ctx[s].tx.phase = "BLOCKS" /\ phase = "BLOCKS"
            /\ idx = ctx[s].tx.idx + 1
  PROVE  (Early(s)' => Early(s)) /\ Cost(s, e)' <= Cost(s, e)
<1>1. /\ ctx'[s].tx = d.tx /\ ctx'[s].state = d.state /\ ctx'[s].tmr = d.tmr
      /\ SenderOnly(s, e) /\ conf'[s] = <<>> /\ heard'[s] = heard[s]
      /\ ctx[s].state = "TX_BURST_PENDING" /\ mac[s] = <<>> /\ conf[s] = <<cf>>
      /\ batch'[s] = Batch(s) \ {"conf"}
  BY SenderConfLeaves
<1>2. /\ ctx'[s].state = "TX_BURST_PENDING" /\ ctx'[s].tx.phase = phase
      /\ ctx'[s].tmr = ctx[s].tmr
      /\ ctx'[s].tx.msg = ctx[s].tx.msg /\ ctx'[s].tx.list = ctx[s].tx.list
      /\ ctx'[s].tx.idx = idx
  BY <1>1 DEF Moves
<1>3. mac'[s] # <<>>
  <2>1. \/ mac'[s] = <<[id |-> ctx'[s].tx.id, burst |-> TxBurst(ctx'[s].tx)]>>
        \/ \E ok \in BOOLEAN : conf'[s] = <<[id |-> ctx'[s].tx.id, ok |-> ok]>>
    BY <1>2 DEF Sending
  <2> QED  BY <1>1, <2>1, Singles, Zenon
<1>4. Expiry(s)' <=> Expiry(s)
  BY <1>2 DEF Expiry
<1>5. Noticed(s)' <=> IF batch[s] = {} THEN Expiry(s) ELSE Noticed(s)
  BY <1>1, NoticedLater
<1>6. ~Still /\ conf[s] # <<>>
  BY <1>1, Singles DEF Still
<1>7. Early(s)' => Expiry(s)' /\ ~Noticed(s)'
  BY <1>2, <1>3 DEF Early
<1>8. Early(s)' => Early(s)
  <2>1. CASE ctx[s].tx.phase = "PREAMBLE"
    <3>1. Early(s) <=> Expiry(s) /\ ~Noticed(s) /\ batch[s] # {}
      BY <1>1, <1>6, <2>1 DEF Early
    <3> QED  BY <1>4, <1>5, <1>7, <3>1
  <2>2. CASE ctx[s].tx.phase # "PREAMBLE"
    <3>1. Early(s) <=> Expiry(s) \/ Noticed(s)
      BY <1>1, <1>6, <2>2 DEF Early
    <3> QED  BY <1>4, <1>7, <3>1
  <2> QED  BY <2>1, <2>2
<1>9. Range(conf[s]) = {cf} /\ Range(conf'[s]) = {}
  BY <1>1, Singles
<1>10. ~Refused(s) /\ ~Refused(s)'
  BY <1>9 DEF Refused
<1>11. Starting(s)' <=> Starting(s)
  BY <1>1, <1>2, <1>3 DEF Starting
<1>12. Remaining(s)' = Remaining(s)
  <2>1. SeqLen(ctx'[s].tx) = SeqLen(ctx[s].tx)
    BY <1>2 DEF SeqLen
  <2> QED  BY <1>1, <1>2, <1>3, <2>1, RemainingIs
<1>13. Asked(e)' = Asked(e) /\ Hears(s)' = Hears(s)
  BY <1>1, SenderLeaves DEF Hears
<1>14. (Acked(s, e)' <=> Acked(s, e)) /\ (Takeable(s, e)' <=> Takeable(s, e))
  BY <1>1, <1>2, <1>13 DEF Acked, Takeable
<1>15. Cost(s, e)' <= Cost(s, e)
  BY <1>1, <1>2, <1>10, <1>11, <1>12, <1>14, SenderCost
<1> QED  BY <1>8, <1>15

\* All is sent.
LEMMA CompletesCost ==
  ASSUME NEW s \in Radios, NEW e \in Radios, Pair(s, e), PairInv(s, e),
         Lined(s, e), NEW cf, NEW id, NEW d,
         SenderConfirmed(s, e, cf, id, d), cf.ok, Completes(ctx[s], d),
         \/ ctx[s].tx.phase = "HEADER" /\ NBlocks(ctx[s].tx.msg) = 0
         \/ ctx[s].tx.phase = "BLOCKS" /\ ctx[s].tx.idx + 1 = SeqLen(ctx[s].tx)
  PROVE  (Early(s)' => Early(s)) /\ Cost(s, e)' <= Cost(s, e)
<1>1. /\ ctx'[s].tx = d.tx /\ ctx'[s].state = d.state /\ ctx'[s].tmr = d.tmr
      /\ SenderOnly(s, e) /\ conf'[s] = <<>> /\ heard'[s] = heard[s]
      /\ ctx[s].state = "TX_BURST_PENDING" /\ mac[s] = <<>> /\ conf[s] = <<cf>>
      /\ batch'[s] = Batch(s) \ {"conf"} /\ ctx[s].tx.active
  BY SenderConfLeaves
<1>2. /\ ctx'[s].state = "TX_WAIT_ACK" /\ ctx'[s].tx.phase = "DONE"
      /\ ctx'[s].tmr["response"].kern = "running"
      /\ ctx'[s].tx.msg = ctx[s].tx.msg
  BY <1>1 DEF Completes
<1>3. ~Expiry(s)'
  BY <1>2 DEF Expiry
<1>4. Noticed(s)' <=> IF batch[s] = {} THEN Expiry(s) ELSE Noticed(s)
  BY <1>1, NoticedLater
<1>5. ~Still /\ conf[s] # <<>>
  BY <1>1, Singles DEF Still
<1>6. Early(s)' => Noticed(s)'
  BY <1>2, <1>3 DEF Early
<1>7. Early(s) <=> Expiry(s) \/ Noticed(s)
  BY <1>1, <1>5 DEF Early
<1>8. Range(conf[s]) = {cf} /\ Range(conf'[s]) = {}
  BY <1>1, Singles
<1>9. ~Refused(s) /\ ~Refused(s)'
  BY <1>8 DEF Refused
<1>10. ~Starting(s) /\ ~Starting(s)'
  BY <1>1, <1>2 DEF Starting
<1>11. Remaining(s)' = {}
  BY <1>2, RemainingIs
<1>12. Remaining(s) = {}
  <2>1. /\ ctx[s].tx \in Going /\ ctx[s].tx.msg \in Messages /\ TxSound(ctx[s].tx)
    BY <1>1, PairFacts DEF Sound, SoundParts
  <2>2. ctx[s].tx.list \in Seq(Nat) /\ NBlocks(ctx[s].tx.msg) \in Nat
        /\ ctx[s].tx.idx \in Nat
    BY <2>1, NBlocksNat DEF Going
  <2>3. SeqLen(ctx[s].tx) \in Nat
    BY <2>2 DEF SeqLen
  <2>4. CASE ctx[s].tx.phase = "HEADER" /\ NBlocks(ctx[s].tx.msg) = 0
    <3>1. \A i \in DOMAIN ctx[s].tx.list : FALSE
      BY <2>1, <2>4 DEF TxSound
    <3>2. ctx[s].tx.list = <<>>
      <4>1. Range(ctx[s].tx.list) = {}
        BY <3>1 DEF Range
      <4> QED  BY <2>2, <4>1, EmptyRange
    <3>3. SeqLen(ctx[s].tx) = 0
      BY <2>4, <3>2 DEF SeqLen
    <3> QED  BY <2>4, <3>3, RemainingIs
  <2>5. CASE ctx[s].tx.phase = "BLOCKS" /\ ctx[s].tx.idx + 1 = SeqLen(ctx[s].tx)
    BY <1>1, <2>2, <2>3, <2>5, RemainingIs
  <2> QED  BY <2>4, <2>5
<1>13. Asked(e)' = Asked(e) /\ Hears(s)' = Hears(s)
  BY <1>1, SenderLeaves DEF Hears
<1>14. (Acked(s, e)' <=> Acked(s, e)) /\ (Takeable(s, e)' <=> Takeable(s, e))
  BY <1>1, <1>2, <1>13 DEF Acked, Takeable
<1>15. Cost(s, e)' <= Cost(s, e)
  BY <1>1, <1>2, <1>9, <1>10, <1>11, <1>12, <1>14, SenderCost
<1> QED  BY <1>4, <1>6, <1>7, <1>15

LEMMA SenderConfPays ==
  ASSUME NEW s \in Radios, NEW e \in Radios, Pair(s, e), PairInv(s, e), Typed',
         Lined(s, e), ConfReady(s)
  PROVE  Pays(s, e)
<1>1. PICK cf, id, d : SenderConfirmed(s, e, cf, id, d)
  BY SenderConf
<1>2. Sending(s, e)'
  BY SenderConf
<1>3. /\ ctx'[s].tx = d.tx /\ ctx'[s].state = d.state
      /\ SenderOnly(s, e) /\ conf'[s] = <<>> /\ conf[s] = <<cf>>
      /\ Follows(ctx[s], d, cf, id) /\ trouble <= trouble'
      /\ ~cf.ok => heard[e] = <<>> /\ heard'[e] = <<>>
  BY <1>1, SenderConfLeaves
<1>4. ASSUME ctx'[s].tx.active
      PROVE  (Early(s)' => Early(s)) /\ Cost(s, e)' <= Cost(s, e)
  <2>1. ~Ends(ctx[s], d)
    BY <1>3, <1>4 DEF Ends, NoTx
  <2>2. CASE ~cf.ok /\ Restarts(ctx[s], d, ctx[s].tx.list, id)
    <3>1. Range(conf[s]) = {cf}
      BY <1>3, Singles
    <3>2. Refused(s) /\ heard[e] = <<>> /\ heard'[e] = <<>>
      BY <1>3, <2>2, <3>1 DEF Refused
    <3>3. Cost(s, e) >= 1
      <4>1. ~Pending(e)
        BY <3>2 DEF Pending
      <4> QED  BY <3>2, <4>1 DEF Cost, Bit
    <3>4. ~Early(s)' /\ Cost(s, e)' <= 1
      BY <1>2, <1>3, <2>2, <3>2, RestartsCost
    <3> QED  BY <3>3, <3>4, CostRange DEF CostFits
  <2>3. CASE cf.ok /\ ctx[s].tx.phase = "PREAMBLE"
             /\ Moves(ctx[s], d, "HEADER", 0, id)
    BY <1>1, <1>2, <2>3, MovesCost
  <2>4. CASE cf.ok /\ ctx[s].tx.phase = "HEADER"
             /\ Moves(ctx[s], d, "BLOCKS", 0, id)
    BY <1>1, <1>2, <2>4, MovesCost
  <2>5. CASE cf.ok /\ ctx[s].tx.phase = "BLOCKS"
             /\ Moves(ctx[s], d, "BLOCKS", ctx[s].tx.idx + 1, id)
    BY <1>1, <1>2, <2>5, MovesCost
  <2>6. CASE /\ cf.ok
             /\ \/ ctx[s].tx.phase = "HEADER" /\ NBlocks(ctx[s].tx.msg) = 0
                \/ ctx[s].tx.phase = "BLOCKS" /\ ctx[s].tx.idx + 1 = SeqLen(ctx[s].tx)
             /\ Completes(ctx[s], d)
    BY <1>1, <2>6, CompletesCost
  <2> QED  BY <1>3, <2>1, <2>2, <2>3, <2>4, <2>5, <2>6 DEF Follows
<1>5. Typed
  BY DEF PairInv
<1> QED  BY <1>3, <1>4, <1>5, SenderNoMore

\* The sender takes what it hears.
LEMMA SenderRxLeaves ==
  ASSUME NEW s, NEW e, NEW u, NEW id, NEW d, SenderHeard(s, e, u, id, d)
  PROVE  /\ ctx'[s].tx = d.tx /\ ctx'[s].state = d.state /\ ctx'[s].tmr = d.tmr
         /\ d.out = Silent => mac'[s] = mac[s]
         /\ SenderOnly(s, e) /\ conf[s] = <<>> /\ conf'[s] = <<>>
         /\ heard[s] = <<u>> /\ heard'[s] = <<>>
         /\ heard[e] = <<>> /\ heard'[e] = <<>>
         /\ batch'[s] = Batch(s) \ {"rx"}
         /\ Heeded(ctx[s], d, u, s, id) /\ trouble <= trouble'
<1>1. /\ SenderRan(s, e, d, id) /\ conf[s] = <<>> /\ conf' = conf
      /\ heard[s] = <<u>> /\ heard'[s] = <<>> /\ heard[e] = <<>>
      /\ batch'[s] = Batch(s) \ {"rx"} /\ Heeded(ctx[s], d, u, s, id)
  BY DEF SenderHeard
<1>2. Became(s, d, id) /\ Charged(s, id) /\ SenderOnly(s, e)
  BY <1>1 DEF SenderRan
<1>3. /\ ctx'[s].tx = d.tx /\ ctx'[s].state = d.state /\ ctx'[s].tmr = d.tmr
      /\ d.out = Silent => mac'[s] = mac[s]
  BY <1>2 DEF Became
<1>4. trouble <= trouble'
  BY <1>2 DEF Charged
<1>5. conf'[s] = <<>> /\ heard'[e] = <<>>
  BY <1>1, <1>2 DEF SenderOnly
<1> QED  BY <1>1, <1>2, <1>3, <1>4, <1>5

\* It has no use for it.
LEMMA IgnoresCost ==
  ASSUME NEW s \in Radios, NEW e \in Radios, Pair(s, e), PairInv(s, e),
         Lined(s, e), NEW u, NEW id, NEW d, SenderHeard(s, e, u, id, d),
         d = ctx[s], ctx[s].tx.active,
         u.kind = "rdata" => ctx[s].state # "TX_WAIT_SACK_DATA",
         u.kind = "response" => ~Heedful(ctx[s], u, s)
  PROVE  (Early(s)' => Early(s)) /\ Cost(s, e)' <= Cost(s, e)
<1>1. /\ ctx'[s].tx = ctx[s].tx /\ ctx'[s].state = ctx[s].state
      /\ ctx'[s].tmr = ctx[s].tmr
      /\ SenderOnly(s, e) /\ conf[s] = <<>> /\ conf'[s] = <<>>
      /\ heard[s] = <<u>> /\ heard'[s] = <<>>
      /\ batch'[s] = Batch(s) \ {"rx"} /\ mac'[s] = mac[s]
      /\ ctx'[s].tx.msg = ctx[s].tx.msg /\ ctx'[s].tx.list = ctx[s].tx.list
  <2>1. d.out = Silent
    BY PairFacts
  <2> QED  BY <2>1, SenderRxLeaves
<1>2. Hears(s) = {u} /\ Hears(s)' = {}
  BY <1>1, Singles DEF Hears
<1>3. Asked(e)' = Asked(e)
  BY <1>1, SenderLeaves
<1>4. /\ u.kind \in {"response", "rdata"}
      /\ u.kind = "response" => u.to = s
  BY <1>2, PairFacts DEF Lined, Heeds
<1>5. ctx[s].state = "TX_WAIT_ACK" => u.kind = "rdata"
  <2>1. ctx[s].state = "TX_WAIT_ACK" => Confirmed(ctx[s].tx.msg)
    BY PairFacts DEF Tracked, Attentive, AsksOnly
  <2> QED  BY <1>4, <2>1 DEF Heedful
<1>6. ctx[s].state = "TX_WAIT_SACK_DATA" => u.kind = "response"
  BY <1>4
<1>7. ctx[s].state \in {"TX_BURST_PENDING", "TX_WAIT_ACK", "TX_WAIT_SACK_DATA"}
  BY DEF Lined, Sending
<1>8. ctx[s].state = "TX_BURST_PENDING" => mac[s] # <<>> /\ ctx[s].tx.phase # "DONE"
  <2>1. ctx[s].state = "TX_BURST_PENDING" =>
          /\ ctx[s].tx.phase # "DONE"
          /\ \/ mac[s] = <<[id |-> ctx[s].tx.id, burst |-> TxBurst(ctx[s].tx)]>>
             \/ \E ok \in BOOLEAN : conf[s] = <<[id |-> ctx[s].tx.id, ok |-> ok]>>
    BY DEF Lined, Sending
  <2> QED  BY <1>1, <2>1, Singles, Zenon
<1>9. Noticed(s)' <=> IF batch[s] = {} THEN Expiry(s) ELSE Noticed(s)
  BY <1>1, NoticedLater
<1>10. Expiry(s)' <=> Expiry(s)
  BY <1>1 DEF Expiry
<1>11. ~Still
  BY <1>1, Singles DEF Still
<1>12. Early(s)' => Early(s)
  <2>1. CASE ctx[s].state # "TX_BURST_PENDING"
    <3>1. Early(s)' => Expiry(s)' \/ Noticed(s)'
      BY <1>1, <2>1 DEF Early
    <3>2. Early(s) <=> Expiry(s) \/ Noticed(s)
      BY <1>11, <2>1 DEF Early
    <3> QED  BY <1>9, <1>10, <3>1, <3>2
  <2>2. CASE ctx[s].state = "TX_BURST_PENDING"
    <3>1. Early(s)' => ctx[s].tx.phase # "PREAMBLE" /\ Expiry(s)' /\ ~Noticed(s)'
      BY <1>1, <1>8, <2>2 DEF Early
    <3>2. ctx[s].tx.phase # "PREAMBLE" => (Early(s) <=> Expiry(s) /\ ~Noticed(s))
      BY <1>8, <1>11, <2>2 DEF Early
    <3> QED  BY <1>9, <1>10, <3>1, <3>2
  <2> QED  BY <2>1, <2>2
<1>13. /\ Starting(s)' <=> Starting(s)
       /\ ~Refused(s) /\ ~Refused(s)'
       /\ Remaining(s)' = Remaining(s)
  <2>1. Remaining(s)' = Remaining(s)
    BY <1>1 DEF Remaining, SeqLen
  <2>2. ~Refused(s) /\ ~Refused(s)'
    BY <1>1, Singles DEF Refused
  <2> QED  BY <1>1, <2>1, <2>2 DEF Starting
<1>17. /\ SenderOnly(s, e) /\ ctx'[s].tx.msg = ctx[s].tx.msg
       /\ ctx'[s].tx.list = ctx[s].tx.list
  BY <1>1
<1>14. CASE ctx[s].state = "TX_BURST_PENDING"
  <2>1. Starting(s) \/ Remaining(s) # {}
    <3>1. /\ ctx[s].tx \in Going /\ ctx[s].tx.msg \in Messages
          /\ TxSound(ctx[s].tx)
      BY PairFacts DEF Sound, SoundParts
    <3>2. ctx[s].tx.phase \in {"PREAMBLE", "HEADER", "BLOCKS"}
      BY <1>8, <1>14, <3>1 DEF Going, Phases
    <3>3. CASE ctx[s].tx.phase = "BLOCKS"
      <4>1. ctx[s].tx.idx \in 0..(SeqLen(ctx[s].tx) - 1)
        BY <3>1, <3>3 DEF TxSound
      <4>2. Remaining(s) = ctx[s].tx.idx..(SeqLen(ctx[s].tx) - 1)
        BY <1>8, <1>14, <3>3, RemainingIs
      <4>3. SeqLen(ctx[s].tx) \in Nat
        BY <3>1, NBlocksNat DEF SeqLen, Going
      <4>4. ctx[s].tx.idx \in Remaining(s)
        BY <4>1, <4>2, <4>3
      <4> QED  BY <4>4
    <3> QED  BY <1>8, <1>14, <3>2, <3>3 DEF Starting
  <2> QED  BY <1>12, <1>13, <1>17, <2>1, SenderCost
<1>15. CASE ctx[s].state = "TX_WAIT_ACK"
  <2>1. ~Acked(s, e)
    BY <1>2, <1>5, <1>15 DEF Acked, Acks
  <2>2. ~Takeable(s, e)'
    BY <1>1, <1>2, <1>15 DEF Takeable
  <2> QED  BY <1>12, <1>13, <1>17, <2>1, <2>2, SenderCost
<1>16. CASE ctx[s].state = "TX_WAIT_SACK_DATA"
  <2>1. ~Acked(s, e)
    BY <1>16 DEF Acked
  <2>2. Takeable(s, e)' => Takeable(s, e)
    BY <1>2, <1>3, <1>16 DEF Takeable
  <2> QED  BY <1>12, <1>13, <1>17, <2>1, <2>2, SenderCost
<1> QED  BY <1>7, <1>12, <1>14, <1>15, <1>16

LEMMA SenderRxPays ==
  ASSUME NEW s \in Radios, NEW e \in Radios, Pair(s, e), PairInv(s, e), Typed',
         Lined(s, e), RxReady(s)
  PROVE  Pays(s, e)
<1>1. PICK u, id, d : SenderHeard(s, e, u, id, d)
  BY SenderRx
<1>2. Sending(s, e)'
  BY SenderRx
<1>3. /\ ctx'[s].tx = d.tx /\ ctx'[s].state = d.state /\ ctx'[s].tmr = d.tmr
      /\ SenderOnly(s, e) /\ conf[s] = <<>> /\ conf'[s] = <<>>
      /\ heard[s] = <<u>> /\ heard'[s] = <<>>
      /\ heard[e] = <<>> /\ heard'[e] = <<>>
      /\ batch'[s] = Batch(s) \ {"rx"}
      /\ Heeded(ctx[s], d, u, s, id) /\ trouble <= trouble'
  BY <1>1, SenderRxLeaves
<1>4. ASSUME ctx'[s].tx.active, Fair(ctx[s].tx.msg)
      PROVE  (Early(s)' => Early(s)) /\ Cost(s, e)' <= Cost(s, e)
  <2>1. ~Ends(ctx[s], d)
    BY <1>3, <1>4 DEF Ends, NoTx
  <2>2. ctx[s].tx.active /\ ctx'[s].tx.msg = ctx[s].tx.msg
    BY <1>3, <1>4 DEF SenderOnly
  <2>3. Hears(s) = {u} /\ Hears(s)' = {} /\ Asked(e)' = Asked(e)
    BY <1>3, Singles, SenderLeaves DEF Hears
  <2>4. u.kind = "response" => u.class # "NACK"
    BY <1>4, <2>2, <2>3 DEF Lined, Heeds
  <2>5. ~Refused(s) /\ ~Refused(s)'
    BY <1>3, Singles DEF Refused
  <2>6. CASE /\ d = ctx[s]
             /\ u.kind = "rdata" => ctx[s].state # "TX_WAIT_SACK_DATA"
             /\ u.kind = "response" => ~Heedful(ctx[s], u, s)
    BY <1>1, <2>2, <2>6, IgnoresCost
  <2>7. Noticed(s)' <=> IF batch[s] = {} THEN Expiry(s) ELSE Noticed(s)
    BY <1>3, NoticedLater
  <2>8. ~Still
    BY <1>3, Singles DEF Still
  <2>9. ctx[s].state \in {"TX_WAIT_ACK", "TX_WAIT_SACK_DATA"} =>
          /\ ctx[s].tx.phase = "DONE" /\ ~Starting(s) /\ Remaining(s) = {}
          /\ Early(s) <=> Expiry(s) \/ Noticed(s)
    <3>1. ctx[s].state \in {"TX_WAIT_ACK", "TX_WAIT_SACK_DATA"} =>
            ctx[s].tx.phase = "DONE"
      BY DEF Lined, Sending
    <3> QED  BY <2>8, <3>1, RemainingIs DEF Starting, Early
  <2>10. CASE /\ u.kind = "response" /\ Heedful(ctx[s], u, s)
              /\ u.class = "SACK" /\ Announces(ctx[s], d, u.follow)
    <3>1. ctx[s].state = "TX_WAIT_ACK"
      BY <2>10 DEF Heedful
    <3>2. /\ ctx'[s].state = "TX_WAIT_SACK_DATA"
          /\ ctx'[s].tmr["response"].kern = "running"
          /\ ctx'[s].tx.phase = "DONE"
      BY <1>3, <2>9, <2>10, <3>1 DEF Announces
    <3>3. Early(s)' => Noticed(s)'
      BY <3>2 DEF Early, Expiry
    <3>4. ~Starting(s)' /\ Remaining(s)' = {}
      BY <3>2, RemainingIs DEF Starting
    <3>5. ~Acked(s, e)
      BY <2>3, <2>10 DEF Acked, Acks
    <3>6. Takeable(s, e)' => Takeable(s, e)
      BY <2>3, <2>10 DEF Takeable, Sacks
    <3>7. Cost(s, e)' <= Cost(s, e)
      BY <1>3, <2>2, <2>5, <2>9, <3>1, <3>4, <3>5, <3>6, SenderCost
    <3> QED  BY <2>7, <2>9, <3>1, <3>3, <3>7
  <2>11. ASSUME u.kind = "rdata", ctx[s].state = "TX_WAIT_SACK_DATA",
                Collects(ctx[s], d, u.zeros)
         PROVE  (Early(s)' => Early(s)) /\ Cost(s, e)' <= Cost(s, e)
    <3>1. /\ ctx'[s].state = "TX_WAIT_SACK_DATA" /\ ctx'[s].tmr = ctx[s].tmr
          /\ ctx'[s].tx.phase = "DONE"
      BY <1>3, <2>9, <2>11 DEF Collects
    <3>2. Early(s)' => Expiry(s) \/ Noticed(s)'
      BY <3>1 DEF Early, Expiry
    <3>3. ~Starting(s)' /\ Remaining(s)' = {}
      BY <3>1, RemainingIs DEF Starting
    <3>4. ~Acked(s, e)
      BY <2>11 DEF Acked
    <3>5. Takeable(s, e)' => Takeable(s, e)
      BY <2>3, <2>11 DEF Takeable
    <3>6. Cost(s, e)' <= Cost(s, e)
      BY <1>3, <2>2, <2>5, <2>9, <2>11, <3>3, <3>4, <3>5, SenderCost
    <3> QED  BY <2>7, <2>9, <2>11, <3>2, <3>6
  <2>12. ASSUME u.kind = "rdata", ctx[s].state = "TX_WAIT_SACK_DATA",
                NEW list, Restarts(ctx[s], d, list, id)
         PROVE  (Early(s)' => Early(s)) /\ Cost(s, e)' <= Cost(s, e)
    <3>1. ~Early(s)' /\ Cost(s, e)' <= 1
      BY <1>2, <1>3, <2>12, RestartsCost
    <3>2. ~Pending(e)
      BY <1>3 DEF Pending
    <3>3. Takeable(s, e) /\ ~Acked(s, e)
      BY <2>3, <2>12 DEF Takeable, Acked
    <3>4. Confirmed(ctx[s].tx.msg)
      BY <2>12, PairFacts DEF Tracked, Attentive, AsksOnly
    <3>5. Cost(s, e) = 1
      BY <2>5, <2>9, <2>12, <3>2, <3>3, <3>4 DEF Cost, Bit
    <3> QED  BY <3>1, <3>5
  <2>13. ~(u.kind = "response" /\ u.class = "NACK")
    BY <2>4
  <2> QED  BY <1>3, <2>1, <2>6, <2>10, <2>11, <2>12, <2>13 DEF Heeded
<1>5. Typed
  BY DEF PairInv
<1> QED  BY <1>3, <1>4, <1>5, SenderNoMore

LEMMA DrainReads ==
  ASSUME NEW tm \in [Timers -> Timer], NEW t \in Timers
  PROVE  /\ Drain(tm, t)[t].kern # "expired"
         /\ \A u \in Timers \ {t} : Drain(tm, t)[u] = tm[u]
BY DEF Drain, Timer, Off

\* Its timers.
LEMMA SenderTimerLeaves ==
  ASSUME NEW s, NEW e, NEW t, NEW id, NEW d, SenderTimed(s, e, t, id, d)
  PROVE  /\ ctx'[s].tx = d.tx /\ ctx'[s].state = d.state
         /\ SenderOnly(s, e) /\ conf' = conf /\ heard' = heard
         /\ batch'[s] = Batch(s) \ {t} /\ t \in Batch(s) /\ trouble <= trouble'
         /\ mac'[e] = mac[e]
<1>1. /\ SenderRan(s, e, d, id) /\ conf' = conf /\ heard' = heard
      /\ batch'[s] = Batch(s) \ {t} /\ t \in Batch(s)
  BY DEF SenderTimed
<1>2. Became(s, d, id) /\ Charged(s, id) /\ SenderOnly(s, e)
  BY <1>1 DEF SenderRan
<1>3. ctx'[s].tx = d.tx /\ ctx'[s].state = d.state
  BY <1>2 DEF Became
<1>4. trouble <= trouble'
  BY <1>2 DEF Charged
<1>5. mac'[e] = mac[e]
  BY <1>2 DEF SenderOnly
<1> QED  BY <1>1, <1>2, <1>3, <1>4, <1>5

\* An expiry that does not matter is read.
LEMMA ReadsCost ==
  ASSUME NEW s \in Radios, NEW e \in Radios, Pair(s, e), PairInv(s, e),
         Lined(s, e), SenderOnly(s, e), conf' = conf, heard' = heard,
         NEW t \in Timers, t \in Batch(s), batch'[s] = Batch(s) \ {t},
         mac'[s] = mac[s], ctx'[s].tx = ctx[s].tx, ctx'[s].state = ctx[s].state,
         ctx'[s].tmr = Drain(ctx[s].tmr, t), ctx[s].tx.active,
         t = "response" => ctx[s].state \notin {"TX_WAIT_ACK", "TX_WAIT_SACK_DATA"}
  PROVE  (Early(s)' => Early(s)) /\ Cost(s, e)' <= Cost(s, e)
<1>1. /\ Radios = {s, e} /\ ctx[s].tmr \in [Timers -> Timer]
      /\ ctx[s].state \in {"TX_BURST_PENDING", "TX_WAIT_ACK", "TX_WAIT_SACK_DATA"}
  BY PairFacts, ContextFields DEF Lined, Sending
<1>2. mac'[e] = mac[e]
  BY DEF SenderOnly
<1>3. Still' <=> Still
  BY <1>1, <1>2 DEF Still
<1>4. Early(s)' => Early(s)
  <2>1. CASE t = "response"
    <3>1. ctx'[s].state = "TX_BURST_PENDING"
      BY <1>1, <2>1
    <3>2. ~Expiry(s)' /\ ~Noticed(s)'
      BY <1>1, <2>1, DrainReads DEF Expiry, Noticed
    <3> QED  BY <3>1, <3>2 DEF Early
  <2>2. CASE t # "response"
    <3>1. "response" \in Timers
      BY DEF Timers
    <3>2. Expiry(s)' <=> Expiry(s)
      BY <1>1, <2>2, <3>1, DrainReads DEF Expiry
    <3>3. Noticed(s)' <=> IF batch[s] = {} THEN Expiry(s) ELSE Noticed(s)
      BY <2>2, NoticedLater
    <3>4. CASE ctx[s].state # "TX_BURST_PENDING"
      <4>1. Early(s)' => ~Still' /\ (Expiry(s)' \/ Noticed(s)')
        BY <3>4 DEF Early
      <4>2. Early(s) <=> ~Still /\ (Expiry(s) \/ Noticed(s))
        BY <3>4 DEF Early
      <4> QED  BY <1>3, <3>2, <3>3, <4>1, <4>2
    <3>5. CASE ctx[s].state = "TX_BURST_PENDING" /\ ctx[s].tx.phase = "PREAMBLE"
      <4>1. Early(s)' => ~Still' /\ conf[s] # <<>> /\ Expiry(s)' /\ ~Noticed(s)'
        BY <3>5 DEF Early
      <4>2. Early(s) <=> /\ ~Still /\ conf[s] # <<>> /\ Expiry(s) /\ ~Noticed(s)
                         /\ batch[s] # {}
        BY <3>5 DEF Early
      <4> QED  BY <1>3, <3>2, <3>3, <4>1, <4>2
    <3>6. CASE /\ ctx[s].state = "TX_BURST_PENDING" /\ ctx[s].tx.phase # "PREAMBLE"
               /\ mac[s] # <<>>
      <4>1. Early(s)' => ~Still' /\ Expiry(s)' /\ ~Noticed(s)'
        BY <3>6 DEF Early
      <4>2. Early(s) <=> ~Still /\ Expiry(s) /\ ~Noticed(s)
        BY <3>6 DEF Early
      <4> QED  BY <1>3, <3>2, <3>3, <4>1, <4>2
    <3>7. CASE /\ ctx[s].state = "TX_BURST_PENDING" /\ ctx[s].tx.phase # "PREAMBLE"
               /\ mac[s] = <<>>
      <4>1. Early(s)' => ~Still' /\ (Expiry(s)' \/ Noticed(s)')
        BY <3>7 DEF Early
      <4>2. Early(s) <=> ~Still /\ (Expiry(s) \/ Noticed(s))
        BY <3>7 DEF Early
      <4> QED  BY <1>3, <3>2, <3>3, <4>1, <4>2
    <3> QED  BY <3>4, <3>5, <3>6, <3>7
  <2> QED  BY <2>1, <2>2
<1>5. /\ Starting(s)' <=> Starting(s)
      /\ Refused(s)' <=> Refused(s)
      /\ Remaining(s)' = Remaining(s)
  <2>1. Remaining(s)' = Remaining(s)
    BY DEF Remaining, SeqLen
  <2> QED  BY <2>1 DEF Starting, Refused
<1>6. (Acked(s, e)' <=> Acked(s, e)) /\ (Takeable(s, e)' <=> Takeable(s, e))
  BY SenderLeaves DEF Acked, Takeable, Hears
<1>7. ctx'[s].tx.msg = ctx[s].tx.msg /\ ctx'[s].tx.list = ctx[s].tx.list
  OBVIOUS
<1>8. Cost(s, e)' <= Cost(s, e)
  BY <1>5, <1>6, <1>7, SenderCost
<1> QED  BY <1>4, <1>8

\* T_Response starts all again: that costs where a response was to come.
LEMMA TimesOutCost ==
  ASSUME NEW s \in Radios, NEW e \in Radios, Pair(s, e), PairInv(s, e),
         Lined(s, e), SenderOnly(s, e), conf' = conf, heard' = heard,
         "response" \in Batch(s), batch'[s] = Batch(s) \ {"response"},
         ctx[s].tx.active, ctx[s].state \in {"TX_WAIT_ACK", "TX_WAIT_SACK_DATA"},
         NEW d, NEW id, Restarts(ctx[s], d, ctx[s].tx.list, id),
         ctx'[s].tx = d.tx, ctx'[s].state = d.state
  PROVE  Bit(Early(s))' + Cost(s, e)' <= Bit(Early(s)) + Cost(s, e)
<1>1. /\ ctx[s].tx.phase = "DONE" /\ ctx[s].tx.list = <<>>
      /\ mac[s] = <<>> /\ conf[s] = <<>>
  BY DEF Lined, Sending
<1>2. /\ Radios = {s, e} /\ Confirmed(ctx[s].tx.msg)
      /\ conf \in [Radios -> Seq(Confs)]
      /\ ctx[e].rx.active \in BOOLEAN
  BY PairFacts, ContextFields DEF Tracked, Attentive, AsksOnly
<1>3. ctx'[s].tx.phase = "PREAMBLE" /\ ctx'[s].tx.list = <<>>
      /\ ctx'[s].state = "TX_BURST_PENDING" /\ conf'[s] = <<>>
  BY <1>1 DEF Restarts
<1>4. Starting(s)' /\ ~Early(s)'
  BY <1>3 DEF Starting, Early
<1>5. ~Refused(s) /\ ~Refused(s)'
  BY <1>1, <1>3, Singles DEF Refused
<1>6. (Clear(e)' <=> Clear(e)) /\ (Pending(e)' <=> Pending(e))
  BY SenderLeaves
<1>7. Cost(s, e)' = Bit(~Clear(e)) + Bit(Pending(e))
  BY <1>3, <1>4, <1>5, <1>6 DEF Cost, Bit
<1>8. ~Starting(s) /\ Remaining(s) = {}
  BY <1>1, RemainingIs DEF Starting
<1>9. Bit(Early(s))' = 0
  BY <1>4 DEF Bit
<1>10. CASE Still
  <2>1. mac[e] = <<>> /\ conf[e] = <<>> /\ heard[e] = <<>> /\ heard[s] = <<>>
    BY <1>10 DEF Still
  <2>2. Asked(e) = {} /\ Hears(s) = {} /\ Named(e) = {}
    BY <2>1, Singles DEF Asked, Hears, Named
  <2>3. Clear(e)
    BY <2>2 DEF Clear
  <2>4. ~Pending(e)
    BY <2>1 DEF Pending
  <2>5. ~Acked(s, e)
    BY <2>2 DEF Acked
  <2>6. Cost(s, e) >= 0
    BY <1>2, <1>5, <1>8, <2>4, <2>5 DEF Cost, Bit
  <2>7. Bit(~Clear(e)) = 0 /\ Bit(Pending(e)) = 0 /\ Bit(Early(s)) \in 0..1
    BY <2>3, <2>4, BitIs
  <2> QED  BY <1>7, <1>9, <2>6, <2>7, CostRange DEF CostFits
<1>11. CASE ~Still
  <2>1. Expiry(s) \/ Noticed(s)
    BY DEF Batch, Ready, Expiry, Noticed, Timers
  <2>2. Bit(Early(s)) = 1
    BY <1>11, <2>1 DEF Early, Bit
  <2>3. Cost(s, e)' <= 1 + Cost(s, e)
    <3>1. CASE Pending(e)
      <4>1. Cost(s, e) = Bit(~OnTime(s, e))
        BY <1>5, <1>8, <3>1 DEF Cost
      <4>2. OnTime(s, e) => Clear(e)
        BY DEF OnTime
      <4> QED  BY <1>7, <3>1, <4>1, <4>2 DEF Bit
    <3>2. CASE ~Pending(e) /\ ctx[e].rx.active
      <4>1. Cost(s, e) = 1
        BY <1>5, <1>8, <3>2 DEF Cost
      <4> QED  BY <1>7, <3>2, <4>1 DEF Bit
    <3>3. CASE ~Pending(e) /\ ~ctx[e].rx.active /\ Acked(s, e)
      <4>1. Cost(s, e) = -1
        BY <1>5, <1>8, <3>3 DEF Cost
      <4>2. Clear(e)
        BY <3>3 DEF Clear, Acked
      <4> QED  BY <1>7, <3>3, <4>1, <4>2 DEF Bit
    <3>4. CASE ~Pending(e) /\ ~ctx[e].rx.active /\ ~Acked(s, e)
      <4>1. Cost(s, e) >= 0
        BY <1>2, <1>5, <1>8, <3>4 DEF Cost, Bit
      <4> QED  BY <1>7, <3>4, <4>1, CostRange DEF Bit, CostFits
    <3> QED  BY <1>2, <3>1, <3>2, <3>3, <3>4
  <2> QED  BY <1>9, <2>2, <2>3, CostRange DEF CostFits
<1> QED  BY <1>10, <1>11

LEMMA SenderTimerPays ==
  ASSUME NEW s \in Radios, NEW e \in Radios, Pair(s, e), PairInv(s, e), Typed',
         Lined(s, e), NEW t \in Timers, TimerReady(s, t)
  PROVE  Pays(s, e)
<1>1. PICK id, d : SenderTimed(s, e, t, id, d)
  BY SenderTimer
<1>2. /\ ctx'[s].tx = d.tx /\ ctx'[s].state = d.state
      /\ SenderOnly(s, e) /\ conf' = conf /\ heard' = heard
      /\ batch'[s] = Batch(s) \ {t} /\ t \in Batch(s) /\ trouble <= trouble'
  BY <1>1, SenderTimerLeaves
<1>3. Typed
  BY DEF PairInv
<1>4. CASE /\ mac'[s] = mac[s] /\ ctx'[s].tx = ctx[s].tx
           /\ ctx'[s].state = ctx[s].state /\ ctx'[s].tmr = Drain(ctx[s].tmr, t)
           /\ t = "response" =>
                ctx[s].state \notin {"TX_WAIT_ACK", "TX_WAIT_SACK_DATA"}
  <2>1. ctx'[s].tx.active => (Early(s)' => Early(s)) /\ Cost(s, e)' <= Cost(s, e)
    BY <1>2, <1>4, ReadsCost
  <2> QED  BY <1>2, <1>3, <2>1, SenderNoMore
<1>5. CASE /\ t = "response"
           /\ ctx[s].state \in {"TX_WAIT_ACK", "TX_WAIT_SACK_DATA"}
           /\ Ends(ctx[s], d) \/ Restarts(ctx[s], d, ctx[s].tx.list, id)
  <2>1. ASSUME ctx'[s].tx.active
        PROVE  Bit(Early(s))' + Cost(s, e)' <= Bit(Early(s)) + Cost(s, e)
    <3>1. ctx[s].tx.active /\ Restarts(ctx[s], d, ctx[s].tx.list, id)
      BY <1>2, <1>5, <2>1 DEF Ends, NoTx, SenderOnly
    <3> QED  BY <1>2, <1>5, <3>1, TimesOutCost
  <2>2. /\ trouble \in Nat /\ trouble' \in Nat
    BY <1>3, DataBounds DEF Typed
  <2>3. Cost(s, e) \in -1..2 /\ Cost(s, e)' \in -1..2
    BY CostRange DEF CostFits
  <2>4. Bit(Early(s)) \in 0..1 /\ Bit(Early(s))' \in 0..1
    BY DEF Bit
  <2>5. ctx'[s].tx.active /\ Fair(ctx[s].tx.msg) =>
          Bit(Early(s))' + Cost(s, e)'
            <= Bit(Early(s)) + Cost(s, e) + (trouble' - trouble)
    BY <1>2, <2>1, <2>2, <2>3, <2>4
  <2> QED  BY <1>2, <1>3, <2>5, SenderPays
<1> QED  BY <1>1, <1>4, <1>5 DEF SenderTimed

----------------------------------------------------------------------------
(* The receiver's steps cost no more than they may.                        *)

LEMMA ReceiverEarly ==
  ASSUME NEW s, NEW e, ReceiverOnly(s, e), Still => Still'
  PROVE  Early(s)' => Early(s)
<1>1. /\ ctx'[s] = ctx[s] /\ mac'[s] = mac[s] /\ conf'[s] = conf[s]
      /\ batch'[s] = batch[s]
  BY DEF ReceiverOnly
<1>2. (Expiry(s)' <=> Expiry(s)) /\ (Noticed(s)' <=> Noticed(s))
  BY <1>1 DEF Expiry, Noticed
<1> QED  BY <1>1, <1>2 DEF Early

\* The receiver's step pays if it does for the message in transfer, and for
\* any other of which a copy is expected.
LEMMA ReceiverPays ==
  ASSUME NEW s \in Radios, NEW e \in Radios, Typed, Typed', ReceiverOnly(s, e),
         Still => Still', trouble <= trouble',
         ctx[s].tx.active /\ Fair(ctx[s].tx.msg) =>
           ctx'[e].copies[ctx[s].tx.msg] + Cost(s, e)'
             <= ctx[e].copies[ctx[s].tx.msg] + Cost(s, e) + (trouble' - trouble),
         \A m \in Messages : ~(ctx[s].tx.active /\ ctx[s].tx.msg = m) =>
           ctx'[e].copies[m] + Bit(Expects(e, m))'
             <= ctx[e].copies[m] + Bit(Expects(e, m)) + (trouble' - trouble)
  PROVE  Pays(s, e)
<1> SUFFICES ASSUME NEW m \in Messages, Fair(m)
             PROVE  Need(s, e, m)' <= Need(s, e, m) + (trouble' - trouble)
  BY DEF Pays
<1>1. /\ trouble \in Nat /\ trouble' \in Nat
      /\ ctx[e].copies[m] \in Nat /\ ctx'[e].copies[m] \in Nat
  BY PaidNeeds
<1>2. Cost(s, e) \in -1..2 /\ Cost(s, e)' \in -1..2
  BY CostRange DEF CostFits
<1>3. Bit(Early(s)) \in 0..1 /\ Bit(Expects(e, m)) \in 0..1
  BY BitIs
<1>4. Bit(Early(s))' \in 0..1 /\ Bit(Expects(e, m))' \in 0..1
  BY DEF Bit
<1>5. Bit(Early(s))' <= Bit(Early(s))
  BY ReceiverEarly DEF Bit
<1>6. ctx'[s] = ctx[s]
  BY DEF ReceiverOnly
<1>7. CASE ctx[s].tx.active /\ ctx[s].tx.msg = m
  BY <1>1, <1>2, <1>3, <1>4, <1>5, <1>6, <1>7 DEF Need
<1>8. CASE ~(ctx[s].tx.active /\ ctx[s].tx.msg = m)
  <2>1. ctx'[e].copies[m] + Bit(Expects(e, m))'
             <= ctx[e].copies[m] + Bit(Expects(e, m)) + (trouble' - trouble)
    BY <1>8
  <2>2. Need(s, e, m) = ctx[e].copies[m] + Bit(Expects(e, m)) - 1
    BY <1>8 DEF Need
  <2>3. Need(s, e, m)' = ctx'[e].copies[m] + Bit(Expects(e, m))' - 1
    BY <1>6, <1>8 DEF Need
  <2> QED  BY <1>1, <1>3, <1>4, <2>1, <2>2, <2>3
<1> QED  BY <1>7, <1>8

\* The sender stands as it did.
LEMMA ReceiverLeaves ==
  ASSUME NEW s, NEW e, ReceiverOnly(s, e)
  PROVE  /\ ctx'[s] = ctx[s] /\ Hears(s)' = Hears(s)
         /\ Starting(s)' <=> Starting(s)
         /\ Refused(s)' <=> Refused(s)
         /\ Remaining(s)' = Remaining(s)
<1>1. /\ ctx'[s] = ctx[s] /\ mac'[s] = mac[s] /\ conf'[s] = conf[s]
      /\ heard'[s] = heard[s]
  BY DEF ReceiverOnly
<1>2. Remaining(s)' = Remaining(s)
  BY <1>1 DEF Remaining, SeqLen
<1> QED  BY <1>1, <1>2 DEF Starting, Refused, Hears

\* The cost stays, where the receiver keeps what it has and no answer is
\* added or lost.
LEMMA ReceiverCost ==
  ASSUME NEW s \in Radios, NEW e \in Radios, ReceiverOnly(s, e),
         ctx'[e].rx = ctx[e].rx, heard'[e] = heard[e], mac'[e] = mac[e],
         Clear(e) => Clear(e)', OnTime(s, e) => OnTime(s, e)',
         Reached(e)' => Reached(e)
  PROVE  Cost(s, e)' <= Cost(s, e)
<1>1. /\ ctx'[s] = ctx[s] /\ Hears(s)' = Hears(s)
      /\ Starting(s)' <=> Starting(s)
      /\ Refused(s)' <=> Refused(s)
      /\ Remaining(s)' = Remaining(s)
  BY ReceiverLeaves
<1>2. Asked(e)' = Asked(e)
  BY DEF Asked
<1>3. Pending(e)' <=> Pending(e)
  BY DEF Pending, HeaderHeard, Hears
<1>4. (Acked(s, e)' <=> Acked(s, e)) /\ (Takeable(s, e)' <=> Takeable(s, e))
  BY <1>1, <1>2 DEF Acked, Takeable
<1>5. CASE Starting(s)
  BY <1>1, <1>3, <1>5 DEF Cost, Bit
<1>6. CASE ~Starting(s) /\ (Refused(s) \/ Remaining(s) # {})
  BY <1>1, <1>6 DEF Cost, Bit
<1>7. CASE ~Starting(s) /\ ~Refused(s) /\ Remaining(s) = {}
  BY <1>1, <1>3, <1>4, <1>7 DEF Cost, Bit
<1> QED  BY <1>5, <1>6, <1>7

\* It keeps what it has, whether it takes a confirmation or reads a timer.
LEMMA KeepsCost ==
  ASSUME NEW s \in Radios, NEW e \in Radios, ReceiverOnly(s, e),
         ctx'[e].rx = ctx[e].rx, heard'[e] = heard[e], mac'[e] = mac[e],
         NEW fd, batch'[e] = Batch(e) \ {fd},
         ctx[e].rx.active =>
           fd # "rx_stall" /\ ctx'[e].tmr["rx_stall"] = ctx[e].tmr["rx_stall"]
  PROVE  Cost(s, e)' <= Cost(s, e)
<1>1. Asked(e)' = Asked(e) /\ Hears(e)' = Hears(e)
  BY DEF Asked, Hears
<1>2. Named(e)' \subseteq Named(e)
  <2>1. Range(conf'[e]) \subseteq Range(conf[e])
    BY Singles DEF ReceiverOnly
  <2> QED  BY <2>1 DEF Named
<1>3. Clear(e) => Clear(e)'
  BY <1>1, <1>2 DEF Clear
<1>4. HeaderHeard(e)' <=> HeaderHeard(e)
  BY <1>1 DEF HeaderHeard
<1>5. Doomed(e) => Doomed(e)'
  BY DEF Doomed, Batch
<1>6. Reached(e)' => Reached(e)
  BY <1>4, <1>5 DEF Reached
<1>7. Kept(e) => Kept(e)'
  BY DEF Kept, Batch, Ready, Timers
<1>8. Remaining(s)' = Remaining(s) /\ ctx'[s] = ctx[s]
  BY ReceiverLeaves
<1>9. NosHeard(e)' = NosHeard(e)
  BY <1>1 DEF NosHeard
<1>10. OnTime(s, e) => OnTime(s, e)'
  BY <1>1, <1>3, <1>4, <1>7, <1>8, <1>9 DEF OnTime
<1> QED  BY <1>3, <1>6, <1>10, ReceiverCost

\* No message is expected that was not, if nothing new is reassembled.
LEMMA ExpectsNoMore ==
  ASSUME NEW e, NEW m, heard'[e] = heard[e],
         ctx'[e].rx = ctx[e].rx \/ ~ctx'[e].rx.active
  PROVE  Bit(Expects(e, m))' <= Bit(Expects(e, m))
BY DEF Bit, Expects, Hears

LEMMA ReceiverRanLeaves ==
  ASSUME NEW s, NEW e, NEW d, NEW id, ReceiverRan(s, e, d, id)
  PROVE  /\ ctx'[e].rx = d.rx /\ ctx'[e].tmr = d.tmr /\ ctx'[e].copies = d.copies
         /\ ReceiverOnly(s, e) /\ trouble <= trouble'
         /\ d.out = Silent => mac'[e] = mac[e]
BY DEF ReceiverRan, Became, Charged

\* A SACK goes on, so it was not clear, and a copy may come at most.
LEMMA MapsCost ==
  ASSUME NEW s \in Radios, NEW e \in Radios, ReceiverOnly(s, e),
         heard'[e] = heard[e], heard[e] = <<>>, NEW cf, conf[e] = <<cf>>,
         conf[s] = <<>>, batch'[e] = Batch(e) \ {"conf"},
         OwnSack(ctx[e], cf), ctx'[e].rx.active
  PROVE  Cost(s, e)' <= Cost(s, e)
<1>1. ctx[e].rx.active /\ ctx[e].rx.sack # NoSack /\ cf.id = ctx[e].rx.sack.id
  BY DEF OwnSack
<1>2. cf.id \in Named(e)
  <2>1. cf \in Range(conf[e])
    BY Singles
  <2> QED  BY <2>1 DEF Named
<1>3. ~Clear(e) /\ ~OnTime(s, e)
  BY <1>1, <1>2 DEF Clear, OnTime
<1>4. ~Pending(e) /\ ~Pending(e)' /\ (HeaderHeard(e)' <=> HeaderHeard(e))
  BY DEF Pending, HeaderHeard, Hears
<1>5. Cost(s, e)' <= 1 /\ Cost(s, e)' \in -1..2
  BY <1>4, CostRange DEF CostFits
<1>6. /\ Starting(s)' <=> Starting(s)
      /\ Remaining(s)' = Remaining(s)
      /\ ~Refused(s) /\ ~Refused(s)'
  BY ReceiverLeaves, Singles DEF Refused
<1>7. CASE Starting(s)
  <2>1. Cost(s, e) = 1
    BY <1>3, <1>4, <1>7 DEF Cost, Bit
  <2> QED  BY <1>5, <2>1
<1>8. CASE ~Starting(s) /\ Remaining(s) # {}
  <2>1. Doomed(e) => Doomed(e)'
    BY <1>1 DEF Doomed, Batch
  <2>2. Reached(e)' => Reached(e)
    BY <1>1, <1>4, <2>1 DEF Reached
  <2> QED  BY <1>3, <1>6, <1>8, <2>2 DEF Cost, Bit
<1>9. CASE ~Starting(s) /\ Remaining(s) = {}
  <2>1. Cost(s, e) = 1
    BY <1>1, <1>4, <1>6, <1>9 DEF Cost
  <2> QED  BY <1>5, <2>1
<1> QED  BY <1>7, <1>8, <1>9

LEMMA ReceiverConfPays ==
  ASSUME NEW s \in Radios, NEW e \in Radios, Pair(s, e), PairInv(s, e), Typed',
         Lined(s, e), ConfReady(e)
  PROVE  Pays(s, e)
<1>1. PICK cf, id, d : ReceiverConfirmed(s, e, cf, id, d)
  BY ReceiverConf
<1>2. /\ conf[e] = <<cf>> /\ conf'[e] = <<>> /\ conf[s] = <<>>
      /\ heard[e] = <<>> /\ heard' = heard
      /\ batch'[e] = Batch(e) \ {"conf"} /\ ReceiverRan(s, e, d, id)
      /\ \/ Keeps(ctx[e], d) /\ d.tmr = ctx[e].tmr
         \/ OwnSack(ctx[e], cf) /\ Maps(ctx[e], d, id)
  BY <1>1 DEF ReceiverConfirmed
<1>3. /\ ctx'[e].rx = d.rx /\ ctx'[e].tmr = d.tmr /\ ctx'[e].copies = d.copies
      /\ ReceiverOnly(s, e) /\ trouble <= trouble'
      /\ d.out = Silent => mac'[e] = mac[e]
  <2>1. ReceiverRan(s, e, d, id)
    BY <1>2
  <2> QED  BY <2>1, ReceiverRanLeaves
<1>4. heard'[e] = heard[e]
  BY <1>2
<1>5. ~Still
  BY <1>2, Singles DEF Still
<1>6. ctx'[e].copies = ctx[e].copies /\ Cost(s, e)' <= Cost(s, e)
  <2>1. CASE Keeps(ctx[e], d) /\ d.tmr = ctx[e].tmr
    <3>1. /\ ctx'[e].rx = ctx[e].rx /\ ctx'[e].copies = ctx[e].copies
          /\ mac'[e] = mac[e] /\ ctx'[e].tmr = ctx[e].tmr
      BY <1>3, <2>1 DEF Keeps
    <3> QED  BY <1>2, <1>3, <1>4, <3>1, KeepsCost
  <2>2. CASE OwnSack(ctx[e], cf) /\ Maps(ctx[e], d, id)
    <3>1. d.rx.active /\ d.copies = ctx[e].copies
      <4>1. ctx[e].rx.active /\ ctx[e].rx \in Taking
        BY <2>2, PairFacts, ContextFields DEF OwnSack
      <4> QED  BY <2>2, <4>1 DEF Maps, Taking
    <3> QED  BY <1>2, <1>3, <1>4, <2>2, <3>1, MapsCost
  <2> QED  BY <1>2, <2>1, <2>2
<1>7. Typed
  BY DEF PairInv
<1>8. \A m \in Messages : Bit(Expects(e, m))' <= Bit(Expects(e, m))
  BY <1>2, <1>4 DEF Bit, Expects
<1>9. /\ trouble \in Nat /\ trouble' \in Nat
      /\ \A m \in Messages : ctx[e].copies[m] \in Nat
      /\ \A m \in Messages : Bit(Expects(e, m)) \in 0..1
      /\ \A m \in Messages : Bit(Expects(e, m))' \in 0..1
  BY <1>7, PaidNeeds DEF Bit
<1>10. ctx[s].tx.active => ctx[s].tx.msg \in Messages
  BY PairFacts
<1>11. Cost(s, e) \in -1..2 /\ Cost(s, e)' \in -1..2
  BY CostRange DEF CostFits
<1>12. ctx[s].tx.active =>
           ctx'[e].copies[ctx[s].tx.msg] + Cost(s, e)'
             <= ctx[e].copies[ctx[s].tx.msg] + Cost(s, e) + (trouble' - trouble)
  BY <1>3, <1>6, <1>9, <1>10, <1>11
<1>13. \A m \in Messages :
           ctx'[e].copies[m] + Bit(Expects(e, m))'
             <= ctx[e].copies[m] + Bit(Expects(e, m)) + (trouble' - trouble)
  BY <1>3, <1>6, <1>8, <1>9
<1> QED  BY <1>3, <1>5, <1>7, <1>12, <1>13, ReceiverPays

\* The reassembly is given up.
LEMMA DropsCost ==
  ASSUME NEW s \in Radios, NEW e \in Radios, ReceiverOnly(s, e),
         heard' = heard, conf' = conf, mac'[e] = mac[e],
         "rx_stall" \in Batch(e), ctx[e].rx.active, ~ctx'[e].rx.active
  PROVE  Cost(s, e)' <= Cost(s, e)
<1>1. /\ ctx'[s] = ctx[s] /\ Hears(s)' = Hears(s)
      /\ Starting(s)' <=> Starting(s)
      /\ Refused(s)' <=> Refused(s)
      /\ Remaining(s)' = Remaining(s)
  BY ReceiverLeaves
<1>2. ~Kept(e)
  BY DEF Kept, Batch, Ready, Timers
<1>3. Asked(e)' = Asked(e) /\ Hears(e)' = Hears(e)
  BY DEF Asked, Hears
<1>4. Clear(e) => Clear(e)'
  BY <1>3 DEF Clear
<1>5. HeaderHeard(e)' <=> HeaderHeard(e)
  BY <1>3 DEF HeaderHeard
<1>6. HeaderHeard(e) => heard[e] # <<>>
  BY Singles DEF HeaderHeard, Hears
<1>7. HeaderHeard(e) => Pending(e) /\ Pending(e)'
  BY <1>5, <1>6 DEF Pending
<1>8. HeaderHeard(e) => (OnTime(s, e) => OnTime(s, e)')
  BY <1>1, <1>3, <1>4, <1>5 DEF OnTime
<1>9. ~HeaderHeard(e) => ~OnTime(s, e)
  BY <1>2 DEF OnTime
<1>10. ~HeaderHeard(e) => ~Reached(e)' /\ ~Pending(e)'
  BY <1>5 DEF Reached, Pending
<1>11. Pending(e)' => Pending(e)
  BY <1>7, <1>10
<1>12. CASE Starting(s)
  BY <1>1, <1>4, <1>11, <1>12 DEF Cost, Bit
<1>13. CASE ~Starting(s) /\ Refused(s)
  BY <1>1, <1>13 DEF Cost
<1>14. CASE ~Starting(s) /\ ~Refused(s) /\ Remaining(s) # {}
  <2>1. CASE HeaderHeard(e)
    <3>1. Reached(e) /\ Reached(e)'
      BY <1>5, <2>1 DEF Reached
    <3> QED  BY <1>1, <1>8, <1>14, <2>1, <3>1 DEF Cost, Bit
  <2>2. CASE ~HeaderHeard(e)
    BY <1>1, <1>10, <1>14, <2>2 DEF Cost, Bit
  <2> QED  BY <2>1, <2>2
<1>15. CASE ~Starting(s) /\ ~Refused(s) /\ Remaining(s) = {}
  <2>1. CASE HeaderHeard(e)
    BY <1>1, <1>7, <1>8, <1>15, <2>1 DEF Cost, Bit
  <2>2. CASE ~HeaderHeard(e)
    <3>1. Cost(s, e) = 1
      BY <1>9, <1>15, <2>2 DEF Cost, Bit
    <3>2. Cost(s, e)' <= 1
      BY <1>10, <2>2, CostRange DEF CostFits
    <3> QED  BY <3>1, <3>2
  <2> QED  BY <2>1, <2>2
<1> QED  BY <1>12, <1>13, <1>14, <1>15

LEMMA ReceiverTimerPays ==
  ASSUME NEW s \in Radios, NEW e \in Radios, Pair(s, e), PairInv(s, e), Typed',
         Lined(s, e), NEW t \in Timers, TimerReady(e, t)
  PROVE  Pays(s, e)
<1>1. PICK id, d : ReceiverTimed(s, e, t, id, d)
  BY ReceiverTimer
<1>2. /\ t \in Batch(e) /\ conf' = conf /\ heard' = heard
      /\ batch'[e] = Batch(e) \ {t} /\ ReceiverRan(s, e, d, id)
      /\ \/ /\ Keeps(ctx[e], d) /\ d.tmr = Drain(ctx[e].tmr, t)
            /\ t = "rx_stall" => ~ctx[e].rx.active
         \/ t = "rx_stall" /\ Drops(ctx[e], d)
  BY <1>1 DEF ReceiverTimed
<1>3. d.out = Silent /\ d.copies = ctx[e].copies
  BY <1>2 DEF Keeps, Drops
<1>4. /\ ctx'[e].rx = d.rx /\ ctx'[e].tmr = d.tmr /\ ctx'[e].copies = ctx[e].copies
      /\ ReceiverOnly(s, e) /\ trouble <= trouble' /\ mac'[e] = mac[e]
  <2>1. ReceiverRan(s, e, d, id)
    BY <1>2
  <2> QED  BY <1>3, <2>1, ReceiverRanLeaves
<1>5. heard'[e] = heard[e]
  BY <1>2
<1>6. Still => Still'
  <2>1. Radios = {s, e} /\ mac'[s] = mac[s]
    BY <1>4, PairFacts DEF ReceiverOnly
  <2> QED  BY <1>2, <1>4, <2>1 DEF Still
<1>7. Cost(s, e)' <= Cost(s, e) /\ (ctx'[e].rx = ctx[e].rx \/ ~ctx'[e].rx.active)
  <2>1. CASE /\ Keeps(ctx[e], d) /\ d.tmr = Drain(ctx[e].tmr, t)
             /\ t = "rx_stall" => ~ctx[e].rx.active
    <3>1. ctx'[e].rx = ctx[e].rx
      BY <1>4, <2>1 DEF Keeps
    <3>2. t # "rx_stall" => ctx'[e].tmr["rx_stall"] = ctx[e].tmr["rx_stall"]
      <4>1. ctx[e].tmr \in [Timers -> Timer] /\ "rx_stall" \in Timers
        BY PairFacts, ContextFields DEF Timers
      <4> QED  BY <1>4, <2>1, <4>1, DrainReads
    <3> QED  BY <1>2, <1>4, <1>5, <2>1, <3>1, <3>2, KeepsCost
  <2>2. CASE t = "rx_stall" /\ Drops(ctx[e], d)
    <3>1. ctx[e].rx.active /\ ~ctx'[e].rx.active
      BY <1>4, <2>2 DEF Drops, NoRx
    <3> QED  BY <1>2, <1>4, <2>2, <3>1, DropsCost
  <2> QED  BY <1>2, <2>1, <2>2
<1>8. Typed
  BY DEF PairInv
<1>9. \A m \in Messages : Bit(Expects(e, m))' <= Bit(Expects(e, m))
  BY <1>5, <1>7, ExpectsNoMore
<1>10. /\ trouble \in Nat /\ trouble' \in Nat
       /\ \A m \in Messages : ctx[e].copies[m] \in Nat
       /\ \A m \in Messages : Bit(Expects(e, m)) \in 0..1
       /\ \A m \in Messages : Bit(Expects(e, m))' \in 0..1
  BY <1>8, PaidNeeds DEF Bit
<1>11. ctx[s].tx.active => ctx[s].tx.msg \in Messages
  BY PairFacts
<1>12. Cost(s, e) \in -1..2 /\ Cost(s, e)' \in -1..2
  BY CostRange DEF CostFits
<1>13. ctx[s].tx.active =>
           ctx'[e].copies[ctx[s].tx.msg] + Cost(s, e)'
             <= ctx[e].copies[ctx[s].tx.msg] + Cost(s, e) + (trouble' - trouble)
  BY <1>4, <1>7, <1>10, <1>11, <1>12
<1>14. \A m \in Messages :
           ctx'[e].copies[m] + Bit(Expects(e, m))'
             <= ctx[e].copies[m] + Bit(Expects(e, m)) + (trouble' - trouble)
  BY <1>4, <1>9, <1>10
<1> QED  BY <1>4, <1>6, <1>8, <1>13, <1>14, ReceiverPays

\* The receiver takes what it hears.
LEMMA ReceiverRxLeaves ==
  ASSUME NEW s, NEW e, NEW u, NEW id, NEW d, ReceiverHeard(s, e, u, id, d)
  PROVE  /\ heard[e] = <<u>> /\ heard'[e] = <<>>
         /\ heard[s] = <<>> /\ heard'[s] = <<>>
         /\ conf[e] = <<>> /\ conf'[e] = <<>> /\ batch'[e] = Batch(e) \ {"rx"}
         /\ ReceiverOnly(s, e) /\ ctx'[s] = ctx[s]
         /\ ctx'[e].rx = d.rx /\ ctx'[e].tmr = d.tmr /\ ctx'[e].copies = d.copies
         /\ trouble <= trouble' /\ (d.out = Silent => mac'[e] = mac[e])
<1>1. /\ heard[e] = <<u>> /\ heard'[e] = <<>> /\ heard[s] = <<>>
      /\ conf[e] = <<>> /\ conf' = conf
      /\ batch'[e] = Batch(e) \ {"rx"} /\ ReceiverRan(s, e, d, id)
  BY DEF ReceiverHeard
<1>2. ReceiverRan(s, e, d, id)
  BY <1>1
<1>3. /\ ReceiverOnly(s, e)
      /\ ctx'[e].rx = d.rx /\ ctx'[e].tmr = d.tmr /\ ctx'[e].copies = d.copies
      /\ trouble <= trouble' /\ (d.out = Silent => mac'[e] = mac[e])
  BY <1>2, ReceiverRanLeaves
<1>4. heard'[s] = <<>> /\ conf'[e] = <<>> /\ ctx'[s] = ctx[s]
  BY <1>1, <1>3 DEF ReceiverOnly
<1> QED  BY <1>1, <1>3, <1>4

\* Where all stand then: nothing is pending, or on its way to the sender but
\* what the receiver's MAC has.
RxStand(s, e, u) ==
  /\ Hears(e) = {u} /\ Hears(e)' = {} /\ Hears(s)' = {}
  /\ ~Pending(e)' /\ ~HeaderHeard(e)'
  /\ ~Refused(s) /\ ~Refused(s)'
  /\ ctx'[s] = ctx[s] /\ ctx[s].state # "TX_WAIT_SACK_DATA"
  /\ ~Takeable(s, e)' /\ ~Still
  /\ Starting(s)' <=> Starting(s)
  /\ Remaining(s)' = Remaining(s)
  /\ Cost(s, e)' \in -1..1
LEMMA RxStands ==
  ASSUME NEW s \in Radios, NEW e \in Radios, Pair(s, e), PairInv(s, e),
         Lined(s, e), NEW u, NEW id, NEW d, ReceiverHeard(s, e, u, id, d)
  PROVE  RxStand(s, e, u)
<1>1. /\ heard[e] = <<u>> /\ heard'[e] = <<>>
      /\ heard[s] = <<>> /\ heard'[s] = <<>>
      /\ ctx'[s] = ctx[s] /\ ReceiverOnly(s, e)
  BY ReceiverRxLeaves
<1>2. Hears(e) = {u} /\ Hears(e)' = {} /\ Hears(s)' = {}
  BY <1>1, Singles DEF Hears
<1>3. ~Pending(e)' /\ ~HeaderHeard(e)'
  BY <1>1, <1>2 DEF Pending, HeaderHeard
<1>4. heard[e] # <<>>
  BY <1>1, Singles
<1>5. ctx[s].state # "TX_WAIT_SACK_DATA"
  BY <1>4 DEF Lined, Sending
<1>6. /\ Starting(s)' <=> Starting(s)
      /\ Refused(s)' <=> Refused(s)
      /\ Remaining(s)' = Remaining(s)
  BY <1>1, ReceiverLeaves
<1>7. ~Refused(s)
  <2>1. CASE conf[s] = <<>>
    BY <2>1, Singles DEF Refused
  <2>2. CASE conf[s] # <<>>
    <3>1. PICK ok \in BOOLEAN : /\ conf[s] = <<[id |-> ctx[s].tx.id, ok |-> ok]>>
                                /\ ok \/ heard[e] = <<>>
      BY <2>2 DEF Lined, Sending
    <3>2. Range(conf[s]) = {[id |-> ctx[s].tx.id, ok |-> ok]}
      BY <3>1, Singles
    <3> QED  BY <1>4, <3>1, <3>2 DEF Refused
  <2> QED  BY <2>1, <2>2
<1>8. ~Takeable(s, e)'
  BY <1>1, <1>2, <1>5 DEF Takeable
<1>9. ~Still
  BY <1>4 DEF Still
<1>10. Cost(s, e)' \in -1..1
  BY <1>3, CostRange DEF CostFits
<1> QED  BY <1>1, <1>2, <1>3, <1>5, <1>6, <1>7, <1>8, <1>9, <1>10 DEF RxStand

\* It delivers nothing, or a message of which a copy was expected: what is
\* over is acknowledged, if it can be delivered at all.
Delivers(e, d, m, id) ==
  Expects(e, m) /\ \E failed \in BOOLEAN :
    (Fair(m) => ~failed) /\ Concludes(ctx[e], d, m, TRUE, failed, id)
LEMMA RxDelivers ==
  ASSUME NEW s \in Radios, NEW e \in Radios, Pair(s, e), PairInv(s, e),
         Lined(s, e), NEW u, NEW id, NEW d, ReceiverHeard(s, e, u, id, d)
  PROVE  \/ d.copies = ctx[e].copies
         \/ \E m \in Messages : Delivers(e, d, m, id)
<1>1. RxStand(s, e, u) /\ heard[e] # <<>>
  <2>1. heard[e] = <<u>>
    BY ReceiverRxLeaves
  <2> QED  BY <2>1, RxStands, Singles
<1>2. CASE u.kind = "header" /\ u.msg \in Messages /\ TakesHeader(ctx[e], d, u, id)
  <2>1. CASE Continues(ctx[e], u) /\ Keeps(ctx[e], d)
    BY <2>1 DEF Keeps
  <2>2. CASE Concludes(ctx[e], d, u.msg, TRUE, ~Msg[u.msg].fits, id)
    <3>1. Expects(e, u.msg)
      BY <1>1, <1>2 DEF Expects, RxStand
    <3>2. (~Msg[u.msg].fits) \in BOOLEAN /\ (Fair(u.msg) => Msg[u.msg].fits)
      BY <1>2, MsgAssumption DEF Fair, Whole
    <3> QED  BY <1>2, <2>2, <3>1, <3>2 DEF Delivers
  <2>3. CASE Begins(ctx[e], d, u.msg)
    BY <2>3 DEF Begins
  <2> QED  BY <1>2, <2>1, <2>2, <2>3 DEF TakesHeader
<1>3. CASE u.kind = "block" /\ ~ctx[e].rx.active /\ Keeps(ctx[e], d)
  BY <1>3 DEF Keeps
<1>4. CASE /\ u.kind = "block" /\ ctx[e].rx.active
           /\ u.lead \in Leads(ctx[e].rx.msg) /\ TakesBlock(ctx[e], d, u.lead, id)
  <2> DEFINE rx == Accumulate(ctx[e].rx, u.lead)
             whole == Cardinality(rx.seen) >= Announced(ctx[e].rx.msg)
  <2>1. CASE Notes(ctx[e], d, u.lead)
    BY <2>1 DEF Notes
  <2>2. CASE Replies(ctx[e], d, u.lead, id)
    BY <2>2 DEF Replies
  <2>3. CASE Concludes(ctx[e], d, ctx[e].rx.msg, whole /\ ~rx.failed, rx.failed, id)
    <3> HIDE DEF rx, whole
    <3>1. CASE whole /\ ~rx.failed
      <4>1. Concludes(ctx[e], d, ctx[e].rx.msg, TRUE, FALSE, id)
        BY <2>3, <3>1 DEF Concludes
      <4>2. Expects(e, ctx[e].rx.msg)
        BY <1>1, <1>4 DEF Expects
      <4>3. ctx[e].rx.msg \in Messages
        BY <1>4, PairFacts, ContextFields DEF Taking
      <4> QED  BY <4>1, <4>2, <4>3 DEF Delivers
    <3>2. CASE ~(whole /\ ~rx.failed)
      BY <2>3, <3>2 DEF Concludes
    <3> QED  BY <3>1, <3>2
  <2> QED  BY <1>4, <2>1, <2>2, <2>3 DEF TakesBlock
<1> QED  BY <1>2, <1>3, <1>4 DEF ReceiverHeard

\* What is on its way from the receiver once it has concluded.
LEMMA ConcludesAsked ==
  ASSUME NEW s \in Radios, NEW e \in Radios, Typed, NEW d, NEW id,
         ReceiverRan(s, e, d, id)
  PROVE  /\ d.out = Silent => Asked(e)' = Asked(e)
         /\ d.out # Silent => Asked(e)' = Asked(e) \union {d.out}
         /\ id = NoId => d.out = Silent
<1>1. /\ mac[e] \in Seq([id : 1..MaxId, burst : Sent \ {Silent}])
      /\ Became(e, d, id) /\ id \in Ids(e) /\ Handled(d, id)
  BY DEF Typed, ReceiverRan
<1>2. d.out = Silent => Asked(e)' = Asked(e)
  BY <1>1 DEF Became, Asked
<1>3. ASSUME d.out # Silent PROVE Asked(e)' = Asked(e) \union {d.out}
  <2>1. /\ id \in 1..MaxId
        /\ mac'[e] = Append(mac[e], [id |-> id, burst |-> d.out])
    BY <1>1, <1>3 DEF Became
  <2>2. d.out \in Sent
    BY <1>1 DEF Handled, Sound, SoundParts, Context
  <2>3. PICK x : x = [id |-> id, burst |-> d.out]
    OBVIOUS
  <2>4. Range(mac'[e]) = Range(mac[e]) \union {x}
    <3> DEFINE S == [id : 1..MaxId, burst : Sent \ {Silent}]
    <3>1. x \in S /\ mac[e] \in Seq(S) /\ mac'[e] = Append(mac[e], x)
      BY <1>1, <1>3, <2>1, <2>2, <2>3
    <3> HIDE DEF S
    <3> QED  BY <3>1, RangeAppended
  <2>5. x.burst = d.out
    BY <2>3
  <2> QED  BY <2>4, <2>5 DEF Asked
<1> QED  BY <1>1, <1>2, <1>3 DEF Handled

\* A copy delivered has been paid for, or is acknowledged.
LEMMA DeliveredCost ==
  ASSUME NEW s \in Radios, NEW e \in Radios, Pair(s, e), PairInv(s, e),
         Lined(s, e), NEW u, NEW id, NEW d, ReceiverHeard(s, e, u, id, d),
         ctx[s].tx.active, Fair(ctx[s].tx.msg),
         Delivers(e, d, ctx[s].tx.msg, id)
  PROVE  /\ ctx'[e].copies[ctx[s].tx.msg] = ctx[e].copies[ctx[s].tx.msg] + 1
         /\ Clear(e) => Clear(e)'
         /\ ~Starting(s) => Cost(s, e)' <= 0
         /\ Clear(e) /\ ~Starting(s) /\ Remaining(s) = {} =>
              Cost(s, e)' = -1 \/ trouble' = trouble + 1
<1> DEFINE m == ctx[s].tx.msg
<1>1. /\ RxStand(s, e, u) /\ Typed /\ ctx[e] \in Context /\ m \in Messages
      /\ ReceiverRan(s, e, d, id)
  BY RxStands, PairFacts DEF ReceiverHeard
<1>2. /\ ctx'[s] = ctx[s]
      /\ ctx'[e].rx = d.rx /\ ctx'[e].copies = d.copies
      /\ d.out = Silent => mac'[e] = mac[e]
      /\ conf[e] = <<>> /\ conf'[e] = <<>>
  BY ReceiverRxLeaves
<1>3. Concludes(ctx[e], d, m, TRUE, FALSE, id)
  BY DEF Delivers
<1> HIDE DEF m
<1>4. /\ d.rx = NoRx /\ d.copies = [ctx[e].copies EXCEPT ![m] = @ + 1]
      /\ ~(Confirmed(m) /\ id # NoId) => d.out = Silent
      /\ Confirmed(m) /\ id # NoId => d.out = Response(m, "ACK", 0)
  BY <1>3 DEF Concludes
<1>5. ctx'[e].copies[m] = ctx[e].copies[m] + 1
  <2>1. ctx[e].copies \in [Messages -> Nat]
    BY <1>1, ContextFields
  <2> QED  BY <1>1, <1>2, <1>4, <2>1
<1>6. ~ctx'[e].rx.active
  BY <1>2, <1>4 DEF NoRx
<1>7. Response(m, "ACK", 0) # Silent /\ Acks(Response(m, "ACK", 0))
  BY DEF Response, Silent, Acks
<1>8. /\ d.out = Silent => Asked(e)' = Asked(e)
      /\ d.out # Silent => Asked(e)' = Asked(e) \union {d.out}
  BY <1>1, ConcludesAsked
<1>9. Clear(e) => Clear(e)'
  BY <1>4, <1>6, <1>7, <1>8 DEF Clear
<1>10. ~Starting(s) => Cost(s, e)' <= 0
  BY <1>1, <1>6 DEF Cost, Bit, RxStand, Reached
<1>11. ASSUME Clear(e), ~Starting(s), Remaining(s) = {}
       PROVE  Cost(s, e)' = -1 \/ trouble' = trouble + 1
  <2>1. ~Confirmed(m) \/ Acked(s, e)' => Cost(s, e)' = -1
    <3>1. ~Starting(s)' /\ ~Refused(s)' /\ Remaining(s)' = {} /\ ~Pending(e)'
      BY <1>1, <1>11 DEF RxStand
    <3>2. ctx'[s].tx.msg = m
      BY <1>2 DEF m
    <3> QED  BY <1>6, <3>1, <3>2 DEF Cost
  <2>2. Asked(e)' # {} => Acked(s, e)'
    <3>1. Clear(e)'
      BY <1>9, <1>11
    <3> QED  BY <1>1, <3>1 DEF Acked, Clear, RxStand
  <2>3. CASE ~Confirmed(m)
    BY <2>1, <2>3
  <2>4. CASE Confirmed(m) /\ id # NoId
    BY <1>4, <1>7, <1>8, <2>1, <2>2, <2>4
  <2>5. CASE Confirmed(m) /\ id = NoId
    <3>1. CASE Len(mac[e]) < MacRoom
      BY <1>1, <2>5, <3>1 DEF ReceiverRan, Charged
    <3>2. CASE ~(Len(mac[e]) < MacRoom)
      <4>1. Len(mac[e]) # 0
        BY <1>1, <3>2, DataBounds DEF Typed
      <4>2. mac[e] \in Seq([id : 1..MaxId, burst : Sent \ {Silent}])
        BY <1>1 DEF Typed
      <4>3. mac[e] # <<>>
        BY <4>1
      <4>4. Range(mac[e]) # {}
        BY <4>2, <4>3, EmptyRange
      <4>5. Asked(e) # {}
        BY <4>4 DEF Asked
      <4> QED  BY <1>8, <2>1, <2>2, <4>5
    <3> QED  BY <3>1, <3>2
  <2> QED  BY <2>3, <2>4, <2>5
<1> QED  BY <1>5, <1>9, <1>10, <1>11 DEF m

----------------------------------------------------------------------------
(* What comes as it is expected.                                           *)

LEMMA FairDue ==
  ASSUME NEW m \in Messages, Fair(m)
  PROVE  /\ NumbersOf(m, 0..(NBlocks(m) - 1)) = 0..(NBlocks(m) - 1)
         /\ Announced(m) = NBlocks(m) /\ NBlocks(m) \in Nat /\ Msg[m].fits
         /\ \A k \in 0..(NBlocks(m) - 1) : Msg[m].blocks[k + 1].no \in 0..(NBlocks(m) - 1)
<1>1. /\ NBlocks(m) \in Nat /\ Announced(m) = NBlocks(m) /\ Msg[m].fits
      /\ Numbers(m) = 0..(NBlocks(m) - 1)
  BY AllAnnounced, FairNumbers DEF Fair, Whole
<1>2. /\ \A i \in 1..NBlocks(m) : Msg[m].blocks[i].no \in Numbers(m)
      /\ \A n \in Numbers(m) : \E i \in 1..NBlocks(m) : n = Msg[m].blocks[i].no
  BY LeadsOf
<1>3. \A k \in 0..(NBlocks(m) - 1) : Msg[m].blocks[k + 1].no \in Numbers(m)
  <2> TAKE k \in 0..(NBlocks(m) - 1)
  <2>1. k + 1 \in 1..NBlocks(m)
    BY <1>1
  <2> QED  BY <1>2, <2>1
<1>4. \A n \in Numbers(m) : \E k \in 0..(NBlocks(m) - 1) : n = Msg[m].blocks[k + 1].no
  <2> TAKE n \in Numbers(m)
  <2>1. PICK i \in 1..NBlocks(m) : n = Msg[m].blocks[i].no
    BY <1>2
  <2>2. i - 1 \in 0..(NBlocks(m) - 1) /\ (i - 1) + 1 = i
    BY <1>1
  <2> QED  BY <2>1, <2>2
<1>5. NumbersOf(m, 0..(NBlocks(m) - 1)) = Numbers(m)
  BY <1>3, <1>4 DEF NumbersOf
<1> QED  BY <1>1, <1>3, <1>5

\* The last block of all is among those that remain.
LEMMA LastRemains ==
  ASSUME NEW s \in Radios, NEW e \in Radios, Pair(s, e), PairInv(s, e),
         ctx[s].tx.active, ctx[s].tx.list = <<>>, Remaining(s) # {}
  PROVE  /\ NBlocks(ctx[s].tx.msg) \in Nat \ {0}
         /\ NBlocks(ctx[s].tx.msg) - 1 \in Remaining(s)
         /\ \A k \in Remaining(s) : k \in 0..(NBlocks(ctx[s].tx.msg) - 1)
<1> DEFINE tx == ctx[s].tx
           n == NBlocks(tx.msg)
<1>1. /\ tx.idx \in Nat /\ n \in Nat
  BY PairFacts, LeadsOf DEF Going
<1>2. SeqLen(tx) = n
  BY DEF SeqLen
<1>3. \/ Remaining(s) = 0..(n - 1)
      \/ Remaining(s) = tx.idx..(n - 1)
      \/ Remaining(s) = (tx.idx + 1)..(n - 1)
  BY <1>2 DEF Remaining
<1> HIDE DEF n, tx
<1>4. n - 1 \in Remaining(s) /\ n # 0 /\ \A k \in Remaining(s) : k \in 0..(n - 1)
  BY <1>1, <1>3
<1> QED  BY <1>1, <1>4 DEF n, tx

\* It goes on reassembling what remains, or gives up what is not yet there.
LEMMA NextOnTime ==
  ASSUME NEW s \in Radios, NEW e \in Radios, Pair(s, e), PairInv(s, e),
         Lined(s, e), NEW u, NEW id, NEW d, ReceiverHeard(s, e, u, id, d),
         Clear(e), ~Starting(s), Remaining(s) # {}, ctx[s].tx.list = <<>>,
         d.out = Silent, d.rx.active, ~d.rx.failed, d.rx.sack = NoSack,
         d.tmr["rx_stall"].kern = "running",
         Lacks(d.rx) = NumbersOf(ctx[s].tx.msg, Remaining(s))
  PROVE  Cost(s, e)' = 0
<1>1. RxStand(s, e, u) /\ ReceiverRan(s, e, d, id) /\ Typed
  BY RxStands, PairFacts DEF ReceiverHeard
<1>2. /\ heard'[e] = <<>> /\ ctx'[s] = ctx[s]
      /\ ctx'[e].rx = d.rx /\ ctx'[e].tmr = d.tmr
  BY ReceiverRxLeaves
<1>3. ~Starting(s)' /\ ~Refused(s)' /\ Remaining(s)' = Remaining(s) /\ Remaining(s)' # {}
  BY <1>1 DEF RxStand
<1>4. CASE "rx_stall" \in batch'[e]
  <2>1. ~Reached(e)'
    BY <1>1, <1>2, <1>4 DEF Reached, Doomed, RxStand
  <2> QED  BY <1>3, <2>1 DEF Cost, Bit
<1>5. CASE "rx_stall" \notin batch'[e]
  <2>1. Asked(e)' = Asked(e)
    BY <1>1, ConcludesAsked
  <2>2. Clear(e)'
    BY <1>2, <2>1 DEF Clear
  <2>3. Kept(e)'
    BY <1>2, <1>5 DEF Kept
  <2>4. NosHeard(e)' = {}
    BY <1>1 DEF NosHeard, RxStand
  <2>5. Lacks(ctx'[e].rx) = NumbersOf(ctx'[s].tx.msg, Remaining(s)')
    BY <1>2, <1>3
  <2>6. \A v \in Hears(e)' : v.kind # "header"
    BY <1>1 DEF RxStand
  <2>7. OnTime(s, e)'
    BY <2>2, <2>3, <2>4, <2>5, <2>6 DEF OnTime, Lacks
  <2> QED  BY <1>2, <1>3, <2>7 DEF Cost, Bit
<1> QED  BY <1>4, <1>5

LEMMA HeaderOnTime ==
  ASSUME NEW s \in Radios, NEW e \in Radios, Pair(s, e), PairInv(s, e),
         Lined(s, e), NEW u, NEW id, NEW d, ReceiverHeard(s, e, u, id, d),
         ctx[s].tx.active, Fair(ctx[s].tx.msg), ~Starting(s), OnTime(s, e),
         u.kind = "header"
  PROVE  /\ Remaining(s) = {} => Delivers(e, d, ctx[s].tx.msg, id)
         /\ Remaining(s) # {} /\ ctx[s].tx.list = <<>> =>
              d.copies = ctx[e].copies /\ Cost(s, e)' = 0
<1> DEFINE m == ctx[s].tx.msg
           n == NBlocks(m)
<1>1. RxStand(s, e, u) /\ m \in Messages
  BY RxStands, PairFacts
<1>2. u \in Hears(e) /\ HeaderHeard(e)
  BY <1>1 DEF RxStand, HeaderHeard
<1>3. u.full /\ Clear(e) /\ Remaining(s) = 0..(n - 1)
  BY <1>2 DEF OnTime
<1>4. u.msg = m
  <2>1. u.msg \in Abroad(s, e)
    BY <1>2 DEF Abroad, HeadersTo
  <2> QED  BY <2>1, PairFacts DEF Current
<1>5. /\ Announced(m) = n /\ n \in Nat /\ Msg[m].fits
      /\ NumbersOf(m, 0..(n - 1)) = 0..(n - 1)
  BY <1>1, FairDue
<1>6. heard[e] # <<>>
  <2>1. heard[e] = <<u>>
    BY ReceiverRxLeaves
  <2> QED  BY <2>1, Singles
<1>7. Expects(e, m)
  BY <1>2, <1>4, <1>6 DEF Expects
<1>8. /\ n = 0 => Concludes(ctx[e], d, m, TRUE, FALSE, id)
      /\ n # 0 => Begins(ctx[e], d, m)
  <2>1. TakesHeader(ctx[e], d, u, id)
    BY DEF ReceiverHeard
  <2>2. (~Msg[m].fits) = FALSE
    BY <1>5
  <2> QED  BY <1>3, <1>4, <1>5, <2>1, <2>2 DEF TakesHeader, Continues
<1>9. Remaining(s) = {} => Delivers(e, d, m, id)
  <2>1. n # 0 => 0 \in Remaining(s)
    BY <1>3, <1>5
  <2> QED  BY <1>7, <1>8, <2>1 DEF Delivers
<1>10. ASSUME Remaining(s) # {}, ctx[s].tx.list = <<>>
       PROVE  d.copies = ctx[e].copies /\ Cost(s, e)' = 0
  <2>1. Begins(ctx[e], d, m)
    BY <1>3, <1>5, <1>8, <1>10
  <2>2. /\ d.out = Silent /\ d.copies = ctx[e].copies
        /\ d.tmr["rx_stall"].kern = "running"
        /\ d.rx = Reassembly(m)
    BY <2>1 DEF Begins
  <2>3. /\ d.rx.active /\ d.rx.msg = m /\ d.rx.seen = {} /\ ~d.rx.failed
        /\ d.rx.sack = NoSack
    <3>1. PICK k : k = m
      OBVIOUS
    <3>2. (~Msg[k].fits) = FALSE
      BY <1>5, <3>1
    <3>3. d.rx = [active |-> TRUE, msg |-> k, seen |-> {}, failed |-> FALSE,
                  sack |-> NoSack]
      BY <2>2, <3>1, <3>2 DEF Reassembly
    <3>4. /\ d.rx.active /\ d.rx.msg = k /\ d.rx.seen = {} /\ ~d.rx.failed
          /\ d.rx.sack = NoSack
      BY <3>3
    <3> QED  BY <3>1, <3>4
  <2>4. Lacks(d.rx) = NumbersOf(m, Remaining(s))
    BY <1>3, <1>5, <2>3 DEF Lacks
  <2> QED  BY <1>3, <1>10, <2>2, <2>3, <2>4, NextOnTime
<1> QED  BY <1>9, <1>10

LEMMA BlockOnTime ==
  ASSUME NEW s \in Radios, NEW e \in Radios, Pair(s, e), PairInv(s, e),
         Lined(s, e), NEW u, NEW id, NEW d, ReceiverHeard(s, e, u, id, d),
         ctx[s].tx.active, Fair(ctx[s].tx.msg), ~Starting(s), OnTime(s, e),
         u.kind = "block"
  PROVE  /\ Remaining(s) = {} => Delivers(e, d, ctx[s].tx.msg, id)
         /\ Remaining(s) # {} /\ ctx[s].tx.list = <<>> =>
              d.copies = ctx[e].copies /\ Cost(s, e)' = 0
<1> DEFINE m == ctx[s].tx.msg
           n == NBlocks(m)
           rx == ctx[e].rx
           y == Accumulate(rx, u.lead)
           due == NumbersOf(m, Remaining(s))
<1>1. RxStand(s, e, u) /\ m \in Messages
  BY RxStands, PairFacts
<1>2. Hears(e) = {u} /\ ~HeaderHeard(e)
  BY <1>1 DEF RxStand, HeaderHeard
<1>3. /\ Clear(e) /\ Kept(e) /\ Lacks(rx) = due \union NosHeard(e)
      /\ due \intersect NosHeard(e) = {}
  BY <1>2 DEF OnTime
<1>4. NosHeard(e) = {u.lead.no}
  BY <1>2 DEF NosHeard
<1>5. rx.active /\ ~rx.failed /\ rx.sack = NoSack
  BY <1>3 DEF Kept
<1>6. rx.msg = m
  <2>1. rx.msg \in Abroad(s, e)
    BY <1>5 DEF Abroad
  <2> QED  BY <2>1, PairFacts DEF Current
<1>7. rx \in Taking /\ RxSound(rx) /\ Heeds(s, e)
  BY <1>5, PairSettled DEF Settled
<1>8. u.lead \in Leads(rx.msg) /\ TakesBlock(ctx[e], d, u.lead, id)
  BY <1>5 DEF ReceiverHeard
<1>9. /\ y.active /\ y.msg = m /\ y.sack = NoSack /\ ~y.failed
      /\ y.failed = FALSE
      /\ y.seen = rx.seen \union {u.lead.no} /\ y.seen \subseteq Numbers(m)
  <2>1. /\ rx.seen \subseteq Numbers(rx.msg) /\ (~Msg[rx.msg].fits => rx.failed)
        /\ Fair(rx.msg) => ~rx.failed
    BY <1>5, <1>7 DEF Heeds
  <2> HIDE DEF rx
  <2>2. /\ y.active /\ y.msg = rx.msg /\ y.sack = rx.sack /\ y \in Taking
        /\ y.seen \subseteq Numbers(rx.msg)
        /\ Fair(rx.msg) => ~y.failed /\ y.seen = rx.seen \union {u.lead.no}
    BY <1>7, <1>8, <2>1, AccumulateHeeds
  <2>3. y.failed \in BOOLEAN
    BY <2>2 DEF Taking
  <2> QED  BY <1>5, <1>6, <2>2, <2>3
<1>10. /\ Announced(m) = n /\ n \in Nat /\ Numbers(m) = 0..(n - 1)
       /\ \A i, j \in 1..n : Msg[m].blocks[i].no = Msg[m].blocks[j].no => i = j
       /\ \A i \in 1..(n - 1) : ~Msg[m].blocks[i].last
  BY <1>1, AllAnnounced, FairNumbers, Zenon DEF Fair
<1> HIDE DEF y, due
<1>11. Lacks(rx) = 0..(n - 1) \ rx.seen /\ Lacks(y) = 0..(n - 1) \ y.seen
  BY <1>6, <1>9, <1>10 DEF Lacks
<1>12. Lacks(y) = due
  BY <1>3, <1>4, <1>9, <1>11
<1> DEFINE whole == Cardinality(y.seen) >= Announced(rx.msg)
<1>13. whole <=> due = {}
  <2>1. y.seen \subseteq 0..(n - 1)
    BY <1>9, <1>10
  <2>2. Cardinality(y.seen) >= n <=> 0..(n - 1) \ y.seen = {}
    BY <1>10, <2>1, WholeSeen
  <2> QED  BY <1>6, <1>10, <1>11, <1>12, <2>2
<1>14. \/ ~u.lead.last /\ ~whole /\ Notes(ctx[e], d, u.lead)
       \/ ~whole /\ u.lead.last
       \/ /\ u.lead.last \/ whole
          /\ Concludes(ctx[e], d, rx.msg, whole /\ ~y.failed, y.failed, id)
  BY <1>8 DEF TakesBlock, y
<1> HIDE DEF whole
<1>15. ASSUME Remaining(s) = {} PROVE Delivers(e, d, m, id)
  <2>1. due = {}
    BY <1>15 DEF due, NumbersOf
  <2>2. (whole /\ ~y.failed) = TRUE
    BY <1>9, <1>13, <2>1 DEF whole
  <2>3. Concludes(ctx[e], d, m, TRUE, FALSE, id)
    BY <1>6, <1>9, <1>13, <1>14, <2>1, <2>2
  <2>4. heard[e] # <<>>
    <3>1. heard[e] = <<u>>
      BY ReceiverRxLeaves
    <3> QED  BY <3>1, Singles
  <2>5. Expects(e, m)
    BY <1>5, <1>6, <2>4 DEF Expects
  <2> QED  BY <2>3, <2>5 DEF Delivers
<1>16. ASSUME Remaining(s) # {}, ctx[s].tx.list = <<>>
       PROVE  d.copies = ctx[e].copies /\ Cost(s, e)' = 0
  <2>1. n \in Nat \ {0} /\ n - 1 \in Remaining(s)
    BY <1>16, LastRemains
  <2>2. Msg[m].blocks[n].no \in due
    <3>1. Msg[m].blocks[(n - 1) + 1].no \in due
      BY <2>1 DEF due, NumbersOf
    <3>2. (n - 1) + 1 = n
      BY <2>1
    <3> QED  BY <3>1, <3>2, SMTT(30)
  <2>3. ~whole
    BY <1>13, <2>2
  <2>4. ~u.lead.last
    <3>1. PICK i \in 1..n : u.lead = Msg[m].blocks[i]
      BY <1>1, <1>6, <1>8, LeadsOf, SMTT(30)
    <3>2. CASE i = n
      BY <1>3, <1>4, <2>2, <3>1, <3>2, Zenon
    <3>3. CASE i # n
      <4>1. i \in 1..(n - 1)
        BY <2>1, <3>3
      <4> QED  BY <1>10, <3>1, <4>1
    <3> QED  BY <3>2, <3>3
  <2>5. Notes(ctx[e], d, u.lead)
    BY <1>14, <2>3, <2>4
  <2>6. /\ d.rx = y /\ d.copies = ctx[e].copies /\ d.out = Silent
        /\ d.tmr["rx_stall"].kern = "running"
    BY <2>5 DEF Notes, y
  <2>7. Lacks(d.rx) = NumbersOf(m, Remaining(s))
    BY <1>12, <2>6 DEF due
  <2>8. Cost(s, e)' = 0
    BY <1>3, <1>9, <1>16, <2>6, <2>7, NextOnTime
  <2> QED  BY <2>6, <2>8
<1> QED  BY <1>15, <1>16

\* What comes on time goes on so, or delivers.
LEMMA OnTimeRx ==
  ASSUME NEW s \in Radios, NEW e \in Radios, Pair(s, e), PairInv(s, e),
         Lined(s, e), NEW u, NEW id, NEW d, ReceiverHeard(s, e, u, id, d),
         ctx[s].tx.active, Fair(ctx[s].tx.msg), ~Starting(s), OnTime(s, e)
  PROVE  /\ Remaining(s) = {} => Delivers(e, d, ctx[s].tx.msg, id)
         /\ Remaining(s) # {} /\ ctx[s].tx.list = <<>> =>
              d.copies = ctx[e].copies /\ Cost(s, e)' = 0
<1>1. u.kind \in {"header", "block"}
  BY DEF ReceiverHeard
<1> QED  BY <1>1, HeaderOnTime, BlockOnTime

\* A block of nothing that is reassembled is nothing.
LEMMA StrayBlockCost ==
  ASSUME NEW s \in Radios, NEW e \in Radios, Pair(s, e), PairInv(s, e),
         Lined(s, e), NEW u, NEW id, NEW d, ReceiverHeard(s, e, u, id, d),
         ~Pending(e)
  PROVE  ctx'[e].copies = ctx[e].copies /\ Cost(s, e)' <= Cost(s, e)
<1>1. /\ RxStand(s, e, u) /\ ctx'[e].rx = d.rx /\ ctx'[e].copies = d.copies
      /\ d.out = Silent => mac'[e] = mac[e]
      /\ heard[e] = <<u>> /\ heard[s] = <<>>
  BY RxStands, ReceiverRxLeaves
<1>2. ~ctx[e].rx.active /\ u.kind # "header"
  <2>1. u \in Hears(e)
    BY <1>1 DEF RxStand
  <2>2. heard[e] # <<>>
    BY <1>1, Singles
  <2> QED  BY <2>1, <2>2 DEF Pending, HeaderHeard
<1>3. Keeps(ctx[e], d)
  BY <1>2 DEF ReceiverHeard
<1>4. /\ ctx'[e].rx = ctx[e].rx /\ ctx'[e].copies = ctx[e].copies
      /\ mac'[e] = mac[e]
  BY <1>1, <1>3 DEF Keeps
<1>5. Asked(e)' = Asked(e)
  BY <1>4 DEF Asked
<1>6. Clear(e) => Clear(e)'
  BY <1>2, <1>4, <1>5 DEF Clear
<1>7. ~Reached(e)'
  BY <1>1, <1>2, <1>4 DEF Reached, RxStand
<1>8. Acked(s, e)' <=> Acked(s, e)
  <2>1. Hears(s) = {}
    BY <1>1, Singles DEF Hears
  <2> QED  BY <1>1, <1>5, <2>1 DEF Acked, RxStand
<1>9. /\ ctx'[s] = ctx[s] /\ ~Pending(e)' /\ ~Refused(s) /\ ~Refused(s)'
      /\ ~Takeable(s, e)'
      /\ Starting(s)' <=> Starting(s)
      /\ Remaining(s)' = Remaining(s)
  BY <1>1 DEF RxStand
<1>10. CASE Starting(s)
  BY <1>4, <1>6, <1>9, <1>10 DEF Cost, Bit
<1>11. CASE ~Starting(s) /\ Remaining(s) # {}
  BY <1>4, <1>7, <1>9, <1>11 DEF Cost, Bit
<1>12. CASE ~Starting(s) /\ Remaining(s) = {}
  BY <1>2, <1>4, <1>8, <1>9, <1>12 DEF Cost, Bit
<1> QED  BY <1>4, <1>10, <1>11, <1>12

\* A burst that is taken may deliver the one copy that it may cost.
LEMMA TakenCost ==
  ASSUME NEW s \in Radios, NEW e \in Radios, Pair(s, e), PairInv(s, e), Typed',
         Lined(s, e), NEW u, NEW id, NEW d, ReceiverHeard(s, e, u, id, d),
         Pending(e), ctx[s].tx.active, Fair(ctx[s].tx.msg),
         ctx'[e].copies = ctx[e].copies \/ Delivers(e, d, ctx[s].tx.msg, id)
  PROVE  ctx'[e].copies[ctx[s].tx.msg] + Cost(s, e)'
           <= ctx[e].copies[ctx[s].tx.msg] + Cost(s, e) + (trouble' - trouble)
<1> DEFINE m == ctx[s].tx.msg
           n == ctx[e].copies[m]
           more == Delivers(e, d, m, id)
<1>1. /\ RxStand(s, e, u) /\ m \in Messages /\ Typed /\ ctx'[e].copies = d.copies
      /\ trouble <= trouble'
  BY RxStands, PairFacts, ReceiverRxLeaves
<1>2. /\ n \in Nat /\ trouble \in Nat /\ trouble' \in Nat
  BY <1>1, PaidNeeds
<1>3. /\ ctx'[s] = ctx[s] /\ ~Pending(e)' /\ ~Refused(s) /\ ~Refused(s)'
      /\ Starting(s)' <=> Starting(s)
      /\ Cost(s, e)' \in -1..1
  BY <1>1 DEF RxStand
<1>4. ~more => ctx'[e].copies[m] = n
  OBVIOUS
<1>5. more => /\ ctx'[e].copies[m] = n + 1
              /\ Clear(e) => Clear(e)'
              /\ ~Starting(s) => Cost(s, e)' <= 0
              /\ Clear(e) /\ ~Starting(s) /\ Remaining(s) = {} =>
                   Cost(s, e)' = -1 \/ trouble' = trouble + 1
  BY DeliveredCost
<1>6. OnTime(s, e) => Clear(e)
  BY DEF OnTime
<1>7. Reached(e)
  BY DEF Pending, Reached, Doomed
<1>8. ~Starting(s) /\ OnTime(s, e) =>
        /\ Remaining(s) = {} => more
        /\ Remaining(s) # {} /\ ctx[s].tx.list = <<>> =>
             ctx'[e].copies[m] = n /\ Cost(s, e)' = 0
  BY <1>1, OnTimeRx
<1> HIDE DEF m, n, more
<1>9. Cost(s, e) \in -1..2
  BY CostRange DEF CostFits
<1>10. ASSUME Starting(s)
       PROVE  ctx'[e].copies[m] + Cost(s, e)' <= n + Cost(s, e) + (trouble' - trouble)
  <2> DEFINE new == Bit(~(ctx[s].tx.list = <<>> /\ Clear(e) /\ ~Refused(s)))
  <2>1. Cost(s, e) = new + 1
    BY <1>10 DEF Cost, Bit
  <2>2. new \in 0..1
    BY BitIs
  <2>3. more => Cost(s, e)' <= new
    BY <1>3, <1>5, <1>10 DEF Cost, Bit
  <2> HIDE DEF new
  <2> QED  BY <1>1, <1>2, <1>3, <1>4, <1>5, <2>1, <2>2, <2>3
<1>11. ASSUME ~Starting(s), Remaining(s) # {}
       PROVE  ctx'[e].copies[m] + Cost(s, e)' <= n + Cost(s, e) + (trouble' - trouble)
  <2>1. CASE OnTime(s, e) /\ ctx[s].tx.list = <<>>
    <3>1. ctx'[e].copies[m] = n /\ Cost(s, e)' = 0
      BY <1>8, <1>11, <2>1
    <3>2. Cost(s, e) = 0
      BY <1>3, <1>11, <2>1 DEF Cost, Bit
    <3> QED  BY <1>1, <1>2, <3>1, <3>2
  <2>2. CASE ~(OnTime(s, e) /\ ctx[s].tx.list = <<>>)
    <3>1. Cost(s, e) = 1
      BY <1>3, <1>7, <1>11, <2>2 DEF Cost, Bit
    <3> QED  BY <1>1, <1>2, <1>3, <1>4, <1>5, <1>11, <3>1
  <2> QED  BY <2>1, <2>2
<1>12. ASSUME ~Starting(s), Remaining(s) = {}
       PROVE  ctx'[e].copies[m] + Cost(s, e)' <= n + Cost(s, e) + (trouble' - trouble)
  <2>1. Cost(s, e) = Bit(~OnTime(s, e))
    BY <1>3, <1>12 DEF Cost
  <2>2. CASE OnTime(s, e)
    <3>1. more /\ Cost(s, e) = 0
      BY <1>8, <1>12, <2>1, <2>2 DEF Bit
    <3> QED  BY <1>1, <1>2, <1>3, <1>5, <1>6, <1>12, <2>2, <3>1
  <2>3. CASE ~OnTime(s, e)
    <3>1. Cost(s, e) = 1
      BY <2>1, <2>3 DEF Bit
    <3> QED  BY <1>1, <1>2, <1>3, <1>4, <1>5, <1>12, <3>1
  <2> QED  BY <2>2, <2>3
<1> QED  BY <1>10, <1>11, <1>12 DEF m, n

LEMMA ReceiverRxPays ==
  ASSUME NEW s \in Radios, NEW e \in Radios, Pair(s, e), PairInv(s, e), Typed',
         Lined(s, e), RxReady(e)
  PROVE  Pays(s, e)
<1>1. PICK u, id, d : ReceiverHeard(s, e, u, id, d)
  BY ReceiverRx
<1>2. /\ RxStand(s, e, u) /\ Typed /\ ReceiverOnly(s, e)
      /\ ctx'[e].copies = d.copies /\ trouble <= trouble' /\ heard'[e] = <<>>
  BY <1>1, RxStands, ReceiverRxLeaves, PairFacts
<1>3. Still => Still'
  BY <1>2 DEF RxStand
<1>4. /\ trouble \in Nat /\ trouble' \in Nat /\ trouble <= trouble'
      /\ \A m \in Messages : ctx[e].copies[m] \in Nat
  BY <1>2, PaidNeeds
<1>5. \A m \in Messages : Expects(e, m) /\ ctx[s].tx.active => m = ctx[s].tx.msg
  <2> TAKE m \in Messages
  <2>1. Expects(e, m) => m \in Abroad(s, e)
    BY DEF Expects, Abroad, HeadersTo
  <2> QED  BY <2>1, PairFacts DEF Current
<1>6. /\ ctx'[e].copies = ctx[e].copies \/ \E m \in Messages : Delivers(e, d, m, id)
  BY <1>1, <1>2, RxDelivers
<1>7. ASSUME ctx[s].tx.active, Fair(ctx[s].tx.msg)
      PROVE  ctx'[e].copies[ctx[s].tx.msg] + Cost(s, e)'
               <= ctx[e].copies[ctx[s].tx.msg] + Cost(s, e) + (trouble' - trouble)
  <2>1. CASE ~Pending(e)
    <3>1. ctx'[e].copies = ctx[e].copies /\ Cost(s, e)' <= Cost(s, e)
      BY <1>1, <2>1, StrayBlockCost
    <3>2. ctx[e].copies[ctx[s].tx.msg] \in Nat
      BY <1>4, <1>7, PairFacts
    <3>3. Cost(s, e) \in -1..2 /\ Cost(s, e)' \in -1..2
      BY CostRange DEF CostFits
    <3> QED  BY <1>4, <3>1, <3>2, <3>3
  <2>2. CASE Pending(e)
    <3>1. ctx'[e].copies = ctx[e].copies \/ Delivers(e, d, ctx[s].tx.msg, id)
      BY <1>5, <1>6, <1>7 DEF Delivers
    <3> QED  BY <1>1, <1>7, <2>2, <3>1, TakenCost
  <2> QED  BY <2>1, <2>2
<1>8. ASSUME NEW m \in Messages, ~(ctx[s].tx.active /\ ctx[s].tx.msg = m)
      PROVE  ctx'[e].copies[m] + Bit(Expects(e, m))'
               <= ctx[e].copies[m] + Bit(Expects(e, m)) + (trouble' - trouble)
  <2>1. Bit(Expects(e, m))' = 0
    BY <1>2 DEF Bit, Expects
  <2>2. Bit(Expects(e, m)) \in 0..1 /\ (Expects(e, m) => Bit(Expects(e, m)) = 1)
    BY BitIs
  <2>3. \/ ctx'[e].copies[m] = ctx[e].copies[m]
        \/ Expects(e, m) /\ ctx'[e].copies[m] = ctx[e].copies[m] + 1
    <3>1. CASE ctx'[e].copies = ctx[e].copies
      BY <3>1
    <3>2. ASSUME NEW k \in Messages, Delivers(e, d, k, id)
          PROVE  \/ ctx'[e].copies[m] = ctx[e].copies[m]
                 \/ Expects(e, m) /\ ctx'[e].copies[m] = ctx[e].copies[m] + 1
      <4>1. ctx'[e].copies = [ctx[e].copies EXCEPT ![k] = @ + 1] /\ Expects(e, k)
        BY <1>2, <3>2 DEF Delivers, Concludes
      <4>2. ctx[e].copies \in [Messages -> Nat]
        BY PairFacts, ContextFields
      <4> QED  BY <4>1, <4>2
    <3> QED  BY <1>6, <3>1, <3>2
  <2> QED  BY <1>4, <2>1, <2>2, <2>3
<1> QED  BY <1>2, <1>3, <1>7, <1>8, ReceiverPays

----------------------------------------------------------------------------
(* The application and the timers cost no more than they may.              *)

\* A message that is accepted has not come yet, and costs nothing so far.
LEMMA SendPaid ==
  ASSUME NEW s \in Radios, NEW e \in Radios, Pair(s, e), PairInv(s, e), Typed',
         Lined(s, e), Paid(s, e), NEW m \in Messages, SenderSends(s, e, m)
  PROVE  Paid(s, e)'
<1>1. /\ \A r \in Radios : conf[r] = <<>> /\ heard[r] = <<>> /\ mac[r] = <<>>
      /\ conf' = conf /\ heard' = heard /\ trouble' = trouble
      /\ ctx'[e] = ctx[e] /\ mac'[e] = mac[e] /\ ~ctx[e].rx.active
      /\ ~ctx[s].tx.active /\ ctx[s].told[m] = "new"
      /\ ctx'[s].tx.active /\ ctx'[s].tx.msg = m /\ ctx'[s].tx.phase = "PREAMBLE"
      /\ ctx'[s].tx.list = <<>> /\ ctx'[s].state = "TX_BURST_PENDING"
  BY DEF SenderSends
<1>2. Typed
  BY DEF PairInv
<1>3. /\ \A k \in Messages : Fair(k) => Need(s, e, k) <= trouble
      /\ trouble \in Nat
      /\ Paid(s, e)' <=> \A k \in Messages : Fair(k) => Need(s, e, k)' <= trouble'
  BY <1>2, PaidNeeds
<1>4. ~Early(s)'
  BY <1>1 DEF Early
<1>5. Cost(s, e)' = 0
  <2>1. Starting(s)'
    BY <1>1 DEF Starting
  <2>2. Asked(e)' = {}
    <3>1. mac'[e] = <<>>
      BY <1>1
    <3>2. Range(mac'[e]) = {}
      BY <3>1, Singles
    <3> QED  BY <3>2 DEF Asked
  <2>3. Clear(e)'
    BY <1>1, <2>2 DEF Clear
  <2>4. ~Pending(e)'
    BY <1>1 DEF Pending
  <2>5. ~Refused(s)'
    BY <1>1, Singles DEF Refused
  <2> QED  BY <1>1, <2>1, <2>3, <2>4, <2>5 DEF Cost, Bit
<1>6. ctx'[e].copies[m] = 0
  BY <1>1 DEF Lined, Heeds
<1>7. Need(s, e, m)' = 0
  <2>1. Need(s, e, m)' = ctx'[e].copies[m] + Bit(Early(s))' + Cost(s, e)'
    BY <1>1 DEF Need
  <2>2. Bit(Early(s))' = 0
    BY <1>4 DEF Bit
  <2> QED  BY <1>5, <1>6, <2>1, <2>2
<1>8. \A k \in Messages \ {m} : Need(s, e, k)' = Need(s, e, k)
  <2> TAKE k \in Messages \ {m}
  <2>1. Expects(e, k)' <=> Expects(e, k)
    BY <1>1 DEF Expects, Hears
  <2>2. Bit(Expects(e, k))' = Bit(Expects(e, k))
    BY <2>1 DEF Bit
  <2> QED  BY <1>1, <2>2 DEF Need
<1> QED  BY <1>1, <1>3, <1>7, <1>8

\* The expiry of the receiver's timer may cost a copy, of the sender's none.
LEMMA ExpiryCost ==
  ASSUME NEW s \in Radios, NEW e \in Radios, s # e, NEW r \in Radios,
         NEW t \in Timers, TimerExpires(r, t)
  PROVE  /\ Cost(s, e)' <= Cost(s, e) + 1
         /\ r = s => Cost(s, e)' = Cost(s, e)
         /\ ~Starting(s) /\ Remaining(s) = {} /\ ~Pending(e) =>
              Cost(s, e)' = Cost(s, e)
<1>1. /\ mac' = mac /\ conf' = conf /\ heard' = heard /\ batch' = batch
      /\ ctx'[s].tx = ctx[s].tx /\ ctx'[s].state = ctx[s].state
      /\ ctx'[e].rx = ctx[e].rx
      /\ r = s => ctx'[e].tmr["rx_stall"] = ctx[e].tmr["rx_stall"]
  BY DEF TimerExpires, Timers
<1>2. /\ Asked(e)' = Asked(e) /\ Hears(e)' = Hears(e) /\ Hears(s)' = Hears(s)
      /\ Named(e)' = Named(e)
  BY <1>1 DEF Asked, Hears, Named
<1>3. Clear(e)' <=> Clear(e)
  BY <1>1, <1>2 DEF Clear
<1>4. HeaderHeard(e)' <=> HeaderHeard(e)
  BY <1>2 DEF HeaderHeard
<1>5. Pending(e)' <=> Pending(e)
  BY <1>1, <1>4 DEF Pending
<1>6. Reached(e)' <=> Reached(e)
  BY <1>1, <1>4 DEF Reached, Doomed
<1>7. /\ Remaining(s)' = Remaining(s)
      /\ Starting(s)' <=> Starting(s)
      /\ Refused(s)' <=> Refused(s)
  BY <1>1 DEF Remaining, Starting, Refused
<1>8. (Acked(s, e)' <=> Acked(s, e)) /\ (Takeable(s, e)' <=> Takeable(s, e))
  BY <1>1, <1>2 DEF Acked, Takeable
<1>9. r = s => (OnTime(s, e)' <=> OnTime(s, e))
  <2>1. NosHeard(e)' = NosHeard(e)
    BY <1>2 DEF NosHeard
  <2>2. r = s => (Kept(e)' <=> Kept(e))
    BY <1>1 DEF Kept
  <2> QED  BY <1>1, <1>2, <1>3, <1>4, <1>7, <2>1, <2>2 DEF OnTime
<1>10. CASE Starting(s)
  <2>1. Cost(s, e)' = Cost(s, e)
    BY <1>1, <1>3, <1>5, <1>7, <1>10 DEF Cost, Bit
  <2>2. Cost(s, e) \in -1..2
    BY CostRange DEF CostFits
  <2> QED  BY <1>10, <2>1, <2>2
<1>11. CASE ~Starting(s) /\ Refused(s)
  BY <1>7, <1>11 DEF Cost
<1>12. CASE ~Starting(s) /\ ~Refused(s) /\ Remaining(s) # {}
  BY <1>1, <1>6, <1>7, <1>9, <1>12 DEF Cost, Bit
<1>13. CASE ~Starting(s) /\ ~Refused(s) /\ Remaining(s) = {} /\ Pending(e)
  BY <1>5, <1>7, <1>9, <1>13 DEF Cost, Bit
<1>14. CASE ~Starting(s) /\ ~Refused(s) /\ Remaining(s) = {} /\ ~Pending(e)
  <2>1. Cost(s, e)' = Cost(s, e)
    BY <1>1, <1>5, <1>7, <1>8, <1>14 DEF Cost, Bit
  <2>2. Cost(s, e) \in -1..2
    BY CostRange DEF CostFits
  <2> QED  BY <2>1, <2>2
<1> QED  BY <1>10, <1>11, <1>12, <1>13, <1>14

LEMMA ExpirePays ==
  ASSUME NEW s \in Radios, NEW e \in Radios, Pair(s, e), PairInv(s, e), Typed',
         Lined(s, e), NEW r \in Radios, NEW t \in Timers, Expire(r, t)
  PROVE  Pays(s, e)
<1>1. TimerExpires(r, t) /\ s # e /\ Radios = {s, e} /\ Typed
  BY PairFacts, ExpireExpires
<1>2. /\ mac' = mac /\ conf' = conf /\ heard' = heard /\ batch' = batch
      /\ ctx'[s].tx = ctx[s].tx /\ ctx'[s].state = ctx[s].state
      /\ ctx'[e].rx = ctx[e].rx /\ ctx'[e].copies = ctx[e].copies
      /\ r = e => ctx'[s].tmr["response"] = ctx[s].tmr["response"]
      /\ \/ Quiet /\ trouble' = trouble
         \/ trouble' = trouble + 1
  BY <1>1 DEF TimerExpires, Timers
<1> SUFFICES ASSUME NEW m \in Messages, Fair(m)
             PROVE  Need(s, e, m)' <= Need(s, e, m) + (trouble' - trouble)
  BY DEF Pays
<1>3. trouble \in Nat /\ ctx[e].copies[m] \in Nat
  BY <1>1, PaidNeeds
<1>4. /\ Cost(s, e) \in -1..2 /\ Cost(s, e)' \in -1..2
      /\ Bit(Early(s)) \in 0..1 /\ Bit(Early(s))' \in 0..1
      /\ Bit(Expects(e, m)) \in 0..1
  BY CostRange DEF CostFits, Bit
<1>5. /\ Cost(s, e)' <= Cost(s, e) + 1
      /\ r = s => Cost(s, e)' = Cost(s, e)
      /\ ~Starting(s) /\ Remaining(s) = {} /\ ~Pending(e) =>
           Cost(s, e)' = Cost(s, e)
  BY <1>1, ExpiryCost
<1>6. CASE ~(ctx[s].tx.active /\ ctx[s].tx.msg = m)
  <2>1. Bit(Expects(e, m))' = Bit(Expects(e, m))
    BY <1>2 DEF Bit, Expects, Hears
  <2>2. Need(s, e, m)' = Need(s, e, m)
    BY <1>2, <1>6, <2>1 DEF Need
  <2>3. Need(s, e, m) = ctx[e].copies[m] + Bit(Expects(e, m)) - 1
    BY <1>6 DEF Need
  <2> QED  BY <1>2, <1>3, <1>4, <2>2, <2>3
<1>7. CASE ctx[s].tx.active /\ ctx[s].tx.msg = m
  <2>1. /\ Need(s, e, m) = ctx[e].copies[m] + Bit(Early(s)) + Cost(s, e)
        /\ Need(s, e, m)' = ctx[e].copies[m] + Bit(Early(s))' + Cost(s, e)'
    BY <1>2, <1>7 DEF Need
  <2>2. CASE trouble' = trouble + 1
    <3>1. CASE r = s
      BY <1>3, <1>4, <1>5, <2>1, <2>2, <3>1
    <3>2. CASE r = e
      <4>1. Early(s)' <=> Early(s)
        BY <1>2, <3>2 DEF Early, Still, Expiry, Noticed
      <4>2. Bit(Early(s))' = Bit(Early(s))
        BY <4>1 DEF Bit
      <4> QED  BY <1>3, <1>4, <1>5, <2>1, <2>2, <4>2
    <3> QED  BY <1>1, <3>1, <3>2
  <2>3. CASE Quiet /\ trouble' = trouble
    <3>1. \A q \in Radios : mac[q] = <<>> /\ conf[q] = <<>> /\ heard[q] = <<>>
      BY <2>3 DEF Quiet, KeptUp
    <3>2. ~Early(s)'
      BY <1>2, <3>1 DEF Early, Still
    <3>3. ctx[s].tx.phase = "DONE"
      BY <1>7, <3>1, Singles, Zenon DEF Lined, Sending
    <3>4. ~Starting(s) /\ Remaining(s) = {} /\ ~Pending(e)
      BY <3>1, <3>3 DEF Starting, Remaining, Pending
    <3>5. Bit(Early(s))' = 0
      BY <3>2 DEF Bit
    <3> QED  BY <1>3, <1>4, <1>5, <2>1, <2>3, <3>4, <3>5
  <2> QED  BY <1>2, <2>2, <2>3
<1> QED  BY <1>6, <1>7

----------------------------------------------------------------------------
(* The MAC's steps cost no more than they may.                             *)

LEMMA HeadAndTail ==
  ASSUME NEW S, NEW q \in Seq(S), q # <<>>
  PROVE  Range(q) = Range(Tail(q)) \union {Head(q)}
<1>1. /\ Len(q) \in Nat \ {0} /\ DOMAIN q = 1..Len(q)
      /\ DOMAIN Tail(q) = 1..(Len(q) - 1)
      /\ \A i \in 1..(Len(q) - 1) : Tail(q)[i] = q[i + 1]
      /\ Head(q) = q[1]
  BY TailAt
<1>2. \A i \in DOMAIN q : i = 1 \/ (i - 1 \in DOMAIN Tail(q) /\ Tail(q)[i - 1] = q[i])
  <2> TAKE i \in DOMAIN q
  <2>1. i = 1 \/ (i - 1 \in 1..(Len(q) - 1) /\ (i - 1) + 1 = i)
    BY <1>1
  <2> QED  BY <1>1, <2>1
<1>3. Range(q) \subseteq Range(Tail(q)) \union {Head(q)}
  <2> SUFFICES ASSUME NEW i \in DOMAIN q
               PROVE  q[i] \in Range(Tail(q)) \union {Head(q)}
    BY DEF Range
  <2> QED  BY <1>1, <1>2 DEF Range
<1>4. Head(q) \in Range(q)
  <2>1. 1 \in DOMAIN q
    BY <1>1
  <2> QED  BY <1>1, <2>1 DEF Range
<1>5. Range(Tail(q)) \subseteq Range(q)
  BY RangeOfTail
<1> QED  BY <1>3, <1>4, <1>5

\* What the receiver's MAC airs, the sender hears, or it is lost.
AirsAnswer(s, e) ==
  /\ Asked(e)' \subseteq Asked(e)
  /\ Named(e)' \subseteq Named(e)
  /\ \/ /\ trouble' = trouble
        /\ Asked(e)' \union Hears(s)' = Asked(e) \union Hears(s)
        /\ heard[s] = <<>> /\ Hears(s)' \subseteq Asked(e)
     \/ /\ trouble' = trouble + 1
        /\ Asked(e)' \union Hears(s)' \subseteq Asked(e) \union Hears(s)

LEMMA AnswersAired ==
  ASSUME NEW s \in Radios, NEW e \in Radios, Typed, ReceiverAirs(s, e)
  PROVE  AirsAnswer(s, e)
<1> DEFINE x == Head(mac[e])
<1>1. /\ mac[e] \in Seq([id : 1..MaxId, burst : Sent \ {Silent}])
      /\ mac[e] # <<>> /\ mac'[e] = Tail(mac[e])
  BY DEF Typed, ReceiverAirs
<1>2. Range(mac[e]) = Range(mac'[e]) \union {x}
  BY <1>1, HeadAndTail
<1> HIDE DEF x
<1>3. Asked(e) = Asked(e)' \union {x.burst}
  BY <1>2 DEF Asked
<1>4. CASE conf' = conf /\ heard' = heard /\ trouble' = trouble + 1
  <2>1. Named(e)' \subseteq Named(e)
    BY <1>2, <1>4 DEF Named
  <2>2. Hears(s)' = Hears(s)
    BY <1>4 DEF Hears
  <2> QED  BY <1>3, <1>4, <2>1, <2>2 DEF AirsAnswer
<1>5. CASE /\ \A r \in Radios : batch[r] = {} /\ conf[r] = <<>> /\ heard[r] = <<>>
           /\ \E ok \in BOOLEAN : conf'[e] = <<[id |-> x.id, ok |-> ok]>>
           /\ \/ heard'[s] = <<x.burst>> /\ trouble' = trouble
              \/ heard'[s] = <<>> /\ trouble' = trouble + 1
  <2>1. PICK cf : conf'[e] = <<cf>> /\ cf.id = x.id
    <3>1. PICK ok \in BOOLEAN : conf'[e] = <<[id |-> x.id, ok |-> ok]>>
      BY <1>5
    <3>2. [id |-> x.id, ok |-> ok].id = x.id
      OBVIOUS
    <3> QED  BY <3>1, <3>2
  <2>2. Range(conf'[e]) = {cf}
    BY <2>1, Singles
  <2>3. Named(e)' \subseteq Named(e)
    BY <1>2, <2>1, <2>2 DEF Named
  <2>4. heard[s] = <<>> /\ Hears(s) = {}
    BY <1>5, Singles DEF Hears
  <2>5. CASE heard'[s] = <<x.burst>> /\ trouble' = trouble
    <3>1. Hears(s)' = {x.burst}
      BY <2>5, Singles DEF Hears
    <3> QED  BY <1>3, <2>3, <2>4, <2>5, <3>1 DEF AirsAnswer
  <2>6. CASE heard'[s] = <<>> /\ trouble' = trouble + 1
    <3>1. Hears(s)' = {}
      BY <2>6, Singles DEF Hears
    <3> QED  BY <1>3, <2>3, <2>4, <2>6, <3>1 DEF AirsAnswer
  <2> QED  BY <1>5, <2>5, <2>6
<1> QED  BY <1>4, <1>5 DEF ReceiverAirs, x

\* A bitmap is the first of what the receiver's MAC has.
LEMMA BitmapFirst ==
  ASSUME NEW e \in Radios, Typed, InLine(e), mac[e] # <<>>,
         mac'[e] = Tail(mac[e])
  PROVE  \A u \in Asked(e)' : u.kind # "rdata"
<1>1. /\ Len(mac[e]) \in Nat \ {0} /\ DOMAIN mac[e] = 1..Len(mac[e])
      /\ DOMAIN Tail(mac[e]) = 1..(Len(mac[e]) - 1)
      /\ \A i \in 1..(Len(mac[e]) - 1) : Tail(mac[e])[i] = mac[e][i + 1]
  <2>1. mac[e] \in Seq([id : 1..MaxId, burst : Sent \ {Silent}])
    BY DEF Typed
  <2> QED  BY <2>1, TailAt
<1>2. \A i \in DOMAIN mac'[e] : mac'[e][i].burst.kind # "rdata"
  <2> TAKE i \in DOMAIN mac'[e]
  <2>1. i \in 1..(Len(mac[e]) - 1) /\ i + 1 \in DOMAIN mac[e] /\ i + 1 # 1
    BY <1>1
  <2>2. mac'[e][i] = mac[e][i + 1]
    BY <1>1, <2>1
  <2> QED  BY <2>1, <2>2 DEF InLine
<1> QED  BY <1>2 DEF Asked, Range

\* Clear and on time it stays, and an acknowledgement stays on its way.
LEMMA AiredCost ==
  ASSUME NEW s \in Radios, NEW e \in Radios, Typed, InLine(e),
         ReceiverAirs(s, e)
  PROVE  Cost(s, e)' <= Cost(s, e) + (trouble' - trouble)
<1>1. AirsAnswer(s, e)
  BY AnswersAired
<1>2. /\ ctx' = ctx /\ batch' = batch /\ mac[e] # <<>>
      /\ mac'[e] = Tail(mac[e]) /\ mac'[s] = mac[s]
      /\ conf'[s] = conf[s] /\ heard'[e] = heard[e]
  BY DEF ReceiverAirs
<1>3. /\ Asked(e)' \subseteq Asked(e) /\ Named(e)' \subseteq Named(e)
      /\ trouble' = trouble \/ trouble' = trouble + 1
  BY <1>1 DEF AirsAnswer
<1>4. trouble \in Nat /\ Cost(s, e) \in -1..2 /\ Cost(s, e)' \in -1..2
  BY TroubleNat, CostRange DEF CostFits
<1>5. Clear(e) => Clear(e)'
  BY <1>2, <1>3 DEF Clear
<1>6. Hears(e)' = Hears(e)
  BY <1>2 DEF Hears
<1>7. HeaderHeard(e)' <=> HeaderHeard(e)
  BY <1>6 DEF HeaderHeard
<1>8. Pending(e)' <=> Pending(e)
  BY <1>2, <1>7 DEF Pending
<1>9. Reached(e)' <=> Reached(e)
  BY <1>2, <1>7 DEF Reached, Doomed
<1>10. /\ Remaining(s)' = Remaining(s)
       /\ Starting(s)' <=> Starting(s)
       /\ Refused(s)' <=> Refused(s)
  BY <1>2 DEF Remaining, Starting, Refused
<1>11. OnTime(s, e) => OnTime(s, e)'
  <2>1. NosHeard(e)' = NosHeard(e)
    BY <1>6 DEF NosHeard
  <2>2. Kept(e)' <=> Kept(e)
    BY <1>2 DEF Kept
  <2> QED  BY <1>2, <1>5, <1>6, <1>7, <1>10, <2>1, <2>2 DEF OnTime
<1>12. CASE Starting(s)
  <2>1. Cost(s, e)' <= Cost(s, e)
    BY <1>2, <1>5, <1>8, <1>10, <1>12 DEF Cost, Bit
  <2> QED  BY <1>3, <1>4, <2>1
<1>13. CASE ~Starting(s) /\ (Refused(s) \/ Remaining(s) # {} \/ Pending(e))
  <2>1. Cost(s, e)' <= Cost(s, e)
    BY <1>2, <1>8, <1>9, <1>10, <1>11, <1>13 DEF Cost, Bit
  <2> QED  BY <1>3, <1>4, <2>1
<1>14. ASSUME ~Starting(s), ~Refused(s), Remaining(s) = {}, ~Pending(e)
       PROVE  Cost(s, e)' <= Cost(s, e) + (trouble' - trouble)
  <2>1. CASE ctx[e].rx.active
    <3>1. Cost(s, e) = 1 /\ Cost(s, e)' = 1
      BY <1>2, <1>8, <1>10, <1>14, <2>1 DEF Cost
    <3> QED  BY <1>3, <1>4, <3>1
  <2>2. CASE ~ctx[e].rx.active /\ ~Confirmed(ctx[s].tx.msg)
    <3>1. Cost(s, e) = -1 /\ Cost(s, e)' = -1
      BY <1>2, <1>8, <1>10, <1>14, <2>2 DEF Cost
    <3> QED  BY <1>3, <1>4, <3>1
  <2>3. ASSUME ~ctx[e].rx.active, Confirmed(ctx[s].tx.msg)
        PROVE  Cost(s, e)' <= Cost(s, e) + (trouble' - trouble)
    <3>1. Cost(s, e) = IF Acked(s, e) THEN -1 ELSE Bit(Takeable(s, e))
      BY <1>14, <2>3 DEF Cost
    <3>2. Cost(s, e)' = IF Acked(s, e)' THEN -1 ELSE Bit(Takeable(s, e))'
      BY <1>2, <1>8, <1>10, <1>14, <2>3 DEF Cost
    <3>3. CASE /\ trouble' = trouble
               /\ Asked(e)' \union Hears(s)' = Asked(e) \union Hears(s)
               /\ heard[s] = <<>> /\ Hears(s)' \subseteq Asked(e)
      <4>1. Acked(s, e)' <=> Acked(s, e)
        BY <1>2, <3>3 DEF Acked
      <4>2. Takeable(s, e)' => Takeable(s, e)
        <5>1. \A u \in Asked(e)' : u.kind # "rdata"
          BY <1>2, BitmapFirst
        <5>2. CASE ctx[s].state = "TX_WAIT_SACK_DATA"
          BY <1>2, <3>3, <5>2 DEF Takeable
        <5>3. ASSUME ctx[s].state # "TX_WAIT_SACK_DATA", Takeable(s, e)'
              PROVE  FALSE
          <6>1. PICK x \in Hears(s)' : Sacks(x)
            BY <1>2, <5>3 DEF Takeable
          <6>2. PICK y \in Asked(e)' \union Hears(s)' : y.kind = "rdata"
            BY <5>3 DEF Takeable
          <6>3. y \in Hears(s)' /\ x # y
            BY <5>1, <6>1, <6>2 DEF Sacks
          <6>4. \E z : Hears(s)' \subseteq {z}
            <7>1. heard'[s] = <<>> \/ \E z : heard'[s] = <<z>>
              BY <1>4, <3>3 DEF ReceiverAirs
            <7>2. CASE heard'[s] = <<>>
              BY <7>2, Singles DEF Hears
            <7>3. ASSUME NEW z, heard'[s] = <<z>> PROVE Hears(s)' \subseteq {z}
              BY <7>3, Singles DEF Hears
            <7> QED  BY <7>1, <7>2, <7>3
          <6> QED  BY <6>1, <6>3, <6>4
        <5> QED  BY <5>2, <5>3
      <4> QED  BY <1>4, <3>1, <3>2, <3>3, <4>1, <4>2 DEF Bit
    <3>4. CASE /\ trouble' = trouble + 1
               /\ Asked(e)' \union Hears(s)' \subseteq Asked(e) \union Hears(s)
      <4>1. CASE Acked(s, e)
        <5>1. \A u \in Asked(e)' \union Hears(s)' : u.kind # "rdata"
          BY <3>4, <4>1 DEF Acked, Acks
        <5>2. ~Takeable(s, e)'
          BY <5>1 DEF Takeable
        <5> QED  BY <1>4, <3>1, <3>2, <3>4, <4>1, <5>2 DEF Bit
      <4>2. CASE ~Acked(s, e)
        BY <1>4, <3>1, <3>2, <3>4, <4>2 DEF Bit
      <4> QED  BY <4>1, <4>2
    <3> QED  BY <1>1, <3>3, <3>4 DEF AirsAnswer
  <2> QED  BY <2>1, <2>2, <2>3
<1> QED  BY <1>12, <1>13, <1>14

LEMMA ReceiverMacPays ==
  ASSUME NEW s \in Radios, NEW e \in Radios, Pair(s, e), PairInv(s, e), Typed',
         Lined(s, e),
         MacAirs(e) \/ AirLoses(e) \/ MacRefuses(e) \/ MacForgets(e)
  PROVE  Pays(s, e)
<1>1. ReceiverAirs(s, e) /\ Typed /\ InLine(e)
  BY ReceiverMac, PairFacts DEF Lined
<1>2. /\ ctx' = ctx /\ batch' = batch /\ mac[e] # <<>> /\ mac'[s] = mac[s]
      /\ conf'[s] = conf[s] /\ heard'[e] = heard[e]
  BY <1>1 DEF ReceiverAirs
<1>3. trouble' = trouble \/ trouble' = trouble + 1
  BY <1>1, AnswersAired DEF AirsAnswer
<1>4. Cost(s, e)' <= Cost(s, e) + (trouble' - trouble)
  BY <1>1, AiredCost
<1>5. Early(s)' => Early(s)
  <2>1. ~Still
    BY <1>2 DEF Still
  <2>2. (Expiry(s)' <=> Expiry(s)) /\ (Noticed(s)' <=> Noticed(s))
    BY <1>2 DEF Expiry, Noticed
  <2> QED  BY <1>2, <2>1, <2>2 DEF Early
<1> SUFFICES ASSUME NEW m \in Messages, Fair(m)
             PROVE  Need(s, e, m)' <= Need(s, e, m) + (trouble' - trouble)
  BY DEF Pays
<1>6. trouble \in Nat /\ ctx[e].copies[m] \in Nat
  BY <1>1, PaidNeeds
<1>7. /\ Cost(s, e) \in -1..2 /\ Cost(s, e)' \in -1..2
      /\ Bit(Early(s)) \in 0..1 /\ Bit(Early(s))' \in 0..1
      /\ Bit(Early(s))' <= Bit(Early(s))
  BY <1>5, CostRange DEF CostFits, Bit
<1>8. CASE ctx[s].tx.active /\ ctx[s].tx.msg = m
  <2>1. /\ Need(s, e, m) = ctx[e].copies[m] + Bit(Early(s)) + Cost(s, e)
        /\ Need(s, e, m)' = ctx[e].copies[m] + Bit(Early(s))' + Cost(s, e)'
    BY <1>2, <1>8 DEF Need
  <2> QED  BY <1>3, <1>4, <1>6, <1>7, <2>1
<1>9. CASE ~(ctx[s].tx.active /\ ctx[s].tx.msg = m)
  <2>1. Bit(Expects(e, m))' = Bit(Expects(e, m))
    BY <1>2 DEF Bit, Expects, Hears
  <2>2. Need(s, e, m)' = Need(s, e, m)
    BY <1>2, <1>9, <2>1 DEF Need
  <2>3. Need(s, e, m) = ctx[e].copies[m] + Bit(Expects(e, m)) - 1
    BY <1>9 DEF Need
  <2>4. Bit(Expects(e, m)) \in 0..1
    BY BitIs
  <2> QED  BY <1>3, <1>6, <2>2, <2>3, <2>4
<1> QED  BY <1>8, <1>9

\* The sender's burst was all there was, of the message in transfer.
SenderOnAir(s, e) ==
  /\ SenderAirs(s, e) /\ Typed
  /\ ctx[s].tx \in Going /\ ctx[s].tx.msg \in Messages
  /\ Hears(e) = {} /\ Hears(s)' = {} /\ ~Pending(e) /\ ~Refused(s)
  /\ Asked(e)' = Asked(e) /\ (Clear(e) => Clear(e)')
  /\ (Reached(e) <=> ctx[e].rx.active) /\ ~Takeable(s, e)'
LEMMA SenderIsOnAir ==
  ASSUME NEW s \in Radios, NEW e \in Radios, Pair(s, e), PairInv(s, e),
         Lined(s, e),
         MacAirs(s) \/ AirLoses(s) \/ MacRefuses(s) \/ MacForgets(s)
  PROVE  SenderOnAir(s, e)
<1>1. SenderAirs(s, e)
  BY SenderMac
<1>2. /\ ctx' = ctx /\ batch[e] = {} /\ mac'[e] = mac[e]
      /\ ctx[s].state = "TX_BURST_PENDING" /\ ctx[s].tx.active
      /\ conf[s] = <<>> /\ conf[e] = <<>> /\ heard[e] = <<>>
      /\ conf'[e] = <<>> /\ heard'[s] = <<>>
  BY <1>1 DEF SenderAirs
<1>3. Hears(e) = {} /\ Hears(s)' = {} /\ ~Refused(s)
  BY <1>2, Singles DEF Hears, Refused
<1>4. Asked(e)' = Asked(e) /\ Named(e)' = Named(e)
  BY <1>2 DEF Asked, Named
<1>5. Clear(e) => Clear(e)'
  BY <1>2, <1>4 DEF Clear
<1>6. ~Pending(e) /\ (Reached(e) <=> ctx[e].rx.active)
  BY <1>2, <1>3 DEF Pending, Reached, Doomed, HeaderHeard
<1>7. ~Takeable(s, e)'
  BY <1>2, <1>3 DEF Takeable
<1>8. Typed /\ ctx[s].tx \in Going /\ ctx[s].tx.msg \in Messages
  BY <1>2, PairFacts
<1> QED  BY <1>1, <1>3, <1>4, <1>5, <1>6, <1>7, <1>8 DEF SenderOnAir

\* A preamble.
LEMMA PreambleAirs ==
  ASSUME NEW s \in Radios, NEW e \in Radios, SenderOnAir(s, e),
         ctx[s].tx.phase = "PREAMBLE"
  PROVE  ~Pending(e)' /\ Cost(s, e)' <= Cost(s, e) + (trouble' - trouble)
<1>1. /\ ctx' = ctx /\ ~Pending(e) /\ (Clear(e) => Clear(e)') /\ ~Refused(s)
      /\ trouble \in Nat
  BY TroubleNat DEF SenderOnAir, SenderAirs
<1>2. TxBurst(ctx[s].tx) = Preamble
  BY DEF TxBurst
<1>3. heard'[e] = <<>>
  BY <1>2 DEF SenderOnAir, SenderAirs
<1>4. ~Pending(e)'
  BY <1>3 DEF Pending
<1>5. Starting(s) /\ Starting(s)'
  BY <1>1 DEF Starting
<1>6. Cost(s, e) \in 0..1 /\ Cost(s, e)' \in 0..1
  BY <1>1, <1>4, <1>5 DEF Cost, Bit
<1>7. CASE conf'[s] = <<[id |-> ctx[s].tx.id, ok |-> TRUE]>> /\ trouble' = trouble
  <2>1. Range(conf'[s]) = {[id |-> ctx[s].tx.id, ok |-> TRUE]}
    BY <1>7, Singles
  <2>2. ~Refused(s)'
    BY <2>1 DEF Refused
  <2>3. Cost(s, e)' <= Cost(s, e)
    BY <1>1, <1>4, <1>5, <2>2 DEF Cost, Bit
  <2> QED  BY <1>1, <1>4, <1>6, <1>7, <2>3
<1>8. CASE trouble' = trouble + 1
  BY <1>1, <1>4, <1>6, <1>8
<1> QED  BY <1>7, <1>8 DEF SenderOnAir, SenderAirs

\* What goes wrong with another burst of its sequence may cost a copy; where
\* it does not, the receiver hears it.
LEMMA BurstAirs ==
  ASSUME NEW s \in Radios, NEW e \in Radios, SenderOnAir(s, e),
         ctx[s].tx.phase \in {"HEADER", "BLOCKS"}, Cost(s, e) >= 0,
         Cost(s, e) # 1 /\ heard'[e] = <<TxBurst(ctx[s].tx)>> /\ ~Refused(s)' =>
           Cost(s, e)' <= 0
  PROVE  Cost(s, e)' <= Cost(s, e) + (trouble' - trouble)
<1>1. /\ ctx' = ctx /\ mac'[s] = <<>> /\ trouble \in Nat
  BY TroubleNat, Zenon DEF SenderOnAir, SenderAirs
<1>2. TxBurst(ctx[s].tx) # Preamble
  BY DEF TxBurst, Preamble, Header, Block
<1>3. ~Starting(s)'
  BY <1>1 DEF Starting
<1>4. Cost(s, e) \in 0..2 /\ Cost(s, e)' \in -1..1
  BY <1>3, CostRange DEF CostFits
<1>5. CASE /\ conf'[s] = <<[id |-> ctx[s].tx.id, ok |-> TRUE]>>
           /\ trouble' = trouble /\ heard'[e] = <<TxBurst(ctx[s].tx)>>
  <2>1. Range(conf'[s]) = {[id |-> ctx[s].tx.id, ok |-> TRUE]}
    BY <1>5, Singles
  <2>2. ~Refused(s)'
    BY <2>1 DEF Refused
  <2> QED  BY <1>1, <1>4, <1>5, <2>2
<1>6. CASE trouble' = trouble + 1
  BY <1>1, <1>4, <1>6
<1> QED  BY <1>2, <1>5, <1>6 DEF SenderOnAir, SenderAirs

\* A header of all the blocks, while nothing else is to come, is on time.
LEMMA HeaderAirs ==
  ASSUME NEW s \in Radios, NEW e \in Radios, SenderOnAir(s, e),
         ctx[s].tx.phase = "HEADER"
  PROVE  Cost(s, e)' <= Cost(s, e) + (trouble' - trouble)
<1> DEFINE m == ctx[s].tx.msg
<1>1. /\ ctx' = ctx /\ ~Pending(e) /\ (Clear(e) => Clear(e)') /\ ~Refused(s)
      /\ mac[s] # <<>> /\ mac'[s] = <<>>
  BY Singles DEF SenderOnAir, SenderAirs
<1>2. Starting(s) /\ ~Starting(s)'
  BY <1>1 DEF Starting
<1>3. Cost(s, e) = Bit(~(ctx[s].tx.list = <<>> /\ Clear(e)))
  BY <1>1, <1>2 DEF Cost, Bit
<1>4. Cost(s, e) >= 0
  BY <1>3 DEF Bit
<1>5. ASSUME Cost(s, e) # 1, heard'[e] = <<TxBurst(ctx[s].tx)>>, ~Refused(s)'
      PROVE  Cost(s, e)' <= 0
  <2>1. ctx[s].tx.list = <<>> /\ Clear(e)'
    BY <1>1, <1>3, <1>5 DEF Bit
  <2>2. TxBurst(ctx[s].tx) = Header(m, TRUE)
    BY <2>1 DEF TxBurst
  <2>3. /\ Hears(e)' = {Header(m, TRUE)} /\ heard'[e] # <<>>
        /\ Header(m, TRUE).kind = "header" /\ Header(m, TRUE).full
    BY <1>5, <2>2, Singles DEF Hears, Header
  <2>4. HeaderHeard(e)'
    BY <2>3 DEF HeaderHeard
  <2>5. Remaining(s)' = 0..(NBlocks(m) - 1)
    BY <1>1, <2>1 DEF Remaining, SeqLen
  <2>6. OnTime(s, e)'
    BY <1>1, <2>1, <2>3, <2>4, <2>5 DEF OnTime
  <2>7. Pending(e)'
    BY <2>3, <2>4 DEF Pending
  <2> QED  BY <1>1, <1>2, <1>5, <2>1, <2>6, <2>7 DEF Cost, Bit
<1> QED  BY <1>4, <1>5, BurstAirs

\* A block is the first of those that remained, and has a number of its own.
LEMMA NextBlock ==
  ASSUME NEW m \in Messages, Fair(m), NEW k \in 0..(NBlocks(m) - 1)
  PROVE  LET n == NBlocks(m)
             no == Msg[m].blocks[k + 1].no
         IN  /\ NumbersOf(m, k..(n - 1)) = NumbersOf(m, (k + 1)..(n - 1)) \union {no}
             /\ no \notin NumbersOf(m, (k + 1)..(n - 1))
             /\ k \in k..(n - 1)
<1> DEFINE n == NBlocks(m)
<1>1. /\ n \in Nat
      /\ \A i, j \in 1..n : Msg[m].blocks[i].no = Msg[m].blocks[j].no => i = j
  BY FairDue, FairNumbers
<1> HIDE DEF n
<1>2. k \in 0..(n - 1)
  BY DEF n
<1>3. k..(n - 1) = ((k + 1)..(n - 1)) \union {k} /\ k \in k..(n - 1)
  BY <1>1, <1>2
<1>4. NumbersOf(m, k..(n - 1))
        = NumbersOf(m, (k + 1)..(n - 1)) \union {Msg[m].blocks[k + 1].no}
  BY <1>3 DEF NumbersOf
<1>5. Msg[m].blocks[k + 1].no \notin NumbersOf(m, (k + 1)..(n - 1))
  <2> SUFFICES ASSUME NEW i \in (k + 1)..(n - 1),
                      Msg[m].blocks[i + 1].no = Msg[m].blocks[k + 1].no
               PROVE  FALSE
    BY DEF NumbersOf
  <2>1. i + 1 \in 1..n /\ k + 1 \in 1..n /\ i + 1 # k + 1
    BY <1>1, <1>2
  <2> QED  BY <1>1, <2>1
<1> QED  BY <1>3, <1>4, <1>5 DEF n

\* A block that remained stays on time when it is heard.
LEMMA BlockAirs ==
  ASSUME NEW s \in Radios, NEW e \in Radios, SenderOnAir(s, e),
         ctx[s].tx.phase = "BLOCKS", Fair(ctx[s].tx.msg),
         ctx[s].tx.idx \in 0..(SeqLen(ctx[s].tx) - 1)
  PROVE  Cost(s, e)' <= Cost(s, e) + (trouble' - trouble)
<1> DEFINE m == ctx[s].tx.msg
           k == ctx[s].tx.idx
           n == NBlocks(m)
<1>1. /\ ctx' = ctx /\ batch' = batch /\ ~Pending(e) /\ (Clear(e) => Clear(e)')
      /\ ~Refused(s) /\ mac[s] # <<>> /\ mac'[s] = <<>> /\ m \in Messages
      /\ Hears(e) = {} /\ (Reached(e) <=> ctx[e].rx.active) /\ ~Takeable(s, e)'
  BY Singles DEF SenderOnAir, SenderAirs
<1>2. ~Starting(s) /\ ~Starting(s)'
  BY <1>1 DEF Starting
<1>3. /\ Remaining(s) = k..(SeqLen(ctx[s].tx) - 1)
      /\ Remaining(s)' = (k + 1)..(SeqLen(ctx[s].tx) - 1)
  BY <1>1 DEF Remaining, SeqLen
<1>4. Remaining(s) # {}
  <2>1. SeqLen(ctx[s].tx) \in Int \/ k \in Remaining(s)
    <3>1. /\ ctx[s].tx.list \in Seq(Nat) /\ n \in Nat
      BY <1>1, LeadsOf DEF SenderOnAir, Going
    <3> QED  BY <3>1 DEF SeqLen
  <2>2. k \in Remaining(s)
    BY <1>3, <2>1
  <2> QED  BY <2>2
<1>5. Cost(s, e) = Bit(ctx[e].rx.active /\ ~(OnTime(s, e) /\ ctx[s].tx.list = <<>>))
  BY <1>1, <1>2, <1>4 DEF Cost, Bit
<1>6. Cost(s, e) >= 0
  BY <1>5 DEF Bit
<1>7. ASSUME Cost(s, e) # 1, heard'[e] = <<TxBurst(ctx[s].tx)>>, ~Refused(s)'
      PROVE  Cost(s, e)' <= 0
  <2>1. PICK i : TxBurst(ctx[s].tx) = Block(m, i) /\ (ctx[s].tx.list = <<>> => i = k)
    BY DEF TxBurst
  <2>2. PICK b : b = Block(m, i)
    OBVIOUS
  <2>3. b.kind = "block" /\ b.lead = Msg[m].blocks[i + 1]
    BY <2>2 DEF Block
  <2>4. Hears(e)' = {b} /\ heard'[e] # <<>>
    BY <1>7, <2>1, <2>2, Singles DEF Hears
  <2>5. ~HeaderHeard(e)' /\ NosHeard(e)' = {b.lead.no}
    BY <2>3, <2>4 DEF HeaderHeard, NosHeard
  <2>6. CASE ~ctx[e].rx.active
    <3>1. ~Reached(e)' /\ ~Pending(e)'
      BY <1>1, <2>5, <2>6 DEF Reached, Pending
    <3> QED  BY <1>1, <1>2, <1>7, <2>6, <3>1 DEF Cost, Bit
  <2>7. CASE ctx[e].rx.active
    <3>1. OnTime(s, e) /\ ctx[s].tx.list = <<>>
      BY <1>5, <1>7, <2>7 DEF Bit
    <3>2. ~HeaderHeard(e) /\ NosHeard(e) = {}
      BY <1>1 DEF HeaderHeard, NosHeard
    <3>3. /\ Clear(e) /\ Kept(e)
          /\ Lacks(ctx[e].rx) = NumbersOf(m, Remaining(s))
      BY <3>1, <3>2 DEF OnTime
    <3>4. SeqLen(ctx[s].tx) = n /\ i = k
      BY <2>1, <3>1, Zenon DEF SeqLen
    <3>5. /\ NumbersOf(m, Remaining(s))
               = NumbersOf(m, Remaining(s)') \union {b.lead.no}
          /\ b.lead.no \notin NumbersOf(m, Remaining(s)')
      <4>1. k \in 0..(n - 1)
        BY <3>4
      <4> HIDE DEF k
      <4>2. LET no == Msg[m].blocks[k + 1].no
            IN  /\ NumbersOf(m, k..(n - 1)) = NumbersOf(m, (k + 1)..(n - 1)) \union {no}
                /\ no \notin NumbersOf(m, (k + 1)..(n - 1))
        BY <1>1, <4>1, NextBlock
      <4> QED  BY <1>3, <2>3, <3>4, <4>2, Zenon
    <3>6. Kept(e)'
      BY <1>1, <3>3 DEF Kept
    <3>7. Lacks(ctx'[e].rx) = NumbersOf(ctx'[s].tx.msg, Remaining(s)') \union NosHeard(e)'
      BY <1>1, <2>5, <3>3, <3>5
    <3>8. NumbersOf(ctx'[s].tx.msg, Remaining(s)') \intersect NosHeard(e)' = {}
      BY <1>1, <2>5, <3>5
    <3>9. \A u \in Hears(e)' : u.kind # "header"
      BY <2>3, <2>4
    <3>10. OnTime(s, e)'
      BY <1>1, <3>3, <3>6, <3>7, <3>8, <3>9 DEF OnTime, Lacks
    <3>11. Pending(e)'
      BY <1>1, <2>4, <2>7 DEF Pending
    <3> QED  BY <1>1, <1>2, <1>7, <3>1, <3>10, <3>11 DEF Cost, Bit
  <2> QED  BY <2>6, <2>7
<1> QED  BY <1>6, <1>7, BurstAirs

LEMMA SenderMacPays ==
  ASSUME NEW s \in Radios, NEW e \in Radios, Pair(s, e), PairInv(s, e), Typed',
         Lined(s, e),
         MacAirs(s) \/ AirLoses(s) \/ MacRefuses(s) \/ MacForgets(s)
  PROVE  Pays(s, e)
<1>1. SenderOnAir(s, e) /\ Typed /\ Current(s, e)
  BY SenderIsOnAir, PairFacts
<1>2. /\ ctx' = ctx /\ batch' = batch /\ mac[s] # <<>> /\ mac'[s] = <<>>
      /\ ctx[s].state = "TX_BURST_PENDING" /\ ctx[s].tx.active
      /\ ctx[s].tx.phase # "DONE" /\ batch[s] = {}
      /\ conf[s] = <<>> /\ heard[e] = <<>>
      /\ trouble' = trouble \/ trouble' = trouble + 1
      /\ heard'[e] = <<>> \/ heard'[e] = <<TxBurst(ctx[s].tx)>>
  BY <1>1, Singles DEF SenderOnAir, SenderAirs
<1>3. ctx[s].tx.phase \in {"PREAMBLE", "HEADER", "BLOCKS"}
  BY <1>1, <1>2 DEF SenderOnAir, Going, Phases
<1>4. Early(s)' => Early(s)
  <2>1. ~Still
    BY <1>2 DEF Still
  <2>2. (Expiry(s)' <=> Expiry(s)) /\ ~Noticed(s) /\ ~Noticed(s)'
    BY <1>2 DEF Expiry, Noticed
  <2>3. CASE ctx[s].tx.phase = "PREAMBLE"
    BY <1>2, <2>3 DEF Early
  <2>4. CASE ctx[s].tx.phase # "PREAMBLE"
    BY <1>2, <2>1, <2>2, <2>4 DEF Early
  <2> QED  BY <2>3, <2>4
<1>5. Fair(ctx[s].tx.msg) => Cost(s, e)' <= Cost(s, e) + (trouble' - trouble)
  <2>1. ctx[s].tx.phase = "BLOCKS" => ctx[s].tx.idx \in 0..(SeqLen(ctx[s].tx) - 1)
    BY <1>2, PairFacts DEF Sound, SoundParts, TxSound
  <2> QED  BY <1>1, <1>3, <2>1, PreambleAirs, HeaderAirs, BlockAirs
<1> SUFFICES ASSUME NEW m \in Messages, Fair(m)
             PROVE  Need(s, e, m)' <= Need(s, e, m) + (trouble' - trouble)
  BY DEF Pays
<1>6. trouble \in Nat /\ ctx[e].copies[m] \in Nat
  BY <1>1, PaidNeeds
<1>7. /\ Cost(s, e) \in -1..2 /\ Cost(s, e)' \in -1..2
      /\ Bit(Early(s)) \in 0..1 /\ Bit(Early(s))' \in 0..1
      /\ Bit(Early(s))' <= Bit(Early(s))
  BY <1>4, CostRange DEF CostFits, Bit
<1>8. CASE ctx[s].tx.msg = m
  <2>1. /\ Need(s, e, m) = ctx[e].copies[m] + Bit(Early(s)) + Cost(s, e)
        /\ Need(s, e, m)' = ctx[e].copies[m] + Bit(Early(s))' + Cost(s, e)'
    BY <1>2, <1>8 DEF Need
  <2>2. Cost(s, e)' <= Cost(s, e) + (trouble' - trouble)
    BY <1>5, <1>8
  <2>3. trouble' \in Nat
    BY <1>2, <1>6
  <2> QED  BY <1>6, <1>7, <2>1, <2>2, <2>3
<1>9. CASE ctx[s].tx.msg # m
  <2>1. ~Expects(e, m)'
    <3>1. ctx[e].rx.active => ctx[e].rx.msg = ctx[s].tx.msg
      <4>1. ctx[e].rx.active => ctx[e].rx.msg \in Abroad(s, e)
        BY DEF Abroad
      <4> QED  BY <1>1, <1>2, <4>1 DEF Current
    <3>2. \A u \in Hears(e)' : u.kind = "header" => u.msg = ctx[s].tx.msg
      <4>1. TxBurst(ctx[s].tx).kind = "header" => TxBurst(ctx[s].tx).msg = ctx[s].tx.msg
        <5>1. CASE ctx[s].tx.phase = "PREAMBLE"
          BY <5>1 DEF TxBurst, Preamble
        <5>2. CASE ctx[s].tx.phase = "HEADER"
          BY <5>2 DEF TxBurst, Header
        <5>3. CASE ctx[s].tx.phase = "BLOCKS"
          <6>1. PICK i : TxBurst(ctx[s].tx) = Block(ctx[s].tx.msg, i)
            BY <5>3 DEF TxBurst
          <6> QED  BY <6>1 DEF Block
        <5> QED  BY <1>3, <5>1, <5>2, <5>3
      <4>2. \A u \in Hears(e)' : u = TxBurst(ctx[s].tx)
        <5>1. PICK b : b = TxBurst(ctx[s].tx)
          OBVIOUS
        <5>2. Hears(e)' = {} \/ Hears(e)' = {b}
          BY <1>2, <5>1, Singles DEF Hears
        <5> QED  BY <5>1, <5>2
      <4> QED  BY <4>1, <4>2
    <3> QED  BY <1>2, <1>9, <3>1, <3>2 DEF Expects
  <2>2. Bit(Expects(e, m))' = 0 /\ Bit(Expects(e, m)) = 0
    BY <1>2, <2>1 DEF Bit, Expects
  <2>3. /\ Need(s, e, m) = ctx[e].copies[m] - 1
        /\ Need(s, e, m)' = ctx[e].copies[m] - 1
    BY <1>2, <1>6, <1>9, <2>2 DEF Need
  <2> QED  BY <1>2, <1>6, <2>3
<1> QED  BY <1>8, <1>9

----------------------------------------------------------------------------
(* Every copy but the first is paid for by something that went wrong.      *)

LEMMA InitPaid ==
  ASSUME NEW s \in Radios, NEW e \in Radios, Init
  PROVE  Paid(s, e)
<1>1. /\ ctx[s] = InitialContext /\ ctx[e] = InitialContext
      /\ heard[e] = <<>> /\ trouble = 0
  BY DEF Init
<1>2. ~ctx[s].tx.active /\ \A m \in Messages : ctx[e].copies[m] = 0
  BY <1>1 DEF InitialContext, NoTx
<1>3. \A m \in Messages : Bit(Expects(e, m)) = 0
  BY <1>1 DEF Bit, Expects
<1> QED  BY <1>1, <1>2, <1>3 DEF Paid

LEMMA WorkerPays ==
  ASSUME NEW s \in Radios, NEW e \in Radios, Pair(s, e), PairInv(s, e), Typed',
         Lined(s, e), NEW r \in Radios, Worker(r)
  PROVE  Pays(s, e)
<1>1. r = s \/ r = e
  BY PairFacts
<1>2. CASE r = s
  BY <1>2, SenderConfPays, SenderRxPays, SenderTimerPays DEF Worker
<1>3. CASE r = e
  BY <1>3, ReceiverConfPays, ReceiverRxPays, ReceiverTimerPays DEF Worker
<1> QED  BY <1>1, <1>2, <1>3

LEMMA NextPaid ==
  ASSUME NEW s \in Radios, NEW e \in Radios, Spaced, Pair(s, e), PairInv(s, e),
         Typed', Lined(s, e), Paid(s, e), [Next]_vars
  PROVE  Paid(s, e)'
<1>1. Typed /\ Radios = {s, e}
  BY PairFacts
<1>2. Pays(s, e) => Paid(s, e)'
  BY <1>1, PaysPaid
<1>3. CASE UNCHANGED vars
  <2>1. /\ ctx' = ctx /\ batch' = batch /\ mac' = mac /\ conf' = conf
        /\ heard' = heard /\ trouble' = trouble
    BY <1>3 DEF vars
  <2>2. /\ Asked(e)' = Asked(e) /\ Hears(e)' = Hears(e) /\ Hears(s)' = Hears(s)
        /\ Named(e)' = Named(e)
    BY <2>1 DEF Asked, Hears, Named
  <2>3. Early(s)' <=> Early(s)
    BY <2>1 DEF Early, Still, Expiry, Noticed
  <2>4. Clear(e)' <=> Clear(e)
    BY <2>1, <2>2 DEF Clear
  <2>5. (HeaderHeard(e)' <=> HeaderHeard(e)) /\ NosHeard(e)' = NosHeard(e)
    BY <2>2 DEF HeaderHeard, NosHeard
  <2>6. (Pending(e)' <=> Pending(e)) /\ (Reached(e)' <=> Reached(e))
    BY <2>1, <2>5 DEF Pending, Reached, Doomed
  <2>7. /\ Remaining(s)' = Remaining(s)
        /\ Starting(s)' <=> Starting(s)
        /\ Refused(s)' <=> Refused(s)
    BY <2>1 DEF Remaining, Starting, Refused
  <2>8. OnTime(s, e)' <=> OnTime(s, e)
    BY <2>1, <2>2, <2>4, <2>5, <2>7 DEF OnTime, Kept
  <2>9. (Acked(s, e)' <=> Acked(s, e)) /\ (Takeable(s, e)' <=> Takeable(s, e))
    BY <2>1, <2>2 DEF Acked, Takeable
  <2>10. Cost(s, e)' = Cost(s, e)
    BY <2>1, <2>4, <2>6, <2>7, <2>8, <2>9 DEF Cost, Bit
  <2>11. \A m \in Messages : Expects(e, m)' <=> Expects(e, m)
    BY <2>1, <2>2 DEF Expects
  <2>12. Pays(s, e)
    <3>1. \A m \in Messages : Need(s, e, m)' = Need(s, e, m)
      BY <2>1, <2>3, <2>10, <2>11 DEF Need, Bit
    <3>2. \A m \in Messages : Need(s, e, m) \in Int
      BY <1>1, NeedInt
    <3>3. trouble \in Nat
      BY <1>1, TroubleNat
    <3> QED  BY <2>1, <3>1, <3>2, <3>3 DEF Pays
  <2> QED  BY <1>2, <2>12
<1>4. ASSUME NEW r \in Radios, Worker(r) PROVE Paid(s, e)'
  BY <1>2, <1>4, WorkerPays
<1>5. ASSUME NEW r \in Radios, NEW m \in Messages, Send(r, m) PROVE Paid(s, e)'
  BY <1>5, SendSends, SendPaid
<1>6. ASSUME NEW r \in Radios, NEW t \in Timers, Expire(r, t) PROVE Paid(s, e)'
  BY <1>2, <1>6, ExpirePays
<1>7. ASSUME NEW r \in Radios,
             MacAirs(r) \/ AirLoses(r) \/ MacRefuses(r) \/ MacForgets(r)
      PROVE  Paid(s, e)'
  BY <1>1, <1>2, <1>7, SenderMacPays, ReceiverMacPays
<1> QED  BY <1>3, <1>4, <1>5, <1>6, <1>7 DEF Next

\* A message that is not cut short and misses a block is never delivered;
\* the copies of one that is whole are paid for.
LEMMA PaidCovered ==
  ASSUME NEW s \in Radios, NEW e \in Radios, Pair(s, e), Typed, Lined(s, e),
         Paid(s, e)
  PROVE  \A m \in Messages : CutShort(m) \/ Copies(m) <= 1 + trouble
<1> SUFFICES ASSUME NEW m \in Messages, ~CutShort(m)
             PROVE  Copies(m) <= 1 + trouble
  OBVIOUS
<1>1. Copies(m) = ctx[e].copies[m]
  BY DEF Copies, Pair
<1>2. trouble \in Nat /\ ctx[e].copies[m] \in Nat
  <2>1. ctx[e].copies \in [Messages -> Nat]
    BY ContextFields DEF Typed
  <2> QED  BY <2>1, TroubleNat
<1>3. CASE ~Whole(m)
  BY <1>1, <1>2, <1>3 DEF Lined, Heeds
<1>4. CASE Whole(m)
  <2>1. Fair(m)
    BY <1>4 DEF Fair
  <2>2. /\ Cost(s, e) \in -1..2 /\ Bit(Early(s)) \in 0..1
        /\ Bit(Expects(e, m)) \in 0..1
    BY CostRange, BitIs DEF CostFits
  <2>3. \/ ctx[e].copies[m] + Bit(Early(s)) + Cost(s, e) <= trouble
        \/ ctx[e].copies[m] + Bit(Expects(e, m)) <= trouble + 1
    BY <2>1 DEF Paid
  <2> QED  BY <1>1, <1>2, <2>2, <2>3
<1> QED  BY <1>3, <1>4

\* From one radio that sends when all is quiet to one that listens, a message
\* reaches the application once, and once more at most for every burst that
\* is lost, refused or forgotten and every timer that expires too early: no
\* acknowledgement is missed, no SACK answered and nothing sent again without
\* a cause.  A message whose own block count or blocks say that it ends before
\* it does may come for each of its transmissions, but for no more.
THEOREM CopiesAlwaysCovered == Paired => (Spec => []CopiesCovered)
<1> SUFFICES ASSUME Paired PROVE Spec => []CopiesCovered
  OBVIOUS
<1>1. PICK s \in Radios, e \in Radios : Pair(s, e)
  BY DEF Paired
<1> DEFINE Inv == PairInv(s, e) /\ Lined(s, e) /\ Paid(s, e)
<1>2. Init => Inv
  BY <1>1, InitPaired, InitLined, InitPaid
<1>3. Inv /\ [Next]_vars => Inv'
  <2> SUFFICES ASSUME Inv, [Next]_vars PROVE Inv'
    OBVIOUS
  <2>1. Spaced
    BY DEF Paired
  <2>2. PairInv(s, e)'
    BY <1>1, <2>1, NextPaired
  <2>3. Lined(s, e)'
    BY <1>1, <2>1, NextLined
  <2>4. Typed'
    BY <2>2 DEF PairInv
  <2>5. Paid(s, e)'
    BY <1>1, <2>1, <2>4, NextPaid
  <2> QED  BY <2>2, <2>3, <2>5
<1>4. Inv /\ WithinRetries => CopiesCovered
  BY <1>1, PaidCovered DEF CopiesCovered, PairInv
<1> HIDE DEF Inv
<1> QED  BY <1>2, <1>3, <1>4, CopiesWithinRetries, PTL DEF Spec

----------------------------------------------------------------------------
(* The bitmaps of a SACK never show, one after the other, every block.     *)

\* s has heard a SACK, and is to take what comes next for its bitmaps.
Awaiting(s) ==
  /\ ctx[s].tx.active
  /\ \/ ctx[s].state = "TX_WAIT_SACK_DATA"
     \/ ctx[s].state = "TX_WAIT_ACK" /\ \E u \in Hears(s) : Sacks(u)

\* The bitmaps it has taken, those it hears too, and the one on its way too:
\* the k-th of them is z.
HasMap(bursts) == \E u \in bursts : u.kind = "rdata"
Got(s) == IF ctx[s].state = "TX_WAIT_SACK_DATA" THEN Len(ctx[s].tx.maps) ELSE 0
GotHeard(s) == Got(s) + Bit(HasMap(Hears(s)))
Come(s, e) == GotHeard(s) + Bit(HasMap(Asked(e)))
Place(s, e, k, z) ==
  \/ k \in 1..Got(s) /\ z = ctx[s].tx.maps[k]
  \/ k = Got(s) + 1 /\ \E u \in Hears(s) : u.kind = "rdata" /\ z = u.zeros
  \/ k = GotHeard(s) + 1 /\ \E u \in Asked(e) : u.kind = "rdata" /\ z = u.zeros

\* The next of them is due when e is told about what it sent last.
Underway(e) ==
  ctx[e].rx.active /\ ctx[e].rx.sack # NoSack /\ ctx[e].rx.sack.id \in Named(e)

\* They are no more than were announced, some of the SACK's may have been lost,
\* and when they are all of them they leave a block to send again.
Unshown(s, e) ==
  \E g \in 0..(Announced(ctx[s].tx.msg) - 1) :
    \/ g \div Half >= Come(s, e)
    \/ \E z : Place(s, e, g \div Half + 1, z) /\ g % Half \in z
Shown(s, e) ==
  Awaiting(s) =>
    /\ ctx[s].state = "TX_WAIT_SACK_DATA" =>
         ctx[s].tx.follow = Bitmaps(ctx[s].tx.msg)
    /\ Come(s, e) <= Bitmaps(ctx[s].tx.msg)
    /\ Come(s, e) = Bitmaps(ctx[s].tx.msg) => Unshown(s, e)
    /\ Underway(e) =>
         /\ Come(s, e) <= ctx[e].rx.sack.phase
         /\ Come(s, e) = 1 /\ ctx[e].rx.sack.phase = 1 =>
              Place(s, e, 1, Reports(ctx[e].rx, 0))

LEMMA ComeFacts ==
  ASSUME NEW s \in Radios, NEW e \in Radios, Pair(s, e), PairInv(s, e)
  PROVE  /\ Got(s) \in Nat /\ GotHeard(s) \in Nat /\ Come(s, e) \in Nat
         /\ ctx[s].state = "TX_WAIT_SACK_DATA" =>
              /\ ctx[s].tx.active /\ ctx[s].tx.maps \in Seq(SUBSET Nat)
         /\ ctx[e].rx.active =>
              ctx[e].rx.sack.phase \in Nat /\ ctx[e].rx \in Taking
<1>1. Sound(ctx[s]) /\ (ctx[s].tx.active => ctx[s].tx \in Going)
  BY PairFacts
<1>2. ctx[e].rx.active => ctx[e].rx \in Taking
  BY PairFacts, ContextFields
<1>3. ctx[s].state = "TX_WAIT_SACK_DATA" => ctx[s].tx.active
  BY <1>1 DEF Sound
<1>4. ctx[s].tx.active => ctx[s].tx.maps \in Seq(SUBSET Nat)
  BY <1>1 DEF Going
<1>5. Got(s) \in Nat
  BY <1>3, <1>4 DEF Got
<1>6. ctx[e].rx.active => ctx[e].rx.sack.phase \in 0..2
  BY <1>2 DEF Taking
<1> QED  BY <1>2, <1>3, <1>4, <1>5, <1>6 DEF GotHeard, Come, Bit

LEMMA BitmapsOneOrTwo == \A m : Bitmaps(m) \in 1..2
  BY DEF Bitmaps

\* Nothing changes for the bitmaps, whoever they are with.
LEMMA ShownKept ==
  ASSUME NEW s, NEW e, Shown(s, e), Awaiting(s),
         ctx'[s].tx.msg = ctx[s].tx.msg,
         ctx'[s].state = "TX_WAIT_SACK_DATA" =>
           ctx'[s].tx.follow = Bitmaps(ctx[s].tx.msg),
         Come(s, e)' = Come(s, e),
         \A k, z : Place(s, e, k, z)' <=> Place(s, e, k, z),
         Underway(e)' => Underway(e) /\ ctx'[e].rx = ctx[e].rx
  PROVE  Shown(s, e)'
<1>1. Unshown(s, e) => Unshown(s, e)'
  BY DEF Unshown
<1> QED  BY <1>1 DEF Shown

\* The last of them is lost: they are not all that were announced.
LEMMA ShownFewer ==
  ASSUME NEW s, NEW e, Shown(s, e), Awaiting(s),
         ctx'[s].tx = ctx[s].tx, ctx'[s].state = ctx[s].state,
         Come(s, e) \in Nat, Come(s, e)' = Come(s, e) - 1,
         Underway(e)' => Underway(e) /\ ctx'[e].rx = ctx[e].rx,
         Underway(e) => ctx[e].rx.sack.phase \in Nat
  PROVE  Shown(s, e)'
<1>1. Bitmaps(ctx[s].tx.msg) \in 1..2
  BY BitmapsOneOrTwo
<1>2. Come(s, e)' < Bitmaps(ctx[s].tx.msg) /\ Come(s, e)' <= Bitmaps(ctx[s].tx.msg)
  BY <1>1 DEF Shown
<1>3. Underway(e)' => /\ Come(s, e)' <= ctx[e].rx.sack.phase
                      /\ ~(Come(s, e)' = 1 /\ ctx[e].rx.sack.phase = 1)
  BY DEF Shown
<1>4. Come(s, e)' # Bitmaps(ctx[s].tx.msg)
  BY <1>1, <1>2
<1> QED  BY <1>2, <1>3, <1>4 DEF Shown

LEMMA NotAwaiting ==
  ASSUME NEW s, NEW e, ~Awaiting(s)'
  PROVE  Shown(s, e)'
BY DEF Shown

----------------------------------------------------------------------------
(* The sender's steps.                                                     *)

\* All is still with e, and the bitmaps too.
LEMMA SenderKeepsShown ==
  ASSUME NEW s, NEW e, Shown(s, e), ctx'[e].rx = ctx[e].rx, mac'[e] = mac[e],
         conf'[e] = conf[e], heard'[s] = heard[s], ctx'[s].tx = ctx[s].tx,
         ctx'[s].state = ctx[s].state
  PROVE  Shown(s, e)'
<1>1. Hears(s)' = Hears(s) /\ Asked(e)' = Asked(e) /\ Named(e)' = Named(e)
  BY DEF Hears, Asked, Named
<1>2. Underway(e)' <=> Underway(e)
  BY <1>1 DEF Underway
<1>3. Awaiting(s)' <=> Awaiting(s)
  BY <1>1 DEF Awaiting
<1>4. Got(s)' = Got(s) /\ GotHeard(s)' = GotHeard(s) /\ Come(s, e)' = Come(s, e)
  BY <1>1 DEF Got, GotHeard, Come, HasMap, Bit
<1>5. \A k, z : Place(s, e, k, z)' <=> Place(s, e, k, z)
  BY <1>1, <1>4 DEF Place
<1>6. CASE Awaiting(s)
  <2>1. ctx[s].state = "TX_WAIT_SACK_DATA" =>
          ctx[s].tx.follow = Bitmaps(ctx[s].tx.msg)
    BY <1>6 DEF Shown
  <2> QED  BY <1>2, <1>4, <1>5, <1>6, <2>1, ShownKept
<1> QED  BY <1>3, <1>6, NotAwaiting

LEMMA SenderConfShown ==
  ASSUME NEW s \in Radios, NEW e \in Radios, Pair(s, e), PairInv(s, e),
         Lined(s, e), ConfReady(s)
  PROVE  Shown(s, e)'
<1>1. PICK cf, id, d : SenderConfirmed(s, e, cf, id, d)
  BY SenderConf
<1>2. /\ ctx'[s].tx = d.tx /\ ctx'[s].state = d.state
      /\ ctx[s].state = "TX_BURST_PENDING" /\ Follows(ctx[s], d, cf, id)
      /\ heard'[s] = <<>>
  BY <1>1 DEF SenderConfirmed, SenderRan, Became
<1>3. Hears(s)' = {}
  BY <1>2, Singles DEF Hears
<1>4. d.state # "TX_WAIT_SACK_DATA"
  BY <1>2 DEF Follows, Ends, Restarts, Moves, Completes
<1>5. ~Awaiting(s)'
  BY <1>2, <1>3, <1>4 DEF Awaiting
<1> QED  BY <1>5, NotAwaiting

LEMMA SenderTimerShown ==
  ASSUME NEW s \in Radios, NEW e \in Radios, Pair(s, e), PairInv(s, e),
         Lined(s, e), Shown(s, e), NEW t \in Timers, TimerReady(s, t)
  PROVE  Shown(s, e)'
<1>1. PICK id, d : SenderTimed(s, e, t, id, d)
  BY SenderTimer
<1>2. /\ ctx'[s].tx = d.tx /\ ctx'[s].state = d.state
      /\ ctx'[e] = ctx[e] /\ mac'[e] = mac[e] /\ conf'[e] = conf[e]
      /\ heard'[s] = heard[s]
  BY <1>1 DEF SenderTimed, SenderRan, Became, SenderOnly
<1>3. CASE ctx'[s].tx = ctx[s].tx /\ ctx'[s].state = ctx[s].state
  BY <1>2, <1>3, SenderKeepsShown
<1>4. CASE Ends(ctx[s], d) \/ Restarts(ctx[s], d, ctx[s].tx.list, id)
  <2>1. ~Awaiting(s)'
    BY <1>2, <1>4 DEF Ends, Restarts, Awaiting, NoTx
  <2> QED  BY <2>1, NotAwaiting
<1> QED  BY <1>1, <1>3, <1>4 DEF SenderTimed

\* A SACK is taken, or a bitmap, which stays the one that it was.
LEMMA SenderRxShown ==
  ASSUME NEW s \in Radios, NEW e \in Radios, Pair(s, e), PairInv(s, e),
         Lined(s, e), Shown(s, e), RxReady(s)
  PROVE  Shown(s, e)'
<1> DEFINE c == ctx[s]
<1>1. PICK u, id, d : SenderHeard(s, e, u, id, d)
  BY SenderRx
<1>2. /\ ctx'[s].tx = d.tx /\ ctx'[s].state = d.state
      /\ ctx'[e] = ctx[e] /\ mac'[e] = mac[e] /\ conf'[e] = conf[e]
      /\ heard[s] = <<u>> /\ heard'[s] = <<>> /\ Heeded(c, d, u, s, id)
  BY <1>1, SenderRxLeaves DEF SenderOnly
<1>3. /\ Hears(s) = {u} /\ Hears(s)' = {} /\ Asked(e)' = Asked(e)
      /\ Named(e)' = Named(e)
  BY <1>2, Singles DEF Hears, Asked, Named
<1>4. Underway(e)' => Underway(e) /\ ctx'[e].rx = ctx[e].rx
  BY <1>2, <1>3 DEF Underway
<1>5. /\ Got(s) \in Nat
      /\ c.state = "TX_WAIT_SACK_DATA" =>
           c.tx.active /\ c.tx.maps \in Seq(SUBSET Nat)
  BY ComeFacts
<1>6. /\ HasMap(Hears(s)) <=> u.kind = "rdata"
      /\ ~HasMap(Hears(s))' /\ (HasMap(Asked(e))' <=> HasMap(Asked(e)))
  BY <1>3 DEF HasMap
<1>7. ASSUME d.tx.msg = c.tx.msg, Awaiting(s), u.kind # "rdata", Got(s)' = Got(s),
             d.state = "TX_WAIT_SACK_DATA" => d.tx.follow = Bitmaps(c.tx.msg),
             \A k \in 1..Got(s) : d.tx.maps[k] = c.tx.maps[k]
      PROVE  Shown(s, e)'
  <2>1. GotHeard(s)' = GotHeard(s) /\ Come(s, e)' = Come(s, e)
    BY <1>6, <1>7 DEF GotHeard, Come, Bit
  <2>2. \A k, z : Place(s, e, k, z)' <=> Place(s, e, k, z)
    BY <1>2, <1>3, <1>7, <2>1 DEF Place
  <2> QED  BY <1>2, <1>4, <1>7, <2>1, <2>2, ShownKept
<1>8. CASE d = c /\ (u.kind = "rdata" => c.state # "TX_WAIT_SACK_DATA")
  <2>1. CASE c.state = "TX_WAIT_SACK_DATA"
    <3>1. Awaiting(s) /\ Got(s)' = Got(s)
      BY <1>2, <1>5, <1>8, <2>1 DEF Awaiting, Got
    <3>2. c.tx.follow = Bitmaps(c.tx.msg)
      BY <2>1, <3>1 DEF Shown
    <3> QED  BY <1>7, <1>8, <2>1, <3>1, <3>2
  <2>2. CASE c.state # "TX_WAIT_SACK_DATA"
    <3>1. ~Awaiting(s)'
      BY <1>2, <1>3, <1>8, <2>2 DEF Awaiting
    <3> QED  BY <3>1, NotAwaiting
  <2> QED  BY <2>1, <2>2
<1>9. CASE Ends(c, d) \/ \E list : Restarts(c, d, list, id)
  <2>1. ~Awaiting(s)'
    BY <1>2, <1>9 DEF Ends, Restarts, Awaiting, NoTx
  <2> QED  BY <2>1, NotAwaiting
<1>10. CASE u.kind = "response" /\ Heedful(c, u, s) /\ u.class = "SACK"
            /\ Announces(c, d, u.follow)
  <2>1. Awaiting(s) /\ Got(s) = 0
    BY <1>3, <1>10 DEF Awaiting, Sacks, Heedful, Got
  <2>2. d.tx.msg = c.tx.msg /\ d.tx.maps = <<>> /\ d.tx.follow = u.follow
    BY <1>10 DEF Announces
  <2>3. Got(s)' = 0
    BY <1>2, <2>2, Singles DEF Got
  <2>4. u.follow = Bitmaps(c.tx.msg)
    BY <1>3, <1>10, <2>1 DEF PairInv, Answers, Apt, Awaiting
  <2> QED  BY <1>7, <1>10, <2>1, <2>2, <2>3, <2>4
<1>11. CASE u.kind = "rdata" /\ c.state = "TX_WAIT_SACK_DATA"
            /\ Collects(c, d, u.zeros)
  <2>1. Awaiting(s) /\ Got(s) = Len(c.tx.maps)
    BY <1>5, <1>11 DEF Awaiting, Got
  <2>2. /\ d.tx.msg = c.tx.msg /\ d.tx.maps = Append(c.tx.maps, u.zeros)
        /\ d.tx.follow = c.tx.follow /\ d.state = c.state
    BY <1>11 DEF Collects
  <2>3. /\ Len(d.tx.maps) = Len(c.tx.maps) + 1
        /\ \A i \in 1..Len(c.tx.maps) : d.tx.maps[i] = c.tx.maps[i]
        /\ d.tx.maps[Len(c.tx.maps) + 1] = u.zeros
    BY <1>5, <1>11, <2>2, AppendedAt
  <2>4. Got(s)' = Got(s) + 1
    BY <1>2, <1>11, <2>1, <2>2, <2>3 DEF Got
  <2>5. GotHeard(s) = Got(s) + 1 /\ GotHeard(s)' = GotHeard(s)
    BY <1>5, <1>6, <1>11, <2>4 DEF GotHeard, Bit
  <2>6. Come(s, e)' = Come(s, e)
    BY <1>6, <2>5 DEF Come, Bit
  <2>7. ASSUME NEW k, NEW z PROVE Place(s, e, k, z)' <=> Place(s, e, k, z)
    <3>1. /\ k \in 1..(Got(s) + 1) <=> k \in 1..Got(s) \/ k = Got(s) + 1
          /\ Got(s) + 1 \notin 1..Got(s)
      BY <1>5
    <3>2. Place(s, e, k, z) <=>
            \/ k \in 1..Got(s) /\ z = c.tx.maps[k]
            \/ k = Got(s) + 1 /\ z = u.zeros
            \/ k = Got(s) + 2 /\ \E v \in Asked(e) : v.kind = "rdata" /\ z = v.zeros
      BY <1>3, <1>5, <1>11, <2>5 DEF Place
    <3>3. Place(s, e, k, z)' <=>
            \/ k \in 1..(Got(s) + 1) /\ z = d.tx.maps[k]
            \/ k = Got(s) + 2 /\ \E v \in Asked(e) : v.kind = "rdata" /\ z = v.zeros
      BY <1>2, <1>3, <1>5, <2>4, <2>5 DEF Place
    <3> QED  BY <2>1, <2>3, <3>1, <3>2, <3>3
  <2>8. c.tx.follow = Bitmaps(c.tx.msg)
    BY <1>11, <2>1 DEF Shown
  <2> QED  BY <1>2, <1>4, <2>1, <2>2, <2>6, <2>7, <2>8, ShownKept
<1> QED  BY <1>2, <1>8, <1>9, <1>10, <1>11 DEF Heeded
----------------------------------------------------------------------------
(* The receiver's steps.                                                   *)

\* It leaves the SACK it is sending as it is, or sends none.
LEMMA ReceiverKeepsShown ==
  ASSUME NEW s \in Radios, NEW e \in Radios, Shown(s, e), ReceiverOnly(s, e),
         mac'[e] = mac[e], ctx'[e].rx = ctx[e].rx \/ ~Underway(e)'
  PROVE  Shown(s, e)'
<1>1. ctx'[s] = ctx[s] /\ heard'[s] = heard[s] /\ conf'[e] \in {<<>>, conf[e]}
  BY DEF ReceiverOnly
<1>2. Hears(s)' = Hears(s) /\ Asked(e)' = Asked(e) /\ Named(e)' \subseteq Named(e)
  BY <1>1, Singles DEF Hears, Asked, Named
<1>3. Underway(e)' => Underway(e) /\ ctx'[e].rx = ctx[e].rx
  BY <1>2 DEF Underway
<1>4. Awaiting(s)' <=> Awaiting(s)
  BY <1>1, <1>2 DEF Awaiting
<1>5. Got(s)' = Got(s) /\ GotHeard(s)' = GotHeard(s) /\ Come(s, e)' = Come(s, e)
  BY <1>1, <1>2 DEF Got, GotHeard, Come, HasMap, Bit
<1>6. \A k, z : Place(s, e, k, z)' <=> Place(s, e, k, z)
  BY <1>1, <1>2, <1>5 DEF Place
<1>7. CASE Awaiting(s)
  <2>1. ctx[s].state = "TX_WAIT_SACK_DATA" =>
          ctx[s].tx.follow = Bitmaps(ctx[s].tx.msg)
    BY <1>7 DEF Shown
  <2> QED  BY <1>1, <1>3, <1>5, <1>6, <1>7, <2>1, ShownKept
<1> QED  BY <1>4, <1>7, NotAwaiting

\* Where all that is announced has come, one of the blocks that e misses is a
\* zero of the bitmap of its half, or in no half.
LEMMA GapUnshown ==
  ASSUME NEW rx \in Taking, Gap(rx)
  PROVE  LET n == Bitmaps(rx.msg)
         IN  \E g \in 0..(Announced(rx.msg) - 1) :
               \/ g \div Half >= n
               \/ g \div Half = n - 1 /\ g % Half \in Reports(rx, n - 1)
               \/ n = 2 /\ g \div Half = 0 /\ g % Half \in Reports(rx, 0)
<1> DEFINE n == Bitmaps(rx.msg)
<1>1. PICK g \in 0..(Announced(rx.msg) - 1) : g \notin rx.seen
  BY DEF Gap
<1>2. g \in Nat /\ Half \in Nat \ {0} /\ n \in 1..2
  BY <1>1, DataBounds, BitmapsOneOrTwo
<1> DEFINE h == g \div Half
<1>3. h \in Nat
  BY <1>2
<1>4. g % Half \in Reports(rx, h)
  BY <1>1 DEF Reports, InHalf
<1> HIDE DEF h, n
<1>5. h >= n \/ h = n - 1 \/ (h = 0 /\ n = 2)
  BY <1>2, <1>3
<1> QED  BY <1>1, <1>4, <1>5 DEF h, n

\* It sends the next bitmap.  Either those before it have all come, or this
\* one does not complete what was announced.
LEMMA MapsShown ==
  ASSUME NEW s \in Radios, NEW e \in Radios, Pair(s, e), PairInv(s, e),
         Lined(s, e), Shown(s, e), NEW cf, NEW id, NEW d,
         ReceiverConfirmed(s, e, cf, id, d), OwnSack(ctx[e], cf),
         Maps(ctx[e], d, id), d.out # Silent
  PROVE  Shown(s, e)'
<1> DEFINE c == ctx[s]
           rx == ctx[e].rx
           m == c.tx.msg
<1>0. PICK n, z, w : /\ n = Come(s, e) /\ z = Reports(rx, rx.sack.phase)
                     /\ w = Reports(rx, 0)
  OBVIOUS
<1>1. /\ conf[e] = <<cf>> /\ ReceiverRan(s, e, d, id)
      /\ rx.active /\ rx.sack # NoSack /\ cf.id = rx.sack.id
  BY DEF ReceiverConfirmed, OwnSack
<1>2. mac[e] = <<>> /\ Underway(e)
  <2>1. conf[e] # <<>> /\ Head(conf[e]) = cf /\ cf \in Range(conf[e])
    BY <1>1, Singles
  <2>2. mac[e] = <<>>
    BY <1>1, <2>1 DEF Lined, InLine
  <2> QED  BY <1>1, <2>1, <2>2 DEF Underway, Named
<1>3. /\ ctx'[s] = c /\ heard'[s] = heard[s] /\ ctx'[e].rx = d.rx
      /\ mac'[e] = Append(<<>>, [id |-> id, burst |-> d.out])
  BY <1>1, <1>2 DEF ReceiverRan, ReceiverOnly, Became
<1>4. /\ rx.sack.phase < Bitmaps(rx.msg) /\ d.out = Rdata(z)
      /\ d.rx = [rx EXCEPT !.sack = [phase |-> rx.sack.phase + 1, id |-> id]]
  BY <1>0 DEF Maps
<1>5. /\ Got(s) \in Nat /\ GotHeard(s) \in Nat /\ n \in Nat
      /\ rx.sack.phase \in Nat /\ rx \in Taking
  BY <1>0, <1>1, ComeFacts
<1>6. /\ d.rx.active /\ d.rx.msg = rx.msg /\ d.rx.seen = rx.seen
      /\ d.rx.sack.phase = rx.sack.phase + 1
  <2> DEFINE k == [phase |-> rx.sack.phase + 1, id |-> id]
  <2>1. k.phase = rx.sack.phase + 1 /\ d.rx = [rx EXCEPT !.sack = k]
    BY <1>4
  <2> HIDE DEF k
  <2> QED  BY <1>5, <2>1 DEF Taking
<1>7. Asked(e) = {} /\ Asked(e)' = {Rdata(z)} /\ Hears(s)' = Hears(s)
  <2> DEFINE x == [id |-> id, burst |-> d.out]
  <2>1. x.burst = Rdata(z)
    BY <1>4
  <2> HIDE DEF x
  <2>2. Range(mac[e]) = {} /\ Range(mac'[e]) = {x}
    BY <1>2, <1>3, Singles DEF x
  <2> QED  BY <1>3, <2>1, <2>2 DEF Asked, Hears
<1>8. Rdata(z).kind = "rdata" /\ Rdata(z).zeros = z
  BY DEF Rdata
<1>9. /\ Got(s)' = Got(s) /\ GotHeard(s)' = GotHeard(s) /\ n = GotHeard(s)
      /\ Come(s, e)' = n + 1
  <2>1. HasMap(Asked(e))' /\ ~HasMap(Asked(e))
        /\ (HasMap(Hears(s))' <=> HasMap(Hears(s)))
    BY <1>7, <1>8 DEF HasMap
  <2>2. Got(s)' = Got(s) /\ GotHeard(s)' = GotHeard(s)
    BY <1>3, <2>1 DEF Got, GotHeard, Bit
  <2> QED  BY <1>0, <1>5, <2>1, <2>2 DEF Come, Bit
<1>10. \A k, y : Place(s, e, k, y) => Place(s, e, k, y)'
  BY <1>3, <1>7, <1>9 DEF Place
<1>11. Place(s, e, n + 1, z)'
  BY <1>7, <1>8, <1>9 DEF Place
<1>12. Awaiting(s)' <=> Awaiting(s)
  BY <1>3, <1>7 DEF Awaiting
<1>13. CASE Awaiting(s)
  <2>1. rx.msg = m
    <3>1. rx.msg \in Abroad(s, e)
      BY <1>1 DEF Abroad
    <3> QED  BY <1>13, <3>1, PairFacts DEF Current, Awaiting
  <2>2. Bitmaps(m) \in 1..2
    BY BitmapsOneOrTwo
  <2>3. n <= rx.sack.phase /\ (n = 1 /\ rx.sack.phase = 1 => Place(s, e, 1, w))
    BY <1>0, <1>2, <1>13 DEF Shown
  <2>4. n + 1 <= Bitmaps(m)
    BY <1>4, <1>5, <2>1, <2>2, <2>3
  <2>5. Reports(d.rx, 0) = w
    BY <1>0, <1>6 DEF Reports
  <2>6. n + 1 = 1 /\ rx.sack.phase + 1 = 1 => Place(s, e, 1, w)'
    <3>1. rx.sack.phase = 0 => z = w
      BY <1>0
    <3> QED  BY <1>5, <1>11, <3>1
  <2>7. ASSUME n + 1 = Bitmaps(m) PROVE Unshown(s, e)'
    <3>1. rx.sack.phase = n
      BY <1>4, <1>5, <2>1, <2>2, <2>3, <2>7
    <3>2. Gap(rx)
      BY <1>1, PairFacts DEF Tracked
    <3>3. PICK g \in 0..(Announced(m) - 1) :
            \/ g \div Half >= n + 1
            \/ g \div Half = n /\ g % Half \in z
            \/ n + 1 = 2 /\ g \div Half = 0 /\ g % Half \in w
      <4>1. (n + 1) - 1 = n
        BY <1>5
      <4> QED  BY <1>0, <1>5, <2>1, <2>7, <3>1, <3>2, <4>1, GapUnshown
    <3>4. \/ g \div Half >= n + 1
          \/ \E y : Place(s, e, g \div Half + 1, y)' /\ g % Half \in y
      <4>1. CASE g \div Half = n /\ g % Half \in z
        BY <1>11, <4>1
      <4>2. CASE n + 1 = 2 /\ g \div Half = 0 /\ g % Half \in w
        <5>1. n = 1 /\ g \div Half + 1 = 1
          BY <1>5, <4>2
        <5>2. Place(s, e, 1, w)'
          BY <1>10, <2>3, <3>1, <5>1
        <5> QED  BY <4>2, <5>1, <5>2
      <4> QED  BY <3>3, <4>1, <4>2
    <3> QED  BY <1>3, <1>9, <3>4 DEF Unshown
  <2>8. c.state = "TX_WAIT_SACK_DATA" => c.tx.follow = Bitmaps(m)
    BY <1>13 DEF Shown
  <2>9. n + 1 <= rx.sack.phase + 1
    BY <1>5, <2>3
  <2> QED  BY <1>3, <1>6, <1>9, <2>4, <2>5, <2>6, <2>7, <2>8, <2>9 DEF Shown
<1> QED  BY <1>12, <1>13, NotAwaiting

LEMMA ReceiverConfShown ==
  ASSUME NEW s \in Radios, NEW e \in Radios, Pair(s, e), PairInv(s, e),
         Lined(s, e), Shown(s, e), ConfReady(e)
  PROVE  Shown(s, e)'
<1>1. PICK cf, id, d : ReceiverConfirmed(s, e, cf, id, d)
  BY ReceiverConf
<1>2. /\ ReceiverRan(s, e, d, id)
      /\ Keeps(ctx[e], d) \/ (OwnSack(ctx[e], cf) /\ Maps(ctx[e], d, id))
  BY <1>1 DEF ReceiverConfirmed
<1>3. /\ ctx'[e].rx = d.rx /\ ReceiverOnly(s, e)
      /\ d.out = Silent => mac'[e] = mac[e]
  BY <1>2, ReceiverRanLeaves
<1>4. CASE Keeps(ctx[e], d)
  BY <1>3, <1>4, ReceiverKeepsShown DEF Keeps
<1>5. CASE OwnSack(ctx[e], cf) /\ Maps(ctx[e], d, id) /\ d.out = Silent
  <2>1. d.rx = [ctx[e].rx EXCEPT !.sack = NoSack]
    BY <1>5 DEF Maps, Rdata, Silent
  <2>2. ctx[e].rx \in Taking
    BY <1>5, ComeFacts DEF OwnSack
  <2>3. ~Underway(e)'
    BY <1>3, <2>1, <2>2 DEF Underway, Taking
  <2> QED  BY <1>3, <1>5, <2>3, ReceiverKeepsShown
<1>6. CASE OwnSack(ctx[e], cf) /\ Maps(ctx[e], d, id) /\ d.out # Silent
  BY <1>1, <1>6, MapsShown
<1> QED  BY <1>2, <1>4, <1>5, <1>6

LEMMA ReceiverTimerShown ==
  ASSUME NEW s \in Radios, NEW e \in Radios, Pair(s, e), PairInv(s, e),
         Lined(s, e), Shown(s, e), NEW t \in Timers, TimerReady(e, t)
  PROVE  Shown(s, e)'
<1>1. PICK id, d : ReceiverTimed(s, e, t, id, d)
  BY ReceiverTimer
<1>2. /\ ReceiverRan(s, e, d, id)
      /\ Keeps(ctx[e], d) \/ Drops(ctx[e], d)
  BY <1>1 DEF ReceiverTimed
<1>3. /\ ctx'[e].rx = d.rx /\ ReceiverOnly(s, e)
      /\ d.out = Silent => mac'[e] = mac[e]
  BY <1>2, ReceiverRanLeaves
<1>4. d.out = Silent /\ (d.rx = ctx[e].rx \/ ~d.rx.active)
  BY <1>2 DEF Keeps, Drops, NoRx
<1> QED  BY <1>3, <1>4, ReceiverKeepsShown DEF Underway

\* It hears what s sends only while s awaits no bitmap.
LEMMA ReceiverRxShown ==
  ASSUME NEW s \in Radios, NEW e \in Radios, Pair(s, e), PairInv(s, e),
         Lined(s, e), RxReady(e)
  PROVE  Shown(s, e)'
<1>1. PICK u, id, d : ReceiverHeard(s, e, u, id, d)
  BY ReceiverRx
<1>2. heard[e] # <<>> /\ ReceiverOnly(s, e) /\ heard[s] = <<>>
  BY <1>1, Singles DEF ReceiverHeard, ReceiverRan
<1>3. ctx[s].state # "TX_WAIT_SACK_DATA"
  BY <1>2 DEF Lined, Sending
<1>4. ctx'[s] = ctx[s] /\ Hears(s)' = {}
  BY <1>2, Singles DEF ReceiverOnly, Hears
<1>5. ~Awaiting(s)'
  BY <1>3, <1>4 DEF Awaiting
<1> QED  BY <1>5, NotAwaiting

----------------------------------------------------------------------------
(* The application, the timers and the MAC.                                *)

LEMMA SendShown ==
  ASSUME NEW s \in Radios, NEW e \in Radios, Spaced, Pair(s, e), PairInv(s, e),
         NEW r \in Radios, NEW m \in Messages, Send(r, m)
  PROVE  Shown(s, e)'
<1>1. ctx'[s].state = "TX_BURST_PENDING"
  BY SendSends DEF SenderSends
<1>2. ~Awaiting(s)'
  BY <1>1 DEF Awaiting
<1> QED  BY <1>2, NotAwaiting

LEMMA ExpireShown ==
  ASSUME NEW s \in Radios, NEW e \in Radios, Pair(s, e), PairInv(s, e),
         Shown(s, e), NEW r \in Radios, NEW t \in Timers, Expire(r, t)
  PROVE  Shown(s, e)'
<1>1. TimerExpires(r, t)
  BY PairFacts, ExpireExpires
<1> QED  BY <1>1, SenderKeepsShown DEF TimerExpires

\* A bitmap is heard where it was on its way, or it is lost.
LEMMA AiredShown ==
  ASSUME NEW s \in Radios, NEW e \in Radios, Pair(s, e), PairInv(s, e),
         Lined(s, e), Shown(s, e), ReceiverAirs(s, e)
  PROVE  Shown(s, e)'
<1> DEFINE c == ctx[s]
           x == Head(mac[e])
           u == x.burst
<1>1. /\ ctx' = ctx /\ mac[e] # <<>> /\ mac'[e] = Tail(mac[e])
      /\ \/ heard' = heard
         \/ heard[s] = <<>> /\ heard'[s] \in {<<u>>, <<>>}
  BY DEF ReceiverAirs
<1>2. Asked(e) = Asked(e)' \union {u} /\ \A v \in Asked(e)' : v.kind # "rdata"
  <2>1. Typed /\ InLine(e)
    BY PairFacts DEF Lined
  <2>2. mac[e] \in Seq([id : 1..MaxId, burst : Sent \ {Silent}])
    BY <2>1 DEF Typed
  <2>3. Range(mac[e]) = Range(mac'[e]) \union {x}
    BY <1>1, <2>2, HeadAndTail
  <2> HIDE DEF x
  <2>4. Asked(e) = Asked(e)' \union {u}
    BY <2>3 DEF Asked
  <2> QED  BY <1>1, <2>1, <2>4, BitmapFirst
<1>3. Underway(e)' => Underway(e) /\ ctx'[e].rx = ctx[e].rx
  <2>1. Named(e)' \subseteq Named(e)
    BY PairFacts, AnswersAired DEF AirsAnswer
  <2> QED  BY <1>1, <2>1 DEF Underway
<1>4. /\ Got(s)' = Got(s) /\ Got(s) \in Nat /\ GotHeard(s) \in Nat
      /\ Come(s, e) \in Nat
      /\ Underway(e) => ctx[e].rx.sack.phase \in Nat
  BY <1>1, ComeFacts DEF Got, Underway
<1> HIDE DEF u
<1>5. HasMap(Asked(e)) <=> u.kind = "rdata"
  BY <1>2 DEF HasMap
<1>6. ~HasMap(Asked(e))'
  BY <1>2 DEF HasMap
<1>7. Come(s, e) = Got(s) + Bit(HasMap(Hears(s))) + Bit(u.kind = "rdata")
  BY <1>4, <1>5 DEF Come, GotHeard, Bit
<1>8. Come(s, e)' = GotHeard(s)' /\ Come(s, e)' = Got(s) + Bit(HasMap(Hears(s)))'
  BY <1>4, <1>6 DEF Come, GotHeard, Bit
<1>9. Awaiting(s) => (c.state = "TX_WAIT_SACK_DATA" => c.tx.follow = Bitmaps(c.tx.msg))
  BY DEF Shown
<1>10. ASSUME Hears(s)' = Hears(s) PROVE Shown(s, e)'
  <2>1. Awaiting(s)' <=> Awaiting(s)
    BY <1>1, <1>10 DEF Awaiting
  <2>2. Bit(HasMap(Hears(s)))' = Bit(HasMap(Hears(s)))
    BY <1>10 DEF HasMap, Bit
  <2>3. CASE Awaiting(s) /\ u.kind = "rdata"
    <3>1. Come(s, e)' = Come(s, e) - 1
      BY <1>4, <1>7, <1>8, <2>2, <2>3 DEF Bit
    <3> QED  BY <1>1, <1>3, <1>4, <2>3, <3>1, ShownFewer
  <2>4. CASE Awaiting(s) /\ u.kind # "rdata"
    <3>1. Come(s, e)' = Come(s, e)
      BY <1>4, <1>7, <1>8, <2>2, <2>4 DEF Bit
    <3>2. GotHeard(s)' = GotHeard(s)
      BY <1>4, <2>2 DEF GotHeard
    <3>3. \A k, z : Place(s, e, k, z)' <=> Place(s, e, k, z)
      BY <1>1, <1>2, <1>4, <1>10, <2>4, <3>2 DEF Place
    <3> QED  BY <1>1, <1>3, <1>9, <2>4, <3>1, <3>3, ShownKept
  <2> QED  BY <2>1, <2>3, <2>4, NotAwaiting
<1>11. ASSUME heard[s] = <<>>, heard'[s] = <<u>> PROVE Shown(s, e)'
  <2>1. Hears(s) = {} /\ Hears(s)' = {u}
    BY <1>11, Singles DEF Hears
  <2>2. ~HasMap(Hears(s)) /\ (HasMap(Hears(s))' <=> u.kind = "rdata")
    BY <2>1 DEF HasMap
  <2>3. CASE Awaiting(s)
    <3>1. Come(s, e)' = Come(s, e) /\ GotHeard(s) = Got(s)
      BY <1>4, <1>7, <1>8, <2>2 DEF Bit, GotHeard
    <3>2. \A k, z : Place(s, e, k, z)' <=> Place(s, e, k, z)
      BY <1>1, <1>2, <1>4, <2>1, <3>1 DEF Place
    <3> QED  BY <1>1, <1>3, <1>9, <2>3, <3>1, <3>2, ShownKept
  <2>4. CASE ~Awaiting(s) /\ Awaiting(s)'
    <3>1. c.state = "TX_WAIT_ACK" /\ Sacks(u)
      BY <1>1, <2>1, <2>4 DEF Awaiting
    <3>2. Come(s, e)' = 0
      BY <1>8, <2>2, <3>1 DEF Got, Sacks, Bit
    <3>3. Bitmaps(c.tx.msg) \in 1..2
      BY BitmapsOneOrTwo
    <3>4. Underway(e)' => ctx[e].rx.sack.phase \in Nat
      BY <1>3, <1>4
    <3> QED  BY <1>1, <3>1, <3>2, <3>3, <3>4 DEF Shown
  <2> QED  BY <2>3, <2>4, NotAwaiting
<1>12. CASE heard[s] = <<>> /\ heard'[s] = <<>>
  BY <1>10, <1>12 DEF Hears
<1>13. CASE heard' = heard
  BY <1>10, <1>13 DEF Hears
<1> QED  BY <1>1, <1>11, <1>12, <1>13

LEMMA InitShown ==
  ASSUME NEW s \in Radios, NEW e \in Radios, Init
  PROVE  Shown(s, e)
<1>1. ~ctx[s].tx.active
  BY DEF Init, InitialContext, NoTx
<1> QED  BY <1>1 DEF Shown, Awaiting

LEMMA NextShown ==
  ASSUME NEW s \in Radios, NEW e \in Radios, Spaced, Pair(s, e), PairInv(s, e),
         Lined(s, e), Shown(s, e), [Next]_vars
  PROVE  Shown(s, e)'
<1>0. Radios = {s, e}
  BY PairFacts
<1>1. CASE UNCHANGED vars
  BY <1>1, SenderKeepsShown DEF vars
<1>2. ASSUME NEW r \in Radios, Worker(r) PROVE Shown(s, e)'
  <2>1. CASE r = s
    BY <1>2, <2>1, SenderConfShown, SenderRxShown, SenderTimerShown DEF Worker
  <2>2. CASE r = e
    BY <1>2, <2>2, ReceiverConfShown, ReceiverRxShown, ReceiverTimerShown DEF Worker
  <2> QED  BY <1>0, <2>1, <2>2
<1>3. ASSUME NEW r \in Radios, NEW m \in Messages, Send(r, m) PROVE Shown(s, e)'
  BY <1>3, SendShown
<1>4. ASSUME NEW r \in Radios, NEW t \in Timers, Expire(r, t) PROVE Shown(s, e)'
  BY <1>4, ExpireShown
<1>5. ASSUME NEW r \in Radios,
             MacAirs(r) \/ AirLoses(r) \/ MacRefuses(r) \/ MacForgets(r)
      PROVE  Shown(s, e)'
  <2>1. CASE r = s
    <3>1. ctx'[s].state = "TX_BURST_PENDING"
      BY <1>5, <2>1, SenderMac DEF SenderAirs
    <3>2. ~Awaiting(s)'
      BY <3>1 DEF Awaiting
    <3> QED  BY <3>2, NotAwaiting
  <2>2. CASE r = e
    BY <1>5, <2>2, ReceiverMac, AiredShown
  <2> QED  BY <1>0, <2>1, <2>2
<1> QED  BY <1>1, <1>2, <1>3, <1>4, <1>5 DEF Next

----------------------------------------------------------------------------
(* The promise of dmr_ccl_data.h.                                          *)

\* The bitmap that s takes next leaves a block to send again: bitmaps are still
\* missing, or they show together that a block is.
LEMMA ShownHonest ==
  ASSUME NEW s \in Radios, NEW e \in Radios, Pair(s, e), PairInv(s, e),
         Lined(s, e), Shown(s, e)
  PROVE  Honest(s)
<1> DEFINE c == ctx[s]
           m == c.tx.msg
<1> SUFFICES ASSUME NEW b \in Hears(s), b.kind = "rdata",
                    c.state = "TX_WAIT_SACK_DATA"
             PROVE  Missing(c.tx, Append(c.tx.maps, b.zeros)) # {}
  BY DEF Honest
<1> DEFINE maps == Append(c.tx.maps, b.zeros)
           n == Got(s)
<1>1. /\ n \in Nat /\ n = Len(c.tx.maps) /\ c.tx.active
      /\ c.tx.maps \in Seq(SUBSET Nat) /\ m \in Messages
  BY ComeFacts, PairFacts DEF Got
<1>2. /\ Len(maps) = n + 1 /\ maps[n + 1] = b.zeros
      /\ \A k \in 1..n : maps[k] = c.tx.maps[k]
  BY <1>1, AppendedAt
<1>3. Hears(s) = {b}
  <2>1. heard[s] \in Seq(Audible) /\ Len(heard[s]) \in 0..1
    BY PairFacts DEF Lined, Turns
  <2>2. heard[s] # <<>>
    BY Singles DEF Hears
  <2> QED  BY <2>1, <2>2, ShortQueue DEF Hears
<1>4. GotHeard(s) = n + 1 /\ n + 1 <= Come(s, e) /\ Come(s, e) \in Nat
  <2>1. HasMap(Hears(s))
    BY <1>3 DEF HasMap
  <2>2. GotHeard(s) = n + 1
    BY <2>1 DEF GotHeard, Bit
  <2>3. Come(s, e) \in {GotHeard(s), GotHeard(s) + 1}
    <3>1. GotHeard(s) \in Nat
      BY ComeFacts
    <3> QED  BY <3>1 DEF Come, Bit
  <2> HIDE DEF n
  <2> QED  BY <1>1, <2>2, <2>3
<1>5. /\ Come(s, e) <= Bitmaps(m) /\ Bitmaps(m) \in 1..2
      /\ Come(s, e) = Bitmaps(m) => Unshown(s, e)
  BY <1>1, BitmapsOneOrTwo DEF Shown, Awaiting
<1>6. Announced(m) \in Nat /\ NBlocks(m) \in Nat /\ Announced(m) <= NBlocks(m)
      /\ Half \in Nat \ {0}
  BY <1>1, AnnouncedSmaller, NBlocksNat, DataBounds
<1> HIDE DEF maps, n
<1>7. \A g \in 0..(NBlocks(m) - 1) :
        g \div Half >= n + 1 \/ g % Half \in maps[g \div Half + 1]
          => g \in Missing(c.tx, maps)
  BY <1>2 DEF Missing
<1>8. CASE Come(s, e) < Bitmaps(m)
  <2>1. n = 0 /\ Bitmaps(m) = 2
    BY <1>1, <1>4, <1>5, <1>8
  <2>2. Announced(m) > Half
    BY <2>1 DEF Bitmaps
  <2>3. Half \in 0..(NBlocks(m) - 1) /\ Half \div Half >= n + 1
    BY <1>6, <2>1, <2>2
  <2> QED  BY <1>7, <2>3 DEF maps
<1>9. CASE Come(s, e) = Bitmaps(m)
  <2>1. PICK g \in 0..(Announced(m) - 1) :
          \/ g \div Half >= Come(s, e)
          \/ \E z : Place(s, e, g \div Half + 1, z) /\ g % Half \in z
    BY <1>5, <1>9 DEF Unshown
  <2> DEFINE h == g \div Half
  <2>2. g \in 0..(NBlocks(m) - 1) /\ h \in Nat
    BY <1>6
  <2>3. CASE h >= Come(s, e)
    <3>1. h >= n + 1
      BY <1>1, <1>4, <2>2, <2>3
    <3> QED  BY <1>7, <2>2, <3>1 DEF maps
  <2>4. ASSUME NEW z, Place(s, e, h + 1, z), g % Half \in z
        PROVE  h >= n + 1 \/ g % Half \in maps[h + 1]
    <3> HIDE DEF h
    <3>1. \/ h + 1 \in 1..n /\ z = c.tx.maps[h + 1]
          \/ h + 1 = n + 1 /\ z = b.zeros
          \/ h + 1 = (n + 1) + 1
      BY <1>3, <1>4, <2>4 DEF Place, n
    <3> QED  BY <1>1, <1>2, <2>2, <2>4, <3>1
  <2>5. h >= n + 1 \/ g % Half \in maps[h + 1]
    BY <1>1, <1>4, <2>1, <2>2, <2>4
  <2> QED  BY <1>7, <2>2, <2>5 DEF maps
<1> QED  BY <1>4, <1>5, <1>8, <1>9

\* Between one radio that sends when all is quiet and one that listens, the
\* applications can rely on the promise of dmr_ccl_data.h: every accepted
\* message is reported at most once, and the success of a confirmed one only
\* after its delivery, whatever bursts are lost, refused or forgotten, and
\* whenever timers expire.
THEOREM ServiceImplemented == Paired => (Spec => ImplementsService)
<1> SUFFICES ASSUME Paired PROVE Spec => ImplementsService
  OBVIOUS
<1>1. PICK s \in Radios, e \in Radios : Pair(s, e)
  BY DEF Paired
<1> DEFINE Inv == PairInv(s, e) /\ Lined(s, e) /\ Shown(s, e)
<1>2. Init => Inv /\ Service!Init
  BY <1>1, InitPaired, InitLined, InitShown
<1>3. Inv /\ [Next]_vars => Inv' /\ [Service!Next]_(Service!vars)
  <2> SUFFICES ASSUME Inv, [Next]_vars
               PROVE  Inv' /\ [Service!Next]_(Service!vars)
    OBVIOUS
  <2>1. Spaced /\ Honest(s)
    BY <1>1, ShownHonest DEF Paired
  <2>2. PairInv(s, e)' /\ ServiceStep
    BY <1>1, <2>1, NextPaired
  <2>3. Lined(s, e)' /\ Shown(s, e)'
    BY <1>1, <2>1, NextLined, NextShown
  <2> QED  BY <2>2, <2>3 DEF ServiceStep
<1> HIDE DEF Inv
<1> QED  BY <1>2, <1>3, PTL DEF Spec, ImplementsService, Service!Spec

=============================================================================
