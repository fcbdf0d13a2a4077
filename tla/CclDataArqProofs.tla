-------------------------- MODULE CclDataArqProofs --------------------------
(***************************************************************************)
(* Theorems about packet and short data for every set of radios and        *)
(* messages, every number of blocks and retries, every queue depth and     *)
(* every bound on what goes wrong.                                         *)
(***************************************************************************)
EXTENDS CclDataArq, FiniteSetTheorems, FunctionTheorems, SequenceTheorems,
        WellFoundedInduction, TLAPS

Timer == [kern : {"off", "running", "expired"}, left : {0}, armed : BOOLEAN]

\* A transfer, and a message being reassembled.
Going ==
  [active : {TRUE}, msg : Messages, phase : Phases, idx : Nat,
   tries : 0..MaxRetries, list : Seq(Nat), id : 0..MaxId, follow : 0..2,
   maps : Seq(SUBSET Nat)]
Taking ==
  [active : {TRUE}, msg : Messages, seen : SUBSET Nat, failed : BOOLEAN,
   sack : [phase : 0..2, id : 0..MaxId]]

LEMMA MaxIdNat == MaxId \in Nat \ {0}
  BY DataBounds DEF MaxId

\* A burst that is sent: a SACK announces a bitmap or two.
Sent == {b \in Bursts : b.kind = "response" /\ b.class = "SACK" => b.follow # 0}

\* The bursts a radio queues to its data module.
Audible == Sent \ {Silent, Preamble}

Context ==
  [state : States, tx : Going \union {NoTx}, rx : Taking \union {NoRx},
   tmr : [Timers -> Timer], out : Sent,
   told : [Messages -> {"new", "sending", "ok", "failed"}],
   copies : [Messages -> Nat]]

\* The position in the sequence of bursts is inside it, and it names blocks
\* of the message; no more bitmaps have come than were announced.
TxSound(tx) ==
  /\ tx.id # NoId
  /\ \A i \in DOMAIN tx.list : tx.list[i] \in 0..(NBlocks(tx.msg) - 1)
  /\ tx.phase = "BLOCKS" => tx.idx \in 0..(SeqLen(tx) - 1)
  /\ Len(tx.maps) <= tx.follow
RxSound(rx) ==
  /\ rx.seen \subseteq 0..(Announced(rx.msg) - 1)
  /\ rx.sack # NoSack =>
       rx.sack.phase \in 0..Bitmaps(rx.msg) /\ rx.sack.id # NoId

SoundParts(c) ==
  /\ c \in Context
  /\ c.tx.active => TxSound(c.tx)
  /\ c.rx.active => RxSound(c.rx)

\* Between its steps a radio has a sound context: it awaits a response to a
\* transfer only, and bitmaps only while one is missing.
Sound(c) ==
  /\ SoundParts(c)
  /\ c.state \in {"TX_WAIT_ACK", "TX_WAIT_SACK_DATA"} => c.tx.active
  /\ c.state = "TX_WAIT_SACK_DATA" => Len(c.tx.maps) < c.tx.follow

\* A handler leaves a sound context, and submits nothing if it cannot.
Handled(d, id) == Sound(d) /\ (id = NoId => d.out = Silent)

\* The inductive invariant behind the type invariant.
Typed ==
  /\ ctx \in [Radios -> Context]
  /\ \A r \in Radios : Sound(ctx[r]) /\ ctx[r].out = Silent
  /\ batch \in [Radios -> SUBSET Fds]
  /\ \A r \in Radios : /\ "conf" \in batch[r] => conf[r] # <<>>
                       /\ "rx" \in batch[r] => heard[r] # <<>>
  /\ mac \in [Radios -> Seq([id : 1..MaxId, burst : Sent \ {Silent}])]
  /\ conf \in [Radios -> Seq(Confs)]
  /\ heard \in [Radios -> Seq(Audible)]
  /\ \A r \in Radios :
       /\ Len(mac[r]) <= MacRoom
       /\ Len(conf[r]) <= QDepth /\ Len(heard[r]) <= QDepth
  /\ trouble \in 0..MaxTrouble

\* A handler that ended in d used id, unless it is NoId, and its burst is
\* with the MAC.
Ran(r, d, id) ==
  /\ ctx' = [ctx EXCEPT ![r] = [d EXCEPT !.out = Silent]]
  /\ \/ d.out = Silent /\ UNCHANGED mac
     \/ /\ d.out # Silent /\ id # NoId /\ Len(mac[r]) < MacRoom
        /\ mac' = [mac EXCEPT ![r] = Append(@, [id |-> id, burst |-> d.out])]

----------------------------------------------------------------------------
(* Bursts and timers.                                                      *)

LEMMA SilentSent == Silent \in Sent /\ Silent.kind = "none"
  BY DEF Silent, Sent, Bursts

LEMMA PreambleSent == Preamble \in Sent \ {Silent}
<1>1. Preamble \in Bursts /\ Preamble.kind = "preamble"
  BY DEF Preamble, Bursts
<1> QED  BY <1>1, SilentSent DEF Sent

LEMMA HeaderSent ==
  ASSUME NEW m \in Messages, NEW full \in BOOLEAN
  PROVE  Header(m, full) \in Sent \ {Silent}
<1>1. Header(m, full) \in Bursts /\ Header(m, full).kind = "header"
  BY DEF Header, Bursts
<1> QED  BY <1>1, SilentSent DEF Sent

LEMMA BlockSent ==
  ASSUME NEW m \in Messages, NEW i \in 0..(NBlocks(m) - 1)
  PROVE  Block(m, i) \in Sent \ {Silent}
<1>1. Msg[m].blocks \in Seq(Lead)
  BY MsgAssumption
<1>2. i + 1 \in DOMAIN Msg[m].blocks
  BY <1>1 DEF NBlocks
<1>3. Msg[m].blocks[i + 1] \in Lead
  BY <1>1, <1>2
<1>4. Block(m, i) \in Bursts /\ Block(m, i).kind = "block"
  BY <1>3 DEF Block, Bursts
<1> QED  BY <1>4, SilentSent DEF Sent

LEMMA RdataSent ==
  ASSUME NEW zeros \in SUBSET (0..(Half - 1))
  PROVE  Rdata(zeros) \in Sent \ {Silent}
<1>1. Rdata(zeros) \in Bursts /\ Rdata(zeros).kind = "rdata"
  BY DEF Rdata, Bursts
<1> QED  BY <1>1, SilentSent DEF Sent

LEMMA ResponseSent ==
  ASSUME NEW m \in Messages, NEW class \in Classes, NEW follow \in 0..2,
         class = "SACK" => follow # 0
  PROVE  Response(m, class, follow) \in Sent \ {Silent}
<1>1. Msg[m].from \in Radios
  BY MsgAssumption
<1>2. Response(m, class, follow) \in Bursts
  BY <1>1 DEF Response, Bursts
<1>3. /\ Response(m, class, follow).kind = "response"
      /\ Response(m, class, follow).class = class
      /\ Response(m, class, follow).follow = follow
  BY DEF Response
<1> QED  BY <1>2, <1>3, SilentSent DEF Sent

\* What a burst carries.
LEMMA SentFields ==
  ASSUME NEW b \in Sent
  PROVE  /\ b.kind \in {"none", "preamble", "header", "block", "rdata", "response"}
         /\ b.kind = "header" => b.msg \in Messages /\ b.full \in BOOLEAN
         /\ b.kind = "block" => b.lead \in Lead
         /\ b.kind = "rdata" => b.zeros \in SUBSET (0..(Half - 1))
         /\ b.kind = "response" =>
              /\ b.to \in Radios /\ b.class \in Classes /\ b.follow \in 0..2
              /\ b.class = "SACK" => b.follow # 0
  BY DEF Sent, Bursts, Silent, Preamble

LEMMA LeadFits ==
  ASSUME NEW b \in Sent
  PROVE  b.kind \in {"block", "rdata"} =>
           LeadOf(b).no \in Nat /\ LeadOf(b).last \in BOOLEAN
<1>1. CASE b.kind = "block"
  BY <1>1, SentFields DEF LeadOf, Lead
<1>2. CASE b.kind = "rdata"
  BY <1>2 DEF LeadOf
<1> QED  BY <1>1, <1>2

LEMMA TimersTyped ==
  ASSUME NEW tm \in [Timers -> Timer], NEW t \in Timers
  PROVE  /\ Arm(tm, t, 0) \in [Timers -> Timer]
         /\ Disarm(tm, t) \in [Timers -> Timer]
         /\ Drain(tm, t) \in [Timers -> Timer]
         /\ Expired(tm, t) \in [Timers -> Timer]
<1>1. Off \in Timer
  BY DEF Off, Timer
<1>2. Arm(tm, t, 0) \in [Timers -> Timer]
  BY DEF Arm, Timer
<1>3. Disarm(tm, t) \in [Timers -> Timer]
  BY <1>1 DEF Disarm
<1>4. [tm[t] EXCEPT !.armed = FALSE] \in Timer
  BY DEF Timer
<1>5. Drain(tm, t) \in [Timers -> Timer]
  BY <1>1, <1>4 DEF Drain
<1>6. [tm[t] EXCEPT !.kern = "expired"] \in Timer
  BY DEF Timer
<1>7. Expired(tm, t) \in [Timers -> Timer]
  BY <1>6 DEF Expired
<1> QED  BY <1>2, <1>3, <1>5, <1>7

----------------------------------------------------------------------------
(* Lists of blocks.                                                        *)

\* A set of numbers that is not empty has a least element.
LEMMA Least ==
  ASSUME NEW S \in SUBSET Nat, S # {}
  PROVE  \E n \in S : \A m \in S : n <= m
<1>1. IsWellFoundedOn(OpToRel(<, Nat), Nat)
  BY NatLessThanWellFounded
<1>2. \A x, y \in Nat : <<y, x>> \in OpToRel(<, Nat) <=> y < x
  BY DEF OpToRel
<1>3. PICK x \in S : \A y \in S : <<y, x>> \notin OpToRel(<, Nat)
  BY <1>1, WFMin
<1>4. \A y \in S : x \in Nat /\ y \in Nat /\ ~(y < x)
  BY <1>2, <1>3
<1>5. \A y \in S : x <= y
  BY <1>4
<1> QED  BY <1>5

\* A list of a set of numbers in ascending order.
IsAscending(list, S) ==
  /\ list \in [1..Cardinality(S) -> S]
  /\ \A i, j \in DOMAIN list : i < j => list[i] < list[j]

\* Every finite set of numbers has one: a least set without is not empty, so
\* it has a least number, and the list of the others can be put behind that.
LEMMA AscendingExists ==
  ASSUME NEW S \in SUBSET Nat, IsFiniteSet(S)
  PROVE  \E list : IsAscending(list, S)
<1> DEFINE Bad == {T \in SUBSET Nat : IsFiniteSet(T) /\ ~\E list : IsAscending(list, T)}
           Sizes == {n \in Nat : \E T \in Bad : Cardinality(T) = n}
<1>1. SUFFICES ASSUME S \in Bad PROVE FALSE
  OBVIOUS
<1>2. Cardinality(S) \in Sizes
  BY <1>1, FS_CardinalityType
<1>3. PICK n \in Sizes : \A k \in Sizes : n <= k
  <2>1. Sizes \in SUBSET Nat /\ Sizes # {}
    BY <1>2
  <2> HIDE DEF Sizes
  <2> QED  BY <2>1, Least
<1>4. PICK T \in Bad : Cardinality(T) = n
  BY <1>3
<1>5. T \in SUBSET Nat /\ IsFiniteSet(T)
  BY <1>4
<1>6. T # {}
  <2> SUFFICES ASSUME T = {} PROVE FALSE
    OBVIOUS
  <2>1. Cardinality(T) = 0
    BY FS_EmptySet
  <2>2. IsAscending([i \in 1..0 |-> i], T)
    BY <2>1 DEF IsAscending
  <2> QED  BY <1>4, <2>2
<1>7. PICK least \in T : \A b \in T : least <= b
  BY <1>5, <1>6, Least
<1> DEFINE U == T \ {least}
<1>8. U \in SUBSET Nat /\ IsFiniteSet(U) /\ Cardinality(U) = n - 1 /\ n \in Nat \ {0}
  <2>1. n \in Nat
    BY <1>3
  <2>2. n # 0
    BY <1>4, <1>5, <1>6, FS_EmptySet
  <2>3. IsFiniteSet(U) /\ Cardinality(U) = Cardinality(T) - 1
    BY <1>5, <1>7, FS_RemoveElement
  <2> QED  BY <1>4, <1>5, <2>1, <2>2, <2>3
<1>9. U \notin Bad
  <2>1. U \in Bad => n - 1 \in Sizes
    BY <1>8
  <2> HIDE DEF Bad, Sizes, U
  <2> QED  BY <1>3, <1>8, <2>1
<1>10. PICK rest : IsAscending(rest, U)
  BY <1>8, <1>9
<1> DEFINE list == [i \in 1..n |-> IF i = 1 THEN least ELSE rest[i - 1]]
<1>11. rest \in [1..(n - 1) -> U] /\ \A i, j \in 1..(n - 1) : i < j => rest[i] < rest[j]
  BY <1>8, <1>10 DEF IsAscending
<1>12. \A b \in U : b \in Nat /\ least \in Nat /\ least < b
  BY <1>5, <1>7
<1>13. list \in [1..n -> T]
  <2>1. \A i \in 1..n : i # 1 => i - 1 \in 1..(n - 1)
    BY <1>8
  <2>2. \A i \in 1..n : i # 1 => rest[i - 1] \in T
    BY <1>11, <2>1
  <2> QED  BY <1>7, <2>2
<1>14. ASSUME NEW i \in 1..n, NEW j \in 1..n, i < j
       PROVE  list[i] < list[j]
  <2>1. j # 1 /\ j - 1 \in 1..(n - 1)
    BY <1>8, <1>14
  <2>2. CASE i = 1
    <3>1. list[i] = least /\ list[j] = rest[j - 1]
      BY <2>1, <2>2
    <3>2. rest[j - 1] \in U
      BY <1>11, <2>1
    <3> QED  BY <1>12, <3>1, <3>2
  <2>3. CASE i # 1
    <3>1. i - 1 \in 1..(n - 1) /\ i - 1 < j - 1
      BY <1>8, <1>14, <2>3
    <3>2. list[i] = rest[i - 1] /\ list[j] = rest[j - 1]
      BY <2>1, <2>3
    <3> QED  BY <1>11, <2>1, <3>1, <3>2
  <2> QED  BY <2>2, <2>3
<1>15. IsAscending(list, T)
  <2> HIDE DEF list
  <2>1. DOMAIN list = 1..n
    BY <1>13
  <2> QED  BY <1>4, <1>13, <1>14, <2>1 DEF IsAscending
<1> QED  BY <1>4, <1>15

\* So the list of the blocks to repeat is a sequence of blocks to repeat.
LEMMA AscendingLists ==
  ASSUME NEW S \in SUBSET Nat, IsFiniteSet(S)
  PROVE  /\ Ascending(S) \in Seq(S)
         /\ Len(Ascending(S)) = Cardinality(S)
         /\ \A i \in DOMAIN Ascending(S) : Ascending(S)[i] \in S
<1>1. PICK list : IsAscending(list, S)
  BY AscendingExists
<1>2. Ascending(S) \in [1..Cardinality(S) -> S]
  BY <1>1 DEF Ascending, IsAscending
<1>3. Cardinality(S) \in Nat
  BY FS_CardinalityType
<1>4. Ascending(S) \in Seq(S)
  BY <1>2, <1>3, SeqDef
<1>5. Len(Ascending(S)) = Cardinality(S)
  BY <1>2, <1>3, <1>4, LenProperties
<1> QED  BY <1>2, <1>4, <1>5

----------------------------------------------------------------------------
(* The handlers leave a sound context.                                     *)

\* The parts of a context; a transfer or a reassembly that is active has all
\* its fields.
LEMMA ContextFields ==
  ASSUME NEW c \in Context
  PROVE  /\ c.state \in States /\ c.out \in Sent
         /\ c.tmr \in [Timers -> Timer]
         /\ c.tx.active \in BOOLEAN /\ (c.tx.active => c.tx \in Going)
         /\ (~c.tx.active => c.tx = NoTx)
         /\ c.rx.active \in BOOLEAN /\ (c.rx.active => c.rx \in Taking)
         /\ (~c.rx.active => c.rx = NoRx)
         /\ c.told \in [Messages -> {"new", "sending", "ok", "failed"}]
         /\ c.copies \in [Messages -> Nat]
<1>1. NoTx.active = FALSE /\ NoRx.active = FALSE
  BY DEF NoTx, NoRx
<1>2. c.tx \in Going => c.tx.active = TRUE
  BY DEF Going
<1>3. c.rx \in Taking => c.rx.active = TRUE
  BY DEF Taking
<1> QED  BY <1>1, <1>2, <1>3 DEF Context

LEMMA TxFinishHandled ==
  ASSUME NEW c, SoundParts(c), c.out = Silent, NEW success \in BOOLEAN
  PROVE  Sound(TxFinish(c, success)) /\ TxFinish(c, success).out = Silent
<1> DEFINE d == TxFinish(c, success)
<1>0. c \in Context
  BY DEF SoundParts
<1>1. /\ d.state = "IDLE" /\ d.tx = NoTx /\ d.rx = c.rx /\ d.out = c.out
      /\ d.tmr = Disarm(c.tmr, "response") /\ d.copies = c.copies
      /\ d.told = [c.told EXCEPT ![c.tx.msg] = IF success THEN "ok" ELSE "failed"]
  BY <1>0 DEF TxFinish, Context
<1>2. d \in Context
  <2>1. d.tmr \in [Timers -> Timer]
    BY <1>0, <1>1, ContextFields, TimersTyped DEF Timers
  <2>2. d.told \in [Messages -> {"new", "sending", "ok", "failed"}]
    <3>1. c.told \in [Messages -> {"new", "sending", "ok", "failed"}]
      BY <1>0, ContextFields
    <3> QED  BY <1>1, <3>1
  <2> QED  BY <1>0, <1>1, <2>1, <2>2 DEF TxFinish, Context, States
<1>3. ~d.tx.active
  BY <1>1 DEF NoTx
<1> QED  BY <1>1, <1>2, <1>3 DEF Sound, SoundParts

LEMMA NBlocksNat == \A m \in Messages : NBlocks(m) \in Nat
  BY MsgAssumption DEF NBlocks

\* A transfer whose fields are sound sends a burst.
LEMMA TxBurstSent ==
  ASSUME NEW tx \in Going, TxSound([tx EXCEPT !.id = 1]),
         tx.phase # "DONE"
  PROVE  TxBurst(tx) \in Sent \ {Silent}
<1>1. tx.msg \in Messages /\ tx.list \in Seq(Nat) /\ tx.phase \in Phases
  BY DEF Going
<1>2. /\ \A i \in DOMAIN tx.list : tx.list[i] \in 0..(NBlocks(tx.msg) - 1)
      /\ tx.phase = "BLOCKS" => tx.idx \in 0..(SeqLen(tx) - 1)
  BY DEF TxSound, Going, SeqLen
<1>3. CASE tx.phase = "PREAMBLE"
  BY <1>3, PreambleSent DEF TxBurst
<1>4. CASE tx.phase = "HEADER"
  <2>1. (tx.list = <<>>) \in BOOLEAN
    OBVIOUS
  <2>2. TxBurst(tx) = Header(tx.msg, tx.list = <<>>)
    BY <1>4 DEF TxBurst
  <2> QED  BY <1>1, <2>1, <2>2, HeaderSent
<1>5. CASE tx.phase = "BLOCKS"
  <2>1. NBlocks(tx.msg) \in Nat
    BY <1>1, MsgAssumption DEF NBlocks
  <2> DEFINE b == IF tx.list = <<>> THEN tx.idx ELSE tx.list[tx.idx + 1]
  <2>2. TxBurst(tx) = Block(tx.msg, b)
    BY <1>5 DEF TxBurst
  <2>3. CASE tx.list = <<>>
    BY <1>1, <1>2, <1>5, <2>2, <2>3, BlockSent DEF SeqLen
  <2>4. CASE tx.list # <<>>
    <3>1. tx.idx + 1 \in DOMAIN tx.list
      BY <1>1, <1>2, <1>5, <2>4 DEF SeqLen
    <3>2. b \in 0..(NBlocks(tx.msg) - 1)
      BY <1>2, <2>4, <3>1
    <3> HIDE DEF b
    <3> QED  BY <1>1, <2>2, <3>2, BlockSent
  <2> QED  BY <2>3, <2>4
<1> QED  BY <1>1, <1>3, <1>4, <1>5 DEF Phases

\* A context from which a burst is sent; only the identifier is to come.
TxReady(c) ==
  /\ c \in Context /\ c.out = Silent
  /\ c.tx.active /\ TxSound([c.tx EXCEPT !.id = 1]) /\ c.tx.phase # "DONE"
  /\ c.rx.active => RxSound(c.rx)

LEMMA TxNextBurstHandled ==
  ASSUME NEW c, TxReady(c), NEW id \in 1..MaxId,
         c.state = "TX_WAIT_SACK_DATA" => Len(c.tx.maps) < c.tx.follow
  PROVE  Sound(TxNextBurst(c, id))
<1> DEFINE d == TxNextBurst(c, id)
           x == [c.tx EXCEPT !.id = id]
           b == TxBurst(c.tx)
           f == [c EXCEPT !.out = b, !.tx = x]
<1>0. c \in Context /\ c.tx \in Going
  BY ContextFields DEF TxReady
<1>1. b \in Sent
  BY <1>0, TxBurstSent DEF TxReady
<1>2. x \in Going /\ x.active
  <2>1. id \in 0..MaxId
    BY MaxIdNat
  <2>2. c.tx.active = TRUE
    BY <1>0 DEF Going
  <2> QED  BY <1>0, <2>1, <2>2 DEF Going
<1>3. d = f
  BY <1>0 DEF TxNextBurst, Context
<1>4. f \in Context /\ f.tx = x /\ f.out = b /\ f.state = c.state /\ f.rx = c.rx
  <2> HIDE DEF x, b
  <2> QED  BY <1>0, <1>1, <1>2 DEF Context
<1>5. /\ d.tx = [c.tx EXCEPT !.id = id] /\ d.state = c.state /\ d.rx = c.rx
  BY <1>3, <1>4
<1>6. d.tx \in Going /\ d.tx.active
  BY <1>3, <1>4, <1>2
<1>7. d \in Context
  BY <1>3, <1>4
<1> HIDE DEF d
<1>8. TxSound(d.tx)
  BY <1>0, <1>5 DEF TxReady, TxSound, Going, SeqLen, NoId
<1>9. d.tx.maps = c.tx.maps /\ d.tx.follow = c.tx.follow
  BY <1>0, <1>5 DEF Going
<1>10. Sound(d)
  BY <1>5, <1>6, <1>7, <1>8, <1>9 DEF Sound, SoundParts, TxReady
<1> QED  BY <1>10 DEF d

LEMMA TxRestartHandled ==
  ASSUME NEW c, SoundParts(c), c.out = Silent, c.tx.active, NEW id \in 0..MaxId,
         NEW list \in Seq(Nat),
         \A i \in DOMAIN list : list[i] \in 0..(NBlocks(c.tx.msg) - 1)
  PROVE  Handled(TxRestart(c, list, id), id)
<1>1. CASE c.tx.tries >= MaxRetries \/ id = NoId
  BY <1>1, TxFinishHandled DEF TxRestart, Handled
<1>2. CASE ~(c.tx.tries >= MaxRetries \/ id = NoId)
  <2> DEFINE e == [c EXCEPT !.tx.tries = @ + 1, !.tx.list = list,
                            !.tx.phase = "PREAMBLE", !.tx.idx = 0]
             x == [c.tx EXCEPT !.tries = @ + 1, !.list = list,
                               !.phase = "PREAMBLE", !.idx = 0]
             f == [e EXCEPT !.state = "TX_BURST_PENDING"]
  <2>1. c \in Context /\ c.tx \in Going
    BY ContextFields DEF Sound, SoundParts
  <2>2. e = [c EXCEPT !.tx = x]
    BY <2>1 DEF Context, Going
  <2>3. x.tries \in 0..MaxRetries
    <3>1. c.tx.tries \in 0..MaxRetries /\ x.tries = c.tx.tries + 1
      BY <2>1 DEF Going
    <3> QED  BY <1>2, <3>1, DataBounds
  <2>4. x \in Going /\ x.phase = "PREAMBLE" /\ x.active /\ x.list = list
        /\ x.msg = c.tx.msg /\ x.maps = c.tx.maps /\ x.follow = c.tx.follow
    BY <2>1, <2>3 DEF Going, Phases
  <2>5. f \in Context /\ f.tx = x /\ f.rx = c.rx /\ f.out = Silent
        /\ f.state = "TX_BURST_PENDING"
    BY <2>1, <2>2, <2>4 DEF Context, States
  <2>6. TxSound([x EXCEPT !.id = 1])
    <3> HIDE DEF x
    <3>1. Len(x.maps) <= x.follow
      BY <2>4 DEF Sound, SoundParts, TxSound
    <3> QED  BY <2>4, <3>1 DEF TxSound, Going, NoId
  <2>7. TxReady(f)
    BY <2>4, <2>5, <2>6 DEF TxReady, SoundParts
  <2>8. id \in 1..MaxId
    BY <1>2 DEF NoId
  <2>9. Sound(TxNextBurst(f, id))
    BY <2>5, <2>7, <2>8, TxNextBurstHandled
  <2>10. TxRestart(c, list, id) = TxNextBurst(f, id)
    <3>1. TxRestart(c, list, id) = [TxNextBurst(e, id) EXCEPT !.state = "TX_BURST_PENDING"]
      BY <1>2 DEF TxRestart
    <3>2. f.tx = x /\ e.tx = x
      BY <2>1, <2>2 DEF Context
    <3> DEFINE y == [x EXCEPT !.id = id]
               b == TxBurst(x)
    <3>3. TxNextBurst(e, id) = [[c EXCEPT !.tx = x] EXCEPT !.out = b, !.tx = y]
      <4> HIDE DEF x, b, e
      <4> QED  BY <2>1, <2>2, <3>2 DEF TxNextBurst, Context, b
    <3>4. TxNextBurst(f, id)
            = [[[c EXCEPT !.tx = x] EXCEPT !.state = "TX_BURST_PENDING"]
                 EXCEPT !.out = b, !.tx = y]
      <4>1. f = [[c EXCEPT !.tx = x] EXCEPT !.state = "TX_BURST_PENDING"]
        BY <2>2
      <4> HIDE DEF x, b, f
      <4> QED  BY <2>1, <3>2, <4>1 DEF TxNextBurst, Context, b
    <3> HIDE DEF x, y, b, e, f
    <3> QED  BY <3>1, <3>3, <3>4, <2>1 DEF Context
  <2> QED  BY <1>2, <2>9, <2>10 DEF Handled
<1> QED  BY <1>1, <1>2

\* Handlers that leave all but a timer as it is.
LEMMA TimerHandled ==
  ASSUME NEW c, Sound(c), c.out = Silent, NEW tm \in [Timers -> Timer]
  PROVE  Sound([c EXCEPT !.tmr = tm]) /\ [c EXCEPT !.tmr = tm].out = Silent
<1> DEFINE d == [c EXCEPT !.tmr = tm]
<1>1. d \in Context /\ d.tx = c.tx /\ d.rx = c.rx /\ d.state = c.state
      /\ d.out = c.out
  BY DEF Sound, SoundParts, Context
<1> QED  BY <1>1 DEF Sound, SoundParts

LEMMA TxRetryHandled ==
  ASSUME NEW c, Sound(c), c.out = Silent, c.tx.active, NEW id \in 0..MaxId
  PROVE  Handled(TxRetry(c, id), id)
<1> DEFINE tm == Disarm(c.tmr, "response")
           d == [c EXCEPT !.tmr = tm]
<1>1. c \in Context /\ c.tx \in Going /\ TxSound(c.tx)
  BY ContextFields DEF Sound, SoundParts
<1>2. tm \in [Timers -> Timer]
  BY <1>1, ContextFields, TimersTyped DEF Timers
<1>3. Sound(d) /\ d.out = Silent
  BY <1>2, TimerHandled
<1>4. d.tx = c.tx
  BY <1>1 DEF Context
<1>5. c.tx.list \in Seq(Nat)
      /\ \A i \in DOMAIN c.tx.list : c.tx.list[i] \in 0..(NBlocks(c.tx.msg) - 1)
  BY <1>1 DEF Going, TxSound
<1> HIDE DEF d
<1>6. Handled(TxRestart(d, c.tx.list, id), id)
  BY <1>1, <1>3, <1>4, <1>5, TxRestartHandled DEF Sound
<1> QED  BY <1>6 DEF TxRetry, d

LEMMA AdvanceHandled ==
  ASSUME NEW c, Sound(c), c.out = Silent, c.tx.active, NEW id \in 0..MaxId,
         NEW phase \in {"HEADER", "BLOCKS"}, NEW idx \in Nat,
         phase = "BLOCKS" => idx \in 0..(SeqLen(c.tx) - 1)
  PROVE  Handled(Advance(c, phase, idx, id), id)
<1> DEFINE x == [c.tx EXCEPT !.phase = phase, !.idx = idx]
           d == [c EXCEPT !.tx = x]
<1>1. c \in Context /\ c.tx \in Going /\ TxSound(c.tx)
  BY ContextFields DEF Sound, SoundParts
<1>2. x \in Going /\ x.active /\ x.phase = phase /\ x.idx = idx
      /\ x.list = c.tx.list /\ x.msg = c.tx.msg /\ x.maps = c.tx.maps
      /\ x.follow = c.tx.follow /\ x.id = c.tx.id
  BY <1>1 DEF Going, Phases
<1>3. d = [c EXCEPT !.tx.phase = phase, !.tx.idx = idx]
  BY <1>1 DEF Context, Going
<1>4. d \in Context /\ d.tx = x /\ d.rx = c.rx /\ d.out = Silent
      /\ d.state = c.state
  BY <1>1, <1>2 DEF Context
<1>5. TxSound(x) /\ TxSound([x EXCEPT !.id = 1])
  <2>1. SeqLen(x) = SeqLen(c.tx)
    BY <1>2 DEF SeqLen
  <2> DEFINE y == [x EXCEPT !.id = 1]
  <2>2. y.phase = x.phase /\ y.idx = x.idx /\ y.list = x.list
        /\ y.msg = x.msg /\ y.maps = x.maps /\ y.follow = x.follow /\ y.id # NoId
    BY <1>2 DEF Going, NoId
  <2>3. SeqLen(y) = SeqLen(x)
    BY <2>2 DEF SeqLen
  <2> HIDE DEF x, y
  <2>4. TxSound(x)
    BY <1>1, <1>2, <2>1 DEF TxSound
  <2>5. TxSound(y)
    BY <2>2, <2>3, <2>4 DEF TxSound
  <2> QED  BY <2>4, <2>5 DEF y
<1> HIDE DEF x
<1>6. Sound(d) /\ TxReady(d)
  BY <1>2, <1>4, <1>5 DEF Sound, SoundParts, TxReady
<1> HIDE DEF d
<1>7. CASE id = NoId
  <2>1. Advance(c, phase, idx, id) = TxFinish(d, FALSE)
    BY <1>3, <1>7 DEF Advance
  <2> QED  BY <1>4, <1>6, <2>1, TxFinishHandled DEF Handled, Sound
<1>8. CASE id # NoId
  <2>1. Advance(c, phase, idx, id) = TxNextBurst(d, id)
    BY <1>3, <1>8 DEF Advance
  <2>2. id \in 1..MaxId
    BY <1>8 DEF NoId
  <2>3. Sound(TxNextBurst(d, id))
    BY <1>6, <2>2, TxNextBurstHandled DEF Sound, SoundParts
  <2> QED  BY <1>8, <2>1, <2>3 DEF Handled
<1> QED  BY <1>7, <1>8

LEMMA SequenceSentHandled ==
  ASSUME NEW c, Sound(c), c.out = Silent, c.tx.active
  PROVE  Sound(SequenceSent(c)) /\ SequenceSent(c).out = Silent
<1>1. CASE ~Confirmed(c.tx.msg)
  BY <1>1, TxFinishHandled DEF SequenceSent, Sound
<1>2. CASE Confirmed(c.tx.msg)
  <2> DEFINE x == [c.tx EXCEPT !.phase = "DONE", !.list = <<>>]
             tm == Arm(c.tmr, "response", 0)
             d == [c EXCEPT !.tx = x, !.state = "TX_WAIT_ACK", !.tmr = tm]
  <2>1. c \in Context /\ c.tx \in Going /\ TxSound(c.tx)
    BY ContextFields DEF Sound, SoundParts
  <2>2. tm \in [Timers -> Timer]
    BY <2>1, ContextFields, TimersTyped DEF Timers
  <2>3. x \in Going /\ x.active /\ x.phase = "DONE" /\ x.list = <<>>
        /\ x.maps = c.tx.maps /\ x.follow = c.tx.follow /\ x.id = c.tx.id
    <3>1. <<>> \in Seq(Nat) /\ "DONE" \in Phases
      BY EmptySeq DEF Phases
    <3> QED  BY <2>1, <3>1 DEF Going
  <2>4. TxSound(x)
    <3> HIDE DEF x
    <3> QED  BY <2>1, <2>3 DEF TxSound
  <2>5. SequenceSent(c) = d
    BY <1>2, <2>1 DEF SequenceSent, Context, Going
  <2>6. d \in Context /\ d.tx = x /\ d.rx = c.rx /\ d.out = Silent
        /\ d.state = "TX_WAIT_ACK"
    <3> HIDE DEF x, tm
    <3> QED  BY <2>1, <2>2, <2>3 DEF Context, States
  <2> HIDE DEF d
  <2>7. Sound(d)
    BY <2>3, <2>4, <2>6 DEF Sound, SoundParts
  <2> QED  BY <2>5, <2>6, <2>7
<1> QED  BY <1>1, <1>2

\* Bitmaps(m) is 1 or 2.
LEMMA HandleSackTxConfHandled ==
  ASSUME NEW c, Sound(c), c.out = Silent, NEW cf \in Confs, OwnSack(c, cf),
         NEW id \in 0..MaxId
  PROVE  Handled(HandleSackTxConf(c, cf, id), id)
<1>1. c \in Context /\ c.rx \in Taking /\ RxSound(c.rx)
  BY ContextFields DEF Sound, SoundParts, OwnSack
<1> DEFINE stops == ~cf.ok \/ c.rx.sack.phase >= Bitmaps(c.rx.msg) \/ id = NoId
           d == HandleSackTxConf(c, cf, id)
<1>2. CASE stops
  <2> DEFINE y == [c.rx EXCEPT !.sack = NoSack]
  <2>1. y \in Taking /\ y.active /\ y.seen = c.rx.seen /\ y.msg = c.rx.msg
        /\ y.sack = NoSack
    <3>1. NoSack \in [phase : 0..2, id : 0..MaxId]
      BY MaxIdNat DEF NoSack, NoId
    <3> QED  BY <1>1, <3>1 DEF Taking
  <2>2. d = [c EXCEPT !.rx = y]
    BY <1>1, <1>2 DEF HandleSackTxConf, Context, Taking
  <2> HIDE DEF y
  <2>3. d \in Context /\ d.tx = c.tx /\ d.rx = y /\ d.state = c.state
        /\ d.out = c.out
    BY <1>1, <2>1, <2>2 DEF Context
  <2>4. RxSound(y)
    BY <1>1, <2>1 DEF RxSound
  <2> HIDE DEF d
  <2> QED  BY <2>1, <2>3, <2>4 DEF Sound, SoundParts, Handled, d
<1>3. CASE ~stops
  <2> DEFINE k == [phase |-> c.rx.sack.phase + 1, id |-> id]
             y == [c.rx EXCEPT !.sack = k]
             missing == InHalf(c.rx.msg, c.rx.sack.phase) \ c.rx.seen
             zeros == {i % Half : i \in missing}
  <2>1. c.rx.sack.phase + 1 \in 0..Bitmaps(c.rx.msg)
        /\ c.rx.sack.phase + 1 \in 0..2
    <3>1. c.rx.sack.phase \in 0..2
      BY <1>1 DEF Taking
    <3>2. Bitmaps(c.rx.msg) \in 1..2
      BY DEF Bitmaps
    <3>3. ~(c.rx.sack.phase >= Bitmaps(c.rx.msg))
      BY <1>3
    <3> QED  BY <3>1, <3>2, <3>3
  <2>2. k \in [phase : 0..2, id : 0..MaxId] /\ k.phase = c.rx.sack.phase + 1
        /\ k.id # NoId
    BY <1>3, <2>1
  <2> HIDE DEF k
  <2>3. y \in Taking /\ y.active /\ y.seen = c.rx.seen /\ y.msg = c.rx.msg
        /\ y.sack = k
    BY <1>1, <2>2 DEF Taking
  <2>4. \A i \in missing : i \in Int
    BY DEF InHalf
  <2>5. \A i \in missing : i % Half \in 0..(Half - 1)
    BY <2>4, DataBounds
  <2> HIDE DEF missing
  <2>6. zeros \in SUBSET (0..(Half - 1))
    BY <2>5
  <2> HIDE DEF zeros
  <2>7. Rdata(zeros) \in Sent
    BY <2>6, RdataSent
  <2>8. d = [c EXCEPT !.rx = y, !.out = Rdata(zeros)]
    BY <1>1, <1>3 DEF HandleSackTxConf, Context, Taking, missing, zeros, k
  <2> HIDE DEF y
  <2>9. d \in Context /\ d.tx = c.tx /\ d.rx = y /\ d.state = c.state
    BY <1>1, <2>3, <2>7, <2>8 DEF Context
  <2>10. RxSound(y)
    BY <1>1, <2>1, <2>2, <2>3 DEF RxSound
  <2> HIDE DEF d
  <2>11. id # NoId
    BY <1>3
  <2> QED  BY <2>3, <2>9, <2>10, <2>11 DEF Sound, SoundParts, Handled, d
<1> HIDE DEF stops
<1> QED  BY <1>2, <1>3

LEMMA HandleTxConfHandled ==
  ASSUME NEW c, Sound(c), c.out = Silent, NEW cf \in Confs,
         NEW id \in 0..MaxId
  PROVE  Handled(HandleTxConf(c, cf, id), id)
<1>0. Handled(c, id)
  BY DEF Handled
<1>1. CASE OwnSack(c, cf)
  BY <1>1, HandleSackTxConfHandled DEF HandleTxConf
<1>2. CASE ~OwnSack(c, cf) /\ (~c.tx.active \/ cf.id # c.tx.id)
  BY <1>0, <1>2 DEF HandleTxConf
<1>3. CASE ~OwnSack(c, cf) /\ c.tx.active /\ cf.id = c.tx.id
  <2>1. c.tx \in Going /\ TxSound(c.tx)
    BY <1>3, ContextFields DEF Sound, SoundParts
  <2>2. c.tx.phase \in Phases /\ c.tx.idx \in Nat /\ c.tx.list \in Seq(Nat)
        /\ NBlocks(c.tx.msg) \in Nat
    BY <2>1, NBlocksNat DEF Going
  <2>3. SeqLen(c.tx) \in Nat
    BY <2>2 DEF SeqLen
  <2>4. CASE ~cf.ok /\ Confirmed(c.tx.msg)
    BY <1>3, <2>4, TxRetryHandled DEF HandleTxConf
  <2>5. CASE ~cf.ok /\ ~Confirmed(c.tx.msg)
    <3>1. HandleTxConf(c, cf, id) = TxFinish(c, FALSE)
      BY <1>3, <2>5 DEF HandleTxConf
    <3>2. Sound(TxFinish(c, FALSE)) /\ TxFinish(c, FALSE).out = Silent
      BY TxFinishHandled DEF Sound
    <3> QED  BY <3>1, <3>2 DEF Handled
  <2>6. CASE cf.ok /\ c.tx.phase = "PREAMBLE"
    <3>1. HandleTxConf(c, cf, id) = Advance(c, "HEADER", 0, id)
      BY <1>3, <2>6 DEF HandleTxConf
    <3> QED  BY <1>3, <3>1, AdvanceHandled
  <2>7. CASE cf.ok /\ c.tx.phase = "HEADER" /\ NBlocks(c.tx.msg) = 0
    <3>1. HandleTxConf(c, cf, id) = SequenceSent(c)
      BY <1>3, <2>7 DEF HandleTxConf
    <3> QED  BY <1>3, <3>1, SequenceSentHandled DEF Handled
  <2>8. CASE cf.ok /\ c.tx.phase = "HEADER" /\ NBlocks(c.tx.msg) > 0
    <3>1. HandleTxConf(c, cf, id) = Advance(c, "BLOCKS", 0, id)
      BY <1>3, <2>2, <2>8 DEF HandleTxConf
    <3>2. SeqLen(c.tx) > 0
      BY <2>2, <2>8 DEF SeqLen
    <3>3. 0 \in 0..(SeqLen(c.tx) - 1)
      BY <2>3, <3>2
    <3> QED  BY <1>3, <3>1, <3>3, AdvanceHandled
  <2>9. CASE cf.ok /\ c.tx.phase = "BLOCKS" /\ c.tx.idx + 1 = SeqLen(c.tx)
    <3>1. HandleTxConf(c, cf, id) = SequenceSent(c)
      BY <1>3, <2>9 DEF HandleTxConf
    <3> QED  BY <1>3, <3>1, SequenceSentHandled DEF Handled
  <2>10. CASE cf.ok /\ c.tx.phase = "BLOCKS" /\ c.tx.idx + 1 # SeqLen(c.tx)
    <3>1. HandleTxConf(c, cf, id) = Advance(c, "BLOCKS", c.tx.idx + 1, id)
      BY <1>3, <2>10 DEF HandleTxConf
    <3>2. c.tx.idx \in 0..(SeqLen(c.tx) - 1)
      BY <2>1, <2>10 DEF TxSound
    <3>3. c.tx.idx + 1 \in 0..(SeqLen(c.tx) - 1) /\ c.tx.idx + 1 \in Nat
      BY <2>3, <2>10, <3>2
    <3> QED  BY <1>3, <3>1, <3>3, AdvanceHandled
  <2>11. CASE cf.ok /\ c.tx.phase = "DONE"
    BY <1>0, <1>3, <2>11 DEF HandleTxConf
  <2> QED  BY <2>2, <2>4, <2>5, <2>6, <2>7, <2>8, <2>9, <2>10, <2>11 DEF Phases
<1> QED  BY <1>1, <1>2, <1>3

LEMMA ResponseTimeoutHandled ==
  ASSUME NEW c, Sound(c), c.out = Silent, NEW id \in 0..MaxId
  PROVE  Handled(ResponseTimeout(c, id), id)
  BY TxRetryHandled DEF ResponseTimeout, Handled

LEMMA RxResponseHandled ==
  ASSUME NEW c, Sound(c), c.out = Silent, NEW b \in Sent,
         b.kind = "response", NEW r \in Radios, NEW id \in 0..MaxId
  PROVE  Handled(RxResponse(c, b, r, id), id)
<1> DEFINE ignored == \/ ~c.tx.active \/ c.state # "TX_WAIT_ACK" \/ b.to # r
                      \/ ~Confirmed(c.tx.msg)
<1>0. Handled(c, id)
  BY DEF Handled
<1>1. CASE ignored
  BY <1>0, <1>1 DEF RxResponse
<1>2. CASE ~ignored /\ b.class = "ACK"
  <2>1. RxResponse(c, b, r, id) = TxFinish(c, TRUE)
    BY <1>2 DEF RxResponse
  <2> QED  BY <2>1, TxFinishHandled DEF Handled, Sound
<1>3. CASE ~ignored /\ b.class = "NACK"
  <2>1. RxResponse(c, b, r, id) = TxRetry(c, id)
    BY <1>3 DEF RxResponse
  <2> QED  BY <1>3, <2>1, TxRetryHandled
<1>4. CASE ~ignored /\ b.class = "SACK"
  <2> DEFINE x == [c.tx EXCEPT !.follow = b.follow, !.maps = <<>>]
             tm == Arm(c.tmr, "response", 0)
             d == [c EXCEPT !.tx = x, !.state = "TX_WAIT_SACK_DATA", !.tmr = tm]
  <2>1. c \in Context /\ c.tx \in Going /\ TxSound(c.tx)
    BY <1>4, ContextFields DEF Sound, SoundParts
  <2>2. tm \in [Timers -> Timer]
    BY <2>1, ContextFields, TimersTyped DEF Timers
  <2>3. b.follow \in 1..2
    BY <1>4, SentFields
  <2>4. <<>> \in Seq(SUBSET Nat) /\ Len(<<>>) = 0
    BY EmptySeq
  <2>5. x \in Going /\ x.active /\ x.phase = c.tx.phase /\ x.list = c.tx.list
        /\ x.idx = c.tx.idx /\ x.msg = c.tx.msg /\ x.maps = <<>>
        /\ x.follow = b.follow /\ x.id = c.tx.id
    <3>1. b.follow \in 0..2
      BY <2>3
    <3> QED  BY <2>1, <2>4, <3>1 DEF Going
  <2>6. RxResponse(c, b, r, id) = d
    BY <1>4, <2>1 DEF RxResponse, Context, Going
  <2> HIDE DEF x, tm
  <2>7. TxSound(x) /\ Len(x.maps) < x.follow
    BY <2>1, <2>3, <2>4, <2>5 DEF TxSound, SeqLen
  <2>8. d \in Context /\ d.tx = x /\ d.rx = c.rx /\ d.out = Silent
        /\ d.state = "TX_WAIT_SACK_DATA"
    BY <2>1, <2>2, <2>5 DEF Context, States
  <2> HIDE DEF d
  <2>9. Sound(d)
    BY <2>5, <2>7, <2>8 DEF Sound, SoundParts
  <2> QED  BY <2>6, <2>8, <2>9 DEF Handled
<1>5. b.class \in {"ACK", "NACK", "SACK"}
  BY SentFields DEF Classes
<1> QED  BY <1>1, <1>2, <1>3, <1>4, <1>5

\* The blocks missing are blocks of the message.
LEMMA MissingBlocks ==
  ASSUME NEW tx \in Going, NEW maps
  PROVE  /\ Missing(tx, maps) \in SUBSET (0..(NBlocks(tx.msg) - 1))
         /\ IsFiniteSet(Missing(tx, maps))
<1>1. NBlocks(tx.msg) \in Nat
  BY NBlocksNat DEF Going
<1>2. Missing(tx, maps) \in SUBSET (0..(NBlocks(tx.msg) - 1))
  BY DEF Missing
<1>3. IsFiniteSet(0..(NBlocks(tx.msg) - 1))
  BY <1>1, FS_Interval
<1> QED  BY <1>2, <1>3, FS_Subset

LEMMA RxSackDataHandled ==
  ASSUME NEW c, Sound(c), c.out = Silent, c.state = "TX_WAIT_SACK_DATA",
         NEW zeros \in SUBSET Nat, NEW id \in 0..MaxId
  PROVE  Handled(RxSackData(c, zeros, id), id)
<1> DEFINE maps == Append(c.tx.maps, zeros)
           missing == Missing(c.tx, maps)
           x == [c.tx EXCEPT !.maps = maps]
           d == [c EXCEPT !.tx = x]
<1>1. c \in Context /\ c.tx.active /\ c.tx \in Going /\ TxSound(c.tx)
      /\ Len(c.tx.maps) < c.tx.follow
  BY ContextFields DEF Sound, SoundParts
<1>2. maps \in Seq(SUBSET Nat) /\ Len(maps) = Len(c.tx.maps) + 1
  <2>1. c.tx.maps \in Seq(SUBSET Nat)
    BY <1>1 DEF Going
  <2> QED  BY <2>1, AppendProperties
<1>3. Len(maps) <= c.tx.follow /\ c.tx.follow \in Nat /\ Len(maps) \in Nat
  <2>1. c.tx.maps \in Seq(SUBSET Nat) /\ c.tx.follow \in 0..2
    BY <1>1 DEF Going
  <2> QED  BY <1>1, <1>2, <2>1
<1>4. x \in Going /\ x.active /\ x.phase = c.tx.phase /\ x.list = c.tx.list
      /\ x.idx = c.tx.idx /\ x.msg = c.tx.msg /\ x.maps = maps
      /\ x.follow = c.tx.follow /\ x.id = c.tx.id
  BY <1>1, <1>2 DEF Going
<1>5. d = [c EXCEPT !.tx.maps = maps]
  BY <1>1 DEF Context, Going
<1> HIDE DEF maps, x
<1>6. TxSound(x)
  BY <1>1, <1>3, <1>4 DEF TxSound, SeqLen
<1>7. d \in Context /\ d.tx = x /\ d.rx = c.rx /\ d.out = Silent
      /\ d.state = c.state
  BY <1>1, <1>4 DEF Context
<1>8. CASE Len(maps) < c.tx.follow
  <2>1. RxSackData(c, zeros, id) = d
    BY <1>3, <1>5, <1>8 DEF RxSackData, maps
  <2> HIDE DEF d
  <2>2. Sound(d)
    BY <1>4, <1>6, <1>7, <1>8 DEF Sound, SoundParts
  <2> QED  BY <1>7, <2>1, <2>2 DEF Handled
<1>9. CASE ~(Len(maps) < c.tx.follow) /\ missing = {}
  <2>1. RxSackData(c, zeros, id) = TxFinish(c, TRUE)
    BY <1>3, <1>9 DEF RxSackData, maps
  <2> QED  BY <2>1, TxFinishHandled DEF Handled, Sound
<1>10. CASE ~(Len(maps) < c.tx.follow) /\ missing # {}
  <2> DEFINE list == Ascending(missing)
  <2>1. RxSackData(c, zeros, id) = TxRestart(d, list, id)
    BY <1>3, <1>5, <1>10 DEF RxSackData, maps
  <2>2. missing \in SUBSET (0..(NBlocks(c.tx.msg) - 1)) /\ IsFiniteSet(missing)
    BY <1>1, MissingBlocks
  <2> HIDE DEF missing
  <2>3. missing \in SUBSET Nat
    BY <2>2
  <2>4. list \in Seq(missing) /\ \A i \in DOMAIN list : list[i] \in missing
    BY <2>2, <2>3, AscendingLists
  <2> HIDE DEF list
  <2>5. list \in Seq(Nat)
    BY <2>3, <2>4, SeqMonotonic
  <2> HIDE DEF d
  <2>6. SoundParts(d)
    BY <1>4, <1>6, <1>7 DEF Sound, SoundParts
  <2>7. Handled(TxRestart(d, list, id), id)
    BY <1>4, <1>7, <2>2, <2>4, <2>5, <2>6, TxRestartHandled
  <2> QED  BY <2>1, <2>7
<1> QED  BY <1>8, <1>9, <1>10

\* A radio that forgets its reassembly, and perhaps delivers, responds.
LEMMA RxConcludeHandled ==
  ASSUME NEW c, SoundParts(c), c.out = Silent, c.rx.active,
         NEW delivers \in BOOLEAN, NEW id \in 0..MaxId
  PROVE  Handled(RxConclude(c, delivers, id), id)
<1> DEFINE m == c.rx.msg
           d == IF delivers THEN Deliver(c, m) ELSE c
           e == [d EXCEPT !.rx = NoRx, !.state = "IDLE"]
           class == IF c.rx.failed THEN "NACK" ELSE "ACK"
<1>1. c \in Context /\ c.rx \in Taking /\ m \in Messages
  BY ContextFields DEF SoundParts, Taking
<1>2. d \in Context /\ d.tx = c.tx /\ d.out = Silent
  <2>1. c.copies \in [Messages -> Nat]
    BY <1>1, ContextFields
  <2>2. [c.copies EXCEPT ![m] = @ + 1] \in [Messages -> Nat]
    BY <1>1, <2>1
  <2>3. Deliver(c, m) = [c EXCEPT !.copies = [c.copies EXCEPT ![m] = @ + 1]]
    BY <1>1 DEF Deliver, Context
  <2> HIDE DEF m
  <2>4. Deliver(c, m) \in Context /\ Deliver(c, m).tx = c.tx
        /\ Deliver(c, m).out = c.out
    BY <1>1, <2>2, <2>3 DEF Context
  <2> QED  BY <1>1, <2>4
<1> HIDE DEF d, m
<1>3. e \in Context /\ e.tx = c.tx /\ e.rx = NoRx /\ e.out = Silent
      /\ e.state = "IDLE"
  BY <1>2 DEF Context, States
<1>4. Sound(e)
  BY <1>3 DEF Sound, SoundParts, NoRx
<1>5. CASE ~Confirmed(m) \/ id = NoId
  <2>1. RxConclude(c, delivers, id) = e
    BY <1>5 DEF RxConclude, Respond, d, m
  <2> QED  BY <1>3, <1>4, <2>1 DEF Handled
<1>6. CASE Confirmed(m) /\ id # NoId
  <2> DEFINE b == Response(m, class, 0)
             f == [e EXCEPT !.out = b]
  <2>1. RxConclude(c, delivers, id) = f
    BY <1>6 DEF RxConclude, Respond, d, m
  <2>2. class \in Classes /\ class # "SACK"
    BY DEF Classes
  <2> HIDE DEF class
  <2>3. b \in Sent
    BY <1>1, <2>2, ResponseSent
  <2> HIDE DEF b, e
  <2>4. f \in Context /\ f.tx = c.tx /\ f.rx = NoRx /\ f.state = "IDLE"
    BY <1>3, <2>3 DEF Context
  <2> HIDE DEF f
  <2>5. Sound(f)
    BY <1>3, <1>4, <2>4 DEF Sound, SoundParts
  <2> QED  BY <1>6, <2>1, <2>5 DEF Handled
<1> QED  BY <1>5, <1>6

\* A reassembly takes the place of the one there was.
LEMMA ReassemblySound ==
  ASSUME NEW c, SoundParts(c), c.out = Silent, NEW m \in Messages
  PROVE  LET d == [c EXCEPT !.rx = Reassembly(m)] IN
         /\ SoundParts(d) /\ d.out = Silent /\ d.rx = Reassembly(m)
         /\ d.rx.active /\ d.tx = c.tx /\ d.state = c.state /\ d.tmr = c.tmr
<1> DEFINE y == Reassembly(m)
           d == [c EXCEPT !.rx = y]
<1>1. NoSack \in [phase : 0..2, id : 0..MaxId]
  BY MaxIdNat DEF NoSack, NoId
<1>2. y \in Taking /\ y.active /\ y.seen = {} /\ y.sack = NoSack
  BY <1>1, MsgAssumption DEF Reassembly, Taking
<1>3. RxSound(y)
  BY <1>2 DEF RxSound
<1> HIDE DEF y
<1>4. d \in Context /\ d.tx = c.tx /\ d.rx = y /\ d.out = Silent
      /\ d.state = c.state /\ d.tmr = c.tmr
  BY <1>2 DEF Context, SoundParts
<1>5. SoundParts(d)
  BY <1>2, <1>3, <1>4 DEF SoundParts
<1> QED  BY <1>2, <1>4, <1>5 DEF y

LEMMA RxStartHandled ==
  ASSUME NEW c, Sound(c), c.out = Silent, NEW b \in Sent,
         b.kind = "header", NEW id \in 0..MaxId
  PROVE  Handled(RxStart(c, b, id), id)
<1> DEFINE d == [c EXCEPT !.rx = Reassembly(b.msg)]
           tm == Arm(c.tmr, "rx_stall", 0)
<1>1. b.msg \in Messages
  BY SentFields
<1>2. /\ SoundParts(d) /\ d.out = Silent /\ d.rx = Reassembly(b.msg)
      /\ d.rx.active /\ d.tx = c.tx /\ d.tmr = c.tmr
  BY <1>1, ReassemblySound DEF Sound
<1>3. tm \in [Timers -> Timer] /\ c \in Context
  BY ContextFields, TimersTyped DEF Sound, SoundParts, Timers
<1>4. CASE Continues(c, b)
  <2>1. RxStart(c, b, id) = [c EXCEPT !.tmr = tm]
    BY <1>3, <1>4 DEF RxStart
  <2> QED  BY <1>3, <2>1, TimerHandled DEF Handled
<1>5. CASE ~Continues(c, b) /\ Announced(b.msg) = 0
  <2>1. RxStart(c, b, id) = RxConclude(d, TRUE, id)
    BY <1>5 DEF RxStart
  <2> HIDE DEF d
  <2> QED  BY <1>2, <2>1, RxConcludeHandled
<1>6. CASE ~Continues(c, b) /\ Announced(b.msg) # 0
  <2> HIDE DEF d
  <2> DEFINE e == [d EXCEPT !.state = "RX_REASSEMBLE", !.tmr = tm]
  <2>1. d \in Context
    BY <1>2 DEF SoundParts
  <2>2. RxStart(c, b, id) = e
    BY <1>2, <1>6, <2>1 DEF RxStart, d, Context
  <2> HIDE DEF tm
  <2>3. e \in Context /\ e.tx = d.tx /\ e.rx = d.rx /\ e.out = Silent
        /\ e.state = "RX_REASSEMBLE"
    BY <1>2, <1>3, <2>1 DEF Context, States
  <2> HIDE DEF e
  <2>4. Sound(e)
    BY <1>2, <2>3 DEF Sound, SoundParts
  <2> QED  BY <2>2, <2>3, <2>4 DEF Handled
<1> QED  BY <1>4, <1>5, <1>6

LEMMA SendSackHandled ==
  ASSUME NEW c, Sound(c), c.out = Silent, c.rx.active, NEW id \in 0..MaxId
  PROVE  Handled(SendSack(c, id), id)
<1>1. c \in Context /\ c.rx \in Taking /\ RxSound(c.rx) /\ c.rx.msg \in Messages
  BY ContextFields DEF Sound, SoundParts, Taking
<1> DEFINE k == IF id = NoId THEN NoSack ELSE [phase |-> 0, id |-> id]
           y == [c.rx EXCEPT !.sack = k]
           b == Response(c.rx.msg, "SACK", Bitmaps(c.rx.msg))
           o == IF id = NoId THEN Silent ELSE b
           d == [c EXCEPT !.rx = y, !.out = o]
<1>2. SendSack(c, id) = d
  BY <1>1 DEF SendSack, Context, Taking
<1>3. Bitmaps(c.rx.msg) \in 1..2
  BY DEF Bitmaps
<1>4. k \in [phase : 0..2, id : 0..MaxId]
      /\ (k # NoSack => k.phase \in 0..Bitmaps(c.rx.msg) /\ k.id # NoId)
  BY <1>3, MaxIdNat DEF NoSack, NoId
<1>5. o \in Sent /\ (id = NoId => o = Silent)
  <2>1. Bitmaps(c.rx.msg) \in 0..2 /\ Bitmaps(c.rx.msg) # 0 /\ "SACK" \in Classes
    BY <1>3 DEF Classes
  <2>2. b \in Sent
    BY <1>1, <2>1, ResponseSent
  <2> HIDE DEF b
  <2> QED  BY <2>2, SilentSent
<1> HIDE DEF k, o
<1>6. y \in Taking /\ y.active /\ y.seen = c.rx.seen /\ y.msg = c.rx.msg
      /\ y.sack = k
  BY <1>1, <1>4 DEF Taking
<1> HIDE DEF y
<1>7. RxSound(y)
  BY <1>1, <1>4, <1>6 DEF RxSound
<1>8. d \in Context /\ d.tx = c.tx /\ d.rx = y /\ d.out = o /\ d.state = c.state
  BY <1>1, <1>5, <1>6 DEF Context
<1> HIDE DEF d
<1> QED  BY <1>2, <1>5, <1>6, <1>7, <1>8 DEF Handled, Sound, SoundParts

\* A block noted leaves the numbers seen within the message.
LEMMA AccumulateSound ==
  ASSUME NEW rx \in Taking, RxSound(rx), NEW lead, lead.no \in Nat
  PROVE  LET y == Accumulate(rx, lead) IN
         /\ y \in Taking /\ RxSound(y) /\ y.msg = rx.msg /\ y.sack = rx.sack
         /\ y.active /\ y.seen \subseteq rx.seen \union {lead.no}
         /\ rx.failed => y.failed
<1> DEFINE y == Accumulate(rx, lead)
<1>1. CASE lead.no < Announced(rx.msg)
  <2>1. y = [rx EXCEPT !.seen = rx.seen \union {lead.no}]
    BY <1>1 DEF Accumulate, Taking
  <2>2. Announced(rx.msg) \in Nat
    BY NBlocksNat, DataBounds DEF Announced, Taking
  <2>3. lead.no \in 0..(Announced(rx.msg) - 1)
    BY <1>1, <2>2
  <2>4. rx.seen \union {lead.no} \subseteq 0..(Announced(rx.msg) - 1)
    BY <2>3 DEF RxSound
  <2>5. rx.seen \union {lead.no} \in SUBSET Nat
    BY DEF Taking
  <2>6. y \in Taking /\ y.msg = rx.msg /\ y.sack = rx.sack /\ y.active
        /\ y.seen = rx.seen \union {lead.no} /\ y.failed = rx.failed
    BY <2>1, <2>5 DEF Taking
  <2> QED  BY <2>4, <2>6 DEF RxSound
<1>2. CASE ~(lead.no < Announced(rx.msg))
  <2>1. y = [rx EXCEPT !.failed = TRUE]
    BY <1>2 DEF Accumulate
  <2>2. y \in Taking /\ y.msg = rx.msg /\ y.sack = rx.sack /\ y.active
        /\ y.seen = rx.seen /\ y.failed
    BY <2>1 DEF Taking
  <2> QED  BY <2>2 DEF RxSound
<1> QED  BY <1>1, <1>2

\* The context that RxBlock goes on with once a block is noted.
Noted(c, lead) ==
  [c EXCEPT !.rx = Accumulate(@, lead), !.tmr = Arm(@, "rx_stall", 0)]

LEMMA NotedSound ==
  ASSUME NEW c, Sound(c), c.out = Silent, c.rx.active, NEW lead, lead.no \in Nat
  PROVE  LET d == Noted(c, lead) IN
         /\ Sound(d) /\ d.out = Silent /\ d.rx = Accumulate(c.rx, lead)
         /\ d.tmr = Arm(c.tmr, "rx_stall", 0)
         /\ d.rx.active /\ d.rx.msg = c.rx.msg /\ d.tx = c.tx
         /\ d.state = c.state /\ d.told = c.told /\ d.copies = c.copies
<1> DEFINE y == Accumulate(c.rx, lead)
           tm == Arm(c.tmr, "rx_stall", 0)
           d == [c EXCEPT !.rx = y, !.tmr = tm]
<1>1. c \in Context /\ c.rx \in Taking /\ RxSound(c.rx)
  BY ContextFields DEF Sound, SoundParts
<1>2. y \in Taking /\ RxSound(y) /\ y.msg = c.rx.msg /\ y.active
  BY <1>1, AccumulateSound
<1>3. tm \in [Timers -> Timer]
  BY <1>1, ContextFields, TimersTyped DEF Timers
<1>4. d = Noted(c, lead)
  BY <1>1 DEF Noted
<1> HIDE DEF y, tm
<1>5. d \in Context /\ d.tx = c.tx /\ d.rx = y /\ d.out = c.out /\ d.tmr = tm
      /\ d.state = c.state /\ d.told = c.told /\ d.copies = c.copies
  BY <1>1, <1>2, <1>3 DEF Context
<1> HIDE DEF d
<1>6. Sound(d)
  BY <1>2, <1>5 DEF Sound, SoundParts
<1> QED  BY <1>2, <1>4, <1>5, <1>6 DEF y, tm

LEMMA RxBlockHandled ==
  ASSUME NEW c, Sound(c), c.out = Silent, NEW lead, lead.no \in Nat,
         lead.last \in BOOLEAN, NEW id \in 0..MaxId
  PROVE  Handled(RxBlock(c, lead, id), id)
<1> DEFINE d == Noted(c, lead)
           whole == Cardinality(d.rx.seen) >= Announced(d.rx.msg)
           sacks == ~whole /\ ~d.rx.failed /\ Confirmed(d.rx.msg)
           e == [d EXCEPT !.tmr = Disarm(@, "rx_stall")]
<1>1. CASE ~c.rx.active
  BY <1>1 DEF RxBlock, Handled
<1>2. CASE c.rx.active
  <2>1. Sound(d) /\ d.out = Silent /\ d.rx.active
    BY <1>2, NotedSound
  <2>2. CASE ~lead.last /\ ~whole
    <3>1. RxBlock(c, lead, id) = d
      BY <1>2, <2>2 DEF RxBlock, Noted
    <3> QED  BY <2>1, <3>1 DEF Handled
  <2>3. CASE (lead.last \/ whole) /\ sacks
    <3>1. RxBlock(c, lead, id) = SendSack(d, id)
      BY <1>2, <2>3 DEF RxBlock, Noted
    <3> HIDE DEF d
    <3> QED  BY <2>1, <3>1, SendSackHandled
  <2>4. CASE (lead.last \/ whole) /\ ~sacks
    <3> DEFINE delivers == whole /\ ~d.rx.failed
    <3>1. RxBlock(c, lead, id) = RxConclude(e, delivers, id)
      BY <1>2, <2>4 DEF RxBlock, Noted
    <3>2. d \in Context
      BY <2>1 DEF Sound, SoundParts
    <3>3. Disarm(d.tmr, "rx_stall") \in [Timers -> Timer]
      BY <3>2, ContextFields, TimersTyped DEF Timers
    <3> HIDE DEF d
    <3>4. Sound(e) /\ e.out = Silent
      BY <2>1, <3>3, TimerHandled
    <3>5. e.rx = d.rx
      BY <3>2 DEF Context
    <3>6. delivers \in BOOLEAN
      OBVIOUS
    <3> HIDE DEF e, delivers
    <3>7. Handled(RxConclude(e, delivers, id), id)
      BY <2>1, <3>4, <3>5, <3>6, RxConcludeHandled DEF Sound
    <3> QED  BY <3>1, <3>7
  <2> HIDE DEF d, whole
  <2> QED  BY <2>2, <2>3, <2>4
<1> QED  BY <1>1, <1>2

LEMMA RxStallTimeoutHandled ==
  ASSUME NEW c, Sound(c), c.out = Silent
  PROVE  Sound(RxStallTimeout(c)) /\ RxStallTimeout(c).out = Silent
<1> DEFINE d == [c EXCEPT !.rx = NoRx, !.state = "IDLE"]
<1>1. d \in Context /\ d.tx = c.tx /\ d.rx = NoRx /\ d.out = Silent
      /\ d.state = "IDLE"
  BY DEF Sound, SoundParts, Context, States
<1>2. Sound(d)
  BY <1>1 DEF Sound, SoundParts, NoRx
<1> QED  BY <1>1, <1>2 DEF RxStallTimeout

\* Whatever is taken for a bitmap says something of blocks of our message.
LEMMA ZerosFit ==
  ASSUME NEW c, NEW b \in Sent, NEW zeros \in Zeros(c, b)
  PROVE  zeros \in SUBSET Nat
<1>1. CASE b.kind = "rdata"
  BY <1>1, SentFields DEF Zeros
<1>2. CASE b.kind = "block" /\ AwaitsBitmap(c, b)
  <2> DEFINE S == {i % Half : i \in 0..(NBlocks(c.tx.msg) - 1)}
  <2>1. \A i \in 0..(NBlocks(c.tx.msg) - 1) : i % Half \in Nat
    BY DataBounds
  <2>2. S \in SUBSET Nat
    BY <2>1
  <2>3. Zeros(c, b) = SUBSET S
    BY <1>2 DEF Zeros
  <2> HIDE DEF S
  <2> QED  BY <2>2, <2>3
<1>3. CASE b.kind # "rdata" /\ ~(b.kind = "block" /\ AwaitsBitmap(c, b))
  BY <1>3 DEF Zeros
<1> QED  BY <1>1, <1>2, <1>3

LEMMA RxBurstHandled ==
  ASSUME NEW c, Sound(c), c.out = Silent, NEW b \in Audible,
         NEW zeros \in Zeros(c, b), NEW r \in Radios, NEW id \in 0..MaxId
  PROVE  Handled(RxBurst(c, b, zeros, r, id), id)
<1>0. b \in Sent /\ b.kind \in {"header", "block", "rdata", "response"}
  BY DEF Audible, Sent, Bursts
<1>1. CASE b.kind = "header"
  BY <1>0, <1>1, RxStartHandled DEF RxBurst, AwaitsBitmap
<1>2. CASE b.kind = "response"
  BY <1>0, <1>2, RxResponseHandled DEF RxBurst, AwaitsBitmap
<1>3. CASE b.kind \in {"block", "rdata"} /\ c.state = "TX_WAIT_SACK_DATA"
  <2>1. RxBurst(c, b, zeros, r, id) = RxSackData(c, zeros, id)
    BY <1>3 DEF RxBurst, AwaitsBitmap
  <2> QED  BY <1>0, <1>3, <2>1, ZerosFit, RxSackDataHandled
<1>4. CASE b.kind \in {"block", "rdata"} /\ c.state # "TX_WAIT_SACK_DATA"
  <2>1. RxBurst(c, b, zeros, r, id) = RxBlock(c, LeadOf(b), id)
    BY <1>4 DEF RxBurst, AwaitsBitmap
  <2>2. LeadOf(b).no \in Nat /\ LeadOf(b).last \in BOOLEAN
    BY <1>0, <1>4, LeadFits
  <2> QED  BY <2>1, <2>2, RxBlockHandled
<1> QED  BY <1>0, <1>1, <1>2, <1>3, <1>4

LEMMA SubmitSound ==
  ASSUME NEW c, Sound(c), c.out = Silent, ~c.tx.active, NEW m \in Messages,
         NEW id \in 1..MaxId
  PROVE  LET d == Submit(c, m, id) IN
         /\ Sound(d) /\ d.out = Preamble
         /\ d.tx.active /\ d.tx.msg = m /\ d.tx.phase = "PREAMBLE" /\ d.tx.tries = 0
         /\ d.state = "TX_BURST_PENDING" /\ d.rx = c.rx /\ d.tmr = c.tmr
         /\ d.told[m] = "sending" /\ \A k \in Messages \ {m} : d.told[k] = c.told[k]
         /\ d.copies = c.copies
<1> DEFINE x == Transfer(m)
           e == [c EXCEPT !.tx = x, !.told[m] = "sending",
                          !.state = "TX_BURST_PENDING"]
<1>1. c \in Context
  BY DEF Sound, SoundParts
<1>2. x \in Going /\ x.active /\ x.phase = "PREAMBLE" /\ x.list = <<>>
      /\ x.maps = <<>> /\ x.follow = 0 /\ x.msg = m /\ x.tries = 0
  <2>1. <<>> \in Seq(Nat) /\ <<>> \in Seq(SUBSET Nat)
    BY EmptySeq
  <2>2. 0 \in 0..MaxRetries /\ NoId \in 0..MaxId /\ "PREAMBLE" \in Phases
    BY DataBounds, MaxIdNat DEF Phases, NoId
  <2> QED  BY <2>1, <2>2 DEF Transfer, Going
<1>3. TxSound([x EXCEPT !.id = 1])
  <2> DEFINE y == [x EXCEPT !.id = 1]
  <2>1. y.id # NoId /\ y.list = <<>> /\ y.phase = "PREAMBLE" /\ y.maps = <<>>
        /\ y.follow = 0
    BY DEF Transfer, NoId
  <2>2. Len(<<>>) = 0 /\ DOMAIN <<>> = {}
    OBVIOUS
  <2> HIDE DEF y
  <2>3. TxSound(y)
    BY <2>1, <2>2 DEF TxSound
  <2> QED  BY <2>3 DEF y
<1>4. [c.told EXCEPT ![m] = "sending"]
        \in [Messages -> {"new", "sending", "ok", "failed"}]
  BY <1>1, ContextFields
<1> HIDE DEF x
<1>5. e \in Context /\ e.tx = x /\ e.rx = c.rx /\ e.out = Silent
      /\ e.state = "TX_BURST_PENDING" /\ e.tmr = c.tmr
      /\ e.told = [c.told EXCEPT ![m] = "sending"] /\ e.copies = c.copies
  BY <1>1, <1>2, <1>4 DEF Context, States
<1> HIDE DEF e
<1>6. TxReady(e)
  BY <1>2, <1>3, <1>5 DEF TxReady, Sound, SoundParts
<1>7. Submit(c, m, id) = TxNextBurst(e, id)
  BY DEF Submit, e, x
<1>8. Sound(TxNextBurst(e, id))
  BY <1>5, <1>6, TxNextBurstHandled
<1>9. TxBurst(e.tx) = Preamble
  BY <1>2, <1>5 DEF TxBurst
<1>10. LET d == TxNextBurst(e, id) IN
       /\ d.out = Preamble /\ d.tx = [x EXCEPT !.id = id] /\ d.state = e.state
       /\ d.rx = e.rx /\ d.tmr = e.tmr /\ d.told = e.told /\ d.copies = e.copies
  BY <1>5, <1>9 DEF TxNextBurst, Context
<1> DEFINE y == [x EXCEPT !.id = id]
<1>11. y.active /\ y.msg = m /\ y.phase = "PREAMBLE" /\ y.tries = 0
  BY <1>2 DEF Going
<1>12. /\ e.told[m] = "sending" /\ \A k \in Messages \ {m} : e.told[k] = c.told[k]
       /\ c.told \in [Messages -> {"new", "sending", "ok", "failed"}]
  BY <1>1, <1>5, ContextFields
<1> QED  BY <1>5, <1>7, <1>8, <1>10, <1>11, <1>12

----------------------------------------------------------------------------
(* The steps keep the types.                                               *)

\* An identifier is always free: fewer are with the MAC, in answers and
\* waited for than there are.
LEMMA FreshIdFree ==
  ASSUME Typed, NEW r \in Radios
  PROVE  /\ FreshId(r) \in 1..MaxId
         /\ ctx[r].tx.active => FreshId(r) # ctx[r].tx.id
         /\ \A i \in DOMAIN mac[r] : FreshId(r) # mac[r][i].id
         /\ \A i \in DOMAIN conf[r] : FreshId(r) # conf[r][i].id
<1> DEFINE c == ctx[r]
           M == Len(mac[r])
           C == Len(conf[r])
           D == 1..(M + C + 2)
           f == [i \in D |-> IF i <= M THEN mac[r][i].id
                             ELSE IF i <= M + C THEN conf[r][i - M].id
                             ELSE IF i = M + C + 1 THEN c.tx.id ELSE c.rx.sack.id]
           S == {f[i] : i \in D}
           taken == ((IF c.tx.active THEN {c.tx.id} ELSE {})
                       \union (IF c.rx.active THEN {c.rx.sack.id} ELSE {}))
                      \union ({mac[r][i].id : i \in DOMAIN mac[r]}
                                \union {conf[r][i].id : i \in DOMAIN conf[r]})
<1>1. /\ M \in Nat /\ C \in Nat /\ M <= MacRoom /\ C <= QDepth
      /\ DOMAIN mac[r] = 1..M /\ DOMAIN conf[r] = 1..C
  <2>1. mac[r] \in Seq([id : 1..MaxId, burst : Sent \ {Silent}])
        /\ conf[r] \in Seq(Confs)
    BY DEF Typed
  <2> QED  BY <2>1 DEF Typed
<1> HIDE DEF M, C
<1>2. taken \subseteq S
  <2>1. \A i \in 1..M : i \in D /\ f[i] = mac[r][i].id
    BY <1>1
  <2>2. \A i \in 1..C : M + i \in D /\ f[M + i] = conf[r][i].id
    <3> TAKE i \in 1..C
    <3>1. M + i \in D /\ ~(M + i <= M) /\ M + i <= M + C /\ M + i - M = i
      BY <1>1
    <3> DEFINE j == M + i
    <3>2. j \in D /\ ~(j <= M) /\ j <= M + C /\ j - M = i
      BY <1>1, <3>1
    <3> HIDE DEF j
    <3>3. f[j] = conf[r][j - M].id
      BY <3>2
    <3> HIDE DEF f, D
    <3>4. f[j] = conf[r][i].id
      BY <3>2, <3>3
    <3> QED  BY <3>2, <3>4 DEF j
  <2>3. M + C + 1 \in D /\ f[M + C + 1] = c.tx.id
    BY <1>1
  <2>4. M + C + 2 \in D /\ f[M + C + 2] = c.rx.sack.id
    BY <1>1
  <2> HIDE DEF f, D
  <2>5. {mac[r][i].id : i \in DOMAIN mac[r]} \subseteq S
    BY <1>1, <2>1
  <2>6. {conf[r][i].id : i \in DOMAIN conf[r]} \subseteq S
    BY <1>1, <2>2
  <2>7. c.tx.id \in S /\ c.rx.sack.id \in S
    BY <2>3, <2>4
  <2> HIDE DEF S
  <2> QED  BY <2>5, <2>6, <2>7
<1>3. IsFiniteSet(D) /\ Cardinality(D) = M + C + 2
  BY <1>1, FS_Interval
<1> HIDE DEF D
<1>4. f \in Surjection(D, S)
  <2>1. f = [i \in D |-> f[i]]
    OBVIOUS
  <2> HIDE DEF f
  <2>2. f \in [D -> S]
    BY <2>1
  <2> QED  BY <2>2 DEF Surjection
<1> HIDE DEF f
<1>5. IsFiniteSet(S) /\ Cardinality(S) <= M + C + 2
  BY <1>3, <1>4, FS_Surjection
<1> HIDE DEF S
<1>6. \E n \in 1..MaxId : n \notin taken
  <2> SUFFICES ASSUME 1..MaxId \subseteq S PROVE FALSE
    BY <1>2
  <2>1. Cardinality(1..MaxId) <= Cardinality(S)
    BY <1>5, FS_Subset
  <2>2. Cardinality(1..MaxId) = MaxId
    BY MaxIdNat, FS_Interval
  <2>3. Cardinality(S) \in Nat
    BY <1>5, FS_CardinalityType
  <2> QED  BY <1>1, <1>5, <2>1, <2>2, <2>3, DataBounds DEF MaxId
<1>7. FreshId(r) = CHOOSE n \in 1..MaxId : n \notin taken
  BY DEF FreshId
<1>8. FreshId(r) \in 1..MaxId /\ FreshId(r) \notin taken
  <2> HIDE DEF taken
  <2> QED  BY <1>6, <1>7
<1> QED  BY <1>8

\* A handler that keeps contexts sound ran with an identifier or with NoId.
LEMMA RunsRan ==
  ASSUME Typed, NEW r \in Radios, NEW after,
         \A id \in Ids(r) : Handled(after[id], id),
         Runs(r, after)
  PROVE  /\ \E id \in Ids(r) : Ran(r, after[id], id)
         /\ trouble' \in 0..MaxTrouble
<1> DEFINE d == after[FreshId(r)]
           e == after[NoId]
<1>1. FreshId(r) \in 1..MaxId /\ FreshId(r) # NoId
  BY FreshIdFree DEF NoId
<1>2. d \in Context /\ e \in Context /\ e.out = Silent
  BY DEF Ids, Handled, Sound, SoundParts
<1>3. trouble' \in 0..MaxTrouble
  <2>1. trouble \in 0..MaxTrouble /\ MaxTrouble \in Nat
    BY DataBounds DEF Typed
  <2>2. trouble' = trouble \/ (trouble < MaxTrouble /\ trouble' = trouble + 1)
    BY DEF Runs, Trouble
  <2> QED  BY <2>1, <2>2
<1>4. CASE d.out = Silent
  <2>1. [d EXCEPT !.out = Silent] = d
    BY <1>2, <1>4 DEF Context
  <2> QED  BY <1>3, <1>4, <2>1 DEF Runs, Ran, Ids
<1>5. CASE d.out # Silent
  <2>1. [e EXCEPT !.out = Silent] = e
    BY <1>2 DEF Context
  <2> QED  BY <1>1, <1>2, <1>3, <1>5, <2>1 DEF Runs, Ran, Ids
<1> QED  BY <1>4, <1>5

\* What is on its way to the MAC is well typed.
LEMMA RanTyped ==
  ASSUME Typed, NEW r \in Radios, NEW id \in Ids(r), NEW d, Sound(d),
         Ran(r, d, id)
  PROVE  /\ ctx' \in [Radios -> Context]
         /\ \A q \in Radios : Sound(ctx'[q]) /\ ctx'[q].out = Silent
         /\ mac' \in [Radios -> Seq([id : 1..MaxId, burst : Sent \ {Silent}])]
         /\ \A q \in Radios : Len(mac'[q]) <= MacRoom
<1> DEFINE e == [d EXCEPT !.out = Silent]
           R == [id : 1..MaxId, burst : Sent \ {Silent}]
<1>1. d \in Context
  BY DEF Sound, SoundParts
<1>2. e \in Context /\ e.out = Silent /\ e.tx = d.tx /\ e.rx = d.rx
      /\ e.state = d.state
  BY <1>1, SilentSent DEF Context
<1>3. ctx' = [ctx EXCEPT ![r] = e]
  BY DEF Ran
<1> HIDE DEF e
<1>4. Sound(e)
  BY <1>2 DEF Sound, SoundParts
<1>5. ctx' \in [Radios -> Context]
  BY <1>2, <1>3 DEF Typed
<1>6. \A q \in Radios : Sound(ctx'[q]) /\ ctx'[q].out = Silent
  BY <1>2, <1>3, <1>4 DEF Typed
<1>7. /\ mac' \in [Radios -> Seq(R)]
      /\ \A q \in Radios : Len(mac'[q]) <= MacRoom
  <2>1. CASE UNCHANGED mac
    BY <2>1 DEF Typed
  <2>2. CASE ~UNCHANGED mac
    <3> DEFINE x == [id |-> id, burst |-> d.out]
    <3>1. /\ d.out # Silent /\ id # NoId /\ Len(mac[r]) < MacRoom
          /\ mac' = [mac EXCEPT ![r] = Append(mac[r], x)]
      BY <2>2 DEF Ran
    <3>2. id \in 1..MaxId
      BY <3>1, FreshIdFree DEF Ids
    <3>3. x \in R
      BY <1>1, <3>1, <3>2 DEF Context
    <3>4. mac[r] \in Seq(R)
      BY DEF Typed
    <3> HIDE DEF R, x
    <3>5. Append(mac[r], x) \in Seq(R) /\ Len(Append(mac[r], x)) = Len(mac[r]) + 1
          /\ Len(mac[r]) \in Nat
      BY <3>3, <3>4, AppendProperties
    <3>6. Len(Append(mac[r], x)) <= MacRoom
      BY <3>1, <3>5, DataBounds
    <3>7. mac \in [Radios -> Seq(R)]
      BY DEF Typed, R
    <3> QED  BY <3>1, <3>5, <3>6, <3>7 DEF Typed
  <2> QED  BY <2>1, <2>2
<1> QED  BY <1>5, <1>6, <1>7

LEMMA ConfRan ==
  ASSUME Typed, NEW r \in Radios, ConfReady(r)
  PROVE  /\ conf[r] # <<>> /\ Head(conf[r]) \in Confs
         /\ \E id \in Ids(r) :
              LET d == HandleTxConf(ctx[r], Head(conf[r]), id)
              IN  Handled(d, id) /\ Ran(r, d, id)
         /\ trouble' \in 0..MaxTrouble
<1>1. conf[r] # <<>>
  BY DEF ConfReady, Batch, Ready, Typed, Timers
<1>2. Head(conf[r]) \in Confs
  BY <1>1, HeadTailProperties DEF Typed
<1> DEFINE after == [id \in Ids(r) |-> HandleTxConf(ctx[r], Head(conf[r]), id)]
<1>3. \A id \in Ids(r) : id \in 0..MaxId
  BY FreshIdFree, MaxIdNat DEF Ids, NoId
<1>4. \A id \in Ids(r) : Handled(after[id], id)
  BY <1>2, <1>3, HandleTxConfHandled DEF Typed
<1>5. Runs(r, after)
  BY DEF ConfReady
<1> HIDE DEF after
<1>6. (\E id \in Ids(r) : Ran(r, after[id], id)) /\ trouble' \in 0..MaxTrouble
  BY <1>4, <1>5, RunsRan
<1> QED  BY <1>1, <1>2, <1>4, <1>6 DEF after

LEMMA RxRan ==
  ASSUME Typed, NEW r \in Radios, RxReady(r)
  PROVE  /\ heard[r] # <<>> /\ Head(heard[r]) \in Audible
         /\ \E zeros \in Zeros(ctx[r], Head(heard[r])) : \E id \in Ids(r) :
              LET d == RxBurst(ctx[r], Head(heard[r]), zeros, r, id)
              IN  Handled(d, id) /\ Ran(r, d, id)
         /\ trouble' \in 0..MaxTrouble
<1>1. heard[r] # <<>>
  BY DEF RxReady, Batch, Ready, Typed, Timers
<1>2. Head(heard[r]) \in Audible
  BY <1>1, HeadTailProperties DEF Typed
<1>3. PICK zeros \in Zeros(ctx[r], Head(heard[r])) :
        Runs(r, [id \in Ids(r) |-> RxBurst(ctx[r], Head(heard[r]), zeros, r, id)])
  BY DEF RxReady
<1> DEFINE after == [id \in Ids(r) |-> RxBurst(ctx[r], Head(heard[r]), zeros, r, id)]
<1>4. \A id \in Ids(r) : id \in 0..MaxId
  BY FreshIdFree, MaxIdNat DEF Ids, NoId
<1>5. \A id \in Ids(r) : Handled(after[id], id)
  BY <1>2, <1>4, RxBurstHandled DEF Typed
<1>6. Runs(r, after)
  BY <1>3
<1> HIDE DEF after
<1>7. (\E id \in Ids(r) : Ran(r, after[id], id)) /\ trouble' \in 0..MaxTrouble
  BY <1>5, <1>6, RunsRan
<1>8. \A id \in Ids(r) : after[id] = RxBurst(ctx[r], Head(heard[r]), zeros, r, id)
  BY DEF after
<1> QED  BY <1>1, <1>2, <1>5, <1>7, <1>8

\* What the handler of a timer that is ready leaves behind.
TimerServed(r, t, id) ==
  LET c == [ctx[r] EXCEPT !.tmr = Drain(@, t)]
  IN  IF t = "response" THEN ResponseTimeout(c, id) ELSE RxStallTimeout(c)

LEMMA TimerRan ==
  ASSUME Typed, NEW r \in Radios, NEW t \in Timers, TimerReady(r, t)
  PROVE  /\ \E id \in Ids(r) :
              LET d == TimerServed(r, t, id) IN Handled(d, id) /\ Ran(r, d, id)
         /\ trouble' \in 0..MaxTrouble
<1> DEFINE after == [id \in Ids(r) |-> TimerServed(r, t, id)]
           c == [ctx[r] EXCEPT !.tmr = Drain(@, t)]
<1>1. ctx[r] \in Context /\ Sound(ctx[r]) /\ ctx[r].out = Silent
  BY DEF Typed
<1>2. Drain(ctx[r].tmr, t) \in [Timers -> Timer]
  BY <1>1, ContextFields, TimersTyped
<1>3. Sound(c) /\ c.out = Silent
  BY <1>1, <1>2, TimerHandled
<1>4. \A id \in Ids(r) : id \in 0..MaxId
  BY FreshIdFree, MaxIdNat DEF Ids, NoId
<1>5. \A id \in Ids(r) : TimerServed(r, t, id)
        = IF t = "response" THEN ResponseTimeout(c, id) ELSE RxStallTimeout(c)
  BY DEF TimerServed
<1> HIDE DEF c
<1>6. \A id \in Ids(r) : Handled(TimerServed(r, t, id), id)
  BY <1>3, <1>4, <1>5, ResponseTimeoutHandled, RxStallTimeoutHandled DEF Handled
<1>7. Runs(r, after)
  BY DEF TimerReady, TimerServed
<1>8. \A id \in Ids(r) : Handled(after[id], id)
  BY <1>6
<1> HIDE DEF after
<1>9. (\E id \in Ids(r) : Ran(r, after[id], id)) /\ trouble' \in 0..MaxTrouble
  BY <1>7, <1>8, RunsRan
<1>10. \A id \in Ids(r) : after[id] = TimerServed(r, t, id)
  BY DEF after
<1> QED  BY <1>8, <1>9, <1>10

LEMMA BatchTyped ==
  ASSUME Typed, NEW r \in Radios
  PROVE  /\ Batch(r) \in SUBSET Fds
         /\ "conf" \in Batch(r) => conf[r] # <<>>
         /\ "rx" \in Batch(r) => heard[r] # <<>>
  BY DEF Typed, Batch, Ready, Fds, Timers

LEMMA TailTyped ==
  ASSUME NEW S, NEW q \in Seq(S), q # <<>>
  PROVE  /\ Tail(q) \in Seq(S) /\ Len(Tail(q)) = Len(q) - 1
         /\ Len(q) \in Nat \ {0} /\ (Len(q) > 1 => Tail(q) # <<>>)
<1>1. Tail(q) \in Seq(S) /\ Len(Tail(q)) = Len(q) - 1
  BY HeadTailProperties
<1>2. Len(q) \in Nat /\ Len(q) # 0
  BY EmptySeq
<1>3. ASSUME Len(q) > 1 PROVE Tail(q) # <<>>
  <2> DEFINE u == Tail(q)
             n == Len(q)
  <2>0. n \in Nat /\ n > 1 /\ Len(u) = n - 1 /\ u \in Seq(S)
    BY <1>1, <1>2, <1>3
  <2>1. u \in Seq(S) /\ Len(u) # 0
    <3> HIDE DEF u, n
    <3> QED  BY <2>0
  <2> HIDE DEF u
  <2>2. u # <<>>
    BY <2>1, EmptySeq
  <2> QED  BY <2>2 DEF u
<1> QED  BY <1>1, <1>2, <1>3

LEMMA PushTyped ==
  ASSUME NEW S, NEW q \in Seq(S), NEW x \in S, Len(q) <= QDepth
  PROVE  Push(q, x) \in Seq(S) /\ Len(Push(q, x)) <= QDepth /\ Push(q, x) # <<>>
<1>1. CASE Len(q) < QDepth
  BY <1>1, AppendProperties, DataBounds DEF Push
<1>2. CASE ~(Len(q) < QDepth)
  <2>1. Len(q) # 0
    BY <1>2, DataBounds
  <2>2. q # <<>>
    BY <2>1
  <2> QED  BY <1>2, <2>2 DEF Push
<1> QED  BY <1>1, <1>2

\* The rest of the batch names no empty queue.
LEMMA ServedTyped ==
  ASSUME Typed, NEW r \in Radios, NEW fd \in Fds, NEW queue,
         Served(r, fd, queue)
  PROVE  /\ batch' \in [Radios -> SUBSET Fds]
         /\ \A q \in Radios \ {r} : batch'[q] = batch[q]
         /\ batch'[r] \subseteq Batch(r)
         /\ fd \in batch'[r] => Len(queue) > 1
<1> DEFINE v == IF Len(queue) > 1 THEN Batch(r) ELSE Batch(r) \ {fd}
<1>1. v \in SUBSET Fds /\ v \subseteq Batch(r) /\ (fd \in v => Len(queue) > 1)
  BY BatchTyped
<1>2. batch' = [batch EXCEPT ![r] = v] /\ batch \in [Radios -> SUBSET Fds]
  BY DEF Served, Typed
<1> HIDE DEF v
<1> QED  BY <1>1, <1>2

LEMMA ConfTyped == ASSUME Typed, NEW r \in Radios, ConfReady(r) PROVE Typed'
<1>1. /\ conf[r] # <<>> /\ trouble' \in 0..MaxTrouble
      /\ \E id \in Ids(r) :
           LET d == HandleTxConf(ctx[r], Head(conf[r]), id)
           IN  Handled(d, id) /\ Ran(r, d, id)
  BY ConfRan
<1>2. /\ ctx' \in [Radios -> Context]
      /\ \A q \in Radios : Sound(ctx'[q]) /\ ctx'[q].out = Silent
      /\ mac' \in [Radios -> Seq([id : 1..MaxId, burst : Sent \ {Silent}])]
      /\ \A q \in Radios : Len(mac'[q]) <= MacRoom
  BY <1>1, RanTyped DEF Handled
<1>3. /\ Tail(conf[r]) \in Seq(Confs) /\ Len(Tail(conf[r])) = Len(conf[r]) - 1
      /\ Len(conf[r]) \in Nat \ {0} /\ (Len(conf[r]) > 1 => Tail(conf[r]) # <<>>)
  BY <1>1, TailTyped DEF Typed
<1>4. conf' = [conf EXCEPT ![r] = Tail(conf[r])] /\ heard' = heard
  BY DEF ConfReady
<1>5. /\ conf' \in [Radios -> Seq(Confs)]
      /\ \A q \in Radios : Len(conf'[q]) <= QDepth
  BY <1>3, <1>4, DataBounds DEF Typed
<1>6. /\ batch' \in [Radios -> SUBSET Fds]
      /\ \A q \in Radios \ {r} : batch'[q] = batch[q]
      /\ batch'[r] \subseteq Batch(r)
      /\ "conf" \in batch'[r] => Len(conf[r]) > 1
  BY ServedTyped DEF ConfReady, Fds
<1>7. \A q \in Radios : /\ "conf" \in batch'[q] => conf'[q] # <<>>
                        /\ "rx" \in batch'[q] => heard'[q] # <<>>
  BY <1>3, <1>4, <1>6, BatchTyped DEF Typed
<1> QED  BY <1>1, <1>2, <1>4, <1>5, <1>6, <1>7 DEF Typed

LEMMA RxTyped == ASSUME Typed, NEW r \in Radios, RxReady(r) PROVE Typed'
<1>1. /\ heard[r] # <<>> /\ trouble' \in 0..MaxTrouble
      /\ \E zeros \in Zeros(ctx[r], Head(heard[r])) : \E id \in Ids(r) :
           LET d == RxBurst(ctx[r], Head(heard[r]), zeros, r, id)
           IN  Handled(d, id) /\ Ran(r, d, id)
  BY RxRan
<1>2. /\ ctx' \in [Radios -> Context]
      /\ \A q \in Radios : Sound(ctx'[q]) /\ ctx'[q].out = Silent
      /\ mac' \in [Radios -> Seq([id : 1..MaxId, burst : Sent \ {Silent}])]
      /\ \A q \in Radios : Len(mac'[q]) <= MacRoom
  BY <1>1, RanTyped DEF Handled
<1>3. /\ Tail(heard[r]) \in Seq(Audible) /\ Len(Tail(heard[r])) = Len(heard[r]) - 1
      /\ Len(heard[r]) \in Nat \ {0} /\ (Len(heard[r]) > 1 => Tail(heard[r]) # <<>>)
  BY <1>1, TailTyped DEF Typed
<1>4. heard' = [heard EXCEPT ![r] = Tail(heard[r])] /\ conf' = conf
  BY DEF RxReady
<1>5. /\ heard' \in [Radios -> Seq(Audible)]
      /\ \A q \in Radios : Len(heard'[q]) <= QDepth
  BY <1>3, <1>4, DataBounds DEF Typed
<1>6. /\ batch' \in [Radios -> SUBSET Fds]
      /\ \A q \in Radios \ {r} : batch'[q] = batch[q]
      /\ batch'[r] \subseteq Batch(r)
      /\ "rx" \in batch'[r] => Len(heard[r]) > 1
  BY ServedTyped DEF RxReady, Fds
<1>7. \A q \in Radios : /\ "conf" \in batch'[q] => conf'[q] # <<>>
                        /\ "rx" \in batch'[q] => heard'[q] # <<>>
  BY <1>3, <1>4, <1>6, BatchTyped DEF Typed
<1> QED  BY <1>1, <1>2, <1>4, <1>5, <1>6, <1>7 DEF Typed

LEMMA TimerTyped ==
  ASSUME Typed, NEW r \in Radios, NEW t \in Timers, TimerReady(r, t)
  PROVE  Typed'
<1>1. /\ trouble' \in 0..MaxTrouble
      /\ \E id \in Ids(r) :
           LET d == TimerServed(r, t, id) IN Handled(d, id) /\ Ran(r, d, id)
  BY TimerRan
<1>2. /\ ctx' \in [Radios -> Context]
      /\ \A q \in Radios : Sound(ctx'[q]) /\ ctx'[q].out = Silent
      /\ mac' \in [Radios -> Seq([id : 1..MaxId, burst : Sent \ {Silent}])]
      /\ \A q \in Radios : Len(mac'[q]) <= MacRoom
  BY <1>1, RanTyped DEF Handled
<1>3. conf' = conf /\ heard' = heard
  BY DEF TimerReady
<1>4. /\ batch' \in [Radios -> SUBSET Fds]
      /\ \A q \in Radios \ {r} : batch'[q] = batch[q]
      /\ batch'[r] \subseteq Batch(r)
  BY ServedTyped DEF TimerReady, Fds
<1>5. \A q \in Radios : /\ "conf" \in batch'[q] => conf'[q] # <<>>
                        /\ "rx" \in batch'[q] => heard'[q] # <<>>
  BY <1>3, <1>4, BatchTyped DEF Typed
<1> QED  BY <1>1, <1>2, <1>3, <1>4, <1>5 DEF Typed

LEMMA SendTyped ==
  ASSUME Typed, NEW r \in Radios, NEW m \in Messages, Send(r, m)
  PROVE  Typed' /\ Ran(r, Submit(ctx[r], m, FreshId(r)), FreshId(r))
<1> DEFINE n == FreshId(r)
           e == Submit(ctx[r], m, n)
<1>1. n \in 1..MaxId /\ n # NoId /\ n \in Ids(r)
  BY FreshIdFree DEF Ids, NoId
<1>2. Sound(ctx[r]) /\ ctx[r].out = Silent /\ ~ctx[r].tx.active
  BY DEF Typed, Send
<1>3. Sound(e) /\ e.out = Preamble
  <2> HIDE DEF n
  <2> QED  BY <1>1, <1>2, SubmitSound
<1>4. Ran(r, e, n)
  BY <1>1, <1>3, PreambleSent DEF Send, Ran
<1> HIDE DEF e, n
<1>5. /\ ctx' \in [Radios -> Context]
      /\ \A q \in Radios : Sound(ctx'[q]) /\ ctx'[q].out = Silent
      /\ mac' \in [Radios -> Seq([id : 1..MaxId, burst : Sent \ {Silent}])]
      /\ \A q \in Radios : Len(mac'[q]) <= MacRoom
  BY <1>1, <1>3, <1>4, RanTyped
<1>6. UNCHANGED <<batch, conf, heard, trouble>>
  BY DEF Send
<1> QED  BY <1>4, <1>5, <1>6 DEF Typed, e, n

LEMMA ExpireTyped ==
  ASSUME Typed, NEW r \in Radios, NEW t \in Timers, Expire(r, t)
  PROVE  Typed'
<1> DEFINE tm == Expired(ctx[r].tmr, t)
           e == [ctx[r] EXCEPT !.tmr = tm]
<1>1. ctx[r] \in Context /\ Sound(ctx[r]) /\ ctx[r].out = Silent
  BY DEF Typed
<1>2. tm \in [Timers -> Timer]
  BY <1>1, ContextFields, TimersTyped
<1>3. ctx' = [ctx EXCEPT ![r] = e]
  BY DEF Expire
<1> HIDE DEF tm
<1>4. Sound(e) /\ e.out = Silent /\ e \in Context
  BY <1>1, <1>2, TimerHandled DEF Sound, SoundParts
<1> HIDE DEF e
<1>5. /\ ctx' \in [Radios -> Context]
      /\ \A q \in Radios : Sound(ctx'[q]) /\ ctx'[q].out = Silent
  BY <1>3, <1>4 DEF Typed
<1>6. trouble' \in 0..MaxTrouble
  <2>1. trouble' = trouble \/ (trouble < MaxTrouble /\ trouble' = trouble + 1)
    BY DEF Expire, Trouble
  <2> QED  BY <2>1, DataBounds DEF Typed
<1> QED  BY <1>5, <1>6 DEF Expire, Typed

\* The MAC is done with a request: it is answered, or not.
LEMMA MacTailTyped ==
  ASSUME Typed, NEW r \in Radios, mac[r] # <<>>,
         mac' = [mac EXCEPT ![r] = Tail(@)]
  PROVE  /\ mac' \in [Radios -> Seq([id : 1..MaxId, burst : Sent \ {Silent}])]
         /\ \A q \in Radios : Len(mac'[q]) <= MacRoom
         /\ Head(mac[r]) \in [id : 1..MaxId, burst : Sent \ {Silent}]
<1> DEFINE R == [id : 1..MaxId, burst : Sent \ {Silent}]
<1>1. mac \in [Radios -> Seq(R)] /\ \A q \in Radios : Len(mac[q]) <= MacRoom
  BY DEF Typed
<1> HIDE DEF R
<1>2. Tail(mac[r]) \in Seq(R) /\ Len(Tail(mac[r])) = Len(mac[r]) - 1
      /\ Len(mac[r]) \in Nat \ {0} /\ Head(mac[r]) \in R
  BY <1>1, TailTyped, HeadTailProperties
<1>3. Len(Tail(mac[r])) <= MacRoom
  BY <1>1, <1>2, DataBounds
<1> QED  BY <1>1, <1>2, <1>3 DEF R

LEMMA ConfPushed ==
  ASSUME Typed, NEW r \in Radios, NEW x \in Confs,
         conf' = [conf EXCEPT ![r] = Push(@, x)]
  PROVE  /\ conf' \in [Radios -> Seq(Confs)]
         /\ \A q \in Radios : /\ Len(conf'[q]) <= QDepth
                              /\ conf[q] # <<>> => conf'[q] # <<>>
<1>1. Push(conf[r], x) \in Seq(Confs) /\ Len(Push(conf[r], x)) <= QDepth
      /\ Push(conf[r], x) # <<>>
  BY PushTyped DEF Typed
<1> QED  BY <1>1 DEF Typed

LEMMA HeardPushed ==
  ASSUME Typed, NEW r \in Radios, mac[r] # <<>>, NEW hearers, Heard(r, hearers)
  PROVE  /\ heard' \in [Radios -> Seq(Audible)]
         /\ \A q \in Radios : /\ Len(heard'[q]) <= QDepth
                              /\ heard[q] # <<>> => heard'[q] # <<>>
<1> DEFINE b == Head(mac[r]).burst
<1>1. b \in Sent \ {Silent}
  <2> DEFINE R == [id : 1..MaxId, burst : Sent \ {Silent}]
  <2>1. mac[r] \in Seq(R)
    BY DEF Typed
  <2> HIDE DEF R
  <2>2. Head(mac[r]) \in R
    BY <2>1, HeadTailProperties
  <2> QED  BY <2>2 DEF R
<1>2. b # Preamble => b \in Audible
  BY <1>1 DEF Audible
<1>3. heard' = [q \in Radios |-> IF q \in hearers /\ b # Preamble
                                   THEN Push(heard[q], b) ELSE heard[q]]
  BY DEF Heard
<1> HIDE DEF b
<1>4. \A q \in Radios :
        heard[q] \in Seq(Audible) /\ Len(heard[q]) <= QDepth
  BY DEF Typed
<1>5. \A q \in Radios : b # Preamble =>
        /\ Push(heard[q], b) \in Seq(Audible) /\ Len(Push(heard[q], b)) <= QDepth
        /\ Push(heard[q], b) # <<>>
  BY <1>2, <1>4, PushTyped
<1> QED  BY <1>3, <1>4, <1>5

LEMMA MacTyped ==
  ASSUME Typed, NEW r \in Radios,
         MacAirs(r) \/ AirLoses(r) \/ MacRefuses(r) \/ MacForgets(r)
  PROVE  Typed'
<1>1. mac[r] # <<>> /\ mac' = [mac EXCEPT ![r] = Tail(@)]
  <2>1. CASE MacForgets(r)
    <3>1. Len(<<>>) = 0
      OBVIOUS
    <3> QED  BY <2>1, <3>1 DEF MacForgets
  <2>2. CASE MacAirs(r) \/ AirLoses(r) \/ MacRefuses(r)
    BY <2>2 DEF MacAirs, AirLoses, MacRefuses, MacDone
  <2> QED  BY <2>1, <2>2
<1>2. /\ mac' \in [Radios -> Seq([id : 1..MaxId, burst : Sent \ {Silent}])]
      /\ \A q \in Radios : Len(mac'[q]) <= MacRoom
      /\ Head(mac[r]) \in [id : 1..MaxId, burst : Sent \ {Silent}]
  BY <1>1, MacTailTyped
<1>3. /\ conf' \in [Radios -> Seq(Confs)]
      /\ \A q \in Radios : /\ Len(conf'[q]) <= QDepth
                           /\ conf[q] # <<>> => conf'[q] # <<>>
  <2>1. CASE MacForgets(r)
    BY <2>1 DEF MacForgets, Typed
  <2>2. CASE MacAirs(r) \/ AirLoses(r) \/ MacRefuses(r)
    <3>1. PICK ok \in BOOLEAN : MacDone(r, ok)
      BY <2>2 DEF MacAirs, AirLoses, MacRefuses
    <3> DEFINE x == [id |-> Head(mac[r]).id, ok |-> ok]
    <3>2. x \in Confs
      BY <1>2 DEF Confs
    <3>3. conf' = [conf EXCEPT ![r] = Push(@, x)]
      BY <3>1 DEF MacDone
    <3> HIDE DEF x
    <3> QED  BY <3>2, <3>3, ConfPushed
  <2> QED  BY <2>1, <2>2
<1>4. /\ heard' \in [Radios -> Seq(Audible)]
      /\ \A q \in Radios : /\ Len(heard'[q]) <= QDepth
                           /\ heard[q] # <<>> => heard'[q] # <<>>
  <2>1. CASE MacForgets(r) \/ MacRefuses(r)
    BY <2>1 DEF MacForgets, MacRefuses, Typed
  <2>2. CASE MacAirs(r)
    BY <1>1, <2>2, HeardPushed DEF MacAirs
  <2>3. CASE AirLoses(r)
    BY <1>1, <2>3, HeardPushed DEF AirLoses
  <2> QED  BY <2>1, <2>2, <2>3
<1>5. ctx' = ctx /\ batch' = batch
  BY DEF MacAirs, AirLoses, MacRefuses, MacForgets
<1>6. trouble' \in 0..MaxTrouble
  <2>1. trouble' = trouble \/ (trouble < MaxTrouble /\ trouble' = trouble + 1)
    BY DEF MacAirs, AirLoses, MacRefuses, MacForgets, Trouble
  <2> QED  BY <2>1, DataBounds DEF Typed
<1> QED  BY <1>2, <1>3, <1>4, <1>5, <1>6 DEF Typed

LEMMA InitTyped == Init => Typed
<1> SUFFICES ASSUME Init PROVE Typed
  OBVIOUS
<1>1. [t \in Timers |-> Off] \in [Timers -> Timer]
  BY DEF Off, Timer
<1>2. InitialContext \in Context
  <2>1. [m \in Messages |-> "new"] \in [Messages -> {"new", "sending", "ok", "failed"}]
    OBVIOUS
  <2>2. [m \in Messages |-> 0] \in [Messages -> Nat]
    OBVIOUS
  <2> QED  BY <1>1, <2>1, <2>2, SilentSent DEF InitialContext, Context, States
<1>3. Sound(InitialContext) /\ InitialContext.out = Silent
  BY <1>2 DEF Sound, SoundParts, InitialContext, NoTx, NoRx
<1>4. \A S : <<>> \in Seq(S) /\ Len(<<>>) = 0
  OBVIOUS
<1>5. mac \in [Radios -> Seq([id : 1..MaxId, burst : Sent \ {Silent}])]
  BY <1>4 DEF Init
<1>6. conf \in [Radios -> Seq(Confs)] /\ heard \in [Radios -> Seq(Audible)]
  BY <1>4 DEF Init
<1>7. \A r \in Radios : Len(mac[r]) = 0 /\ Len(conf[r]) = 0 /\ Len(heard[r]) = 0
  BY <1>4 DEF Init
<1>8. ctx \in [Radios -> Context]
      /\ \A r \in Radios : Sound(ctx[r]) /\ ctx[r].out = Silent
  BY <1>2, <1>3 DEF Init
<1>9. batch \in [Radios -> SUBSET Fds] /\ trouble \in 0..MaxTrouble
      /\ \A r \in Radios : batch[r] = {}
  BY DataBounds DEF Init
<1> QED  BY <1>5, <1>6, <1>7, <1>8, <1>9, DataBounds DEF Typed

LEMMA NextTyped == Typed /\ [Next]_vars => Typed'
<1> SUFFICES ASSUME Typed, [Next]_vars PROVE Typed'
  OBVIOUS
<1>1. CASE UNCHANGED vars
  BY <1>1 DEF Typed, vars
<1>2. ASSUME NEW r \in Radios, Worker(r) PROVE Typed'
  BY <1>2, ConfTyped, RxTyped, TimerTyped DEF Worker
<1>3. ASSUME NEW r \in Radios, NEW m \in Messages, Send(r, m) PROVE Typed'
  BY <1>3, SendTyped
<1>4. ASSUME NEW r \in Radios, NEW t \in Timers, Expire(r, t) PROVE Typed'
  BY <1>4, ExpireTyped
<1>5. ASSUME NEW r \in Radios,
             MacAirs(r) \/ AirLoses(r) \/ MacRefuses(r) \/ MacForgets(r)
      PROVE  Typed'
  BY <1>5, MacTyped
<1> QED  BY <1>1, <1>2, <1>3, <1>4, <1>5 DEF Next

LEMMA TypedIsTypeOK == Typed => TypeOK
<1> SUFFICES ASSUME Typed PROVE TypeOK
  OBVIOUS
<1>1. ASSUME NEW r \in Radios
      PROVE  /\ ctx[r].state \in States /\ ctx[r].out = Silent
             /\ TransferOK(ctx[r].tx) /\ ReassemblyOK(ctx[r].rx)
             /\ ctx[r].told \in [Messages -> {"new", "sending", "ok", "failed"}]
             /\ ctx[r].copies \in [Messages -> Nat]
  <2>1. ctx[r] \in Context /\ Sound(ctx[r]) /\ ctx[r].out = Silent
    BY DEF Typed
  <2>2. TransferOK(ctx[r].tx)
    <3>1. CASE ~ctx[r].tx.active
      BY <2>1, <3>1, ContextFields DEF TransferOK
    <3>2. CASE ctx[r].tx.active
      <4>1. ctx[r].tx \in Going /\ TxSound(ctx[r].tx)
        BY <2>1, <3>2, ContextFields DEF Sound, SoundParts
      <4>2. ctx[r].tx.id \in 1..MaxId
        <5>1. ctx[r].tx.id \in 0..MaxId /\ ctx[r].tx.id # 0
          BY <4>1 DEF Going, TxSound, NoId
        <5> QED  BY <5>1, MaxIdNat
      <4> QED  BY <4>1, <4>2 DEF TransferOK, TxSound, Going
    <3> QED  BY <3>1, <3>2, <2>1, ContextFields
  <2>3. ReassemblyOK(ctx[r].rx)
    <3>1. CASE ~ctx[r].rx.active
      BY <2>1, <3>1, ContextFields DEF ReassemblyOK
    <3>2. CASE ctx[r].rx.active
      <4>1. ctx[r].rx \in Taking /\ RxSound(ctx[r].rx)
        BY <2>1, <3>2, ContextFields DEF Sound, SoundParts
      <4>2. ctx[r].rx.sack # NoSack => ctx[r].rx.sack.id \in 1..MaxId
        <5>1. ctx[r].rx.sack.id \in 0..MaxId
          BY <4>1 DEF Taking
        <5> QED  BY <4>1, <5>1 DEF RxSound, NoId
      <4> QED  BY <4>1, <4>2 DEF ReassemblyOK, RxSound, Taking
    <3> QED  BY <3>1, <3>2, <2>1, ContextFields
  <2> QED  BY <2>1, <2>2, <2>3, ContextFields
<1>2. Sent \ {Silent} \subseteq Bursts \ {Silent}
      /\ Audible \subseteq Bursts \ {Silent}
  BY DEF Sent, Audible
<1>3. [id : 1..MaxId, burst : Sent \ {Silent}] \subseteq Requests
  BY <1>2 DEF Requests
<1>4. ASSUME NEW r \in Radios
      PROVE  /\ batch[r] \subseteq Fds
             /\ mac[r] \in Seq(Requests) /\ Len(mac[r]) <= MacRoom
             /\ conf[r] \in Seq(Confs) /\ Len(conf[r]) <= QDepth
             /\ heard[r] \in Seq(Bursts \ {Silent}) /\ Len(heard[r]) <= QDepth
  <2>1. mac[r] \in Seq(Requests)
    BY <1>3, SeqMonotonic DEF Typed
  <2>2. heard[r] \in Seq(Bursts \ {Silent})
    BY <1>2, SeqMonotonic DEF Typed
  <2> QED  BY <2>1, <2>2 DEF Typed
<1> QED  BY <1>1, <1>4 DEF TypeOK, Typed

\* Every reachable state is well typed: no handler leaves the sequence of
\* bursts it is in, names a block its message does not have, or retries more
\* often than CCL_DATA_MAX_RETRIES, and an identifier is always free.
THEOREM TypeCorrect == Spec => []TypeOK
<1>1. Spec => []Typed
  BY InitTyped, NextTyped, PTL DEF Spec
<1> QED  BY <1>1, TypedIsTypeOK, PTL
----------------------------------------------------------------------------
(* What the handlers do for the message in transfer.                       *)

\* How often the header of a transfer's message can have been submitted.
Spent(tx) == IF tx.phase = "PREAMBLE" THEN tx.tries ELSE tx.tries + 1

\* The transfer goes on, or it is over and reported: as a success only if it
\* may be.
GoesOn(c, d) ==
  /\ d.tx.active /\ d.tx.msg = c.tx.msg /\ d.told = c.told
  /\ Spent(c.tx) <= Spent(d.tx)
  /\ d.out.kind \in {"none", "preamble", "header", "block"}
  /\ d.out.kind = "header" => d.out.msg = c.tx.msg /\ Spent(c.tx) < Spent(d.tx)
Over(c, d, mayOk) ==
  /\ ~d.tx.active /\ d.out = Silent
  /\ d.told[c.tx.msg] = "failed" \/ (mayOk /\ d.told[c.tx.msg] = "ok")
  /\ \A m \in Messages \ {c.tx.msg} : d.told[m] = c.told[m]
TxStep(c, d, mayOk) ==
  /\ c.tx.active /\ d.rx = c.rx /\ d.copies = c.copies
  /\ GoesOn(c, d) \/ Over(c, d, mayOk)

\* A response is awaited to a confirmed message only, and T_Response runs.
AsksOnly(c) ==
  c.state \in {"TX_WAIT_ACK", "TX_WAIT_SACK_DATA"} => Confirmed(c.tx.msg)
Attentive(c) ==
  /\ AsksOnly(c)
  /\ c.state \in {"TX_WAIT_ACK", "TX_WAIT_SACK_DATA"} => Live(c, "response")

LEMMA TriesNat == ASSUME NEW tx \in Going PROVE tx.tries \in Nat
<1>1. tx.tries \in 0..MaxRetries
  BY DEF Going
<1> QED  BY <1>1, DataBounds

LEMMA SpentNat == ASSUME NEW tx \in Going PROVE Spent(tx) \in 0..(MaxRetries + 1)
  BY DataBounds DEF Going, Spent

LEMMA TxFinishStep ==
  ASSUME NEW c \in Context, c.out = Silent, c.tx.active,
         NEW success \in BOOLEAN, NEW mayOk, success => mayOk
  PROVE  LET d == TxFinish(c, success) IN
         TxStep(c, d, mayOk) /\ Over(c, d, mayOk) /\ d.state = "IDLE"
<1> DEFINE d == TxFinish(c, success)
           v == IF success THEN "ok" ELSE "failed"
<1>1. /\ d.state = "IDLE" /\ d.tx = NoTx /\ d.rx = c.rx /\ d.out = c.out
      /\ d.copies = c.copies /\ d.told = [c.told EXCEPT ![c.tx.msg] = v]
  BY DEF TxFinish, Context
<1>2. c.tx.msg \in Messages
      /\ c.told \in [Messages -> {"new", "sending", "ok", "failed"}]
  BY ContextFields DEF Going
<1>3. d.told[c.tx.msg] = v /\ \A m \in Messages \ {c.tx.msg} : d.told[m] = c.told[m]
  <2> HIDE DEF v
  <2> QED  BY <1>1, <1>2
<1>4. ~d.tx.active
  BY <1>1 DEF NoTx
<1> HIDE DEF d
<1>5. Over(c, d, mayOk)
  BY <1>1, <1>3, <1>4 DEF Over
<1> QED  BY <1>1, <1>5 DEF TxStep, d

\* What is sent in a phase.
LEMMA TxBurstKind ==
  ASSUME NEW tx \in Going, tx.phase # "DONE"
  PROVE  /\ TxBurst(tx).kind \in {"preamble", "header", "block"}
         /\ TxBurst(tx).kind = "header" =>
              tx.phase = "HEADER" /\ TxBurst(tx).msg = tx.msg
<1>1. CASE tx.phase = "PREAMBLE"
  BY <1>1 DEF TxBurst, Preamble
<1>2. CASE tx.phase = "HEADER"
  BY <1>2 DEF TxBurst, Header
<1>3. CASE tx.phase = "BLOCKS"
  <2>1. TxBurst(tx).kind = "block"
    BY <1>3 DEF TxBurst, Block
  <2> QED  BY <2>1
<1> QED  BY <1>1, <1>2, <1>3 DEF Going, Phases

LEMMA TxNextBurstStep ==
  ASSUME NEW c \in Context, c.tx.active, NEW id \in 1..MaxId
  PROVE  LET d == TxNextBurst(c, id) IN
         /\ d.tx.active /\ d.tx.msg = c.tx.msg /\ Spent(d.tx) = Spent(c.tx)
         /\ d.told = c.told /\ d.rx = c.rx /\ d.copies = c.copies
         /\ d.state = c.state /\ d.tmr = c.tmr /\ d.out = TxBurst(c.tx)
<1> DEFINE x == [c.tx EXCEPT !.id = id]
<1>1. c.tx \in Going
  BY ContextFields
<1>2. TxNextBurst(c, id) = [c EXCEPT !.out = TxBurst(c.tx), !.tx = x]
  BY DEF TxNextBurst, Context
<1>3. x.active /\ x.msg = c.tx.msg /\ x.phase = c.tx.phase /\ x.tries = c.tx.tries
  BY <1>1 DEF Going
<1> HIDE DEF x
<1>4. LET d == TxNextBurst(c, id) IN
      /\ d.tx = x /\ d.told = c.told /\ d.rx = c.rx /\ d.copies = c.copies
      /\ d.state = c.state /\ d.tmr = c.tmr /\ d.out = TxBurst(c.tx)
  BY <1>2 DEF Context
<1> QED  BY <1>3, <1>4 DEF Spent

\* A step from a context that differs from ours in what does not matter.
LEMMA TxStepFrom ==
  ASSUME NEW c, NEW e, NEW d, NEW mayOk, TxStep(e, d, mayOk),
         c.tx.active, e.tx.msg = c.tx.msg, Spent(e.tx) = Spent(c.tx),
         e.told = c.told, e.rx = c.rx, e.copies = c.copies
  PROVE  TxStep(c, d, mayOk)
  BY DEF TxStep, GoesOn, Over

LEMMA TxRestartStep ==
  ASSUME NEW c \in Context, c.out = Silent, c.tx.active, NEW list \in Seq(Nat),
         NEW id \in 0..MaxId
  PROVE  LET d == TxRestart(c, list, id) IN
         TxStep(c, d, FALSE) /\ d.state \in {"IDLE", "TX_BURST_PENDING"}
<1>1. CASE c.tx.tries >= MaxRetries \/ id = NoId
  BY <1>1, TxFinishStep DEF TxRestart
<1>2. CASE ~(c.tx.tries >= MaxRetries \/ id = NoId)
  <2> DEFINE x == [c.tx EXCEPT !.tries = @ + 1, !.list = list,
                               !.phase = "PREAMBLE", !.idx = 0]
             e == [c EXCEPT !.tx = x]
             f == TxNextBurst(e, id)
             d == TxRestart(c, list, id)
  <2>1. c.tx \in Going
    BY ContextFields
  <2>2. e = [c EXCEPT !.tx.tries = @ + 1, !.tx.list = list,
                      !.tx.phase = "PREAMBLE", !.tx.idx = 0]
    BY <2>1 DEF Context, Going
  <2>3. x.tries = c.tx.tries + 1 /\ c.tx.tries \in 0..MaxRetries
    BY <2>1 DEF Going
  <2>4. x.tries \in 0..MaxRetries
    BY <1>2, <2>3, DataBounds
  <2>5. x \in Going /\ x.phase = "PREAMBLE" /\ x.active /\ x.msg = c.tx.msg
      BY <2>1, <2>4 DEF Going, Phases
  <2> HIDE DEF x
  <2>6. e \in Context /\ e.tx = x /\ e.told = c.told /\ e.rx = c.rx
        /\ e.copies = c.copies
    BY <2>5 DEF Context
  <2>7. id \in 1..MaxId
    BY <1>2 DEF NoId
  <2>8. d = [f EXCEPT !.state = "TX_BURST_PENDING"]
    BY <1>2, <2>2 DEF TxRestart
  <2>9. f = [e EXCEPT !.out = TxBurst(e.tx), !.tx = [e.tx EXCEPT !.id = id]]
    BY <2>6 DEF TxNextBurst, Context
  <2> HIDE DEF e
  <2>10. /\ f.tx.active /\ f.tx.msg = c.tx.msg /\ Spent(f.tx) = Spent(x)
         /\ f.told = c.told /\ f.rx = c.rx /\ f.copies = c.copies
         /\ f.out = Preamble
    BY <2>5, <2>6, <2>7, TxNextBurstStep DEF TxBurst
  <2>11. DOMAIN f = DOMAIN e /\ DOMAIN e = {"state", "tx", "rx", "tmr", "out", "told", "copies"}
    BY <2>6, <2>9 DEF Context
  <2> HIDE DEF f
  <2>12. d.state = "TX_BURST_PENDING" /\ d.tx = f.tx /\ d.told = f.told
         /\ d.rx = f.rx /\ d.copies = f.copies /\ d.out = f.out
    BY <2>8, <2>11
  <2>13. Spent(c.tx) <= Spent(x)
    BY <2>1, <2>3, <2>5, DataBounds DEF Spent, Going
  <2> HIDE DEF d
  <2>14. GoesOn(c, d)
    BY <2>10, <2>12, <2>13 DEF GoesOn, Preamble
  <2> QED  BY <2>10, <2>12, <2>14 DEF TxStep, d
<1> QED  BY <1>1, <1>2

LEMMA TxRetryStep ==
  ASSUME NEW c \in Context, c.out = Silent, c.tx.active, NEW id \in 0..MaxId
  PROVE  LET d == TxRetry(c, id) IN
         TxStep(c, d, FALSE) /\ d.state \in {"IDLE", "TX_BURST_PENDING"}
<1> DEFINE tm == Disarm(c.tmr, "response")
           e == [c EXCEPT !.tmr = tm]
<1>1. tm \in [Timers -> Timer]
  BY ContextFields, TimersTyped DEF Timers
<1>2. e = [c EXCEPT !.tmr = Disarm(@, "response")]
  BY DEF Context
<1> HIDE DEF tm
<1>3. e \in Context /\ e.tx = c.tx /\ e.told = c.told /\ e.rx = c.rx
      /\ e.copies = c.copies /\ e.out = Silent
  BY <1>1 DEF Context
<1>4. c.tx.list \in Seq(Nat)
  BY ContextFields DEF Going
<1>5. TxRetry(c, id) = TxRestart(e, c.tx.list, id)
  BY <1>2 DEF TxRetry
<1> HIDE DEF e
<1>6. LET d == TxRestart(e, c.tx.list, id) IN
      TxStep(e, d, FALSE) /\ d.state \in {"IDLE", "TX_BURST_PENDING"}
  BY <1>3, <1>4, TxRestartStep
<1> QED  BY <1>3, <1>5, <1>6, TxStepFrom

LEMMA AdvanceStep ==
  ASSUME NEW c \in Context, c.out = Silent, c.tx.active, NEW id \in 0..MaxId,
         NEW phase \in {"HEADER", "BLOCKS"}, NEW idx \in Nat,
         c.tx.phase = "PREAMBLE" <=> phase = "HEADER"
  PROVE  LET d == Advance(c, phase, idx, id) IN
         TxStep(c, d, FALSE) /\ (Attentive(c) => Attentive(d))
<1> DEFINE x == [c.tx EXCEPT !.phase = phase, !.idx = idx]
           e == [c EXCEPT !.tx = x]
<1>1. c.tx \in Going
  BY ContextFields
<1>2. x \in Going /\ x.active /\ x.phase = phase /\ x.msg = c.tx.msg
      /\ x.tries = c.tx.tries /\ x.tries \in Nat
  <2>1. c.tx.tries \in Nat
    BY <1>1, TriesNat
  <2> QED  BY <1>1, <2>1 DEF Going, Phases
<1>3. e = [c EXCEPT !.tx.phase = phase, !.tx.idx = idx]
  BY <1>1 DEF Context, Going
<1> HIDE DEF x
<1>4. e \in Context /\ e.tx = x /\ e.told = c.told /\ e.rx = c.rx
      /\ e.copies = c.copies /\ e.out = Silent /\ e.state = c.state
      /\ e.tmr = c.tmr
  BY <1>2 DEF Context
<1>5. Spent(c.tx) <= Spent(x) /\ (phase = "HEADER" => Spent(c.tx) < Spent(x))
  BY <1>2 DEF Spent
<1> HIDE DEF e
<1>6. CASE id = NoId
  <2> DEFINE d == TxFinish(e, FALSE)
  <2>1. Advance(c, phase, idx, id) = d
    BY <1>3, <1>6 DEF Advance, e
  <2>2. TxStep(e, d, FALSE) /\ Over(e, d, FALSE) /\ d.state = "IDLE"
    BY <1>2, <1>4, TxFinishStep
  <2> HIDE DEF d
  <2>3. TxStep(c, d, FALSE)
    BY <1>2, <1>4, <2>2 DEF TxStep, Over
  <2> QED  BY <2>1, <2>2, <2>3 DEF Attentive, AsksOnly
<1>7. CASE id # NoId
  <2> DEFINE d == TxNextBurst(e, id)
  <2>1. Advance(c, phase, idx, id) = d
    BY <1>3, <1>7 DEF Advance, e
  <2>2. id \in 1..MaxId
    BY <1>7 DEF NoId
  <2>3. /\ d.tx.active /\ d.tx.msg = c.tx.msg /\ Spent(d.tx) = Spent(x)
        /\ d.told = c.told /\ d.rx = c.rx /\ d.copies = c.copies
        /\ d.state = c.state /\ d.tmr = c.tmr /\ d.out = TxBurst(x)
    BY <1>2, <1>4, <2>2, TxNextBurstStep
  <2>4. /\ TxBurst(x).kind \in {"preamble", "header", "block"}
        /\ TxBurst(x).kind = "header" => x.phase = "HEADER" /\ TxBurst(x).msg = x.msg
    BY <1>2, TxBurstKind
  <2> HIDE DEF d
  <2>5. GoesOn(c, d)
    BY <1>2, <1>5, <2>3, <2>4 DEF GoesOn
  <2>6. Attentive(c) => Attentive(d)
    BY <2>3 DEF Attentive, AsksOnly, Live
  <2> QED  BY <2>1, <2>3, <2>5, <2>6 DEF TxStep
<1> QED  BY <1>6, <1>7

LEMMA ArmedLives ==
  ASSUME NEW c, NEW tm \in [Timers -> Timer], NEW t \in Timers,
         c.tmr = Arm(tm, t, 0)
  PROVE  Live(c, t)
<1>1. Arm(tm, t, 0)[t] = [kern |-> "running", left |-> 0, armed |-> TRUE]
  BY DEF Arm
<1> QED  BY <1>1 DEF Live

LEMMA SequenceSentStep ==
  ASSUME NEW c \in Context, c.out = Silent, c.tx.active
  PROVE  LET d == SequenceSent(c) IN
         TxStep(c, d, ~Confirmed(c.tx.msg)) /\ Attentive(d)
<1>1. CASE ~Confirmed(c.tx.msg)
  BY <1>1, TxFinishStep DEF SequenceSent, Attentive, AsksOnly
<1>2. CASE Confirmed(c.tx.msg)
  <2> DEFINE x == [c.tx EXCEPT !.phase = "DONE", !.list = <<>>]
             tm == Arm(c.tmr, "response", 0)
             d == [c EXCEPT !.tx = x, !.state = "TX_WAIT_ACK", !.tmr = tm]
  <2>1. c.tx \in Going /\ c.tmr \in [Timers -> Timer]
    BY ContextFields
  <2>2. x.active /\ x.phase = "DONE" /\ x.msg = c.tx.msg /\ x.tries = c.tx.tries
      BY <2>1 DEF Going
  <2>3. SequenceSent(c) = d
    BY <1>2, <2>1 DEF SequenceSent, Context, Going
  <2> HIDE DEF x, tm
  <2>4. d.tx = x /\ d.rx = c.rx /\ d.out = Silent /\ d.state = "TX_WAIT_ACK"
        /\ d.tmr = tm /\ d.told = c.told /\ d.copies = c.copies
    BY DEF Context
  <2> HIDE DEF d
  <2>5. Spent(c.tx) <= Spent(x)
    BY <2>1, <2>2, TriesNat DEF Spent
  <2>6. GoesOn(c, d)
    BY <2>2, <2>4, <2>5, SilentSent DEF GoesOn
  <2>7. Live(d, "response")
    BY <2>1, <2>4, ArmedLives DEF tm, Timers
  <2>8. Attentive(d)
    BY <1>2, <2>2, <2>4, <2>7 DEF Attentive, AsksOnly
  <2> QED  BY <2>3, <2>4, <2>6, <2>8 DEF TxStep
<1> QED  BY <1>1, <1>2

\* A burst was transmitted or lost: success only where no response is wanted.
LEMMA HandleTxConfStep ==
  ASSUME NEW c, Sound(c), c.out = Silent, NEW cf \in Confs, NEW id \in 0..MaxId,
         ~OwnSack(c, cf)
  PROVE  LET d == HandleTxConf(c, cf, id) IN
         /\ d = c \/ TxStep(c, d, ~Confirmed(c.tx.msg))
         /\ Attentive(c) => Attentive(d)
<1> DEFINE d == HandleTxConf(c, cf, id)
<1>1. CASE ~c.tx.active \/ cf.id # c.tx.id
  BY <1>1 DEF HandleTxConf
<1>2. CASE c.tx.active /\ cf.id = c.tx.id
  <2>1. c \in Context /\ c.tx \in Going /\ TxSound(c.tx)
    BY <1>2, ContextFields DEF Sound, SoundParts
  <2>2. c.tx.phase \in Phases /\ c.tx.idx \in Nat /\ NBlocks(c.tx.msg) \in Nat
    BY <2>1, NBlocksNat DEF Going
  <2>3. CASE ~cf.ok /\ Confirmed(c.tx.msg)
    <3>1. d = TxRetry(c, id)
      BY <1>2, <2>3 DEF HandleTxConf
    <3>2. TxStep(c, d, FALSE) /\ d.state \in {"IDLE", "TX_BURST_PENDING"}
      BY <1>2, <2>1, <3>1, TxRetryStep
    <3> QED  BY <3>2 DEF TxStep, Over, Attentive, AsksOnly
  <2>4. CASE ~cf.ok /\ ~Confirmed(c.tx.msg)
    <3>1. d = TxFinish(c, FALSE)
      BY <1>2, <2>4 DEF HandleTxConf
    <3>2. TxStep(c, d, FALSE) /\ d.state = "IDLE"
      BY <1>2, <2>1, <3>1, TxFinishStep
    <3> QED  BY <3>2 DEF TxStep, Over, Attentive, AsksOnly
  <2>5. CASE cf.ok /\ c.tx.phase = "PREAMBLE"
    <3>1. d = Advance(c, "HEADER", 0, id)
      BY <1>2, <2>5 DEF HandleTxConf
    <3>2. TxStep(c, d, FALSE) /\ (Attentive(c) => Attentive(d))
      BY <1>2, <2>1, <2>5, <3>1, AdvanceStep
    <3> QED  BY <3>2 DEF TxStep, Over
  <2>6. CASE cf.ok /\ c.tx.phase = "HEADER" /\ NBlocks(c.tx.msg) > 0
    <3>1. d = Advance(c, "BLOCKS", 0, id)
      BY <1>2, <2>2, <2>6 DEF HandleTxConf
    <3>2. TxStep(c, d, FALSE) /\ (Attentive(c) => Attentive(d))
      BY <1>2, <2>1, <2>6, <3>1, AdvanceStep
    <3> QED  BY <3>2 DEF TxStep, Over
  <2>7. CASE cf.ok /\ c.tx.phase = "BLOCKS" /\ c.tx.idx + 1 # SeqLen(c.tx)
    <3>1. d = Advance(c, "BLOCKS", c.tx.idx + 1, id)
      BY <1>2, <2>7 DEF HandleTxConf
    <3>2. c.tx.idx + 1 \in Nat
      BY <2>2
    <3>3. TxStep(c, d, FALSE) /\ (Attentive(c) => Attentive(d))
      BY <1>2, <2>1, <2>7, <3>1, <3>2, AdvanceStep
    <3> QED  BY <3>3 DEF TxStep, Over
  <2>8. CASE cf.ok /\ (\/ c.tx.phase = "HEADER" /\ NBlocks(c.tx.msg) = 0
                       \/ c.tx.phase = "BLOCKS" /\ c.tx.idx + 1 = SeqLen(c.tx))
    <3>1. d = SequenceSent(c)
      BY <1>2, <2>8 DEF HandleTxConf
    <3> QED  BY <1>2, <2>1, <3>1, SequenceSentStep
  <2>9. CASE cf.ok /\ c.tx.phase = "DONE"
    BY <1>2, <2>9 DEF HandleTxConf
  <2> HIDE DEF d
  <2> QED  BY <2>2, <2>3, <2>4, <2>5, <2>6, <2>7, <2>8, <2>9 DEF Phases
<1> QED  BY <1>1, <1>2

\* T_Response has been read, so it need not run any more.
LEMMA ResponseTimeoutStep ==
  ASSUME NEW c, Sound(c), c.out = Silent, NEW id \in 0..MaxId
  PROVE  LET d == ResponseTimeout(c, id) IN
         /\ d = c \/ TxStep(c, d, FALSE)
         /\ AsksOnly(c) => Attentive(d)
<1> DEFINE d == ResponseTimeout(c, id)
           waits == /\ c.tx.active /\ Confirmed(c.tx.msg)
                    /\ c.state \in {"TX_WAIT_ACK", "TX_WAIT_SACK_DATA"}
<1>1. c \in Context
  BY DEF Sound, SoundParts
<1>2. CASE waits
  <2>1. d = TxRetry(c, id)
    BY <1>2 DEF ResponseTimeout
  <2>2. TxStep(c, d, FALSE) /\ d.state \in {"IDLE", "TX_BURST_PENDING"}
    BY <1>1, <1>2, <2>1, TxRetryStep
  <2> QED  BY <2>2 DEF Attentive, AsksOnly
<1>3. CASE ~waits
  <2>1. d = c
    BY <1>3 DEF ResponseTimeout
  <2>2. AsksOnly(c) => c.state \notin {"TX_WAIT_ACK", "TX_WAIT_SACK_DATA"}
    BY <1>3 DEF AsksOnly, Sound
  <2> QED  BY <2>1, <2>2 DEF Attentive, AsksOnly
<1> QED  BY <1>2, <1>3

LEMMA RxResponseStep ==
  ASSUME NEW c, Sound(c), c.out = Silent, NEW b \in Sent,
         b.kind = "response", NEW r \in Radios, NEW id \in 0..MaxId
  PROVE  LET d == RxResponse(c, b, r, id) IN
         /\ d = c \/ TxStep(c, d, b.class = "ACK")
         /\ Attentive(c) => Attentive(d)
<1> DEFINE ignored == \/ ~c.tx.active \/ c.state # "TX_WAIT_ACK" \/ b.to # r
                      \/ ~Confirmed(c.tx.msg)
           d == RxResponse(c, b, r, id)
<1>0. c \in Context
  BY DEF Sound, SoundParts
<1>1. CASE ignored
  BY <1>1 DEF RxResponse
<1>2. CASE ~ignored /\ b.class = "ACK"
  <2>1. d = TxFinish(c, TRUE)
    BY <1>2 DEF RxResponse
  <2>2. TxStep(c, d, b.class = "ACK") /\ d.state = "IDLE" /\ Over(c, d, b.class = "ACK")
    BY <1>0, <1>2, <2>1, TxFinishStep
  <2> QED  BY <2>2 DEF Attentive, AsksOnly, Over
<1>3. CASE ~ignored /\ b.class = "NACK"
  <2>1. d = TxRetry(c, id)
    BY <1>3 DEF RxResponse
  <2>2. TxStep(c, d, FALSE) /\ d.state \in {"IDLE", "TX_BURST_PENDING"}
    BY <1>0, <1>3, <2>1, TxRetryStep
  <2> QED  BY <1>3, <2>2 DEF TxStep, Over, Attentive, AsksOnly
<1>4. CASE ~ignored /\ b.class = "SACK"
  <2> DEFINE x == [c.tx EXCEPT !.follow = b.follow, !.maps = <<>>]
             tm == Arm(c.tmr, "response", 0)
             e == [c EXCEPT !.tx = x, !.state = "TX_WAIT_SACK_DATA", !.tmr = tm]
  <2>1. c.tx \in Going /\ c.tmr \in [Timers -> Timer]
    BY <1>0, <1>4, ContextFields
  <2>2. x.active /\ x.msg = c.tx.msg /\ x.phase = c.tx.phase
        /\ x.tries = c.tx.tries /\ x.follow = b.follow /\ x.maps = <<>>
    BY <2>1 DEF Going
  <2>3. d = e
    BY <1>0, <1>4, <2>1 DEF RxResponse, Context, Going
  <2> HIDE DEF x, tm
  <2>4. e.tx = x /\ e.rx = c.rx /\ e.out = Silent /\ e.state = "TX_WAIT_SACK_DATA"
        /\ e.tmr = tm /\ e.told = c.told /\ e.copies = c.copies
    BY <1>0 DEF Context
  <2> HIDE DEF e, d
  <2>5. Spent(c.tx) = Spent(x) /\ Spent(c.tx) \in Nat
    BY <2>1, <2>2, TriesNat DEF Spent
  <2>6. GoesOn(c, d)
    BY <2>2, <2>3, <2>4, <2>5, SilentSent DEF GoesOn
  <2>7. Live(d, "response")
    BY <2>1, <2>3, <2>4, ArmedLives DEF tm, Timers
  <2>8. Attentive(d)
    BY <1>4, <2>2, <2>3, <2>4, <2>7 DEF Attentive, AsksOnly
  <2> QED  BY <1>4, <2>2, <2>3, <2>4, <2>6, <2>8 DEF TxStep, d
<1>5. b.class \in {"ACK", "NACK", "SACK"}
  BY SentFields DEF Classes
<1> QED  BY <1>1, <1>2, <1>3, <1>4, <1>5

\* Bitmaps end a transfer only if none says that a block is missing.
LEMMA RxSackDataStep ==
  ASSUME NEW c, Sound(c), c.out = Silent, c.state = "TX_WAIT_SACK_DATA",
         NEW zeros \in SUBSET Nat, NEW id \in 0..MaxId
  PROVE  LET d == RxSackData(c, zeros, id)
             maps == Append(c.tx.maps, zeros)
         IN  /\ TxStep(c, d, Missing(c.tx, maps) = {})
             /\ Attentive(c) => Attentive(d)
<1> DEFINE maps == Append(c.tx.maps, zeros)
           missing == Missing(c.tx, maps)
           x == [c.tx EXCEPT !.maps = maps]
           e == [c EXCEPT !.tx = x]
           d == RxSackData(c, zeros, id)
<1>1. c \in Context /\ c.tx.active /\ c.tx \in Going
  BY ContextFields DEF Sound, SoundParts
<1>2. maps \in Seq(SUBSET Nat) /\ Len(maps) = Len(c.tx.maps) + 1
      /\ Len(c.tx.maps) \in Nat
  <2>1. c.tx.maps \in Seq(SUBSET Nat)
    BY <1>1 DEF Going
  <2> QED  BY <2>1, AppendProperties
<1>3. x \in Going /\ x.active /\ x.phase = c.tx.phase /\ x.msg = c.tx.msg
      /\ x.tries = c.tx.tries /\ x.maps = maps /\ x.follow = c.tx.follow
  BY <1>1, <1>2 DEF Going
<1>4. e = [c EXCEPT !.tx.maps = maps]
  BY <1>1 DEF Context, Going
<1> HIDE DEF maps, x
<1>5. e \in Context /\ e.tx = x /\ e.rx = c.rx /\ e.out = Silent
      /\ e.state = c.state /\ e.tmr = c.tmr /\ e.told = c.told
      /\ e.copies = c.copies
  BY <1>1, <1>3 DEF Context
<1>6. Spent(x) = Spent(c.tx) /\ Spent(x) \in Nat
  BY <1>1, <1>3, TriesNat DEF Spent
<1>7. CASE Len(maps) < c.tx.follow
  <2>1. d = e
    BY <1>4, <1>7 DEF RxSackData, maps
  <2> HIDE DEF d, e
  <2>2. GoesOn(c, d)
    BY <1>3, <1>5, <1>6, <2>1, SilentSent DEF GoesOn
  <2>3. Attentive(c) => Attentive(d)
    BY <1>3, <1>5, <2>1 DEF Attentive, AsksOnly, Live
  <2> QED  BY <1>1, <1>2, <1>3, <1>5, <2>1, <2>2, <2>3 DEF TxStep, d, maps
<1>8. CASE ~(Len(maps) < c.tx.follow) /\ missing = {}
  <2>1. d = TxFinish(c, TRUE)
    BY <1>8 DEF RxSackData, maps
  <2>2. TxStep(c, d, missing = {}) /\ d.state = "IDLE"
    BY <1>1, <1>8, <2>1, TxFinishStep
  <2> QED  BY <2>2 DEF Attentive, AsksOnly, maps
<1>9. CASE ~(Len(maps) < c.tx.follow) /\ missing # {}
  <2> DEFINE list == Ascending(missing)
  <2>1. d = TxRestart(e, list, id)
    BY <1>4, <1>9 DEF RxSackData, maps
  <2>2. missing \in SUBSET (0..(NBlocks(c.tx.msg) - 1)) /\ IsFiniteSet(missing)
    BY <1>1, MissingBlocks
  <2> HIDE DEF missing
  <2>3. missing \in SUBSET Nat
    BY <2>2
  <2>4. list \in Seq(missing)
    BY <2>2, <2>3, AscendingLists
  <2> HIDE DEF list
  <2>5. list \in Seq(Nat)
    BY <2>3, <2>4, SeqMonotonic
  <2> HIDE DEF e, d
  <2>6. TxStep(e, d, FALSE) /\ d.state \in {"IDLE", "TX_BURST_PENDING"}
    BY <1>3, <1>5, <2>1, <2>5, TxRestartStep
  <2>7. TxStep(c, d, FALSE)
    BY <1>1, <1>3, <1>5, <1>6, <2>6, TxStepFrom
  <2>8. TxStep(c, d, missing = {})
    BY <2>7 DEF TxStep, Over
  <2> QED  BY <2>6, <2>8 DEF Attentive, AsksOnly, d, missing, maps
<1> QED  BY <1>7, <1>8, <1>9
----------------------------------------------------------------------------
(* What the handlers do for the message being received.                    *)

\* A block is missing.
Gap(rx) == \E i \in 0..(Announced(rx.msg) - 1) : i \notin rx.seen

\* Copies a context has delivered of a message, and may deliver with what it
\* is reassembling.
Stock(c, m) == c.copies[m] + (IF c.rx.active /\ c.rx.msg = m THEN 1 ELSE 0)

\* A radio that only receives is not distracted from its reassembly.
Listening(c) ==
  c.rx.active => c.state = "RX_REASSEMBLE" /\ Live(c, "rx_stall")

\* What a burst that answers for one of the messages of M says is true in d.
Says(b, d, M) ==
  /\ b.kind \in {"none", "response", "rdata"}
  /\ b.kind = "response" =>
       \E m \in M : /\ b.class = "ACK" => d.copies[m] > 0
                    /\ b.class = "SACK" => b.follow = Bitmaps(m)

\* The messages a step is about, if it takes the headers of those of in.
About(c, in) == in \union (IF c.rx.active THEN {c.rx.msg} ELSE {})
RxStep(c, d, in) ==
  /\ d.tx = c.tx /\ d.told = c.told /\ d.tmr["response"] = c.tmr["response"]
  /\ d.state \in {c.state, "IDLE", "RX_REASSEMBLE"}
  /\ d.rx.active => d.rx.msg \in About(c, in) /\ Gap(d.rx)
  /\ \A m \in Messages :
       /\ c.copies[m] <= d.copies[m]
       /\ m \notin About(c, in) => d.copies[m] = c.copies[m]
       /\ Stock(d, m) <= Stock(c, m) + (IF m \in in THEN 1 ELSE 0)
  /\ Says(d.out, d, About(c, in))
  /\ Listening(c) => Listening(d)

LEMMA CopiesNat ==
  ASSUME NEW c \in Context, NEW m \in Messages
  PROVE  c.copies[m] \in Nat /\ Stock(c, m) \in Nat
<1>1. c.copies[m] \in Nat
  BY ContextFields
<1> QED  BY <1>1 DEF Stock

LEMMA AnnouncedNat == ASSUME NEW m \in Messages PROVE Announced(m) \in Nat
  BY NBlocksNat, DataBounds DEF Announced

LEMMA BitmapsFit == ASSUME NEW m \in Messages PROVE Bitmaps(m) \in 1..2
  BY DEF Bitmaps

\* A reassembly that ends is delivered at most once, and acknowledged only if
\* it was.
LEMMA RxConcludeStep ==
  ASSUME NEW c \in Context, c.out = Silent, c.rx.active,
         NEW delivers \in BOOLEAN, NEW id \in 0..MaxId,
         Confirmed(c.rx.msg) /\ ~c.rx.failed => delivers
  PROVE  LET d == RxConclude(c, delivers, id) IN
         /\ d.tx = c.tx /\ d.told = c.told /\ d.tmr = c.tmr
         /\ d.state = "IDLE" /\ ~d.rx.active
         /\ \A m \in Messages :
              /\ c.copies[m] <= d.copies[m] /\ Stock(d, m) <= Stock(c, m)
              /\ m # c.rx.msg => d.copies[m] = c.copies[m]
         /\ Says(d.out, d, {c.rx.msg})
<1> DEFINE m == c.rx.msg
           e == IF delivers THEN Deliver(c, m) ELSE c
           f == [e EXCEPT !.rx = NoRx, !.state = "IDLE"]
           d == RxConclude(c, delivers, id)
<1>1. m \in Messages
  BY ContextFields DEF Taking
<1>2. /\ e.tx = c.tx /\ e.told = c.told /\ e.tmr = c.tmr /\ e.out = Silent
      /\ e.copies = IF delivers THEN [c.copies EXCEPT ![m] = @ + 1] ELSE c.copies
      /\ DOMAIN e = {"state", "tx", "rx", "tmr", "out", "told", "copies"}
  BY DEF Deliver, Context
<1>3. /\ \A n \in Messages : c.copies[n] \in Nat
      /\ \A n \in Messages : e.copies[n] =
           IF n = m /\ delivers THEN c.copies[n] + 1 ELSE c.copies[n]
  <2>1. c.copies \in [Messages -> Nat]
    BY ContextFields
  <2> HIDE DEF m, e
  <2> QED  BY <1>1, <1>2, <2>1
<1> HIDE DEF e
<1>4. /\ f.tx = c.tx /\ f.told = c.told /\ f.tmr = c.tmr /\ f.state = "IDLE"
      /\ f.rx = NoRx /\ f.out = Silent /\ f.copies = e.copies
      /\ DOMAIN f = {"state", "tx", "rx", "tmr", "out", "told", "copies"}
  BY <1>2
<1> DEFINE class == IF c.rx.failed THEN "NACK" ELSE "ACK"
           o == IF Confirmed(m) /\ id # NoId THEN Response(m, class, 0) ELSE Silent
<1>5. d = IF Confirmed(m) THEN Respond(f, m, class, id) ELSE f
  BY DEF RxConclude, e
<1>6. /\ d.tx = c.tx /\ d.told = c.told /\ d.tmr = c.tmr /\ d.state = "IDLE"
      /\ d.rx = NoRx /\ d.out = o /\ d.copies = e.copies
  <2> HIDE DEF f, class, m
  <2>1. CASE Confirmed(m) /\ id # NoId
    <3>1. d = [f EXCEPT !.out = Response(m, class, 0)]
      BY <1>5, <2>1 DEF Respond
    <3> QED  BY <1>4, <2>1, <3>1
  <2>2. CASE ~(Confirmed(m) /\ id # NoId)
    <3>1. d = f
      BY <1>5, <2>2 DEF Respond
    <3> QED  BY <1>4, <2>2, <3>1
  <2> QED  BY <2>1, <2>2
<1> HIDE DEF d
<1>7. ~d.rx.active
  BY <1>6 DEF NoRx
<1>8. \A n \in Messages :
        /\ c.copies[n] <= d.copies[n] /\ Stock(d, n) <= Stock(c, n)
        /\ n # m => d.copies[n] = c.copies[n]
  BY <1>3, <1>6, <1>7 DEF Stock
<1>9. Says(d.out, d, {m})
  <2>1. CASE o = Silent
    BY <1>6, <2>1, SilentSent DEF Says
  <2>2. CASE o # Silent
    <3>1. d.out = Response(m, class, 0) /\ Confirmed(m)
      BY <1>6, <2>2
    <3>2. d.out.kind = "response" /\ d.out.class = class /\ class # "SACK"
      BY <3>1 DEF Response
    <3>3. class = "ACK" => d.copies[m] > 0
      <4>1. class = "ACK" => delivers
        BY <3>1
      <4>2. delivers => d.copies[m] = c.copies[m] + 1 /\ c.copies[m] \in Nat
        BY <1>1, <1>3, <1>6
      <4> HIDE DEF class, m
      <4> QED  BY <4>1, <4>2
    <3> HIDE DEF class, m
    <3> QED  BY <3>2, <3>3 DEF Says
  <2> QED  BY <2>1, <2>2
<1> QED  BY <1>6, <1>7, <1>8, <1>9 DEF d

LEMMA RxStartStep ==
  ASSUME NEW c, Sound(c), c.out = Silent, c.rx.active => Gap(c.rx),
         NEW b \in Sent, b.kind = "header", NEW id \in 0..MaxId
  PROVE  RxStep(c, RxStart(c, b, id), {b.msg})
<1> DEFINE m == b.msg
           e == [c EXCEPT !.rx = Reassembly(m)]
           tm == Arm(c.tmr, "rx_stall", 0)
           d == RxStart(c, b, id)
           M == About(c, {m})
<1>1. c \in Context /\ m \in Messages /\ c.tmr \in [Timers -> Timer]
  BY ContextFields, SentFields DEF Sound, SoundParts
<1>2. /\ SoundParts(e) /\ e.out = Silent /\ e.rx = Reassembly(m)
      /\ e.rx.active /\ e.tx = c.tx /\ e.state = c.state /\ e.tmr = c.tmr
  BY <1>1, ReassemblySound DEF Sound
<1>3. e \in Context /\ e.told = c.told /\ e.copies = c.copies /\ e.rx.msg = m
      /\ e.rx.seen = {}
  BY <1>1, <1>2 DEF SoundParts, Context, Reassembly
<1>4. \A n \in Messages : c.copies[n] \in Nat
  BY <1>1, CopiesNat
<1>5. \A n \in Messages : Stock(e, n) <= Stock(c, n) + (IF n \in {m} THEN 1 ELSE 0)
  BY <1>2, <1>3, <1>4 DEF Stock
<1>6. tm["response"] = c.tmr["response"] /\ tm \in [Timers -> Timer]
  BY <1>1, TimersTyped DEF Arm, Timers
<1>7. m \in M /\ (c.rx.active => c.rx.msg \in M)
  BY DEF About
<1> HIDE DEF M
<1>8. CASE Continues(c, b)
  <2>1. d = [c EXCEPT !.tmr = tm]
    BY <1>1, <1>8 DEF RxStart, Context
  <2>2. /\ d.tx = c.tx /\ d.told = c.told /\ d.state = c.state /\ d.rx = c.rx
        /\ d.copies = c.copies /\ d.out = Silent /\ d.tmr = tm
    <3> HIDE DEF tm
    <3> QED  BY <1>1, <2>1 DEF Context
  <2> HIDE DEF d
  <2>3. Live(d, "rx_stall")
    BY <1>1, <2>2, ArmedLives DEF Timers
  <2> HIDE DEF tm
  <2>4. \A n \in Messages : Stock(d, n) <= Stock(c, n) + (IF n \in {m} THEN 1 ELSE 0)
    BY <1>4, <2>2 DEF Stock
  <2>5. Listening(c) => Listening(d)
    BY <2>2, <2>3 DEF Listening
  <2>6. Says(d.out, d, M)
    BY <2>2, SilentSent DEF Says
  <2>7. RxStep(c, d, {m})
    BY <1>4, <1>6, <1>7, <2>2, <2>4, <2>5, <2>6 DEF RxStep, M
  <2> QED  BY <2>7 DEF d
<1>9. CASE ~Continues(c, b) /\ Announced(m) = 0
  <2>1. d = RxConclude(e, TRUE, id)
    BY <1>9 DEF RxStart
  <2> HIDE DEF e, d, tm, m
  <2>2. /\ d.tx = c.tx /\ d.told = c.told /\ d.tmr = c.tmr
        /\ d.state = "IDLE" /\ ~d.rx.active
        /\ \A n \in Messages :
             /\ e.copies[n] <= d.copies[n] /\ Stock(d, n) <= Stock(e, n)
             /\ n # m => d.copies[n] = c.copies[n]
        /\ Says(d.out, d, {m})
    <3>1. e \in Context /\ e.out = Silent /\ e.rx.active /\ e.rx.msg = m
      BY <1>2, <1>3
    <3>2. LET f == RxConclude(e, TRUE, id) IN
          /\ f.tx = e.tx /\ f.told = e.told /\ f.tmr = e.tmr
          /\ f.state = "IDLE" /\ ~f.rx.active
          /\ \A n \in Messages :
               /\ e.copies[n] <= f.copies[n] /\ Stock(f, n) <= Stock(e, n)
               /\ n # e.rx.msg => f.copies[n] = e.copies[n]
          /\ Says(f.out, f, {e.rx.msg})
      BY <3>1, RxConcludeStep
    <3> QED  BY <1>2, <1>3, <2>1, <3>2
  <2>3. Says(d.out, d, M)
    BY <1>7, <2>2 DEF Says
  <2>4. d \in Context
    BY <1>2, <1>3, <2>1, RxConcludeHandled DEF Handled, Sound, SoundParts
  <2>5. \A n \in Messages : Stock(d, n) <= Stock(c, n) + (IF n \in {m} THEN 1 ELSE 0)
    <3> TAKE n \in Messages
    <3>1. Stock(d, n) \in Nat /\ Stock(e, n) \in Nat /\ Stock(c, n) \in Nat
      BY <1>1, <1>3, <2>4, CopiesNat
    <3> QED  BY <1>5, <2>2, <3>1
  <2>6. RxStep(c, d, {m})
    BY <1>3, <1>7, <2>2, <2>3, <2>5 DEF RxStep, Listening, M
  <2> QED  BY <2>6 DEF d, m
<1>10. CASE ~Continues(c, b) /\ Announced(m) # 0
  <2>1. d = [e EXCEPT !.state = "RX_REASSEMBLE", !.tmr = tm]
    BY <1>2, <1>3, <1>10 DEF RxStart, Context
  <2>2. /\ d.tx = c.tx /\ d.told = c.told /\ d.state = "RX_REASSEMBLE"
        /\ d.rx = e.rx /\ d.copies = c.copies /\ d.out = Silent /\ d.tmr = tm
    <3> HIDE DEF e, tm
    <3> QED  BY <1>2, <1>3, <2>1 DEF Context
  <2> HIDE DEF d, e
  <2>3. Live(d, "rx_stall")
    BY <1>1, <2>2, ArmedLives DEF Timers
  <2> HIDE DEF tm
  <2>4. 0 \in 0..(Announced(m) - 1)
    BY <1>1, <1>10, AnnouncedNat
  <2>5. Gap(d.rx)
    BY <1>3, <2>2, <2>4 DEF Gap
  <2>6. \A n \in Messages : Stock(d, n) <= Stock(c, n) + (IF n \in {m} THEN 1 ELSE 0)
    BY <1>3, <1>5, <2>2 DEF Stock
  <2>7. Says(d.out, d, M)
    BY <2>2, SilentSent DEF Says
  <2>8. Listening(d)
    BY <2>2, <2>3 DEF Listening
  <2>9. RxStep(c, d, {m})
    BY <1>3, <1>4, <1>6, <1>7, <2>2, <2>5, <2>6, <2>7, <2>8 DEF RxStep, M
  <2> QED  BY <2>9 DEF d
<1> QED  BY <1>8, <1>9, <1>10

\* A step from a context that differs from ours in what does not matter.
LEMMA RxStepFrom ==
  ASSUME NEW c, NEW e, NEW d, RxStep(e, d, {}), c.rx.active, e.rx.active,
         e.tx = c.tx, e.told = c.told, e.tmr["response"] = c.tmr["response"],
         e.state = c.state, e.rx.msg = c.rx.msg, e.copies = c.copies,
         Listening(c) => Listening(e)
  PROVE  RxStep(c, d, {})
  BY DEF RxStep, About, Stock

\* Nothing but a burst and the reassembly's note of its own SACK.
LEMMA SackStep ==
  ASSUME NEW c \in Context, c.rx.active, Gap(c.rx), NEW d,
         d.tx = c.tx, d.told = c.told, d.tmr = c.tmr, d.state = c.state,
         d.copies = c.copies, d.rx.active, d.rx.msg = c.rx.msg,
         d.rx.seen = c.rx.seen, Says(d.out, c, {c.rx.msg})
  PROVE  RxStep(c, d, {})
<1>1. \A m \in Messages : Stock(d, m) = Stock(c, m) /\ c.copies[m] \in Nat
                          /\ Stock(c, m) \in Nat
  BY CopiesNat DEF Stock
<1>2. About(c, {}) = {c.rx.msg} /\ Gap(d.rx)
  BY DEF Gap, About
<1>3. Says(d.out, d, About(c, {}))
  BY <1>2 DEF Says
<1> QED  BY <1>1, <1>2, <1>3 DEF RxStep, Listening, Live

LEMMA SendSackStep ==
  ASSUME NEW c \in Context, c.rx.active, Gap(c.rx), NEW id \in 0..MaxId
  PROVE  c.out = Silent => RxStep(c, SendSack(c, id), {})
<1> DEFINE k == IF id = NoId THEN NoSack ELSE [phase |-> 0, id |-> id]
           y == [c.rx EXCEPT !.sack = k]
           o == IF id = NoId THEN c.out
                ELSE Response(c.rx.msg, "SACK", Bitmaps(c.rx.msg))
<1> SUFFICES ASSUME c.out = Silent PROVE RxStep(c, SendSack(c, id), {})
  OBVIOUS
<1>1. c.rx \in Taking
  BY ContextFields
<1>2. SendSack(c, id) = [c EXCEPT !.rx = y, !.out = o]
  BY <1>1 DEF SendSack, Context, Taking
<1>3. y.active /\ y.msg = c.rx.msg /\ y.seen = c.rx.seen
  BY <1>1 DEF Taking
<1>4. Says(o, c, {c.rx.msg})
  BY SilentSent DEF Says, Response
<1> HIDE DEF y, o
<1>5. LET d == SendSack(c, id) IN
      /\ d.tx = c.tx /\ d.told = c.told /\ d.tmr = c.tmr /\ d.state = c.state
      /\ d.copies = c.copies /\ d.rx = y /\ d.out = o
  BY <1>2 DEF Context
<1> QED  BY <1>3, <1>4, <1>5, SackStep

LEMMA HandleSackTxConfStep ==
  ASSUME NEW c, Sound(c), c.out = Silent, NEW cf \in Confs, OwnSack(c, cf),
         Gap(c.rx), NEW id \in 0..MaxId
  PROVE  RxStep(c, HandleSackTxConf(c, cf, id), {})
<1>1. c \in Context /\ c.rx.active /\ c.rx \in Taking /\ c.rx.msg \in Messages
  BY ContextFields DEF Sound, SoundParts, OwnSack, Taking
<1> DEFINE m == c.rx.msg
           p == c.rx.sack.phase
           stops == ~cf.ok \/ p >= Bitmaps(m) \/ id = NoId
           missing == InHalf(m, p) \ c.rx.seen
           zeros == {i % Half : i \in missing}
           k == IF stops THEN NoSack ELSE [phase |-> p + 1, id |-> id]
           y == [c.rx EXCEPT !.sack = k]
           o == IF stops THEN c.out ELSE Rdata(zeros)
<1>2. HandleSackTxConf(c, cf, id) = [c EXCEPT !.rx = y, !.out = o]
  <2>1. CASE stops
    BY <1>1, <2>1 DEF HandleSackTxConf, Context, Taking
  <2>2. CASE ~stops
    BY <1>1, <2>2 DEF HandleSackTxConf, Context, Taking
  <2> HIDE DEF stops
  <2> QED  BY <2>1, <2>2
<1>3. y.active /\ y.msg = m /\ y.seen = c.rx.seen
  BY <1>1 DEF Taking
<1> HIDE DEF y
<1>4. LET d == HandleSackTxConf(c, cf, id) IN
      /\ d.tx = c.tx /\ d.told = c.told /\ d.tmr = c.tmr /\ d.state = c.state
      /\ d.copies = c.copies /\ d.rx = y /\ d.out = o
  <2> HIDE DEF o
  <2> QED  BY <1>1, <1>2 DEF Context
<1>5. CASE stops
  <2>1. o = Silent
    BY <1>5
  <2>2. Says(o, c, {m})
    BY <2>1, SilentSent DEF Says
  <2> HIDE DEF m
  <2> QED  BY <1>1, <1>3, <1>4, <2>2, SackStep DEF m
<1>6. CASE ~stops
  <2>1. o.kind = "rdata"
    BY <1>6 DEF Rdata
  <2> HIDE DEF zeros, m
  <2>2. Says(o, c, {m})
    BY <2>1 DEF Says
  <2> QED  BY <1>1, <1>3, <1>4, <2>2, SackStep DEF m
<1> HIDE DEF stops
<1> QED  BY <1>5, <1>6

\* A message of which not all numbers are seen has one that is not.
LEMMA GapLeft ==
  ASSUME NEW rx \in Taking, RxSound(rx),
         ~(Cardinality(rx.seen) >= Announced(rx.msg))
  PROVE  Gap(rx)
<1> DEFINE S == 0..(Announced(rx.msg) - 1)
<1>1. Announced(rx.msg) \in Nat
  BY AnnouncedNat DEF Taking
<1>2. Cardinality(S) = Announced(rx.msg)
  BY <1>1, FS_Interval
<1>3. rx.seen \subseteq S
  BY DEF RxSound
<1>4. rx.seen # S
  BY <1>1, <1>2
<1> QED  BY <1>3, <1>4 DEF Gap

LEMMA RxBlockStep ==
  ASSUME NEW c, Sound(c), c.out = Silent, c.rx.active, NEW lead,
         lead.no \in Nat, lead.last \in BOOLEAN, NEW id \in 0..MaxId
  PROVE  RxStep(c, RxBlock(c, lead, id), {})
<1> DEFINE e == Noted(c, lead)
           whole == Cardinality(e.rx.seen) >= Announced(e.rx.msg)
           sacks == ~whole /\ ~e.rx.failed /\ Confirmed(e.rx.msg)
           tm == Disarm(e.tmr, "rx_stall")
           f == [e EXCEPT !.tmr = tm]
           d == RxBlock(c, lead, id)
<1>1. /\ Sound(e) /\ e.out = Silent /\ e.rx.active /\ e.rx.msg = c.rx.msg
      /\ e.tx = c.tx /\ e.state = c.state /\ e.told = c.told
      /\ e.copies = c.copies /\ e.tmr = Arm(c.tmr, "rx_stall", 0)
  BY NotedSound
<1>2. c \in Context /\ e \in Context /\ e.rx \in Taking /\ RxSound(e.rx)
      /\ c.tmr \in [Timers -> Timer] /\ e.tmr \in [Timers -> Timer]
  BY <1>1, ContextFields DEF Sound, SoundParts
<1>3. e.tmr["response"] = c.tmr["response"] /\ Live(e, "rx_stall")
  BY <1>1, <1>2, ArmedLives DEF Arm, Timers
<1>4. Listening(c) => Listening(e)
  BY <1>1, <1>3 DEF Listening
<1>5. ~whole => Gap(e.rx)
  <2> HIDE DEF e
  <2> QED  BY <1>2, GapLeft
<1>6. CASE ~lead.last /\ ~whole
  <2>1. d = e
    BY <1>6 DEF RxBlock, Noted
  <2> HIDE DEF e, d
  <2>2. \A m \in Messages : Stock(e, m) = Stock(c, m) /\ Stock(c, m) \in Nat
                            /\ c.copies[m] \in Nat
    BY <1>1, <1>2, CopiesNat DEF Stock
  <2>3. RxStep(c, e, {})
    BY <1>1, <1>3, <1>4, <1>5, <1>6, <2>2, SilentSent DEF RxStep, About, Says
  <2> QED  BY <2>1, <2>3 DEF d
<1>7. CASE (lead.last \/ whole) /\ sacks
  <2>1. d = SendSack(e, id)
    BY <1>7 DEF RxBlock, Noted
  <2> HIDE DEF e
  <2>2. RxStep(e, SendSack(e, id), {})
    BY <1>1, <1>2, <1>5, <1>7, SendSackStep
  <2> HIDE DEF d
  <2>3. RxStep(c, d, {})
    BY <1>1, <1>3, <1>4, <2>1, <2>2, RxStepFrom
  <2> QED  BY <2>3 DEF d
<1>8. CASE (lead.last \/ whole) /\ ~sacks
  <2> DEFINE delivers == whole /\ ~e.rx.failed
  <2>1. d = RxConclude(f, delivers, id)
    BY <1>8 DEF RxBlock, Noted
  <2>2. tm \in [Timers -> Timer] /\ tm["response"] = e.tmr["response"]
    <3> HIDE DEF e
    <3> QED  BY <1>2, TimersTyped DEF Timers, Disarm
  <2> HIDE DEF e, tm
  <2>3. f \in Context /\ f.out = Silent /\ f.rx = e.rx /\ f.tx = e.tx
        /\ f.told = e.told /\ f.copies = e.copies /\ f.state = e.state
        /\ f.tmr = tm
    BY <1>1, <1>2, <2>2 DEF Context
  <2> HIDE DEF f
  <2>4. delivers \in BOOLEAN /\ (Confirmed(f.rx.msg) /\ ~f.rx.failed => delivers)
    BY <1>8, <2>3
  <2> HIDE DEF delivers, d
  <2>5. /\ d.tx = f.tx /\ d.told = f.told /\ d.tmr = f.tmr
        /\ d.state = "IDLE" /\ ~d.rx.active
        /\ \A m \in Messages :
             /\ f.copies[m] <= d.copies[m] /\ Stock(d, m) <= Stock(f, m)
             /\ m # f.rx.msg => d.copies[m] = f.copies[m]
        /\ Says(d.out, d, {f.rx.msg})
    BY <1>1, <2>1, <2>3, <2>4, RxConcludeStep
  <2>6. d \in Context
    BY <1>1, <2>1, <2>3, <2>4, RxConcludeHandled, TimerHandled, <1>2, <2>2
      DEF Handled, Sound, SoundParts, f
  <2>7. \A m \in Messages : Stock(f, m) = Stock(c, m) /\ Stock(d, m) \in Nat
                            /\ Stock(f, m) \in Nat
    BY <1>1, <2>3, <2>6, CopiesNat DEF Stock
  <2>8. About(c, {}) = {f.rx.msg}
    BY <1>1, <2>3 DEF About
  <2>9. /\ d.tx = c.tx /\ d.told = c.told
        /\ d.tmr["response"] = c.tmr["response"] /\ d.copies \in [Messages -> Nat]
    BY <1>1, <1>3, <2>2, <2>3, <2>5, <2>6, ContextFields
  <2>10. \A m \in Messages :
           /\ c.copies[m] <= d.copies[m]
           /\ m \notin About(c, {}) => d.copies[m] = c.copies[m]
           /\ Stock(d, m) <= Stock(c, m) + (IF m \in {} THEN 1 ELSE 0)
    BY <1>1, <2>3, <2>5, <2>7, <2>8
  <2>11. RxStep(c, d, {})
    BY <2>5, <2>8, <2>9, <2>10 DEF RxStep, Listening
  <2> QED  BY <2>11 DEF d
<1> HIDE DEF e
<1> QED  BY <1>6, <1>7, <1>8

\* T_RX_STALL has been read, so it need not run any more.
LEMMA RxStallTimeoutStep ==
  ASSUME NEW c, Sound(c), c.out = Silent, c.rx.active => Gap(c.rx)
  PROVE  LET d == RxStallTimeout(c) IN
         /\ d = c \/ (c.rx.active /\ RxStep(c, d, {}))
         /\ (c.rx.active => c.state = "RX_REASSEMBLE") => Listening(d)
<1> DEFINE e == [c EXCEPT !.rx = NoRx, !.state = "IDLE"]
           d == RxStallTimeout(c)
<1>1. c \in Context
  BY DEF Sound, SoundParts
<1>2. CASE c.rx.active /\ c.state = "RX_REASSEMBLE"
  <2>1. d = e
    BY <1>2 DEF RxStallTimeout
  <2>2. /\ e.tx = c.tx /\ e.told = c.told /\ e.tmr = c.tmr /\ e.state = "IDLE"
        /\ e.rx = NoRx /\ e.out = Silent /\ e.copies = c.copies
    BY <1>1 DEF Context
  <2>3. ~e.rx.active
    BY <2>2 DEF NoRx
  <2> HIDE DEF e, d
  <2>4. \A m \in Messages : Stock(e, m) <= Stock(c, m) /\ Stock(c, m) \in Nat
                            /\ Stock(e, m) \in Nat /\ c.copies[m] \in Nat
    <3> TAKE m \in Messages
    <3>1. c.copies[m] \in Nat
      BY <1>1, CopiesNat
    <3> QED  BY <2>2, <2>3, <3>1 DEF Stock
  <2>5. RxStep(c, e, {}) /\ Listening(e)
    BY <2>2, <2>3, <2>4, SilentSent DEF RxStep, Says, Listening
  <2> QED  BY <1>2, <2>1, <2>5 DEF d
<1>3. CASE ~(c.rx.active /\ c.state = "RX_REASSEMBLE")
  BY <1>3 DEF RxStallTimeout, Listening
<1> QED  BY <1>2, <1>3
----------------------------------------------------------------------------
(* What serving a confirmation, a burst or a timer does to a context.      *)

\* Only a timer has changed, and nothing is sent.
Idle(c, d) ==
  /\ d.tx = c.tx /\ d.rx = c.rx /\ d.told = c.told /\ d.copies = c.copies
  /\ d.out = Silent

\* A step that takes the headers of the messages of in, and may report a
\* success if mayOk.
Step(c, d, in, mayOk) ==
  /\ \/ Idle(c, d)
     \/ TxStep(c, d, mayOk)
     \/ RxStep(c, d, in) /\ (in # {} \/ c.rx.active)
  /\ Attentive(c) => Attentive(d)
  /\ Listening(c) /\ ~c.tx.active => Listening(d)

\* A burst that is heard: the header it is, and what it allows to report.
Taken(b) == IF b.kind = "header" THEN {b.msg} ELSE {}
MayReport(c, b, zeros) ==
  \/ b.kind = "response" /\ b.class = "ACK"
  \/ AwaitsBitmap(c, b) /\ Missing(c.tx, Append(c.tx.maps, zeros)) = {}

\* Receiving leaves what is awaited alone.
LEMMA RxStepAttentive ==
  ASSUME NEW c, NEW d, NEW in, RxStep(c, d, in)
  PROVE  Attentive(c) => Attentive(d)
  BY DEF RxStep, Attentive, AsksOnly, Live

LEMMA ConfServed ==
  ASSUME NEW c, Sound(c), c.out = Silent, c.rx.active => Gap(c.rx),
         NEW cf \in Confs, NEW id \in 0..MaxId
  PROVE  Step(c, HandleTxConf(c, cf, id), {}, ~Confirmed(c.tx.msg))
<1> DEFINE d == HandleTxConf(c, cf, id)
<1>1. CASE OwnSack(c, cf)
  <2>1. d = HandleSackTxConf(c, cf, id)
    BY <1>1 DEF HandleTxConf
  <2>2. c.rx.active
    BY <1>1 DEF OwnSack
  <2>3. RxStep(c, d, {})
    BY <1>1, <2>1, <2>2, HandleSackTxConfStep
  <2> HIDE DEF d
  <2>4. Attentive(c) => Attentive(d)
    BY <2>3, RxStepAttentive
  <2> QED  BY <2>2, <2>3, <2>4 DEF Step, d, RxStep
<1>2. CASE ~OwnSack(c, cf)
  <2>1. /\ d = c \/ TxStep(c, d, ~Confirmed(c.tx.msg))
        /\ Attentive(c) => Attentive(d)
    BY <1>2, HandleTxConfStep
  <2> HIDE DEF d
  <2> QED  BY <2>1 DEF Step, d, Idle, TxStep
<1> QED  BY <1>1, <1>2

LEMMA BurstServed ==
  ASSUME NEW c, Sound(c), c.out = Silent, c.rx.active => Gap(c.rx),
         NEW b \in Audible, NEW zeros \in Zeros(c, b), NEW r \in Radios,
         NEW id \in 0..MaxId
  PROVE  Step(c, RxBurst(c, b, zeros, r, id), Taken(b), MayReport(c, b, zeros))
<1> DEFINE d == RxBurst(c, b, zeros, r, id)
<1>0. b \in Sent /\ b.kind \in {"header", "block", "rdata", "response"}
  BY DEF Audible, Sent, Bursts
<1>1. CASE b.kind = "header"
  <2>1. d = RxStart(c, b, id)
    BY <1>1 DEF RxBurst, AwaitsBitmap
  <2>2. RxStep(c, d, {b.msg})
    BY <1>0, <1>1, <2>1, RxStartStep
  <2>3. Taken(b) = {b.msg}
    BY <1>1 DEF Taken
  <2> HIDE DEF d
  <2>4. Attentive(c) => Attentive(d)
    BY <2>2, RxStepAttentive
  <2> QED  BY <2>2, <2>3, <2>4 DEF Step, d, RxStep
<1>2. CASE b.kind = "response"
  <2>1. d = RxResponse(c, b, r, id)
    BY <1>2 DEF RxBurst, AwaitsBitmap
  <2>2. /\ d = c \/ TxStep(c, d, b.class = "ACK")
        /\ Attentive(c) => Attentive(d)
    BY <1>0, <1>2, <2>1, RxResponseStep
  <2>3. b.class = "ACK" => MayReport(c, b, zeros)
    BY <1>2 DEF MayReport
  <2> HIDE DEF d
  <2>4. TxStep(c, d, b.class = "ACK")
          => TxStep(c, d, MayReport(c, b, zeros))
    BY <2>3 DEF TxStep, Over
  <2> QED  BY <2>2, <2>4 DEF Step, d, Idle, TxStep
<1>3. CASE b.kind \in {"block", "rdata"} /\ c.state = "TX_WAIT_SACK_DATA"
  <2> DEFINE missing == Missing(c.tx, Append(c.tx.maps, zeros))
  <2>1. d = RxSackData(c, zeros, id)
    BY <1>3 DEF RxBurst, AwaitsBitmap
  <2>2. zeros \in SUBSET Nat
    BY <1>0, ZerosFit
  <2>3. /\ TxStep(c, d, missing = {})
        /\ Attentive(c) => Attentive(d)
    BY <1>3, <2>1, <2>2, RxSackDataStep
  <2>4. missing = {} => MayReport(c, b, zeros)
    BY <1>3 DEF MayReport, AwaitsBitmap
  <2> HIDE DEF d, missing
  <2>5. TxStep(c, d, MayReport(c, b, zeros))
    BY <2>3, <2>4 DEF TxStep, Over
  <2> QED  BY <2>3, <2>5 DEF Step, d, TxStep
<1>4. CASE b.kind \in {"block", "rdata"} /\ c.state # "TX_WAIT_SACK_DATA"
  <2>1. d = RxBlock(c, LeadOf(b), id)
    BY <1>4 DEF RxBurst, AwaitsBitmap
  <2>2. LeadOf(b).no \in Nat /\ LeadOf(b).last \in BOOLEAN
    BY <1>0, <1>4, LeadFits
  <2>3. Taken(b) = {}
    BY <1>4 DEF Taken
  <2>4. CASE ~c.rx.active
    <3>1. d = c
      BY <2>1, <2>4 DEF RxBlock
    <3> QED  BY <3>1 DEF Step, Idle
  <2>5. CASE c.rx.active
    <3>1. RxStep(c, d, {})
      BY <2>1, <2>2, <2>5, RxBlockStep
    <3> HIDE DEF d
    <3>2. Attentive(c) => Attentive(d)
      BY <3>1, RxStepAttentive
    <3> QED  BY <2>3, <2>5, <3>1, <3>2 DEF Step, d, RxStep
  <2> QED  BY <2>4, <2>5
<1> QED  BY <1>0, <1>1, <1>2, <1>3, <1>4

LEMMA TimerServedStep ==
  ASSUME Typed, NEW r \in Radios, NEW t \in Timers, NEW id \in 0..MaxId,
         ctx[r].rx.active => Gap(ctx[r].rx)
  PROVE  Step(ctx[r], TimerServed(r, t, id), {}, FALSE)
<1> DEFINE c == ctx[r]
           tm == Drain(c.tmr, t)
           e == [c EXCEPT !.tmr = tm]
           d == TimerServed(r, t, id)
<1>1. c \in Context /\ Sound(c) /\ c.out = Silent
  BY DEF Typed
<1>2. tm \in [Timers -> Timer] /\ c.tmr \in [Timers -> Timer]
  BY <1>1, ContextFields, TimersTyped
<1>3. e = [ctx[r] EXCEPT !.tmr = Drain(@, t)]
  BY <1>1 DEF Context
<1>4. d = IF t = "response" THEN ResponseTimeout(e, id) ELSE RxStallTimeout(e)
  BY <1>3 DEF TimerServed
<1>5. t # "response" => tm["response"] = c.tmr["response"]
  BY <1>2 DEF Drain, Timers
<1> HIDE DEF tm
<1>6. Sound(e) /\ e.out = Silent
  BY <1>1, <1>2, TimerHandled
<1>7. /\ e.tx = c.tx /\ e.rx = c.rx /\ e.told = c.told /\ e.copies = c.copies
      /\ e.state = c.state /\ e.tmr = tm
  BY <1>1 DEF Context
<1> HIDE DEF c, d, e
<1>8. CASE t = "response"
  <2>1. /\ d = e \/ TxStep(e, d, FALSE)
        /\ AsksOnly(e) => Attentive(d)
    BY <1>4, <1>6, <1>8, ResponseTimeoutStep
  <2>2. TxStep(e, d, FALSE) => TxStep(c, d, FALSE)
    BY <1>7 DEF TxStep, GoesOn, Over
  <2>3. Attentive(c) => Attentive(d)
    BY <1>7, <2>1 DEF Attentive, AsksOnly
  <2>4. Listening(c) => Listening(e)
    <3>1. tm["rx_stall"] = c.tmr["rx_stall"]
      BY <1>2, <1>8 DEF tm, Drain, Timers
    <3> QED  BY <1>7, <3>1 DEF Listening, Live
  <2>5. d = e => Idle(c, d)
    BY <1>6, <1>7 DEF Idle
  <2> QED  BY <2>1, <2>2, <2>3, <2>4, <2>5 DEF Step, TxStep, c, d
<1>9. CASE t # "response"
  <2>1. /\ d = e \/ (e.rx.active /\ RxStep(e, d, {}))
        /\ (e.rx.active => e.state = "RX_REASSEMBLE") => Listening(d)
    BY <1>4, <1>6, <1>7, <1>9, RxStallTimeoutStep DEF c
  <2>2. Listening(c) => Listening(d)
    BY <1>7, <2>1 DEF Listening
  <2>3. RxStep(e, d, {}) => RxStep(c, d, {})
    BY <1>5, <1>7, <1>9, <2>2 DEF RxStep, About, Stock
  <2>4. Attentive(c) => Attentive(e)
    BY <1>5, <1>7, <1>9 DEF Attentive, AsksOnly, Live
  <2>5. RxStep(e, d, {}) => (Attentive(e) => Attentive(d))
    BY RxStepAttentive
  <2>6. d = e => Idle(c, d)
    BY <1>6, <1>7 DEF Idle
  <2> QED  BY <1>7, <2>1, <2>2, <2>3, <2>4, <2>5, <2>6 DEF Step, c, d
<1> QED  BY <1>8, <1>9
----------------------------------------------------------------------------
(* What a step of the system does to the queues.                           *)

LEMMA RangeAppended ==
  ASSUME NEW S, NEW q \in Seq(S), NEW x \in S
  PROVE  Range(Append(q, x)) = Range(q) \union {x}
<1> DEFINE u == Append(q, x)
           n == Len(q) + 1
<1>1. /\ DOMAIN u = 1..n /\ u[n] = x /\ DOMAIN q = 1..Len(q) /\ Len(q) \in Nat
      /\ \A i \in 1..Len(q) : u[i] = q[i]
  OBVIOUS
<1>2. \A i \in 1..n : i = n \/ i \in 1..Len(q)
  BY <1>1
<1>3. n \in 1..n /\ \A i \in 1..Len(q) : i \in 1..n
  BY <1>1
<1> HIDE DEF u, n
<1> QED  BY <1>1, <1>2, <1>3 DEF Range, u

LEMMA RangeOfTail ==
  ASSUME NEW S, NEW q \in Seq(S), q # <<>>
  PROVE  /\ Head(q) \in Range(q) /\ Head(q) \in S
         /\ Range(Tail(q)) \subseteq Range(q)
<1> DEFINE u == Tail(q)
<1>1. /\ DOMAIN q = 1..Len(q) /\ Len(q) \in Nat \ {0} /\ Head(q) = q[1]
      /\ DOMAIN u = 1..(Len(q) - 1) /\ \A i \in 1..(Len(q) - 1) : u[i] = q[i + 1]
  OBVIOUS
<1>2. \A i \in 1..(Len(q) - 1) : i + 1 \in 1..Len(q)
  BY <1>1
<1>3. 1 \in 1..Len(q)
  BY <1>1
<1> HIDE DEF u
<1> QED  BY <1>1, <1>2, <1>3 DEF Range, u

LEMMA RangePushed ==
  ASSUME NEW S, NEW q \in Seq(S), NEW x \in S
  PROVE  Range(Push(q, x)) \subseteq Range(q) \union {x}
<1>1. CASE Len(q) < QDepth
  BY <1>1, RangeAppended DEF Push
<1>2. CASE ~(Len(q) < QDepth)
  BY <1>2 DEF Push
<1> QED  BY <1>1, <1>2

\* The bursts a radio has with its MAC, and those it has heard.
Asked(r) == {x.burst : x \in Range(mac[r])}
Hears(r) == Range(heard[r])

LEMMA QueuesHold ==
  ASSUME Typed, NEW r \in Radios
  PROVE  Asked(r) \subseteq Sent \ {Silent} /\ Hears(r) \subseteq Audible
<1> DEFINE R == [id : 1..MaxId, burst : Sent \ {Silent}]
<1>1. mac[r] \in Seq(R) /\ heard[r] \in Seq(Audible)
  BY DEF Typed
<1>2. \A x \in R : x.burst \in Sent \ {Silent}
  OBVIOUS
<1> HIDE DEF R
<1>3. Range(mac[r]) \in SUBSET R /\ Range(heard[r]) \in SUBSET Audible
  BY <1>1, RangeOfSeq
<1> QED  BY <1>2, <1>3 DEF Asked, Hears

\* A handler's context becomes its radio's, and its burst is with the MAC.
LEMMA RanFields ==
  ASSUME Typed, NEW r \in Radios, NEW id, NEW d, Sound(d), Ran(r, d, id)
  PROVE  /\ \A q \in Radios \ {r} : ctx'[q] = ctx[q]
         /\ ctx'[r].tx = d.tx /\ ctx'[r].rx = d.rx /\ ctx'[r].state = d.state
         /\ ctx'[r].tmr = d.tmr /\ ctx'[r].told = d.told
         /\ ctx'[r].copies = d.copies
<1> DEFINE e == [d EXCEPT !.out = Silent]
<1>1. d \in Context
  BY DEF Sound, SoundParts
<1>2. e.tx = d.tx /\ e.rx = d.rx /\ e.state = d.state /\ e.tmr = d.tmr
      /\ e.told = d.told /\ e.copies = d.copies
  BY <1>1 DEF Context
<1>3. ctx' = [ctx EXCEPT ![r] = e] /\ ctx \in [Radios -> Context]
  BY DEF Ran, Typed
<1> HIDE DEF e
<1>4. ctx'[r] = e /\ \A q \in Radios \ {r} : ctx'[q] = ctx[q]
  BY <1>3
<1> QED  BY <1>2, <1>4

LEMMA RanMac ==
  ASSUME Typed, NEW r \in Radios, NEW id \in Ids(r), NEW d, Sound(d),
         Ran(r, d, id)
  PROVE  /\ \A q \in Radios \ {r} : mac'[q] = mac[q]
         /\ \/ d.out = Silent /\ mac'[r] = mac[r]
            \/ \E x \in [id : 1..MaxId, burst : Sent \ {Silent}] :
                 /\ d.out # Silent /\ x.burst = d.out
                 /\ mac'[r] = Append(mac[r], x)
<1> DEFINE R == [id : 1..MaxId, burst : Sent \ {Silent}]
           x == [id |-> id, burst |-> d.out]
<1>1. d.out \in Sent
  BY ContextFields DEF Sound, SoundParts
<1>2. mac \in [Radios -> Seq(R)]
  BY DEF Typed
<1>3. CASE d.out = Silent
  BY <1>3 DEF Ran
<1>4. CASE d.out # Silent
  <2>1. id \in 1..MaxId
    BY <1>4, FreshIdFree DEF Ran, Ids, NoId
  <2>2. x \in R /\ x.burst = d.out
    BY <1>1, <1>4, <2>1
  <2>3. mac' = [mac EXCEPT ![r] = Append(@, x)]
    BY <1>4 DEF Ran
  <2> HIDE DEF x, R
  <2>4. mac'[r] = Append(mac[r], x) /\ \A q \in Radios \ {r} : mac'[q] = mac[q]
    BY <1>2, <2>3
  <2> QED  BY <1>4, <2>2, <2>4 DEF R
<1> QED  BY <1>3, <1>4

LEMMA RanAsked ==
  ASSUME Typed, NEW r \in Radios, NEW id \in Ids(r), NEW d, Sound(d),
         Ran(r, d, id)
  PROVE  /\ \A q \in Radios \ {r} : Asked(q)' = Asked(q)
         /\ \A b \in Asked(r)' : b \in Asked(r) \/ (b = d.out /\ b # Silent)
<1> DEFINE R == [id : 1..MaxId, burst : Sent \ {Silent}]
<1>1. /\ \A q \in Radios \ {r} : mac'[q] = mac[q]
      /\ \/ d.out = Silent /\ mac'[r] = mac[r]
         \/ \E x \in R :
              d.out # Silent /\ x.burst = d.out /\ mac'[r] = Append(mac[r], x)
  BY RanMac
<1>2. mac[r] \in Seq(R)
  BY DEF Typed
<1> HIDE DEF R
<1>3. CASE mac'[r] = mac[r]
  BY <1>1, <1>3 DEF Asked
<1>4. CASE mac'[r] # mac[r]
  <2>1. PICK x \in R : d.out # Silent /\ x.burst = d.out /\ mac'[r] = Append(mac[r], x)
    BY <1>1, <1>4
  <2>2. Range(mac'[r]) = Range(mac[r]) \union {x}
    BY <1>2, <2>1, RangeAppended
  <2> QED  BY <1>1, <2>1, <2>2 DEF Asked
<1> QED  BY <1>3, <1>4

\* What a worker's step did: it took the burst it heard first, or none.
Works(r, d, id) ==
  /\ id \in Ids(r) /\ Sound(d) /\ Ran(r, d, id)
  /\ \/ /\ heard' = heard
        /\ Step(ctx[r], d, {}, ~Confirmed(ctx[r].tx.msg))
     \/ /\ heard[r] # <<>> /\ heard' = [heard EXCEPT ![r] = Tail(@)]
        /\ \E zeros \in Zeros(ctx[r], Head(heard[r])) :
             Step(ctx[r], d, Taken(Head(heard[r])),
                  MayReport(ctx[r], Head(heard[r]), zeros))

LEMMA WorkerWorks ==
  ASSUME Typed, NEW r \in Radios, ctx[r].rx.active => Gap(ctx[r].rx), Worker(r)
  PROVE  \E id, d : Works(r, d, id)
<1>1. Sound(ctx[r]) /\ ctx[r].out = Silent
  BY DEF Typed
<1>2. \A id \in Ids(r) : id \in 0..MaxId
  BY FreshIdFree, MaxIdNat DEF Ids, NoId
<1>3. CASE ConfReady(r)
  <2>1. Head(conf[r]) \in Confs
    BY <1>3, ConfRan
  <2>2. PICK id \in Ids(r) :
          LET d == HandleTxConf(ctx[r], Head(conf[r]), id)
          IN  Handled(d, id) /\ Ran(r, d, id)
    BY <1>3, ConfRan
  <2> DEFINE d == HandleTxConf(ctx[r], Head(conf[r]), id)
  <2>3. Step(ctx[r], d, {}, ~Confirmed(ctx[r].tx.msg))
    BY <1>1, <1>2, <2>1, ConfServed
  <2>4. heard' = heard
    BY <1>3 DEF ConfReady
  <2>5. Sound(d) /\ Ran(r, d, id)
    BY <2>2 DEF Handled
  <2> HIDE DEF d
  <2>6. Works(r, d, id)
    BY <2>3, <2>4, <2>5 DEF Works
  <2> QED  BY <2>6
<1>4. CASE RxReady(r)
  <2> DEFINE b == Head(heard[r])
  <2>1. heard[r] # <<>> /\ b \in Audible
    BY <1>4, RxRan
  <2>2. PICK zeros \in Zeros(ctx[r], b) : \E id \in Ids(r) :
          LET d == RxBurst(ctx[r], b, zeros, r, id)
          IN  Handled(d, id) /\ Ran(r, d, id)
    BY <1>4, RxRan
  <2>3. PICK id \in Ids(r) :
          LET d == RxBurst(ctx[r], b, zeros, r, id)
          IN  Handled(d, id) /\ Ran(r, d, id)
    BY <2>2
  <2> DEFINE d == RxBurst(ctx[r], b, zeros, r, id)
  <2> HIDE DEF b
  <2>4. Step(ctx[r], d, Taken(b), MayReport(ctx[r], b, zeros))
    BY <1>1, <1>2, <2>1, BurstServed
  <2>5. heard' = [heard EXCEPT ![r] = Tail(@)]
    BY <1>4 DEF RxReady
  <2>6. Sound(d) /\ Ran(r, d, id)
    BY <2>3 DEF Handled
  <2> HIDE DEF d
  <2>7. Works(r, d, id)
    BY <2>1, <2>4, <2>5, <2>6 DEF Works, b
  <2> QED  BY <2>7
<1>5. CASE \E t \in Timers : TimerReady(r, t)
  <2>1. PICK t \in Timers : TimerReady(r, t)
    BY <1>5
  <2>2. PICK id \in Ids(r) :
          LET d == TimerServed(r, t, id) IN Handled(d, id) /\ Ran(r, d, id)
    BY <2>1, TimerRan
  <2> DEFINE d == TimerServed(r, t, id)
  <2>3. Step(ctx[r], d, {}, FALSE)
    BY <1>2, TimerServedStep
  <2>4. heard' = heard
    BY <2>1 DEF TimerReady
  <2>5. Sound(d) /\ Ran(r, d, id)
    BY <2>2 DEF Handled
  <2> HIDE DEF d
  <2>6. Step(ctx[r], d, {}, ~Confirmed(ctx[r].tx.msg))
    BY <2>3 DEF Step, TxStep, Over
  <2>7. Works(r, d, id)
    BY <2>4, <2>5, <2>6 DEF Works
  <2> QED  BY <2>7
<1> QED  BY <1>3, <1>4, <1>5 DEF Worker

\* The application's step.
LEMMA SendRuns ==
  ASSUME Typed, NEW r \in Radios, NEW m \in Messages, Send(r, m)
  PROVE  \E id, d :
           /\ id \in Ids(r) /\ Sound(d) /\ Ran(r, d, id) /\ heard' = heard
           /\ d.out = Preamble
           /\ d.tx.active /\ d.tx.msg = m /\ d.tx.phase = "PREAMBLE"
           /\ d.tx.tries = 0
           /\ d.state = "TX_BURST_PENDING" /\ d.rx = ctx[r].rx
           /\ d.tmr = ctx[r].tmr /\ d.copies = ctx[r].copies
           /\ d.told[m] = "sending"
           /\ \A k \in Messages \ {m} : d.told[k] = ctx[r].told[k]
<1> DEFINE n == FreshId(r)
           d == Submit(ctx[r], m, n)
<1>1. n \in 1..MaxId /\ n \in Ids(r)
  BY FreshIdFree DEF Ids
<1>2. Sound(ctx[r]) /\ ctx[r].out = Silent /\ ~ctx[r].tx.active
  BY DEF Typed, Send
<1>3. Ran(r, d, n) /\ heard' = heard
  BY SendTyped DEF Send
<1> HIDE DEF n
<1>5. LET e == Submit(ctx[r], m, n) IN
      /\ Sound(e) /\ e.out = Preamble
      /\ e.tx.active /\ e.tx.msg = m /\ e.tx.phase = "PREAMBLE" /\ e.tx.tries = 0
      /\ e.state = "TX_BURST_PENDING" /\ e.rx = ctx[r].rx /\ e.tmr = ctx[r].tmr
      /\ e.told[m] = "sending"
      /\ \A k \in Messages \ {m} : e.told[k] = ctx[r].told[k]
      /\ e.copies = ctx[r].copies
  BY <1>1, <1>2, SubmitSound
<1> HIDE DEF d
<1> QED  BY <1>1, <1>3, <1>5 DEF d

\* An expiry is all that changes.
LEMMA ExpireFields ==
  ASSUME Typed, NEW r \in Radios, NEW t \in Timers, Expire(r, t)
  PROVE  /\ UNCHANGED <<mac, heard>>
         /\ \A q \in Radios :
              /\ ctx'[q].tx = ctx[q].tx /\ ctx'[q].rx = ctx[q].rx
              /\ ctx'[q].state = ctx[q].state /\ ctx'[q].told = ctx[q].told
              /\ ctx'[q].copies = ctx[q].copies
              /\ \A u \in Timers : Live(ctx[q], u) => Live(ctx'[q], u)
<1> DEFINE tm == Expired(ctx[r].tmr, t)
<1>1. ctx[r] \in Context /\ ctx[r].tmr \in [Timers -> Timer]
  BY ContextFields DEF Typed
<1>2. ctx' = [ctx EXCEPT ![r] = [ctx[r] EXCEPT !.tmr = tm]] /\ DOMAIN ctx = Radios
  BY DEF Expire, Typed
<1>3. \A u \in Timers : ctx[r].tmr[u].kern # "off" => tm[u].kern # "off"
  BY <1>1 DEF Expired, Timer
<1> HIDE DEF tm
<1>4. LET e == ctx'[r] IN
      /\ e.tx = ctx[r].tx /\ e.rx = ctx[r].rx /\ e.state = ctx[r].state
      /\ e.told = ctx[r].told /\ e.copies = ctx[r].copies /\ e.tmr = tm
  BY <1>1, <1>2 DEF Context
<1>5. \A q \in Radios \ {r} : ctx'[q] = ctx[q]
  BY <1>2
<1> QED  BY <1>3, <1>4, <1>5 DEF Expire, Live

\* The MAC is done with its first request, which others may hear.
LEMMA MacTakes ==
  ASSUME Typed, NEW r \in Radios,
         MacAirs(r) \/ AirLoses(r) \/ MacRefuses(r) \/ MacForgets(r)
  PROVE  /\ mac[r] # <<>> /\ mac' = [mac EXCEPT ![r] = Tail(@)] /\ ctx' = ctx
         /\ Head(mac[r]) \in [id : 1..MaxId, burst : Sent \ {Silent}]
         /\ Head(mac[r]).burst \in Asked(r)
         /\ \A q \in Radios : Asked(q)' \subseteq Asked(q)
         /\ \A q \in Radios :
              \/ heard'[q] = heard[q]
              \/ /\ q # r /\ Head(mac[r]).burst \in Audible
                 /\ heard'[q] = Push(heard[q], Head(mac[r]).burst)
                 /\ Hears(q)' \subseteq Hears(q) \union {Head(mac[r]).burst}
<1> DEFINE R == [id : 1..MaxId, burst : Sent \ {Silent}]
           b == Head(mac[r]).burst
<1>1. mac[r] # <<>> /\ mac' = [mac EXCEPT ![r] = Tail(@)]
  <2>1. CASE MacForgets(r)
    <3>1. Len(<<>>) = 0
      OBVIOUS
    <3> QED  BY <2>1, <3>1 DEF MacForgets
  <2>2. CASE MacAirs(r) \/ AirLoses(r) \/ MacRefuses(r)
    BY <2>2 DEF MacAirs, AirLoses, MacRefuses, MacDone
  <2> QED  BY <2>1, <2>2
<1>2. ctx' = ctx
  BY DEF MacAirs, AirLoses, MacRefuses, MacForgets
<1>3. mac \in [Radios -> Seq(R)] /\ heard \in [Radios -> Seq(Audible)]
  BY DEF Typed
<1>4. \A x \in R : x.burst \in Sent \ {Silent}
  OBVIOUS
<1> HIDE DEF R
<1>5. Head(mac[r]) \in Range(mac[r]) /\ Head(mac[r]) \in R
      /\ Range(Tail(mac[r])) \subseteq Range(mac[r])
  BY <1>1, <1>3, RangeOfTail
<1>6. \A q \in Radios : Asked(q)' \subseteq Asked(q)
  BY <1>1, <1>3, <1>5 DEF Asked
<1>7. b \in Asked(r) /\ b \in Sent \ {Silent}
  BY <1>4, <1>5 DEF Asked
<1>8. b # Preamble => b \in Audible
  BY <1>7 DEF Audible
<1> HIDE DEF b
<1>9. ASSUME NEW hearers \in SUBSET Others(r), Heard(r, hearers), NEW q \in Radios
      PROVE  \/ heard'[q] = heard[q]
             \/ q # r /\ b \in Audible /\ heard'[q] = Push(heard[q], b)
  BY <1>8, <1>9 DEF Heard, Others, b
<1>10. ASSUME NEW q \in Radios
       PROVE  \/ heard'[q] = heard[q]
              \/ q # r /\ b \in Audible /\ heard'[q] = Push(heard[q], b)
  <2>1. CASE MacForgets(r) \/ MacRefuses(r)
    BY <2>1 DEF MacForgets, MacRefuses
  <2>2. CASE MacAirs(r)
    BY <1>9, <2>2 DEF MacAirs
  <2>3. CASE AirLoses(r)
    BY <1>9, <2>3 DEF AirLoses
  <2> QED  BY <2>1, <2>2, <2>3
<1>11. ASSUME NEW q \in Radios, b \in Audible, heard'[q] = Push(heard[q], b)
       PROVE  Hears(q)' \subseteq Hears(q) \union {b}
  <2>1. heard[q] \in Seq(Audible)
    BY <1>3
  <2> QED  BY <1>11, <2>1, RangePushed DEF Hears
<1> QED  BY <1>1, <1>2, <1>5, <1>6, <1>7, <1>10, <1>11 DEF b, R
----------------------------------------------------------------------------
(* What is always tracked, whatever the radios exchange.                   *)

\* A transfer is of a message the radio accepted and has not reported, and
\* only headers of its own messages are with its MAC; a response is awaited to
\* a confirmed message with T_Response running; something is missing of what
\* is being reassembled.
Tracked ==
  \A r \in Radios :
    /\ Attentive(ctx[r])
    /\ ctx[r].rx.active => Gap(ctx[r].rx)
    /\ ctx[r].tx.active =>
         /\ Msg[ctx[r].tx.msg].from = r
         /\ ctx[r].told[ctx[r].tx.msg] = "sending"
    /\ \A b \in Asked(r) : b.kind = "header" => Msg[b.msg].from = r

\* What is tracked depends on these parts of a context.
LEMMA AttentiveFrom ==
  ASSUME NEW c, NEW d, d.state = c.state, d.tx = c.tx,
         Live(c, "response") => Live(d, "response"), Attentive(c)
  PROVE  Attentive(d)
  BY DEF Attentive, AsksOnly

LEMMA InitTracked == Init => Tracked
<1> SUFFICES ASSUME Init, NEW r \in Radios
             PROVE  /\ Attentive(ctx[r])
                    /\ ~ctx[r].rx.active /\ ~ctx[r].tx.active /\ Asked(r) = {}
  BY DEF Tracked
<1>1. ctx[r] = InitialContext /\ mac[r] = <<>>
  BY DEF Init
<1> QED
  BY <1>1 DEF InitialContext, NoTx, NoRx, Attentive, AsksOnly, Asked, Range

LEMMA WorkerTracked ==
  ASSUME Typed, Tracked, NEW r \in Radios, Worker(r)
  PROVE  Tracked'
<1>1. ctx[r].rx.active => Gap(ctx[r].rx)
  BY DEF Tracked
<1>2. PICK id, d : Works(r, d, id)
  BY <1>1, WorkerWorks
<1>3. id \in Ids(r) /\ Sound(d) /\ Ran(r, d, id)
  BY <1>2 DEF Works
<1>4. /\ \A q \in Radios \ {r} : ctx'[q] = ctx[q]
      /\ ctx'[r].tx = d.tx /\ ctx'[r].rx = d.rx /\ ctx'[r].state = d.state
      /\ ctx'[r].tmr = d.tmr /\ ctx'[r].told = d.told
  BY <1>3, RanFields
<1>0. /\ \A q \in Radios \ {r} : Asked(q)' = Asked(q)
      /\ \A b \in Asked(r)' : b \in Asked(r) \/ (b = d.out /\ b # Silent)
  BY <1>3, RanAsked
<1>5. PICK in, mayOk : Step(ctx[r], d, in, mayOk)
  BY <1>2 DEF Works
<1>6. ctx[r].tx.active => ctx[r].tx.msg \in Messages
  BY ContextFields DEF Typed, Going
<1>7. Attentive(ctx'[r])
  BY <1>4, <1>5 DEF Tracked, Step, Attentive, AsksOnly, Live
<1>8. ctx'[r].rx.active => Gap(ctx'[r].rx)
  BY <1>1, <1>4, <1>5 DEF Step, Idle, TxStep, RxStep
<1>9. ctx'[r].tx.active =>
        Msg[ctx'[r].tx.msg].from = r /\ ctx'[r].told[ctx'[r].tx.msg] = "sending"
  BY <1>4, <1>5 DEF Tracked, Step, Idle, TxStep, RxStep, GoesOn, Over
<1>10. d.out.kind = "header" => Msg[d.out.msg].from = r
  BY <1>5, SilentSent DEF Tracked, Step, Idle, TxStep, RxStep, GoesOn, Over, Says
<1>11. \A b \in Asked(r)' : b.kind = "header" => Msg[b.msg].from = r
  BY <1>0, <1>10 DEF Tracked
<1> QED  BY <1>0, <1>4, <1>7, <1>8, <1>9, <1>11 DEF Tracked

LEMMA SendTracked ==
  ASSUME Typed, Tracked, NEW r \in Radios, NEW m \in Messages, Send(r, m)
  PROVE  Tracked'
<1>1. PICK id, d :
        /\ id \in Ids(r) /\ Sound(d) /\ Ran(r, d, id)
        /\ d.out = Preamble /\ d.tx.active /\ d.tx.msg = m
        /\ d.state = "TX_BURST_PENDING" /\ d.rx = ctx[r].rx
        /\ d.told[m] = "sending"
  BY SendRuns
<1>2. /\ \A q \in Radios \ {r} : ctx'[q] = ctx[q]
      /\ ctx'[r].tx = d.tx /\ ctx'[r].rx = d.rx /\ ctx'[r].state = d.state
      /\ ctx'[r].told = d.told
  BY <1>1, RanFields
<1>0. /\ \A q \in Radios \ {r} : Asked(q)' = Asked(q)
      /\ \A b \in Asked(r)' : b \in Asked(r) \/ b = Preamble
  BY <1>1, RanAsked
<1>3. Attentive(ctx'[r])
  BY <1>1, <1>2 DEF Attentive, AsksOnly
<1>4. Msg[m].from = r /\ Preamble.kind # "header"
  BY DEF Send, Preamble
<1> QED  BY <1>0, <1>1, <1>2, <1>3, <1>4 DEF Tracked

LEMMA ExpireTracked ==
  ASSUME Typed, Tracked, NEW r \in Radios, NEW t \in Timers, Expire(r, t)
  PROVE  Tracked'
<1>1. /\ mac' = mac
      /\ \A q \in Radios :
           /\ ctx'[q].tx = ctx[q].tx /\ ctx'[q].rx = ctx[q].rx
           /\ ctx'[q].state = ctx[q].state /\ ctx'[q].told = ctx[q].told
           /\ Live(ctx[q], "response") => Live(ctx'[q], "response")
  BY ExpireFields DEF Timers
<1>2. \A q \in Radios : Attentive(ctx'[q])
  BY <1>1, AttentiveFrom DEF Tracked
<1> QED  BY <1>1, <1>2 DEF Tracked, Asked

LEMMA MacTracked ==
  ASSUME Typed, Tracked, NEW r \in Radios,
         MacAirs(r) \/ AirLoses(r) \/ MacRefuses(r) \/ MacForgets(r)
  PROVE  Tracked'
<1>1. ctx' = ctx /\ \A q \in Radios : Asked(q)' \subseteq Asked(q)
  BY MacTakes
<1> QED  BY <1>1 DEF Tracked

LEMMA NextTracked == Typed /\ Tracked /\ [Next]_vars => Tracked'
<1> SUFFICES ASSUME Typed, Tracked, [Next]_vars PROVE Tracked'
  OBVIOUS
<1>1. CASE UNCHANGED vars
  BY <1>1 DEF Tracked, Asked, vars
<1>2. ASSUME NEW r \in Radios, Worker(r) PROVE Tracked'
  BY <1>2, WorkerTracked
<1>3. ASSUME NEW r \in Radios, NEW m \in Messages, Send(r, m) PROVE Tracked'
  BY <1>3, SendTracked
<1>4. ASSUME NEW r \in Radios, NEW t \in Timers, Expire(r, t) PROVE Tracked'
  BY <1>4, ExpireTracked
<1>5. ASSUME NEW r \in Radios,
             MacAirs(r) \/ AirLoses(r) \/ MacRefuses(r) \/ MacForgets(r)
      PROVE  Tracked'
  BY <1>5, MacTracked
<1> QED  BY <1>1, <1>2, <1>3, <1>4, <1>5 DEF Next

THEOREM AlwaysTracked == Spec => [](Typed /\ Tracked)
<1>1. Init => Typed /\ Tracked
  BY InitTyped, InitTracked
<1>2. Typed /\ Tracked /\ [Next]_vars => Typed' /\ Tracked'
  BY NextTyped, NextTracked
<1> QED  BY <1>1, <1>2, PTL DEF Spec

\* The first half of WaitsWatched holds however the radios' traffic crosses:
\* while a response or its bitmaps are awaited, T_Response runs, or its expiry
\* is about to be read.
THEOREM ResponseAlwaysWatched == Spec => []ResponseWatched
<1>1. Typed /\ Tracked => ResponseWatched
  BY DEF Typed, Tracked, Attentive, AsksOnly, ResponseWatched, Sound
<1> QED  BY <1>1, AlwaysTracked, PTL
----------------------------------------------------------------------------
(* One sender.                                                             *)

\* One radio sends all the messages: a radio that both sends and reassembles
\* uses one state for both, and loses T_RX_STALL's expiry when it is drained
\* in another state (section 7 of the README).
OneSender == \E s \in Radios : \A m \in Messages : Msg[m].from = s

\* The sender s hears no header and reassembles nothing, and the others are
\* not distracted from their reassembly.
OneWayFrom(s) ==
  /\ ~ctx[s].rx.active
  /\ \A b \in Hears(s) : b.kind # "header"
  /\ \A r \in Radios \ {s} : Listening(ctx[r])

\* Only s transfers, and only s has headers with its MAC.
LEMMA OthersListen ==
  ASSUME Typed, Tracked, NEW s \in Radios, \A m \in Messages : Msg[m].from = s,
         NEW r \in Radios \ {s}
  PROVE  ~ctx[r].tx.active /\ \A b \in Asked(r) : b.kind # "header"
<1>1. ctx[r].tx.active => ctx[r].tx.msg \in Messages
  BY ContextFields DEF Typed, Going
<1>2. ~ctx[r].tx.active
  BY <1>1 DEF Tracked
<1>3. \A b \in Asked(r) : b.kind = "header" => b.msg \in Messages
  BY QueuesHold, SentFields
<1> QED  BY <1>2, <1>3 DEF Tracked

LEMMA ListeningFrom ==
  ASSUME NEW c, NEW d, Listening(c), d.rx = c.rx, d.state = c.state,
         Live(c, "rx_stall") => Live(d, "rx_stall")
  PROVE  Listening(d)
  BY DEF Listening

LEMMA InitOneWay ==
  ASSUME Init, NEW s \in Radios
  PROVE  OneWayFrom(s)
<1>1. \A r \in Radios : ctx[r] = InitialContext
  BY DEF Init
<1>2. heard[s] = <<>>
  BY DEF Init
<1>3. ~InitialContext.rx.active
  BY DEF InitialContext, NoRx
<1>4. Hears(s) = {}
  BY <1>2 DEF Hears, Range
<1> QED  BY <1>1, <1>3, <1>4 DEF OneWayFrom, Listening

LEMMA WorkerOneWay ==
  ASSUME Typed, Tracked, NEW s \in Radios, \A m \in Messages : Msg[m].from = s,
         OneWayFrom(s), NEW r \in Radios, Worker(r)
  PROVE  OneWayFrom(s)'
<1>1. ctx[r].rx.active => Gap(ctx[r].rx)
  BY DEF Tracked
<1>2. PICK id, d : Works(r, d, id)
  BY <1>1, WorkerWorks
<1>3. id \in Ids(r) /\ Sound(d) /\ Ran(r, d, id)
  BY <1>2 DEF Works
<1>4. /\ \A q \in Radios \ {r} : ctx'[q] = ctx[q]
      /\ ctx'[r].rx = d.rx /\ ctx'[r].state = d.state /\ ctx'[r].tmr = d.tmr
  BY <1>3, RanFields
<1>5. heard \in [Radios -> Seq(Audible)]
  BY DEF Typed
<1>6. \A b \in Hears(s)' : b \in Hears(s)
  <2>1. CASE heard' = heard
    BY <2>1 DEF Hears
  <2>2. CASE heard' # heard
    <3>1. heard[r] # <<>> /\ heard' = [heard EXCEPT ![r] = Tail(@)]
      BY <1>2, <2>2 DEF Works
    <3>2. Range(Tail(heard[r])) \subseteq Range(heard[r])
      BY <1>5, <3>1, RangeOfTail
    <3> QED  BY <1>5, <3>1, <3>2 DEF Hears
  <2> QED  BY <2>1, <2>2
<1>7. CASE r = s
  <2>1. ctx[s].rx.active = FALSE
    BY ContextFields DEF Typed, OneWayFrom
  <2>2. heard[r] # <<>> => Head(heard[r]).kind # "header"
    <3>1. heard[r] # <<>> => Head(heard[r]) \in Hears(s)
      BY <1>5, <1>7, RangeOfTail DEF Hears
    <3> QED  BY <3>1 DEF OneWayFrom
  <2>3. PICK mayOk : Step(ctx[s], d, {}, mayOk)
    BY <1>2, <1>7, <2>2 DEF Works, Taken
  <2>4. d.rx = ctx[s].rx
    BY <2>1, <2>3 DEF Step, Idle, TxStep
  <2> QED  BY <1>4, <1>6, <1>7, <2>4 DEF OneWayFrom
<1>8. CASE r # s
  <2>1. PICK in, mayOk : Step(ctx[r], d, in, mayOk)
    BY <1>2 DEF Works
  <2>2. ~ctx[r].tx.active
    BY <1>8, OthersListen
  <2>3. Listening(d)
    BY <1>8, <2>1, <2>2 DEF Step, OneWayFrom
  <2>4. Listening(ctx'[r])
    BY <1>4, <2>3, ListeningFrom DEF Live
  <2> QED  BY <1>4, <1>6, <1>8, <2>4 DEF OneWayFrom
<1> QED  BY <1>7, <1>8

LEMMA SendOneWay ==
  ASSUME Typed, NEW s \in Radios, \A m \in Messages : Msg[m].from = s,
         OneWayFrom(s), NEW r \in Radios, NEW m \in Messages, Send(r, m)
  PROVE  OneWayFrom(s)'
<1>1. PICK id, d : /\ Sound(d) /\ Ran(r, d, id) /\ heard' = heard
                   /\ d.rx = ctx[r].rx
  BY SendRuns
<1>3. r = s
  BY DEF Send
<1>2. /\ \A q \in Radios \ {r} : ctx'[q] = ctx[q]
      /\ ctx'[r].rx = d.rx
  BY <1>1, RanFields
<1> QED  BY <1>1, <1>2, <1>3 DEF OneWayFrom, Hears

LEMMA ExpireOneWay ==
  ASSUME Typed, NEW s \in Radios, OneWayFrom(s), NEW r \in Radios,
         NEW t \in Timers, Expire(r, t)
  PROVE  OneWayFrom(s)'
<1>1. /\ heard' = heard
      /\ \A q \in Radios :
           /\ ctx'[q].rx = ctx[q].rx /\ ctx'[q].state = ctx[q].state
           /\ Live(ctx[q], "rx_stall") => Live(ctx'[q], "rx_stall")
  BY ExpireFields DEF Timers
<1>2. \A q \in Radios \ {s} : Listening(ctx'[q])
  BY <1>1, ListeningFrom DEF OneWayFrom
<1> QED  BY <1>1, <1>2 DEF OneWayFrom, Hears

LEMMA MacOneWay ==
  ASSUME Typed, Tracked, NEW s \in Radios, \A m \in Messages : Msg[m].from = s,
         OneWayFrom(s), NEW r \in Radios,
         MacAirs(r) \/ AirLoses(r) \/ MacRefuses(r) \/ MacForgets(r)
  PROVE  OneWayFrom(s)'
<1> DEFINE b == Head(mac[r]).burst
<1>1. /\ ctx' = ctx /\ b \in Asked(r)
      /\ \/ heard'[s] = heard[s]
         \/ s # r /\ Hears(s)' \subseteq Hears(s) \union {b}
  BY MacTakes
<1> HIDE DEF b
<1>2. s # r => b.kind # "header"
  BY <1>1, OthersListen
<1>3. \A x \in Hears(s)' : x.kind # "header"
  BY <1>1, <1>2 DEF OneWayFrom, Hears
<1> QED  BY <1>1, <1>3 DEF OneWayFrom

LEMMA NextOneWay ==
  ASSUME NEW s \in Radios, \A m \in Messages : Msg[m].from = s
  PROVE  Typed /\ Tracked /\ OneWayFrom(s) /\ [Next]_vars => OneWayFrom(s)'
<1> SUFFICES ASSUME Typed, Tracked, OneWayFrom(s), [Next]_vars
             PROVE  OneWayFrom(s)'
  OBVIOUS
<1>1. CASE UNCHANGED vars
  BY <1>1 DEF OneWayFrom, Hears, vars
<1>2. ASSUME NEW r \in Radios, Worker(r) PROVE OneWayFrom(s)'
  BY <1>2, WorkerOneWay
<1>3. ASSUME NEW r \in Radios, NEW m \in Messages, Send(r, m)
      PROVE  OneWayFrom(s)'
  BY <1>3, SendOneWay
<1>4. ASSUME NEW r \in Radios, NEW t \in Timers, Expire(r, t)
      PROVE  OneWayFrom(s)'
  BY <1>4, ExpireOneWay
<1>5. ASSUME NEW r \in Radios,
             MacAirs(r) \/ AirLoses(r) \/ MacRefuses(r) \/ MacForgets(r)
      PROVE  OneWayFrom(s)'
  BY <1>5, MacOneWay
<1> QED  BY <1>1, <1>2, <1>3, <1>4, <1>5 DEF Next

LEMMA OneWayWatched ==
  ASSUME NEW s \in Radios, Typed, Tracked, OneWayFrom(s)
  PROVE  WaitsWatched
<1>1. ResponseWatched
  BY DEF Typed, Tracked, Attentive, AsksOnly, ResponseWatched, Sound
<1>2. StallWatched
  BY DEF OneWayFrom, Listening, StallWatched
<1> QED  BY <1>1, <1>2 DEF WaitsWatched

\* While one radio sends, nothing waits for another radio unwatched, whatever
\* bursts are lost, refused or forgotten: T_Response runs while a response or
\* its bitmaps are awaited, and T_RX_STALL while a message is reassembled.
THEOREM WaitsAlwaysWatched == OneSender => (Spec => []WaitsWatched)
<1> SUFFICES ASSUME OneSender PROVE Spec => []WaitsWatched
  OBVIOUS
<1>1. PICK s \in Radios : \A m \in Messages : Msg[m].from = s
  BY DEF OneSender
<1>2. Init => OneWayFrom(s)
  BY InitOneWay
<1>3. Typed /\ Tracked /\ OneWayFrom(s) /\ [Next]_vars => OneWayFrom(s)'
  BY <1>1, NextOneWay
<1>4. Typed /\ Tracked /\ OneWayFrom(s) => WaitsWatched
  BY OneWayWatched
<1> QED  BY <1>2, <1>3, <1>4, AlwaysTracked, PTL DEF Spec
----------------------------------------------------------------------------
(* No more copies than transmissions.                                      *)

\* How many elements of a queue are in S.
Tally(q, S) == Cardinality({i \in DOMAIN q : q[i] \in S})

LEMMA TallyNat ==
  ASSUME NEW T, NEW q \in Seq(T), NEW S
  PROVE  /\ IsFiniteSet({i \in DOMAIN q : q[i] \in S}) /\ Tally(q, S) \in Nat
         /\ q = <<>> => Tally(q, S) = 0
<1> DEFINE I == {i \in DOMAIN q : q[i] \in S}
<1>1. Len(q) \in Nat /\ DOMAIN q = 1..Len(q)
  OBVIOUS
<1>2. IsFiniteSet(1..Len(q))
  BY <1>1, FS_Interval
<1>3. I \in SUBSET (1..Len(q))
  BY <1>1
<1>4. q = <<>> => I = {}
  OBVIOUS
<1> HIDE DEF I
<1>5. IsFiniteSet(I) /\ Cardinality(I) \in Nat
  BY <1>2, <1>3, FS_Subset, FS_CardinalityType
<1>6. q = <<>> => Cardinality(I) = 0
  BY <1>4, FS_EmptySet
<1> QED  BY <1>5, <1>6 DEF Tally, I

LEMMA TallyAppended ==
  ASSUME NEW T, NEW q \in Seq(T), NEW x \in T, NEW S
  PROVE  Tally(Append(q, x), S) = Tally(q, S) + (IF x \in S THEN 1 ELSE 0)
<1> DEFINE n == Len(q) + 1
           u == Append(q, x)
           I == {i \in DOMAIN q : q[i] \in S}
           J == {i \in DOMAIN u : u[i] \in S}
<1>1. /\ DOMAIN q = 1..Len(q) /\ Len(q) \in Nat /\ DOMAIN u = 1..n
      /\ u[n] = x /\ \A i \in 1..Len(q) : u[i] = q[i]
  OBVIOUS
<1>2. n \notin I
  BY <1>1
<1>3. J = IF x \in S THEN I \union {n} ELSE I
  BY <1>1
<1>4. IsFiniteSet(I) /\ Cardinality(I) \in Nat
  BY TallyNat DEF Tally
<1>5. Tally(q, S) = Cardinality(I) /\ Tally(u, S) = Cardinality(J)
  BY DEF Tally
<1> HIDE DEF I, J, n, u
<1>6. Cardinality(I \union {n}) = Cardinality(I) + 1
  BY <1>2, <1>4, FS_AddElement
<1> QED  BY <1>3, <1>4, <1>5, <1>6 DEF u

LEMMA TallyOfTail ==
  ASSUME NEW T, NEW q \in Seq(T), q # <<>>, NEW S
  PROVE  Tally(q, S) = Tally(Tail(q), S) + (IF Head(q) \in S THEN 1 ELSE 0)
<1> DEFINE u == Tail(q)
           I == {i \in DOMAIN q : q[i] \in S}
           J == {i \in DOMAIN u : u[i] \in S}
           K == I \ {1}
           F == [j \in J |-> j + 1]
<1>1. /\ DOMAIN q = 1..Len(q) /\ Len(q) \in Nat \ {0} /\ Head(q) = q[1]
      /\ DOMAIN u = 1..(Len(q) - 1)
      /\ \A i \in 1..(Len(q) - 1) : u[i] = q[i + 1]
  OBVIOUS
<1>2. J \subseteq Nat /\ \A j \in J : j + 1 \in K
  BY <1>1
<1>3. ASSUME NEW k \in K PROVE k - 1 \in J /\ k = (k - 1) + 1
  <2>1. k \in 1..Len(q) /\ k # 1 /\ q[k] \in S
    BY <1>1
  <2>2. k - 1 \in 1..(Len(q) - 1) /\ k = (k - 1) + 1
    BY <1>1, <2>1
  <2>3. u[k - 1] = q[k]
    BY <1>1, <2>2
  <2> QED  BY <1>1, <2>1, <2>2, <2>3
<1>4. F \in Bijection(J, K)
  <2> HIDE DEF J, K
  <2>1. F \in [J -> K]
    BY <1>2
  <2>2. \A i, j \in J : F[i] = F[j] => i = j
    BY <1>2
  <2>3. \A k \in K : \E j \in J : F[j] = k
    BY <1>3
  <2> HIDE DEF F
  <2> QED  BY <2>1, <2>2, <2>3, Fun_IsBij
<1>5. u \in Seq(T)
  BY HeadTailProperties
<1>6. /\ IsFiniteSet(I) /\ Cardinality(I) \in Nat
      /\ IsFiniteSet(J) /\ Cardinality(J) \in Nat
  <2> HIDE DEF u
  <2> QED  BY <1>5, TallyNat DEF Tally
<1>7. Tally(q, S) = Cardinality(I) /\ Tally(u, S) = Cardinality(J)
  BY DEF Tally
<1>8. 1 \in I <=> Head(q) \in S
  BY <1>1
<1> HIDE DEF I, J, u, F
<1>9. Cardinality(K) = Cardinality(J)
  <2> HIDE DEF K
  <2>1. ExistsBijection(J, K)
    BY <1>4 DEF ExistsBijection
  <2> QED  BY <1>6, <2>1, FS_Bijection
<1>10. Cardinality(K) = IF 1 \in I THEN Cardinality(I) - 1 ELSE Cardinality(I)
  BY <1>6, FS_RemoveElement
<1> HIDE DEF K
<1> QED  BY <1>6, <1>7, <1>8, <1>9, <1>10 DEF u

LEMMA TallyPushed ==
  ASSUME NEW T, NEW q \in Seq(T), NEW x \in T, NEW S
  PROVE  Tally(Push(q, x), S) <= Tally(q, S) + (IF x \in S THEN 1 ELSE 0)
<1>1. Tally(q, S) \in Nat
  BY TallyNat
<1>2. Tally(Append(q, x), S) = Tally(q, S) + (IF x \in S THEN 1 ELSE 0)
  BY TallyAppended
<1> QED  BY <1>1, <1>2 DEF Push

\* Headers of m: as requests of its sender, and as its receiver hears them.
HeaderRequests(m) ==
  {x \in [id : 1..MaxId, burst : Sent \ {Silent}] :
     x.burst.kind = "header" /\ x.burst.msg = m}
Headers(m) == {b \in Audible : b.kind = "header" /\ b.msg = m}

\* The transmissions of its message's header a context has begun so far.
Budget(c, m) ==
  IF c.told[m] = "new" THEN 0
  ELSE IF c.tx.active /\ c.tx.msg = m THEN Spent(c.tx) ELSE 1 + MaxRetries

\* Each header pays for one copy: delivered, in the making, or on its way.
Counted ==
  \A m \in Messages :
    LET s == Msg[m].from  d == Msg[m].to
    IN  Stock(ctx[d], m) + Tally(heard[d], Headers(m))
          + Tally(mac[s], HeaderRequests(m)) <= Budget(ctx[s], m)

IsHeader(b, m) == IF b.kind = "header" /\ b.msg = m THEN 1 ELSE 0

LEMMA BudgetNat ==
  ASSUME NEW c \in Context, NEW m \in Messages
  PROVE  Budget(c, m) \in 0..(1 + MaxRetries)
<1>1. c.tx.active => Spent(c.tx) \in 0..(MaxRetries + 1)
  BY ContextFields, SpentNat
<1>2. MaxRetries \in Nat
  BY DataBounds
<1>3. CASE c.tx.active
  BY <1>1, <1>2, <1>3 DEF Budget
<1>4. CASE ~c.tx.active
  BY <1>2, <1>4 DEF Budget
<1> QED  BY <1>3, <1>4

\* A step that sends a header has begun a transmission.
LEMMA BudgetGrows ==
  ASSUME NEW c \in Context, NEW d \in Context,
         c.tx.active => c.told[c.tx.msg] = "sending",
         NEW in, NEW mayOk, Step(c, d, in, mayOk),
         NEW m \in Messages
  PROVE  Budget(c, m) + IsHeader(d.out, m) <= Budget(d, m)
<1>1. Budget(c, m) \in Nat /\ MaxRetries \in Nat
  BY BudgetNat, DataBounds
<1>2. CASE Idle(c, d) \/ RxStep(c, d, in)
  <2>1. d.tx = c.tx /\ d.told = c.told
    BY <1>2 DEF Idle, RxStep
  <2>2. d.out.kind # "header"
    BY <1>2, SilentSent DEF Idle, RxStep, Says
  <2> QED  BY <1>1, <2>1, <2>2 DEF Budget, IsHeader
<1>3. CASE TxStep(c, d, mayOk) /\ GoesOn(c, d)
  <2>1. c.tx.active /\ d.tx.active /\ d.tx.msg = c.tx.msg /\ d.told = c.told
    BY <1>3 DEF TxStep, GoesOn
  <2>2. Spent(c.tx) \in Nat /\ Spent(d.tx) \in Nat
    BY <2>1, ContextFields, SpentNat
  <2>3. /\ Spent(c.tx) <= Spent(d.tx)
        /\ d.out.kind = "header" => d.out.msg = c.tx.msg /\ Spent(c.tx) < Spent(d.tx)
    BY <1>3 DEF GoesOn
  <2>4. CASE m = c.tx.msg
    <3>1. Budget(c, m) = Spent(c.tx) /\ Budget(d, m) = Spent(d.tx)
      BY <2>1, <2>4 DEF Budget
    <3> QED  BY <2>2, <2>3, <3>1 DEF IsHeader
  <2>5. CASE m # c.tx.msg
    <3>1. Budget(c, m) = Budget(d, m) /\ IsHeader(d.out, m) = 0
      BY <2>1, <2>3, <2>5 DEF Budget, IsHeader
    <3> QED  BY <1>1, <3>1
  <2> QED  BY <2>4, <2>5
<1>4. CASE TxStep(c, d, mayOk) /\ Over(c, d, mayOk)
  <2>1. c.tx.active /\ ~d.tx.active /\ d.told[c.tx.msg] \in {"failed", "ok"}
        /\ \A k \in Messages \ {c.tx.msg} : d.told[k] = c.told[k]
    BY <1>4 DEF TxStep, Over
  <2>2. IsHeader(d.out, m) = 0
    BY <1>4, SilentSent DEF Over, IsHeader
  <2>3. CASE m = c.tx.msg
    <3>1. Budget(d, m) = 1 + MaxRetries
      BY <2>1, <2>3 DEF Budget
    <3> QED  BY <2>2, <3>1, BudgetNat, <1>1
  <2>4. CASE m # c.tx.msg
    <3>1. Budget(d, m) = Budget(c, m)
      BY <2>1, <2>4 DEF Budget
    <3> QED  BY <1>1, <2>2, <3>1
  <2> QED  BY <2>3, <2>4
<1> QED  BY <1>2, <1>3, <1>4 DEF Step, TxStep

\* Only a header that is taken begins another copy.
LEMMA StockGrows ==
  ASSUME NEW c \in Context, NEW d \in Context,
         NEW in, NEW mayOk, Step(c, d, in, mayOk),
         NEW m \in Messages
  PROVE  Stock(d, m) <= Stock(c, m) + (IF m \in in THEN 1 ELSE 0)
<1>1. Stock(c, m) \in Nat
  BY CopiesNat
<1>2. CASE Idle(c, d) \/ TxStep(c, d, mayOk)
  <2>1. Stock(d, m) = Stock(c, m)
    BY <1>2 DEF Idle, TxStep, Stock
  <2> QED  BY <1>1, <2>1
<1>3. CASE RxStep(c, d, in)
  BY <1>3 DEF RxStep
<1> QED  BY <1>2, <1>3 DEF Step

LEMMA StockBudgetFrom ==
  ASSUME NEW c, NEW d, d.tx = c.tx, d.rx = c.rx, d.told = c.told,
         d.copies = c.copies, NEW m
  PROVE  Stock(d, m) = Stock(c, m) /\ Budget(d, m) = Budget(c, m)
  BY DEF Stock, Budget

\* The queues and contexts whose headers are counted for a message.
LEMMA CountedTypes ==
  ASSUME Typed, NEW m \in Messages
  PROVE  LET s == Msg[m].from  d == Msg[m].to IN
         /\ s \in Radios /\ d \in Radios /\ s # d
         /\ ctx[s] \in Context /\ ctx[d] \in Context
         /\ heard[d] \in Seq(Audible)
         /\ mac[s] \in Seq([id : 1..MaxId, burst : Sent \ {Silent}])
         /\ Stock(ctx[d], m) \in Nat /\ Budget(ctx[s], m) \in Nat
         /\ Tally(heard[d], Headers(m)) \in Nat
         /\ Tally(mac[s], HeaderRequests(m)) \in Nat
<1> DEFINE s == Msg[m].from
           d == Msg[m].to
           R == [id : 1..MaxId, burst : Sent \ {Silent}]
<1>1. s \in Radios /\ d \in Radios /\ s # d
  BY MsgAssumption
<1>2. heard \in [Radios -> Seq(Audible)] /\ mac \in [Radios -> Seq(R)]
      /\ ctx \in [Radios -> Context]
  BY DEF Typed
<1> HIDE DEF s, d, R
<1>3. ctx[s] \in Context /\ ctx[d] \in Context
      /\ heard[d] \in Seq(Audible) /\ mac[s] \in Seq(R)
  BY <1>1, <1>2
<1>4. Stock(ctx[d], m) \in Nat
  BY <1>3, CopiesNat
<1>5. Budget(ctx[s], m) \in Nat
  BY <1>3, BudgetNat, DataBounds
<1>6. Tally(heard[d], Headers(m)) \in Nat /\ Tally(mac[s], HeaderRequests(m)) \in Nat
  BY <1>3, TallyNat
<1> QED  BY <1>1, <1>3, <1>4, <1>5, <1>6 DEF s, d, R

\* Between the sender s and the receiver e of m, at most as much more is begun
\* as the budget grows.
CountedFor(m, s, e) ==
  Stock(ctx[e], m) + Tally(heard[e], Headers(m))
    + Tally(mac[s], HeaderRequests(m)) <= Budget(ctx[s], m)

LEMMA InitCounted == Init => Counted
<1> SUFFICES ASSUME Init, NEW m \in Messages,
                    NEW s \in Radios, NEW e \in Radios
             PROVE  CountedFor(m, s, e)
  BY MsgAssumption DEF Counted, CountedFor
<1>1. ctx[s] = InitialContext /\ ctx[e] = InitialContext
      /\ mac[s] = <<>> /\ heard[e] = <<>>
  BY DEF Init
<1>2. Stock(InitialContext, m) = 0 /\ Budget(InitialContext, m) = 0
  BY DEF InitialContext, NoRx, NoTx, Stock, Budget
<1>3. \A S : Tally(<<>>, S) = 0
  <2>1. <<>> \in Seq(Nat)
    OBVIOUS
  <2> QED  BY <2>1, TallyNat
<1> QED  BY <1>1, <1>2, <1>3 DEF CountedFor

LEMMA RequestTally ==
  ASSUME NEW q \in Seq([id : 1..MaxId, burst : Sent \ {Silent}]),
         NEW x \in [id : 1..MaxId, burst : Sent \ {Silent}], NEW m
  PROVE  /\ Tally(Append(q, x), HeaderRequests(m))
              = Tally(q, HeaderRequests(m)) + IsHeader(x.burst, m)
         /\ q # <<>> => Tally(q, HeaderRequests(m))
              = Tally(Tail(q), HeaderRequests(m)) + IsHeader(Head(q).burst, m)
<1> DEFINE R == [id : 1..MaxId, burst : Sent \ {Silent}]
<1>1. \A y \in R : (IF y \in HeaderRequests(m) THEN 1 ELSE 0) = IsHeader(y.burst, m)
  BY DEF HeaderRequests, IsHeader
<1>2. q \in Seq(R) /\ x \in R
  OBVIOUS
<1> HIDE DEF R
<1>3. q # <<>> => Head(q) \in R
  BY <1>2, HeadTailProperties
<1>4. Tally(Append(q, x), HeaderRequests(m))
        = Tally(q, HeaderRequests(m)) + (IF x \in HeaderRequests(m) THEN 1 ELSE 0)
  BY <1>2, TallyAppended
<1>5. q # <<>> => Tally(q, HeaderRequests(m))
        = Tally(Tail(q), HeaderRequests(m))
            + (IF Head(q) \in HeaderRequests(m) THEN 1 ELSE 0)
  BY <1>2, TallyOfTail
<1> QED  BY <1>1, <1>2, <1>3, <1>4, <1>5

LEMMA WorkerCounted ==
  ASSUME Typed, Tracked, Typed', NEW r \in Radios, Worker(r),
         NEW m \in Messages, NEW s \in Radios, NEW e \in Radios, s # e,
         CountedFor(m, s, e),
         ctx[s] \in Context, ctx[e] \in Context, heard[e] \in Seq(Audible),
         mac[s] \in Seq([id : 1..MaxId, burst : Sent \ {Silent}])
  PROVE  CountedFor(m, s, e)'
<1> DEFINE R == [id : 1..MaxId, burst : Sent \ {Silent}]
<1>1. ctx[r].rx.active => Gap(ctx[r].rx)
  BY DEF Tracked
<1>2. PICK id, d : Works(r, d, id)
  BY <1>1, WorkerWorks
<1>3. id \in Ids(r) /\ Sound(d) /\ Ran(r, d, id) /\ d \in Context
  BY <1>2 DEF Works, Sound, SoundParts
<1>4. /\ \A q \in Radios \ {r} : ctx'[q] = ctx[q]
      /\ ctx'[r].tx = d.tx /\ ctx'[r].rx = d.rx /\ ctx'[r].told = d.told
      /\ ctx'[r].copies = d.copies
  BY <1>3, RanFields
<1>5. Stock(ctx'[r], m) = Stock(d, m) /\ Budget(ctx'[r], m) = Budget(d, m)
  BY <1>4, StockBudgetFrom
<1>6. /\ \A q \in Radios \ {r} : mac'[q] = mac[q]
      /\ \/ d.out = Silent /\ mac'[r] = mac[r]
         \/ \E x \in R :
              d.out # Silent /\ x.burst = d.out /\ mac'[r] = Append(mac[r], x)
  BY <1>3, RanMac
<1>7. /\ Stock(ctx[e], m) \in Nat /\ Budget(ctx[s], m) \in Nat
      /\ Tally(heard[e], Headers(m)) \in Nat
      /\ Tally(mac[s], HeaderRequests(m)) \in Nat
  <2>1. Stock(ctx[e], m) \in Nat /\ Budget(ctx[s], m) \in Nat
    BY CopiesNat, BudgetNat, DataBounds
  <2>2. Tally(heard[e], Headers(m)) \in Nat
    BY TallyNat
  <2>3. Tally(mac[s], HeaderRequests(m)) \in Nat
    BY TallyNat
  <2> QED  BY <2>1, <2>2, <2>3
<1>8. PICK in, mayOk :
        /\ Step(ctx[r], d, in, mayOk)
        /\ \/ heard' = heard /\ in = {}
           \/ /\ heard[r] # <<>> /\ heard' = [heard EXCEPT ![r] = Tail(@)]
              /\ in = Taken(Head(heard[r]))
  BY <1>2 DEF Works
<1>9. heard \in [Radios -> Seq(Audible)]
  BY DEF Typed
<1> HIDE DEF R
<1>10. CASE r = s
  <2>1. heard'[e] = heard[e] /\ ctx'[e] = ctx[e]
    BY <1>4, <1>8, <1>9, <1>10
  <2>2. ctx[s].tx.active => ctx[s].told[ctx[s].tx.msg] = "sending"
    BY DEF Tracked
  <2>3. Budget(ctx[s], m) + IsHeader(d.out, m) <= Budget(d, m)
    BY <1>3, <1>8, <1>10, <2>2, BudgetGrows
  <2>4. Budget(d, m) \in Nat /\ IsHeader(d.out, m) \in Nat
    BY <1>3, BudgetNat, DataBounds DEF IsHeader
  <2>5. Tally(mac'[s], HeaderRequests(m))
          = Tally(mac[s], HeaderRequests(m)) + IsHeader(d.out, m)
    <3>1. CASE d.out = Silent /\ mac'[s] = mac[s]
      <4>1. IsHeader(d.out, m) = 0
        BY <3>1, SilentSent DEF IsHeader
      <4> QED  BY <1>7, <3>1, <4>1
    <3>2. CASE \E x \in R : x.burst = d.out /\ mac'[s] = Append(mac[s], x)
      BY <3>2, RequestTally DEF R
    <3> QED  BY <1>6, <1>10, <3>1, <3>2
  <2> QED  BY <1>5, <1>7, <1>10, <2>1, <2>3, <2>4, <2>5 DEF CountedFor
<1>11. CASE r = e
  <2>1. mac'[s] = mac[s] /\ ctx'[s] = ctx[s]
    BY <1>4, <1>6, <1>11
  <2>2. Stock(d, m) <= Stock(ctx[e], m) + (IF m \in in THEN 1 ELSE 0)
    BY <1>3, <1>8, <1>11, StockGrows
  <2>3. Stock(d, m) \in Nat
    BY <1>3, CopiesNat
  <2>4. Tally(heard[e], Headers(m)) = Tally(heard'[e], Headers(m))
          + (IF m \in in THEN 1 ELSE 0)
    <3>1. CASE heard' = heard /\ in = {}
      BY <1>7, <3>1
    <3>2. CASE ~(heard' = heard /\ in = {})
      <4>1. heard[e] # <<>> /\ heard'[e] = Tail(heard[e]) /\ in = Taken(Head(heard[e]))
        BY <1>8, <1>9, <1>11, <3>2
      <4>2. Tally(heard[e], Headers(m)) = Tally(Tail(heard[e]), Headers(m))
              + (IF Head(heard[e]) \in Headers(m) THEN 1 ELSE 0)
        BY <4>1, TallyOfTail
      <4>3. Head(heard[e]) \in Audible
        BY <4>1, HeadTailProperties
      <4>4. m \in in <=> Head(heard[e]) \in Headers(m)
        BY <4>1, <4>3 DEF Taken, Headers
      <4> QED  BY <4>1, <4>2, <4>4
    <3> QED  BY <3>1, <3>2
  <2>5. Tally(heard'[e], Headers(m)) \in Nat
    <3>1. heard'[e] \in Seq(Audible)
      BY DEF Typed
    <3> QED  BY <3>1, TallyNat
  <2> QED  BY <1>5, <1>7, <1>11, <2>1, <2>2, <2>3, <2>4, <2>5 DEF CountedFor
<1>12. CASE r # s /\ r # e
  <2>1. mac'[s] = mac[s] /\ ctx'[s] = ctx[s] /\ ctx'[e] = ctx[e]
        /\ heard'[e] = heard[e]
    BY <1>4, <1>6, <1>8, <1>9, <1>12
  <2> QED  BY <2>1 DEF CountedFor
<1> QED  BY <1>10, <1>11, <1>12

LEMMA SendCounted ==
  ASSUME Typed, NEW r \in Radios, NEW k \in Messages, Send(r, k),
         NEW m \in Messages, NEW s \in Radios, NEW e \in Radios, s # e,
         m = k => r = s, CountedFor(m, s, e),
         ctx[s] \in Context, ctx[e] \in Context, heard[e] \in Seq(Audible),
         mac[s] \in Seq([id : 1..MaxId, burst : Sent \ {Silent}])
  PROVE  CountedFor(m, s, e)'
<1> DEFINE R == [id : 1..MaxId, burst : Sent \ {Silent}]
<1>1. PICK id, d :
        /\ id \in Ids(r) /\ Sound(d) /\ Ran(r, d, id) /\ heard' = heard
        /\ d.out = Preamble
        /\ d.tx.active /\ d.tx.msg = k /\ d.tx.phase = "PREAMBLE"
        /\ d.tx.tries = 0
        /\ d.rx = ctx[r].rx /\ d.copies = ctx[r].copies
        /\ d.told[k] = "sending"
        /\ \A j \in Messages \ {k} : d.told[j] = ctx[r].told[j]
  BY SendRuns
<1>2. /\ \A q \in Radios \ {r} : ctx'[q] = ctx[q]
      /\ ctx'[r].tx = d.tx /\ ctx'[r].rx = d.rx /\ ctx'[r].told = d.told
      /\ ctx'[r].copies = d.copies
  BY <1>1, RanFields
<1>3. /\ \A q \in Radios \ {r} : mac'[q] = mac[q]
      /\ \/ d.out = Silent /\ mac'[r] = mac[r]
         \/ \E x \in R :
              d.out # Silent /\ x.burst = d.out /\ mac'[r] = Append(mac[r], x)
  BY <1>1, RanMac
<1> HIDE DEF R
<1>4. Stock(ctx'[e], m) = Stock(ctx[e], m)
  <2>1. ctx'[e].rx = ctx[e].rx /\ ctx'[e].copies = ctx[e].copies
    BY <1>1, <1>2
  <2> QED  BY <2>1 DEF Stock
<1>5. Tally(mac'[s], HeaderRequests(m)) = Tally(mac[s], HeaderRequests(m))
  <2>1. CASE r # s \/ mac'[r] = mac[r]
    BY <1>3, <2>1
  <2>2. CASE r = s /\ \E x \in R : x.burst = d.out /\ mac'[r] = Append(mac[r], x)
    <3>1. PICK x \in R : x.burst = d.out /\ mac'[s] = Append(mac[s], x)
      BY <2>2
    <3>2. Tally(Append(mac[s], x), HeaderRequests(m))
            = Tally(mac[s], HeaderRequests(m)) + IsHeader(x.burst, m)
      BY RequestTally DEF R
    <3>3. IsHeader(x.burst, m) = 0
      BY <1>1, <3>1 DEF IsHeader, Preamble
    <3>4. Tally(mac[s], HeaderRequests(m)) \in Nat
      BY TallyNat
    <3> QED  BY <3>1, <3>2, <3>3, <3>4
  <2> QED  BY <1>3, <2>1, <2>2
<1>6. Budget(ctx'[s], m) = Budget(ctx[s], m)
  <2>1. CASE r # s
    BY <1>2, <2>1
  <2>2. CASE r = s /\ m = k
    <3>1. ctx[s].told[m] = "new"
      BY <2>2 DEF Send
    <3>2. Budget(ctx'[s], m) = Spent(d.tx) /\ Spent(d.tx) = 0
      BY <1>1, <1>2, <2>2 DEF Budget, Spent
    <3> QED  BY <3>1, <3>2 DEF Budget
  <2>3. CASE r = s /\ m # k
    <3>1. ~ctx[s].tx.active
      BY <2>3 DEF Send
    <3> QED  BY <1>1, <1>2, <2>3, <3>1 DEF Budget
  <2> QED  BY <2>1, <2>2, <2>3
<1> QED  BY <1>1, <1>4, <1>5, <1>6 DEF CountedFor

LEMMA MacCounted ==
  ASSUME Typed, Tracked, Typed', NEW r \in Radios,
         MacAirs(r) \/ AirLoses(r) \/ MacRefuses(r) \/ MacForgets(r),
         NEW m \in Messages, NEW s \in Radios, NEW e \in Radios, s # e,
         Msg[m].from = s, CountedFor(m, s, e),
         ctx[s] \in Context, ctx[e] \in Context, heard[e] \in Seq(Audible),
         mac[s] \in Seq([id : 1..MaxId, burst : Sent \ {Silent}])
  PROVE  CountedFor(m, s, e)'
<1> DEFINE b == Head(mac[r]).burst
<1>1. /\ mac[r] # <<>> /\ mac' = [mac EXCEPT ![r] = Tail(@)] /\ ctx' = ctx
      /\ b \in Asked(r)
      /\ \/ heard'[e] = heard[e]
         \/ b \in Audible /\ heard'[e] = Push(heard[e], b)
  BY MacTakes
<1>2. mac \in [Radios -> Seq([id : 1..MaxId, burst : Sent \ {Silent}])]
  BY DEF Typed
<1>3. /\ Stock(ctx[e], m) \in Nat /\ Budget(ctx[s], m) \in Nat
      /\ Tally(heard[e], Headers(m)) \in Nat
      /\ Tally(mac[s], HeaderRequests(m)) \in Nat
  <2>1. Stock(ctx[e], m) \in Nat /\ Budget(ctx[s], m) \in Nat
    BY CopiesNat, BudgetNat, DataBounds
  <2>2. Tally(heard[e], Headers(m)) \in Nat
    BY TallyNat
  <2>3. Tally(mac[s], HeaderRequests(m)) \in Nat
    BY TallyNat
  <2> QED  BY <2>1, <2>2, <2>3
<1>4. heard'[e] \in Seq(Audible)
      /\ mac'[s] \in Seq([id : 1..MaxId, burst : Sent \ {Silent}])
  BY DEF Typed
<1>5. Tally(heard'[e], Headers(m)) \in Nat /\ Tally(mac'[s], HeaderRequests(m)) \in Nat
  BY <1>4, TallyNat
<1>6. Tally(heard'[e], Headers(m)) <= Tally(heard[e], Headers(m)) + IsHeader(b, m)
  <2> HIDE DEF b
  <2>1. CASE heard'[e] = heard[e]
    BY <1>3, <2>1 DEF IsHeader
  <2>2. CASE b \in Audible /\ heard'[e] = Push(heard[e], b)
    <3>1. Tally(Push(heard[e], b), Headers(m))
            <= Tally(heard[e], Headers(m)) + (IF b \in Headers(m) THEN 1 ELSE 0)
      BY <2>2, TallyPushed
    <3>2. (IF b \in Headers(m) THEN 1 ELSE 0) = IsHeader(b, m)
      BY <2>2 DEF Headers, IsHeader
    <3> QED  BY <2>2, <3>1, <3>2
  <2> QED  BY <1>1, <2>1, <2>2
<1>7. CASE r = s
  <2>1. Tally(mac[s], HeaderRequests(m))
          = Tally(Tail(mac[s]), HeaderRequests(m)) + IsHeader(b, m)
    <3>1. mac[s] # <<>> /\ Head(mac[s]) \in [id : 1..MaxId, burst : Sent \ {Silent}]
      BY <1>7, MacTakes
    <3> QED  BY <1>7, <3>1, RequestTally
  <2>2. mac'[s] = Tail(mac[s])
    BY <1>1, <1>2, <1>7
  <2>3. IsHeader(b, m) \in Nat
    BY DEF IsHeader
  <2> HIDE DEF b
  <2>4. Tally(heard'[e], Headers(m)) + Tally(mac'[s], HeaderRequests(m))
          <= Tally(heard[e], Headers(m)) + Tally(mac[s], HeaderRequests(m))
    BY <1>3, <1>5, <1>6, <2>1, <2>2, <2>3
  <2> QED  BY <1>1, <1>3, <1>5, <2>4 DEF CountedFor
<1>8. CASE r # s
  <2>1. mac'[s] = mac[s]
    BY <1>1, <1>2, <1>8
  <2> HIDE DEF b
  <2>2. IsHeader(b, m) = 0
    BY <1>1, <1>8 DEF Tracked, IsHeader
  <2> QED  BY <1>1, <1>3, <1>5, <1>6, <2>1, <2>2 DEF CountedFor
<1> QED  BY <1>7, <1>8

LEMMA NextCounted == Typed /\ Tracked /\ Counted /\ [Next]_vars => Counted'
<1> SUFFICES ASSUME Typed, Tracked, Counted, [Next]_vars, NEW m \in Messages
             PROVE  CountedFor(m, Msg[m].from, Msg[m].to)'
  BY DEF Counted, CountedFor
<1> DEFINE s == Msg[m].from
           e == Msg[m].to
<1>1. /\ s \in Radios /\ e \in Radios /\ s # e
      /\ ctx[s] \in Context /\ ctx[e] \in Context /\ heard[e] \in Seq(Audible)
      /\ mac[s] \in Seq([id : 1..MaxId, burst : Sent \ {Silent}])
  BY CountedTypes
<1>2. CountedFor(m, s, e)
  BY DEF Counted, CountedFor
<1>3. Typed'
  BY NextTyped
<1>4. CASE UNCHANGED vars
  BY <1>2, <1>4 DEF CountedFor, vars
<1>5. s = Msg[m].from
  OBVIOUS
<1> HIDE DEF s, e
<1>6. ASSUME NEW r \in Radios, Worker(r) PROVE CountedFor(m, s, e)'
  BY <1>1, <1>2, <1>3, <1>6, WorkerCounted
<1>7. ASSUME NEW r \in Radios, NEW k \in Messages, Send(r, k)
      PROVE  CountedFor(m, s, e)'
  <2>1. m = k => r = s
    BY <1>5, <1>7 DEF Send
  <2> QED  BY <1>1, <1>2, <1>7, <2>1, SendCounted
<1>8. ASSUME NEW r \in Radios, NEW t \in Timers, Expire(r, t)
      PROVE  CountedFor(m, s, e)'
  <2>1. /\ UNCHANGED <<mac, heard>>
        /\ \A q \in Radios :
             /\ ctx'[q].tx = ctx[q].tx /\ ctx'[q].rx = ctx[q].rx
             /\ ctx'[q].told = ctx[q].told /\ ctx'[q].copies = ctx[q].copies
    BY <1>8, ExpireFields
  <2>2. Stock(ctx'[e], m) = Stock(ctx[e], m)
    <3>1. ctx'[e].rx = ctx[e].rx /\ ctx'[e].copies = ctx[e].copies
      BY <1>1, <2>1
    <3> QED  BY <3>1 DEF Stock
  <2>3. Budget(ctx'[s], m) = Budget(ctx[s], m)
    <3>1. ctx'[s].tx = ctx[s].tx /\ ctx'[s].told = ctx[s].told
      BY <1>1, <2>1
    <3> QED  BY <3>1 DEF Budget
  <2> QED  BY <1>2, <2>1, <2>2, <2>3 DEF CountedFor
<1>9. ASSUME NEW r \in Radios,
             MacAirs(r) \/ AirLoses(r) \/ MacRefuses(r) \/ MacForgets(r)
      PROVE  CountedFor(m, s, e)'
  BY <1>1, <1>2, <1>3, <1>5, <1>9, MacCounted
<1> QED  BY <1>4, <1>6, <1>7, <1>8, <1>9 DEF Next, s, e

LEMMA CountedWithin == Typed /\ Counted => WithinRetries
<1> SUFFICES ASSUME Typed, Counted, NEW m \in Messages
             PROVE  Copies(m) <= 1 + MaxRetries
  BY DEF WithinRetries
<1> DEFINE s == Msg[m].from
           e == Msg[m].to
           n == ctx[e].copies[m]
<1>1. /\ ctx[s] \in Context /\ ctx[e] \in Context
      /\ Stock(ctx[e], m) \in Nat /\ Budget(ctx[s], m) \in Nat
      /\ Tally(heard[e], Headers(m)) \in Nat
      /\ Tally(mac[s], HeaderRequests(m)) \in Nat
  BY CountedTypes
<1>2. Stock(ctx[e], m) + Tally(heard[e], Headers(m))
        + Tally(mac[s], HeaderRequests(m)) <= Budget(ctx[s], m)
  BY DEF Counted
<1>3. Budget(ctx[s], m) <= 1 + MaxRetries /\ MaxRetries \in Nat
  BY <1>1, BudgetNat, DataBounds
<1>4. n \in Nat /\ n <= Stock(ctx[e], m)
  BY <1>1, CopiesNat DEF Stock
<1> HIDE DEF s, e, n
<1>5. n <= 1 + MaxRetries
  BY <1>1, <1>2, <1>3, <1>4
<1> QED  BY <1>5 DEF Copies, n, e

\* Whatever is lost, refused, forgotten or crossed, a message reaches the
\* application no more often than its sender may transmit it: each of the
\* 1 + CCL_DATA_MAX_RETRIES headers pays for one copy at most, and a SACK's
\* or a timeout's retry for no second one.
THEOREM CopiesWithinRetries == Spec => []WithinRetries
<1>1. Init => Counted
  BY InitCounted
<1>2. Typed /\ Tracked /\ Counted /\ [Next]_vars => Counted'
  BY NextCounted
<1>3. Typed /\ Counted => WithinRetries
  BY CountedWithin
<1> QED  BY <1>1, <1>2, <1>3, AlwaysTracked, PTL DEF Spec
----------------------------------------------------------------------------
(* One radio to another: the promise of dmr_ccl_data.h.                    *)

\* The applications of one radio send to another, whenever all is quiet and
\* nothing left half-way is still being reassembled.  No third radio listens:
\* it would answer what is not for it, and responses say neither who gives
\* them nor to what.
Pair(s, e) ==
  /\ s # e /\ Radios = {s, e}
  /\ \A m \in Messages : Msg[m].from = s /\ Msg[m].to = e
Paired == Spaced /\ \E s, e \in Radios : Pair(s, e)

\* What is on its way to s answers what s transfers: an acknowledgement is of
\* a message that e has delivered, a SACK announces its bitmaps.
Apt(b, c, d) ==
  /\ b.kind \in {"response", "rdata"}
  /\ c.tx.active /\ b.kind = "response" =>
       /\ b.class = "ACK" => d.copies[c.tx.msg] > 0
       /\ b.class = "SACK" => b.follow = Bitmaps(c.tx.msg)
Answers(s, e) == \A b \in Asked(e) \union Hears(s) : Apt(b, ctx[s], ctx[e])

\* A bitmap that s takes does not, with those before it, show all its blocks.
Honest(s) ==
  \A b \in Hears(s) :
    b.kind = "rdata" /\ ctx[s].state = "TX_WAIT_SACK_DATA" =>
      Missing(ctx[s].tx, Append(ctx[s].tx.maps, b.zeros)) # {}

\* The headers on their way to e, and what it reassembles, are of one message,
\* which is the one s transfers if it transfers one.
HeadersTo(s, e) == {b \in Asked(s) \union Hears(e) : b.kind = "header"}
Abroad(s, e) ==
  {b.msg : b \in HeadersTo(s, e)}
    \union (IF ctx[e].rx.active THEN {ctx[e].rx.msg} ELSE {})
Current(s, e) ==
  \A m \in Abroad(s, e) :
    /\ m \in Messages /\ ctx[s].told[m] # "new"
    /\ ctx[s].tx.active => m = ctx[s].tx.msg
    /\ \A k \in Abroad(s, e) : k = m

PairInv(s, e) ==
  /\ Typed /\ Tracked /\ OneWayFrom(s)
  /\ Answers(s, e) /\ Current(s, e)

----------------------------------------------------------------------------
(* Steps of the service.                                                   *)

ServiceStep == [Service!Next]_(Service!vars)

LEMMA ServiceStutters ==
  ASSUME NEW s \in Radios, NEW e \in Radios, Pair(s, e),
         \A m \in Messages : ctx'[s].told[m] = ctx[s].told[m],
         \A m \in Messages : ctx'[e].copies[m] = ctx[e].copies[m]
  PROVE  ServiceStep
<1>1. \A m \in Messages : Msg[m].from = s /\ Msg[m].to = e
  BY DEF Pair
<1>2. [m \in Messages |-> Told(m)]' = [m \in Messages |-> Told(m)]
  BY <1>1 DEF Told
<1>3. {m \in Messages : ctx[Msg[m].to].copies[m] > 0}'
        = {m \in Messages : ctx[Msg[m].to].copies[m] > 0}
  BY <1>1
<1> QED  BY <1>2, <1>3 DEF ServiceStep, Service!vars

LEMMA ServiceAccepts ==
  ASSUME NEW s \in Radios, NEW e \in Radios, Pair(s, e), NEW k \in Messages,
         ctx[s].told[k] = "new", ctx'[s].told[k] = "sending",
         \A m \in Messages \ {k} : ctx'[s].told[m] = ctx[s].told[m],
         \A m \in Messages : ctx'[e].copies[m] = ctx[e].copies[m]
  PROVE  ServiceStep
<1>1. \A m \in Messages : Msg[m].from = s /\ Msg[m].to = e
  BY DEF Pair
<1> DEFINE t == [m \in Messages |-> Told(m)]
<1>5. \A m \in Messages : t[m] = ctx[s].told[m] /\ t'[m] = ctx'[s].told[m]
  BY <1>1 DEF Told
<1>6. t = [m \in Messages |-> t[m]] /\ t' = [m \in Messages |-> t'[m]]
  OBVIOUS
<1> HIDE DEF t
<1>2. t[k] = "new" /\ t' = [t EXCEPT ![k] = "sending"]
  BY <1>5, <1>6
<1>3. {m \in Messages : ctx[Msg[m].to].copies[m] > 0}'
        = {m \in Messages : ctx[Msg[m].to].copies[m] > 0}
  BY <1>1
<1>4. Service!Accept(k)
  BY <1>2, <1>3 DEF Service!Accept, t
<1> QED  BY <1>4 DEF ServiceStep, Service!Next

LEMMA ServiceReports ==
  ASSUME NEW s \in Radios, NEW e \in Radios, Pair(s, e), NEW k \in Messages,
         ctx[s].told[k] = "sending",
         \/ ctx'[s].told[k] = "failed"
         \/ /\ ctx'[s].told[k] = "ok"
            /\ ctx[e].copies[k] > 0 \/ ~Confirmed(k),
         \A m \in Messages \ {k} : ctx'[s].told[m] = ctx[s].told[m],
         \A m \in Messages : ctx'[e].copies[m] = ctx[e].copies[m]
  PROVE  ServiceStep
<1>1. \A m \in Messages : Msg[m].from = s /\ Msg[m].to = e
  BY DEF Pair
<1> DEFINE t == [m \in Messages |-> Told(m)]
<1>6. \A m \in Messages : t[m] = ctx[s].told[m] /\ t'[m] = ctx'[s].told[m]
  BY <1>1 DEF Told
<1>7. t = [m \in Messages |-> t[m]] /\ t' = [m \in Messages |-> t'[m]]
  OBVIOUS
<1> HIDE DEF t
<1>2. PICK success \in BOOLEAN :
        /\ ctx'[s].told[k] = IF success THEN "ok" ELSE "failed"
        /\ success => ctx[e].copies[k] > 0 \/ ~Confirmed(k)
  <2>1. CASE ctx'[s].told[k] = "failed"
    BY <2>1, FALSE \in BOOLEAN
  <2>2. CASE /\ ctx'[s].told[k] = "ok"
             /\ ctx[e].copies[k] > 0 \/ ~Confirmed(k)
    BY <2>2, TRUE \in BOOLEAN
  <2> QED  BY <2>1, <2>2
<1>3. t[k] = "sending"
      /\ t' = [t EXCEPT ![k] = IF success THEN "ok" ELSE "failed"]
  BY <1>2, <1>6, <1>7
<1>4. {m \in Messages : ctx[Msg[m].to].copies[m] > 0}'
        = {m \in Messages : ctx[Msg[m].to].copies[m] > 0}
  BY <1>1
<1>5. success => \/ k \in {m \in Messages : ctx[Msg[m].to].copies[m] > 0}
                 \/ k \notin {m \in Messages : Confirmed(m)}
  BY <1>1, <1>2
<1>8. Service!Report(k, success)
  BY <1>3, <1>4, <1>5 DEF Service!Report, t
<1> QED  BY <1>8 DEF ServiceStep, Service!Next

LEMMA ServiceDelivers ==
  ASSUME NEW s \in Radios, NEW e \in Radios, Pair(s, e), NEW k \in Messages,
         ctx[s].told[k] # "new", ctx'[e].copies[k] > 0,
         \A m \in Messages : ctx'[s].told[m] = ctx[s].told[m],
         \A m \in Messages \ {k} : ctx'[e].copies[m] = ctx[e].copies[m]
  PROVE  ServiceStep
<1>1. \A m \in Messages : Msg[m].from = s /\ Msg[m].to = e
  BY DEF Pair
<1>2. [m \in Messages |-> Told(m)]' = [m \in Messages |-> Told(m)]
      /\ [m \in Messages |-> Told(m)][k] # "new"
  BY <1>1 DEF Told
<1>3. {m \in Messages : ctx[Msg[m].to].copies[m] > 0}'
        = {m \in Messages : ctx[Msg[m].to].copies[m] > 0} \union {k}
  BY <1>1
<1>4. Service!Deliver(k)
  BY <1>2, <1>3 DEF Service!Deliver
<1> QED  BY <1>4 DEF ServiceStep, Service!Next

\* Short data announce no more blocks than they have.
LEMMA AnnouncedSmaller ==
  ASSUME NEW m \in Messages
  PROVE  Announced(m) \in Nat /\ Announced(m) <= NBlocks(m)
<1>1. NBlocks(m) \in Nat /\ AbSpace \in Nat \ {0}
  BY NBlocksNat, DataBounds
<1>2. \A n \in Nat : \A k \in Nat \ {0} : n % k \in Nat /\ n % k <= n
  OBVIOUS
<1> QED  BY <1>1, <1>2 DEF Announced

\* Success of a confirmed message follows its delivery.
LEMMA MayReportTrue ==
  ASSUME NEW s \in Radios, NEW e \in Radios, Typed, Answers(s, e), Honest(s),
         ctx[s].tx.active, heard[s] # <<>>,
         NEW zeros \in Zeros(ctx[s], Head(heard[s])),
         MayReport(ctx[s], Head(heard[s]), zeros)
  PROVE  ctx[e].copies[ctx[s].tx.msg] > 0
<1> DEFINE b == Head(heard[s])
           c == ctx[s]
<1>1. heard[s] \in Seq(Audible)
  BY DEF Typed
<1>2. b \in Hears(s)
  BY <1>1, RangeOfTail DEF Hears
<1>3. Apt(b, c, ctx[e])
  BY <1>2 DEF Answers
<1>4. CASE b.kind = "response" /\ b.class = "ACK"
  BY <1>3, <1>4 DEF Apt
<1>5. CASE AwaitsBitmap(c, b) /\ Missing(c.tx, Append(c.tx.maps, zeros)) = {}
  <2>1. b.kind = "rdata" /\ c.state = "TX_WAIT_SACK_DATA"
    BY <1>3, <1>5 DEF AwaitsBitmap, Apt
  <2>2. zeros = b.zeros
    BY <2>1 DEF Zeros
  <2> QED  BY <1>2, <1>5, <2>1, <2>2 DEF Honest
<1> QED  BY <1>4, <1>5 DEF MayReport

\* How the two parts of the invariant follow from what a step leaves behind.
LEMMA AptStays ==
  ASSUME NEW b, NEW c, NEW d, NEW cc, NEW dd, Apt(b, c, d),
         cc.tx.active => c.tx.active /\ cc.tx.msg = c.tx.msg,
         c.tx.active /\ d.copies[c.tx.msg] > 0 => dd.copies[c.tx.msg] > 0
  PROVE  Apt(b, cc, dd)
  BY DEF Apt

LEMMA AnswersFrom ==
  ASSUME NEW s \in Radios, NEW e \in Radios, Answers(s, e),
         \A b \in Asked(e)' \union Hears(s)' : b \in Asked(e) \union Hears(s),
         ctx'[s].tx.active => ctx[s].tx.active /\ ctx'[s].tx.msg = ctx[s].tx.msg,
         ctx[s].tx.active /\ ctx[e].copies[ctx[s].tx.msg] > 0 =>
           ctx'[e].copies[ctx[s].tx.msg] > 0
  PROVE  Answers(s, e)'
<1> SUFFICES ASSUME NEW b \in Asked(e)' \union Hears(s)'
             PROVE  Apt(b, ctx'[s], ctx'[e])
  BY DEF Answers, Apt
<1>1. Apt(b, ctx[s], ctx[e])
  BY DEF Answers
<1> QED  BY <1>1, AptStays

LEMMA CurrentFrom ==
  ASSUME NEW s \in Radios, NEW e \in Radios, Current(s, e),
         \A m \in Abroad(s, e)' :
           m \in Abroad(s, e) \/ (ctx[s].tx.active /\ m = ctx[s].tx.msg),
         ctx[s].tx.active => /\ ctx[s].tx.msg \in Messages
                             /\ ctx[s].told[ctx[s].tx.msg] # "new",
         ctx'[s].tx.active => ctx[s].tx.active /\ ctx'[s].tx.msg = ctx[s].tx.msg,
         \A m \in Messages : ctx[s].told[m] # "new" => ctx'[s].told[m] # "new"
  PROVE  Current(s, e)'
<1> SUFFICES ASSUME NEW m \in Abroad(s, e)'
             PROVE  /\ m \in Messages /\ ctx'[s].told[m] # "new"
                    /\ ctx'[s].tx.active => m = ctx'[s].tx.msg
                    /\ \A k \in Abroad(s, e)' : k = m
  BY DEF Current
<1>1. ASSUME NEW k \in Abroad(s, e)'
      PROVE  /\ k \in Messages /\ ctx[s].told[k] # "new"
             /\ ctx[s].tx.active => k = ctx[s].tx.msg
  BY DEF Current
<1>2. ASSUME NEW k \in Abroad(s, e)' PROVE k = m
  BY <1>1 DEF Current
<1> QED  BY <1>1, <1>2

\* A worker of s: it transfers, and reports what is true.
LEMMA SenderPaired ==
  ASSUME NEW s \in Radios, NEW e \in Radios, Pair(s, e), PairInv(s, e), Worker(s)
  PROVE  Answers(s, e)' /\ Current(s, e)' /\ (Honest(s) => ServiceStep)
<1> DEFINE c == ctx[s]
<1>0. Typed /\ Tracked /\ OneWayFrom(s) /\ Answers(s, e) /\ Current(s, e) /\ s # e
  BY DEF PairInv, Pair
<1>1. c.rx.active = FALSE
  BY <1>0, ContextFields DEF Typed, OneWayFrom
<1>2. PICK id, d : Works(s, d, id)
  BY <1>0, <1>1, WorkerWorks
<1>3. id \in Ids(s) /\ Sound(d) /\ Ran(s, d, id)
  BY <1>2 DEF Works
<1>4. /\ \A q \in Radios \ {s} : ctx'[q] = ctx[q]
      /\ ctx'[s].tx = d.tx /\ ctx'[s].told = d.told
  BY <1>0, <1>3, RanFields
<1>5. /\ \A q \in Radios \ {s} : Asked(q)' = Asked(q)
      /\ \A b \in Asked(s)' : b \in Asked(s) \/ (b = d.out /\ b # Silent)
  BY <1>0, <1>3, RanAsked
<1>6. heard \in [Radios -> Seq(Audible)]
  BY <1>0 DEF Typed
<1>7. heard[s] # <<>> => Head(heard[s]) \in Hears(s)
  BY <1>6, RangeOfTail DEF Hears
<1>8. heard'[e] = heard[e] /\ \A b \in Hears(s)' : b \in Hears(s)
  <2>1. CASE heard' = heard
    BY <2>1 DEF Hears
  <2>2. CASE heard' # heard
    <3>1. heard[s] # <<>> /\ heard' = [heard EXCEPT ![s] = Tail(@)]
      BY <1>2, <2>2 DEF Works
    <3>2. Range(Tail(heard[s])) \subseteq Range(heard[s])
      BY <1>6, <3>1, RangeOfTail
    <3> QED  BY <1>0, <1>6, <3>1, <3>2 DEF Hears
  <2> QED  BY <2>1, <2>2
<1>9. PICK mayOk :
        /\ Step(c, d, {}, mayOk)
        /\ Honest(s) /\ c.tx.active /\ mayOk =>
             ~Confirmed(c.tx.msg) \/ ctx[e].copies[c.tx.msg] > 0
  <2>1. CASE heard' = heard /\ Step(c, d, {}, ~Confirmed(c.tx.msg))
    BY <2>1
  <2>2. CASE heard[s] # <<>> /\ \E zeros \in Zeros(c, Head(heard[s])) :
               Step(c, d, Taken(Head(heard[s])),
                    MayReport(c, Head(heard[s]), zeros))
    <3> DEFINE b == Head(heard[s])
    <3>1. PICK zeros \in Zeros(c, b) :
            Step(c, d, Taken(b), MayReport(c, b, zeros))
      BY <2>2
    <3>2. b.kind # "header"
      BY <1>0, <1>7, <2>2 DEF Answers, Apt
    <3>3. Taken(b) = {}
      BY <3>2 DEF Taken
    <3>4. Honest(s) /\ c.tx.active /\ MayReport(c, b, zeros) =>
            ctx[e].copies[c.tx.msg] > 0
      BY <1>0, <2>2, MayReportTrue
    <3> HIDE DEF b, c
    <3> QED  BY <3>1, <3>3, <3>4
  <2> QED  BY <1>2, <2>1, <2>2 DEF Works
<1>10. c.tx.active => /\ c.tx.msg \in Messages
                      /\ c.told[c.tx.msg] = "sending"
  BY <1>0, ContextFields DEF Typed, Tracked, Going
<1>11. ctx'[e] = ctx[e]
  BY <1>0, <1>4
<1> HIDE DEF c
<1>13. Idle(c, d) \/ TxStep(c, d, mayOk)
  BY <1>1, <1>9 DEF Step
<1>14. d.tx.active => c.tx.active /\ d.tx.msg = c.tx.msg
  BY <1>13 DEF Idle, TxStep, GoesOn, Over
<1>15. Answers(s, e)'
  <2>1. \A b \in Asked(e)' \union Hears(s)' : b \in Asked(e) \union Hears(s)
    BY <1>0, <1>5, <1>8
  <2>2. ctx'[e].copies = ctx[e].copies
    BY <1>11
  <2> QED  BY <1>0, <1>4, <1>14, <2>1, <2>2, AnswersFrom DEF c
<1>16. d.out.kind = "header" => c.tx.active /\ d.out.msg = c.tx.msg
  BY <1>13, SilentSent DEF Idle, TxStep, GoesOn, Over
<1>17. \A m \in Messages : c.told[m] # "new" => d.told[m] # "new"
  BY <1>10, <1>13 DEF Idle, TxStep, GoesOn, Over
<1>18. Current(s, e)'
  <2>1. \A b \in HeadersTo(s, e)' :
          b \in HeadersTo(s, e) \/ (c.tx.active /\ b.msg = c.tx.msg)
    BY <1>5, <1>8, <1>16 DEF HeadersTo, Hears
  <2>2. \A m \in Abroad(s, e)' :
          m \in Abroad(s, e) \/ (c.tx.active /\ m = c.tx.msg)
    BY <1>11, <2>1 DEF Abroad
  <2> QED  BY <1>0, <1>4, <1>10, <1>14, <1>17, <2>2, CurrentFrom DEF c
<1>19. ASSUME Honest(s) PROVE ServiceStep
  <2>1. \A m \in Messages : ctx'[e].copies[m] = ctx[e].copies[m]
    BY <1>11
  <2>2. CASE d.told = c.told
    BY <1>4, <2>1, <2>2, ServiceStutters DEF c
  <2>3. CASE TxStep(c, d, mayOk) /\ Over(c, d, mayOk)
    <3>1. c.tx.active /\ c.tx.msg \in Messages /\ c.told[c.tx.msg] = "sending"
      BY <1>10, <2>3 DEF TxStep
    <3>2. \A m \in Messages \ {c.tx.msg} : d.told[m] = c.told[m]
      BY <2>3 DEF Over
    <3>3. CASE d.told[c.tx.msg] = "failed"
      BY <1>4, <2>1, <3>1, <3>2, <3>3, ServiceReports DEF c
    <3>4. CASE mayOk /\ d.told[c.tx.msg] = "ok"
      <4>1. ctx[e].copies[c.tx.msg] > 0 \/ ~Confirmed(c.tx.msg)
        BY <1>9, <1>19, <3>1, <3>4 DEF c
      <4> QED  BY <1>4, <2>1, <3>1, <3>2, <3>4, <4>1, ServiceReports DEF c
    <3> QED  BY <2>3, <3>3, <3>4 DEF Over
  <2> QED  BY <1>13, <2>2, <2>3 DEF Idle, TxStep, GoesOn
<1> QED  BY <1>15, <1>18, <1>19

\* The first burst of a queue is no header, or one of those on their way.
LEMMA TakenAbroad ==
  ASSUME NEW s \in Radios, NEW e \in Radios, Typed, heard[e] # <<>>
  PROVE  Taken(Head(heard[e])) \subseteq Abroad(s, e)
<1>1. heard[e] \in Seq(Audible)
  BY DEF Typed
<1>2. Head(heard[e]) \in Hears(e)
  BY <1>1, RangeOfTail DEF Hears
<1> QED  BY <1>2 DEF Taken, Abroad, HeadersTo

\* What e sends about a message that is abroad answers for it.
LEMMA SaysAnswers ==
  ASSUME NEW s \in Radios, NEW e \in Radios, Current(s, e),
         NEW M \in SUBSET Abroad(s, e), NEW d, NEW b \in Sent \ {Silent},
         Says(b, d, M)
  PROVE  Apt(b, ctx[s], d)
<1>1. b.kind # "none"
  BY DEF Sent, Bursts, Silent, Preamble
<1>2. \A m \in M : ctx[s].tx.active => m = ctx[s].tx.msg
  BY DEF Current
<1> QED  BY <1>1, <1>2 DEF Says, Apt

\* A worker of e: it answers for what it reassembles, and delivers that.
LEMMA ReceiverPaired ==
  ASSUME NEW s \in Radios, NEW e \in Radios, Pair(s, e), PairInv(s, e), Worker(e)
  PROVE  Answers(s, e)' /\ Current(s, e)' /\ ServiceStep
<1> DEFINE c == ctx[e]
<1>0. /\ Typed /\ Tracked /\ Answers(s, e) /\ Current(s, e) /\ s # e
      /\ \A m \in Messages : Msg[m].from = s
  BY DEF PairInv, Pair
<1>1. ~c.tx.active /\ c \in Context /\ (c.rx.active => Gap(c.rx))
  BY <1>0, OthersListen DEF Tracked, Typed
<1>2. PICK id, d : Works(e, d, id)
  BY <1>0, <1>1, WorkerWorks
<1>3. id \in Ids(e) /\ Sound(d) /\ Ran(e, d, id)
  BY <1>2 DEF Works
<1>4. /\ \A q \in Radios \ {e} : ctx'[q] = ctx[q]
      /\ ctx'[e].rx = d.rx /\ ctx'[e].copies = d.copies
  BY <1>0, <1>3, RanFields
<1>5. /\ \A q \in Radios \ {e} : Asked(q)' = Asked(q)
      /\ \A b \in Asked(e)' : b \in Asked(e) \/ (b = d.out /\ b # Silent)
  BY <1>0, <1>3, RanAsked
<1>6. heard \in [Radios -> Seq(Audible)]
  BY <1>0 DEF Typed
<1>8. heard'[s] = heard[s] /\ \A b \in Hears(e)' : b \in Hears(e)
  <2>1. CASE heard' = heard
    BY <2>1 DEF Hears
  <2>2. CASE heard' # heard
    <3>1. heard[e] # <<>> /\ heard' = [heard EXCEPT ![e] = Tail(@)]
      BY <1>2, <2>2 DEF Works
    <3>2. Range(Tail(heard[e])) \subseteq Range(heard[e])
      BY <1>6, <3>1, RangeOfTail
    <3> QED  BY <1>0, <1>6, <3>1, <3>2 DEF Hears
  <2> QED  BY <2>1, <2>2
<1>9. PICK in, mayOk :
        Step(c, d, in, mayOk) /\ in \subseteq Abroad(s, e)
  <2>1. CASE heard' = heard /\ Step(c, d, {}, ~Confirmed(c.tx.msg))
    BY <2>1
  <2>2. CASE heard[e] # <<>> /\ \E zeros \in Zeros(c, Head(heard[e])) :
               Step(c, d, Taken(Head(heard[e])),
                    MayReport(c, Head(heard[e]), zeros))
    <3>1. Taken(Head(heard[e])) \subseteq Abroad(s, e)
      BY <1>0, <2>2, TakenAbroad
    <3> QED  BY <2>2, <3>1
  <2> QED  BY <1>2, <2>1, <2>2 DEF Works
<1> DEFINE M == About(c, in)
<1>10. M \in SUBSET Abroad(s, e)
  BY <1>9 DEF About, Abroad
<1>11. ctx'[s] = ctx[s]
  BY <1>0, <1>4
<1>12. d.out \in Sent /\ \A m \in Messages : c.copies[m] \in Nat /\ d.copies[m] \in Nat
  BY <1>1, <1>3, CopiesNat, ContextFields DEF Sound, SoundParts
<1> HIDE DEF M
<1>13. Idle(c, d) \/ RxStep(c, d, in)
  BY <1>1, <1>9 DEF Step, TxStep
<1>14. \A m \in Messages : c.copies[m] <= d.copies[m]
                           /\ (m \notin M => d.copies[m] = c.copies[m])
  BY <1>12, <1>13 DEF Idle, RxStep, M
<1>15. d.out # Silent => Says(d.out, d, M)
  BY <1>13 DEF Idle, RxStep, M
<1>16. d.rx.active => d.rx.msg \in Abroad(s, e)
  BY <1>10, <1>13 DEF Idle, RxStep, M, Abroad
<1>17. ctx[s].tx.active => ctx[s].tx.msg \in Messages
  BY <1>0, ContextFields DEF Typed, Going
<1>18. Answers(s, e)'
  <2> SUFFICES ASSUME NEW b \in Asked(e)' \union Hears(s)'
               PROVE  Apt(b, ctx[s], d)
    BY <1>4, <1>11 DEF Answers, Apt
  <2>1. CASE b \in Asked(e) \union Hears(s)
    <3>1. ctx[s].tx.active /\ c.copies[ctx[s].tx.msg] > 0 =>
            d.copies[ctx[s].tx.msg] > 0
      BY <1>12, <1>14, <1>17
    <3>2. Apt(b, ctx[s], c)
      BY <1>0, <2>1 DEF Answers
    <3> HIDE DEF c
    <3> QED  BY <3>1, <3>2, AptStays
  <2>2. CASE b = d.out /\ b # Silent
    <3>1. b \in Sent \ {Silent} /\ Says(b, d, M)
      BY <1>12, <1>15, <2>2
    <3> QED  BY <1>0, <1>10, <3>1, SaysAnswers
  <2>3. Hears(s)' = Hears(s)
    BY <1>8 DEF Hears
  <2> QED  BY <1>5, <2>1, <2>2, <2>3
<1>19. Current(s, e)'
  <2>1. HeadersTo(s, e)' \subseteq HeadersTo(s, e)
    BY <1>0, <1>5, <1>8 DEF HeadersTo
  <2>2. \A m \in Abroad(s, e)' : m \in Abroad(s, e)
    BY <1>4, <1>16, <2>1 DEF Abroad
  <2> QED  BY <1>0, <1>11, <2>2 DEF Current
<1>20. ServiceStep
  <2>1. CASE \A m \in Messages : d.copies[m] = c.copies[m]
    BY <1>4, <1>11, <2>1, ServiceStutters
  <2>2. CASE \E m \in Messages : d.copies[m] # c.copies[m]
    <3>1. PICK k \in Messages : d.copies[k] # c.copies[k]
      BY <2>2
    <3>2. k \in Abroad(s, e) /\ d.copies[k] > 0
      BY <1>10, <1>12, <1>14, <3>1
    <3>3. ctx[s].told[k] # "new" /\ \A m \in Abroad(s, e) : m = k
      BY <1>0, <3>2 DEF Current
    <3>4. \A m \in Messages \ {k} : d.copies[m] = c.copies[m]
      BY <1>10, <1>14, <3>3
    <3> QED  BY <1>4, <1>11, <3>2, <3>3, <3>4, ServiceDelivers
  <2> QED  BY <2>1, <2>2
<1> QED  BY <1>18, <1>19, <1>20

\* A message is accepted when nothing is on its way.
LEMMA SendPaired ==
  ASSUME NEW s \in Radios, NEW e \in Radios, Spaced, Pair(s, e), PairInv(s, e),
         NEW r \in Radios, NEW m \in Messages, Send(r, m)
  PROVE  Answers(s, e)' /\ Current(s, e)' /\ ServiceStep
<1>0. /\ Typed /\ s # e /\ r = s /\ Msg[m].to = e /\ ctx[s].told[m] = "new"
  BY DEF PairInv, Pair, Send
<1>1. PICK id, d :
        /\ id \in Ids(r) /\ Sound(d) /\ Ran(r, d, id) /\ heard' = heard
        /\ d.out = Preamble /\ d.told[m] = "sending"
        /\ \A k \in Messages \ {m} : d.told[k] = ctx[r].told[k]
  BY <1>0, SendRuns
<1>2. /\ \A q \in Radios \ {s} : ctx'[q] = ctx[q]
      /\ ctx'[s].tx = d.tx /\ ctx'[s].told = d.told
  BY <1>0, <1>1, RanFields
<1>3. /\ \A q \in Radios \ {s} : Asked(q)' = Asked(q)
      /\ \A b \in Asked(s)' : b \in Asked(s) \/ b = Preamble
  BY <1>0, <1>1, RanAsked
<1>4. /\ \A q \in Radios : mac[q] = <<>> /\ heard[q] = <<>>
      /\ ~ctx[e].rx.active
  BY <1>0 DEF Send, Quiet, KeptUp
<1>5. \A q \in Radios : Asked(q) = {} /\ Hears(q) = {} /\ Hears(q)' = {}
  BY <1>1, <1>4 DEF Asked, Hears, Range
<1>6. ctx'[e] = ctx[e]
  BY <1>0, <1>2
<1>7. Answers(s, e)'
  BY <1>0, <1>3, <1>5 DEF Answers
<1>8. Current(s, e)'
  <2>1. Preamble.kind # "header"
    BY DEF Preamble
  <2>2. HeadersTo(s, e)' = {}
    BY <1>3, <1>5, <2>1 DEF HeadersTo
  <2>3. Abroad(s, e)' = {}
    BY <1>4, <1>6, <2>2 DEF Abroad
  <2> QED  BY <2>3 DEF Current
<1>9. ServiceStep
  BY <1>0, <1>1, <1>2, <1>6, ServiceAccepts
<1> QED  BY <1>7, <1>8, <1>9

LEMMA ExpirePaired ==
  ASSUME NEW s \in Radios, NEW e \in Radios, Pair(s, e), PairInv(s, e),
         NEW r \in Radios, NEW t \in Timers, Expire(r, t)
  PROVE  Answers(s, e)' /\ Current(s, e)' /\ ServiceStep
<1>1. /\ mac' = mac /\ heard' = heard
      /\ \A q \in Radios :
           /\ ctx'[q].tx = ctx[q].tx /\ ctx'[q].rx = ctx[q].rx
           /\ ctx'[q].told = ctx[q].told /\ ctx'[q].copies = ctx[q].copies
  BY ExpireFields DEF PairInv
<1>2. \A q \in Radios : Asked(q)' = Asked(q) /\ Hears(q)' = Hears(q)
  BY <1>1 DEF Asked, Hears
<1>3. Answers(s, e)'
  BY <1>1, <1>2 DEF PairInv, Answers, Apt
<1>4. Current(s, e)'
  <2>1. Abroad(s, e)' = Abroad(s, e)
    BY <1>1, <1>2 DEF Abroad, HeadersTo
  <2> QED  BY <1>1, <2>1 DEF PairInv, Current
<1>5. ServiceStep
  BY <1>1, ServiceStutters
<1> QED  BY <1>3, <1>4, <1>5

\* What is heard was on its way before.
LEMMA MacPaired ==
  ASSUME NEW s \in Radios, NEW e \in Radios, Pair(s, e), PairInv(s, e),
         NEW r \in Radios,
         MacAirs(r) \/ AirLoses(r) \/ MacRefuses(r) \/ MacForgets(r)
  PROVE  Answers(s, e)' /\ Current(s, e)' /\ ServiceStep
<1> DEFINE b == Head(mac[r]).burst
<1>1. /\ ctx' = ctx /\ b \in Asked(r)
      /\ \A q \in Radios : Asked(q)' \subseteq Asked(q)
      /\ \A q \in Radios : \/ heard'[q] = heard[q]
                           \/ q # r /\ Hears(q)' \subseteq Hears(q) \union {b}
  BY MacTakes DEF PairInv
<1> HIDE DEF b
<1>2. s # e /\ (r = s \/ r = e)
  BY DEF Pair
<1>3. \A x \in Hears(s)' : x \in Hears(s) \union Asked(e)
  BY <1>1, <1>2 DEF Hears
<1>4. \A x \in Hears(e)' : x \in Hears(e) \union Asked(s)
  BY <1>1, <1>2 DEF Hears
<1>5. Answers(s, e)'
  <2>1. \A x \in Asked(e)' \union Hears(s)' : x \in Asked(e) \union Hears(s)
    BY <1>1, <1>3
  <2> QED  BY <1>1, <2>1 DEF PairInv, Answers, Apt
<1>6. Current(s, e)'
  <2>1. HeadersTo(s, e)' \subseteq HeadersTo(s, e)
    BY <1>1, <1>4 DEF HeadersTo
  <2>2. \A m \in Abroad(s, e)' : m \in Abroad(s, e)
    BY <1>1, <2>1 DEF Abroad
  <2> QED  BY <1>1, <2>2 DEF PairInv, Current
<1>7. ServiceStep
  BY <1>1, ServiceStutters
<1> QED  BY <1>5, <1>6, <1>7

LEMMA NextPaired ==
  ASSUME NEW s \in Radios, NEW e \in Radios, Spaced, Pair(s, e)
  PROVE  PairInv(s, e) /\ [Next]_vars =>
           PairInv(s, e)' /\ (Honest(s) => ServiceStep)
<1> SUFFICES ASSUME PairInv(s, e), [Next]_vars
             PROVE  PairInv(s, e)' /\ (Honest(s) => ServiceStep)
  OBVIOUS
<1> DEFINE Kept == Answers(s, e)' /\ Current(s, e)' /\ (Honest(s) => ServiceStep)
<1>1. ASSUME UNCHANGED vars PROVE Kept
  <2>1. ctx' = ctx /\ mac' = mac /\ heard' = heard
    BY <1>1 DEF vars
  <2>2. \A q \in Radios : Asked(q)' = Asked(q) /\ Hears(q)' = Hears(q)
    BY <2>1 DEF Asked, Hears
  <2>3. HeadersTo(s, e)' = HeadersTo(s, e) /\ Abroad(s, e)' = Abroad(s, e)
    BY <2>1, <2>2 DEF HeadersTo, Abroad
  <2>4. Answers(s, e)' /\ Current(s, e)'
    BY <2>1, <2>2, <2>3 DEF PairInv, Answers, Apt, Current
  <2>5. ServiceStep
    BY <2>1, ServiceStutters
  <2> QED  BY <2>4, <2>5
<1>2. ASSUME NEW r \in Radios, Worker(r) PROVE Kept
  <2>1. r = s \/ r = e
    BY DEF Pair
  <2> QED  BY <1>2, <2>1, SenderPaired, ReceiverPaired
<1>3. ASSUME NEW r \in Radios, NEW m \in Messages, Send(r, m) PROVE Kept
  BY <1>3, SendPaired
<1>4. ASSUME NEW r \in Radios, NEW t \in Timers, Expire(r, t) PROVE Kept
  BY <1>4, ExpirePaired
<1>5. ASSUME NEW r \in Radios,
             MacAirs(r) \/ AirLoses(r) \/ MacRefuses(r) \/ MacForgets(r)
      PROVE  Kept
  BY <1>5, MacPaired
<1>6. Kept
  BY <1>1, <1>2, <1>3, <1>4, <1>5 DEF Next
<1>7. Typed' /\ Tracked' /\ OneWayFrom(s)'
  <2>1. \A m \in Messages : Msg[m].from = s
    BY DEF Pair
  <2> QED  BY <2>1, NextTyped, NextTracked, NextOneWay DEF PairInv
<1> QED  BY <1>6, <1>7 DEF PairInv

LEMMA InitPaired ==
  ASSUME NEW s \in Radios, NEW e \in Radios, Pair(s, e)
  PROVE  Init => PairInv(s, e) /\ Service!Init
<1> SUFFICES ASSUME Init PROVE PairInv(s, e) /\ Service!Init
  OBVIOUS
<1>1. /\ \A q \in Radios : ctx[q] = InitialContext
      /\ \A q \in Radios : mac[q] = <<>> /\ heard[q] = <<>>
  BY DEF Init
<1>2. /\ ~InitialContext.tx.active /\ ~InitialContext.rx.active
      /\ InitialContext.told = [m \in Messages |-> "new"]
      /\ InitialContext.copies = [m \in Messages |-> 0]
  BY DEF InitialContext, NoTx, NoRx
<1>3. \A q \in Radios : Asked(q) = {} /\ Hears(q) = {}
  BY <1>1 DEF Asked, Hears, Range
<1>4. Answers(s, e) /\ Current(s, e)
  BY <1>1, <1>2, <1>3 DEF Answers, Current, Abroad, HeadersTo
<1>5. Typed /\ Tracked /\ OneWayFrom(s)
  BY InitTyped, InitTracked, InitOneWay
<1>6. \A m \in Messages : Msg[m].from = s /\ Msg[m].to = e
  BY DEF Pair
<1>7. [m \in Messages |-> Told(m)] = [m \in Messages |-> "new"]
  BY <1>1, <1>2, <1>6 DEF Told
<1>8. {m \in Messages : ctx[Msg[m].to].copies[m] > 0} = {}
  BY <1>1, <1>2, <1>6
<1> QED  BY <1>4, <1>5, <1>7, <1>8 DEF PairInv, Service!Init

=============================================================================
