# Verification of the DMR radio stack

TLA+ models of the state machines in `src/`, the TLC instances that check them, and TLAPS proofs about
them. The repository is a DMR (digital mobile radio) stack in C: one *mobile station* (MS) is a handful of
POSIX threads that talk over message queues, `timerfd`s and callbacks. Almost all that can go wrong in it is a
question of order: which descriptor a thread serves first, which timer had already expired, which confirmation
belongs to which burst. That is what the models keep; field layouts and audio are left out. Two error-correcting codes that the protocols lean on are
proved correct as pure functions.

Contents: [inventory](#1-inventory) · [modules](#2-modules-and-what-they-model) · [runs](#3-runs) ·
[bounds](#4-bounds) · [fairness](#5-fairness) · [proofs](#6-proofs) ·
[disagreements](#7-where-code-and-text-disagree) · [not modelled](#8-not-modelled) · [plan](#9-plan).

To reproduce: `tlc -workers 2 -config <cfg> <module>` with the pairs of section 3, and
`tlapm <module>` for `MacChannelAccessProofs`, `VoiceRxProofs`, `MsLifecycleProofs`, `T3TrunkProofs`, `CclVoiceProofs`,
`DcdmProofs`, `CclDataArqProofs` and `CclDataPairProofs` (a quarter of an hour; the others take minutes).

## 1. Inventory

One MS has up to two slots; each slot has a MAC and, by configuration, voice, data, trunking and DCDM modules.
Every module is one worker thread that runs
`epoll_wait` over its queues and timers, a `ctx` structure, usually a `state_mutex`, and callbacks into the
application. Application threads call the `dmr_*` API directly.

```
 application ── PTT, send, request ──► CCL voice │ CCL data │ T3 trunk │ DCDM     (one thread each)
                                          │ mq_tx_req (shared)     ▲ mq_tx_*_conf, mq_rx_*
                                          ▼                        │
                                       MAC channel access + voice tracker        (one thread per slot)
                                          │ mq_phy_tx              ▲ mq_phy_tx_conf, mq_phy_rx
                                          ▼                        │
                                       PHY: 30 ms signal timer, slot processing
```

| component | source | state | operations | what is hard | what makes it correct |
|---|---|---|---|---|---|
| MAC channel access | `mac_channel_access.c`, `dmr_mac.h` | `ch_state`, `pending_req`/`has_pending`, T_IdleSrch, T_Holdoff, T_DataTxLmt, five queues | `mac_tx_enqueue`, `mac_tx_cancel`, the epoll loop's handlers | stale descriptors in an epoll snapshot; several modules, one pending slot; cancel from another thread; full queues | a pending request is always watched; listening always has a timer that ends it; OK only for what was aired; nothing aired twice; a polite burst waits out T_IdleSrch, and only a data burst not yet read is overlooked |
| MAC voice tracker | `mac_channel_access.c` 520–990 | `mac_voice_rx_ctx_t`: state, missed bursts; burst and superframe timers | classify a burst; enter active, got burst, end; the two expiries | expiry and burst in the same snapshot; bursts of other kinds in a call | a tracked call has live watchdogs; losses bounded; CALL_GONE is the last word; silence ends a call |
| PHY timing | `dmr_mac_timer.c`, `dmr_phy.c` | the signal timer, `mq_phy_tx` | slot processing, inject a received burst | failing reads; late answers | every burst taken is answered |
| CCL voice | `dmr_ccl_voice.c` | `state`, `call`, position in the superframe, embedded LC fragments, hang-time and answer timers | PTT, confirmations, received bursts, synthetic events | confirmations matched to nothing; pre-emption by a received call; key released at any burst | superframes whole; one terminator; waits have timers; transmissions and receptions end |
| Tier III trunking | `dmr_t3_trunk.c` | `state`, request, attempts, back-off and grant timers, `state_mutex` | request, cancel, announcements, grant, back-off | double unlock; drain before lock; cancel and re-request between | each request answered once, within its attempts; mutual exclusion |
| DCDM | `dmr_dmo.c` | role, leader identity, sync age, the pending CT_CSBK, six timers, `state_mutex` | channel-timing CSBKs, elections, beacons, `dmr_dmo_notify_tx` | several radios, random delays, lost CSBKs, full queue | radios that hear each other agree on one leader; none waits with no timer |
| CCL data | `dmr_ccl_data.c` | `state` (one for both directions), the transfer with its retries and list of blocks to repeat, the reassembly, response and stall timers | send, confirmation, response, selective retry, bitmaps, reassembly, the two expiries | lost headers, blocks and answers; both directions share `state`; block numbers that are not what the sender gave | success only after delivery; a second copy only after a fault; retries bounded; waits watched; transfers and reassemblies end |
| MS lifecycle | `dmr_ms.c`, the init, start, stop and destroy of every module | the modules initialised and started, their workers, descriptors and named queues | init, start, stop, destroy | failure part-way; SHUTDOWN posted to a worker that leaves without reading it; a crash leaves the named queues | what is acquired is released; one worker for each running module; stop returns; no message of an earlier life is read |
| CACH and slot activity | `mac_cach.c` | activity bits | encode, decode, interleave | bit errors, bursts of them | decoding corrects one error in a codeword; interleaving keeps a burst from hitting it twice |
| LLC bursts, CSBK, CRC | `llc_*.c`, `dmr_llc.h`, `dmr_pdu.h` | none | encode, decode, check | layouts | round trip |
| FEC | `dmr_fec.c`, `Hamming.c`, `BPTC19696.c`, `Utils.c` | none | encode, decode | bit errors | correction and detection up to the distance; a wrong word is not passed off as a corrected one |
| LRRP | `dmr_lrrp.c` | none | encode, parse | field presence | round trip |
| tiers, types, demo | `dmr_tier.h`, `dmr_types.h`, `dmr_globals.c`, `main.c` | none | tables | – | – |

How they interact, as far as it matters for correctness:

* every module of a slot submits to the one `mq_tx_req`; the MAC keeps a single `pending_req` and answers to
  the queue that `originated_from` names;
* the MAC alone reads what the PHY receives, classifies it and hands it to one of four queues, adding synthetic
  events (burst lost, call ended, call gone) for voice;
* the PHY takes one burst in a frame and confirms it at once, by `req_id`;
* timers are `timerfd`s beside an `armed` flag; disarming clears both, but a descriptor already in the
  snapshot is served all the same. `drain()` returns nothing, so the handler cannot tell;
* callbacks run on the worker thread (trunking unlocks first; data does not).

## 2. Modules and what they model

`PROJECT.json` maps each definition to the lines it stands for. Definitions marked *Faulty* are the
plausible bugs used to show that a property can fail; nothing else refers to them.

**OneShotTimer** – `timerfd` and flag as used everywhere: `kern` is what the kernel holds (off, running,
expired and unread), `left` the time left, `armed` the flag. `Arm` replaces an unread expiry, `Disarm` discards
it, `Drain` reads it.

**MacChannelAccess** – the transmit half of one slot. `EpollWait` takes the snapshot (`batch`), then each
handler serves a descriptor of it in any order: `IdleSrchEvent`, `HoldoffEvent`, `TxLmtEvent`, `TxReqEvent`,
`RxBurstEvent`, `PhyConfEvent`. `SlotSchedule` and `PostConf` are the functions they call, full queues included.
`PhySlot` is the slot processing, `PhyFault` a failing `mq_receive`, whose reply was never initialised (an
arbitrary key, or `Garbage`). `CancelBegin`/`CancelEnd` are `mac_tx_cancel()` on an application thread, which
unlocks half-way. `ChannelBurst` puts a burst of any class in `Bursts` (data of our colour code, data of another,
anything without a data SYNC) into `mq_phy_rx`, or drops it when that is full; `RxBurstEvent` is
`mac_handle_rx_burst()` up to the classification, which belongs to MacVoiceRx. `aired`, `verdicts`, `dropped`,
`listened`, `noise` and `waited` are history: what went out, what was reported, which answers met a full queue, for how
many timeslots the MAC has listened, which classes of burst were queued meanwhile (noted when *heard*, read or not), how
long the request has waited. One tick is a 30 ms timeslot and at most one burst is heard per timeslot. Random hold-off is `\E bursts \in
0..HoldoffMax`; data and voice priorities reduce to polite, impolite and polite with a deadline that has passed
(no caller in the tree sets one; the branch is there).

**MacTxService** – what a client of the MAC may rely on: a burst goes out at most once, those of one client in
the order requested; OK is reported once, after the burst went out; a request is refused at most once, and one
refused as cancelled or late does not go out. What it leaves open is as telling: no request need be
answered, and one reported ABORTED may go out. **MacTxRefinement** maps `nextId`, `aired` and `verdicts` onto
it; `ImplementsService` is the abstract specification as a property of the detailed one.

**T3Trunk** – the Tier III client with application threads. `state_mutex` is a variable; taking the lock, the
body under it, the callbacks between `finish_locked()`'s unlock and the caller's second unlock, and that second
unlock are separate steps, since that is where the interleavings are. The worker drains a timer *before* it
locks. A second unlock while another thread holds the mutex releases it, one of the outcomes the build can
have (default mutex, undefined behaviour in POSIX). **TrunkService** is the promise: one request open at
a time, one verdict for each, reported once.

**MacVoiceRx** – the receive half: classification by data type, opcode and tier (`Decoded` and what it is made
of), the tracker (`EnterActive`, `GotBurst`, `EndQuietly`), the two watchdog handlers (`BurstExpired`,
`SfExpired`), `mq_rx_voice` with its limit. One tick is 40 ms, the largest unit for which the guard (80 ms),
the superframe guard and the hangover (400 ms) are whole numbers; a burst comes at least `MinGap` ticks after
the last.

**CclVoice** – call control for voice. Only its thread writes the state, so a handler is a step; a queue is
emptied before the next descriptor is served. A call stands for its addresses; embedded link control is the
burst that completes it, decoded or not. `HasCallStart` says whether the application set `on_call_start`, without which a
late entry stays one when its link control arrives. The MAC is its promise: it answers in order, and may forget a burst that a later one
replaced (MacTxService leaves it unanswered).

**VoicePath** – MacVoiceRx and CclVoice composed over the queue they share: `mq_rx_voice` of the one is
`mq_mac_rx` of the other, and what one puts there the other reads.

**Dcdm** – the channel timing leader election among several radios. A radio's context is a record, and what a
handler does to it an operator from a context to the next, named after the sub-procedure: `Cce` and `Ldr` (the two
evaluations), `Sc`, `Anl`, `Al`, `Tp`, `Ic`, `Kept`/`Cancelled` (the interception rules), `TimerHandler`,
`Confirmed`, `Retry`. The actions are those of the worker loop (`EpollWait`, `TimerReady`, `RhotReady`, `ConfReady`,
`RxReady`, `QueueEmpty`) and of `dmr_dmo_notify_tx()`, which runs on other threads without the lock (`NotifyBegin`,
`NotifyEnd`). Request numbers reduce to what the code compares them for: a request or a confirmation carries `match`
when its number is `pending_req_id`; `clash` is the number taken twice by the unlocked increment (a second
submission in that window, and the number it would hand out again, are left out). A drawn identifier is `\E id \in
Ids`. The MAC is what MacTxService promises, with a later request taking the place of an earlier one (`MacForgets`).
Minutes are ticks of 4.5 min, counted while no exchange is going on; CT_RHOT (milliseconds) and response_wait
(1.5 s) are untimed. The generation is five bits on the air and may be 32 in the context, as in the code; the sync age is
never advanced, as in the code. `gone` and `mistaken` are history. A tick waits until no radio is in `dmr_dmo_notify_tx()`
either (`Settled`): the window is microseconds, the tick minutes.

**CclDataArq** – packet and short data between radios on one channel. As in Dcdm, a context is a record and a handler an
operator to the next: `TxNextBurst`, `HandleTxConf`, `RxResponse`, `RxSackData`, `SendSack`, `RxStart`, `RxBlock`,
`ResponseTimeout`, `RxStallTimeout`; the worker's actions are `ConfReady`, `RxReady` and `TimerReady` over a snapshot.
The state variable is one for both directions, as in the code. `Send` is the application under the mutex. A block carries the
number and flag that its *receiver* reads: `llc_data_block_rate1_build()` copies the payload over those it was given
(`llc_csbk.c:852`), so they depend on the message and not on the sender's count. The MAC answers its requests in order and
may refuse, or forget one that a later one replaced; a burst on the air may miss any of its hearers. No header is checked
for its destination, as in the code, so every radio that hears it takes part. **DataService** is the promise to the
applications: each accepted message is reported once, and the success of a confirmed one only after its destination
delivered it.

**MsLifecycle** – `dmr_ms_init()`, `_start()`, `_stop()`, `_destroy()` as one thread with a call and a position in
the list of modules (`app`), and the worker of each module and start. `InitModule`/`InitFails` and
`StartModule`/`StartFails` take any step as failing; what a failed initialisation leaves open is read off each
module's own (`InitOf`), what destroy closes off `Closes`. A queue is a number of messages of two kinds. The three ways to stop a
worker differ and are kept apart: the MAC by flag and timer, voice by SHUTDOWN alone (`VoiceStop`, `VoiceDrain`), the
others by SHUTDOWN *and* flag (`EagerStop`, `LeftOver`). `Crash` keeps what the kernel keeps, the named
queues. `failed`, `doomed`, `crashed` and `lost` are history.

**Cach**, **EmbeddedLc** – the codes of the announcement channel and of embedded link control as functions on words of
bits (**BitWords**): Hamming (7,4) with the CACH interleaving, Hamming (16,11) with the matrix, its order on the air and its
checksum. They have no state and no run; the theorems (in **VoiceRxProofs**) are about every word.

`MC*` modules give the constants for TLC; `*Proofs` modules hold the theorems.

## 3. Runs

| run | module, cfg | asks | distinct states |
|---|---|---|---|
| `mac_alone` | MCMacChannelAccess, mac_alone.cfg | one module on the slot: polite access, limits, and listening and transmission end | 82 k |
| `mac_two` | mac_two.cfg | two modules submit and replace each other's requests: listening has its timer, the service is implemented | 1.2 M |
| `mac_mixed` | mac_mixed.cfg | the same with impolite and late requests, a cancelling thread, a PHY fault and queues of one: nothing pending unwatched, OK truthful, no data burst overlooked once read | 2.9 M |
| `t3_trunk` | MCT3Trunk, t3_trunk.cfg | one application, cancel, grants at any time: each request ends once and within its attempts; the service is implemented | 0.34 M |
| `voice_rx` | MCMacVoiceRx, voice_rx.cfg | every class of burst, missing bursts, a lagging thread: watchdogs, losses, definitive ends | 0.55 M |
| `ccl_voice` | MCCclVoice, ccl_voice.cfg | key, confirmations, bursts and timers race: superframes whole, tail bounded, waits have timers, transmissions end | 0.79 M |
| `voice_stuck` | MCVoicePath, voice_stuck.cfg | **violated**: a reception ends | |
| `dcdm_alone` | MCDcdm, dcdm_alone.cfg | one radio among foreign ones that claim, follow, appoint and conflict; terminators race submissions; the MAC refuses, forgets or is full | 0.78 M |
| `dcdm_pair` | dcdm_pair.cfg | two radios of equal preference come within range; up to two bursts lost, refused or replaced: one leader in the end, and agreement when undisturbed | 0.16 M |
| `data_arq` | MCDataArq, data_arq.cfg | a packet, a text whose block numbers are spoilt, and a status, one way, under two faults: success only after delivery, extra copies only after faults, waits watched, everything ends | 38 k |
| `data_crossed` | data_crossed.cfg | **violated**: a transfer ends, when two radios send to each other | |
| `lifecycle` | MCMsLifecycle, lifecycle.cfg | all three kinds of station, two lives, two starts, one failure or crash: leaks, workers, joins, leftover messages | 1.5 M |

What the passing runs show, property by property:

* *PendingWatched, LbtArmed, LbtEnds, PhyAnswers*: whatever order descriptors are served in, a request is never
  left with nothing to move it on, listening ends however busy the channel, and the PHY's answers come back unless a queue was full.
* *OkTruthful, ImplementsService* of the MAC: no double transmission through a stale T_IdleSrch, and OK is
  said of what was sent, even though the MAC resets its state on any answer.
* *DataNoticed*: while the MAC takes the channel for idle, a data burst heard since it began to listen is one the thread has
  not read: none is read and forgotten, whatever the order of bursts, requests, timers and cancellations, with any number of modules.
  Of voice bursts it is not true (`EveryBurstNoticed`, section 7).
* *PoliteTx*: a burst that listens is handed over only after all of T_IdleSrch, and any data burst heard meanwhile
  is still in `mq_phy_rx`. It does **not** say that the channel was quiet: an unread data burst and any voice burst are
  overlooked (section 7).
* *PoliteTx, AbortOnlyAfterLimit*: with **one** module; with two they fail (section 7).
* *OpenWatched, AttemptsBounded, RequestsEnd*: the trunking client survives late expiries, grants and failures
  in any order, including a cancel and a new request between drain and lock. What T3Trunk's `TypeOK` says beyond types, the
  number of attempts, is in `AttemptsBounded`; it is proved and not run again.
* *CallWatched, LossesBounded, GoneIsDefinitive, SilenceEndsCalls*: a tracked call has its timers, at most
  `MAC_VOICE_MAX_MISSED_BURSTS` losses in a row are reported, nothing of a call follows CALL_GONE, and a
  call that falls silent is given up.
* *SuperframesWhole, TailBounded, WaitsWatched, TransmissionEnds*: although confirmations are matched to
  nothing and a call may be pre-empted at any burst, what is built is always a run of whole superframes, the
  tail after release is at most one of them, and the transmission ends.
* *LeaderBeacons, PendingOnItsWay*: through elections, appointments, step-downs and stale expiries a leader keeps
  its beacon timer, and a pending CT_CSBK is held off, with the MAC, being confirmed, or lost by the MAC.
* *OnlyBetterLeader*: no sequence of claims, appointments and identifier conflicts makes a radio that leads or
  follows turn to a leader of lower rank.
* *OneLeader, Agreement*: two radios of equal preference that each lead alone, or are half-way through an election when they
  meet, end with one leader at most, whatever two bursts are lost; if nothing is lost and no confirmation is mistaken
  for another's, again and again one leads and the other follows it. With a loss `Agreement` fails: see section 7.
* *ImplementsService* of CclDataArq, *CopiesCovered*: through lost bursts, retries, bitmaps and confirmations of
  forgotten bursts, success is reported only of what was delivered, no message is delivered more often than sent, and one
  that is not cut short is delivered once more at most for each fault on its way; for one that is, see section 7.
* *WaitsWatched, ExchangesEnd* of CclDataArq: with traffic one way, whatever is lost, no wait is without its timer, every
  transfer is reported and every reassembly ends. With traffic both ways it is not so: `data_crossed`.
* *OnlyFailedLeaks, WorkersMatch, JoinsEnd, CleanSlate*: the undoing in `dmr_ms_init()` and the destroy functions are complete
  but for the modules whose own initialisation failed; a running module has one worker unless it was started on a leftover
  SHUTDOWN; stop waits only for workers that will end, unless voice's SHUTDOWN met a full queue; old messages are read only after a crash.

## 4. Bounds

* MAC: one module with two requests, or two with two and one. Two requests of one client are what it takes for
  a stale descriptor of the first to meet the second; two clients for replacement. `HoldoffMax = 4` with
  `TxLmt = 4` in `mac_alone`, so that T_Holdoff and T_DataTxLmt expire in the same timeslot; in `mac_two`, 1
  and 2, which still coincide. `Bursts` is data and voice in `mac_alone`, data in the others, where what LBT ignores would only
  fill a queue; foreign data takes the path of voice as far as this module goes. Depth 1 or 2 makes every queue full. One PHY fault; one cancel at a time.
* Trunking: two attempts (one retry), two requests (a stale timer of the first meets the second), one cancel,
  one grant.
* Voice tracker: the real ratios of the timers and two missed bursts, as in `dmr_mac.h`; `QDepth` 1.
* CCL voice: superframes of three bursts instead of six – first, middle and last are the only positions the
  code distinguishes; one key press; the MAC holds two bursts, so that one can be replaced. `ccl_voice` passes with `HasCallStart` FALSE as well.
* DCDM: three identifiers, so that a redrawn one may be kept, better or worse; four generations, so that the count
  wraps; two attempts before self-promotion; timers in the ratio of the real ones (1 : 1 : 2 : 2.2, rounded up), with
  sync ages in the same ticks and a tolerance of one. `MaxTrouble = 2`: two foreign messages for the lone radio (a claim
  and what follows from it, each of seven kinds), or one and a fault, or a terminator racing a submission; two
  faults for the pair. The pair hears no foreign radio and sends no terminators. Queues hold two.
* Data: a message of three blocks with numbers as meant (first, middle and last are what the code distinguishes), one of
  a single block with a number out of range, one without blocks; bitmaps of two blocks instead of 64, so that the packet needs
  both; `MaxTrouble = 2`: two bursts lost, refused or forgotten, or timers early, which is what it takes to lose a block and
  then its bitmap. In `data_arq` a message is sent when all is quiet and forgotten (`Spaced`): without that, an answer to an
  old message is taken for one to the new (section 7). Timers expire early only at the price of a fault. The properties
  also hold with three faults (165 k states), and with an unconfirmed message of spoilt numbers besides (87 k).
* Lifecycle: a second start meets what the first left, a second life what the first life left; one fault, since the effects of two are on
  different modules or different lives; queues of one are full at once. The theorems lift all of these bounds.
* Tick counters stop when nothing they are compared with can change (`listened`, `waited`).

## 5. Fairness

Weak fairness of each worker (`MacStep`, `CclStep`, the trunking worker): its thread is scheduled and nothing
it calls blocks without limit. Weak fairness of `Expire` and `Tick`: the kernel's clock. `PhySlot`: the 30 ms
signal timer keeps firing. `TakeConf`: the modules read their queues. In CclVoice, weak fairness of
`MacAnswers`: what `LbtEnds` and `PhyAnswers` show of the MAC; a burst that was replaced (`MacForgets`) is the exception, and
`TransmissionEnds` holds in spite of it because a later burst is then still to be answered. In T3Trunk nothing
is assumed of the base station, of the MAC, or of the application making another call. In Dcdm, weak fairness of all work
together (threads, MAC, expiries), of `Tick` and of the radios meeting; an exchange (holdoffs of milliseconds, bursts of 60
ms) ends before response_wait (1.5 s) and before a tick (`Patient`, `Settled`), and a thread serves a burst before the
next one ends (`Prompt`, `KeptUp`); `dcdm_alone` assumes neither. In CclDataArq, weak fairness of the
workers, of the MAC dealing with what it holds, and of expiries; none of the application. `lifecycle` has no liveness property: `JoinsEnd` says that
what is waited for can end, for which no fairness is needed. Strong fairness is
used nowhere: a handler is enabled until it is served, as a snapshot is served to its end. The channel may fall silent or be busy for ever.

`CHECK_DEADLOCK FALSE` in `t3_trunk`, `ccl_voice`, `voice_stuck`, `data_*` and `lifecycle`: a user who makes no further call, with
nothing in flight, or a station that is not started again, is a legitimate end. In `dcdm_*`, a radio that follows by appointment has no timer left
(section 7), and nothing further happens.

## 6. Proofs

Each theorem holds for every value of the constants that satisfies the modules' named ASSUMEs (non-empty sets, natural-number
bounds; TLC evaluates them in every run). A proof module first types what each operator and handler returns, one lemma for each, then shows an
inductive invariant one action at a time, and last combines the steps with PTL. What a theorem assumes beyond the ASSUMEs
is a named hypothesis in its statement: `Sheltered`, `Solo`, `Forgiving`, `OneSender`, `Paired`. Each was first checked by TLC, as were
the inductive invariants.

| module | theorem | inductive invariant, and what the property alone lacks |
|---|---|---|
| MacChannelAccessProofs | `TypeCorrect` | `TypeOK` |
| | `PendingAlwaysWatched` | `PendingWatched`, given `TypeOK`: what takes a burst from `mq_phy_tx` adds its answer or records the loss, what takes the answer clears `has_pending` |
| | `LbtAlwaysArmed` | `LbtArmed`, given `TypeOK` |
| | `OkAlwaysTruthful` | `Accounted`: OKs reported *and those among the PHY's answers* are no more than the times aired. Any number of modules, cancellation, made-up answers |
| | `Sheltered => ServiceImplemented` | `SentOrder`: in each queue on the way (`mq_tx_req`, pending, `mq_phy_tx`, its answers) requests are in the order asked, of the right age and in one place only. Each step is a step of MacTxService or stutters |
| | `DataAlwaysNoticed` | `DataNoticed`, given `TypeOK`: in QUALIFY_IDLE, reading a data burst ends the listening, reading any other leaves the data behind it, and a listening begun anew has heard nothing. No hypothesis |
| | `Solo => PoliteAfterListening`, `Solo => AbortsAfterLimit` | `InHand`: a ticking timer, and a request held or queued, is about the newest request, which is unanswered, so a request is taken up from a snapshot without expiries; `Clocked`: each running timer has no less left than its clock lacks, and no timer in the snapshot has been restarted. `PoliteAfterListening` takes what was heard from `DataAlwaysNoticed` |
| VoiceRxProofs | `TypeCorrect`, `CallAlwaysWatched`, `LossesAlwaysBounded` | `Counted`: in ACTIVE, `missed_count` is the losses reported since the last burst and below the limit; type and safety need each other |
| | `Forgiving => GoneAlwaysDefinitive` | `Timely`: the superframe watchdog is as old as the last burst; `Forgiven`: a *stale* expiry in the snapshot finds no hangover, since one miss does not end a call |
| | `HammingCorrects`, `TactSurvives` | no state. `SyndromePoints` has a case for each bit; `WordBitsApart`: bits of a word are never neighbours on the air |
| | `BurstSurvives`, `TwoInRowRejected` | `OnePerRow`: eight bits in a row hit each row once; `MasksOdd`: the syndrome of two errors is even and no single bit's, which `dmr_fec.c:1457` calls "a certain signal" |
| T3TrunkProofs | `TypeCorrect`, `AttemptsAlwaysBounded` | `Accounts`: calls not yet served plus requests served are at most the calls made; numbers used up and transmissions are within the attempts, counting the one in progress |
| | `OpenAlwaysWatched` | `OpenWatched` with the worker's place: the timer is in its hands between drain and lock |
| | `ServiceImplemented` | `Reports`: each thread about to call back has the only unreported verdict of its request |
| CclVoiceProofs | `TypeCorrect`, `WaitsAlwaysWatched`, `TailAlwaysBounded`, `SuperframesAlwaysWhole` | `Following`: the last burst built is the one before the position; `Tails`: bursts since the release are no more than the position |
| DcdmProofs | `TypeCorrect` | `Election`: a radio that asks, or waits for an answer, has asked less often than the limit, and does not do both; no stale response_wait or no-leader expiry is in the snapshot then |
| | `LeaderAlwaysBeacons`, `PendingAlwaysOnItsWay`, `OnlyBetterLeaderFollowed` | `Leading`, `OnItsWay` with the unlocked window of `dmr_dmo_notify_tx()` (`clash`). Every branch of the two evaluations is shown to be one of `Moves` |
| CclDataArqProofs | `TypeCorrect` | `Typed`: also that a burst being repeated is inside its list, a SACK on the air announces a bitmap, and a bitmap is awaited only while one is missing |
| | `ResponseAlwaysWatched` | `Tracked`: a response is awaited to a confirmed message only, a reassembly always misses a block |
| | `OneSender => WaitsAlwaysWatched` | `OneWayFrom`: the sender reassembles nothing and hears no header, the others stay in RX_REASSEMBLE |
| | `CopiesWithinRetries` | `Counted`: copies, the reassembly, headers heard and headers with the MAC together are within the transfer's `Budget` of retries |
| CclDataPairProofs | `Paired => CopiesCovered` | `Lined`: one burst or confirmation is under way, and what the receiver has and hears is from one message; `Paid`: copies delivered, and those that may still come before anything else goes wrong, are within `1 + trouble` |
| | `Paired => ServiceImplemented` | `PairInv`: an ACK on its way acknowledges the message in transfer, which was delivered, a SACK announces its bitmaps; headers abroad are of that message. `Shown`: the bitmaps taken, heard and on their way together leave one of its blocks missing |
| MsLifecycleProofs | `TypeCorrect` | with `CallOK` (where in its list each call can be), `StockOK` (queues), `ThreadsOK` (a worker belongs to a start that was made) |
| | `LeaksAreOfFailedInits` | `HeldInv`: a live module holds only what its destroy closes; the one being initialised, what its steps opened |
| | `InitsFindCleanQueues` | `QueueInv`: a queue with messages belongs to a live module or a failed one, or the process died |
| | `NoJoinForEver`, `OneWorkerEach` | `UpFacts`, `StoppingFacts`, `DownFacts`: what `WorkersMatch` says *within* a call, module by module |

Why the hypotheses:

* `Sheltered` (no impolite requests, no cancellation, no PHY read failure): without it the order is lost, as an impolite request
  overtakes, and `OK` may be said of a made-up answer's key; `mac_two` checks the refinement under the same.
* `Solo` (one module, one request at a time, no cancellation, no PHY read failure), as in `mac_alone`: with two modules, or a second
  request before the answer to the first, or a made-up answer, TLC violates both properties, since the expiry read is then a
  replaced request's (section 7); a cancellation in the snapshot's way violates PoliteTx.
* `Forgiving` (`Hangover <= SfGuard`, two misses end a call): `dmr_mac.h:260-262` has 400 ms for both and 2. With one miss the stale
  expiry of a renewed watchdog would report CALL_GONE to a live call.
* `OneSender`: with traffic both ways T_RX_STALL's expiry may be drained in another state (`data_crossed`, section 7).
* `Paired` (one radio sends, one listens, `Spaced`): an answer names neither message nor giver, so a third radio's, or one to an
  older message, is taken for the right one.

Induction over data is not available, but the least counterexample of a set of naturals is (`NatLessThanWellFounded`): `Least` and
`AscendingExists` in CclDataArqProofs show that the list of blocks to repeat exists for every finite set. `Ascending` is therefore a
CHOOSE, and `LeadOf` spells out its eight weights.

The count of copies is the longest argument. `CopiesCovered` bounds copies by what has gone wrong, so the invariant must say at
each moment which copies can still come *for nothing*. `Paid` keeps that account for the message in transfer. `Cost` is -1 when the sender has the
acknowledgement in hand, or will have it unless something else goes wrong; 0 when the receiver has, or will hear, all it lacks; 1 or 2
when something already went wrong with this transmission or its answer, and a copy may come of that. `Early` adds the response timer
that has expired, at the price of a fault, while bursts are on their way. Each handler is shown to leave one of a few forms (`Moves`,
`Restarts`, `Completes`, `Maps`, `Replies`...), each form to change the account of each message by no more than what it adds to `trouble`.
What makes it true is `Lined`: with one burst under way at a time, what the receiver lacks is what the sender has yet to send. A message that is cut
short (`CutShort`) has no such account, and comes again without any fault (section 7).

The refinement of DataService needs to know that bitmaps never add up to an acknowledgement: `ccl_data_rx_sack_data()` reports
success when the bitmaps it counted show no block missing. A bitmap has no number, so the second taken for the first would do. `Shown`
follows them from `ccl_data_handle_sack_tx_conf()` through the queues into `tx.maps`: those that came are no more than the phase the
receiver is in, and fewer once one is lost; when all have come, each is the one of its half, and a block the receiver still lacked
(`Gap`) is a zero of one of them, or beyond the 128 that two report on. Nothing the receiver has changes meanwhile, since the
sender, whose one burst at a time is confirmed (`Lined`), is silent.

Only model-checked: liveness (`LbtEnds`, `PhyAnswers`, `RequestsEnd`, `SilenceEndsCalls`, `TransmissionEnds`, `OneLeader`, `Agreement`,
`ExchangesEnd`), which is out of TLAPS's reach. Every safety property of a passing run is a theorem, some under the hypotheses above.


## 7. Where code and text disagree

Shown by a run (see `findings` in PROJECT.json):

* **A reception that never ends** (`voice_stuck`): a call joined late whose terminator arrives before its link
  control. The MAC stops its timers without an event, call control ignores a terminator of a call it does not
  know, and stays in LATE_ENTRY; push-to-talk is refused from then on. The property assumes `mq_rx_voice` never
  full, so this is not a matter of losing the event.
* **A transfer that never ends** (`data_crossed`): two radios send to each other and nothing is lost. The header heard while waiting for the
  acknowledgement overwrites the one state variable; the acknowledgement and T_Response are then ignored,
  `on_tx_complete()` is never called and every later request is refused as busy.

Stated as properties in the modules, refuted by TLC on the instance given, no run kept:

* **The channel is not heard** (`EveryBurstNoticed` as an invariant of `mac_alone.cfg` with `Spec`;
  `mac_channel_access.c:41-43`): "If no valid DMR burst arrives within T_IdleSrch, channel is idle. If a burst arrives
  during QUALIFY_IDLE, channel is busy". Only a data burst that passes the colour code starts T_Holdoff (`:949-961`). Under
  a voice call, or foreign data, T_IdleSrch runs out and the burst is sent over it.
* **An ABORTED burst goes out** (`AbortedNeverAired`, likewise; `dmr_mac.h:125`). T_IdleSrch and T_DataTxLmt expire in one
  snapshot; the burst is handed to the PHY, T_DataTxLmt is disarmed, and its descriptor, already in the snapshot, aborts the
  request.
* **Two threads in one critical section** (`MutualExclusion` in `t3_trunk.cfg` with `Apps <- TwoApps` and `Spec`;
  `dmr_t3_trunk.c:257`): `finish_locked()` unlocks, and so do its callers (`:334`, `:345`).
* **A confirmation is misattributed** (`ConfirmedWasSubmitted` in `dcdm_pair.cfg` with `Spec` and `MaxTrouble = 0`;
  `dmr_dmo.h:278`, `dmr_dmo.c:236`): `pending_req_id` keeps the number of a superseded request until the next is submitted,
  so the stale confirmation completes the successor, which is never sent. When it was the appointment of a leader, the
  appointer follows a leader that knows nothing of it.
* **A module with no worker** (`EveryModuleServed` in `lifecycle.cfg` with `MaxTrouble = 0`; `dmr_ms.h:106`: "Start worker
  threads for every module"): stopping data, trunking or DCDM posts SHUTDOWN and then clears `running`. A busy worker sees
  the flag, leaves and does not read the message, which the worker of the next start reads and dies of, while the station
  counts as running.
* **A message is delivered twice though nothing was lost** (`CopiesCovered` without its `CutShort`, `data_arq.cfg` with
  `MaxTrouble = 0` and a confirmed packet of three blocks whose payload reads as the last-block flag in the first). The receiver sends its
  SACK after that block (`dmr_ccl_data.c:1150-1171`); the sender hears it in TX_WAIT_ACK, waits for bitmaps, ignores the ACK of
  the whole message there, and T_Response repeats everything. A short message whose count wraps is concluded early and repeated likewise.

Seen while modelling:

* A pending request is replaced by another module's and never answered, although `dmr_mac.h:292` says "one at a time".
* With two modules, `PoliteTx` and `AbortOnlyAfterLimit` fail: the expiry in the snapshot is the replaced
  request's (`mac_channel_access.c:40`, `:176`).
* A data burst that waits in `mq_phy_rx` while T_IdleSrch is served first from the same snapshot is overlooked: the burst goes out,
  and the other is read in TX_PENDING, where LBT does not react.
* `mac_channel_access.c:38` has T_DataTxLmt "started when TX_PENDING"; it is started when the request is accepted, and disarmed
  on the way to TX_PENDING.
* An impolite request accepted while another is listening leaves the state as it is (`dmr_mac.h:117`).
* `dmr_phy.c:305` calls T_DataTxLmt the safety net for lost answers; by then it is disarmed.
* `CALL_GONE` usually comes with no `CALL_ENDED_TIMEOUT` before it (`dmr_pdu.h:549`).
* The superframe watchdog is restarted by every burst of the superframe, not by burst A only.
* `mac_handle_cach_at_idle()` and `mac_rc_burst_tx()` have no caller; the tracker's LATE_ENTRY state is never
  entered; voice call control never arms its call-alert and grant-rejected timers.
* Any decoded burst resets the voice tracker to IDLE with no event.
* CCL voice: a header received in hang time leaves the hang-time timer running, whose expiry ends the new reception;
  push-to-talk released in UU_REQ_WAIT is ignored; a burst refused by a full queue leaves TRANSMITTING with
  nothing to continue it; on a release in TX_LC_HEADER the header's confirmation is taken for the terminator's.
* DCDM: with different preferences, two leaders that meet may both stay leader: a leader that hears a better one whose
  preference exceeds its own and equals the one named finds "no rule" (`dmr_dmo.c:608-640`); `OneLeader` then fails.
  A radio that follows by appointment or timing push has no sync-age timer (`dmo_anl`, `dmo_tp`), so it follows a leader
  that is gone for ever, and corrects everybody who asks. Any CT_CSBK heard disarms response_wait for good. CCE bullet 7
  calls `dmo_al()`, which rejects just that CTO. A leader appointed by bullet 1 keeps `ms_lwatid` 0 and tells of "no
  leader" after a call. `ms_sa` is never advanced. CT_RHOT is 0–15 ms in the build, 0–3.24 s in the comments.
* CCL data: an answer names no message, so a late one answers the next message; no header is checked for its destination, so
  bystanders deliver and acknowledge. `llc_data_block_rate1_build()` overwrites number and last-block flag with payload, and
  `crc9_append(body, 11)` gives bytes where bits are expected. A short header's six bits wrap the block count at 64; a
  message of 94 blocks exceeds `CCL_DATA_MAX_PAYLOAD` at the receiver and is always refused. T_RX_STALL (10 s) is shorter than a
  long retry (about 31 s). `ccl_data_tx_retry()` leaves the selective retry's flag set.
* Lifecycle. A failing initialisation keeps what it had opened in the MAC,
  voice and DCDM (`dmr_dmo_destroy()` does nothing before `initialised`), and in part in data and trunking, against `dmr_ms.h:94-96`
  ("torn down"). Voice's SHUTDOWN is not checked: a full queue loses it and stop never returns. Key presses left in voice's queue
  act after a restart. After a crash nothing unlinks the named queues and `mac_init()` opens without O_EXCL, so they are reused, against
  `mac_channel_access.c:1306`. `mac_stop()` wakes the worker with T_IdleSrch, whose handler in QUALIFY_IDLE airs the pending burst without
  a quiet channel.
* CACH: the wire format in the head of `mac_cach.c` is not the one of the interleaver (Figure B.9, as coded); `hamming74_decode()` returns
  true when it corrected, its comment says when it did not.

## 8. Not modelled

* Field layouts, vocoder frames, encryption, audio, logging: no property here depends on them.
* In CclVoice, embedded LC's fragments and their code are reduced to "decodes or does not"; EmbeddedLc says when it does.
* Memory: contexts live as long as their threads in every model; init/start/stop/destroy belong to MsLifecycle.
* Slots: one MAC is modelled. Slot processing serves only one context (`dmr_mac_timer.c`), so two slots
  never compete in it.
* LRRP, tier tables, the demo and the vendored `BPTC19696`, `Hamming`, `Utils`: stateless.
* Slot activity and `mac_cach_parse()`'s use: nothing calls them; the codec alone is modelled.
* The notice CCL data gives DCDM at the end of a transfer: a submission by another thread in Dcdm (`NotifyBegin`).
* BPTC(196,96), trellis, Golay and Reed–Solomon: too many inputs to enumerate; the proof method of EmbeddedLc would reach BPTC's rows.

## 9. Plan

| # | module | state | remaining |
|---|---|---|---|
| 1 | MacChannelAccess, MacTxService, proofs | proved | – |
| 2 | T3Trunk, TrunkService, proofs | proved | – |
| 3 | MacVoiceRx, proofs | proved | – |
| 4 | CclVoice, proofs; VoicePath | proved; checked | – |
| 5 | Dcdm, proofs | proved | three radios in a run |
| 6 | CclDataArq, DataService, proofs | proved | more than two radios, which needs answers that name their giver |
| 7 | MsLifecycle, proofs | proved | – |
| 8 | BitWords, Cach, EmbeddedLc, proofs in VoiceRxProofs | proved | Hamming (15,11), (13,9) and BPTC(196,96) in the same way |
