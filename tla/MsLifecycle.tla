---------------------------- MODULE MsLifecycle -----------------------------
(***************************************************************************)
(* The life of a mobile station (dmr_ms.c): one application thread calls   *)
(* dmr_ms_init(), _start(), _stop() and _destroy(), each of which calls    *)
(* the modules of the tier one after the other, MAC first; every module    *)
(* has a worker thread, which the stop of the module must bring to an end. *)
(* Any step of an initialisation or a start may fail, and the process may  *)
(* die between any two steps: its named queues then stay in the kernel     *)
(* with what is in them.                                                   *)
(*                                                                         *)
(* A queue is the number of its messages: for the MAC all the queues it    *)
(* owns as one, for the others their mq_evt. Messages other than SHUTDOWN  *)
(* reach only the queues of MAC and voice. The application destroys what   *)
(* it has initialised before it initialises again, as dmr_ms.h asks.       *)
(***************************************************************************)
EXTENDS Integers, Sequences, FiniteSets

CONSTANTS
  Tiers,       \* the kinds of station: a subset of DOMAIN Composition
  QDepth,      \* messages a queue holds
  MaxStarts,   \* bound: how often dmr_ms_start() is called
  MaxInits,    \* bound: how often dmr_ms_init() is called
  MaxTrouble   \* bound: failed steps and crashes

ASSUME QDepthAssumption == QDepth \in Nat \ {0}
ASSUME BoundsAssumption == {MaxStarts, MaxInits, MaxTrouble} \subseteq Nat

\* The modules of each kind of station, in the order of initialisation.
Composition ==
  [conventional |-> <<"mac", "voice", "data">>,
   trunked      |-> <<"mac", "voice", "data", "trunk">>,
   direct       |-> <<"mac", "voice", "data", "dcdm">>]

ASSUME TiersAssumption == Tiers \subseteq DOMAIN Composition

Modules   == {"mac", "voice", "data", "trunk", "dcdm"}
Resources == {"queues", "timers", "pipes", "epoll"}
\* These set running to false themselves after they posted SHUTDOWN.
Eager   == {"data", "trunk", "dcdm"}
Workers == 1..MaxStarts

VARIABLES
  tier,      \* ctx->config.tier with dcdm_enabled
  ms,        \* ctx->initialised and ctx->running
  app,       \* where the application thread is
  live,      \* modules with an initialised context
  running,   \* running of each module
  workers,   \* the worker each start created for each module
  queue,     \* what the kernel holds in the queues each module owns
  held,      \* resources the context of each module refers to
  leaked,    \* resources still open that no context refers to
  starts, inits, trouble,
  failed,    \* where an initialisation failed: <<module, step>>
  doomed,    \* modules started with a SHUTDOWN left, or without an epoll
  crashed,   \* the process died once
  lost       \* SHUTDOWN met a full queue

kernelVars  == <<queue, held, leaked>>
historyVars == <<failed, doomed, crashed, lost>>
boundVars   == <<starts, inits, trouble>>
vars == <<tier, ms, app, live, running, workers, kernelVars, boundVars,
          historyVars>>

Order == Composition[tier]
Idle  == [call |-> "none", at |-> 0, joining |-> FALSE, last |-> FALSE]
Call(name, at, last) ==
  [call |-> name, at |-> at, joining |-> FALSE, last |-> last]

Empty == [events |-> 0, shutdowns |-> 0]
Fits(m) == queue[m].events + queue[m].shutdowns < QDepth
Alive(m, w) == workers[m][w] \notin {"none", "done"}

Init ==
  /\ tier \in Tiers
  /\ ms = [initialised |-> FALSE, running |-> FALSE]
  /\ app = Idle
  /\ live = {}
  /\ running = [m \in Modules |-> FALSE]
  /\ workers = [m \in Modules |-> [w \in Workers |-> "none"]]
  /\ queue = [m \in Modules |-> Empty]
  /\ held = [m \in Modules |-> {}] /\ leaked = [m \in Modules |-> {}]
  /\ starts = 0 /\ inits = 0 /\ trouble = 0
  /\ failed = {} /\ doomed = {} /\ crashed = FALSE /\ lost = FALSE

----------------------------------------------------------------------------
(* Initialisation of the modules: what each acquires, in order, and after  *)
(* which failures it releases what it has. dmr_dmo_init() calls            *)
(* dmr_dmo_destroy(), which does nothing before initialised is set.        *)

MacInit   == [steps |-> <<"queues", "timers", "epoll">>, tidy |-> {}]
VoiceInit == [steps |-> <<"queues", "timers", "pipes">>, tidy |-> {}]
DataInit  == [steps |-> <<"queues", "timers">>, tidy |-> {"queues"}]
TrunkInit == [steps |-> <<"queues", "timers">>, tidy |-> {"queues"}]
DcdmInit  == [steps |-> <<"queues", "timers">>, tidy |-> {}]

InitOf == [mac |-> MacInit, voice |-> VoiceInit, data |-> DataInit,
           trunk |-> TrunkInit, dcdm |-> DcdmInit]

\* What the destroy function of each closes.
MacCloses   == {"queues", "timers", "epoll"}
VoiceCloses == {"queues", "timers", "pipes"}
DataCloses  == {"queues", "timers"}
TrunkCloses == {"queues", "timers"}
DcdmCloses  == {"queues", "timers"}

Closes == [mac |-> MacCloses, voice |-> VoiceCloses, data |-> DataCloses,
           trunk |-> TrunkCloses, dcdm |-> DcdmCloses]

\* Faulty: the names of the queues are kept.
DestroyKeepingNames(m) ==
  /\ live' = live \ {m}
  /\ leaked' = [leaked EXCEPT ![m] = @ \cup (held[m] \ Closes[m])]
  /\ held' = [held EXCEPT ![m] = {}]
  /\ UNCHANGED queue
  /\ running' = [running EXCEPT ![m] = FALSE]

\* The destroy function of a module: what is open is closed, its own queues
\* are unlinked and the context is cleared.
Destroy(m) ==
  /\ live' = live \ {m}
  /\ leaked' = [leaked EXCEPT ![m] = @ \cup (held[m] \ Closes[m])]
  /\ held' = [held EXCEPT ![m] = {}]
  /\ queue' = [queue EXCEPT ![m] = Empty]
  /\ running' = [running EXCEPT ![m] = FALSE]

\* memset() of the whole station.
Zeroed ==
  /\ ms' = [initialised |-> FALSE, running |-> FALSE]
  /\ app' = Idle

\* What is still open is forgotten with the contexts.
Forget ==
  /\ Zeroed
  /\ leaked' = [m \in Modules |-> leaked[m] \cup held[m]]
  /\ held' = [m \in Modules |-> {}]
  /\ live' = {}
  /\ running' = [m \in Modules |-> FALSE]

InitCall ==
  /\ app = Idle /\ ~ms.initialised
  /\ inits < MaxInits
  /\ inits' = inits + 1
  /\ app' = Call("init", 1, FALSE)
  /\ UNCHANGED <<tier, ms, live, running, workers, kernelVars, starts,
                 trouble, historyVars>>

InitModule ==
  /\ app.call = "init"
  /\ LET m == Order[app.at] IN
       /\ live' = live \cup {m}
       /\ held' = [held EXCEPT ![m] =
            {InitOf[m].steps[i] : i \in DOMAIN InitOf[m].steps}]
  /\ IF app.at < Len(Order)
       THEN /\ app' = [app EXCEPT !.at = @ + 1]
            /\ UNCHANGED ms
       ELSE /\ app' = Idle
            /\ ms' = [ms EXCEPT !.initialised = TRUE]
  /\ UNCHANGED <<tier, running, workers, queue, leaked, boundVars,
                 historyVars>>

\* Faulty: the module initialised just before is not destroyed.
InitFailsSkipping ==
  /\ app.call = "init"
  /\ trouble < MaxTrouble /\ trouble' = trouble + 1
  /\ LET m == Order[app.at]
         steps == InitOf[m].steps
     IN \E k \in DOMAIN steps :
          /\ failed' = failed \cup {<<m, steps[k]>>}
          /\ IF steps[k] \in InitOf[m].tidy
               THEN /\ queue' = [queue EXCEPT ![m] = Empty]
                    /\ UNCHANGED leaked
               ELSE /\ \E done \in {k - 1, k} :
                         leaked' = [leaked EXCEPT ![m] =
                           @ \cup {steps[i] : i \in 1..done}]
                    /\ UNCHANGED queue
  /\ app' = Call("undo", IF app.at > 1 THEN app.at - 2 ELSE 0, FALSE)
  /\ UNCHANGED <<tier, ms, live, running, workers, held, starts, inits,
                 doomed, crashed, lost>>

\* Step k of a module fails, with or without part of it done. What its own
\* error path does not release is referred to by nothing any more.
InitFails ==
  /\ app.call = "init"
  /\ trouble < MaxTrouble /\ trouble' = trouble + 1
  /\ LET m == Order[app.at]
         steps == InitOf[m].steps
     IN \E k \in DOMAIN steps :
          /\ failed' = failed \cup {<<m, steps[k]>>}
          /\ IF steps[k] \in InitOf[m].tidy
               THEN /\ queue' = [queue EXCEPT ![m] = Empty]
                    /\ UNCHANGED leaked
               ELSE /\ \E done \in {k - 1, k} :
                         leaked' = [leaked EXCEPT ![m] =
                           @ \cup {steps[i] : i \in 1..done}]
                    /\ UNCHANGED queue
  /\ app' = Call("undo", app.at - 1, FALSE)
  /\ UNCHANGED <<tier, ms, live, running, workers, held, starts, inits,
                 doomed, crashed, lost>>

\* dmr_ms_init() and dmr_ms_destroy() destroy in the reverse order and then
\* clear the station.
DestroyNext ==
  /\ app.call \in {"undo", "destroy"} /\ app.at > 0
  /\ Destroy(Order[app.at])
  /\ app' = [app EXCEPT !.at = @ - 1]
  /\ UNCHANGED <<tier, ms, workers, boundVars, historyVars>>

Cleared ==
  /\ app.call \in {"undo", "destroy"} /\ app.at = 0
  /\ Forget
  /\ UNCHANGED <<tier, workers, queue, boundVars, historyVars>>

----------------------------------------------------------------------------
(* Start and stop.                                                         *)

StartCall ==
  /\ app = Idle /\ ms.initialised /\ ~ms.running
  /\ starts < MaxStarts
  /\ starts' = starts + 1
  /\ app' = Call("start", 1, FALSE)
  /\ UNCHANGED <<tier, ms, live, running, workers, kernelVars, inits,
                 trouble, historyVars>>

\* A SHUTDOWN left in the queue of a module that is eager to clear running,
\* or by a process that died.
LeftOver(m) == queue[m].shutdowns > 0 /\ (m \in Eager \/ crashed)

\* The worker runs, or ends at once when it gets no epoll descriptor.
StartModule ==
  /\ app.call = "start"
  /\ LET m == Order[app.at] IN
       /\ running' = [running EXCEPT ![m] = TRUE]
       /\ \/ /\ workers' = [workers EXCEPT ![m][starts] = "check"]
             /\ doomed' = IF LeftOver(m) THEN doomed \cup {m} ELSE doomed
             /\ UNCHANGED trouble
          \/ /\ m # "mac" /\ trouble < MaxTrouble
             /\ trouble' = trouble + 1
             /\ workers' = [workers EXCEPT ![m][starts] = "done"]
             /\ doomed' = doomed \cup {m}
  /\ IF app.at < Len(Order)
       THEN /\ app' = [app EXCEPT !.at = @ + 1]
            /\ UNCHANGED ms
       ELSE /\ app' = Idle
            /\ ms' = [ms EXCEPT !.running = TRUE]
  /\ UNCHANGED <<tier, live, kernelVars, starts, inits, failed, crashed,
                 lost>>

\* What was started before is stopped again.
StopFrom(at, last) ==
  IF at > 0 THEN Call("stop", at, last)
  ELSE IF last THEN Call("destroy", Len(Order), TRUE) ELSE Idle

\* pthread_create() fails.
StartFails ==
  /\ app.call = "start"
  /\ trouble < MaxTrouble /\ trouble' = trouble + 1
  /\ app' = StopFrom(app.at - 1, FALSE)
  /\ UNCHANGED <<tier, ms, live, running, workers, kernelVars, starts, inits,
                 historyVars>>

StopCall ==
  /\ app = Idle /\ ms.initialised /\ ms.running
  /\ app' = StopFrom(Len(Order), FALSE)
  /\ UNCHANGED <<tier, ms, live, running, workers, kernelVars, boundVars,
                 historyVars>>

\* A running station is stopped first.
DestroyCall ==
  /\ app = Idle /\ ms.initialised
  /\ app' = IF ms.running THEN StopFrom(Len(Order), TRUE)
            ELSE Call("destroy", Len(Order), TRUE)
  /\ UNCHANGED <<tier, ms, live, running, workers, kernelVars, boundVars,
                 historyVars>>

\* Faulty: posts whether or not there is room.
PostShutdownForced(m) ==
  /\ queue' = [queue EXCEPT ![m].shutdowns = @ + 1]
  /\ UNCHANGED lost

PostShutdown(m) ==
  IF Fits(m)
    THEN /\ queue' = [queue EXCEPT ![m].shutdowns = @ + 1]
         /\ UNCHANGED lost
    ELSE /\ lost' = TRUE
         /\ UNCHANGED queue

\* T_IdleSrch is armed to wake the worker.
MacStop ==
  /\ running' = [running EXCEPT !["mac"] = FALSE]
  /\ UNCHANGED <<queue, lost>>

\* Faulty: running is cleared before the worker has seen the SHUTDOWN.
VoiceStopEager ==
  /\ PostShutdown("voice")
  /\ running' = [running EXCEPT !["voice"] = FALSE]

\* Only the SHUTDOWN ends the worker: running is cleared when it has ended.
VoiceStop ==
  /\ PostShutdown("voice")
  /\ UNCHANGED running

\* The SHUTDOWN is posted, and running is cleared without waiting for it.
EagerStop(m) ==
  /\ PostShutdown(m)
  /\ running' = [running EXCEPT ![m] = FALSE]

\* The stop function of the module, up to its pthread_join().
StopModule ==
  /\ app.call = "stop" /\ ~app.joining
  /\ LET m == Order[app.at] IN
       /\ running[m]
       /\ IF m = "mac" THEN MacStop
          ELSE IF m = "voice" THEN VoiceStop ELSE EagerStop(m)
  /\ app' = [app EXCEPT !.joining = TRUE]
  /\ UNCHANGED <<tier, ms, live, workers, held, leaked, boundVars, failed,
                 doomed, crashed>>

\* The stop that was the last one ends the call.
Onward ==
  /\ app' = StopFrom(app.at - 1, app.last)
  /\ ms' = IF app.at = 1 THEN [ms EXCEPT !.running = FALSE] ELSE ms

\* A module that is not running is left alone, its thread not joined.
SkipStop ==
  /\ app.call = "stop" /\ ~app.joining
  /\ ~running[Order[app.at]]
  /\ Onward
  /\ UNCHANGED <<tier, live, running, workers, kernelVars, boundVars,
                 historyVars>>

Joined ==
  /\ app.call = "stop" /\ app.joining
  /\ LET m == Order[app.at] IN
       /\ workers[m][starts] = "done"
       /\ running' = [running EXCEPT ![m] = FALSE]
  /\ Onward
  /\ UNCHANGED <<tier, live, workers, kernelVars, boundVars, historyVars>>

----------------------------------------------------------------------------
(* The workers: "check" stands for the handlers and the test of running    *)
(* after them, "wait" for epoll_wait(), "drain" for a snapshot that holds  *)
(* the module's own queue.                                                 *)

Becomes(m, w, state) == workers' = [workers EXCEPT ![m][w] = state]

Check(m, w) ==
  /\ workers[m][w] = "check"
  /\ Becomes(m, w, IF running[m] THEN "wait" ELSE "done")
  /\ UNCHANGED <<tier, ms, app, live, running, kernelVars, boundVars,
                 historyVars>>

\* A burst, a confirmation, a timer, or the time limit of epoll_wait().
Wake(m, w) ==
  /\ workers[m][w] = "wait"
  /\ Becomes(m, w, IF queue[m] = Empty THEN "check" ELSE "drain")
  /\ UNCHANGED <<tier, ms, app, live, running, kernelVars, boundVars,
                 historyVars>>

\* One message at a time.
MacDrain(m, w) ==
  /\ queue' = [queue EXCEPT ![m].events = IF @ > 0 THEN @ - 1 ELSE 0]
  /\ Becomes(m, w, "check")
  /\ UNCHANGED running

\* Faulty: SHUTDOWN is taken for any other event.
VoiceDrainDeaf(m, w) ==
  /\ queue' = [queue EXCEPT ![m] = Empty]
  /\ Becomes(m, w, "check")
  /\ UNCHANGED running

\* SHUTDOWN has the higher priority, and ends the worker where it stands.
VoiceDrain(m, w) ==
  IF queue[m].shutdowns > 0
    THEN /\ queue' = [queue EXCEPT ![m].shutdowns = @ - 1]
         /\ running' = [running EXCEPT ![m] = FALSE]
         /\ Becomes(m, w, "done")
    ELSE /\ queue' = [queue EXCEPT ![m].events = 0]
         /\ Becomes(m, w, "check")
         /\ UNCHANGED running

\* The whole queue; SHUTDOWN clears running.
EagerDrain(m, w) ==
  /\ queue' = [queue EXCEPT ![m] = Empty]
  /\ running' = [running EXCEPT ![m] = @ /\ queue[m].shutdowns = 0]
  /\ Becomes(m, w, "check")

Drain(m, w) ==
  /\ workers[m][w] = "drain"
  /\ IF m = "mac" THEN MacDrain(m, w)
     ELSE IF m = "voice" THEN VoiceDrain(m, w) ELSE EagerDrain(m, w)
  /\ UNCHANGED <<tier, ms, app, live, held, leaked, boundVars, historyVars>>

WorkerStep(m, w) == Check(m, w) \/ Wake(m, w) \/ Drain(m, w)

\* The receiver hands the MAC a burst, the user presses push-to-talk.
Post(m) ==
  /\ m \in {"mac", "voice"} \cap live
  /\ Fits(m)
  /\ queue' = [queue EXCEPT ![m].events = @ + 1]
  /\ UNCHANGED <<tier, ms, app, live, running, workers, held, leaked,
                 boundVars, historyVars>>

\* The process dies: the kernel closes what it had open and keeps the names.
Crash ==
  /\ trouble < MaxTrouble /\ trouble' = trouble + 1
  /\ inits > 0
  /\ crashed' = TRUE
  /\ Zeroed
  /\ live' = {} /\ running' = [m \in Modules |-> FALSE]
  /\ workers' = [m \in Modules |-> [w \in Workers |-> "none"]]
  /\ held' = [m \in Modules |-> {}] /\ leaked' = [m \in Modules |-> {}]
  /\ failed' = {} /\ doomed' = {} /\ lost' = FALSE
  /\ UNCHANGED <<tier, queue, starts, inits>>

AppStep ==
  \/ InitModule \/ DestroyNext \/ Cleared
  \/ StartModule \/ StopModule \/ SkipStop \/ Joined

Next ==
  \/ InitCall \/ StartCall \/ StopCall \/ DestroyCall
  \/ AppStep \/ InitFails \/ StartFails
  \/ \E m \in Modules : Post(m) \/ \E w \in Workers : WorkerStep(m, w)
  \/ Crash

Spec == Init /\ [][Next]_vars

----------------------------------------------------------------------------
(* Properties.                                                             *)

TypeOK ==
  /\ tier \in Tiers
  /\ ms \in [initialised : BOOLEAN, running : BOOLEAN]
  /\ app \in [call : {"none", "init", "undo", "start", "stop", "destroy"},
              at : 0..Len(Order), joining : BOOLEAN, last : BOOLEAN]
  /\ live \subseteq {Order[i] : i \in DOMAIN Order}
  /\ running \in [Modules -> BOOLEAN]
  /\ workers \in
       [Modules -> [Workers -> {"none", "check", "wait", "drain", "done"}]]
  /\ queue \in [Modules -> [events : 0..QDepth, shutdowns : 0..QDepth]]
  /\ \A m \in Modules : queue[m].events + queue[m].shutdowns <= QDepth
  /\ {held, leaked} \subseteq [Modules -> SUBSET Resources]
  /\ starts \in 0..MaxStarts /\ {inits, trouble} \subseteq Nat
  /\ doomed \subseteq Modules /\ {crashed, lost} \subseteq BOOLEAN
  /\ ms.running => ms.initialised

\* Outside of its own calls a station holds nothing that nobody refers to,
\* whatever failed, but for what the failed initialisation of a module keeps
\* itself: dmr_ms_init() and dmr_ms_destroy() undo every other module.
OnlyFailedLeaks ==
  \A m \in Modules :
    leaked[m] # {} =>
      \E f \in failed : f[1] = m /\ f[2] \notin InitOf[m].tidy

\* A worker serves each module from a successful start to the stop, one and
\* no more, and none is left when the module's context is destroyed; only a
\* module started with an old SHUTDOWN in its queue may be otherwise.
WorkersMatch ==
  \A m \in Modules \ doomed :
    /\ app = Idle /\ ms.running /\ m \in live =>
         /\ running[m]
         /\ {w \in Workers : Alive(m, w)} = {starts}
    /\ m \notin live => \A w \in Workers : ~Alive(m, w)

\* Between its calls a started station has a live worker for each module it
\* composed, as dmr_ms.h says of dmr_ms_start(). The code refutes it: README,
\* section 7.
EveryModuleServed ==
  app = Idle /\ ms.running =>
    \A i \in DOMAIN Order : \E w \in Workers : Alive(Order[i], w)

\* Unless the process died, no module is initialised with messages of an
\* earlier life in its queues: their names were unlinked with them.
CleanSlate ==
  [][\A m \in live' \ live : queue'[m] = Empty \/ crashed]_vars

\* pthread_join() is never called on a worker that has no reason to end: it
\* has ended, running is cleared or a SHUTDOWN waits for it, unless that met
\* a full queue. So dmr_ms_stop() and dmr_ms_destroy() return.
JoinsEnd ==
  app.joining /\ ~lost =>
    LET m == Order[app.at] IN
      workers[m][starts] = "done" \/ ~running[m] \/ queue[m].shutdowns > 0
=============================================================================
