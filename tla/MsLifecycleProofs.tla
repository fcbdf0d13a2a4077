------------------------- MODULE MsLifecycleProofs --------------------------
(* Theorems about MsLifecycle, for every kind of station and any number of *)
(* starts, initialisations, failures and crashes.                          *)
EXTENDS MsLifecycle, TLAPS

----------------------------------------------------------------------------
(* The inductive invariant.                                                *)

\* How many modules of Order are initialised.
Built ==
  IF app.call = "init" THEN app.at - 1
  ELSE IF app.call \in {"undo", "destroy"} THEN app.at
  ELSE IF ms.initialised THEN Len(Order) ELSE 0

Calls ==
  [call : {"none", "init", "undo", "start", "stop", "destroy"},
   at : 0..Len(Order), joining : BOOLEAN, last : BOOLEAN]

\* TypeOK in three parts: the call, what the modules have, and the threads.
CallOK ==
  /\ ms \in [initialised : BOOLEAN, running : BOOLEAN]
  /\ app \in Calls
  /\ ms.running => ms.initialised
  /\ starts \in 0..MaxStarts

StockOK ==
  /\ queue \in [Modules -> [events : 0..QDepth, shutdowns : 0..QDepth]]
  /\ \A m \in Modules : queue[m].events + queue[m].shutdowns <= QDepth
  /\ {held, leaked} \subseteq [Modules -> SUBSET Resources]
  /\ {inits, trouble} \subseteq Nat

ThreadsOK ==
  /\ running \in [Modules -> BOOLEAN]
  /\ workers \in
       [Modules -> [Workers -> {"none", "check", "wait", "drain", "done"}]]
  /\ doomed \subseteq Modules /\ {crashed, lost} \subseteq BOOLEAN

\* What the call that is under way says of the rest.
Phase ==
  /\ app.call \in {"init", "start", "stop"} => app.at >= 1
  /\ app.call = "none" => app = Idle
  /\ app.call \in {"start", "stop", "destroy"} => ms.initialised
  /\ app.call \in {"init", "undo"} => ~ms.initialised
  /\ app.call \in {"start", "destroy"} => ~ms.running
  /\ app.call \in {"start", "stop"} \/ ms.running => starts >= 1
  /\ app.joining => app.call = "stop"

LiveIs == live = {Order[i] : i \in 1..Built}

\* How many modules of Order are started and not yet told to stop.
UpTo ==
  IF app.call = "start" THEN app.at - 1
  ELSE IF app.call = "stop" THEN IF app.joining THEN app.at - 1 ELSE app.at
  ELSE IF app.call = "none" /\ ms.running THEN Len(Order) ELSE 0

Up == {Order[i] : i \in 1..UpTo}
Stopping(m) == app.joining /\ m = Order[app.at]
AliveOf(m) == {w \in Workers : Alive(m, w)}

\* Started: served by the worker of the last start, which nothing ends.
UpFacts ==
  \A m \in Modules \ doomed : m \in Up =>
    /\ running[m]
    /\ AliveOf(m) = {starts}
    /\ queue[m].shutdowns = 0

\* Being joined: the last worker only; voice clears running when it has read
\* the one SHUTDOWN.
StoppingFacts ==
  \A m \in Modules \ doomed : Stopping(m) =>
    /\ AliveOf(m) \subseteq {starts}
    /\ m = "voice" =>
         \/ running[m] /\ workers[m][starts] # "done"
            /\ queue[m].shutdowns <= 1
         \/ workers[m][starts] = "done" /\ queue[m].shutdowns = 0
    /\ m = "mac" => queue[m].shutdowns = 0 \/ crashed

\* Neither: no worker, and a SHUTDOWN only where it is known to be left.
DownFacts ==
  \A m \in Modules \ doomed : m \notin Up /\ ~Stopping(m) =>
    /\ AliveOf(m) = {}
    /\ m \in Eager \/ crashed \/ queue[m].shutdowns = 0

WorkersInv == UpFacts /\ StoppingFacts /\ DownFacts

\* What a context refers to.
HeldInv ==
  \A m \in Modules :
    held[m] # {} => m \in live /\ held[m] \subseteq Closes[m]

\* The queues of what is not initialised.
QueueInv == \A m \in Modules \ live : queue[m] = Empty \/ crashed

BaseInv == TypeOK /\ Phase /\ LiveIs

----------------------------------------------------------------------------
(* The tables.                                                             *)

LEMMA OrderFacts ==
  ASSUME tier \in Tiers
  PROVE  /\ Order \in Seq(Modules)
         /\ Len(Order) \in 3..4
         /\ \A i \in 1..Len(Order) : Order[i] \in Modules
         /\ \A i, j \in 1..Len(Order) : Order[i] = Order[j] => i = j
<1>1. tier \in {"conventional", "trunked", "direct"}
  BY TiersAssumption DEF Composition
<1>2. CASE tier = "conventional"
  <2>1. Order = <<"mac", "voice", "data">>
    BY <1>2 DEF Order, Composition
  <2> QED BY <2>1 DEF Modules
<1>3. CASE tier = "trunked"
  <2>1. Order = <<"mac", "voice", "data", "trunk">>
    BY <1>3 DEF Order, Composition
  <2> QED BY <2>1 DEF Modules
<1>4. CASE tier = "direct"
  <2>1. Order = <<"mac", "voice", "data", "dcdm">>
    BY <1>4 DEF Order, Composition
  <2> QED BY <2>1 DEF Modules
<1> QED BY <1>1, <1>2, <1>3, <1>4

\* Every step of an initialisation is undone by the module's destroy.
LEMMA StepsClosed ==
  ASSUME NEW m \in Modules
  PROVE  /\ DOMAIN InitOf[m].steps \subseteq Nat
         /\ {InitOf[m].steps[i] : i \in DOMAIN InitOf[m].steps}
              \subseteq Closes[m]
         /\ Closes[m] \subseteq Resources
         /\ \A k \in DOMAIN InitOf[m].steps :
              \A done \in {k - 1, k} :
                {InitOf[m].steps[i] : i \in 1..done} \subseteq Resources
<1> USE DEF InitOf, Closes, Resources
<1>1. CASE m = "mac"
  BY <1>1 DEF MacInit, MacCloses
<1>2. CASE m = "voice"
  BY <1>2 DEF VoiceInit, VoiceCloses
<1>3. CASE m = "data"
  BY <1>3 DEF DataInit, DataCloses
<1>4. CASE m = "trunk"
  BY <1>4 DEF TrunkInit, TrunkCloses
<1>5. CASE m = "dcdm"
  BY <1>5 DEF DcdmInit, DcdmCloses
<1> QED BY <1>1, <1>2, <1>3, <1>4, <1>5 DEF Modules

----------------------------------------------------------------------------
(* Types, and the phase of the call.                                       *)

LEMMA BaseInit == Init => BaseInv
<1> SUFFICES ASSUME Init PROVE BaseInv
  OBVIOUS
<1>1. Len(Order) \in 3..4
  BY OrderFacts DEF Init
<1>2. TypeOK
  <2>1. queue \in [Modules -> [events : 0..QDepth, shutdowns : 0..QDepth]]
    BY QDepthAssumption DEF Init, Empty
  <2>2. \A m \in Modules : queue[m].events + queue[m].shutdowns <= QDepth
    BY QDepthAssumption DEF Init, Empty
  <2>3. {held, leaked} \subseteq [Modules -> SUBSET Resources]
    BY DEF Init
  <2>4. starts \in 0..MaxStarts /\ {inits, trouble} \subseteq Nat
    BY BoundsAssumption DEF Init
  <2>5. /\ app \in [call : {"none", "init", "undo", "start", "stop", "destroy"},
                    at : 0..Len(Order), joining : BOOLEAN, last : BOOLEAN]
        /\ ms \in [initialised : BOOLEAN, running : BOOLEAN]
    BY <1>1 DEF Init, Idle
  <2>6. /\ running \in [Modules -> BOOLEAN]
        /\ workers \in [Modules ->
             [Workers -> {"none", "check", "wait", "drain", "done"}]]
    BY DEF Init
  <2> QED BY <2>1, <2>2, <2>3, <2>4, <2>5, <2>6 DEF Init, TypeOK
<1>3. Phase /\ LiveIs
  BY <1>1 DEF Init, Phase, LiveIs, Idle, Built
<1> QED BY <1>2, <1>3 DEF BaseInv

LEMMA TypeParts ==
  ASSUME LiveIs, Phase, tier \in Tiers
  PROVE  TypeOK <=> CallOK /\ StockOK /\ ThreadsOK
<1>1. CallOK => live \subseteq {Order[i] : i \in DOMAIN Order}
  <2>1. CallOK => Built \in 0..Len(Order)
    BY OrderFacts DEF CallOK, Calls, Built, Phase
  <2>2. DOMAIN Order = 1..Len(Order)
    BY OrderFacts
  <2> QED BY <2>1, <2>2, OrderFacts DEF LiveIs
<1> QED BY <1>1 DEF TypeOK, CallOK, Calls, StockOK, ThreadsOK

\* The queues keep their limit.
QueuesOK(q) ==
  /\ q \in [Modules -> [events : 0..QDepth, shutdowns : 0..QDepth]]
  /\ \A m \in Modules : q[m].events + q[m].shutdowns <= QDepth

LEMMA PostShutdownFacts ==
  ASSUME QueuesOK(queue), lost \in BOOLEAN, NEW m \in Modules,
         PostShutdown(m)
  PROVE  /\ QueuesOK(queue') /\ lost' \in BOOLEAN
         /\ \A n \in Modules \ {m} : queue'[n] = queue[n]
         /\ \/ ~lost' /\ queue'[m].shutdowns = queue[m].shutdowns + 1
               /\ lost' = lost
            \/ lost' /\ queue' = queue
            \/ lost' /\ queue'[m].shutdowns = queue[m].shutdowns + 1
<1> USE QDepthAssumption DEF QueuesOK
<1>1. CASE Fits(m)
  BY <1>1 DEF PostShutdown, Fits
<1>2. CASE ~Fits(m)
  BY <1>2 DEF PostShutdown
<1> QED BY <1>1, <1>2

LEMMA DrainFacts ==
  ASSUME QueuesOK(queue), running \in [Modules -> BOOLEAN],
         NEW m \in Modules, NEW w \in Workers, Drain(m, w)
  PROVE  /\ QueuesOK(queue') /\ running' \in [Modules -> BOOLEAN]
         /\ \A n \in Modules \ {m} :
              queue'[n] = queue[n] /\ running'[n] = running[n]
         /\ queue[m] = Empty => queue'[m] = Empty
         /\ \/ Becomes(m, w, "done")
               /\ m = "voice" /\ queue[m].shutdowns > 0
               /\ queue'[m].shutdowns = queue[m].shutdowns - 1
               /\ ~running'[m]
            \/ Becomes(m, w, "check")
               /\ running'[m] = running[m]
               /\ queue'[m].shutdowns = queue[m].shutdowns
            \/ Becomes(m, w, "check")
               /\ ~running'[m]
               /\ m \in Eager /\ queue[m].shutdowns > 0
<1> USE QDepthAssumption
<1>1. CASE m = "mac"
  <2>1. /\ queue' = [queue EXCEPT ![m].events = IF @ > 0 THEN @ - 1 ELSE 0]
        /\ Becomes(m, w, "check") /\ running' = running
    BY <1>1 DEF Drain, MacDrain
  <2>2. /\ queue'[m].shutdowns = queue[m].shutdowns
        /\ queue'[m].events <= queue[m].events
        /\ queue[m] = Empty => queue'[m] = Empty
        /\ QueuesOK(queue')
        /\ \A n \in Modules \ {m} : queue'[n] = queue[n]
    BY <2>1 DEF QueuesOK, Empty
  <2> QED BY <2>1, <2>2
<1>2. CASE m = "voice" /\ queue[m].shutdowns > 0
  <2>1. /\ queue' = [queue EXCEPT ![m].shutdowns = @ - 1]
        /\ Becomes(m, w, "done") /\ running' = [running EXCEPT ![m] = FALSE]
    BY <1>2 DEF Drain, VoiceDrain
  <2>2. /\ queue'[m].shutdowns = queue[m].shutdowns - 1
        /\ queue[m] # Empty
        /\ QueuesOK(queue')
        /\ \A n \in Modules \ {m} : queue'[n] = queue[n]
    BY <1>2, <2>1 DEF QueuesOK, Empty
  <2> QED BY <1>2, <2>1, <2>2
<1>3. CASE m = "voice" /\ ~(queue[m].shutdowns > 0)
  <2>1. /\ queue' = [queue EXCEPT ![m].events = 0]
        /\ Becomes(m, w, "check") /\ running' = running
    BY <1>3 DEF Drain, VoiceDrain
  <2>2. /\ queue'[m].shutdowns = queue[m].shutdowns
        /\ queue[m] = Empty => queue'[m] = Empty
        /\ QueuesOK(queue')
        /\ \A n \in Modules \ {m} : queue'[n] = queue[n]
    BY <2>1 DEF QueuesOK, Empty
  <2> QED BY <2>1, <2>2
<1>4. CASE m \in Eager
  <2>1. /\ queue' = [queue EXCEPT ![m] = Empty]
        /\ Becomes(m, w, "check")
        /\ running' = [running EXCEPT ![m] = @ /\ queue[m].shutdowns = 0]
    BY <1>4 DEF Drain, EagerDrain, Eager
  <2>2. /\ queue'[m] = Empty
        /\ QueuesOK(queue')
        /\ \A n \in Modules \ {m} : queue'[n] = queue[n]
        /\ queue'[m].shutdowns = 0
        /\ queue[m].shutdowns \in Nat
    BY <2>1 DEF QueuesOK, Empty
  <2>3. CASE queue[m].shutdowns = 0
    <3>1. running' = running
      BY <2>1, <2>3
    <3> QED BY <2>1, <2>2, <2>3, <3>1
  <2>4. CASE queue[m].shutdowns > 0
    <3>1. (running[m] /\ queue[m].shutdowns = 0) = FALSE
      BY <2>4
    <3>2. running' = [running EXCEPT ![m] = FALSE]
      BY <2>1, <3>1, Zenon
    <3> QED BY <1>4, <2>1, <2>2, <2>4, <3>2
  <2> QED BY <2>2, <2>3, <2>4
<1> QED BY <1>1, <1>2, <1>3, <1>4 DEF Modules, Eager

\* The order of the modules is never changed.
LEMMA OrderStays ==
  ASSUME Next \/ UNCHANGED vars
  PROVE  tier' = tier /\ Order' = Order
<1>1. tier' = tier
  BY DEF Next, AppStep, WorkerStep, vars, InitCall, InitModule, InitFails,
         DestroyNext, Cleared, StartCall, StartModule, StartFails, StopCall,
         DestroyCall, StopModule, SkipStop, Joined, Crash, Post, Check, Wake,
         Drain
<1> QED BY <1>1 DEF Order

LEMMA BuiltFacts ==
  ASSUME tier \in Tiers, CallOK, Phase
  PROVE  Built \in 0..Len(Order)
  BY OrderFacts DEF CallOK, Calls, Phase, Built

\* The calls, and those steps of theirs that leave what is live alone.
LEMMA CallStep ==
  ASSUME tier \in Tiers, Order' = Order, CallOK, Phase,
         \/ InitCall \/ InitFails \/ StartCall \/ StartModule \/ StartFails
         \/ StopCall \/ DestroyCall \/ StopModule \/ SkipStop \/ Joined
  PROVE  CallOK' /\ Phase' /\ Built' = Built /\ live' = live
<1>0. Len(Order) \in 3..4
  BY OrderFacts
<1>x. /\ 1 \in 0..Len(Order) /\ 0 \in 0..Len(Order)
      /\ Len(Order) \in 0..Len(Order) /\ Len(Order) > 0
  BY <1>0
<1>y. Calls' = Calls
  BY DEF Calls
<1>1. CASE InitCall
  <2>y. app.call = "none" /\ app.at = 0 /\ ~ms.initialised
    BY <1>1 DEF InitCall, Idle
  <2>z. /\ ms \in [initialised : BOOLEAN, running : BOOLEAN] /\ starts \in Nat
        /\ app.call = "none" /\ app.at = 0 /\ ~ms.initialised /\ ~ms.running
        /\ (ms.running => ms.initialised) /\ starts \in 0..MaxStarts
    BY <1>0, <2>y DEF CallOK, Calls, Phase
  <2>a. app' = [call |-> "init", at |-> 1, joining |-> FALSE, last |-> FALSE]
    BY <1>0, <2>z, <1>1 DEF InitCall, Call, Idle
  <2>b. UNCHANGED <<ms, live, starts>>
    BY <2>z, <1>1 DEF InitCall, kernelVars, boundVars
  <2>w. app' \in Calls
    BY <1>x, <2>a DEF Calls
  <2>c. app' \in Calls'
    BY <1>y, <2>w
  <2>d. CallOK'
    BY <2>b, <2>c, <2>z, BoundsAssumption DEF CallOK
  <2>e. Phase'
    BY <1>0, <2>a, <2>b, <2>z DEF Phase, Idle
  <2>f. Built' = Built
    BY <1>0, <2>a, <2>b, <2>z DEF Built
  <2> QED BY <2>b, <2>d, <2>e, <2>f
<1>2. CASE InitFails
  <2>y. app.call = "init"
    BY <1>2 DEF InitFails, Idle
  <2>z. /\ ms \in [initialised : BOOLEAN, running : BOOLEAN] /\ starts \in Nat
        /\ app \in Calls /\ app.at \in 1..Len(Order) /\ app.call = "init"
        /\ ~ms.initialised /\ ~ms.running /\ (ms.running => ms.initialised)
        /\ starts \in 0..MaxStarts
    BY <1>0, <2>y DEF CallOK, Calls, Phase
  <2>a. app' = [call |-> "undo", at |-> app.at - 1, joining |-> FALSE,
                last |-> FALSE]
    BY <1>0, <2>z, <1>2 DEF InitFails, Call, Idle
  <2>b. UNCHANGED <<ms, live, starts>>
    BY <2>z, <1>2 DEF InitFails, kernelVars, boundVars
  <2>w. app' \in Calls
    BY <1>x, <2>a, <2>z DEF Calls
  <2>c. app' \in Calls'
    BY <1>y, <2>w
  <2>d. CallOK'
    BY <2>b, <2>c, <2>z, BoundsAssumption DEF CallOK
  <2>e. Phase'
    BY <1>0, <2>a, <2>b, <2>z DEF Phase, Idle
  <2>f. Built' = Built
    BY <1>0, <2>a, <2>b, <2>z DEF Built
  <2> QED BY <2>b, <2>d, <2>e, <2>f
<1>3. CASE StartCall
  <2>y. app.call = "none" /\ app.at = 0 /\ ms.initialised /\ ~ms.running
    BY <1>3 DEF StartCall, Idle
  <2>z. /\ ms \in [initialised : BOOLEAN, running : BOOLEAN] /\ starts \in Nat
        /\ app.call = "none" /\ app.at = 0 /\ ms.initialised /\ ~ms.running
        /\ (ms.running => ms.initialised) /\ starts \in 0..MaxStarts
    BY <1>0, <2>y DEF CallOK, Calls, Phase
  <2>a. app' = [call |-> "start", at |-> 1, joining |-> FALSE, last |-> FALSE]
    BY <1>0, <2>z, <1>3 DEF StartCall, Call, Idle
  <2>b. UNCHANGED <<ms, live>> /\ starts < MaxStarts /\ starts' = starts + 1
    BY <2>z, <1>3 DEF StartCall, kernelVars, boundVars
  <2>w. app' \in Calls
    BY <1>x, <2>a DEF Calls
  <2>c. app' \in Calls'
    BY <1>y, <2>w
  <2>d. CallOK'
    BY <2>b, <2>c, <2>z, BoundsAssumption DEF CallOK
  <2>e. Phase'
    BY <1>0, <2>a, <2>b, <2>z DEF Phase, Idle
  <2>f. Built' = Built
    BY <1>0, <2>a, <2>b, <2>z DEF Built
  <2> QED BY <2>b, <2>d, <2>e, <2>f
<1>4. CASE StartModule
  <2>1. CASE app.at < Len(Order)
    <3>y. app.call = "start"
      BY <1>4, <2>1 DEF StartModule, Idle
    <3>z. /\ ms \in [initialised : BOOLEAN, running : BOOLEAN]
          /\ starts \in Nat /\ app \in Calls /\ app.at \in 1..Len(Order)
          /\ app.call = "start" /\ ms.initialised /\ ~ms.running
          /\ starts >= 1 /\ ~app.joining /\ (ms.running => ms.initialised)
          /\ starts \in 0..MaxStarts
      BY <1>0, <3>y DEF CallOK, Calls, Phase
    <3>a. app' = [app EXCEPT !.at = @ + 1]
      BY <1>0, <3>z, <1>4, <2>1 DEF StartModule, Call, Idle
    <3>b. UNCHANGED <<ms, live, starts>>
      BY <3>z, <1>4, <2>1 DEF StartModule, kernelVars, boundVars
    <3>w. app' \in Calls
      BY <1>0, <1>x, <2>1, <3>a, <3>z DEF Calls
    <3>c. app' \in Calls'
      BY <1>y, <3>w
    <3>d. CallOK'
      BY <3>b, <3>c, <3>z, BoundsAssumption DEF CallOK
    <3>e. Phase'
      BY <1>0, <3>a, <3>b, <3>z, <2>1 DEF Phase, Idle
    <3>f. Built' = Built
      BY <1>0, <3>a, <3>b, <3>z, <2>1 DEF Built
    <3> QED BY <3>b, <3>d, <3>e, <3>f
  <2>2. CASE ~(app.at < Len(Order))
    <3>y. app.call = "start"
      BY <1>4, <2>2 DEF StartModule, Idle
    <3>z. /\ ms \in [initialised : BOOLEAN, running : BOOLEAN]
          /\ starts \in Nat /\ app \in Calls /\ app.at \in 1..Len(Order)
          /\ app.call = "start" /\ ms.initialised /\ ~ms.running
          /\ starts >= 1 /\ ~app.joining /\ (ms.running => ms.initialised)
          /\ starts \in 0..MaxStarts
      BY <1>0, <3>y DEF CallOK, Calls, Phase
    <3>a. app' = [call |-> "none", at |-> 0, joining |-> FALSE,
                  last |-> FALSE]
      BY <1>0, <3>z, <1>4, <2>2 DEF StartModule, Call, Idle
    <3>b. ms' = [ms EXCEPT !.running = TRUE] /\ UNCHANGED <<live, starts>>
      BY <3>z, <1>4, <2>2 DEF StartModule, kernelVars, boundVars
    <3>w. app' \in Calls
      BY <1>x, <3>a DEF Calls
    <3>c. app' \in Calls'
      BY <1>y, <3>w
    <3>d. CallOK'
      BY <3>b, <3>c, <3>z, BoundsAssumption DEF CallOK
    <3>e. Phase'
      BY <1>0, <3>a, <3>b, <3>z, <2>2 DEF Phase, Idle
    <3>f. Built' = Built
      BY <1>0, <3>a, <3>b, <3>z, <2>2 DEF Built
    <3> QED BY <3>b, <3>d, <3>e, <3>f
  <2> QED BY <2>1, <2>2
<1>5. CASE StartFails
  <2>1. CASE app.at > 1
    <3>y. app.call = "start"
      BY <1>5, <2>1 DEF StartFails, Idle
    <3>z. /\ ms \in [initialised : BOOLEAN, running : BOOLEAN]
          /\ starts \in Nat /\ app \in Calls /\ app.at \in 1..Len(Order)
          /\ app.call = "start" /\ ms.initialised /\ ~ms.running
          /\ starts >= 1 /\ ~app.joining /\ (ms.running => ms.initialised)
          /\ starts \in 0..MaxStarts
      BY <1>0, <3>y DEF CallOK, Calls, Phase
    <3>x. app' = StopFrom(app.at - 1, FALSE)
      BY <1>5, <2>1 DEF StartFails
    <3>a. app' = [call |-> "stop", at |-> app.at - 1, joining |-> FALSE,
                  last |-> FALSE]
      BY <1>0, <1>x, <3>x, <3>z, <2>1 DEF StopFrom, Call, Idle
    <3>b. UNCHANGED <<ms, live, starts>>
      BY <3>z, <1>5, <2>1 DEF StartFails, kernelVars, boundVars
    <3>w. app' \in Calls
      BY <1>x, <3>a, <3>z DEF Calls
    <3>c. app' \in Calls'
      BY <1>y, <3>w
    <3>d. CallOK'
      BY <3>b, <3>c, <3>z, BoundsAssumption DEF CallOK
    <3>e. Phase'
      BY <1>0, <3>a, <3>b, <3>z, <2>1 DEF Phase, Idle
    <3>f. Built' = Built
      BY <1>0, <3>a, <3>b, <3>z, <2>1 DEF Built
    <3> QED BY <3>b, <3>d, <3>e, <3>f
  <2>2. CASE ~(app.at > 1)
    <3>y. app.call = "start"
      BY <1>5, <2>2 DEF StartFails, Idle
    <3>z. /\ ms \in [initialised : BOOLEAN, running : BOOLEAN]
          /\ starts \in Nat /\ app \in Calls /\ app.at \in 1..Len(Order)
          /\ app.call = "start" /\ ms.initialised /\ ~ms.running
          /\ starts >= 1 /\ ~app.joining /\ (ms.running => ms.initialised)
          /\ starts \in 0..MaxStarts
      BY <1>0, <3>y DEF CallOK, Calls, Phase
    <3>x. app' = StopFrom(app.at - 1, FALSE)
      BY <1>5, <2>2 DEF StartFails
    <3>a. app' = [call |-> "none", at |-> 0, joining |-> FALSE,
                  last |-> FALSE]
      BY <1>0, <1>x, <3>x, <3>z, <2>2 DEF StopFrom, Call, Idle
    <3>b. UNCHANGED <<ms, live, starts>>
      BY <3>z, <1>5, <2>2 DEF StartFails, kernelVars, boundVars
    <3>w. app' \in Calls
      BY <1>x, <3>a DEF Calls
    <3>c. app' \in Calls'
      BY <1>y, <3>w
    <3>d. CallOK'
      BY <3>b, <3>c, <3>z, BoundsAssumption DEF CallOK
    <3>e. Phase'
      BY <1>0, <3>a, <3>b, <3>z, <2>2 DEF Phase, Idle
    <3>f. Built' = Built
      BY <1>0, <3>a, <3>b, <3>z, <2>2 DEF Built
    <3> QED BY <3>b, <3>d, <3>e, <3>f
  <2> QED BY <2>1, <2>2
<1>6. CASE StopCall
  <2>y. app.call = "none" /\ app.at = 0 /\ ms.initialised /\ ms.running
    BY <1>6 DEF StopCall, Idle
  <2>z. /\ ms \in [initialised : BOOLEAN, running : BOOLEAN] /\ starts \in Nat
        /\ app.call = "none" /\ app.at = 0 /\ ms.initialised /\ ms.running
        /\ starts >= 1 /\ (ms.running => ms.initialised)
        /\ starts \in 0..MaxStarts
    BY <1>0, <2>y DEF CallOK, Calls, Phase
  <2>x. app' = StopFrom(Len(Order), FALSE)
    BY <1>6 DEF StopCall
  <2>a. app' = [call |-> "stop", at |-> Len(Order), joining |-> FALSE,
                last |-> FALSE]
    BY <1>0, <1>x, <2>x DEF StopFrom, Call, Idle
  <2>b. UNCHANGED <<ms, live, starts>>
    BY <2>z, <1>0, <1>6 DEF StopCall, kernelVars, boundVars
  <2>w. app' \in Calls
    BY <1>x, <2>a DEF Calls
  <2>c. app' \in Calls'
    BY <1>y, <2>w
  <2>d. CallOK'
    BY <2>b, <2>c, <2>z, BoundsAssumption DEF CallOK
  <2>e. Phase'
    BY <1>0, <2>a, <2>b, <2>z DEF Phase, Idle
  <2>f. Built' = Built
    BY <1>0, <2>a, <2>b, <2>z DEF Built
  <2> QED BY <2>b, <2>d, <2>e, <2>f
<1>7. CASE DestroyCall
  <2>1. CASE ms.running
    <3>y. app.call = "none" /\ app.at = 0 /\ ms.initialised
      BY <1>7, <2>1 DEF DestroyCall, Idle
    <3>z. /\ ms \in [initialised : BOOLEAN, running : BOOLEAN]
          /\ starts \in Nat /\ app.call = "none" /\ app.at = 0
          /\ ms.initialised /\ (ms.running => starts >= 1)
          /\ (ms.running => ms.initialised) /\ starts \in 0..MaxStarts
      BY <1>0, <3>y DEF CallOK, Calls, Phase
    <3>x. app' = StopFrom(Len(Order), TRUE)
      BY <1>7, <2>1 DEF DestroyCall
    <3>a. app' = [call |-> "stop", at |-> Len(Order), joining |-> FALSE,
                  last |-> TRUE]
      BY <1>0, <1>x, <3>x, <2>1 DEF StopFrom, Call, Idle
    <3>b. UNCHANGED <<ms, live, starts>>
      BY <3>z, <1>0, <1>7, <2>1 DEF DestroyCall, kernelVars, boundVars
    <3>w. app' \in Calls
      BY <1>x, <3>a DEF Calls
    <3>c. app' \in Calls'
      BY <1>y, <3>w
    <3>d. CallOK'
      BY <3>b, <3>c, <3>z, BoundsAssumption DEF CallOK
    <3>e. Phase'
      BY <1>0, <3>a, <3>b, <3>z, <2>1 DEF Phase, Idle
    <3>f. Built' = Built
      BY <1>0, <3>a, <3>b, <3>z, <2>1 DEF Built
    <3> QED BY <3>b, <3>d, <3>e, <3>f
  <2>2. CASE ~ms.running
    <3>y. app.call = "none" /\ app.at = 0 /\ ms.initialised
      BY <1>7, <2>2 DEF DestroyCall, Idle
    <3>z. /\ ms \in [initialised : BOOLEAN, running : BOOLEAN]
          /\ starts \in Nat /\ app.call = "none" /\ app.at = 0
          /\ ms.initialised /\ (ms.running => starts >= 1)
          /\ (ms.running => ms.initialised) /\ starts \in 0..MaxStarts
      BY <1>0, <3>y DEF CallOK, Calls, Phase
    <3>a. app' = [call |-> "destroy", at |-> Len(Order), joining |-> FALSE,
                  last |-> TRUE]
      BY <1>0, <3>z, <1>7, <2>2 DEF DestroyCall, Call, Idle
    <3>b. UNCHANGED <<ms, live, starts>>
      BY <3>z, <1>7, <2>2 DEF DestroyCall, kernelVars, boundVars
    <3>w. app' \in Calls
      BY <1>x, <3>a DEF Calls
    <3>c. app' \in Calls'
      BY <1>y, <3>w
    <3>d. CallOK'
      BY <3>b, <3>c, <3>z, BoundsAssumption DEF CallOK
    <3>e. Phase'
      BY <1>0, <3>a, <3>b, <3>z, <2>2 DEF Phase, Idle
    <3>f. Built' = Built
      BY <1>0, <3>a, <3>b, <3>z, <2>2 DEF Built
    <3> QED BY <3>b, <3>d, <3>e, <3>f
  <2> QED BY <2>1, <2>2
<1>8. CASE StopModule
  <2>y. app.call = "stop"
    BY <1>8 DEF StopModule, Idle
  <2>z. /\ ms \in [initialised : BOOLEAN, running : BOOLEAN] /\ starts \in Nat
        /\ app \in Calls /\ app.at \in 1..Len(Order) /\ app.call = "stop"
        /\ ms.initialised /\ starts >= 1 /\ (ms.running => ms.initialised)
        /\ starts \in 0..MaxStarts
    BY <1>0, <2>y DEF CallOK, Calls, Phase
  <2>a. app' = [app EXCEPT !.joining = TRUE]
    BY <1>0, <2>z, <1>8 DEF StopModule, Call, Idle
  <2>b. UNCHANGED <<ms, live, starts>>
    BY <2>z, <1>8 DEF StopModule, kernelVars, boundVars
  <2>w. app' \in Calls
    BY <1>x, <2>a, <2>z DEF Calls
  <2>c. app' \in Calls'
    BY <1>y, <2>w
  <2>d. CallOK'
    BY <2>b, <2>c, <2>z, BoundsAssumption DEF CallOK
  <2>e. Phase'
    BY <1>0, <2>a, <2>b, <2>z DEF Phase, Idle
  <2>f. Built' = Built
    BY <1>0, <2>a, <2>b, <2>z DEF Built
  <2> QED BY <2>b, <2>d, <2>e, <2>f
<1>9. CASE SkipStop \/ Joined
  <2>1. CASE app.at > 1
    <3>y. app.call = "stop"
      BY <1>9, <2>1 DEF SkipStop, Joined, Idle
    <3>z. /\ ms \in [initialised : BOOLEAN, running : BOOLEAN]
          /\ starts \in Nat /\ app \in Calls /\ app.at \in 1..Len(Order)
          /\ app.call = "stop" /\ ms.initialised /\ starts >= 1
          /\ (ms.running => ms.initialised) /\ starts \in 0..MaxStarts
      BY <1>0, <3>y DEF CallOK, Calls, Phase
    <3>x. app' = StopFrom(app.at - 1, app.last)
      BY <1>9, <2>1 DEF SkipStop, Joined, Onward
    <3>a. app' = [call |-> "stop", at |-> app.at - 1, joining |-> FALSE,
                  last |-> app.last]
      BY <1>0, <1>x, <3>x, <3>z, <2>1 DEF StopFrom, Call, Idle
    <3>b. UNCHANGED <<ms, live, starts>>
      BY <3>z, <1>9, <2>1 DEF SkipStop, Joined, Onward, kernelVars, boundVars
    <3>w. app' \in Calls
      BY <1>x, <3>a, <3>z DEF Calls
    <3>c. app' \in Calls'
      BY <1>y, <3>w
    <3>d. CallOK'
      BY <3>b, <3>c, <3>z, BoundsAssumption DEF CallOK
    <3>e. Phase'
      BY <1>0, <3>a, <3>b, <3>z, <2>1 DEF Phase, Idle
    <3>f. Built' = Built
      BY <1>0, <3>a, <3>b, <3>z, <2>1 DEF Built
    <3> QED BY <3>b, <3>d, <3>e, <3>f
  <2>2. CASE app.at = 1 /\ app.last
    <3>y. app.call = "stop"
      BY <1>9, <2>2 DEF SkipStop, Joined, Idle
    <3>z. /\ ms \in [initialised : BOOLEAN, running : BOOLEAN]
          /\ starts \in Nat /\ app \in Calls /\ app.at \in 1..Len(Order)
          /\ app.call = "stop" /\ ms.initialised /\ starts >= 1
          /\ (ms.running => ms.initialised) /\ starts \in 0..MaxStarts
      BY <1>0, <3>y DEF CallOK, Calls, Phase
    <3>x. app' = StopFrom(app.at - 1, app.last)
      BY <1>9, <2>2 DEF SkipStop, Joined, Onward
    <3>a. app' = [call |-> "destroy", at |-> Len(Order), joining |-> FALSE,
                  last |-> TRUE]
      BY <1>0, <1>x, <3>x, <3>z, <2>2 DEF StopFrom, Call, Idle
    <3>b. ms' = [ms EXCEPT !.running = FALSE] /\ UNCHANGED <<live, starts>>
      BY <3>z, <1>9, <2>2 DEF SkipStop, Joined, Onward, kernelVars, boundVars
    <3>w. app' \in Calls
      BY <1>x, <3>a DEF Calls
    <3>c. app' \in Calls'
      BY <1>y, <3>w
    <3>d. CallOK'
      BY <3>b, <3>c, <3>z, BoundsAssumption DEF CallOK
    <3>e. Phase'
      BY <1>0, <3>a, <3>b, <3>z, <2>2 DEF Phase, Idle
    <3>f. Built' = Built
      BY <1>0, <3>a, <3>b, <3>z, <2>2 DEF Built
    <3> QED BY <3>b, <3>d, <3>e, <3>f
  <2>3. CASE app.at = 1 /\ ~app.last
    <3>y. app.call = "stop"
      BY <1>9, <2>3 DEF SkipStop, Joined, Idle
    <3>z. /\ ms \in [initialised : BOOLEAN, running : BOOLEAN]
          /\ starts \in Nat /\ app \in Calls /\ app.at \in 1..Len(Order)
          /\ app.call = "stop" /\ ms.initialised /\ starts >= 1
          /\ (ms.running => ms.initialised) /\ starts \in 0..MaxStarts
      BY <1>0, <3>y DEF CallOK, Calls, Phase
    <3>x. app' = StopFrom(app.at - 1, app.last)
      BY <1>9, <2>3 DEF SkipStop, Joined, Onward
    <3>a. app' = [call |-> "none", at |-> 0, joining |-> FALSE,
                  last |-> FALSE]
      BY <1>0, <1>x, <3>x, <3>z, <2>3 DEF StopFrom, Call, Idle
    <3>b. ms' = [ms EXCEPT !.running = FALSE] /\ UNCHANGED <<live, starts>>
      BY <3>z, <1>9, <2>3 DEF SkipStop, Joined, Onward, kernelVars, boundVars
    <3>w. app' \in Calls
      BY <1>x, <3>a DEF Calls
    <3>c. app' \in Calls'
      BY <1>y, <3>w
    <3>d. CallOK'
      BY <3>b, <3>c, <3>z, BoundsAssumption DEF CallOK
    <3>e. Phase'
      BY <1>0, <3>a, <3>b, <3>z, <2>3 DEF Phase, Idle
    <3>f. Built' = Built
      BY <1>0, <3>a, <3>b, <3>z, <2>3 DEF Built
    <3> QED BY <3>b, <3>d, <3>e, <3>f
  <2>4. app.at \in Nat \ {0}
    BY <1>9 DEF CallOK, Calls, Phase, SkipStop, Joined
  <2> QED BY <2>1, <2>2, <2>3, <2>4
<1> QED BY <1>1, <1>2, <1>3, <1>4, <1>5, <1>6, <1>7, <1>8, <1>9

\* The steps that make and unmake modules.
LEMMA BuildStep ==
  ASSUME tier \in Tiers, Order' = Order, CallOK, Phase, LiveIs,
         \/ InitModule \/ DestroyNext \/ Cleared \/ Crash
  PROVE  CallOK' /\ Phase' /\ LiveIs'
<1>0. /\ Len(Order) \in 3..4
      /\ \A i, j \in 1..Len(Order) : Order[i] = Order[j] => i = j
  BY OrderFacts
<1>1. CASE InitModule
  <2>0. /\ app.at \in 1..Len(Order) /\ Built = app.at - 1
        /\ UNCHANGED starts
    BY <1>0, <1>1 DEF InitModule, CallOK, Calls, Phase, Built, boundVars
  <2>1. CallOK' /\ Phase' /\ Built' = app.at
    <3>1. CASE app.at < Len(Order)
      <4>a. app' = [app EXCEPT !.at = @ + 1] /\ ms' = ms
        BY <1>1, <3>1 DEF InitModule
      <4>b. app' \in Calls'
        BY <1>0, <2>0, <3>1, <4>a DEF Calls, CallOK
      <4>c. CallOK'
        BY <2>0, <4>a, <4>b DEF CallOK
      <4>d. Phase' /\ Built' = app.at
        BY <1>0, <1>1, <2>0, <4>a DEF InitModule, CallOK, Calls, Phase, Built
      <4> QED BY <4>c, <4>d
    <3>2. CASE ~(app.at < Len(Order))
      <4>a. /\ app' = Idle
            /\ ms' = [ms EXCEPT !.initialised = TRUE] /\ ~ms.initialised
        BY <1>1, <3>2 DEF InitModule, Phase
      <4>b. app' \in Calls'
        BY <1>0, <4>a DEF Calls, Idle
      <4>c. CallOK'
        BY <2>0, <4>a, <4>b DEF CallOK
      <4>d. Phase' /\ Built' = app.at
        BY <1>0, <2>0, <3>2, <4>a DEF CallOK, Calls, Phase, Built, Idle
      <4> QED BY <4>c, <4>d
    <3> QED BY <3>1, <3>2
  <2>2. live' = live \cup {Order[app.at]}
    BY <1>1 DEF InitModule
  <2>4. live' = {Order[i] : i \in 1..app.at}
    BY <2>0, <2>2 DEF LiveIs
  <2> QED BY <2>1, <2>4 DEF LiveIs
<1>2. CASE DestroyNext
  <2>0. app' = [app EXCEPT !.at = @ - 1] /\ UNCHANGED <<ms, starts>>
    BY <1>2 DEF DestroyNext, boundVars
  <2>3. app.at \in 1..Len(Order)
    BY <1>0, <1>2 DEF DestroyNext, CallOK, Calls
  <2>a. app' \in Calls'
    BY <1>0, <2>0, <2>3 DEF Calls, CallOK
  <2>b. CallOK'
    BY <2>0, <2>a DEF CallOK
  <2>c. app.call \in {"undo", "destroy"}
    BY <1>2 DEF DestroyNext
  <2>d. Phase'
    BY <2>0, <2>c DEF Phase, CallOK, Calls
  <2>e. Built = app.at /\ Built' = app.at - 1
    BY <2>0, <2>c DEF Built, CallOK, Calls
  <2>1. CallOK' /\ Phase' /\ Built = app.at /\ Built' = app.at - 1
    BY <2>b, <2>d, <2>e
  <2>2. live' = live \ {Order[app.at]}
    BY <1>2 DEF DestroyNext, Destroy
  <2>4. live' = {Order[i] : i \in 1..(app.at - 1)}
    BY <1>0, <2>1, <2>2, <2>3 DEF LiveIs
  <2> QED BY <2>1, <2>4 DEF LiveIs
<1>3. CASE Cleared \/ Crash
  <2>1. /\ ms' = [initialised |-> FALSE, running |-> FALSE]
        /\ app' = Idle /\ live' = {} /\ starts' = starts
    BY <1>3 DEF Cleared, Forget, Crash, Zeroed, boundVars
  <2>2. CallOK' /\ Phase' /\ Built' = 0
    BY <1>0, <2>1 DEF Idle, CallOK, Calls, Phase, Built
  <2> QED BY <2>1, <2>2 DEF LiveIs
<1> QED BY <1>1, <1>2, <1>3
\* The steps that leave the modules and the call alone.
LEMMA OtherStep ==
  ASSUME (\E m \in Modules : Post(m) \/ \E w \in Workers : WorkerStep(m, w))
           \/ UNCHANGED vars
  PROVE  UNCHANGED <<ms, app, live, starts, held, leaked, doomed, failed,
                     crashed, inits, trouble>>
  BY DEF Post, WorkerStep, Check, Wake, Drain, boundVars, historyVars, vars,
         kernelVars

LEMMA NextCases ==
  ASSUME Next
  PROVE  \/ InitCall \/ InitFails \/ StartCall \/ StartModule \/ StartFails
         \/ StopCall \/ DestroyCall \/ StopModule \/ SkipStop \/ Joined
         \/ InitModule \/ DestroyNext \/ Cleared \/ Crash
         \/ \E m \in Modules : Post(m) \/ \E w \in Workers : WorkerStep(m, w)
  BY DEF Next, AppStep

LEMMA OrderAt ==
  ASSUME tier \in Tiers, CallOK, Phase, app.at >= 1
  PROVE  /\ Order[app.at] \in Modules
         /\ app.at \in 1..Len(Order)
  BY OrderFacts DEF CallOK, Calls

LEMMA StockStep ==
  ASSUME tier \in Tiers, CallOK, Phase, StockOK, ThreadsOK,
         Next \/ UNCHANGED vars
  PROVE  StockOK'
<1> USE DEF StockOK
<1>1. CASE InitCall
  BY <1>1 DEF InitCall, kernelVars
<1>2. CASE InitModule
  <2> DEFINE m == Order[app.at]
  <2>1. m \in Modules
    BY <1>2, OrderAt DEF InitModule, Phase
  <2>2. {InitOf[m].steps[i] : i \in DOMAIN InitOf[m].steps} \in SUBSET Resources
    BY <2>1, StepsClosed
  <2> HIDE DEF m
  <2>3. UNCHANGED <<queue, leaked, inits, trouble>>
    BY <1>2 DEF InitModule, boundVars
  <2>4. held' = [held EXCEPT ![m] =
            {InitOf[m].steps[i] : i \in DOMAIN InitOf[m].steps}]
    BY <1>2 DEF InitModule, m
  <2>5. held' \in [Modules -> SUBSET Resources]
    BY <2>1, <2>2, <2>4
  <2> QED BY <2>3, <2>5
<1>3. CASE InitFails
  <2> DEFINE m == Order[app.at]
             steps == InitOf[m].steps
  <2>1. m \in Modules
    BY <1>3, OrderAt DEF InitFails, Phase
  <2>2. \A k \in DOMAIN steps : \A done \in {k - 1, k} :
          {steps[i] : i \in 1..done} \in SUBSET Resources
    BY <2>1, StepsClosed
  <2>3. UNCHANGED <<held, inits>> /\ trouble' = trouble + 1
    BY <1>3 DEF InitFails, boundVars
  <2>4. PICK k \in DOMAIN steps :
          IF steps[k] \in InitOf[m].tidy
            THEN queue' = [queue EXCEPT ![m] = Empty] /\ UNCHANGED leaked
            ELSE /\ \E done \in {k - 1, k} :
                      leaked' = [leaked EXCEPT ![m] =
                        @ \cup {steps[i] : i \in 1..done}]
                 /\ UNCHANGED queue
    BY <1>3 DEF InitFails
  <2> HIDE DEF m, steps
  <2>5. CASE steps[k] \in InitOf[m].tidy
    BY <2>1, <2>3, <2>4, <2>5, QDepthAssumption DEF Empty
  <2>6. CASE ~(steps[k] \in InitOf[m].tidy)
    <3>1. PICK done \in {k - 1, k} :
            leaked' = [leaked EXCEPT ![m] = @ \cup {steps[i] : i \in 1..done}]
      BY <2>4, <2>6
    <3>2. {steps[i] : i \in 1..done} \in SUBSET Resources
      BY <2>2
    <3>3. leaked' \in [Modules -> SUBSET Resources]
      BY <2>1, <3>1, <3>2
    <3> QED BY <2>3, <2>4, <2>6, <3>3
  <2> QED BY <2>5, <2>6
<1>4. CASE DestroyNext
  <2> DEFINE m == Order[app.at]
  <2>1. m \in Modules
    BY <1>4, OrderFacts DEF DestroyNext, CallOK, Calls
  <2>2. /\ UNCHANGED <<inits, trouble>>
        /\ leaked' = [leaked EXCEPT ![m] = @ \cup (held[m] \ Closes[m])]
        /\ held' = [held EXCEPT ![m] = {}]
        /\ queue' = [queue EXCEPT ![m] = Empty]
    BY <1>4 DEF DestroyNext, Destroy, boundVars
  <2> HIDE DEF m
  <2>3. leaked' \in [Modules -> SUBSET Resources]
    BY <2>1, <2>2
  <2>4. held' \in [Modules -> SUBSET Resources]
    BY <2>1, <2>2
  <2>5. /\ queue' \in [Modules -> [events : 0..QDepth, shutdowns : 0..QDepth]]
        /\ \A n \in Modules : queue'[n].events + queue'[n].shutdowns <= QDepth
    BY <2>1, <2>2, QDepthAssumption DEF Empty
  <2> QED BY <2>2, <2>3, <2>4, <2>5
<1>5. CASE Cleared
  <2>1. /\ UNCHANGED <<queue, inits, trouble>>
        /\ leaked' = [m \in Modules |-> leaked[m] \cup held[m]]
        /\ held' = [m \in Modules |-> {}]
    BY <1>5 DEF Cleared, Forget, boundVars
  <2> QED BY <2>1
<1>6. CASE Crash
  <2>1. /\ UNCHANGED <<queue, inits>> /\ trouble' = trouble + 1
        /\ leaked' = [m \in Modules |-> {}]
        /\ held' = [m \in Modules |-> {}]
    BY <1>6 DEF Crash
  <2> QED BY <2>1
<1>7. CASE StopModule
  <2> DEFINE m == Order[app.at]
  <2>1. m \in Modules
    BY <1>7, OrderAt DEF StopModule, Phase
  <2>2. UNCHANGED <<held, leaked, inits, trouble>>
    BY <1>7 DEF StopModule, boundVars
  <2>3. queue' = queue \/ PostShutdown(m)
    BY <1>7 DEF StopModule, MacStop, VoiceStop, EagerStop
  <2> HIDE DEF m
  <2>4. CASE PostShutdown(m)
    BY <2>1, <2>2, <2>4, PostShutdownFacts DEF QueuesOK, ThreadsOK
  <2> QED BY <2>2, <2>3, <2>4
<1>8. CASE \E m \in Modules : Post(m)
  <2>1. PICK m \in Modules : Post(m)
    BY <1>8
  <2>2. /\ UNCHANGED <<held, leaked, inits, trouble>>
        /\ queue[m].events + queue[m].shutdowns < QDepth
        /\ queue' = [queue EXCEPT ![m].events = @ + 1]
    BY <2>1 DEF Post, boundVars, Fits
  <2>3. /\ queue' \in [Modules -> [events : 0..QDepth, shutdowns : 0..QDepth]]
        /\ \A n \in Modules : queue'[n].events + queue'[n].shutdowns <= QDepth
    BY <2>2, QDepthAssumption
  <2> QED BY <2>2, <2>3
<1>9. CASE \E m \in Modules, w \in Workers : WorkerStep(m, w)
  <2>1. PICK m \in Modules, w \in Workers : WorkerStep(m, w)
    BY <1>9
  <2>2. UNCHANGED <<held, leaked, inits, trouble>>
    BY <2>1, OtherStep
  <2>3. CASE Drain(m, w)
    BY <2>2, <2>3, DrainFacts DEF QueuesOK, ThreadsOK
  <2>4. CASE Check(m, w) \/ Wake(m, w)
    BY <2>2, <2>4 DEF Check, Wake, kernelVars
  <2> QED BY <2>1, <2>3, <2>4 DEF WorkerStep
<1>10. CASE StartCall
  BY <1>10 DEF StartCall, kernelVars
<1>11. CASE StopCall \/ DestroyCall \/ SkipStop \/ Joined
  BY <1>11 DEF StopCall, DestroyCall, SkipStop, Joined, kernelVars, boundVars
<1>12. CASE StartModule \/ StartFails
  <2>1. /\ UNCHANGED <<queue, held, leaked, inits>>
        /\ trouble' \in {trouble, trouble + 1}
    BY <1>12 DEF StartModule, StartFails, kernelVars
  <2> QED BY <2>1
<1>13. CASE UNCHANGED vars
  BY <1>13 DEF vars, kernelVars, boundVars
<1> QED BY <1>1, <1>2, <1>3, <1>4, <1>5, <1>6, <1>7, <1>8, <1>9, <1>10,
          <1>11, <1>12, <1>13, NextCases
LEMMA StartFacts ==
  ASSUME tier \in Tiers, CallOK, Phase, ThreadsOK, StartModule
  PROVE  LET m == Order[app.at] IN
           /\ m \in Modules /\ starts \in Workers
           /\ running' = [running EXCEPT ![m] = TRUE]
           /\ \/ /\ workers' = [workers EXCEPT ![m][starts] = "check"]
                 /\ doomed' = IF LeftOver(m) THEN doomed \cup {m} ELSE doomed
              \/ /\ workers' = [workers EXCEPT ![m][starts] = "done"]
                 /\ doomed' = doomed \cup {m}
           /\ UNCHANGED <<live, queue, held, leaked, starts, failed, crashed,
                          lost>>
<1>1. Order[app.at] \in Modules /\ starts \in Workers
  <2>1. starts \in 1..MaxStarts
    BY BoundsAssumption DEF StartModule, CallOK, Phase
  <2> QED BY <2>1, OrderAt DEF StartModule, Phase, Workers
<1> QED BY <1>1 DEF StartModule, kernelVars

LEMMA ThreadsStep ==
  ASSUME tier \in Tiers, CallOK, Phase, StockOK, ThreadsOK,
         Next \/ UNCHANGED vars
  PROVE  ThreadsOK'
<1> DEFINE States == {"none", "check", "wait", "drain", "done"}
<1>1. CASE StartModule
  <2> DEFINE m == Order[app.at]
  <2>1. /\ m \in Modules /\ starts \in Workers
        /\ running' = [running EXCEPT ![m] = TRUE]
        /\ \/ workers' = [workers EXCEPT ![m][starts] = "check"]
           \/ workers' = [workers EXCEPT ![m][starts] = "done"]
        /\ doomed' \in {doomed, doomed \cup {m}}
        /\ UNCHANGED <<crashed, lost>>
    BY <1>1, StartFacts
  <2> HIDE DEF m
  <2>2. running' \in [Modules -> BOOLEAN]
    BY <2>1 DEF ThreadsOK
  <2>a. \E state \in States : Becomes(m, starts, state)
    BY <2>1 DEF Becomes
  <2>3. workers' \in [Modules -> [Workers -> States]]
    BY <2>1, <2>a DEF Becomes, ThreadsOK
  <2>4. doomed' \subseteq Modules
    BY <2>1 DEF ThreadsOK
  <2> QED BY <2>1, <2>2, <2>3, <2>4 DEF ThreadsOK
<1>2. CASE StopModule
  <2> DEFINE m == Order[app.at]
  <2>1. m \in Modules
    BY <1>2, OrderAt DEF StopModule, Phase
  <2>2. UNCHANGED <<workers, doomed, crashed>>
    BY <1>2 DEF StopModule
  <2>3. running' \in {running, [running EXCEPT ![m] = FALSE]}
    BY <1>2 DEF StopModule, MacStop, VoiceStop, EagerStop
  <2>4. lost' \in {lost, TRUE}
    BY <1>2 DEF StopModule, MacStop, VoiceStop, EagerStop, PostShutdown
  <2> HIDE DEF m
  <2> QED BY <2>1, <2>2, <2>3, <2>4 DEF ThreadsOK
<1>3. CASE Joined \/ DestroyNext
  <2> DEFINE m == Order[app.at]
  <2>1. /\ running' = [running EXCEPT ![m] = FALSE]
        /\ UNCHANGED <<workers, doomed, crashed, lost>>
    BY <1>3 DEF Joined, DestroyNext, Destroy, historyVars
  <2> HIDE DEF m
  <2> QED BY <2>1 DEF ThreadsOK
<1>4. CASE Cleared \/ Crash
  <2>1. /\ running' = [m \in Modules |-> FALSE]
        /\ workers' \in
             {workers, [m \in Modules |-> [w \in Workers |-> "none"]]}
        /\ doomed' \in {doomed, {}}
        /\ crashed' \in {crashed, TRUE} /\ lost' \in {lost, FALSE}
    BY <1>4 DEF Cleared, Crash, Forget, historyVars
  <2>2. workers' \in [Modules -> [Workers -> States]]
    BY <2>1 DEF ThreadsOK
  <2> QED BY <2>1, <2>2 DEF ThreadsOK
<1>5. CASE \E m \in Modules, w \in Workers : WorkerStep(m, w)
  <2>1. PICK m \in Modules, w \in Workers : WorkerStep(m, w)
    BY <1>5
  <2>2. UNCHANGED <<doomed, crashed>>
    BY <2>1, OtherStep
  <2>3. running' \in [Modules -> BOOLEAN] /\ lost' \in BOOLEAN
    <3>1. CASE Drain(m, w)
      <4>1. running' \in [Modules -> BOOLEAN]
        BY <3>1, DrainFacts DEF QueuesOK, StockOK, ThreadsOK
      <4> QED BY <3>1, <4>1 DEF Drain, historyVars, ThreadsOK
    <3>2. CASE Check(m, w) \/ Wake(m, w)
      BY <3>2 DEF Check, Wake, historyVars, ThreadsOK
    <3> QED BY <2>1, <3>1, <3>2 DEF WorkerStep
  <2>4. \E state \in States : Becomes(m, w, state)
    <3>1. CASE Drain(m, w)
      BY <3>1 DEF Drain, MacDrain, VoiceDrain, EagerDrain
    <3>2. CASE Check(m, w) \/ Wake(m, w)
      BY <3>2 DEF Check, Wake
    <3> QED BY <2>1, <3>1, <3>2 DEF WorkerStep
  <2>5. workers' \in [Modules -> [Workers -> States]]
    BY <2>4 DEF Becomes, ThreadsOK
  <2> QED BY <2>2, <2>3, <2>5 DEF ThreadsOK
<1>6. CASE \/ InitCall \/ InitFails \/ StartCall \/ StartFails \/ StopCall
           \/ DestroyCall \/ SkipStop \/ InitModule \/ UNCHANGED vars
           \/ \E m \in Modules : Post(m)
  <2>1. UNCHANGED <<running, workers, doomed, crashed, lost>>
    BY <1>6 DEF InitCall, InitFails, StartCall, StartFails, StopCall,
                DestroyCall, SkipStop, InitModule, Post, vars, historyVars
  <2> QED BY <2>1 DEF ThreadsOK
<1> QED BY <1>1, <1>2, <1>3, <1>4, <1>5, <1>6, NextCases

LEMMA BaseStep ==
  ASSUME BaseInv, Next \/ UNCHANGED vars
  PROVE  BaseInv'
<1>1. tier \in Tiers /\ CallOK /\ StockOK /\ ThreadsOK /\ Phase /\ LiveIs
  <2>1. tier \in Tiers /\ Phase /\ LiveIs
    BY DEF BaseInv, TypeOK
  <2> QED BY <2>1, TypeParts DEF BaseInv
<1>2. tier' = tier /\ Order' = Order
  BY OrderStays
<1>3. StockOK' /\ ThreadsOK'
  BY <1>1, StockStep, ThreadsStep
<1>4. CallOK' /\ Phase' /\ LiveIs'
  <2>1. CASE \/ InitModule \/ DestroyNext \/ Cleared \/ Crash
    BY <1>1, <1>2, <2>1, BuildStep
  <2>2. CASE \/ InitCall \/ InitFails \/ StartCall \/ StartModule
             \/ StartFails \/ StopCall \/ DestroyCall \/ StopModule
             \/ SkipStop \/ Joined
    <3>1. CallOK' /\ Phase' /\ Built' = Built /\ live' = live
      BY <1>1, <1>2, <2>2, CallStep
    <3> QED BY <1>1, <1>2, <3>1 DEF LiveIs
  <2>3. CASE (\E m \in Modules : Post(m) \/ \E w \in Workers : WorkerStep(m, w))
               \/ UNCHANGED vars
    <3>1. UNCHANGED <<ms, app, live, starts>>
      BY <2>3, OtherStep
    <3> QED BY <1>1, <1>2, <3>1 DEF CallOK, Calls, Phase, LiveIs, Built
  <2> QED BY <2>1, <2>2, <2>3, NextCases
<1>5. tier' \in Tiers
  BY <1>1, <1>2
<1>6. TypeOK' <=> CallOK' /\ StockOK' /\ ThreadsOK'
  <2>1. CallOK' => live' \subseteq {Order'[i] : i \in DOMAIN Order'}
    <3>1. CallOK' => Built' \in 0..Len(Order')
      BY <1>1, <1>2, <1>4, OrderFacts DEF CallOK, Calls, Built, Phase
    <3>2. DOMAIN Order' = 1..Len(Order')
      BY <1>1, <1>2, OrderFacts
    <3> QED BY <1>4, <3>1, <3>2 DEF LiveIs
  <2> QED BY <1>5, <2>1 DEF TypeOK, CallOK, Calls, StockOK, ThreadsOK
<1> QED BY <1>3, <1>4, <1>6 DEF BaseInv

LEMMA BaseCorrect == Spec => []BaseInv
<1>1. BaseInv /\ [Next]_vars => BaseInv'
  BY BaseStep
<1> QED BY BaseInit, <1>1, PTL DEF Spec

\* Every variable keeps its type, and no queue exceeds its limit.
THEOREM TypeCorrect == Spec => []TypeOK
<1>1. BaseInv => TypeOK
  BY DEF BaseInv
<1> QED BY BaseCorrect, <1>1, PTL
----------------------------------------------------------------------------
(* What is held, leaked and left in the queues.                            *)

ResourceInv == HeldInv /\ QueueInv /\ OnlyFailedLeaks

LEMMA BaseFacts ==
  ASSUME BaseInv
  PROVE  /\ tier \in Tiers /\ CallOK /\ StockOK /\ ThreadsOK /\ Phase
         /\ LiveIs
<1>1. tier \in Tiers /\ Phase /\ LiveIs
  BY DEF BaseInv, TypeOK
<1> QED BY <1>1, TypeParts DEF BaseInv

LEMMA ResourceInit == Init => ResourceInv
  BY DEF Init, ResourceInv, HeldInv, QueueInv, OnlyFailedLeaks

LEMMA ResourceStep ==
  ASSUME BaseInv, ResourceInv, Next \/ UNCHANGED vars
  PROVE  ResourceInv'
<1>0. tier \in Tiers /\ CallOK /\ StockOK /\ ThreadsOK /\ Phase /\ LiveIs
  BY BaseFacts
<1> USE DEF ResourceInv, HeldInv, QueueInv, OnlyFailedLeaks
<1>1. CASE InitModule
  <2> DEFINE m == Order[app.at]
  <2>1. m \in Modules
    BY <1>0, <1>1, OrderAt DEF InitModule, Phase
  <2>2. {InitOf[m].steps[i] : i \in DOMAIN InitOf[m].steps} \subseteq Closes[m]
    BY <2>1, StepsClosed
  <2>3. /\ live' = live \cup {m}
        /\ held' = [held EXCEPT ![m] =
             {InitOf[m].steps[i] : i \in DOMAIN InitOf[m].steps}]
        /\ UNCHANGED <<queue, leaked, failed, crashed>>
    BY <1>1 DEF InitModule, historyVars
  <2> HIDE DEF m
  <2>4. HeldInv'
    BY <1>0, <2>1, <2>2, <2>3 DEF StockOK
  <2>5. QueueInv'
    BY <2>3
  <2>6. OnlyFailedLeaks'
    BY <2>3
  <2> QED BY <2>4, <2>5, <2>6
<1>2. CASE InitFails
  <2> DEFINE m == Order[app.at]
             steps == InitOf[m].steps
  <2>1. m \in Modules
    BY <1>0, <1>2, OrderAt DEF InitFails, Phase
  <2>2. UNCHANGED <<live, held, crashed>>
    BY <1>2 DEF InitFails
  <2>3. PICK k \in DOMAIN steps :
          /\ failed' = failed \cup {<<m, steps[k]>>}
          /\ IF steps[k] \in InitOf[m].tidy
               THEN queue' = [queue EXCEPT ![m] = Empty] /\ UNCHANGED leaked
               ELSE /\ \E done \in {k - 1, k} :
                         leaked' = [leaked EXCEPT ![m] =
                           @ \cup {steps[i] : i \in 1..done}]
                    /\ UNCHANGED queue
    BY <1>2 DEF InitFails
  <2> HIDE DEF m, steps
  <2>4. HeldInv'
    BY <2>2
  <2>5. QueueInv'
    BY <1>0, <2>1, <2>2, <2>3 DEF StockOK
  <2>6. OnlyFailedLeaks'
    <3>1. CASE steps[k] \in InitOf[m].tidy
      BY <2>3, <3>1
    <3>2. CASE ~(steps[k] \in InitOf[m].tidy)
      <4>1. \A n \in Modules \ {m} : leaked'[n] = leaked[n]
        BY <1>0, <2>3, <3>2 DEF StockOK
      <4>2. <<m, steps[k]>> \in failed' /\ failed \subseteq failed'
        BY <2>3
      <4>3. SUFFICES ASSUME NEW n \in Modules, leaked'[n] # {}
                     PROVE  \E f \in failed' :
                              f[1] = n /\ f[2] \notin InitOf[n].tidy
        OBVIOUS
      <4>4. CASE n = m
        BY <3>2, <4>2, <4>4
      <4>5. CASE n # m
        BY <4>1, <4>2, <4>3, <4>5
      <4> QED BY <4>4, <4>5
    <3> QED BY <3>1, <3>2
  <2> QED BY <2>4, <2>5, <2>6
<1>3. CASE DestroyNext
  <2> DEFINE m == Order[app.at]
  <2>1. m \in Modules
    BY <1>0, <1>3, OrderFacts DEF DestroyNext, CallOK, Calls
  <2>2. /\ live' = live \ {m}
        /\ leaked' = [leaked EXCEPT ![m] = @ \cup (held[m] \ Closes[m])]
        /\ held' = [held EXCEPT ![m] = {}]
        /\ queue' = [queue EXCEPT ![m] = Empty]
        /\ UNCHANGED <<failed, crashed>>
    BY <1>3 DEF DestroyNext, Destroy, historyVars
  <2> HIDE DEF m
  <2>3. leaked' = leaked
    <3>1. held[m] \ Closes[m] = {}
      BY <2>1
    <3> QED BY <1>0, <2>1, <2>2, <3>1 DEF StockOK
  <2>4. HeldInv' /\ QueueInv'
    BY <1>0, <2>1, <2>2 DEF StockOK
  <2> QED BY <2>2, <2>3, <2>4
<1>4. CASE Cleared
  <2>1. live = {}
    <3>1. Built = 0
      BY <1>4 DEF Cleared, Built
    <3> QED BY <1>0, <3>1 DEF LiveIs
  <2>2. \A m \in Modules : held[m] = {}
    BY <2>1
  <2>3. /\ live' = {} /\ held' = [m \in Modules |-> {}]
        /\ leaked' = [m \in Modules |-> leaked[m] \cup held[m]]
        /\ UNCHANGED <<queue, failed, crashed>>
    BY <1>4 DEF Cleared, Forget, historyVars
  <2> QED BY <2>1, <2>2, <2>3
<1>5. CASE Crash
  <2>1. /\ held' = [m \in Modules |-> {}] /\ leaked' = [m \in Modules |-> {}]
        /\ crashed' = TRUE
    BY <1>5 DEF Crash
  <2> QED BY <2>1
<1>6. CASE StopModule
  <2> DEFINE m == Order[app.at]
  <2>1. m \in Modules /\ m \in live
    <3>1. Built = Len(Order) /\ app.at \in 1..Len(Order)
      BY <1>0, <1>6, OrderAt DEF StopModule, Built, Phase
    <3> QED BY <1>0, <1>6, <3>1, OrderAt DEF StopModule, LiveIs, Phase
  <2>2. UNCHANGED <<live, held, leaked, failed, crashed>>
    BY <1>6 DEF StopModule
  <2>3. queue' = queue \/ PostShutdown(m)
    BY <1>6 DEF StopModule, MacStop, VoiceStop, EagerStop
  <2> HIDE DEF m
  <2>4. \A n \in Modules \ {m} : queue'[n] = queue[n]
    BY <1>0, <2>1, <2>3, PostShutdownFacts DEF QueuesOK, StockOK, ThreadsOK
  <2> QED BY <2>1, <2>2, <2>4
<1>7. CASE \E m \in Modules : Post(m)
  <2>1. PICK m \in Modules : Post(m)
    BY <1>7
  <2>2. /\ m \in live /\ queue' = [queue EXCEPT ![m].events = @ + 1]
        /\ UNCHANGED <<live, held, leaked, failed, crashed>>
    BY <2>1 DEF Post, historyVars
  <2>3. \A n \in Modules \ {m} : queue'[n] = queue[n]
    BY <1>0, <2>1, <2>2 DEF StockOK
  <2> QED BY <2>2, <2>3
<1>8. CASE \E m \in Modules, w \in Workers : WorkerStep(m, w)
  <2>1. PICK m \in Modules, w \in Workers : WorkerStep(m, w)
    BY <1>8
  <2>2. UNCHANGED <<live, held, leaked, failed, crashed>>
    BY <2>1, OtherStep
  <2>3. \A n \in Modules : queue[n] = Empty => queue'[n] = Empty
    <3>1. CASE Drain(m, w)
      BY <1>0, <3>1, DrainFacts DEF QueuesOK, StockOK, ThreadsOK
    <3>2. CASE Check(m, w) \/ Wake(m, w)
      BY <3>2 DEF Check, Wake, kernelVars
    <3> QED BY <2>1, <3>1, <3>2 DEF WorkerStep
  <2> QED BY <2>2, <2>3
<1>9. CASE \/ InitCall \/ StartCall \/ StartModule \/ StartFails \/ StopCall
           \/ DestroyCall \/ SkipStop \/ Joined \/ UNCHANGED vars
  <2>1. UNCHANGED <<live, queue, held, leaked, failed, crashed>>
    BY <1>9 DEF InitCall, StartCall, StartModule, StartFails, StopCall,
                DestroyCall, SkipStop, Joined, vars, kernelVars, historyVars
  <2> QED BY <2>1
<1> QED BY <1>1, <1>2, <1>3, <1>4, <1>5, <1>6, <1>7, <1>8, <1>9, NextCases

LEMMA ResourceCorrect == Spec => [](BaseInv /\ ResourceInv)
<1>1. Init => BaseInv /\ ResourceInv
  BY BaseInit, ResourceInit
<1>2. BaseInv /\ ResourceInv /\ [Next]_vars => (BaseInv /\ ResourceInv)'
  BY BaseStep, ResourceStep
<1> QED BY <1>1, <1>2, PTL DEF Spec

\* Whatever fails, only the failed initialisation of a module leaves
\* something open: the undoing in dmr_ms_init() and dmr_ms_destroy() is
\* complete for every other module.
THEOREM LeaksAreOfFailedInits == Spec => []OnlyFailedLeaks
<1>1. BaseInv /\ ResourceInv => OnlyFailedLeaks
  BY DEF ResourceInv
<1> QED BY ResourceCorrect, <1>1, PTL

\* No module is initialised with the messages of an earlier life in its
\* queues, unless the process died.
THEOREM InitsFindCleanQueues == Spec => CleanSlate
<1>1. BaseInv /\ ResourceInv /\ [Next]_vars =>
        \A m \in live' \ live : queue'[m] = Empty \/ crashed
  <2> SUFFICES ASSUME BaseInv, ResourceInv, [Next]_vars, NEW m \in live' \ live
               PROVE  queue'[m] = Empty \/ crashed
    OBVIOUS
  <2>1. tier \in Tiers /\ CallOK /\ StockOK /\ ThreadsOK /\ Phase /\ LiveIs
    BY BaseFacts
  <2>2. InitModule
    <3>1. CASE \/ InitCall \/ InitFails \/ StartCall \/ StartModule
               \/ StartFails \/ StopCall \/ DestroyCall \/ StopModule
               \/ SkipStop \/ Joined
      <4>1. live' = live
        BY <2>1, <3>1, CallStep, OrderStays
      <4> QED BY <4>1
    <3>2. CASE \/ UNCHANGED vars
               \/ \E n \in Modules :
                    Post(n) \/ \E w \in Workers : WorkerStep(n, w)
      BY <3>2, OtherStep
    <3>3. CASE DestroyNext \/ Cleared \/ Crash
      BY <3>3 DEF DestroyNext, Destroy, Cleared, Forget, Crash
    <3> QED BY <3>1, <3>2, <3>3, NextCases
  <2>3. queue' = queue /\ m = Order[app.at]
    BY <2>2 DEF InitModule
  <2>4. m \in Modules \ live
    BY <2>1, <2>2, <2>3, OrderAt DEF InitModule, Phase
  <2> QED BY <2>3, <2>4 DEF ResourceInv, QueueInv
<1>2. Spec => [][\A m \in live' \ live : queue'[m] = Empty \/ crashed]_vars
  BY ResourceCorrect, <1>1, PTL DEF Spec
<1> QED BY <1>2 DEF CleanSlate
----------------------------------------------------------------------------
(* The workers.                                                            *)

LEMMA StopModuleFacts ==
  ASSUME tier \in Tiers, CallOK, Phase, StockOK, ThreadsOK, StopModule
  PROVE  LET m == Order[app.at] IN
           /\ m \in Modules /\ app' = [app EXCEPT !.joining = TRUE]
           /\ app.call = "stop" /\ ~app.joining /\ running[m]
           /\ UNCHANGED <<ms, starts, workers, doomed, crashed>>
           /\ \A n \in Modules \ {m} :
                queue'[n] = queue[n] /\ running'[n] = running[n]
           /\ m # "voice" => ~running'[m]
           /\ m = "mac" => queue' = queue
           /\ m = "voice" => running'[m]
           /\ m = "voice" =>
                queue'[m].shutdowns \in
                  {queue[m].shutdowns, queue[m].shutdowns + 1}
           /\ m = "voice" /\ ~lost' => queue'[m].shutdowns > 0
<1> DEFINE m == Order[app.at]
<1>1. /\ m \in Modules /\ app' = [app EXCEPT !.joining = TRUE]
      /\ app.call = "stop" /\ ~app.joining /\ running[m]
      /\ UNCHANGED <<ms, starts, workers, doomed, crashed>>
  BY OrderAt DEF StopModule, Phase, boundVars
<1>2. CASE m = "mac"
  <2>1. running' = [running EXCEPT !["mac"] = FALSE] /\ queue' = queue
    BY <1>2 DEF StopModule, MacStop
  <2> QED BY <1>1, <1>2, <2>1 DEF ThreadsOK
<1>3. CASE m = "voice"
  <2>1. running' = running /\ PostShutdown(m)
    BY <1>3 DEF StopModule, VoiceStop
  <2> HIDE DEF m
  <2>2. /\ \A n \in Modules \ {m} : queue'[n] = queue[n]
        /\ queue[m].shutdowns \in Nat
        /\ \/ ~lost' /\ queue'[m].shutdowns = queue[m].shutdowns + 1
           \/ lost' /\ queue' = queue
           \/ lost' /\ queue'[m].shutdowns = queue[m].shutdowns + 1
    BY <1>1, <2>1, PostShutdownFacts DEF QueuesOK, StockOK, ThreadsOK
  <2> QED BY <1>1, <1>3, <2>1, <2>2 DEF m
<1>4. CASE m \notin {"mac", "voice"}
  <2>1. running' = [running EXCEPT ![m] = FALSE] /\ PostShutdown(m)
    BY <1>4 DEF StopModule, EagerStop
  <2> HIDE DEF m
  <2>2. \A n \in Modules \ {m} : queue'[n] = queue[n]
    BY <1>1, <2>1, PostShutdownFacts DEF QueuesOK, StockOK, ThreadsOK
  <2> QED BY <1>1, <1>4, <2>1, <2>2 DEF m, ThreadsOK
<1> QED BY <1>2, <1>3, <1>4

\* What a worker's step does to the workers.
LEMMA BecomesFacts ==
  ASSUME ThreadsOK, NEW m \in Modules, NEW w \in Workers, WorkerStep(m, w)
  PROVE  /\ \A n \in Modules \ {m} : workers'[n] = workers[n]
         /\ w \in AliveOf(m)
         /\ \A v \in Workers \ {w} : workers'[m][v] = workers[m][v]
         /\ AliveOf(m)' =
              IF workers'[m][w] = "done" THEN AliveOf(m) \ {w} ELSE AliveOf(m)
<1>1. workers[m][w] \notin {"none", "done"}
  BY DEF WorkerStep, Check, Wake, Drain
<1>2. \E state \in {"check", "wait", "drain", "done"} : Becomes(m, w, state)
  BY DEF WorkerStep, Check, Wake, Drain, MacDrain, VoiceDrain, EagerDrain
<1>3. PICK state \in {"check", "wait", "drain", "done"} : Becomes(m, w, state)
  BY <1>2
<1>4. /\ \A n \in Modules \ {m} : workers'[n] = workers[n]
      /\ \A v \in Workers \ {w} : workers'[m][v] = workers[m][v]
      /\ workers'[m][w] = state
  BY <1>3 DEF Becomes, ThreadsOK
<1> QED BY <1>1, <1>4 DEF AliveOf, Alive

\* A worker's step as its module sees it.
LEMMA WorkerFacts ==
  ASSUME StockOK, ThreadsOK, NEW m \in Modules, NEW w \in Workers,
         WorkerStep(m, w)
  PROVE  /\ \A n \in Modules \ {m} :
              queue'[n] = queue[n] /\ running'[n] = running[n]
         /\ \/ workers'[m][w] = "done" /\ ~running[m]
               /\ running'[m] = running[m] /\ queue'[m] = queue[m]
            \/ workers'[m][w] # "done"
               /\ running'[m] = running[m]
               /\ queue'[m].shutdowns = queue[m].shutdowns
            \/ workers'[m][w] = "done" /\ m = "voice"
               /\ queue[m].shutdowns > 0 /\ ~running'[m]
               /\ queue'[m].shutdowns = queue[m].shutdowns - 1
            \/ workers'[m][w] # "done" /\ ~running'[m]
               /\ m \in Eager /\ queue[m].shutdowns > 0
<1>1. CASE Check(m, w)
  <2>1. UNCHANGED <<queue, running>>
    BY <1>1 DEF Check, kernelVars
  <2>2. workers'[m][w] = IF running[m] THEN "wait" ELSE "done"
    BY <1>1 DEF Check, Becomes, ThreadsOK
  <2> QED BY <2>1, <2>2
<1>2. CASE Wake(m, w)
  <2>1. UNCHANGED <<queue, running>>
    BY <1>2 DEF Wake, kernelVars
  <2>2. workers'[m][w] \in {"check", "drain"}
    BY <1>2 DEF Wake, Becomes, ThreadsOK
  <2> QED BY <2>1, <2>2
<1>3. CASE Drain(m, w)
  <2>1. \A state : Becomes(m, w, state) => workers'[m][w] = state
    BY DEF Becomes, ThreadsOK
  <2>2. /\ \A n \in Modules \ {m} :
              queue'[n] = queue[n] /\ running'[n] = running[n]
        /\ \/ Becomes(m, w, "done")
              /\ m = "voice" /\ queue[m].shutdowns > 0
              /\ queue'[m].shutdowns = queue[m].shutdowns - 1
              /\ ~running'[m]
           \/ Becomes(m, w, "check")
              /\ running'[m] = running[m]
              /\ queue'[m].shutdowns = queue[m].shutdowns
           \/ Becomes(m, w, "check")
              /\ ~running'[m]
              /\ m \in Eager /\ queue[m].shutdowns > 0
    BY <1>3, DrainFacts DEF QueuesOK, StockOK, ThreadsOK
  <2> QED BY <2>1, <2>2
<1> QED BY <1>1, <1>2, <1>3 DEF WorkerStep

LEMMA JoinsInit == Init => JoinsEnd
  BY DEF Init, JoinsEnd, Idle

LEMMA JoinsStep ==
  ASSUME BaseInv, JoinsEnd, Next \/ UNCHANGED vars
  PROVE  JoinsEnd'
<1>0. tier \in Tiers /\ CallOK /\ StockOK /\ ThreadsOK /\ Phase /\ LiveIs
  BY BaseFacts
<1>y. Order' = Order
  BY OrderStays
<1>1. CASE StopModule
  <2> DEFINE m == Order[app.at]
  <2>1. /\ m \in Modules /\ app' = [app EXCEPT !.joining = TRUE]
        /\ m # "voice" => ~running'[m]
        /\ m = "voice" /\ ~lost' => queue'[m].shutdowns > 0
    BY <1>0, <1>1, StopModuleFacts
  <2>2. app'.at = app.at
    BY <1>0, <2>1 DEF CallOK, Calls
  <2> QED BY <1>y, <2>1, <2>2 DEF JoinsEnd
<1>2. CASE \E n \in Modules, w \in Workers : WorkerStep(n, w)
  <2> DEFINE m == Order[app.at]
  <2>1. PICK n \in Modules, w \in Workers : WorkerStep(n, w)
    BY <1>2
  <2>2. UNCHANGED <<app, starts>>
    BY <2>1, OtherStep
  <2>3. lost' = lost
    BY <2>1 DEF WorkerStep, Check, Wake, Drain, historyVars
  <2>4. SUFFICES ASSUME app.joining, ~lost
                 PROVE  workers'[m][starts] = "done" \/ ~running'[m]
                          \/ queue'[m].shutdowns > 0
    BY <1>y, <2>2, <2>3 DEF JoinsEnd
  <2>5. m \in Modules /\ starts \in Workers
    <3>1. starts \in 1..MaxStarts /\ app.at >= 1
      BY <1>0, <2>4, BoundsAssumption DEF CallOK, Phase
    <3> QED BY <1>0, <3>1, OrderAt DEF Workers
  <2>6. workers[m][starts] = "done" \/ ~running[m] \/ queue[m].shutdowns > 0
    BY <2>4 DEF JoinsEnd
  <2>7. queue[m].shutdowns \in Nat
    BY <1>0, <2>5 DEF StockOK
  <2>8. /\ \A k \in Modules \ {n} : workers'[k] = workers[k]
        /\ w \in AliveOf(n)
        /\ \A v \in Workers \ {w} : workers'[n][v] = workers[n][v]
    BY <1>0, <2>1, BecomesFacts
  <2>9. workers[n][w] # "done"
    BY <2>8 DEF AliveOf, Alive
  <2>10. /\ \A k \in Modules \ {n} :
              queue'[k] = queue[k] /\ running'[k] = running[k]
         /\ \/ running'[n] = running[n] /\ queue'[n] = queue[n]
            \/ running'[n] = running[n]
               /\ queue'[n].shutdowns = queue[n].shutdowns
            \/ ~running'[n]
    BY <1>0, <2>1, WorkerFacts
  <2> HIDE DEF m
  <2>11. CASE m # n
    BY <2>5, <2>6, <2>8, <2>10, <2>11
  <2>12. CASE m = n
    BY <2>5, <2>6, <2>8, <2>9, <2>10, <2>12
  <2> QED BY <2>11, <2>12
<1>3. CASE \E n \in Modules : Post(n)
  <2>1. PICK n \in Modules : Post(n)
    BY <1>3
  <2>2. /\ UNCHANGED <<app, starts, running, workers, lost>>
        /\ queue' = [queue EXCEPT ![n].events = @ + 1]
    BY <2>1 DEF Post, boundVars, historyVars
  <2>3. \A k \in Modules : queue'[k].shutdowns = queue[k].shutdowns
    BY <1>0, <2>2 DEF StockOK
  <2>4. app.joining => Order[app.at] \in Modules
    BY <1>0, OrderAt DEF Phase
  <2> QED BY <1>y, <2>2, <2>3, <2>4 DEF JoinsEnd
<1>4. CASE UNCHANGED vars
  BY <1>4, <1>y DEF vars, kernelVars, historyVars, boundVars, JoinsEnd
<1>5. CASE \/ InitCall \/ InitFails \/ StartCall \/ StartModule \/ StartFails
           \/ StopCall \/ DestroyCall \/ SkipStop \/ Joined
           \/ InitModule \/ DestroyNext \/ Cleared \/ Crash
  <2>2. ~app'.joining
    <3>1. CASE InitModule \/ StartModule \/ DestroyNext
      <4>1. ~app.joining
        BY <1>0, <3>1 DEF InitModule, StartModule, DestroyNext, Phase
      <4>2. app' = Idle \/ app' = [app EXCEPT !.at = @ + 1]
              \/ app' = [app EXCEPT !.at = @ - 1]
        BY <3>1 DEF InitModule, StartModule, DestroyNext
      <4> QED BY <1>0, <4>1, <4>2 DEF CallOK, Calls, Idle
    <3>2. CASE InitCall \/ InitFails \/ StartCall
      BY <3>2 DEF InitCall, InitFails, StartCall, Call
    <3>3. CASE StartFails \/ StopCall \/ DestroyCall \/ SkipStop \/ Joined
      <4>1. \A at, last : ~StopFrom(at, last).joining
        BY DEF StopFrom, Call, Idle
      <4>2. ~Call("destroy", Len(Order), TRUE).joining
        BY DEF Call
      <4>3. \/ \E at, last : app' = StopFrom(at, last)
            \/ app' = Call("destroy", Len(Order), TRUE)
        BY <3>3 DEF StartFails, StopCall, DestroyCall, SkipStop, Joined, Onward
      <4> QED BY <4>1, <4>2, <4>3
    <3>4. CASE Cleared \/ Crash
      BY <3>4 DEF Cleared, Crash, Forget, Zeroed, Idle
    <3> QED BY <1>5, <3>1, <3>2, <3>3, <3>4
  <2> QED BY <2>2 DEF JoinsEnd
<1> QED BY <1>1, <1>2, <1>3, <1>4, <1>5, NextCases

\* dmr_ms_stop() and dmr_ms_destroy() wait for no worker that has no reason
\* to end, whatever failed before and however often the station was started.
THEOREM NoJoinForEver == Spec => []JoinsEnd
<1>1. Init => BaseInv /\ JoinsEnd
  BY BaseInit, JoinsInit
<1>2. BaseInv /\ JoinsEnd /\ [Next]_vars => (BaseInv /\ JoinsEnd)'
  BY BaseStep, JoinsStep
<1> QED BY <1>1, <1>2, PTL DEF Spec
LEMMA WorkersInit == Init => WorkersInv
<1> SUFFICES ASSUME Init PROVE WorkersInv
  OBVIOUS
<1>1. /\ app.call = "none" /\ ~ms.running /\ ~app.joining
      /\ \A m \in Modules : AliveOf(m) = {} /\ queue[m].shutdowns = 0
  BY DEF Init, Idle, AliveOf, Alive, Empty
<1>2. Up = {}
  BY <1>1 DEF Up, UpTo
<1> QED BY <1>1, <1>2
        DEF WorkersInv, UpFacts, StoppingFacts, DownFacts, Stopping

\* Steps between which the same modules are up.
LEMMA UpStays ==
  ASSUME BaseInv,
         \/ InitCall \/ InitFails \/ StartCall \/ StartFails \/ StopCall
         \/ DestroyCall \/ InitModule \/ DestroyNext \/ Cleared
  PROVE  /\ Up' = Up /\ ~app.joining /\ ~app'.joining
         /\ UNCHANGED <<workers, doomed, crashed>>
         /\ Up # {} => UNCHANGED <<starts, running, queue>>
<1>0. tier \in Tiers /\ CallOK /\ StockOK /\ ThreadsOK /\ Phase /\ LiveIs
  BY BaseFacts
<1>y. Order' = Order /\ Len(Order) > 0
  <2>1. tier' = tier
    BY DEF InitCall, InitFails, StartCall, StartFails, StopCall, DestroyCall,
           InitModule, DestroyNext, Cleared
  <2>2. Len(Order) > 0
    BY <1>0, OrderFacts
  <2> QED BY <2>1, <2>2 DEF Order
<1> USE DEF UpTo
<1>1. CASE InitCall \/ InitFails \/ InitModule \/ DestroyNext \/ Cleared
  <2>1. /\ app.call = "none" \/ app.call \in {"init", "undo", "destroy"}
        /\ app.call = "none" => ~ms.running
        /\ ~app.joining
        /\ UNCHANGED <<workers, doomed, crashed>>
    <3>1. /\ app.call = "none" \/ app.call \in {"init", "undo", "destroy"}
          /\ app.call = "none" => ~ms.initialised
      <4>1. CASE InitCall
        BY <4>1 DEF InitCall, Idle
      <4>2. CASE InitFails
        BY <4>2 DEF InitFails
      <4>3. CASE InitModule
        BY <4>3 DEF InitModule
      <4>4. CASE DestroyNext \/ Cleared
        BY <4>4 DEF DestroyNext, Cleared
      <4> QED BY <1>1, <4>1, <4>2, <4>3, <4>4
    <3>2. UNCHANGED <<workers, doomed, crashed>>
      BY <1>1 DEF InitCall, InitFails, InitModule, DestroyNext, Cleared,
           historyVars
    <3> QED BY <1>0, <3>1, <3>2 DEF Phase, CallOK
  <2>2. /\ app'.call = "none" \/ app'.call \in {"init", "undo", "destroy"}
        /\ app'.call = "none" => ~ms'.running
        /\ ~app'.joining
    <3>1. CASE InitCall \/ InitFails
      <4>1. \E name \in {"init", "undo"} :
              \E at : app' = Call(name, at, FALSE)
        BY <3>1 DEF InitCall, InitFails
      <4> QED BY <4>1 DEF Call
    <3>2. CASE InitModule
      <4>1. ~ms.running /\ app.call = "init" /\ ~app.joining
        BY <1>0, <3>2 DEF InitModule, Phase, CallOK
      <4>2. CASE app.at < Len(Order)
        BY <1>0, <3>2, <4>1, <4>2 DEF InitModule, CallOK, Calls
      <4>3. CASE ~(app.at < Len(Order))
        BY <1>0, <3>2, <4>1, <4>3 DEF InitModule, CallOK, Calls, Idle
      <4> QED BY <4>2, <4>3
    <3>3. CASE DestroyNext
      BY <1>0, <2>1, <3>3 DEF DestroyNext, CallOK, Calls
    <3>4. CASE Cleared
      BY <3>4 DEF Cleared, Forget, Zeroed, Idle
    <3> QED BY <1>1, <3>1, <3>2, <3>3, <3>4
  <2>3. UpTo = 0
    BY <2>1
  <2>4. UpTo' = 0
    BY <2>2
  <2>5. Up = {} /\ Up' = {}
    BY <2>3, <2>4 DEF Up
  <2> QED BY <2>1, <2>2, <2>5
<1>2. CASE StartCall
  <2>1. /\ app = Idle /\ ~ms.running /\ app' = Call("start", 1, FALSE)
        /\ UNCHANGED <<workers, doomed, crashed>>
    BY <1>2 DEF StartCall, historyVars
  <2>2. UpTo = 0 /\ UpTo' = 0 /\ ~app.joining /\ ~app'.joining
    BY <2>1 DEF Idle, Call
  <2>3. Up = {} /\ Up' = {}
    BY <2>2 DEF Up
  <2> QED BY <2>1, <2>2, <2>3
<1>3. CASE StartFails \/ StopCall \/ DestroyCall
  <2>1. UNCHANGED <<ms, workers, doomed, crashed, starts, running, queue>>
    BY <1>3 DEF StartFails, StopCall, DestroyCall, kernelVars, boundVars,
                historyVars
  <2>2. UpTo' = UpTo /\ ~app.joining /\ ~app'.joining
    <3>1. CASE StartFails
      <4>1. app.call = "start" /\ app' = StopFrom(app.at - 1, FALSE)
        BY <3>1 DEF StartFails
      <4>2. app.at \in Nat \ {0} /\ ~app.joining /\ ~ms.running
        BY <1>0, <4>1 DEF CallOK, Calls, Phase
      <4>3. CASE app.at > 1
        BY <2>1, <4>1, <4>2, <4>3 DEF StopFrom, Call
      <4>4. CASE app.at = 1
        BY <2>1, <4>1, <4>2, <4>4 DEF StopFrom, Idle
      <4> QED BY <4>2, <4>3, <4>4
    <3>2. CASE StopCall
      <4>1. /\ app = Idle /\ ms.running
            /\ app' = StopFrom(Len(Order), FALSE)
        BY <3>2 DEF StopCall
      <4>2. app' = [call |-> "stop", at |-> Len(Order), joining |-> FALSE,
                    last |-> FALSE]
        BY <1>y, <4>1 DEF StopFrom, Call
      <4>a. app'.call = "stop" /\ app'.at = Len(Order) /\ app'.joining = FALSE
        BY <4>2
      <4>b. app.call = "none" /\ app.joining = FALSE
        BY <4>1 DEF Idle
      <4>3. /\ app'.call = "stop" /\ app'.at = Len(Order) /\ ~app'.joining
            /\ app.call = "none" /\ ~app.joining
        BY <4>a, <4>b
      <4> QED BY <1>y, <4>1, <4>3
    <3>3. CASE DestroyCall /\ ms.running
      <4>1. app = Idle /\ app' = StopFrom(Len(Order), TRUE)
        BY <3>3 DEF DestroyCall
      <4>2. app' = [call |-> "stop", at |-> Len(Order), joining |-> FALSE,
                    last |-> TRUE]
        BY <1>y, <4>1 DEF StopFrom, Call
      <4>a. app'.call = "stop" /\ app'.at = Len(Order) /\ app'.joining = FALSE
        BY <4>2
      <4>b. app.call = "none" /\ app.joining = FALSE
        BY <4>1 DEF Idle
      <4>3. /\ app'.call = "stop" /\ app'.at = Len(Order) /\ ~app'.joining
            /\ app.call = "none" /\ ~app.joining
        BY <4>a, <4>b
      <4> QED BY <1>y, <3>3, <4>1, <4>3
    <3>4. CASE DestroyCall /\ ~ms.running
      <4>1. app = Idle /\ app' = Call("destroy", Len(Order), TRUE)
        BY <3>4 DEF DestroyCall
      <4> QED BY <3>4, <4>1 DEF Call, Idle
    <3> QED BY <1>3, <3>1, <3>2, <3>3, <3>4
  <2>3. Up' = Up
    BY <1>y, <2>2 DEF Up
  <2> QED BY <2>1, <2>2, <2>3
<1> QED BY <1>1, <1>2, <1>3

LEMMA WorkersStep ==
  ASSUME BaseInv, WorkersInv, Next \/ UNCHANGED vars
  PROVE  WorkersInv'
<1>0. tier \in Tiers /\ CallOK /\ StockOK /\ ThreadsOK /\ Phase /\ LiveIs
  BY BaseFacts
<1>y. /\ Order' = Order /\ Len(Order) \in 3..4
      /\ \A i \in 1..Len(Order) : Order[i] \in Modules
      /\ \A i, j \in 1..Len(Order) : Order[i] = Order[j] => i = j
  BY <1>0, OrderStays, OrderFacts
<1>1. CASE \/ InitCall \/ InitFails \/ StartCall \/ StartFails \/ StopCall
           \/ DestroyCall \/ InitModule \/ DestroyNext \/ Cleared
  <2>1. /\ Up' = Up /\ ~app.joining /\ ~app'.joining
        /\ UNCHANGED <<workers, doomed, crashed>>
        /\ Up # {} => UNCHANGED <<starts, running, queue>>
    BY <1>1, UpStays
  <2>2. \A m \in Modules : AliveOf(m)' = AliveOf(m)
    BY <2>1 DEF AliveOf, Alive
  <2>3. \A m \in Modules : ~Stopping(m) /\ ~Stopping(m)'
    BY <2>1 DEF Stopping
  <2>4. UpFacts'
    BY <2>1, <2>2 DEF WorkersInv, UpFacts
  <2>5. \A m \in Modules : queue[m].shutdowns = 0 => queue'[m].shutdowns = 0
    <3>1. \A m \in Modules : queue'[m] \in {queue[m], Empty}
      BY <1>0, <1>1 DEF InitCall, InitFails, StartCall, StartFails, StopCall,
           DestroyCall, InitModule, DestroyNext, Destroy, Cleared, kernelVars,
           StockOK
    <3> QED BY <3>1 DEF Empty
  <2>6. DownFacts'
    BY <2>1, <2>2, <2>3, <2>5 DEF WorkersInv, DownFacts
  <2> QED BY <2>3, <2>4, <2>6 DEF WorkersInv, StoppingFacts
<1>2. CASE StartModule
  <2>a. app.at \in 1..Len(Order)
    BY <1>0, <1>2, OrderAt DEF StartModule, StopModule, SkipStop, Joined, Phase
  <2>0. PICK m \in Modules : m = Order[app.at]
    BY <1>y, <2>a
  <2>1. /\ m \in Modules /\ starts \in Workers
        /\ running' = [running EXCEPT ![m] = TRUE]
        /\ \/ /\ workers' = [workers EXCEPT ![m][starts] = "check"]
              /\ doomed' = IF LeftOver(m) THEN doomed \cup {m} ELSE doomed
           \/ /\ workers' = [workers EXCEPT ![m][starts] = "done"]
              /\ doomed' = doomed \cup {m}
        /\ UNCHANGED <<queue, starts, crashed>>
    BY <1>0, <1>2, <2>0, StartFacts
  <2>2. /\ app.call = "start" /\ ~app.joining /\ ~app'.joining
        /\ UpTo = app.at - 1 /\ UpTo' = app.at
        /\ app.at \in 1..Len(Order)
    <3>1. app.call = "start" /\ ~app.joining /\ app.at \in 1..Len(Order)
      BY <1>0, <1>2, OrderAt DEF StartModule, Phase
    <3>2. CASE app.at < Len(Order)
      BY <1>0, <1>2, <3>1, <3>2 DEF StartModule, UpTo, CallOK, Calls
    <3>3. CASE app.at = Len(Order)
      <4>1. app' = Idle /\ ms' = [ms EXCEPT !.running = TRUE]
        BY <1>2, <1>y, <3>3 DEF StartModule
      <4> QED BY <1>0, <1>y, <3>1, <3>3, <4>1 DEF UpTo, CallOK, Idle
    <3> QED BY <3>1, <3>2, <3>3
  <2>3. Up' = Up \cup {m} /\ m \notin Up
    BY <1>y, <2>0, <2>2 DEF Up
  <2>4. \A n \in Modules : ~Stopping(n) /\ ~Stopping(n)'
    BY <2>2 DEF Stopping
  <2>5. doomed \subseteq doomed'
    BY <2>1
  <2>6. \A n \in Modules \ {m} :
          running'[n] = running[n] /\ AliveOf(n)' = AliveOf(n)
    BY <1>0, <2>1 DEF ThreadsOK, AliveOf, Alive
  <2>7. ASSUME m \notin doomed'
        PROVE  running'[m] /\ AliveOf(m)' = {starts} /\ queue[m].shutdowns = 0
    <3>1. workers' = [workers EXCEPT ![m][starts] = "check"] /\ ~LeftOver(m)
      BY <2>1, <2>7
    <3>2. AliveOf(m) = {} /\ (m \in Eager \/ crashed \/ queue[m].shutdowns = 0)
      BY <2>1, <2>3, <2>4, <2>5, <2>7 DEF WorkersInv, DownFacts
    <3>3. queue[m].shutdowns = 0
      BY <1>0, <2>1, <3>1, <3>2 DEF LeftOver, StockOK
    <3>4. /\ workers'[m][starts] = "check"
          /\ \A w \in Workers \ {starts} : workers'[m][w] = workers[m][w]
      BY <1>0, <2>1, <3>1 DEF ThreadsOK
    <3>5. AliveOf(m)' = {starts}
      <4>1. \A w \in Workers : workers[m][w] \in {"none", "done"}
        BY <3>2 DEF AliveOf, Alive
      <4>2. \A w \in Workers :
              workers'[m][w] \in {"none", "done"} <=> w # starts
        BY <3>4, <4>1
      <4>3. starts \in Workers
        BY <2>1
      <4>4. \A w \in Workers : Alive(m, w)' <=> w = starts
        BY <4>2 DEF Alive
      <4> QED BY <4>3, <4>4 DEF AliveOf
    <3> QED BY <1>0, <2>1, <3>3, <3>5 DEF ThreadsOK
  <2>8. UpFacts'
    <3>1. UNCHANGED <<queue, starts>>
      BY <2>1
    <3>2. \A n \in Modules \ doomed' : n \in Up /\ n # m =>
            running'[n] /\ AliveOf(n)' = {starts} /\ queue'[n].shutdowns = 0
      BY <2>5, <2>6, <3>1 DEF WorkersInv, UpFacts
    <3>3. SUFFICES ASSUME NEW n \in Modules \ doomed', n \in Up'
                   PROVE  /\ running'[n] /\ AliveOf(n)' = {starts'}
                          /\ queue'[n].shutdowns = 0
      BY DEF UpFacts
    <3>4. CASE n = m
      BY <2>7, <3>1, <3>4
    <3>5. CASE n # m
      BY <2>3, <3>1, <3>2, <3>3, <3>5
    <3> QED BY <3>4, <3>5
  <2>9. DownFacts'
    BY <2>1, <2>3, <2>4, <2>5, <2>6 DEF WorkersInv, DownFacts
  <2> QED BY <2>4, <2>8, <2>9 DEF WorkersInv, StoppingFacts
<1>3. CASE StopModule
  <2>a. app.at \in 1..Len(Order)
    BY <1>0, <1>3, OrderAt DEF StartModule, StopModule, SkipStop, Joined, Phase
  <2>0. PICK m \in Modules : m = Order[app.at]
    BY <1>y, <2>a
  <2>1. /\ m \in Modules /\ app' = [app EXCEPT !.joining = TRUE]
        /\ app.call = "stop" /\ ~app.joining
        /\ UNCHANGED <<ms, starts, workers, doomed, crashed>>
        /\ \A n \in Modules \ {m} :
             queue'[n] = queue[n] /\ running'[n] = running[n]
        /\ m = "mac" => queue' = queue
        /\ m = "voice" => running'[m]
        /\ m = "voice" =>
             queue'[m].shutdowns \in
               {queue[m].shutdowns, queue[m].shutdowns + 1}
    BY <1>0, <1>3, <2>0, StopModuleFacts
  <2>2. /\ app.at \in 1..Len(Order) /\ UpTo = app.at /\ UpTo' = app.at - 1
        /\ app'.joining /\ app'.at = app.at
    BY <1>0, <2>1, OrderAt DEF UpTo, CallOK, Calls, Phase
  <2>3. Up' = Up \ {m} /\ m \in Up
    BY <1>y, <2>0, <2>2 DEF Up
  <2>4. \A n \in Modules : ~Stopping(n) /\ (Stopping(n)' <=> n = m)
    BY <1>y, <2>0, <2>1, <2>2 DEF Stopping
  <2>5. \A n \in Modules : AliveOf(n)' = AliveOf(n)
    BY <2>1 DEF AliveOf, Alive
  <2>6. UpFacts'
    BY <2>1, <2>3, <2>5 DEF WorkersInv, UpFacts
  <2>7. DownFacts'
    BY <2>1, <2>3, <2>4, <2>5 DEF WorkersInv, DownFacts
  <2>8. StoppingFacts'
    <3>1. SUFFICES ASSUME m \notin doomed
                   PROVE  /\ AliveOf(m)' \subseteq {starts'}
                          /\ m = "voice" =>
                               /\ running'[m] /\ workers'[m][starts'] # "done"
                               /\ queue'[m].shutdowns <= 1
                          /\ m = "mac" => queue'[m].shutdowns = 0
      <4>1. doomed' = doomed /\ m \in Modules
        BY <2>1
      <4>2. SUFFICES ASSUME NEW n \in Modules \ doomed', Stopping(n)'
                     PROVE  /\ AliveOf(n)' \subseteq {starts'}
                            /\ n = "voice" =>
                                 \/ running'[n] /\ workers'[n][starts'] # "done"
                                    /\ queue'[n].shutdowns <= 1
                                 \/ workers'[n][starts'] = "done"
                                    /\ queue'[n].shutdowns = 0
                            /\ n = "mac" => queue'[n].shutdowns = 0 \/ crashed'
        BY DEF StoppingFacts
      <4>3. n = m /\ m \notin doomed
        BY <2>4, <4>1, <4>2
      <4> QED BY <3>1, <4>3
    <3>2. running[m] /\ AliveOf(m) = {starts} /\ queue[m].shutdowns = 0
      BY <2>1, <2>3, <3>1 DEF WorkersInv, UpFacts
    <3>3. workers[m][starts] # "done"
      BY <3>2 DEF AliveOf, Alive
    <3>a. starts' = starts /\ workers' = workers /\ m \in Modules
      BY <2>1
    <3>b. AliveOf(m)' = AliveOf(m)
      BY <2>5, <3>a
    <3>4. AliveOf(m)' \subseteq {starts'} /\ workers'[m][starts'] # "done"
      BY <3>2, <3>3, <3>a, <3>b
    <3>5. m = "voice" => running'[m] /\ queue'[m].shutdowns <= 1
      BY <2>1, <3>2
    <3>6. m = "mac" => queue'[m].shutdowns = 0
      BY <2>1, <3>2
    <3> QED BY <2>1, <3>4, <3>5, <3>6
  <2> QED BY <2>6, <2>7, <2>8 DEF WorkersInv
<1>4. CASE SkipStop \/ Joined
  <2>a. app.at \in 1..Len(Order)
    BY <1>0, <1>4, OrderAt DEF StartModule, StopModule, SkipStop, Joined, Phase
  <2>0. PICK m \in Modules : m = Order[app.at]
    BY <1>y, <2>a
  <2>1. /\ app.call = "stop" /\ app' = StopFrom(app.at - 1, app.last)
        /\ ms' = IF app.at = 1 THEN [ms EXCEPT !.running = FALSE] ELSE ms
        /\ UNCHANGED <<starts, workers, queue, doomed, crashed>>
        /\ \/ ~app.joining /\ ~running[m] /\ running' = running
           \/ /\ app.joining /\ workers[m][starts] = "done"
              /\ running' = [running EXCEPT ![m] = FALSE]
    <3>1. CASE SkipStop
      <4>1. /\ app.call = "stop" /\ app' = StopFrom(app.at - 1, app.last)
            /\ ms' = IF app.at = 1 THEN [ms EXCEPT !.running = FALSE] ELSE ms
            /\ UNCHANGED <<starts, workers, queue, doomed, crashed>>
        BY <3>1 DEF SkipStop, Onward, kernelVars, boundVars, historyVars
      <4>2. ~app.joining /\ ~running[m] /\ running' = running
        BY <2>0, <3>1 DEF SkipStop
      <4> QED BY <4>1, <4>2
    <3>2. CASE Joined
      BY <2>0, <3>2 DEF Joined, Onward, kernelVars, boundVars, historyVars
    <3> QED BY <1>4, <3>1, <3>2
  <2>2. app.at \in 1..Len(Order) /\ m \in Modules /\ starts \in Nat
    BY <1>0, <2>0, <2>a DEF CallOK
  <2>3. UpTo' = app.at - 1 /\ ~app'.joining
    <3>1. CASE app.at > 1
      BY <2>1, <2>2, <3>1 DEF StopFrom, Call, UpTo
    <3>2. CASE app.at = 1 /\ app.last
      BY <2>1, <2>2, <3>2 DEF StopFrom, Call, UpTo
    <3>3. CASE app.at = 1 /\ ~app.last
      BY <1>0, <2>1, <2>2, <3>3 DEF StopFrom, Idle, UpTo, CallOK
    <3> QED BY <2>2, <3>1, <3>2, <3>3
  <2>4. UpTo = IF app.joining THEN app.at - 1 ELSE app.at
    BY <2>1 DEF UpTo
  <2>5. Up' = Up \ {m} /\ (~app.joining => m \in Up)
    BY <1>y, <2>0, <2>2, <2>3, <2>4 DEF Up
  <2>6. \A n \in Modules :
          ~Stopping(n)' /\ (Stopping(n) <=> app.joining /\ n = m)
    BY <2>0, <2>3 DEF Stopping
  <2>7. \A n \in Modules : AliveOf(n)' = AliveOf(n)
    BY <2>1 DEF AliveOf, Alive
  <2>8. \A n \in Modules \ {m} : running'[n] = running[n]
    BY <1>0, <2>1 DEF ThreadsOK
  <2>9. UpFacts'
    BY <2>1, <2>5, <2>7, <2>8 DEF WorkersInv, UpFacts
  <2>10. ASSUME m \notin doomed
         PROVE  /\ AliveOf(m) = {}
                /\ m \in Eager \/ crashed \/ queue[m].shutdowns = 0
    <3>1. app.joining /\ workers[m][starts] = "done"
      BY <2>1, <2>2, <2>5, <2>10 DEF WorkersInv, UpFacts
    <3>2. /\ AliveOf(m) \subseteq {starts}
          /\ m = "voice" => queue[m].shutdowns = 0
          /\ m = "mac" => queue[m].shutdowns = 0 \/ crashed
      BY <2>2, <2>6, <2>10, <3>1 DEF WorkersInv, StoppingFacts
    <3>3. starts \notin AliveOf(m)
      BY <3>1 DEF AliveOf, Alive
    <3>4. m \in {"mac", "voice"} \cup Eager
      BY <2>2 DEF Modules, Eager
    <3> QED BY <3>2, <3>3, <3>4
  <2>11. DownFacts'
    BY <2>1, <2>5, <2>6, <2>7, <2>10 DEF WorkersInv, DownFacts
  <2> QED BY <2>6, <2>9, <2>11 DEF WorkersInv, StoppingFacts
<1>5. CASE Crash
  <2>1. /\ app' = Idle /\ ~ms'.running /\ crashed' = TRUE
        /\ workers' = [m \in Modules |-> [w \in Workers |-> "none"]]
    BY <1>5 DEF Crash, Zeroed
  <2>2. UpTo' = 0 /\ ~app'.joining
    BY <2>1 DEF UpTo, Idle
  <2>3. Up' = {}
    BY <2>2 DEF Up
  <2>4. \A m \in Modules : AliveOf(m)' = {}
    BY <2>1 DEF AliveOf, Alive
  <2> QED BY <2>1, <2>2, <2>3, <2>4
          DEF WorkersInv, UpFacts, StoppingFacts, DownFacts, Stopping
<1>6. CASE \E n \in Modules, w \in Workers : WorkerStep(n, w)
  <2>1. PICK n \in Modules, w \in Workers : WorkerStep(n, w)
    BY <1>6
  <2>2. UNCHANGED <<ms, app, starts, doomed, crashed>>
    BY <2>1, OtherStep
  <2>3. Up' = Up /\ \A m \in Modules : Stopping(m)' <=> Stopping(m)
    BY <1>y, <2>2 DEF Up, UpTo, Stopping
  <2>4. /\ \A k \in Modules \ {n} : workers'[k] = workers[k]
        /\ w \in AliveOf(n)
        /\ AliveOf(n)' =
             IF workers'[n][w] = "done" THEN AliveOf(n) \ {w} ELSE AliveOf(n)
    BY <1>0, <2>1, BecomesFacts
  <2>5. \A k \in Modules \ {n} : AliveOf(k)' = AliveOf(k)
    BY <2>4 DEF AliveOf, Alive
  <2>6. /\ \A k \in Modules \ {n} :
              queue'[k] = queue[k] /\ running'[k] = running[k]
        /\ \/ workers'[n][w] = "done" /\ ~running[n]
              /\ running'[n] = running[n] /\ queue'[n] = queue[n]
           \/ workers'[n][w] # "done"
              /\ running'[n] = running[n]
              /\ queue'[n].shutdowns = queue[n].shutdowns
           \/ workers'[n][w] = "done" /\ n = "voice"
              /\ queue[n].shutdowns > 0 /\ ~running'[n]
              /\ queue'[n].shutdowns = queue[n].shutdowns - 1
           \/ workers'[n][w] # "done" /\ ~running'[n]
              /\ n \in Eager /\ queue[n].shutdowns > 0
    BY <1>0, <2>1, WorkerFacts
  <2>7. queue[n].shutdowns \in Nat /\ "voice" \notin Eager /\ "mac" \notin Eager
    BY <1>0 DEF StockOK, Eager
  <2>8. n \notin doomed => n \in Up \/ Stopping(n)
    BY <2>4 DEF WorkersInv, DownFacts
  <2>9. n \notin doomed /\ n \in Up =>
          /\ running'[n] /\ AliveOf(n)' = {starts} /\ queue'[n].shutdowns = 0
    <3> SUFFICES ASSUME n \notin doomed, n \in Up
                 PROVE  /\ running'[n] /\ AliveOf(n)' = {starts}
                        /\ queue'[n].shutdowns = 0
      OBVIOUS
    <3>1. running[n] /\ AliveOf(n) = {starts} /\ queue[n].shutdowns = 0
      BY DEF WorkersInv, UpFacts
    <3>a. ~(queue[n].shutdowns > 0)
      BY <3>1
    <3>2. /\ running'[n] = running[n] /\ workers'[n][w] # "done"
          /\ queue'[n].shutdowns = queue[n].shutdowns
      BY <2>6, <3>1, <3>a, Zenon
    <3> QED BY <2>4, <3>1, <3>2
  <2>10. n \notin doomed /\ Stopping(n) =>
           /\ AliveOf(n)' \subseteq {starts}
           /\ n = "voice" =>
                \/ running'[n] /\ workers'[n][starts] # "done"
                   /\ queue'[n].shutdowns <= 1
                \/ workers'[n][starts] = "done" /\ queue'[n].shutdowns = 0
           /\ n = "mac" => queue'[n].shutdowns = 0 \/ crashed
    <3> SUFFICES ASSUME n \notin doomed, Stopping(n)
                 PROVE  /\ AliveOf(n)' \subseteq {starts}
                        /\ n = "voice" =>
                             \/ running'[n] /\ workers'[n][starts] # "done"
                                /\ queue'[n].shutdowns <= 1
                             \/ /\ workers'[n][starts] = "done"
                                /\ queue'[n].shutdowns = 0
                        /\ n = "mac" => queue'[n].shutdowns = 0 \/ crashed
      OBVIOUS
    <3>1. /\ AliveOf(n) \subseteq {starts}
          /\ n = "voice" =>
                \/ running[n] /\ workers[n][starts] # "done"
                   /\ queue[n].shutdowns <= 1
                \/ workers[n][starts] = "done" /\ queue[n].shutdowns = 0
          /\ n = "mac" => queue[n].shutdowns = 0 \/ crashed
      BY DEF WorkersInv, StoppingFacts
    <3>2. w = starts /\ workers[n][w] # "done"
      BY <2>4, <3>1 DEF AliveOf, Alive
    <3>3. AliveOf(n)' \subseteq {starts}
      BY <2>4, <3>1
    <3>4. CASE n = "voice"
      <4>1. running[n] /\ queue[n].shutdowns <= 1
        BY <3>1, <3>2, <3>4
      <4>2. \/ /\ running'[n] /\ workers'[n][w] # "done"
               /\ queue'[n].shutdowns = queue[n].shutdowns
            \/ /\ workers'[n][w] = "done"
               /\ queue'[n].shutdowns = queue[n].shutdowns - 1
               /\ queue[n].shutdowns > 0
        BY <2>6, <2>7, <3>4, <4>1
      <4>3. \/ running'[n] /\ workers'[n][w] # "done"
               /\ queue'[n].shutdowns <= 1
            \/ workers'[n][w] = "done" /\ queue'[n].shutdowns = 0
        BY <2>7, <4>1, <4>2
      <4>4. n # "mac"
        BY <3>4
      <4> QED BY <3>2, <3>3, <4>3, <4>4
    <3>5. CASE n # "voice"
      BY <2>6, <2>7, <3>1, <3>3, <3>5
    <3> QED BY <3>4, <3>5
  <2>11. UpFacts'
    BY <2>2, <2>3, <2>5, <2>6, <2>9 DEF WorkersInv, UpFacts
  <2>12. StoppingFacts'
    BY <2>2, <2>3, <2>4, <2>5, <2>6, <2>10 DEF WorkersInv, StoppingFacts
  <2>13. DownFacts'
    BY <2>2, <2>3, <2>5, <2>6, <2>8 DEF WorkersInv, DownFacts
  <2> QED BY <2>11, <2>12, <2>13 DEF WorkersInv
<1>7. CASE (\E n \in Modules : Post(n)) \/ UNCHANGED vars
  <2>1. UNCHANGED <<ms, app, starts, running, workers, doomed, crashed>>
    BY <1>7 DEF Post, vars, boundVars, historyVars
  <2>2. \A m \in Modules : queue'[m].shutdowns = queue[m].shutdowns
    BY <1>0, <1>7 DEF Post, vars, kernelVars, StockOK
  <2>3. Up' = Up /\ \A m \in Modules : Stopping(m)' <=> Stopping(m)
    BY <1>y, <2>1 DEF Up, UpTo, Stopping
  <2>4. \A m \in Modules : AliveOf(m)' = AliveOf(m)
    BY <2>1 DEF AliveOf, Alive
  <2>5. UpFacts'
    BY <2>1, <2>2, <2>3, <2>4 DEF WorkersInv, UpFacts
  <2>6. StoppingFacts'
    BY <2>1, <2>2, <2>3, <2>4 DEF WorkersInv, StoppingFacts
  <2>7. DownFacts'
    BY <2>1, <2>2, <2>3, <2>4 DEF WorkersInv, DownFacts
  <2> QED BY <2>5, <2>6, <2>7 DEF WorkersInv
<1> QED BY <1>1, <1>2, <1>3, <1>4, <1>5, <1>6, <1>7, NextCases

LEMMA WorkersCorrect == Spec => [](BaseInv /\ WorkersInv)
<1>1. Init => BaseInv /\ WorkersInv
  BY BaseInit, WorkersInit
<1>2. BaseInv /\ WorkersInv /\ [Next]_vars => (BaseInv /\ WorkersInv)'
  BY BaseStep, WorkersStep
<1> QED BY <1>1, <1>2, PTL DEF Spec

\* Between its calls a running station has one worker for each module, the
\* one of the last start, and no worker outlives its module, but for modules
\* started on a SHUTDOWN left behind.
THEOREM OneWorkerEach == Spec => []WorkersMatch
<1>1. BaseInv /\ WorkersInv => WorkersMatch
  <2> SUFFICES ASSUME BaseInv, WorkersInv, NEW m \in Modules \ doomed
               PROVE  /\ app = Idle /\ ms.running /\ m \in live =>
                           running[m] /\ AliveOf(m) = {starts}
                      /\ m \notin live => AliveOf(m) = {}
    BY DEF WorkersMatch, AliveOf
  <2>0. tier \in Tiers /\ CallOK /\ Phase /\ LiveIs /\ Len(Order) \in 3..4
    BY BaseFacts, OrderFacts
  <2>1. ASSUME app = Idle, ms.running, m \in live
        PROVE  running[m] /\ AliveOf(m) = {starts}
    <3>1. Built = Len(Order) /\ UpTo = Len(Order)
      BY <2>0, <2>1 DEF Built, UpTo, Idle, CallOK
    <3>2. m \in Up
      BY <2>0, <2>1, <3>1 DEF Up, LiveIs
    <3> QED BY <3>2 DEF WorkersInv, UpFacts
  <2>2. ASSUME m \notin live
        PROVE  AliveOf(m) = {}
    <3>1. UpTo \in 0..Built
      BY <2>0 DEF UpTo, Built, Phase, CallOK, Calls
    <3>2. m \notin Up
      BY <2>0, <2>2, <3>1, BuiltFacts DEF Up, LiveIs
    <3>3. ~Stopping(m)
      <4> SUFFICES ASSUME Stopping(m) PROVE FALSE
        OBVIOUS
      <4>1. app.call = "stop" /\ Built = Len(Order) /\ app.at \in 1..Len(Order)
        BY <2>0, OrderAt DEF Stopping, Phase, Built
      <4> QED BY <2>0, <2>2, <4>1 DEF Stopping, LiveIs
    <3> QED BY <3>2, <3>3 DEF WorkersInv, DownFacts
  <2> QED BY <2>1, <2>2
<1> QED BY WorkersCorrect, <1>1, PTL
=============================================================================
