--------------------------- MODULE ThreadPool_proofs ---------------------------
(***************************************************************************)
(* TLAPS proofs about ThreadPool, for any number of threads and functions, *)
(* any group and any limits.                                               *)
(***************************************************************************)
EXTENDS ThreadPool, FiniteSetTheorems, TLAPS

\* A caller has a worker for its function.
Holds(c) == call[c].stage \in {"attach", "give", "wake"}

(* Where a worker is, and what that says about the map and its state. *)
WorkersInv ==
  \A w \in Workers :
    /\ pc[w] = "unborn" => /\ w \notin threads
                           /\ mState[w] = "IDLE"
                           /\ mFunction[w] = NoFunction
    /\ pc[w] = "start" =>
         w \in threads \/ \E c \in Callers : call[c].stage = "attach" /\ call[c].worker = w
    /\ pc[w] \in {"running", "ran", "queue", "expired"} => w \in threads
    /\ pc[w] = "running" => mFunction[w] \in Functions
    /\ pc[w] = "dead" => w \notin threads
    /\ mState[w] = "RUNNABLE" => pc[w] \in {"start", "running", "ran"} /\ w \in threads

(* A caller with a call is executing code, and the worker it holds waits for  *)
(* nobody else.                                                               *)
CallersInv ==
  /\ \A c \in Callers :
       /\ call[c].stage = "none" => call[c] = NoCall
       /\ call[c].stage # "none" =>
            /\ call[c].function \in Functions
            /\ c = Main => mainPc \notin {"wait", "ended"}
            /\ c \in Workers => pc[c] = "running"
       /\ Holds(c) =>
            /\ call[c].worker \in Workers
            /\ pc[call[c].worker] = "start"
            /\ mState[call[c].worker] = "IDLE"
            /\ call[c].stage = "attach" <=> call[c].worker \notin threads
            /\ mFunction[call[c].worker] =
                 IF call[c].stage = "wake" THEN call[c].function ELSE NoFunction
  /\ \A c, d \in Callers :
       Holds(c) /\ Holds(d) /\ call[c].worker = call[d].worker => c = d

(* A group that has taken a function is there. *)
GroupInv == \A f \in Functions : progress[f] = "virtual" => groupLoad # 0

InQueue(f) == { i \in DOMAIN eventQueue : eventQueue[i] = f }
Carriers(f) == { w \in Workers : mFunction[w] = f /\ pc[w] \in {"start", "running"} }
CallersOf(f) == { c \in Callers : call[c].function = f /\ call[c].stage # "wake" }

(* The one place of a function, by how far it has come. *)
Placed(f) ==
  /\ IF progress[f] = "queued" THEN \E i : InQueue(f) = {i} ELSE InQueue(f) = {}
  /\ IF progress[f] \in {"given", "running"}
     THEN \E w \in Workers : Carriers(f) = {w} ELSE Carriers(f) = {}
  /\ IF progress[f] = "called"
     THEN \E c \in Callers : CallersOf(f) = {c} ELSE CallersOf(f) = {}

PlaceInv == \A f \in Functions : Placed(f)

(* A worker's function runs when the worker says so. *)
CarriersInv ==
  \A w \in Workers :
    /\ pc[w] = "running" => progress[mFunction[w]] = "running"
    /\ pc[w] = "start" /\ mFunction[w] \in Functions /\ Alive =>
         progress[mFunction[w]] = "given"

IInv ==
  /\ TypeOK
  /\ WorkersInv
  /\ CallersInv
  /\ IsFiniteSet(threads) /\ RunsAttached
  /\ GroupInv
  /\ PlaceInv
  /\ CarriersInv
  /\ EndsQuiet

\* What a step of the system is, one action at a time.
Step ==
  \/ \E c \in Callers : \/ \E f \in Functions : Schedule(c, f)
                        \/ Enqueue(c)
                        \/ \E w \in Workers : Spawn(c, w)
                        \/ Attach(c)
                        \/ GiveFunction(c)
                        \/ WakeWorker(c)
  \/ \E w \in Workers : \/ StartFunction(w)
                        \/ FinishFunction(w)
                        \/ BecomeIdle(w)
                        \/ TakeFromQueue(w)
                        \/ Expire(w)
                        \/ Detach(w)
  \/ MainReturns
  \/ AllThreadsEnded

-------------------------------------------------------------------------------

(* Next is one of the actions, of a process that is there. *)
LEMMA NextIsStep == Next => Alive /\ Step
BY DEF Next, Step, Launch, Work

(* The initial states satisfy the inductive invariant. *)
LEMMA InitIInv == Init => IInv
<1> SUFFICES ASSUME Init PROVE IInv
  OBVIOUS
<1> USE ThreadPoolAssumption
<1>1. TypeOK
  BY DEF Init, TypeOK, Pcs, ThreadStates, Functions, Callers, CallStages, NoCall, Progress
<1>2. WorkersInv /\ CallersInv
  BY DEF Init, WorkersInv, CallersInv, Holds, NoCall, Callers
<1>3. IsFiniteSet(threads) /\ RunsAttached
  <2>1. threads = {Main} /\ threads \ {Main} = {}
    BY DEF Init
  <2>2. IsFiniteSet({Main}) /\ Cardinality({}) = 0
    BY FS_Singleton, FS_EmptySet
  <2>3. Cardinality(threads \ {Main}) = 0
    BY <2>1, <2>2, Zenon
  <2> QED
    BY <2>1, <2>2, <2>3 DEF Init, RunsAttached
<1>4. GroupInv /\ EndsQuiet /\ CarriersInv
  BY DEF Init, GroupInv, EndsQuiet, CarriersInv
<1>5. ASSUME NEW f \in Functions
      PROVE  Placed(f)
  BY DEF Init, Placed, InQueue, Carriers, CallersOf, NoCall
<1> QED
  BY <1>1, <1>2, <1>3, <1>4, <1>5 DEF IInv, PlaceInv

(* Every step preserves the types. *)
LEMMA TypeStep ==
  ASSUME IInv, Step
  PROVE  TypeOK'
<1> USE ThreadPoolAssumption DEF IInv, TypeOK, Proceed
<1>1. ASSUME NEW c \in Callers, NEW f \in Functions, Schedule(c, f)
      PROVE  TypeOK'
  <2>1. call' = call \/ \E s \in {"enqueue", "launch"} :
          call' = [call EXCEPT ![c] = [stage |-> s, function |-> f, worker |-> Main]]
    BY <1>1 DEF Schedule, Begin
  <2>2. call' \in [Callers -> [stage : CallStages, function : Functions \cup {NoFunction},
                               worker : Callers]]
    BY <2>1 DEF CallStages, Callers
  <2> QED
    BY <1>1, <2>2 DEF Schedule, Begin, Progress
<1>2. ASSUME NEW c \in Callers, Enqueue(c)
      PROVE  TypeOK'
  <2>1. call[c].function \in Functions
    BY <1>2 DEF Enqueue, CallersInv
  <2> QED
    BY <1>2, <2>1 DEF Enqueue, NoCall, CallStages, Callers, Progress
<1>3. ASSUME NEW c \in Callers, NEW w \in Workers, Spawn(c, w)
      PROVE  TypeOK'
  BY <1>3 DEF Spawn, Pcs, CallStages, Callers
<1>4. ASSUME NEW c \in Callers, Attach(c)
      PROVE  TypeOK'
  BY <1>4 DEF Attach, CallStages
<1>5. ASSUME NEW c \in Callers, GiveFunction(c)
      PROVE  TypeOK'
  <2>1. call[c].function \in Functions /\ call[c].worker \in Workers
    BY <1>5 DEF GiveFunction, CallersInv, Holds
  <2> QED
    BY <1>5, <2>1 DEF GiveFunction, CallStages, Progress
<1>6. ASSUME NEW c \in Callers, WakeWorker(c)
      PROVE  TypeOK'
  <2>1. call[c].worker \in Workers
    BY <1>6 DEF WakeWorker, CallersInv, Holds
  <2> QED
    BY <1>6, <2>1 DEF WakeWorker, CallStages, NoCall, ThreadStates, Callers
<1>7. ASSUME NEW w \in Workers, StartFunction(w)
      PROVE  TypeOK'
  BY <1>7 DEF StartFunction, Progress, Pcs
<1>8. ASSUME NEW w \in Workers, FinishFunction(w)
      PROVE  TypeOK'
  BY <1>8 DEF FinishFunction, Progress, Pcs, WorkersInv
<1>9. ASSUME NEW w \in Workers, BecomeIdle(w)
      PROVE  TypeOK'
  BY <1>9 DEF BecomeIdle, Pcs, ThreadStates
<1>10. ASSUME NEW w \in Workers, TakeFromQueue(w)
       PROVE  TypeOK'
  BY <1>10 DEF TakeFromQueue, Pcs, ThreadStates, Progress
<1>11. ASSUME NEW w \in Workers, Expire(w)
       PROVE  TypeOK'
  BY <1>11 DEF Expire, Pcs
<1>12. ASSUME NEW w \in Workers, Detach(w)
       PROVE  TypeOK'
  <2>1. w \in threads \ {Main}
    BY <1>12 DEF Detach, WorkersInv
  <2>2. IsFiniteSet(threads \ {Main})
    BY FS_Subset
  <2>3. Cardinality(threads \ {Main}) \in Nat \ {0}
    BY <2>1, <2>2, FS_CardinalityType, FS_EmptySet
  <2>4. nonDaemonThreads - 1 \in Nat
    BY <2>3 DEF RunsAttached
  <2> QED
    BY <1>12, <2>4 DEF Detach, Pcs, ThreadStates
<1>13. CASE MainReturns
  BY <1>13 DEF MainReturns
<1>14. CASE AllThreadsEnded
  BY <1>14 DEF AllThreadsEnded
<1> QED
  BY <1>1, <1>2, <1>3, <1>4, <1>5, <1>6, <1>7, <1>8, <1>9, <1>10, <1>11, <1>12,
     <1>13, <1>14 DEF Step

(* Every step keeps the workers and the map in agreement. *)
LEMMA WorkersStep ==
  ASSUME IInv, Step
  PROVE  WorkersInv'
<1> USE ThreadPoolAssumption DEF IInv, TypeOK, WorkersInv, Proceed
<1>1. ASSUME NEW c \in Callers, NEW f \in Functions, Schedule(c, f)
      PROVE  WorkersInv'
  <2>1. call[c] = NoCall
    BY <1>1 DEF Schedule
  <2>2. \A d \in Callers : call[d].stage = "attach" => call'[d] = call[d]
    BY <1>1, <2>1 DEF Schedule, Begin, NoCall
  <2> QED
    BY <1>1, <2>2 DEF Schedule
<1>2. ASSUME NEW c \in Callers, Enqueue(c)
      PROVE  WorkersInv'
  <2>1. \A d \in Callers : call[d].stage = "attach" => call'[d] = call[d]
    BY <1>2 DEF Enqueue
  <2> QED
    BY <1>2, <2>1 DEF Enqueue
<1>3. ASSUME NEW c \in Callers, NEW w \in Workers, Spawn(c, w)
      PROVE  WorkersInv'
  <2>1. \A d \in Callers : call[d].stage = "attach" => call'[d] = call[d]
    BY <1>3 DEF Spawn
  <2>2. call'[c].stage = "attach" /\ call'[c].worker = w
    BY <1>3 DEF Spawn
  <2> QED
    BY <1>3, <2>1, <2>2 DEF Spawn
<1>4. ASSUME NEW c \in Callers, Attach(c)
      PROVE  WorkersInv'
  <2>1. \A d \in Callers \ {c} : call'[d] = call[d]
    BY <1>4 DEF Attach
  <2>2. call[c].worker \in threads' /\ pc[call[c].worker] = "start"
    BY <1>4 DEF Attach, CallersInv, Holds
  <2> QED
    BY <1>4, <2>1, <2>2 DEF Attach
<1>5. ASSUME NEW c \in Callers, GiveFunction(c)
      PROVE  WorkersInv'
  <2>1. \A d \in Callers : call[d].stage = "attach" => call'[d] = call[d]
    BY <1>5 DEF GiveFunction
  <2>2. pc[call[c].worker] = "start"
    BY <1>5 DEF GiveFunction, CallersInv, Holds
  <2> QED
    BY <1>5, <2>1, <2>2 DEF GiveFunction
<1>6. ASSUME NEW c \in Callers, WakeWorker(c)
      PROVE  WorkersInv'
  <2>1. \A d \in Callers : call[d].stage = "attach" => call'[d] = call[d]
    BY <1>6 DEF WakeWorker
  <2>2. pc[call[c].worker] = "start" /\ call[c].worker \in threads
    BY <1>6 DEF WakeWorker, CallersInv, Holds
  <2> QED
    BY <1>6, <2>1, <2>2 DEF WakeWorker
<1>7. ASSUME NEW w \in Workers, StartFunction(w)
      PROVE  WorkersInv'
  <2>1. w \in threads /\ mFunction[w] \in Functions
    BY <1>7 DEF StartFunction
  <2> QED
    BY <1>7, <2>1 DEF StartFunction
<1>8. ASSUME NEW w \in Workers, FinishFunction(w)
      PROVE  WorkersInv'
  BY <1>8 DEF FinishFunction
<1>9. ASSUME NEW w \in Workers, BecomeIdle(w)
      PROVE  WorkersInv'
  BY <1>9 DEF BecomeIdle
<1>10. ASSUME NEW w \in Workers, TakeFromQueue(w)
       PROVE  WorkersInv'
  BY <1>10 DEF TakeFromQueue
<1>11. ASSUME NEW w \in Workers, Expire(w)
       PROVE  WorkersInv'
  BY <1>11 DEF Expire
<1>12. ASSUME NEW w \in Workers, Detach(w)
       PROVE  WorkersInv'
  BY <1>12 DEF Detach
<1>13. CASE MainReturns
  BY <1>13 DEF MainReturns
<1>14. CASE AllThreadsEnded
  BY <1>14 DEF AllThreadsEnded
<1> QED
  BY <1>1, <1>2, <1>3, <1>4, <1>5, <1>6, <1>7, <1>8, <1>9, <1>10, <1>11, <1>12,
     <1>13, <1>14 DEF Step

(* Every step keeps the callers and their workers in agreement. *)
LEMMA CallersStep ==
  ASSUME IInv, Alive, Step
  PROVE  CallersInv'
<1> USE ThreadPoolAssumption DEF IInv, TypeOK, CallersInv, Holds, Proceed
<1>1. ASSUME NEW c \in Callers, NEW f \in Functions, Schedule(c, f)
      PROVE  CallersInv'
  <2>1. \/ UNCHANGED call
        \/ /\ mainPc' = mainPc
           /\ \E s \in {"enqueue", "launch"} :
                call' = [call EXCEPT ![c] = [stage |-> s, function |-> f, worker |-> Main]]
    BY <1>1 DEF Schedule, Begin
  <2>2. mainPc' \in {mainPc, "crashed"}
    BY <1>1 DEF Schedule, Begin
  <2>3. (c = Main => mainPc = "function") /\ (c \in Workers => pc[c] = "running")
    BY <1>1 DEF Schedule, Executing
  <2> QED
    BY <1>1, <2>1, <2>2, <2>3 DEF Schedule
<1>2. ASSUME NEW c \in Callers, Enqueue(c)
      PROVE  CallersInv'
  BY <1>2 DEF Enqueue, NoCall
<1>3. ASSUME NEW c \in Callers, NEW w \in Workers, Spawn(c, w)
      PROVE  CallersInv'
  <2>1. w \notin threads /\ mState[w] = "IDLE" /\ mFunction[w] = NoFunction
    BY <1>3 DEF Spawn, WorkersInv
  <2>2. \A d \in Callers : Holds(d) => call[d].worker # w
    BY <1>3 DEF Spawn
  <2> QED
    BY <1>3, <2>1, <2>2 DEF Spawn
<1>4. ASSUME NEW c \in Callers, Attach(c)
      PROVE  CallersInv'
  BY <1>4 DEF Attach
<1>5. ASSUME NEW c \in Callers, GiveFunction(c)
      PROVE  CallersInv'
  BY <1>5 DEF GiveFunction
<1>6. ASSUME NEW c \in Callers, WakeWorker(c)
      PROVE  CallersInv'
  BY <1>6 DEF WakeWorker, NoCall
<1>7. ASSUME NEW w \in Workers, StartFunction(w)
      PROVE  CallersInv'
  BY <1>7 DEF StartFunction
<1>8. ASSUME NEW w \in Workers, FinishFunction(w)
      PROVE  CallersInv'
  BY <1>8 DEF FinishFunction, NoCall
<1>9. ASSUME NEW w \in Workers, BecomeIdle(w)
      PROVE  CallersInv'
  BY <1>9 DEF BecomeIdle
<1>10. ASSUME NEW w \in Workers, TakeFromQueue(w)
       PROVE  CallersInv'
  BY <1>10 DEF TakeFromQueue
<1>11. ASSUME NEW w \in Workers, Expire(w)
       PROVE  CallersInv'
  BY <1>11 DEF Expire
<1>12. ASSUME NEW w \in Workers, Detach(w)
       PROVE  CallersInv'
  BY <1>12 DEF Detach
<1>13. CASE MainReturns
  BY <1>13 DEF MainReturns, NoCall
<1>14. CASE AllThreadsEnded
  BY <1>14 DEF AllThreadsEnded
<1> QED
  BY <1>1, <1>2, <1>3, <1>4, <1>5, <1>6, <1>7, <1>8, <1>9, <1>10, <1>11, <1>12,
     <1>13, <1>14 DEF Step

(* Every step keeps the count of threads. *)
LEMMA CountStep ==
  ASSUME IInv, Step
  PROVE  IsFiniteSet(threads)' /\ RunsAttached'
<1> USE ThreadPoolAssumption DEF IInv, TypeOK, RunsAttached, Proceed
<1>w. \A w \in Workers : pc'[w] = "running" => w \in threads'
  BY WorkersStep DEF WorkersInv
<1>1. ASSUME NEW c \in Callers, NEW f \in Functions, Schedule(c, f)
      PROVE  /\ UNCHANGED <<threads, nonDaemonThreads>>
             /\ groupLoad' = 0 <=> groupLoad = 0
  BY <1>1 DEF Schedule, Begin
<1>2. ASSUME NEW c \in Callers, Attach(c)
      PROVE  IsFiniteSet(threads)' /\ RunsAttached'
  <2>1. call[c].worker \in Workers \ threads
    BY <1>2 DEF Attach, CallersInv, Holds
  <2>2. threads' \ {Main} = (threads \ {Main}) \cup {call[c].worker}
    BY <1>2, <2>1 DEF Attach
  <2>3. /\ IsFiniteSet(threads')
        /\ Cardinality(threads' \ {Main}) = Cardinality(threads \ {Main}) + 1
    BY <1>2, <2>1, <2>2, FS_AddElement, FS_Subset DEF Attach
  <2>4. IsFiniteSet(threads \ {Main}) /\ Cardinality(threads \ {Main}) \in Nat
    BY FS_Subset, FS_CardinalityType
  <2> QED
    BY <1>2, <1>w, <2>3, <2>4 DEF Attach
<1>3. ASSUME NEW w \in Workers, Detach(w)
      PROVE  IsFiniteSet(threads)' /\ RunsAttached'
  <2>1. w \in threads \ {Main}
    BY <1>3 DEF Detach, WorkersInv
  <2>2. threads' \ {Main} = (threads \ {Main}) \ {w} /\ threads' = threads \ {w}
    BY <1>3 DEF Detach
  <2>3. IsFiniteSet(threads \ {Main}) /\ Cardinality(threads \ {Main}) \in Nat
    BY FS_Subset, FS_CardinalityType
  <2>4. IsFiniteSet(threads')
    BY <2>2, FS_Subset
  <2>5. \A T : IsFiniteSet(T) /\ w \in T => Cardinality(T \ {w}) = Cardinality(T) - 1
    BY FS_RemoveElement
  <2>6. /\ IsFiniteSet(threads')
        /\ Cardinality(threads' \ {Main}) = Cardinality(threads \ {Main}) - 1
    BY <2>1, <2>2, <2>3, <2>4, <2>5, Zenon
  <2> QED
    BY <1>3, <1>w, <2>3, <2>6 DEF Detach
<1>4. ASSUME UNCHANGED <<threads, nonDaemonThreads, groupLoad>>
      PROVE  IsFiniteSet(threads)' /\ RunsAttached'
  BY <1>4, <1>w
<1>5. ASSUME UNCHANGED <<threads, nonDaemonThreads>>, groupLoad' = 0 <=> groupLoad = 0
      PROVE  IsFiniteSet(threads)' /\ RunsAttached'
  BY <1>5, <1>w
<1> QED
  BY <1>1, <1>2, <1>3, <1>4, <1>5
  DEF Step, Enqueue, Spawn, GiveFunction, WakeWorker, StartFunction, FinishFunction,
      BecomeIdle, TakeFromQueue, Expire, MainReturns, AllThreadsEnded

(* Every step keeps the group that has taken a function. *)
LEMMA GroupStep ==
  ASSUME IInv, Step
  PROVE  GroupInv'
<1> USE DEF IInv, TypeOK, GroupInv
<1>1. ASSUME NEW c \in Callers, NEW f \in Functions, Schedule(c, f)
      PROVE  GroupInv'
  BY <1>1 DEF Schedule, Begin
<1>2. ASSUME UNCHANGED groupLoad,
             \A f \in Functions : progress'[f] = "virtual" => progress[f] = "virtual"
      PROVE  GroupInv'
  BY <1>2
<1> QED
  BY <1>1, <1>2
  DEF Step, Enqueue, Spawn, Attach, GiveFunction, WakeWorker, StartFunction,
      FinishFunction, BecomeIdle, TakeFromQueue, Expire, Detach, MainReturns,
      AllThreadsEnded

(* A worker that runs a function, or is about to, is the place of that        *)
(* function; and so is a caller that has not given it away.                   *)
LEMMA Places ==
  ASSUME IInv
  PROVE  /\ \A w \in Workers :
              pc[w] \in {"start", "running"} /\ mFunction[w] \in Functions =>
                /\ Carriers(mFunction[w]) = {w}
                /\ InQueue(mFunction[w]) = {} /\ CallersOf(mFunction[w]) = {}
                /\ progress[mFunction[w]] \in {"given", "running"}
         /\ \A c \in Callers :
              call[c].stage \notin {"none", "wake"} =>
                /\ CallersOf(call[c].function) = {c}
                /\ InQueue(call[c].function) = {} /\ Carriers(call[c].function) = {}
                /\ progress[call[c].function] = "called"
<1> USE DEF IInv
<1>1. ASSUME NEW w \in Workers, pc[w] \in {"start", "running"}, mFunction[w] \in Functions
      PROVE  /\ Carriers(mFunction[w]) = {w}
             /\ InQueue(mFunction[w]) = {} /\ CallersOf(mFunction[w]) = {}
             /\ progress[mFunction[w]] \in {"given", "running"}
  <2>1. w \in Carriers(mFunction[w])
    BY <1>1 DEF Carriers
  <2> QED
    BY <1>1, <2>1 DEF PlaceInv, Placed
<1>2. ASSUME NEW c \in Callers, call[c].stage \notin {"none", "wake"}
      PROVE  /\ CallersOf(call[c].function) = {c}
             /\ InQueue(call[c].function) = {} /\ Carriers(call[c].function) = {}
             /\ progress[call[c].function] = "called"
  <2>1. call[c].function \in Functions
    BY <1>2 DEF CallersInv
  <2>2. c \in CallersOf(call[c].function)
    BY <1>2 DEF CallersOf
  <2> QED
    BY <2>1, <2>2 DEF PlaceInv, Placed
<1> QED
  BY <1>1, <1>2

(* Every step leaves every function in one place. *)
LEMMA PlaceStep ==
  ASSUME IInv, Step
  PROVE  PlaceInv'
<1> USE ThreadPoolAssumption DEF IInv, TypeOK, Proceed
<1>1. ASSUME NEW c \in Callers, NEW f \in Functions, Schedule(c, f)
      PROVE  PlaceInv'
  <2>1. \A g \in Functions : InQueue(g)' = InQueue(g) /\ Carriers(g)' = Carriers(g)
    BY <1>1 DEF Schedule, InQueue, Carriers
  <2>2. InQueue(f) = {} /\ Carriers(f) = {} /\ CallersOf(f) = {}
    BY <1>1 DEF Schedule, PlaceInv, Placed
  <2>3. ASSUME UNCHANGED call,
               progress' = progress \/ progress' = [progress EXCEPT ![f] = "virtual"]
        PROVE  PlaceInv'
    <3>1. \A g \in Functions : CallersOf(g)' = CallersOf(g)
      BY <2>3 DEF CallersOf
    <3> QED
      BY <1>1, <2>1, <2>2, <2>3, <3>1 DEF PlaceInv, Placed, Schedule
  <2>4. ASSUME NEW s \in {"enqueue", "launch"}, Begin(c, f, s)
        PROVE  PlaceInv'
    <3>1. CallersOf(f)' = {c}
      BY <2>2, <2>4 DEF CallersOf, Begin
    <3>2. \A g \in Functions \ {f} : CallersOf(g)' = CallersOf(g)
      BY <1>1, <2>4 DEF CallersOf, Begin, Schedule, NoCall
    <3>3. progress' = [progress EXCEPT ![f] = "called"]
      BY <2>4 DEF Begin
    <3> QED
      BY <2>1, <2>2, <3>1, <3>2, <3>3 DEF PlaceInv, Placed
  <2> QED
    BY <1>1, <2>3, <2>4 DEF Schedule
<1>2. ASSUME NEW c \in Callers, Enqueue(c)
      PROVE  PlaceInv'
  <2>0. call[c].function \in Functions
    BY <1>2 DEF Enqueue, CallersInv
  <2>1. PICK f \in Functions :
        /\ f = call[c].function
        /\ CallersOf(f) = {c} /\ InQueue(f) = {} /\ Carriers(f) = {}
    BY <1>2, <2>0, Places DEF Enqueue
  <2>2. \A g \in Functions : CallersOf(g)' = CallersOf(g) \ {c}
    BY <1>2, <2>1 DEF Enqueue, CallersOf, NoCall
  <2>3. \A g \in Functions : Carriers(g)' = Carriers(g)
    BY <1>2 DEF Enqueue, Carriers
  <2>4. /\ DOMAIN eventQueue = 1 .. Len(eventQueue) /\ Len(eventQueue) \in Nat
        /\ DOMAIN eventQueue' = 1 .. (Len(eventQueue) + 1)
        /\ \A i \in 1 .. Len(eventQueue) : eventQueue'[i] = eventQueue[i]
        /\ eventQueue'[Len(eventQueue) + 1] = f
    BY <1>2, <2>1 DEF Enqueue
  <2>5. \A g \in Functions : InQueue(g)' =
          InQueue(g) \cup (IF g = f THEN {Len(eventQueue) + 1} ELSE {})
    BY <2>4 DEF InQueue
  <2>6. progress' = [progress EXCEPT ![f] = "queued"]
    BY <1>2, <2>1 DEF Enqueue
  <2>7. CallersOf(f)' = {} /\ \A g \in Functions \ {f} : CallersOf(g)' = CallersOf(g)
    BY <2>1, <2>2 DEF CallersOf
  <2>8. Placed(f)'
    <3>1. InQueue(f)' = {Len(eventQueue) + 1} /\ Carriers(f)' = {} /\ progress'[f] = "queued"
      BY <2>1, <2>3, <2>5, <2>6
    <3> QED
      BY <2>7, <3>1 DEF Placed
  <2>9. ASSUME NEW g \in Functions \ {f}
        PROVE  Placed(g)'
    BY <2>3, <2>5, <2>6, <2>7 DEF PlaceInv, Placed
  <2> QED
    BY <2>8, <2>9 DEF PlaceInv
<1>3. ASSUME NEW c \in Callers, NEW w \in Workers, Spawn(c, w)
      PROVE  PlaceInv'
  <2>1. \A g \in Functions : CallersOf(g)' = CallersOf(g) /\ InQueue(g)' = InQueue(g)
    BY <1>3 DEF Spawn, CallersOf, InQueue
  <2>2. \A g \in Functions : Carriers(g)' = Carriers(g)
    BY <1>3 DEF Spawn, Carriers, WorkersInv
  <2> QED
    BY <1>3, <2>1, <2>2 DEF Spawn, PlaceInv, Placed
<1>4. ASSUME NEW c \in Callers, Attach(c)
      PROVE  PlaceInv'
  <2>1. \A g \in Functions : CallersOf(g)' = CallersOf(g) /\ InQueue(g)' = InQueue(g)
                             /\ Carriers(g)' = Carriers(g)
    BY <1>4 DEF Attach, CallersOf, InQueue, Carriers
  <2> QED
    BY <1>4, <2>1 DEF Attach, PlaceInv, Placed
<1>5. ASSUME NEW c \in Callers, GiveFunction(c)
      PROVE  PlaceInv'
  <2>0. call[c].function \in Functions /\ call[c].worker \in Workers
    BY <1>5 DEF GiveFunction, CallersInv, Holds
  <2>1. PICK f \in Functions, w \in Workers :
        /\ f = call[c].function /\ w = call[c].worker
        /\ CallersOf(f) = {c} /\ InQueue(f) = {} /\ Carriers(f) = {}
        /\ pc[w] = "start" /\ mFunction[w] = NoFunction
    <3>1. /\ pc[call[c].worker] = "start" /\ mFunction[call[c].worker] = NoFunction
          /\ CallersOf(call[c].function) = {c}
          /\ InQueue(call[c].function) = {} /\ Carriers(call[c].function) = {}
      BY <1>5, Places DEF GiveFunction, CallersInv, Holds
    <3> QED
      BY <2>0, <3>1
  <2>2. CallersOf(f)' = {} /\ \A g \in Functions \ {f} : CallersOf(g)' = CallersOf(g)
    BY <1>5, <2>1 DEF GiveFunction, CallersOf
  <2>3. Carriers(f)' = {w} /\ \A g \in Functions \ {f} : Carriers(g)' = Carriers(g)
    BY <1>5, <2>1 DEF GiveFunction, Carriers
  <2>4. \A g \in Functions : InQueue(g)' = InQueue(g)
    BY <1>5 DEF GiveFunction, InQueue
  <2>5. progress' = [progress EXCEPT ![f] = "given"]
    BY <1>5, <2>1 DEF GiveFunction
  <2>6. Placed(f)'
    BY <2>1, <2>2, <2>3, <2>4, <2>5 DEF Placed
  <2>7. ASSUME NEW g \in Functions \ {f}
        PROVE  Placed(g)'
    BY <2>2, <2>3, <2>4, <2>5 DEF PlaceInv, Placed
  <2> QED
    BY <2>6, <2>7 DEF PlaceInv
<1>6. ASSUME NEW c \in Callers, WakeWorker(c)
      PROVE  PlaceInv'
  <2>1. \A g \in Functions : CallersOf(g)' = CallersOf(g)
    BY <1>6 DEF WakeWorker, CallersOf, NoCall
  <2>2. \A g \in Functions : InQueue(g)' = InQueue(g) /\ Carriers(g)' = Carriers(g)
    BY <1>6 DEF WakeWorker, InQueue, Carriers
  <2> QED
    BY <1>6, <2>1, <2>2 DEF WakeWorker, PlaceInv, Placed
<1>7. ASSUME NEW w \in Workers, StartFunction(w)
      PROVE  PlaceInv'
  <2>1. PICK f \in Functions :
        /\ f = mFunction[w] /\ Carriers(f) = {w}
        /\ InQueue(f) = {} /\ CallersOf(f) = {}
    BY <1>7, Places DEF StartFunction
  <2>2. \A g \in Functions : CallersOf(g)' = CallersOf(g) /\ InQueue(g)' = InQueue(g)
                             /\ Carriers(g)' = Carriers(g)
    BY <1>7 DEF StartFunction, CallersOf, InQueue, Carriers
  <2>3. progress' = [progress EXCEPT ![f] = "running"]
    BY <1>7, <2>1 DEF StartFunction
  <2> QED
    BY <2>1, <2>2, <2>3 DEF PlaceInv, Placed
<1>8. ASSUME NEW w \in Workers, FinishFunction(w)
      PROVE  PlaceInv'
  <2>1. PICK f \in Functions :
        /\ f = mFunction[w] /\ Carriers(f) = {w}
        /\ InQueue(f) = {} /\ CallersOf(f) = {}
    BY <1>8, Places DEF FinishFunction, WorkersInv
  <2>2. \A g \in Functions : CallersOf(g)' = CallersOf(g) /\ InQueue(g)' = InQueue(g)
    BY <1>8 DEF FinishFunction, CallersOf, InQueue
  <2>3. Carriers(f)' = {} /\ \A g \in Functions \ {f} : Carriers(g)' = Carriers(g)
    BY <1>8, <2>1 DEF FinishFunction, Carriers
  <2>4. progress' = [progress EXCEPT ![f] = "done"]
    BY <1>8, <2>1 DEF FinishFunction
  <2> QED
    BY <2>1, <2>2, <2>3, <2>4 DEF PlaceInv, Placed
<1>9. ASSUME NEW w \in Workers, BecomeIdle(w)
      PROVE  PlaceInv'
  <2>1. \A g \in Functions : CallersOf(g)' = CallersOf(g) /\ InQueue(g)' = InQueue(g)
                             /\ Carriers(g)' = Carriers(g)
    BY <1>9 DEF BecomeIdle, CallersOf, InQueue, Carriers
  <2> QED
    BY <1>9, <2>1 DEF BecomeIdle, PlaceInv, Placed
<1>10. ASSUME NEW w \in Workers, TakeFromQueue(w)
       PROVE  PlaceInv'
  <2>1. PICK f \in Functions : f = Head(eventQueue) /\ 1 \in InQueue(f)
    BY <1>10 DEF TakeFromQueue, InQueue
  <2>2. InQueue(f) = {1} /\ Carriers(f) = {} /\ CallersOf(f) = {}
    BY <2>1 DEF PlaceInv, Placed
  <2>3. \A g \in Functions : CallersOf(g)' = CallersOf(g)
    BY <1>10 DEF TakeFromQueue, CallersOf
  <2>4. \A g \in Functions : Carriers(g)' =
          Carriers(g) \cup (IF g = f THEN {w} ELSE {})
    BY <1>10, <2>1 DEF TakeFromQueue, Carriers
  <2>5. /\ DOMAIN eventQueue' = 1 .. (Len(eventQueue) - 1)
        /\ \A j \in 1 .. (Len(eventQueue) - 1) : eventQueue'[j] = eventQueue[j + 1]
        /\ DOMAIN eventQueue = 1 .. Len(eventQueue) /\ Len(eventQueue) \in Nat
    BY <1>10 DEF TakeFromQueue
  <2>6. \A g \in Functions, j \in Nat : j \in InQueue(g)' <=> j # 0 /\ j + 1 \in InQueue(g)
    BY <2>5 DEF InQueue
  <2>7. \A g \in Functions : InQueue(g) \subseteq Nat \ {0} /\ InQueue(g)' \subseteq Nat \ {0}
    BY <2>5 DEF InQueue
  <2>8. InQueue(f)' = {}
    BY <2>1, <2>2, <2>6, <2>7
  <2>9. ASSUME NEW g \in Functions \ {f}
        PROVE  /\ InQueue(g) = {} => InQueue(g)' = {}
               /\ \A i : InQueue(g) = {i} => InQueue(g)' = {i - 1}
    <3>1. 1 \notin InQueue(g)
      BY <1>10, <2>1 DEF TakeFromQueue, InQueue
    <3>2. InQueue(g) = {} => InQueue(g)' = {}
      BY <2>6, <2>7
    <3>3. ASSUME NEW i, InQueue(g) = {i}
          PROVE  InQueue(g)' = {i - 1}
      <4>1. i \in Nat /\ i > 1
        BY <2>7, <3>1, <3>3
      <4>2. \A j \in Nat : j \in InQueue(g)' <=> j = i - 1
        BY <2>6, <3>3, <4>1
      <4> QED
        BY <2>7, <4>1, <4>2
    <3> QED
      BY <3>2, <3>3
  <2>10. progress' = [progress EXCEPT ![f] = "given"]
    BY <1>10, <2>1 DEF TakeFromQueue
  <2>11. Placed(f)'
    BY <2>2, <2>3, <2>4, <2>8, <2>10 DEF Placed
  <2>12. ASSUME NEW g \in Functions \ {f}
         PROVE  Placed(g)'
    <3>1. /\ CallersOf(g)' = CallersOf(g) /\ Carriers(g)' = Carriers(g)
          /\ progress'[g] = progress[g]
      BY <2>3, <2>4, <2>10
    <3>2. Placed(g)
      BY DEF PlaceInv
    <3> QED
      BY <2>9, <3>1, <3>2 DEF Placed
  <2> QED
    BY <2>11, <2>12 DEF PlaceInv
<1>11. ASSUME NEW w \in Workers, Expire(w) \/ Detach(w)
       PROVE  PlaceInv'
  <2>1. \A g \in Functions : CallersOf(g)' = CallersOf(g) /\ InQueue(g)' = InQueue(g)
                             /\ Carriers(g)' = Carriers(g)
    BY <1>11 DEF Expire, Detach, CallersOf, InQueue, Carriers
  <2> QED
    BY <1>11, <2>1 DEF Expire, Detach, PlaceInv, Placed
<1>12. CASE MainReturns \/ AllThreadsEnded
  <2>1. \A g \in Functions : CallersOf(g)' = CallersOf(g) /\ InQueue(g)' = InQueue(g)
                             /\ Carriers(g)' = Carriers(g)
    BY <1>12 DEF MainReturns, AllThreadsEnded, CallersOf, InQueue, Carriers
  <2> QED
    BY <1>12, <2>1 DEF MainReturns, AllThreadsEnded, PlaceInv, Placed
<1> QED
  BY <1>1, <1>2, <1>3, <1>4, <1>5, <1>6, <1>7, <1>8, <1>9, <1>10, <1>11, <1>12 DEF Step

(* A worker runs what it was given. *)
LEMMA CarriersStep ==
  ASSUME IInv, Alive, Step
  PROVE  CarriersInv'
<1> USE ThreadPoolAssumption DEF IInv, TypeOK, CarriersInv
<1>1. ASSUME NEW f \in Functions,
             \A g \in Functions \ {f} : progress'[g] = progress[g],
             UNCHANGED <<pc, mFunction>>, Carriers(f) = {},
             Alive' => Alive
      PROVE  CarriersInv'
  <2>1. \A w \in Workers : pc[w] \in {"start", "running"} => mFunction[w] # f
    BY <1>1 DEF Carriers
  <2>2. \A w \in Workers : pc[w] = "running" => mFunction[w] \in Functions
    BY DEF WorkersInv
  <2> QED
    BY <1>1, <2>1, <2>2
<1>2. ASSUME NEW c \in Callers, NEW f \in Functions, Schedule(c, f)
      PROVE  CarriersInv'
  BY <1>1, <1>2 DEF Schedule, Begin, PlaceInv, Placed
<1>3. ASSUME NEW c \in Callers, Enqueue(c)
      PROVE  CarriersInv'
  <2>1. call[c].function \in Functions /\ Carriers(call[c].function) = {}
    BY <1>3, Places DEF Enqueue, CallersInv
  <2> QED
    BY <1>1, <1>3, <2>1 DEF Enqueue, Alive
<1>4. ASSUME NEW c \in Callers, NEW w \in Workers, Spawn(c, w)
      PROVE  CarriersInv'
  BY <1>4 DEF Spawn, WorkersInv
<1>5. ASSUME NEW c \in Callers, Attach(c) \/ WakeWorker(c)
      PROVE  CarriersInv'
  BY <1>5 DEF Attach, WakeWorker, Alive
<1>6. ASSUME NEW c \in Callers, GiveFunction(c)
      PROVE  CarriersInv'
  <2>1. /\ call[c].function \in Functions /\ Carriers(call[c].function) = {}
        /\ call[c].worker \in Workers /\ pc[call[c].worker] = "start"
    BY <1>6, Places DEF GiveFunction, CallersInv, Holds
  <2> QED
    BY <1>6, <2>1 DEF GiveFunction, Carriers, Alive
<1>7. ASSUME NEW w \in Workers, StartFunction(w)
      PROVE  CarriersInv'
  <2>1. mFunction[w] \in Functions /\ Carriers(mFunction[w]) = {w}
    BY <1>7, Places DEF StartFunction
  <2>2. \A v \in Workers \ {w} :
          pc[v] \in {"start", "running"} => mFunction[v] # mFunction[w]
    BY <2>1 DEF Carriers
  <2> QED
    BY <1>7, <2>1, <2>2 DEF StartFunction, Alive
<1>8. ASSUME NEW w \in Workers, FinishFunction(w)
      PROVE  CarriersInv'
  <2>1. mFunction[w] \in Functions /\ Carriers(mFunction[w]) = {w}
    BY <1>8, Places DEF FinishFunction, WorkersInv
  <2>2. \A v \in Workers \ {w} :
          pc[v] \in {"start", "running"} => mFunction[v] # mFunction[w]
    BY <2>1 DEF Carriers
  <2> QED
    BY <1>8, <2>1, <2>2 DEF FinishFunction, Alive
<1>9. ASSUME NEW w \in Workers, BecomeIdle(w) \/ Expire(w) \/ Detach(w)
      PROVE  CarriersInv'
  BY <1>9 DEF BecomeIdle, Expire, Detach, Alive
<1>10. ASSUME NEW w \in Workers, TakeFromQueue(w)
       PROVE  CarriersInv'
  <2>1. /\ Head(eventQueue) \in Functions
        /\ 1 \in InQueue(Head(eventQueue))
    BY <1>10 DEF TakeFromQueue, InQueue
  <2>2. Carriers(Head(eventQueue)) = {}
    BY <2>1 DEF PlaceInv, Placed
  <2> QED
    BY <1>10, <2>1, <2>2 DEF TakeFromQueue, Carriers, Alive
<1>11. CASE MainReturns \/ AllThreadsEnded
  BY <1>11 DEF MainReturns, AllThreadsEnded, Alive
<1> QED
  BY <1>2, <1>3, <1>4, <1>5, <1>6, <1>7, <1>8, <1>9, <1>10, <1>11 DEF Step

(* When the counter is zero, there is no thread but main()'s and no group; so *)
(* nobody carries a function, and nobody calls one.                           *)
LEMMA NobodyLeft ==
  ASSUME IInv, AllThreadsEnded
  PROVE  \A f \in Functions : progress[f] \in {"new", "queued", "done"}
<1> USE ThreadPoolAssumption DEF IInv, TypeOK
<1>1. mainPc = "wait" /\ nonDaemonThreads = 0
  BY DEF AllThreadsEnded
<1>2. IsFiniteSet(threads \ {Main}) /\ Cardinality(threads \ {Main}) \in Nat
  BY FS_Subset, FS_CardinalityType
<1>3. groupLoad = 0 /\ Cardinality(threads \ {Main}) = 0
  BY <1>1, <1>2 DEF RunsAttached
<1>4. threads \ {Main} = {}
  BY <1>2, <1>3, FS_EmptySet
<1>5. \A w \in Workers : pc[w] \in {"unborn", "start", "dead"}
  BY <1>4 DEF WorkersInv, Pcs
<1>6. \A c \in Callers : call[c].stage = "none"
  BY <1>1, <1>5 DEF CallersInv, Callers
<1>7. \A w \in Workers : pc[w] # "start"
  BY <1>4, <1>6 DEF WorkersInv
<1>8. \A f \in Functions : Carriers(f) = {}
  BY <1>5, <1>7 DEF Carriers
<1>9. \A f \in Functions : CallersOf(f) = {}
  BY <1>6 DEF CallersOf, CallersInv, NoCall
<1> QED
  BY <1>3, <1>8, <1>9 DEF PlaceInv, Placed, GroupInv, Progress

(* The inductive invariant is inductive. *)
LEMMA IInvStep == IInv /\ [Next]_vars => IInv'
<1>1. ASSUME IInv, Next
      PROVE  IInv'
  <2>1. Alive /\ Step
    BY <1>1, NextIsStep
  <2>2. EndsQuiet'
    <3>1. CASE AllThreadsEnded
      BY <1>1, <3>1, NobodyLeft DEF EndsQuiet, AllThreadsEnded
    <3>2. CASE mainPc' # "ended"
      BY <3>2 DEF EndsQuiet
    <3> QED
      BY <2>1, <3>1, <3>2
      DEF Step, Alive, Schedule, Begin, Enqueue, Spawn, Attach, GiveFunction,
          WakeWorker, StartFunction, FinishFunction, BecomeIdle, TakeFromQueue,
          Expire, Detach, MainReturns
  <2> QED
    BY <1>1, <2>1, <2>2, TypeStep, WorkersStep, CallersStep, CountStep, GroupStep,
       PlaceStep, CarriersStep DEF IInv
<1>2. ASSUME IInv, UNCHANGED vars
      PROVE  IInv'
  <2>1. TypeOK' /\ WorkersInv' /\ CallersInv'
    BY <1>2 DEF IInv, vars, TypeOK, WorkersInv, CallersInv, Holds
  <2>2. IsFiniteSet(threads)' /\ RunsAttached' /\ GroupInv' /\ EndsQuiet'
    BY <1>2 DEF IInv, vars, RunsAttached, GroupInv, EndsQuiet
  <2>3. PlaceInv'
    <3>1. ASSUME NEW f \in Functions
          PROVE  Placed(f)' = Placed(f)
      <4>1. /\ InQueue(f)' = InQueue(f) /\ Carriers(f)' = Carriers(f)
            /\ CallersOf(f)' = CallersOf(f) /\ progress' = progress
        BY <1>2 DEF vars, InQueue, Carriers, CallersOf
      <4> QED
        BY <4>1 DEF Placed
    <3> QED
      BY <1>2, <3>1 DEF IInv, PlaceInv
  <2>4. CarriersInv'
    BY <1>2 DEF IInv, vars, CarriersInv, Alive
  <2> QED
    BY <2>1, <2>2, <2>3, <2>4 DEF IInv
<1> QED
  BY <1>1, <1>2

(* The inductive invariant of the specification. *)
THEOREM Invariance == Spec => []IInv
BY InitIInv, IInvStep, PTL DEF Spec

(* Every variable keeps its type: in particular the counter of threads never *)
(* falls below zero.                                                         *)
THEOREM TypeCorrect == Spec => []TypeOK
<1>1. IInv => TypeOK
  BY DEF IInv
<1> QED
  BY <1>1, Invariance, PTL

(* No function is lost or doubled, none runs outside the map of threads, and *)
(* WaitForAllThreads cuts none off.                                          *)
THEOREM NothingLostCorrect == Spec => []NothingLost
<1>1. ASSUME IInv
      PROVE  OnePlace
  <2>1. Cardinality({}) = 0 /\ \A x : Cardinality({x}) = 1
    BY FS_EmptySet, FS_Singleton
  <2>2. ASSUME NEW f \in Functions
        PROVE  Cardinality(InQueue(f)) + Cardinality(Carriers(f))
                 + Cardinality(CallersOf(f)) =
                 (IF progress[f] \in {"new", "done", "virtual"} THEN 0 ELSE 1)
    <3>1. Cardinality(InQueue(f)) = IF progress[f] = "queued" THEN 1 ELSE 0
      BY <1>1, <2>1 DEF IInv, PlaceInv, Placed
    <3>2. Cardinality(Carriers(f)) = IF progress[f] \in {"given", "running"} THEN 1 ELSE 0
      BY <1>1, <2>1 DEF IInv, PlaceInv, Placed
    <3>3. Cardinality(CallersOf(f)) = IF progress[f] = "called" THEN 1 ELSE 0
      BY <1>1, <2>1 DEF IInv, PlaceInv, Placed
    <3>4. progress[f] \in Progress
      BY <1>1 DEF IInv, TypeOK
    <3> QED
      BY <3>1, <3>2, <3>3, <3>4 DEF Progress
  <2> QED
    BY <2>2 DEF OnePlace, InQueue, Carriers, CallersOf
<1>2. IInv => NothingLost
  BY <1>1 DEF IInv, NothingLost
<1> QED
  BY <1>2, Invariance, PTL

-------------------------------------------------------------------------------

(* A step that changes how far one function has come is a step of the call's  *)
(* promise about that function.                                               *)
LEMMA OneMoves ==
  ASSUME NEW f \in Functions, Alive, Alive',
         \A g \in Functions \ {f} : progress'[g] = progress[g]
  PROVE  Async!Moves(f, StageOf(f), StageOf(f)')
<1>1. Program = "on" /\ Program' = "on"
  BY DEF Program
<1>2. \A g \in Functions \ {f} : StageOf(g)' = StageOf(g)
  BY DEF StageOf
<1>3. [g \in Functions |-> StageOf(g)]' =
        [[g \in Functions |-> StageOf(g)] EXCEPT ![f] = StageOf(f)']
  BY <1>2
<1>4. [g \in Functions |-> StageOf(g)][f] = StageOf(f)
  OBVIOUS
<1> QED
  BY <1>1, <1>3, <1>4 DEF Async!Moves

(* A step that changes how far no function has come is none, or one that ends *)
(* the program.                                                               *)
LEMMA NobodyMoves ==
  ASSUME UNCHANGED progress
  PROVE  [g \in Functions |-> StageOf(g)]' = [g \in Functions |-> StageOf(g)]
BY DEF StageOf

(* Every step of the threads is a step of the promise, or none. *)
LEMMA StepRefines ==
  ASSUME IInv, Alive, Step
  PROVE  [Async!Next]_(Async!vars)
<1> USE ThreadPoolAssumption
<1> DEFINE stageBar == [g \in Functions |-> StageOf(g)]
<1>t. progress \in [Functions -> Progress]
  BY DEF IInv, TypeOK
<1>s. ASSUME UNCHANGED progress, Alive'
      PROVE  [Async!Next]_(Async!vars)
  <2>1. Program' = Program
    BY <1>s DEF Program
  <2> QED
    BY <1>s, <2>1, NobodyMoves DEF Async!vars
<1>a. ASSUME UNCHANGED progress, mainPc' \in {"exited", "crashed"}
      PROVE  Async!Next
  <2>1. Program = "on" /\ Program' = "aborted"
    BY <1>a DEF Program, Alive
  <2> QED
    BY <1>a, <2>1, NobodyMoves DEF Async!Next, Async!Abort
<1>1. ASSUME NEW c \in Callers, NEW f \in Functions, Schedule(c, f)
      PROVE  [Async!Next]_(Async!vars)
  <2>1. CASE UNCHANGED progress /\ mainPc' = "crashed"
    BY <1>a, <2>1
  <2>2. CASE progress' = [progress EXCEPT ![f] = "called"] /\ UNCHANGED mainPc
    <3>1. StageOf(f) = "new" /\ StageOf(f)' = "taken"
      BY <1>1, <1>t, <2>2 DEF Schedule, StageOf
    <3>2. Async!Moves(f, "new", "taken")
      BY <1>t, <2>2, <3>1, OneMoves DEF Alive
    <3> QED
      BY <3>2 DEF Async!Next, Async!Call
  <2>3. CASE progress' = [progress EXCEPT ![f] = "virtual"] /\ UNCHANGED mainPc
    <3>1. StageOf(f) = "new" /\ StageOf(f)' = "handed over"
      BY <1>1, <1>t, <2>3 DEF Schedule, StageOf
    <3>2. Async!Moves(f, "new", "handed over")
      BY <1>t, <2>3, <3>1, OneMoves DEF Alive
    <3> QED
      BY <3>2 DEF Async!Next, Async!HandOver
  <2> QED
    BY <1>1, <2>1, <2>2, <2>3 DEF Schedule, Begin
<1>2. ASSUME NEW c \in Callers, Enqueue(c)
      PROVE  Async!Next
  <2>1. PICK f \in Functions : f = call[c].function /\ progress[f] = "called"
    BY <1>2, Places DEF IInv, CallersInv, Enqueue
  <2>2. progress' = [progress EXCEPT ![f] = "queued"] /\ UNCHANGED mainPc
    BY <1>2, <2>1 DEF Enqueue
  <2>3. StageOf(f) = "taken" /\ StageOf(f)' = "waiting"
    BY <1>t, <2>1, <2>2 DEF StageOf
  <2>4. Async!Moves(f, "taken", "waiting")
    BY <1>t, <2>2, <2>3, OneMoves DEF Alive
  <2> QED
    BY <2>4 DEF Async!Next, Async!Leave
<1>3. ASSUME NEW c \in Callers, GiveFunction(c)
      PROVE  [Async!Next]_(Async!vars)
  <2>1. PICK f \in Functions : f = call[c].function /\ progress[f] = "called"
    BY <1>3, Places DEF IInv, CallersInv, GiveFunction
  <2>2. progress' = [progress EXCEPT ![f] = "given"] /\ UNCHANGED mainPc
    BY <1>3, <2>1 DEF GiveFunction
  <2>3. \A g \in Functions : StageOf(g)' = StageOf(g)
    BY <1>t, <2>1, <2>2 DEF StageOf
  <2>4. Program' = Program
    BY <2>2 DEF Program, Alive
  <2> QED
    BY <2>3, <2>4 DEF Async!vars
<1>4. ASSUME NEW w \in Workers, StartFunction(w)
      PROVE  Async!Next
  <2>1. PICK f \in Functions : f = mFunction[w] /\ progress[f] = "given"
    BY <1>4 DEF IInv, TypeOK, CarriersInv, StartFunction
  <2>2. progress' = [progress EXCEPT ![f] = "running"]
    BY <1>4, <2>1 DEF StartFunction
  <2>3. StageOf(f) = "taken" /\ StageOf(f)' = "running"
    BY <1>t, <2>1, <2>2 DEF StageOf
  <2>4. CASE UNCHANGED mainPc
    <3>1. Async!Moves(f, "taken", "running")
      BY <1>t, <2>2, <2>3, <2>4, OneMoves DEF Alive
    <3> QED
      BY <3>1 DEF Async!Next, Async!Run
  <2>5. CASE mainPc' = "exited"
    <3>1. Program = "on" /\ Program' = "aborted"
      BY <2>5 DEF Program, Alive
    <3>2. \A g \in Functions \ {f} : StageOf(g)' = StageOf(g)
      BY <1>t, <2>2 DEF StageOf
    <3>3. stageBar' = [stageBar EXCEPT ![f] = "running"] /\ stageBar[f] = "taken"
      BY <2>3, <3>2
    <3>4. Async!RunAndAbort(f)
      BY <3>1, <3>3 DEF Async!RunAndAbort
    <3> QED
      BY <3>4 DEF Async!Next
  <2> QED
    BY <1>4, <2>4, <2>5 DEF StartFunction
<1>5. ASSUME NEW w \in Workers, FinishFunction(w)
      PROVE  Async!Next
  <2>1. PICK f \in Functions : f = mFunction[w] /\ progress[f] = "running"
    BY <1>5 DEF IInv, TypeOK, WorkersInv, CarriersInv, FinishFunction
  <2>2. progress' = [progress EXCEPT ![f] = "done"] /\ UNCHANGED mainPc
    BY <1>5, <2>1 DEF FinishFunction
  <2>3. StageOf(f) = "running" /\ StageOf(f)' = "done"
    BY <1>t, <2>1, <2>2 DEF StageOf
  <2>4. Async!Moves(f, "running", "done")
    BY <1>t, <2>2, <2>3, OneMoves DEF Alive
  <2> QED
    BY <2>4 DEF Async!Next, Async!Return
<1>6. ASSUME NEW w \in Workers, TakeFromQueue(w)
      PROVE  Async!Next
  <2>0. /\ Head(eventQueue) \in Functions
        /\ 1 \in InQueue(Head(eventQueue))
    BY <1>6 DEF IInv, TypeOK, TakeFromQueue, InQueue
  <2>1. PICK f \in Functions : f = Head(eventQueue) /\ progress[f] = "queued"
    BY <2>0 DEF IInv, PlaceInv, Placed
  <2>2. progress' = [progress EXCEPT ![f] = "given"] /\ UNCHANGED mainPc
    BY <1>6, <2>1 DEF TakeFromQueue
  <2>3. StageOf(f) = "waiting" /\ StageOf(f)' = "taken"
    BY <1>t, <2>1, <2>2 DEF StageOf
  <2>4. Async!Moves(f, "waiting", "taken")
    BY <1>t, <2>2, <2>3, OneMoves DEF Alive
  <2> QED
    BY <2>4 DEF Async!Next, Async!Take
<1>7. CASE AllThreadsEnded
  <2>1. \A f \in Functions : StageOf(f) \in {"new", "waiting", "done"}
    BY <1>7, NobodyLeft DEF StageOf
  <2>2. Program = "on" /\ Program' = "ended"
    BY <1>7 DEF AllThreadsEnded, Program, Alive
  <2>3. stageBar' = stageBar
    BY <1>7, NobodyMoves DEF AllThreadsEnded
  <2> QED
    BY <2>1, <2>2, <2>3 DEF Async!Next, Async!End
<1>8. ASSUME UNCHANGED progress, mainPc' \in {mainPc, "wait"}
      PROVE  [Async!Next]_(Async!vars)
  BY <1>8, <1>s DEF Alive
<1> QED
  BY <1>1, <1>2, <1>3, <1>4, <1>5, <1>6, <1>7, <1>8
  DEF Step, Spawn, Attach, WakeWorker, BecomeIdle, Expire, Detach, MainReturns

(* The threads, the queue and the wait of main() implement asynchronous calls. *)
THEOREM Refinement == Spec => AsyncSpec
<1>1. Init => Async!Init
  BY DEF Init, Async!Init, StageOf, Program, Alive
<1>2. ASSUME IInv, [Next]_vars
      PROVE  [Async!Next]_(Async!vars)
  <2>1. CASE Next
    BY <1>2, <2>1, NextIsStep, StepRefines
  <2>2. CASE UNCHANGED vars
    <3>1. Program' = Program
      BY <2>2 DEF vars, Program, Alive
    <3> QED
      BY <2>2, <3>1, NobodyMoves DEF vars, Async!vars
  <2> QED
    BY <1>2, <2>1, <2>2
<1> QED
  BY <1>1, <1>2, Invariance, PTL DEF Spec, AsyncSpec, Async!Spec

================================================================================
