------------------------------ MODULE ThreadPool ------------------------------
(***************************************************************************)
(* The operating-system threads of the VM, the event queue they serve and  *)
(* the wait for their end (framework/src/executors/Threading.cpp and       *)
(* Thread.cpp): LaunchThread, Schedule, ThreadEntry, DetachThread and      *)
(* WaitForAllThreads.                                                      *)
(*                                                                         *)
(* Only functions of type ()V run on a thread.  A function is an async     *)
(* call, made once; it is native or it is bytecode too long for a virtual  *)
(* thread.  The virtual threads appear only as the load of one group, as   *)
(* far as Schedule looks at it.                                            *)
(***************************************************************************)
EXTENDS Integers, Sequences, FiniteSets

CONSTANTS
  Main,        \* the thread of main(), attached by Threading::Init
  Workers,     \* the threads that LaunchThreadInternal can create
  Bytecode,    \* the bytecode functions called
  Native,      \* the native functions called
  GroupLoads,  \* how many virtual threads the one group may have; 0: no group
  MAX_CONCURRENT_THREADS,                       \* Options.h: 50
  MIN_THREADS_FOR_FILLED_EVENT_QUEUE,           \* Options.h: 12
  MIN_EVENT_QUEUE_SIZE_BEFORE_THREAD_LAUNCH,    \* Options.h: 4
  MAX_THREADS_FOR_QUEUED_FUNCTIONS,             \* Options.h: 24
  NoFunction   \* nullptr

Functions == Bytecode \cup Native

Callers == Workers \cup {Main}

ASSUME ThreadPoolAssumption ==
  /\ Main \notin Workers
  /\ Bytecode \cap Native = {}
  /\ NoFunction \notin Functions
  /\ GroupLoads \subseteq Nat

VARIABLES
  pc,                \* where each worker's native thread is in ThreadEntry
  mState,            \* Thread::mState
  mFunction,         \* Thread::mFunction
  threads,           \* the keys of the map threads
  nonDaemonThreads,  \* the counter WaitForAllThreads waits for
  eventQueue,        \* the functions waiting for an idle thread
  groupLoad,         \* getThreadCount() of the virtual-thread group
  call,              \* what each caller is doing about an async call
  mainPc,            \* the thread of main()
  progress           \* how far each function has come

vars == <<pc, mState, mFunction, threads, nonDaemonThreads, eventQueue,
          groupLoad, call, mainPc, progress>>

Pcs ==
  { "unborn",    \* no native thread yet
    "start",     \* in Thread::start, waiting for a function
    "running",   \* executes mFunction, holding mMutex
    "ran",       \* has released mMutex, not yet IDLE
    "queue",     \* waits on eventQueueCondition
    "expired",   \* has left the loop, waits for mutex
    "dead" }     \* detached

ThreadStates == {"IDLE", "RUNNABLE", "TERMINATED"}

\* The steps of LaunchThreadInternal and EnqueueFunction that a caller has left.
CallStages == {"none", "launch", "enqueue", "attach", "give", "wake"}

NoCall == [stage |-> "none", function |-> NoFunction, worker |-> Main]

Progress ==
  { "new", "called", "queued", "given", "running", "done",
    "virtual" }   \* handed to the virtual-thread group

Init ==
  /\ pc = [w \in Workers |-> "unborn"]
  /\ mState = [w \in Workers |-> "IDLE"]
  /\ mFunction = [w \in Workers |-> NoFunction]
  /\ threads = {Main}
  /\ eventQueue = <<>>
  /\ groupLoad \in GroupLoads
  /\ nonDaemonThreads = IF groupLoad = 0 THEN 0 ELSE 1
  /\ call = [c \in Callers |-> NoCall]
  /\ mainPc = "function"
  /\ progress = [f \in Functions |-> "new"]

\* The process is there: main() has not returned, and neither std::exit nor a
\* null dereference has ended it.
Alive == mainPc \in {"function", "wait"}

\* A caller executes code: the main function, or a function on a worker.
Executing(c) ==
  \/ c = Main /\ mainPc = "function"
  \/ c \in Workers /\ pc[c] = "running"

\* ThreadCount(): threads and groups; no daemon is launched.
ThreadCount == Cardinality(threads) + (IF groupLoad = 0 THEN 0 ELSE 1)

-------------------------------------------------------------------------------
(* Schedule and LaunchThread.  They read the sizes of the maps and of the  *)
(* queue with no lock, so a caller acts later on what it read.             *)

\* ScheduleOS for a native function.
QueueNative ==
  \/ ThreadCount >= MAX_CONCURRENT_THREADS
  \/ /\ ThreadCount >= MIN_THREADS_FOR_FILLED_EVENT_QUEUE
     /\ Len(eventQueue) < MIN_EVENT_QUEUE_SIZE_BEFORE_THREAD_LAUNCH
     /\ ThreadCount < MAX_THREADS_FOR_QUEUED_FUNCTIONS

\* The bound: a function is given a thread of its own only while one is unborn.
ThreadLeft ==
  Cardinality({ c \in Callers : call[c].stage = "launch" })
    < Cardinality({ w \in Workers : pc[w] = "unborn" })

\* The caller's next step, for the worker that its function gets.
Proceed(c, stage, worker) ==
  call' = [call EXCEPT ![c] =
             [stage |-> stage, function |-> call[c].function, worker |-> worker]]

Begin(c, f, stage) ==
  /\ stage = "launch" => ThreadLeft
  /\ call' = [call EXCEPT ![c] = [stage |-> stage, function |-> f, worker |-> Main]]
  /\ progress' = [progress EXCEPT ![f] = "called"]

\* Schedule(f): a bytecode function gets a thread of its own until there are too
\* many; then the group takes it, or the queue.  Without a group that is a null
\* dereference.
Schedule(c, f) ==
  /\ Executing(c)
  /\ call[c] = NoCall
  /\ progress[f] = "new"
  /\ IF f \in Native
     THEN /\ Begin(c, f, IF QueueNative THEN "enqueue" ELSE "launch")
          /\ UNCHANGED <<groupLoad, mainPc>>
     ELSE IF ThreadCount < MAX_CONCURRENT_THREADS
     THEN /\ Begin(c, f, "launch")
          /\ UNCHANGED <<groupLoad, mainPc>>
     ELSE IF groupLoad = 0
     THEN /\ mainPc' = "crashed"
          /\ UNCHANGED <<groupLoad, call, progress>>
     ELSE IF groupLoad < Len(eventQueue)
     THEN /\ groupLoad' = groupLoad + 1
          /\ progress' = [progress EXCEPT ![f] = "virtual"]
          /\ UNCHANGED <<call, mainPc>>
     ELSE /\ Begin(c, f, "enqueue")
          /\ UNCHANGED <<groupLoad, mainPc>>
  /\ UNCHANGED <<pc, mState, mFunction, threads, nonDaemonThreads, eventQueue>>

\* EnqueueFunction, under eventQueueMutex.  A lost notify_one costs time only:
\* wait_for looks at the queue again when it times out.
Enqueue(c) ==
  /\ call[c].stage = "enqueue"
  /\ eventQueue' = Append(eventQueue, call[c].function)
  /\ progress' = [progress EXCEPT ![call[c].function] = "queued"]
  /\ call' = [call EXCEPT ![c] = NoCall]
  /\ UNCHANGED <<pc, mState, mFunction, threads, nonDaemonThreads, groupLoad,
                 mainPc>>

\* LaunchThreadInternal constructs the Thread and starts its native thread, which
\* runs at once: into the wait of Thread::start.
Spawn(c, w) ==
  /\ call[c].stage = "launch"
  /\ pc[w] = "unborn"
  /\ pc' = [pc EXCEPT ![w] = "start"]
  /\ Proceed(c, "attach", w)
  /\ UNCHANGED <<mState, mFunction, threads, nonDaemonThreads, eventQueue,
                 groupLoad, mainPc, progress>>

\* AttachThread, under mutex.
Attach(c) ==
  /\ call[c].stage = "attach"
  /\ nonDaemonThreads' = nonDaemonThreads + 1
  /\ threads' = threads \cup {call[c].worker}
  /\ Proceed(c, "give", call[c].worker)
  /\ UNCHANGED <<pc, mState, mFunction, eventQueue, groupLoad, mainPc, progress>>

\* setFunction: waits for IDLE, stores the function, releases mMutex ...
GiveFunction(c) ==
  /\ call[c].stage = "give"
  /\ mState[call[c].worker] = "IDLE"
  /\ mFunction' = [mFunction EXCEPT ![call[c].worker] = call[c].function]
  /\ progress' = [progress EXCEPT ![call[c].function] = "given"]
  /\ Proceed(c, "wake", call[c].worker)
  /\ UNCHANGED <<pc, mState, threads, nonDaemonThreads, eventQueue, groupLoad,
                 mainPc>>

\* Mutant of WakeWorker: setFunction does not set RUNNABLE.
WakeNobody(c) ==
  /\ call[c].stage = "wake"
  /\ call' = [call EXCEPT ![c] = NoCall]
  /\ UNCHANGED <<pc, mState, mFunction, threads, nonDaemonThreads, eventQueue,
                 groupLoad, mainPc, progress>>

\* ... and then takes it again in setState(RUNNABLE).
WakeWorker(c) ==
  /\ call[c].stage = "wake"
  /\ mState' = [mState EXCEPT ![call[c].worker] = "RUNNABLE"]
  /\ call' = [call EXCEPT ![c] = NoCall]
  /\ UNCHANGED <<pc, mFunction, threads, nonDaemonThreads, eventQueue, groupLoad,
                 mainPc, progress>>

-------------------------------------------------------------------------------
(* ThreadEntry.  Nothing in the VM calls interrupt().                      *)

\* Thread::start's wait is over.  Running a native function is not implemented:
\* invokeNative prints and exits.
StartFunction(w) ==
  /\ pc[w] = "start"
  /\ mState[w] = "RUNNABLE"
  /\ mFunction[w] # NoFunction
  /\ progress' = [progress EXCEPT ![mFunction[w]] = "running"]
  /\ IF mFunction[w] \in Native
     THEN /\ mainPc' = "exited"
          /\ UNCHANGED pc
     ELSE /\ pc' = [pc EXCEPT ![w] = "running"]
          /\ UNCHANGED mainPc
  /\ UNCHANGED <<mState, mFunction, threads, nonDaemonThreads, eventQueue,
                 groupLoad, call>>

\* The function returns, with all the async calls it made behind it.
FinishFunction(w) ==
  /\ pc[w] = "running"
  /\ call[w] = NoCall
  /\ pc' = [pc EXCEPT ![w] = "ran"]
  /\ progress' = [progress EXCEPT ![mFunction[w]] = "done"]
  /\ UNCHANGED <<mState, mFunction, threads, nonDaemonThreads, eventQueue,
                 groupLoad, call, mainPc>>

\* setState(IDLE) at the end of Thread::start.
BecomeIdle(w) ==
  /\ pc[w] = "ran"
  /\ pc' = [pc EXCEPT ![w] = "queue"]
  /\ mState' = [mState EXCEPT ![w] = "IDLE"]
  /\ UNCHANGED <<mFunction, threads, nonDaemonThreads, eventQueue, groupLoad,
                 call, mainPc, progress>>

\* Mutant of TakeFromQueue: front() without pop().
PeekAtQueue(w) ==
  /\ pc[w] = "queue"
  /\ eventQueue # <<>>
  /\ mState[w] = "IDLE"
  /\ mFunction' = [mFunction EXCEPT ![w] = Head(eventQueue)]
  /\ mState' = [mState EXCEPT ![w] = "RUNNABLE"]
  /\ pc' = [pc EXCEPT ![w] = "start"]
  /\ progress' = [progress EXCEPT ![Head(eventQueue)] = "given"]
  /\ UNCHANGED <<threads, nonDaemonThreads, eventQueue, groupLoad, call, mainPc>>

\* wait_for found a function in the queue.  The thread pops it and gives it to
\* itself with eventQueueMutex held all along.
TakeFromQueue(w) ==
  /\ pc[w] = "queue"
  /\ eventQueue # <<>>
  /\ mState[w] = "IDLE"
  /\ eventQueue' = Tail(eventQueue)
  /\ mFunction' = [mFunction EXCEPT ![w] = Head(eventQueue)]
  /\ mState' = [mState EXCEPT ![w] = "RUNNABLE"]
  /\ pc' = [pc EXCEPT ![w] = "start"]
  /\ progress' = [progress EXCEPT ![Head(eventQueue)] = "given"]
  /\ UNCHANGED <<threads, nonDaemonThreads, groupLoad, call, mainPc>>

\* wait_for timed out after a second, with nothing in the queue.
Expire(w) ==
  /\ pc[w] = "queue"
  /\ eventQueue = <<>>
  /\ pc' = [pc EXCEPT ![w] = "expired"]
  /\ UNCHANGED <<mState, mFunction, threads, nonDaemonThreads, eventQueue,
                 groupLoad, call, mainPc, progress>>

\* Mutant of Detach: the counter is left alone.
DetachUncounted(w) ==
  /\ pc[w] = "expired"
  /\ mState' = [mState EXCEPT ![w] = "TERMINATED"]
  /\ threads' = threads \ {w}
  /\ pc' = [pc EXCEPT ![w] = "dead"]
  /\ UNCHANGED <<mFunction, nonDaemonThreads, eventQueue, groupLoad, call,
                 mainPc, progress>>

\* DetachThread, under mutex.
Detach(w) ==
  /\ pc[w] = "expired"
  /\ mState' = [mState EXCEPT ![w] = "TERMINATED"]
  /\ threads' = threads \ {w}
  /\ nonDaemonThreads' = nonDaemonThreads - 1
  /\ pc' = [pc EXCEPT ![w] = "dead"]
  /\ UNCHANGED <<mFunction, eventQueue, groupLoad, call, mainPc, progress>>

-------------------------------------------------------------------------------
(* The thread of main().                                                   *)

\* The main function has returned, and so has SyncAllEpochs.
MainReturns ==
  /\ mainPc = "function"
  /\ call[Main] = NoCall
  /\ mainPc' = "wait"
  /\ UNCHANGED <<pc, mState, mFunction, threads, nonDaemonThreads, eventQueue,
                 groupLoad, call, progress>>

\* Mutant of AllThreadsEnded: one thread is taken for the main thread.
AllThreadsButOneEnded ==
  /\ mainPc = "wait"
  /\ nonDaemonThreads <= 1
  /\ mainPc' = "ended"
  /\ UNCHANGED <<pc, mState, mFunction, threads, nonDaemonThreads, eventQueue,
                 groupLoad, call, progress>>

\* WaitForAllThreads returns and main() with it: the process ends.
AllThreadsEnded ==
  /\ mainPc = "wait"
  /\ nonDaemonThreads = 0
  /\ mainPc' = "ended"
  /\ UNCHANGED <<pc, mState, mFunction, threads, nonDaemonThreads, eventQueue,
                 groupLoad, call, progress>>

-------------------------------------------------------------------------------

\* The steps a caller takes once it has called Schedule.
Launch(c) ==
  \/ Enqueue(c)
  \/ \E w \in Workers : Spawn(c, w)
  \/ Attach(c)
  \/ GiveFunction(c)
  \/ WakeWorker(c)

\* The steps of a worker's native thread.
Work(w) ==
  \/ StartFunction(w)
  \/ FinishFunction(w)
  \/ BecomeIdle(w)
  \/ TakeFromQueue(w)
  \/ Expire(w)
  \/ Detach(w)

Next ==
  /\ Alive
  /\ \/ \E c \in Callers, f \in Functions : Schedule(c, f)
     \/ \E c \in Callers : Launch(c)
     \/ \E w \in Workers : Work(w)
     \/ MainReturns
     \/ AllThreadsEnded

Spec == Init /\ [][Next]_vars

\* Every thread that can run does, functions return, and timeouts expire.
Fairness ==
  /\ \A c \in Callers : WF_vars(Alive /\ Launch(c))
  /\ \A w \in Workers : WF_vars(Alive /\ Work(w))
  /\ WF_vars(Alive /\ (MainReturns \/ AllThreadsEnded))

FairSpec == Spec /\ Fairness

-------------------------------------------------------------------------------

\* The type invariant.
TypeOK ==
  /\ pc \in [Workers -> Pcs]
  /\ mState \in [Workers -> ThreadStates]
  /\ mFunction \in [Workers -> Functions \cup {NoFunction}]
  /\ threads \in SUBSET Callers
  /\ nonDaemonThreads \in Nat
  /\ eventQueue \in Seq(Functions)
  /\ groupLoad \in Nat
  /\ call \in [Callers -> [stage : CallStages, function : Functions \cup {NoFunction},
                           worker : Callers]]
  /\ mainPc \in {"function", "wait", "ended", "exited", "crashed"}
  /\ progress \in [Functions -> Progress]

\* WaitForAllThreads returns only when no thread has anything left to do: every
\* function that was given a thread has returned, whoever launched it and when.
EndsQuiet ==
  mainPc = "ended" =>
    \A f \in Functions : progress[f] \in {"new", "queued", "done"}

\* The threads WaitForAllThreads waits for are those in the maps, the main thread
\* excepted, and a thread runs a function only while it is in the map: until then
\* CurrentThread::GetExecutor would end the process.
RunsAttached ==
  /\ nonDaemonThreads = Cardinality(threads \ {Main}) + (IF groupLoad = 0 THEN 0 ELSE 1)
  /\ \A w \in Workers : pc[w] = "running" => w \in threads

\* A function has one place at a time: in the queue, in the one thread that is to
\* run it or runs it, or with the caller that is launching it.
OnePlace ==
  \A f \in Functions :
    LET inQueue == { i \in DOMAIN eventQueue : eventQueue[i] = f }
        carriers == { w \in Workers : mFunction[w] = f /\ pc[w] \in {"start", "running"} }
        callers == { c \in Callers : call[c].function = f
                                     /\ call[c].stage # "wake" }
    IN  Cardinality(inQueue) + Cardinality(carriers) + Cardinality(callers) =
          (IF progress[f] \in {"new", "done", "virtual"} THEN 0 ELSE 1)

\* Whatever the interleaving of callers that launch or queue functions, workers that
\* serve, time out and detach, and main() waiting for them: no function is lost or
\* doubled, none runs outside the map, and none is cut off by the end of main().
NothingLost == OnePlace /\ RunsAttached /\ EndsQuiet

\* A function in terms of the call's promise.
StageOf(f) ==
  CASE progress[f] \in {"called", "given"} -> "taken"
    [] progress[f] = "queued" -> "waiting"
    [] progress[f] = "virtual" -> "handed over"
    [] OTHER -> progress[f]

Program ==
  IF Alive THEN "on" ELSE IF mainPc = "ended" THEN "ended" ELSE "aborted"

Async ==
  INSTANCE AsyncFunctions
    WITH stage <- [f \in Functions |-> StageOf(f)], program <- Program

\* The threads implement asynchronous calls: each function is run at most once, for
\* each call, by a thread that took charge of it, and the program does not end while
\* anybody is about to run one or runs it.
AsyncSpec == Async!Spec

\* "Will always launch a new thread": a function that is being launched runs,
\* unless the process has ended by std::exit or a null dereference.
LaunchedRuns ==
  \A f \in Bytecode :
    (\E c \in Callers : call[c].function = f /\ call[c].stage \in {"launch", "attach", "give", "wake"})
      ~> (progress[f] \in {"running", "done"} \/ mainPc \in {"exited", "crashed"})

\* main() ends, if there is no virtual-thread group.
MainEnds == (mainPc = "wait" /\ groupLoad = 0) ~> mainPc # "wait"

===============================================================================
