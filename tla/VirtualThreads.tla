--------------------------- MODULE VirtualThreads ---------------------------
(***************************************************************************)
(* Virtual threads (VThreadGroup in Thread.cpp, VThread.cpp and the parts  *)
(* of Threading.cpp that launch, feed and end a group).  A group is an     *)
(* operating-system thread that gives its virtual threads ten instructions *)
(* each, in turn, releasing mMutex meanwhile.  No code of the repository   *)
(* interrupts a group or its current thread, lets one yield or sleep; so   *)
(* no virtual thread ever leaves its group.                                *)
(***************************************************************************)
EXTENDS Integers, Sequences, FiniteSets

CONSTANTS
    Main,           \* the thread of main()
    Groups,         \* the groups LaunchVThreadGroup can create
    NoGroup,        \* nullptr
    Functions,      \* the functions called, each once, as async calls
    Kind,           \* what Schedule tells apart about each of them
    OtherThreads,   \* how many Threads and Daemons there may be
    NoFunction,
    MIN_THREADS,                \* Options.h: 6
    MAX_CONCURRENT_THREADS,     \* Options.h: 50
    MIN_VTHREADS,               \* Options.h: 2
    MAX_VTHREADS,               \* Options.h: 20
    PURE_GROUPS,                \* the 8 in Schedule
    PURE_VTHREADS               \* the 6 in Schedule

\* Bytecode shorter than 20 bytes, shorter than 50, and longer.
Kinds == {"pure", "tiny", "small", "large", "native"}

Callers == Functions \cup {Main}

ASSUME VirtualThreadsAssumption ==
    /\ Main \notin Functions /\ NoFunction \notin Functions
    /\ NoGroup \notin Groups
    /\ Kind \in [Functions -> Kinds]
    /\ OtherThreads \subseteq Nat
    /\ {MIN_THREADS, MAX_CONCURRENT_THREADS, MIN_VTHREADS, MAX_VTHREADS,
        PURE_GROUPS, PURE_VTHREADS} \subseteq Nat

VARIABLES
    pc,         \* where each group's native thread is
    vthreads,   \* mThreads: the functions of the virtual threads, in order
    capacity,   \* the capacity of that vector
    position,   \* the loop's iterator
    moved,      \* the vector was reallocated while the iterator was in use
    attached,   \* the map vThreadGroups
    early,      \* groups that have detached before they were attached
    nonDaemon,  \* their part of nonDaemonThreads
    eventQueue,
    call,       \* what each caller is doing about an async call
    life,       \* how far each function has come
    late,       \* given to a group that no longer waited for functions
    mainPc,
    process     \* "running", "ended", or what has become of it

vars == <<pc, vthreads, capacity, position, moved, attached, early, nonDaemon,
          eventQueue, call, life, late, mainPc, process>>

Pcs ==
    { "unborn",
      "head",     \* VThreadGroup::start, before it takes mMutex
      "empty",    \* waits 500 ms for a virtual thread
      "turn",     \* in executeCycles, mMutex released
      "queue",    \* VThreadGroupEntry waits 200 ms for the event queue
      "expired",  \* has left the loop, waits for mutex
      "dead" }

Lives == {"new", "called", "queued", "elsewhere", "given", "served", "returned",
          "lost"}

Endings == {"ended", "null group", "freed group", "stale iterator", "no frame",
            "no bytecode"}

NoCall == [stage |-> "none", function |-> NoFunction, group |-> NoGroup]

Init ==
    /\ pc = [g \in Groups |-> "unborn"]
    /\ vthreads = [g \in Groups |-> <<>>]
    /\ capacity = [g \in Groups |-> 0]
    /\ position = [g \in Groups |-> 0]
    /\ moved = [g \in Groups |-> FALSE]
    /\ attached = {} /\ early = {} /\ nonDaemon = 0
    /\ eventQueue = <<>>
    /\ call = [c \in Callers |-> NoCall]
    /\ life = [f \in Functions |-> "new"]
    /\ late = {}
    /\ mainPc = "function"
    /\ process = "running"

Load(g) == Len(vthreads[g])

Current(g) == vthreads[g][position[g]]
HasTurn(f) == \E g \in Groups : pc[g] = "turn" /\ Current(g) = f

Executing(c) ==
    /\ process = "running"
    /\ call[c] = NoCall
    /\ \/ c = Main /\ mainPc = "function"
       \/ c /= Main /\ HasTurn(c) /\ life[c] = "served"

loop == <<position, moved>>

-----------------------------------------------------------------------------
(* Schedule                                                                *)

\* GetIdealVThreadGroup: a group with the fewest threads, read with no lock.
IdealGroups ==
    IF attached = {} THEN {NoGroup}
    ELSE {g \in attached : \A h \in attached : Load(g) <= Load(h)}

Exceeds(g, load) == g /= NoGroup /\ Load(g) > load

\* What Schedule decides for a function, from the number of threads and the
\* group it found.
Decision(f, count, g) ==
    LET kind == Kind[f]
    IN  IF count >= MAX_CONCURRENT_THREADS
        THEN IF g = NoGroup THEN "crash"
             ELSE IF Load(g) < (IF kind = "large" THEN Len(eventQueue)
                                ELSE MAX_VTHREADS)
             THEN "give" ELSE "enqueue"
        ELSE IF count < MIN_THREADS
        THEN IF kind \in {"small", "large"} THEN "elsewhere"
             ELSE IF g = NoGroup \/ Exceeds(g, MIN_VTHREADS) THEN "launch"
             ELSE "give"
        ELSE IF kind = "pure"
        THEN IF Cardinality(attached) <= PURE_GROUPS
                    \/ Exceeds(g, PURE_VTHREADS)
             THEN "launch" ELSE "give"
        ELSE IF kind = "large" THEN "elsewhere"
        ELSE IF g = NoGroup THEN "crash"
        ELSE IF Exceeds(g, MIN_VTHREADS) THEN "launch" ELSE "give"

Begin(c, stage, f, g) ==
    /\ call' = [call EXCEPT ![c] =
                  [stage |-> stage, function |-> f, group |-> g]]
    /\ life' = [life EXCEPT ![f] = "called"]
    /\ UNCHANGED process

\* A thread of its own, for a function ThreadPool's rules send there.
Elsewhere(f) ==
    /\ life' = [life EXCEPT ![f] = "elsewhere"]
    /\ UNCHANGED <<call, process>>

Schedule(c, f) ==
    /\ Executing(c) /\ life[f] = "new"
    /\ IF Kind[f] = "native"
       THEN Begin(c, "enqueue", f, NoGroup) \/ Elsewhere(f)
       ELSE \E others \in OtherThreads, g \in IdealGroups :
              LET decision == Decision(f, others + Cardinality(attached), g)
              IN  \/ decision = "crash" /\ process' = "null group"
                     /\ UNCHANGED <<call, life>>
                  \/ decision = "elsewhere" /\ Elsewhere(f)
                  \/ decision \in {"give", "enqueue", "launch"}
                     /\ Begin(c, decision, f, g)
    /\ UNCHANGED <<pc, vthreads, capacity, loop, attached, early, nonDaemon,
                   eventQueue, late, mainPc>>

EnqueueFunction(c) ==
    /\ process = "running" /\ call[c].stage = "enqueue"
    /\ eventQueue' = Append(eventQueue, call[c].function)
    /\ life' = [life EXCEPT ![call[c].function] = "queued"]
    /\ call' = [call EXCEPT ![c] = NoCall]
    /\ UNCHANGED <<pc, vthreads, capacity, loop, attached, early, nonDaemon,
                   late, mainPc, process>>

\* LaunchVThreadGroup: the native thread runs before the group is attached.
LaunchGroup(c, g) ==
    /\ process = "running" /\ call[c].stage = "launch" /\ pc[g] = "unborn"
    /\ pc' = [pc EXCEPT ![g] = "head"]
    /\ call' = [call EXCEPT ![c].stage = "attach", ![c].group = g]
    /\ UNCHANGED <<vthreads, capacity, loop, attached, early, nonDaemon,
                   eventQueue, life, late, mainPc, process>>

\* Mutant of AttachGroup: the group is not counted.
AttachUncounted(c) ==
    /\ process = "running" /\ call[c].stage = "attach"
    /\ attached' = attached \cup {call[c].group}
    /\ call' = [call EXCEPT ![c].stage = "give"]
    /\ UNCHANGED <<pc, vthreads, capacity, loop, early, nonDaemon, eventQueue,
                   life, late, mainPc, process>>

AttachGroup(c) ==
    /\ process = "running" /\ call[c].stage = "attach"
    /\ attached' = attached \cup {call[c].group}
    /\ nonDaemon' = nonDaemon + 1
    /\ call' = [call EXCEPT ![c].stage = "give"]
    /\ UNCHANGED <<pc, vthreads, capacity, loop, early, eventQueue, life, late,
                   mainPc, process>>

\* mThreads.push_back; a full vector moves to twice the room.
Push(g, f) ==
    LET full == Load(g) = capacity[g]
    IN  /\ vthreads' = [vthreads EXCEPT ![g] = Append(@, f)]
        /\ capacity' = [capacity EXCEPT
                          ![g] = IF ~ full THEN @ ELSE IF @ = 0 THEN 1 ELSE 2 * @]
        /\ moved' = [moved EXCEPT ![g] = @ \/ (full /\ pc[g] = "turn")]
        /\ life' = [life EXCEPT ![f] = "given"]

Freed(g) == pc[g] = "dead" /\ g \notin early

\* VThreadGroup::runFunction on the group chosen before.
RunFunction(c) ==
    LET g == call[c].group
        f == call[c].function
    IN  /\ process = "running" /\ call[c].stage = "give"
        /\ IF Freed(g)
           THEN /\ process' = "freed group"
                /\ UNCHANGED <<vthreads, capacity, moved, life, late, call>>
           ELSE /\ Push(g, f)
                /\ late' = IF pc[g] \in {"queue", "expired", "dead"}
                           THEN late \cup {f} ELSE late
                /\ call' = [call EXCEPT ![c] = NoCall]
                /\ UNCHANGED process
        /\ UNCHANGED <<pc, position, attached, early, nonDaemon, eventQueue,
                       mainPc>>

-----------------------------------------------------------------------------
(* VThreadGroup::start and VThreadGroupEntry                               *)

\* The function at position i is given its ten instructions; lives is life as
\* the turn before leaves it.
TurnOf(g, i, lives) ==
    /\ pc' = [pc EXCEPT ![g] = "turn"]
    /\ position' = [position EXCEPT ![g] = i]
    /\ life' = [lives EXCEPT ![vthreads[g][i]] =
                  IF @ = "given" THEN "served" ELSE @]

\* Head of the loop, and the wait on mCondition when there is no thread.
BeginPass(g) ==
    /\ process = "running" /\ pc[g] \in {"head", "empty"}
    /\ IF Load(g) = 0
       THEN /\ pc[g] = "head"
            /\ pc' = [pc EXCEPT ![g] = "empty"]
            /\ UNCHANGED <<life, position>>
       ELSE TurnOf(g, 1, life)
    /\ UNCHANGED <<vthreads, capacity, moved, attached, early, nonDaemon,
                   eventQueue, call, late, mainPc, process>>

\* Mutant of TimeOutEmpty: the predicate is not looked at again.
TimeOutBlindly(g) ==
    /\ process = "running" /\ pc[g] = "empty"
    /\ pc' = [pc EXCEPT ![g] = "queue"]
    /\ UNCHANGED <<vthreads, capacity, loop, attached, early, nonDaemon,
                   eventQueue, call, life, late, mainPc, process>>

\* wait_for's predicate is looked at once more when the 500 ms have passed.
TimeOutEmpty(g) ==
    /\ process = "running" /\ pc[g] = "empty" /\ Load(g) = 0
    /\ pc' = [pc EXCEPT ![g] = "queue"]
    /\ UNCHANGED <<vthreads, capacity, loop, attached, early, nonDaemon,
                   eventQueue, call, life, late, mainPc, process>>

\* Mutant of Advance: the pass starts again as soon as its last element is gone.
AdvanceToFirst(g, lives) ==
    IF moved[g]
    THEN /\ process' = "stale iterator"
         /\ life' = lives
         /\ UNCHANGED <<pc, position>>
    ELSE TurnOf(g, 1, lives) /\ UNCHANGED process

\* After a turn mMutex is taken again and the iterator is incremented.
Advance(g, lives) ==
    IF moved[g]
    THEN /\ process' = "stale iterator"
         /\ life' = lives
         /\ UNCHANGED <<pc, position>>
    ELSE IF position[g] < Load(g)
    THEN TurnOf(g, position[g] + 1, lives) /\ UNCHANGED process
    ELSE /\ pc' = [pc EXCEPT ![g] = "head"]
         /\ life' = lives
         /\ UNCHANGED <<position, process>>

\* The ten instructions are used up.
EndTurn(g) ==
    /\ process = "running" /\ pc[g] = "turn"
    /\ life[Current(g)] = "served" /\ call[Current(g)] = NoCall
    /\ Kind[Current(g)] /= "native"
    /\ Advance(g, life)
    /\ UNCHANGED <<vthreads, capacity, moved, attached, early, nonDaemon,
                   eventQueue, call, late, mainPc>>

\* The function returns.  The next instruction is fetched from a null frame,
\* unless this was the tenth.
FunctionReturns(g) ==
    LET f == Current(g)
    IN  /\ process = "running" /\ pc[g] = "turn"
        /\ life[f] = "served" /\ call[f] = NoCall /\ Kind[f] /= "native"
        /\ \/ process' = "no frame" /\ UNCHANGED <<pc, position, life>>
           \/ Advance(g, [life EXCEPT ![f] = "returned"])
        /\ UNCHANGED <<vthreads, capacity, moved, attached, early, nonDaemon,
                       eventQueue, call, late, mainPc>>

\* The first fetch of a turn finds no frame, or a function with no bytecode.
FetchFails(g) ==
    /\ process = "running" /\ pc[g] = "turn"
    /\ \/ life[Current(g)] = "returned" /\ process' = "no frame"
       \/ Kind[Current(g)] = "native" /\ process' = "no bytecode"
    /\ UNCHANGED <<pc, vthreads, capacity, loop, attached, early, nonDaemon,
                   eventQueue, call, life, late, mainPc>>

\* Whatever is queued is made a virtual thread of this group.
TakeEvent(g) ==
    /\ process = "running" /\ pc[g] = "queue" /\ eventQueue /= <<>>
    /\ Push(g, Head(eventQueue))
    /\ eventQueue' = Tail(eventQueue)
    /\ pc' = [pc EXCEPT ![g] = "head"]
    /\ UNCHANGED <<position, attached, early, nonDaemon, call, late, mainPc,
                   process>>

\* The 200 ms have passed; mThreads is not looked at.
TimeOutQueue(g) ==
    /\ process = "running" /\ pc[g] = "queue" /\ eventQueue = <<>>
    /\ pc' = [pc EXCEPT ![g] = "expired"]
    /\ UNCHANGED <<vthreads, capacity, loop, attached, early, nonDaemon,
                   eventQueue, call, life, late, mainPc, process>>

\* DetachThread erases, and so destroys, the group if the map has it already.
DetachGroup(g) ==
    /\ process = "running" /\ pc[g] = "expired"
    /\ pc' = [pc EXCEPT ![g] = "dead"]
    /\ nonDaemon' = nonDaemon - 1
    /\ attached' = attached \ {g}
    /\ early' = IF g \in attached THEN early ELSE early \cup {g}
    /\ life' = [f \in Functions |->
                  IF \E i \in 1 .. Load(g) : vthreads[g][i] = f
                  THEN "lost" ELSE life[f]]
    /\ UNCHANGED <<vthreads, capacity, loop, eventQueue, call, late, mainPc,
                   process>>

-----------------------------------------------------------------------------
\* An idle Thread takes the function instead (ThreadEntry).
TakenByThread ==
    /\ process = "running" /\ eventQueue /= <<>>
    /\ life' = [life EXCEPT ![Head(eventQueue)] = "elsewhere"]
    /\ eventQueue' = Tail(eventQueue)
    /\ UNCHANGED <<pc, vthreads, capacity, loop, attached, early, nonDaemon,
                   call, late, mainPc, process>>

\* main's function returns and main waits for the other threads.
MainReturns ==
    /\ Executing(Main)
    /\ mainPc' = "wait"
    /\ UNCHANGED <<pc, vthreads, capacity, loop, attached, early, nonDaemon,
                   eventQueue, call, life, late, process>>

\* WaitForAllThreads, when no other thread is left.
AllThreadsEnded ==
    /\ process = "running" /\ mainPc = "wait" /\ nonDaemon = 0
    /\ process' = "ended"
    /\ UNCHANGED <<pc, vthreads, capacity, loop, attached, early, nonDaemon,
                   eventQueue, call, life, late, mainPc>>

-----------------------------------------------------------------------------
Launch(c) ==
    \/ EnqueueFunction(c) \/ AttachGroup(c) \/ RunFunction(c)
    \/ \E g \in Groups : LaunchGroup(c, g)

Serve(g) ==
    \/ BeginPass(g) \/ TimeOutEmpty(g) \/ EndTurn(g) \/ FetchFails(g)
    \/ TakeEvent(g) \/ TimeOutQueue(g) \/ DetachGroup(g)

Next ==
    \/ \E c \in Callers, f \in Functions : Schedule(c, f)
    \/ \E c \in Callers : Launch(c)
    \/ \E g \in Groups : Serve(g) \/ FunctionReturns(g)
    \/ TakenByThread \/ MainReturns \/ AllThreadsEnded

Spec == Init /\ [][Next]_vars

\* Waits time out, turns of ten instructions end, callers go on.  Nothing is
\* assumed about what the functions do.
FairSpec ==
    /\ Spec
    /\ \A c \in Callers : WF_vars(Launch(c))
    /\ \A g \in Groups : WF_vars(Serve(g))
    /\ WF_vars(AllThreadsEnded)
-----------------------------------------------------------------------------
Calls == [stage : {"none", "launch", "enqueue", "attach", "give"},
          function : Functions \cup {NoFunction},
          group : Groups \cup {NoGroup}]

\* Every variable keeps to its type, and no iterator passes its vector's end.
TypeOK ==
    /\ pc \in [Groups -> Pcs]
    /\ vthreads \in [Groups -> Seq(Functions)]
    /\ capacity \in [Groups -> Nat]
    /\ position \in [Groups -> Nat]
    /\ \A g \in Groups :
         /\ Load(g) <= capacity[g]
         /\ position[g] <= Load(g)
         /\ pc[g] = "turn" => position[g] > 0
    /\ moved \in [Groups -> BOOLEAN]
    /\ attached \subseteq Groups /\ early \subseteq Groups
    /\ nonDaemon \in Int
    /\ eventQueue \in Seq(Functions)
    /\ call \in [Callers -> Calls]
    /\ life \in [Functions -> Lives]
    /\ late \subseteq Functions
    /\ mainPc \in {"function", "wait"}
    /\ process \in Endings \cup {"running"}

\* Once a virtual thread has had a turn its group lives on: it does not stop
\* serving, it is not destroyed, and main does not end the process under it -
\* unless a group has detached before it was attached, which takes another's
\* place in the count.
ServedLiveOn ==
    \A f \in Functions : life[f] \in {"served", "returned"} =>
        /\ \E g \in Groups : /\ pc[g] \in {"head", "turn"}
                             /\ \E i \in 1 .. Load(g) : vthreads[g][i] = f
        /\ process = "ended" => early /= {}

\* A function is lost with its group only when it was given to a group that
\* had stopped waiting for functions; one that came in time is always served.
LostOnlyLate == \A f \in Functions : life[f] = "lost" => f \in late

\* WaitForAllThreads' counter is the number of groups that serve, less those
\* that have detached and are yet to be attached.
GroupsCounted ==
    nonDaemon = Cardinality(attached \ early) - Cardinality(early \ attached)

\* Groups are counted and live as long as what they serve, through launches, timeouts
\* and the end of main().
GroupsSound == TypeOK /\ ServedLiveOn /\ GroupsCounted

\* In a group that serves, no virtual thread waits for ever: each gets turn
\* after turn, whatever the others do and however many are added; and one that
\* is given in time gets its first.
TurnsGoRound ==
    \A f \in Functions :
        /\ life[f] = "served" \/ (life[f] = "given" /\ f \notin late)
        /\ ~ HasTurn(f)
        ~> (HasTurn(f) \/ process /= "running")
=============================================================================
