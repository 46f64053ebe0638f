----------------------------- MODULE EpochAdvance -----------------------------
(***************************************************************************)
(* The epoch protocol of the deferred reference counts                     *)
(* (framework/src/executors/Threading.cpp, namespace Threading::Epoch, and *)
(* MutationBuffer).                                                        *)
(*                                                                         *)
(* Every mutator logs its reference-count changes in a buffer, each with   *)
(* the mutator's local epoch.  A mutator leaves its epoch when a bytecode  *)
(* function returns, and then reads every other mutator's local epoch; if  *)
(* at least nine tenths of them have left the global epoch it advances it  *)
(* with a compare-and-swap and applies what all the buffers hold of the    *)
(* epoch just closed.  Nothing but the final flush takes a lock.           *)
(*                                                                         *)
(* A buffer is abstracted to the set of the epochs of which it holds at    *)
(* least one mutation; what the mutations do to the heap is the business   *)
(* of CycleCollector.                                                      *)
(***************************************************************************)
EXTENDS Integers, FiniteSets

CONSTANTS
  Threads,   \* the mutator threads that ever exist
  Initial,   \* those attached and started while the global epoch is 0
  Main,      \* the thread of main(): attached by Threading::Init, never detached
  MaxEpoch   \* bound on the local epochs (the code's are u64)

ASSUME ThreadsAssumption ==
  /\ IsFiniteSet(Threads)
  /\ Initial \subseteq Threads
  /\ Main \in Initial

ASSUME MaxEpochAssumption == MaxEpoch \in Nat

VARIABLES
  globalEpoch,   \* Epoch::globalEpoch
  counted,       \* history: how many mutators the scan met that closed the last epoch
  localEpoch,    \* localEpoch of each thread's MutationBuffer
  pending,       \* epochs of which the buffer holds mutations not yet applied
  pc,            \* where each thread is
  currentGlobal, \* the epoch a thread works on: currentGlobal, or Sync's loop variable
  targets,       \* the map's threads when the thread began to iterate over it
  visited,       \* the threads the iteration has visited
  ready,         \* those of them counted in readyThreads
  maxEpoch,      \* SyncAllEpochs' maximum
  flushMutex,    \* holders of TryAdvanceGlobal's static mutex
  faulted        \* an unset mMutationBuffer was dereferenced: the process is gone

vars == <<globalEpoch, counted, localEpoch, pending, pc, currentGlobal, targets,
          visited, ready, maxEpoch, flushMutex, faulted>>

iteration == <<targets, visited, ready>>

closed == <<globalEpoch, counted>>

States ==
  { "off",        \* not launched
    "attached",   \* in the map; mMutationBuffer not yet set
    "construct",  \* the thread_local buffer constructed, its address not yet stored
    "run",        \* runs bytecode
    "load",       \* left its epoch, about to load globalEpoch
    "scan",       \* counts the mutators that are ready
    "cas",        \* enough are ready
    "lock",       \* won the compare-and-swap, waits for the static mutex
    "flush",      \* applies the closed epoch
    "syncScan",   \* SyncAllEpochs: looks for the maximum
    "syncFlush",  \* SyncAllEpochs: applies one epoch after the other
    "done",       \* main() waits for the other threads
    "gone" }      \* erased from the map

\* The keys of the maps threads and vThreadGroups.
Attached == { t \in Threads : pc[t] \notin {"off", "gone"} }

\* The threads whose buffer exists, whether or not its address is stored.
Constructed == { t \in Threads : pc[t] \notin {"off", "attached", "gone"} }

\* The threads whose mMutationBuffer is set.
Started == { t \in Threads : pc[t] \notin {"off", "attached", "construct", "gone"} }

Epochs == 0 .. MaxEpoch

\* Mutant of EnoughReady: a simple majority.
HalfReady(readyThreads, totalThreads) ==
  /\ totalThreads # 0
  /\ 2 * readyThreads >= totalThreads

\* readiness >= advanceThreshold, that is readyThreads / totalThreads >= 0.9.
EnoughReady(readyThreads, totalThreads) ==
  /\ totalThreads # 0
  /\ 10 * readyThreads >= 9 * totalThreads

Init ==
  /\ globalEpoch = 0
  /\ counted = 0
  /\ localEpoch = [t \in Threads |-> 0]
  /\ pending = [t \in Threads |-> {}]
  /\ pc = [t \in Threads |-> IF t \in Initial THEN "run" ELSE "off"]
  /\ currentGlobal = [t \in Threads |-> 0]
  /\ targets = [t \in Threads |-> {}]
  /\ visited = [t \in Threads |-> {}]
  /\ ready = [t \in Threads |-> {}]
  /\ maxEpoch = 0
  /\ flushMutex = {}
  /\ faulted = FALSE

Goto(t, from, to) ==
  /\ pc[t] = from
  /\ pc' = [pc EXCEPT ![t] = to]

\* A thread begins ForEachMutator.
BeginIteration(t) ==
  /\ targets' = [targets EXCEPT ![t] = Attached]
  /\ visited' = [visited EXCEPT ![t] = {}]

\* ForEachMutator has returned and its result has been used.
EndIteration(t) ==
  /\ targets' = [targets EXCEPT ![t] = {}]
  /\ visited' = [visited EXCEPT ![t] = {}]
  /\ ready' = [ready EXCEPT ![t] = {}]

\* TryAdvanceGlobal or SyncAllEpochs returns: its locals go out of scope.
Leave(t) ==
  /\ EndIteration(t)
  /\ currentGlobal' = [currentGlobal EXCEPT ![t] = 0]

\* The iteration has an unvisited thread m before it.  A thread attached after
\* the iteration began may be met or missed: the map is not locked.
Meets(t, m) == m \in Attached \ visited[t]

\* The iteration is at the end of the map.
IterationOver(t) == targets[t] \cap Attached \subseteq visited[t]

-------------------------------------------------------------------------------
(* The life of a mutator.                                                  *)

\* AttachThread by the launcher, a thread that runs bytecode.
Attach(t) ==
  /\ \E launcher \in Threads : pc[launcher] = "run"
  /\ Goto(t, "off", "attached")
  /\ UNCHANGED <<closed, localEpoch, pending, currentGlobal, iteration,
                 maxEpoch, flushMutex, faulted>>

\* Thread::start constructs the thread_local buffer, which reads globalEpoch.
ConstructBuffer(t) ==
  /\ Goto(t, "attached", "construct")
  /\ localEpoch' = [localEpoch EXCEPT ![t] = globalEpoch]
  /\ UNCHANGED <<closed, pending, currentGlobal, iteration, maxEpoch,
                 flushMutex, faulted>>

\* Thread::start stores the buffer's address in mMutationBuffer.
StoreBuffer(t) ==
  /\ Goto(t, "construct", "run")
  /\ UNCHANGED <<closed, localEpoch, pending, currentGlobal, iteration,
                 maxEpoch, flushMutex, faulted>>

\* addReference or removeReference: the mutation carries the local epoch.
LogMutation(t) ==
  /\ pc[t] = "run"
  /\ pending' = [pending EXCEPT ![t] = @ \cup {localEpoch[t]}]
  /\ UNCHANGED <<closed, localEpoch, pc, currentGlobal, iteration,
                 maxEpoch, flushMutex, faulted>>

\* DetachThread: the thread leaves the map, and its thread_local buffer dies
\* with whatever it still holds.
Detach(t) ==
  /\ t # Main
  /\ Goto(t, "run", "gone")
  /\ pending' = [pending EXCEPT ![t] = {}]
  /\ UNCHANGED <<closed, localEpoch, currentGlobal, iteration, maxEpoch,
                 flushMutex, faulted>>

-------------------------------------------------------------------------------
(* advanceEpoch and TryAdvanceGlobal.                                      *)

\* advanceEpoch: localEpoch += 1.
LeaveEpoch(t) ==
  /\ localEpoch[t] < MaxEpoch
  /\ Goto(t, "run", "load")
  /\ localEpoch' = [localEpoch EXCEPT ![t] = @ + 1]
  /\ UNCHANGED <<closed, pending, currentGlobal, iteration, maxEpoch,
                 flushMutex, faulted>>

LoadGlobal(t) ==
  /\ Goto(t, "load", "scan")
  /\ currentGlobal' = [currentGlobal EXCEPT ![t] = globalEpoch]
  /\ BeginIteration(t)
  /\ ready' = [ready EXCEPT ![t] = {}]
  /\ UNCHANGED <<closed, localEpoch, pending, maxEpoch, flushMutex, faulted>>

\* Mutant of CountMutator: a thread does not count itself as ready.
CountOthers(t, m) ==
  /\ pc[t] = "scan"
  /\ Meets(t, m)
  /\ m \in Started
  /\ visited' = [visited EXCEPT ![t] = @ \cup {m}]
  /\ ready' = IF m # t /\ localEpoch[m] > currentGlobal[t]
              THEN [ready EXCEPT ![t] = @ \cup {m}]
              ELSE ready
  /\ UNCHANGED <<closed, localEpoch, pending, pc, currentGlobal, targets,
                 maxEpoch, flushMutex, faulted>>

\* One call of ForEachMutator's consumer.  The buffer of a thread that has not
\* reached Thread::start yet is an uninitialised pointer.
CountMutator(t, m) ==
  /\ pc[t] = "scan"
  /\ Meets(t, m)
  /\ IF m \in Started
     THEN /\ visited' = [visited EXCEPT ![t] = @ \cup {m}]
          /\ ready' = IF localEpoch[m] > currentGlobal[t]
                      THEN [ready EXCEPT ![t] = @ \cup {m}]
                      ELSE ready
          /\ UNCHANGED faulted
     ELSE /\ faulted' = TRUE
          /\ UNCHANGED <<visited, ready>>
  /\ UNCHANGED <<closed, localEpoch, pending, pc, currentGlobal, targets,
                 maxEpoch, flushMutex>>

Decide(t) ==
  /\ IterationOver(t)
  /\ IF EnoughReady(Cardinality(ready[t]), Cardinality(visited[t]))
     THEN /\ Goto(t, "scan", "cas")
          /\ UNCHANGED <<currentGlobal, iteration>>
     ELSE /\ Goto(t, "scan", "run")
          /\ Leave(t)
  /\ UNCHANGED <<closed, localEpoch, pending, maxEpoch, flushMutex, faulted>>

\* Mutant of AdvanceGlobal: an increment in place of the compare-and-swap.
IncrementGlobal(t) ==
  /\ Goto(t, "cas", "lock")
  /\ globalEpoch' = globalEpoch + 1
  /\ counted' = Cardinality(visited[t])
  /\ EndIteration(t)
  /\ UNCHANGED <<localEpoch, pending, currentGlobal, maxEpoch, flushMutex, faulted>>

\* compare_exchange_strong: of the threads that found the epoch ready, one wins.
AdvanceGlobal(t) ==
  /\ IF globalEpoch = currentGlobal[t]
     THEN /\ Goto(t, "cas", "lock")
          /\ globalEpoch' = globalEpoch + 1
          /\ counted' = Cardinality(visited[t])
          /\ EndIteration(t)
          /\ UNCHANGED currentGlobal
     ELSE /\ Goto(t, "cas", "run")
          /\ Leave(t)
          /\ UNCHANGED closed
  /\ UNCHANGED <<localEpoch, pending, maxEpoch, flushMutex, faulted>>

LockFlush(t) ==
  /\ flushMutex = {}
  /\ Goto(t, "lock", "flush")
  /\ flushMutex' = {t}
  /\ BeginIteration(t)
  /\ UNCHANGED <<closed, localEpoch, pending, currentGlobal, ready,
                 maxEpoch, faulted>>

\* Mutant of FlushBuffer: `<` for `<=`, the closed epoch itself stays behind.
FlushOlder(t, m) ==
  /\ pc[t] \in {"flush", "syncFlush"}
  /\ Meets(t, m)
  /\ m \in Started
  /\ visited' = [visited EXCEPT ![t] = @ \cup {m}]
  /\ pending' = [pending EXCEPT ![m] = { e \in @ : e >= currentGlobal[t] }]
  /\ UNCHANGED <<closed, localEpoch, pc, currentGlobal, targets, ready,
                 maxEpoch, flushMutex, faulted>>

\* MutationBuffer::flush on another thread's buffer: what is older than the
\* epoch is applied.  The owner's emplace_back is not synchronised with the
\* compaction, so newer mutations that race with it may be dropped.  (The race may
\* also leave mutations behind that have been applied; they are not in pending.)
FlushBuffer(t, m) ==
  /\ pc[t] \in {"flush", "syncFlush"}
  /\ Meets(t, m)
  /\ IF m \in Started
     THEN /\ visited' = [visited EXCEPT ![t] = @ \cup {m}]
          /\ LET newer == { e \in pending[m] : e > currentGlobal[t] }
             IN  \E kept \in SUBSET newer :
                   /\ m = t => kept = newer
                   /\ pending' = [pending EXCEPT ![m] = kept]
          /\ UNCHANGED faulted
     ELSE /\ faulted' = TRUE
          /\ UNCHANGED <<visited, pending>>
  /\ UNCHANGED <<closed, localEpoch, pc, currentGlobal, targets, ready,
                 maxEpoch, flushMutex>>

\* FlushGlobalEpoch has returned; ProcessCycles runs and the mutex is released.
FinishFlush(t) ==
  /\ IterationOver(t)
  /\ Goto(t, "flush", "run")
  /\ flushMutex' = flushMutex \ {t}
  /\ Leave(t)
  /\ UNCHANGED <<closed, localEpoch, pending, maxEpoch, faulted>>

-------------------------------------------------------------------------------
(* SyncAllEpochs, called by main() when the main function has returned.    *)

BeginSync ==
  /\ Goto(Main, "run", "syncScan")
  /\ maxEpoch' = globalEpoch
  /\ BeginIteration(Main)
  /\ UNCHANGED <<closed, localEpoch, pending, currentGlobal, ready,
                 flushMutex, faulted>>

SyncScan(m) ==
  /\ pc[Main] = "syncScan"
  /\ Meets(Main, m)
  /\ IF m \in Started
     THEN /\ visited' = [visited EXCEPT ![Main] = @ \cup {m}]
          /\ maxEpoch' = IF localEpoch[m] > maxEpoch THEN localEpoch[m] ELSE maxEpoch
          /\ UNCHANGED faulted
     ELSE /\ faulted' = TRUE
          /\ UNCHANGED <<visited, maxEpoch>>
  /\ UNCHANGED <<closed, localEpoch, pending, pc, currentGlobal, targets,
                 ready, flushMutex>>

\* The loop over the epochs begins at the value globalEpoch has now.
BeginSyncFlush ==
  /\ IterationOver(Main)
  /\ Goto(Main, "syncScan", IF globalEpoch <= maxEpoch THEN "syncFlush" ELSE "done")
  /\ currentGlobal' = [currentGlobal EXCEPT ![Main] = globalEpoch]
  /\ BeginIteration(Main)
  /\ UNCHANGED <<closed, localEpoch, pending, ready, maxEpoch, flushMutex,
                 faulted>>

\* The next round of the loop, or its end.  No round advances globalEpoch.
NextSyncEpoch ==
  /\ IterationOver(Main)
  /\ IF currentGlobal[Main] < maxEpoch
     THEN /\ pc[Main] = "syncFlush"
          /\ currentGlobal' = [currentGlobal EXCEPT ![Main] = @ + 1]
          /\ BeginIteration(Main)
          /\ UNCHANGED <<ready, pc>>
     ELSE /\ Goto(Main, "syncFlush", "done")
          /\ Leave(Main)
  /\ UNCHANGED <<closed, localEpoch, pending, maxEpoch, flushMutex, faulted>>

-------------------------------------------------------------------------------

\* One thread's step inside advanceEpoch.
Advance(t) ==
  \/ LoadGlobal(t)
  \/ \E m \in Threads : CountMutator(t, m)
  \/ Decide(t)
  \/ AdvanceGlobal(t)
  \/ LockFlush(t)
  \/ \E m \in Threads : FlushBuffer(t, m)
  \/ FinishFlush(t)

Mutate(t) ==
  \/ Attach(t)
  \/ ConstructBuffer(t)
  \/ StoreBuffer(t)
  \/ LogMutation(t)
  \/ Detach(t)
  \/ LeaveEpoch(t)

Sync ==
  \/ BeginSync
  \/ \E m \in Threads : SyncScan(m)
  \/ BeginSyncFlush
  \/ NextSyncEpoch

Next ==
  /\ ~faulted
  /\ \/ \E t \in Threads : Advance(t) \/ Mutate(t)
     \/ Sync

Spec == Init /\ [][Next]_vars

\* The operating system runs every thread that can run; what the bytecode does
\* (when it returns, logs or ends) is not the VM's to promise.
FairSpec == Spec /\ \A t \in Threads : WF_vars(~faulted /\ Advance(t))

-------------------------------------------------------------------------------

\* The type invariant.
TypeOK ==
  /\ globalEpoch \in Nat
  /\ counted \in Nat
  /\ localEpoch \in [Threads -> Nat]
  /\ pending \in [Threads -> SUBSET Nat]
  /\ pc \in [Threads -> States]
  /\ currentGlobal \in [Threads -> Nat]
  /\ targets \in [Threads -> SUBSET Threads]
  /\ visited \in [Threads -> SUBSET Threads]
  /\ ready \in [Threads -> SUBSET Threads]
  /\ maxEpoch \in Nat
  /\ flushMutex \in SUBSET Threads
  /\ faulted \in BOOLEAN

\* Mutators that the global epoch has overtaken.  A thread that joins while another
\* one is between its scan and its compare-and-swap may be one epoch behind.
Laggards ==
  { m \in Constructed : IF m \in Initial THEN localEpoch[m] < globalEpoch
                        ELSE localEpoch[m] + 1 < globalEpoch }

\* The grace period of TryAdvanceGlobal, for any number of mutators: those that the
\* global epoch has overtaken are at most a tenth of those that the scan met which closed
\* the last epoch, so there is none as long as a scan meets fewer than ten.
EpochLag == 10 * Cardinality(Laggards) <= counted

Flushing(t) == pc[t] \in {"lock", "flush"}

\* TryAdvanceGlobal closes an epoch once: two threads never have the same epoch
\* to flush, and what they flush lies behind the global epoch.
FlushOnce ==
  \A t \in Threads : Flushing(t) =>
    /\ currentGlobal[t] < globalEpoch
    /\ \A u \in Threads \ {t} : Flushing(u) => currentGlobal[u] # currentGlobal[t]

\* A thread is at work that will still flush what m's buffer holds of the epoch e.
HasFlusher(m, e) ==
  \E t \in Threads : Flushing(t) /\ currentGlobal[t] >= e /\ m \notin visited[t]

\* The mutators that were there from the start and whose buffer holds a mutation of a
\* closed epoch that nobody will flush before another epoch is closed.
Overlooked ==
  { m \in Initial : \E e \in pending[m] : e < globalEpoch /\ ~ HasFlusher(m, e) }

\* A mutation of a closed epoch is left behind in the buffers of at most a tenth of the
\* mutators: those that were let go on in the epoch.  With fewer than ten, whatever
\* is logged is applied by a thread that is at work on it.
StaleHasFlusher == 10 * Cardinality(Overlooked) <= counted

\* The last mutator to leave an epoch closes it, unless another one has joined it
\* meanwhile: no interleaving of the scans and the compare-and-swaps lets them all
\* report "not ready".
LastLeaverAdvances ==
  \A e \in Epochs :
    (/\ globalEpoch = e
     /\ \A m \in Attached : localEpoch[m] > e
     /\ \E t \in Threads : pc[t] = "load")
      ~> (globalEpoch > e \/ faulted \/ \E m \in Attached : localEpoch[m] <= e)

\* A flush that was won is also done.
FlushEnds == \A t \in Threads : Flushing(t) ~> (~Flushing(t) \/ faulted)

\* Epochs are closed and flushed: nothing that happens in between leaves an epoch open
\* that everybody has left, or stops the thread that closes it.
EpochsClose == LastLeaverAdvances /\ FlushEnds

===============================================================================
