--------------------------- MODULE Collector_proofs ---------------------------
(***************************************************************************)
(* TLAPS proofs about EpochAdvance, for every number of threads and every  *)
(* bound, and about CycleCollector, for every number of objects and of     *)
(* fields and every bound.                                                 *)
(***************************************************************************)
EXTENDS EpochAdvance, CycleCollector, FunctionTheorems, FiniteSetTheorems, SequenceTheorems,
        WellFoundedInduction, TLAPS

Counting(t) == pc[t] \in {"scan", "cas"}

(* What a thread inside ForEachMutator knows of the threads it has counted. *)
ScanInv ==
  \A t \in Threads : Counting(t) =>
    /\ currentGlobal[t] <= globalEpoch
    /\ ready[t] \subseteq visited[t]
    /\ \A m \in targets[t] : pc[m] # "off"
    /\ \A m \in visited[t] : pc[m] \notin {"off", "attached", "construct"}
    /\ \A m \in ready[t] : localEpoch[m] > currentGlobal[t]
    /\ \A m \in Constructed \ targets[t] : localEpoch[m] >= currentGlobal[t]

(* A thread that goes for the compare-and-swap has counted enough as ready. *)
CasInv ==
  \A t \in Threads : pc[t] = "cas" =>
    /\ EnoughReady(Cardinality(ready[t]), Cardinality(visited[t]))
    /\ targets[t] \cap Attached \subseteq visited[t]

(* The initial mutators are started, and no iteration can miss one. *)
InitialInv ==
  \A m \in Initial :
    /\ pc[m] \notin {"off", "attached", "construct"}
    /\ pc[m] = "gone" => pending[m] = {}
    /\ \A t \in Threads :
         pc[t] \in {"scan", "cas", "flush"} /\ pc[m] # "gone" => m \in targets[t]

(* The mutators that the global epoch has left behind, themselves or with    *)
(* what they have logged, are few.                                          *)
BehindInv == 10 * Cardinality(Laggards \cup Overlooked) <= counted

IInv ==
  /\ TypeOK
  /\ ScanInv
  /\ CasInv
  /\ InitialInv
  /\ BehindInv

-------------------------------------------------------------------------------

(* What the threshold means: if at least nine tenths of the mutators that    *)
(* were met were counted as ready (EnoughReady), at most a tenth were not.    *)
LEMMA FewNotReady ==
  ASSUME NEW V \in SUBSET Threads, NEW R \in SUBSET V, NEW B \in SUBSET (V \ R),
         EnoughReady(Cardinality(R), Cardinality(V))
  PROVE  10 * Cardinality(B) <= Cardinality(V)
<1>1. IsFiniteSet(V) /\ IsFiniteSet(R) /\ IsFiniteSet(V \ R)
  BY ThreadsAssumption, FS_Subset
<1>2. /\ Cardinality(V \ R) = Cardinality(V) - Cardinality(V \cap R)
      /\ V \cap R = R
  BY <1>1, FS_Difference
<1>3. Cardinality(B) <= Cardinality(V \ R) /\ IsFiniteSet(B)
  BY <1>1, FS_Subset
<1>4. /\ Cardinality(V) \in Nat /\ Cardinality(R) \in Nat
      /\ Cardinality(B) \in Nat
  BY <1>1, <1>3, FS_CardinalityType
<1>5. Cardinality(V \ R) = Cardinality(V) - Cardinality(R)
  BY <1>2
<1>6. 10 * Cardinality(R) >= 9 * Cardinality(V)
  BY DEF EnoughReady
<1> QED
  BY <1>3, <1>4, <1>5, <1>6

(* A part of a set of threads is not larger than the set. *)
LEMMA FewerBehind ==
  ASSUME NEW B \in SUBSET Threads, NEW A \in SUBSET B, NEW n \in Nat,
         10 * Cardinality(B) <= n
  PROVE  10 * Cardinality(A) <= n
<1>1. IsFiniteSet(B)
  BY ThreadsAssumption, FS_Subset
<1>2. Cardinality(A) <= Cardinality(B) /\ Cardinality(A) \in Nat /\ Cardinality(B) \in Nat
  BY <1>1, FS_Subset, FS_CardinalityType
<1> QED
  BY <1>2

(* The initial states satisfy the inductive invariant. *)
LEMMA InitIInv == Init => IInv
<1> SUFFICES ASSUME Init PROVE IInv
  OBVIOUS
<1>1. TypeOK
  BY ThreadsAssumption DEF Init, TypeOK, States
<1>2. /\ ScanInv
      /\ CasInv
  BY DEF Init, ScanInv, CasInv, Counting
<1>3. InitialInv
  BY ThreadsAssumption DEF Init, InitialInv
<1>4. BehindInv
  <2>1. Laggards \cup Overlooked = {}
    BY ThreadsAssumption DEF Init, Laggards, Overlooked, Constructed
  <2>2. Cardinality(Laggards \cup Overlooked) = 0
    BY <2>1, FS_EmptySet
  <2>3. counted = 0
    BY DEF Init
  <2> QED
    BY <2>2, <2>3 DEF BehindInv
<1> QED
  BY <1>1, <1>2, <1>3, <1>4 DEF IInv

(* Nothing has been closed yet, so nothing is being flushed. *)
LEMMA InitFlushOnce == Init => FlushOnce
BY ThreadsAssumption DEF Init, FlushOnce, Flushing

(* Every step preserves the types. *)
LEMMA TypeStep ==
  ASSUME TypeOK, [Next]_vars
  PROVE  TypeOK'
<1> USE ThreadsAssumption DEF TypeOK, States, Goto, iteration, closed, Attached
<1>1. ASSUME NEW t \in Threads, Attach(t)
      PROVE  TypeOK'
  BY <1>1 DEF Attach
<1>2. ASSUME NEW t \in Threads, ConstructBuffer(t)
      PROVE  TypeOK'
  BY <1>2 DEF ConstructBuffer
<1>3. ASSUME NEW t \in Threads, StoreBuffer(t)
      PROVE  TypeOK'
  BY <1>3 DEF StoreBuffer
<1>4. ASSUME NEW t \in Threads, LogMutation(t)
      PROVE  TypeOK'
  BY <1>4 DEF LogMutation
<1>5. ASSUME NEW t \in Threads, Detach(t)
      PROVE  TypeOK'
  BY <1>5 DEF Detach
<1>6. ASSUME NEW t \in Threads, LeaveEpoch(t)
      PROVE  TypeOK'
  BY <1>6 DEF LeaveEpoch
<1>7. ASSUME NEW t \in Threads, LoadGlobal(t)
      PROVE  TypeOK'
  BY <1>7 DEF LoadGlobal, BeginIteration
<1>8. ASSUME NEW t \in Threads, NEW m \in Threads, CountMutator(t, m)
      PROVE  TypeOK'
  <2>1. CASE m \in Started
    BY <1>8, <2>1 DEF CountMutator
  <2>2. CASE m \notin Started
    BY <1>8, <2>2 DEF CountMutator
  <2> QED
    BY <2>1, <2>2
<1>9. ASSUME NEW t \in Threads, Decide(t)
      PROVE  TypeOK'
  BY <1>9 DEF Decide, Leave, EndIteration, IterationOver
<1>10. ASSUME NEW t \in Threads, AdvanceGlobal(t)
      PROVE  TypeOK'
  <2>1. Cardinality(visited[t]) \in Nat
    BY FS_Subset, FS_CardinalityType
  <2> QED
    BY <1>10, <2>1 DEF AdvanceGlobal, Leave, EndIteration
<1>11. ASSUME NEW t \in Threads, LockFlush(t)
      PROVE  TypeOK'
  BY <1>11 DEF LockFlush, BeginIteration
<1>12. ASSUME NEW t \in Threads, NEW m \in Threads, FlushBuffer(t, m)
      PROVE  TypeOK'
  <2>1. CASE m \in Started
    <3>1. PICK kept \in SUBSET Nat : pending' = [pending EXCEPT ![m] = kept]
      BY <1>12, <2>1 DEF FlushBuffer
    <3> QED
      BY <1>12, <2>1, <3>1 DEF FlushBuffer
  <2>2. CASE m \notin Started
    BY <1>12, <2>2 DEF FlushBuffer
  <2> QED
    BY <2>1, <2>2
<1>13. ASSUME NEW t \in Threads, FinishFlush(t)
      PROVE  TypeOK'
  BY <1>13 DEF FinishFlush, Leave, EndIteration
<1>14. CASE BeginSync
  BY <1>14 DEF BeginSync, BeginIteration
<1>15. ASSUME NEW m \in Threads, SyncScan(m)
      PROVE  TypeOK'
  <2>1. CASE m \in Started
    BY <1>15, <2>1 DEF SyncScan
  <2>2. CASE m \notin Started
    BY <1>15, <2>2 DEF SyncScan
  <2> QED
    BY <2>1, <2>2
<1>16. CASE BeginSyncFlush
  BY <1>16 DEF BeginSyncFlush, BeginIteration
<1>17. CASE NextSyncEpoch
  BY <1>17 DEF NextSyncEpoch, BeginIteration, Leave, EndIteration
<1>18. CASE UNCHANGED vars
  BY <1>18 DEF vars, iteration, closed
<1> QED
  BY <1>1, <1>2, <1>3, <1>4, <1>5, <1>6, <1>7, <1>8, <1>9,
     <1>10, <1>11, <1>12, <1>13, <1>14, <1>15, <1>16, <1>17, <1>18
     DEF Next, Advance, Mutate, Sync

(* What a counting thread knows stays true: local epochs only grow, a thread   *)
(* keeps its buffer, and a newcomer starts at the global epoch of the moment.   *)
LEMMA ScanStep ==
  ASSUME TypeOK, ScanInv, [Next]_vars
  PROVE  ScanInv'
<1> USE ThreadsAssumption DEF TypeOK, ScanInv, Counting, Constructed, Goto, iteration, closed, Attached
<1>1. ASSUME NEW t \in Threads, Attach(t)
      PROVE  ScanInv'
  BY <1>1 DEF Attach
<1>2. ASSUME NEW t \in Threads, ConstructBuffer(t)
      PROVE  ScanInv'
  BY <1>2 DEF ConstructBuffer
<1>3. ASSUME NEW t \in Threads, StoreBuffer(t)
      PROVE  ScanInv'
  BY <1>3 DEF StoreBuffer
<1>4. ASSUME NEW t \in Threads, LogMutation(t)
      PROVE  ScanInv'
  BY <1>4 DEF LogMutation
<1>5. ASSUME NEW t \in Threads, Detach(t)
      PROVE  ScanInv'
  BY <1>5 DEF Detach
<1>6. ASSUME NEW t \in Threads, LeaveEpoch(t)
      PROVE  ScanInv'
  BY <1>6 DEF LeaveEpoch
<1>7. ASSUME NEW t \in Threads, LoadGlobal(t)
      PROVE  ScanInv'
  BY <1>7 DEF LoadGlobal, BeginIteration
<1>8. ASSUME NEW t \in Threads, NEW m \in Threads, CountMutator(t, m)
      PROVE  ScanInv'
  BY <1>8 DEF CountMutator, Meets, Started
<1>9. ASSUME NEW t \in Threads, Decide(t)
      PROVE  ScanInv'
  BY <1>9 DEF Decide, Leave, EndIteration, IterationOver
<1>10. ASSUME NEW t \in Threads, AdvanceGlobal(t)
      PROVE  ScanInv'
  BY <1>10 DEF AdvanceGlobal, Leave, EndIteration
<1>11. ASSUME NEW t \in Threads, LockFlush(t)
      PROVE  ScanInv'
  BY <1>11 DEF LockFlush, BeginIteration
<1>12. ASSUME NEW t \in Threads, NEW m \in Threads, FlushBuffer(t, m)
      PROVE  ScanInv'
  BY <1>12 DEF FlushBuffer, Meets, Started
<1>13. ASSUME NEW t \in Threads, FinishFlush(t)
      PROVE  ScanInv'
  BY <1>13 DEF FinishFlush, Leave, EndIteration
<1>14. CASE BeginSync
  BY <1>14 DEF BeginSync, BeginIteration
<1>15. ASSUME NEW m \in Threads, SyncScan(m)
      PROVE  ScanInv'
  BY <1>15 DEF SyncScan, Meets, Started
<1>16. CASE BeginSyncFlush
  BY <1>16 DEF BeginSyncFlush, BeginIteration
<1>17. CASE NextSyncEpoch
  BY <1>17 DEF NextSyncEpoch, BeginIteration, Leave, EndIteration
<1>18. CASE UNCHANGED vars
  BY <1>18 DEF vars, iteration, closed
<1> QED
  BY <1>1, <1>2, <1>3, <1>4, <1>5, <1>6, <1>7, <1>8, <1>9,
     <1>10, <1>11, <1>12, <1>13, <1>14, <1>15, <1>16, <1>17, <1>18
     DEF Next, Advance, Mutate, Sync

(* Only Decide sends a thread to the compare-and-swap.                          *)
LEMMA CasStep ==
  ASSUME TypeOK, ScanInv, CasInv, [Next]_vars
  PROVE  CasInv'
<1> USE ThreadsAssumption DEF TypeOK, ScanInv, CasInv, Counting, Goto, iteration, closed, Attached
<1>1. ASSUME NEW t \in Threads, Attach(t)
      PROVE  CasInv'
  BY <1>1 DEF Attach
<1>2. ASSUME NEW t \in Threads, ConstructBuffer(t)
      PROVE  CasInv'
  BY <1>2 DEF ConstructBuffer
<1>3. ASSUME NEW t \in Threads, StoreBuffer(t)
      PROVE  CasInv'
  BY <1>3 DEF StoreBuffer
<1>4. ASSUME NEW t \in Threads, LogMutation(t)
      PROVE  CasInv'
  BY <1>4 DEF LogMutation
<1>5. ASSUME NEW t \in Threads, Detach(t)
      PROVE  CasInv'
  BY <1>5 DEF Detach
<1>6. ASSUME NEW t \in Threads, LeaveEpoch(t)
      PROVE  CasInv'
  BY <1>6 DEF LeaveEpoch
<1>7. ASSUME NEW t \in Threads, LoadGlobal(t)
      PROVE  CasInv'
  BY <1>7 DEF LoadGlobal, BeginIteration
<1>8. ASSUME NEW t \in Threads, NEW m \in Threads, CountMutator(t, m)
      PROVE  CasInv'
  BY <1>8 DEF CountMutator, Meets, Started
<1>9. ASSUME NEW t \in Threads, Decide(t)
      PROVE  CasInv'
  <2>1. CASE EnoughReady(Cardinality(ready[t]), Cardinality(visited[t]))
    BY <1>9, <2>1 DEF Decide, IterationOver
  <2>2. CASE ~EnoughReady(Cardinality(ready[t]), Cardinality(visited[t]))
    BY <1>9, <2>2 DEF Decide, Leave, EndIteration
  <2> QED
    BY <2>1, <2>2
<1>10. ASSUME NEW t \in Threads, AdvanceGlobal(t)
      PROVE  CasInv'
  BY <1>10 DEF AdvanceGlobal, Leave, EndIteration
<1>11. ASSUME NEW t \in Threads, LockFlush(t)
      PROVE  CasInv'
  BY <1>11 DEF LockFlush, BeginIteration
<1>12. ASSUME NEW t \in Threads, NEW m \in Threads, FlushBuffer(t, m)
      PROVE  CasInv'
  BY <1>12 DEF FlushBuffer, Meets, Started
<1>13. ASSUME NEW t \in Threads, FinishFlush(t)
      PROVE  CasInv'
  BY <1>13 DEF FinishFlush, Leave, EndIteration
<1>14. CASE BeginSync
  BY <1>14 DEF BeginSync, BeginIteration
<1>15. ASSUME NEW m \in Threads, SyncScan(m)
      PROVE  CasInv'
  BY <1>15 DEF SyncScan, Meets, Started
<1>16. CASE BeginSyncFlush
  BY <1>16 DEF BeginSyncFlush, BeginIteration
<1>17. CASE NextSyncEpoch
  BY <1>17 DEF NextSyncEpoch, BeginIteration, Leave, EndIteration
<1>18. CASE UNCHANGED vars
  BY <1>18 DEF vars, iteration, closed
<1> QED
  BY <1>1, <1>2, <1>3, <1>4, <1>5, <1>6, <1>7, <1>8, <1>9,
     <1>10, <1>11, <1>12, <1>13, <1>14, <1>15, <1>16, <1>17, <1>18
     DEF Next, Advance, Mutate, Sync

(* The initial mutators stay in every iteration until they are detached.       *)
LEMMA InitialStep ==
  ASSUME TypeOK, InitialInv, [Next]_vars
  PROVE  InitialInv'
<1> USE ThreadsAssumption DEF TypeOK, InitialInv, Goto, iteration, closed, Attached
<1>1. ASSUME NEW t \in Threads, Attach(t)
      PROVE  InitialInv'
  BY <1>1 DEF Attach
<1>2. ASSUME NEW t \in Threads, ConstructBuffer(t)
      PROVE  InitialInv'
  BY <1>2 DEF ConstructBuffer
<1>3. ASSUME NEW t \in Threads, StoreBuffer(t)
      PROVE  InitialInv'
  BY <1>3 DEF StoreBuffer
<1>4. ASSUME NEW t \in Threads, LogMutation(t)
      PROVE  InitialInv'
  BY <1>4 DEF LogMutation
<1>5. ASSUME NEW t \in Threads, Detach(t)
      PROVE  InitialInv'
  BY <1>5 DEF Detach
<1>6. ASSUME NEW t \in Threads, LeaveEpoch(t)
      PROVE  InitialInv'
  BY <1>6 DEF LeaveEpoch
<1>7. ASSUME NEW t \in Threads, LoadGlobal(t)
      PROVE  InitialInv'
  BY <1>7 DEF LoadGlobal, BeginIteration
<1>8. ASSUME NEW t \in Threads, NEW m \in Threads, CountMutator(t, m)
      PROVE  InitialInv'
  BY <1>8 DEF CountMutator, Meets, Started
<1>9. ASSUME NEW t \in Threads, Decide(t)
      PROVE  InitialInv'
  BY <1>9 DEF Decide, Leave, EndIteration, IterationOver
<1>10. ASSUME NEW t \in Threads, AdvanceGlobal(t)
      PROVE  InitialInv'
  BY <1>10 DEF AdvanceGlobal, Leave, EndIteration
<1>11. ASSUME NEW t \in Threads, LockFlush(t)
      PROVE  InitialInv'
  BY <1>11 DEF LockFlush, BeginIteration
<1>12. ASSUME NEW t \in Threads, NEW m \in Threads, FlushBuffer(t, m)
      PROVE  InitialInv'
  BY <1>12 DEF FlushBuffer, Meets, Started
<1>13. ASSUME NEW t \in Threads, FinishFlush(t)
      PROVE  InitialInv'
  BY <1>13 DEF FinishFlush, Leave, EndIteration
<1>14. CASE BeginSync
  BY <1>14 DEF BeginSync, BeginIteration
<1>15. ASSUME NEW m \in Threads, SyncScan(m)
      PROVE  InitialInv'
  BY <1>15 DEF SyncScan, Meets, Started
<1>16. CASE BeginSyncFlush
  BY <1>16 DEF BeginSyncFlush, BeginIteration
<1>17. CASE NextSyncEpoch
  BY <1>17 DEF NextSyncEpoch, BeginIteration, Leave, EndIteration
<1>18. CASE UNCHANGED vars
  BY <1>18 DEF vars, iteration, closed
<1> QED
  BY <1>1, <1>2, <1>3, <1>4, <1>5, <1>6, <1>7, <1>8, <1>9,
     <1>10, <1>11, <1>12, <1>13, <1>14, <1>15, <1>16, <1>17, <1>18
     DEF Next, Advance, Mutate, Sync

(* As long as no epoch is closed no mutator falls behind: local epochs only     *)
(* grow, and a newcomer begins with the global one.                             *)
LEMMA LaggardsStep ==
  ASSUME TypeOK, InitialInv, [Next]_vars, globalEpoch' = globalEpoch
  PROVE  Laggards' \subseteq Laggards
<1> USE ThreadsAssumption DEF TypeOK, Laggards, Constructed, InitialInv, Goto, iteration, closed,
                              Attached
<1>1. ASSUME NEW t \in Threads, Attach(t)
      PROVE  Laggards' \subseteq Laggards
  BY <1>1 DEF Attach
<1>2. ASSUME NEW t \in Threads, ConstructBuffer(t)
      PROVE  Laggards' \subseteq Laggards
  BY <1>2 DEF ConstructBuffer
<1>3. ASSUME NEW t \in Threads, StoreBuffer(t)
      PROVE  Laggards' \subseteq Laggards
  BY <1>3 DEF StoreBuffer
<1>4. ASSUME NEW t \in Threads, LogMutation(t)
      PROVE  Laggards' \subseteq Laggards
  BY <1>4 DEF LogMutation
<1>5. ASSUME NEW t \in Threads, Detach(t)
      PROVE  Laggards' \subseteq Laggards
  BY <1>5 DEF Detach
<1>6. ASSUME NEW t \in Threads, LeaveEpoch(t)
      PROVE  Laggards' \subseteq Laggards
  BY <1>6 DEF LeaveEpoch
<1>7. ASSUME NEW t \in Threads, LoadGlobal(t)
      PROVE  Laggards' \subseteq Laggards
  BY <1>7 DEF LoadGlobal, BeginIteration
<1>8. ASSUME NEW t \in Threads, NEW m \in Threads, CountMutator(t, m)
      PROVE  Laggards' \subseteq Laggards
  BY <1>8 DEF CountMutator, Meets, Started
<1>9. ASSUME NEW t \in Threads, Decide(t)
      PROVE  Laggards' \subseteq Laggards
  BY <1>9 DEF Decide, Leave, EndIteration, IterationOver
<1>10. ASSUME NEW t \in Threads, AdvanceGlobal(t)
      PROVE  Laggards' \subseteq Laggards
  BY <1>10 DEF AdvanceGlobal
<1>11. ASSUME NEW t \in Threads, LockFlush(t)
      PROVE  Laggards' \subseteq Laggards
  BY <1>11 DEF LockFlush, BeginIteration
<1>12. ASSUME NEW t \in Threads, NEW m \in Threads, FlushBuffer(t, m)
      PROVE  Laggards' \subseteq Laggards
  BY <1>12 DEF FlushBuffer, Meets, Started
<1>13. ASSUME NEW t \in Threads, FinishFlush(t)
      PROVE  Laggards' \subseteq Laggards
  BY <1>13 DEF FinishFlush, Leave, EndIteration
<1>14. CASE BeginSync
  BY <1>14 DEF BeginSync, BeginIteration
<1>15. ASSUME NEW m \in Threads, SyncScan(m)
      PROVE  Laggards' \subseteq Laggards
  BY <1>15 DEF SyncScan, Meets, Started
<1>16. CASE BeginSyncFlush
  BY <1>16 DEF BeginSyncFlush, BeginIteration
<1>17. CASE NextSyncEpoch
  BY <1>17 DEF NextSyncEpoch, BeginIteration, Leave, EndIteration
<1>18. CASE UNCHANGED vars
  BY <1>18 DEF vars, iteration, closed
<1> QED
  BY <1>1, <1>2, <1>3, <1>4, <1>5, <1>6, <1>7, <1>8, <1>9,
     <1>10, <1>11, <1>12, <1>13, <1>14, <1>15, <1>16, <1>17, <1>18
     DEF Next, Advance, Mutate, Sync

(* The compare-and-swap moves the epoch past all that are being flushed.        *)
LEMMA FlushOnceStep ==
  ASSUME TypeOK, FlushOnce, [Next]_vars
  PROVE  FlushOnce'
<1> USE ThreadsAssumption DEF TypeOK, FlushOnce, Flushing, Goto, iteration, closed, Attached
<1>1. ASSUME NEW t \in Threads, Attach(t)
      PROVE  FlushOnce'
  BY <1>1 DEF Attach
<1>2. ASSUME NEW t \in Threads, ConstructBuffer(t)
      PROVE  FlushOnce'
  BY <1>2 DEF ConstructBuffer
<1>3. ASSUME NEW t \in Threads, StoreBuffer(t)
      PROVE  FlushOnce'
  BY <1>3 DEF StoreBuffer
<1>4. ASSUME NEW t \in Threads, LogMutation(t)
      PROVE  FlushOnce'
  BY <1>4 DEF LogMutation
<1>5. ASSUME NEW t \in Threads, Detach(t)
      PROVE  FlushOnce'
  BY <1>5 DEF Detach
<1>6. ASSUME NEW t \in Threads, LeaveEpoch(t)
      PROVE  FlushOnce'
  BY <1>6 DEF LeaveEpoch
<1>7. ASSUME NEW t \in Threads, LoadGlobal(t)
      PROVE  FlushOnce'
  BY <1>7 DEF LoadGlobal, BeginIteration
<1>8. ASSUME NEW t \in Threads, NEW m \in Threads, CountMutator(t, m)
      PROVE  FlushOnce'
  BY <1>8 DEF CountMutator, Meets, Started
<1>9. ASSUME NEW t \in Threads, Decide(t)
      PROVE  FlushOnce'
  BY <1>9 DEF Decide, Leave, EndIteration, IterationOver
<1>10. ASSUME NEW t \in Threads, AdvanceGlobal(t)
      PROVE  FlushOnce'
  BY <1>10 DEF AdvanceGlobal, Leave, EndIteration
<1>11. ASSUME NEW t \in Threads, LockFlush(t)
      PROVE  FlushOnce'
  BY <1>11 DEF LockFlush, BeginIteration
<1>12. ASSUME NEW t \in Threads, NEW m \in Threads, FlushBuffer(t, m)
      PROVE  FlushOnce'
  BY <1>12 DEF FlushBuffer, Meets, Started
<1>13. ASSUME NEW t \in Threads, FinishFlush(t)
      PROVE  FlushOnce'
  BY <1>13 DEF FinishFlush, Leave, EndIteration
<1>14. CASE BeginSync
  BY <1>14 DEF BeginSync, BeginIteration
<1>15. ASSUME NEW m \in Threads, SyncScan(m)
      PROVE  FlushOnce'
  BY <1>15 DEF SyncScan, Meets, Started
<1>16. CASE BeginSyncFlush
  BY <1>16 DEF BeginSyncFlush, BeginIteration
<1>17. CASE NextSyncEpoch
  BY <1>17 DEF NextSyncEpoch, BeginIteration, Leave, EndIteration
<1>18. CASE UNCHANGED vars
  BY <1>18 DEF vars, iteration, closed
<1> QED
  BY <1>1, <1>2, <1>3, <1>4, <1>5, <1>6, <1>7, <1>8, <1>9,
     <1>10, <1>11, <1>12, <1>13, <1>14, <1>15, <1>16, <1>17, <1>18
     DEF Next, Advance, Mutate, Sync

(* A mutation that is in the buffer after a step was there before it, with those *)
(* who will flush it still at work, unless a mutator that is behind has logged it. *)
Followed(i, e) ==
  \/ i \in Laggards
  \/ e \in pending[i] /\ (HasFlusher(i, e) => HasFlusher(i, e)')

(* A flusher leaves a buffer only when nothing of its epoch is left there.       *)
LEMMA StaleStep ==
  ASSUME TypeOK, InitialInv, [Next]_vars, globalEpoch' = globalEpoch,
         NEW i \in Initial, NEW e \in pending'[i], e < globalEpoch
  PROVE  Followed(i, e)
<1> USE ThreadsAssumption DEF TypeOK, Followed, HasFlusher, Flushing, Goto, iteration, closed,
                              Attached
<1>1. ASSUME NEW t \in Threads, Attach(t)
      PROVE  Followed(i, e)
  BY <1>1 DEF Attach
<1>2. ASSUME NEW t \in Threads, ConstructBuffer(t)
      PROVE  Followed(i, e)
  BY <1>2 DEF ConstructBuffer
<1>3. ASSUME NEW t \in Threads, StoreBuffer(t)
      PROVE  Followed(i, e)
  BY <1>3 DEF StoreBuffer
<1>4. ASSUME NEW t \in Threads, LogMutation(t)
      PROVE  Followed(i, e)
  BY <1>4 DEF LogMutation, Laggards, Constructed
<1>5. ASSUME NEW t \in Threads, Detach(t)
      PROVE  Followed(i, e)
  BY <1>5 DEF Detach
<1>6. ASSUME NEW t \in Threads, LeaveEpoch(t)
      PROVE  Followed(i, e)
  BY <1>6 DEF LeaveEpoch
<1>7. ASSUME NEW t \in Threads, LoadGlobal(t)
      PROVE  Followed(i, e)
  BY <1>7 DEF LoadGlobal, BeginIteration
<1>8. ASSUME NEW t \in Threads, NEW m \in Threads, CountMutator(t, m)
      PROVE  Followed(i, e)
  BY <1>8 DEF CountMutator, Meets, Started
<1>9. ASSUME NEW t \in Threads, Decide(t)
      PROVE  Followed(i, e)
  BY <1>9 DEF Decide, Leave, EndIteration, IterationOver
<1>10. ASSUME NEW t \in Threads, AdvanceGlobal(t)
      PROVE  Followed(i, e)
  BY <1>10 DEF AdvanceGlobal, Leave, EndIteration
<1>11. ASSUME NEW t \in Threads, LockFlush(t)
      PROVE  Followed(i, e)
  BY <1>11 DEF LockFlush, BeginIteration
<1>12. ASSUME NEW t \in Threads, NEW m \in Threads, FlushBuffer(t, m)
      PROVE  Followed(i, e)
  <2>1. /\ e \in pending[i]
        /\ i = m /\ m \in Started => e > currentGlobal[t]
    <3>1. CASE m \in Started
      <4>1. PICK kept \in SUBSET { d \in pending[m] : d > currentGlobal[t] } :
              pending' = [pending EXCEPT ![m] = kept]
        BY <1>12, <3>1 DEF FlushBuffer
      <4>2. CASE i = m
        BY <3>1, <4>1, <4>2
      <4>3. CASE i # m
        BY <4>1, <4>3
      <4>4. QED
        BY <4>2, <4>3
    <3>2. CASE m \notin Started
      BY <1>12, <3>2 DEF FlushBuffer
    <3>3. QED
      BY <3>1, <3>2
  <2> SUFFICES ASSUME NEW u \in Threads, Flushing(u), currentGlobal[u] >= e,
                      i \notin visited[u]
               PROVE  HasFlusher(i, e)'
    BY <2>1
  <2>2. i \notin visited'[u]
    BY <1>12, <2>1 DEF FlushBuffer
  <2> QED
    BY <1>12, <2>2 DEF FlushBuffer
<1>13. ASSUME NEW t \in Threads, FinishFlush(t)
      PROVE  Followed(i, e)
  <2> SUFFICES ASSUME NEW u \in Threads, Flushing(u), currentGlobal[u] >= e,
                      i \notin visited[u]
               PROVE  HasFlusher(i, e)'
    BY <1>13 DEF FinishFlush
  <2>2. u # t
    <3>1. i \in targets[t] \cap Attached
      BY <1>13 DEF FinishFlush, InitialInv
    <3> QED
      BY <1>13, <3>1 DEF FinishFlush, IterationOver
  <2> QED
    BY <1>13, <2>2 DEF FinishFlush, Leave, EndIteration
<1>14. CASE BeginSync
  BY <1>14 DEF BeginSync, BeginIteration
<1>15. ASSUME NEW m \in Threads, SyncScan(m)
      PROVE  Followed(i, e)
  BY <1>15 DEF SyncScan, Meets, Started
<1>16. CASE BeginSyncFlush
  BY <1>16 DEF BeginSyncFlush, BeginIteration
<1>17. CASE NextSyncEpoch
  BY <1>17 DEF NextSyncEpoch, BeginIteration, Leave, EndIteration
<1>18. CASE UNCHANGED vars
  BY <1>18 DEF vars, iteration, closed
<1> QED
  BY <1>1, <1>2, <1>3, <1>4, <1>5, <1>6, <1>7, <1>8, <1>9,
     <1>10, <1>11, <1>12, <1>13, <1>14, <1>15, <1>16, <1>17, <1>18
     DEF Next, Advance, Mutate, Sync

(* Who closes an epoch leaves behind only those that its scan met and did not    *)
(* count as ready: what they log of the epoch it is about to flush.              *)
LEMMA CloseStep ==
  ASSUME TypeOK, ScanInv, CasInv, InitialInv, NEW t \in Threads, AdvanceGlobal(t),
         globalEpoch' # globalEpoch
  PROVE  BehindInv'
<1> USE ThreadsAssumption DEF TypeOK, Goto
<1>1. /\ pc[t] = "cas" /\ globalEpoch = currentGlobal[t]
      /\ globalEpoch' = globalEpoch + 1
      /\ counted' = Cardinality(visited[t])
      /\ pc' = [pc EXCEPT ![t] = "lock"]
      /\ visited' = [visited EXCEPT ![t] = {}]
      /\ UNCHANGED <<localEpoch, currentGlobal, pending>>
  BY DEF AdvanceGlobal, EndIteration, closed
<1>2. ready[t] \subseteq visited[t] /\ visited[t] \subseteq Threads
  BY <1>1 DEF ScanInv, Counting
<1>3. \A m \in Attached : m \in targets[t] => m \in visited[t]
  BY <1>1 DEF CasInv
<1>4. Laggards' \subseteq visited[t] \ ready[t]
  <2> SUFFICES ASSUME NEW m \in Laggards' PROVE m \in visited[t] \ ready[t]
    OBVIOUS
  <2>1. /\ m \in Constructed /\ localEpoch[m] <= globalEpoch
        /\ m \notin Initial => localEpoch[m] < globalEpoch
    BY <1>1 DEF Laggards, Constructed
  <2>2. m \in targets[t]
    BY <1>1, <2>1 DEF ScanInv, InitialInv, Counting, Constructed
  <2>3. m \in visited[t]
    BY <1>3, <2>1, <2>2 DEF Constructed, Attached
  <2>4. m \notin ready[t]
    BY <1>1, <2>1 DEF ScanInv, Counting
  <2> QED
    BY <2>3, <2>4
<1>5. Overlooked' = {}
  <2> SUFFICES ASSUME NEW m \in Initial, NEW e \in pending[m], e < globalEpoch + 1
               PROVE  HasFlusher(m, e)'
    BY <1>1 DEF Overlooked
  <2> QED
    BY <1>1 DEF HasFlusher, Flushing
<1>6. (Laggards \cup Overlooked)' \in SUBSET (visited[t] \ ready[t])
  BY <1>4, <1>5
<1>7. EnoughReady(Cardinality(ready[t]), Cardinality(visited[t]))
  BY <1>1 DEF CasInv
<1>8. 10 * Cardinality((Laggards \cup Overlooked)') <= Cardinality(visited[t])
  BY <1>2, <1>6, <1>7, FewNotReady
<1> QED
  BY <1>1, <1>8 DEF BehindInv

(* No other step leaves a mutator behind. *)
LEMMA BehindStep ==
  ASSUME IInv, [Next]_vars
  PROVE  BehindInv'
<1> USE DEF IInv
<1>1. CASE globalEpoch' # globalEpoch
  <2>1. PICK t \in Threads : AdvanceGlobal(t)
    BY <1>1 DEF Next, Advance, Mutate, Sync, Attach, ConstructBuffer, StoreBuffer, LogMutation,
       Detach, LeaveEpoch, LoadGlobal, CountMutator, Decide, LockFlush, FlushBuffer, FinishFlush,
       BeginSync, SyncScan, BeginSyncFlush, NextSyncEpoch, vars, closed
  <2> QED
    BY <1>1, <2>1, CloseStep
<1>2. CASE globalEpoch' = globalEpoch
  <2>1. counted' = counted
    BY <1>2 DEF Next, Advance, Mutate, Sync, Attach, ConstructBuffer, StoreBuffer, LogMutation,
       Detach, LeaveEpoch, LoadGlobal, CountMutator, Decide, AdvanceGlobal, LockFlush,
       FlushBuffer, FinishFlush, BeginSync, SyncScan, BeginSyncFlush, NextSyncEpoch, vars, closed,
       TypeOK
  <2>2. Laggards' \subseteq Laggards
    BY <1>2, LaggardsStep
  <2>3. Overlooked' \subseteq Laggards \cup Overlooked
    <3> SUFFICES ASSUME NEW i \in Initial, NEW e \in pending'[i], e < globalEpoch,
                        ~ HasFlusher(i, e)'
                 PROVE  i \in Laggards \cup Overlooked
      BY <1>2 DEF Overlooked
    <3>1. Followed(i, e)
      BY <1>2, StaleStep
    <3> QED
      BY <3>1 DEF Followed, Overlooked
  <2>4. (Laggards \cup Overlooked)' \in SUBSET (Laggards \cup Overlooked)
    BY <2>2, <2>3
  <2>5. Laggards \cup Overlooked \in SUBSET Threads
    BY ThreadsAssumption DEF Laggards, Overlooked, Constructed
  <2> QED
    BY <2>1, <2>4, <2>5, FewerBehind DEF BehindInv, TypeOK
<1> QED
  BY <1>1, <1>2

(* The inductive invariant, conjunct by conjunct, is preserved by every step. *)
LEMMA NextIInv ==
  ASSUME IInv, [Next]_vars
  PROVE  IInv'
BY TypeStep, ScanStep, CasStep, InitialStep, BehindStep DEF IInv

(* IInv is an inductive invariant of the epoch protocol. *)
LEMMA Inductive == Spec => []IInv
<1>1. Init => IInv
  BY InitIInv
<1>2. IInv /\ [Next]_vars => IInv'
  BY NextIInv
<1> QED
  BY <1>1, <1>2, PTL DEF Spec

-------------------------------------------------------------------------------

(* Type correctness of the epoch protocol, for any set of threads.          *)
THEOREM TypeCorrect == Spec => []TypeOK
<1>1. Init => TypeOK
  BY InitIInv DEF IInv
<1>2. TypeOK /\ [Next]_vars => TypeOK'
  BY TypeStep
<1> QED
  BY <1>1, <1>2, PTL DEF Spec

(* TryAdvanceGlobal's compare-and-swap gives each closed epoch to one thread,  *)
(* for any set of threads.                                                   *)
THEOREM FlushOnceCorrect == Spec => []FlushOnce
<1>1. Init => FlushOnce
  BY InitFlushOnce
<1>2. TypeOK /\ FlushOnce /\ [Next]_vars => FlushOnce'
  BY FlushOnceStep
<1> QED
  BY <1>1, <1>2, TypeCorrect, PTL DEF Spec

(* However many mutators there are, the global epoch overtakes at most a tenth of  *)
(* those that the scan met which closed the last epoch: TryAdvanceGlobal.         *)
THEOREM EpochLagCorrect == Spec => []EpochLag
<1>1. IInv => EpochLag
  <2> SUFFICES ASSUME IInv PROVE EpochLag
    OBVIOUS
  <2>1. Laggards \cup Overlooked \in SUBSET Threads
    BY ThreadsAssumption DEF Laggards, Overlooked, Constructed
  <2> QED
    BY <2>1, FewerBehind DEF EpochLag, IInv, BehindInv, TypeOK
<1> QED
  BY <1>1, Inductive, PTL

(* However many mutators there are, FlushGlobalEpoch leaves mutations of a closed    *)
(* epoch behind in the buffers of at most a tenth of them; every other one has a     *)
(* thread at work that will apply it.                                               *)
THEOREM StaleHasFlusherCorrect == Spec => []StaleHasFlusher
<1>1. IInv => StaleHasFlusher
  <2> SUFFICES ASSUME IInv PROVE StaleHasFlusher
    OBVIOUS
  <2>1. Laggards \cup Overlooked \in SUBSET Threads
    BY ThreadsAssumption DEF Laggards, Overlooked, Constructed
  <2> QED
    BY <2>1, FewerBehind DEF StaleHasFlusher, IInv, BehindInv, TypeOK
<1> QED
  BY <1>1, Inductive, PTL

-------------------------------------------------------------------------------
(* How often a sequence holds an element: CycleCollector.                  *)

Places(s, e) == { i \in DOMAIN s : s[i] = e }

(* The places are places of the sequence, and finitely many. *)
LEMMA PlacesFinite ==
  ASSUME NEW T, NEW s \in Seq(T), NEW e
  PROVE  /\ Places(s, e) \subseteq 1..Len(s)
         /\ IsFiniteSet(Places(s, e))
         /\ Times(s, e) = Cardinality(Places(s, e))
         /\ Times(s, e) \in Nat
<1>1. Places(s, e) \subseteq 1..Len(s) /\ Len(s) \in Nat
  BY DEF Places
<1>2. IsFiniteSet(1..Len(s))
  BY <1>1, FS_Interval
<1>3. IsFiniteSet(Places(s, e))
  BY <1>1, <1>2, FS_Subset
<1>4. Times(s, e) = Cardinality(Places(s, e))
  BY DEF Times, Places
<1>5. QED
  BY <1>1, <1>3, <1>4, FS_CardinalityType

LEMMA TimesZero ==
  ASSUME NEW T, NEW s \in Seq(T), NEW e
  PROVE  Times(s, e) = 0 <=> \A i \in 1..Len(s) : s[i] # e
<1>1. Times(s, e) = 0 <=> Places(s, e) = {}
  BY PlacesFinite, FS_EmptySet
<1>2. QED
  BY <1>1 DEF Places

Has(s, e) == \E i \in 1..Len(s) : s[i] = e

LEMMA HasTimes ==
  ASSUME NEW T, NEW s \in Seq(T), NEW e
  PROVE  Times(s, e) = 0 <=> ~Has(s, e)
BY TimesZero DEF Has

LEMMA HasConcat ==
  ASSUME NEW T, NEW s \in Seq(T), NEW t \in Seq(T), NEW e
  PROVE  Has(s \o t, e) <=> Has(s, e) \/ Has(t, e)
<1>1. /\ Len(s \o t) = Len(s) + Len(t)
      /\ \A i \in 1..(Len(s) + Len(t)) :
           (s \o t)[i] = IF i <= Len(s) THEN s[i] ELSE t[i - Len(s)]
      /\ Len(s) \in Nat /\ Len(t) \in Nat
  BY ConcatProperties
<1>2. Has(s \o t, e) => Has(s, e) \/ Has(t, e)
  BY <1>1 DEF Has
<1>3. Has(s, e) => Has(s \o t, e)
  BY <1>1 DEF Has
<1>4. ASSUME NEW i \in 1..Len(t), t[i] = e
      PROVE  Has(s \o t, e)
  <2>1. Len(s) + i \in 1..(Len(s) + Len(t)) /\ ~(Len(s) + i <= Len(s)) /\ Len(s) + i - Len(s) = i
    BY <1>1
  <2>2. (s \o t)[Len(s) + i] = e
    BY <1>1, <1>4, <2>1
  <2>3. QED
    BY <1>1, <2>1, <2>2 DEF Has
<1>5. QED
  BY <1>2, <1>3, <1>4 DEF Has

LEMMA HasOne ==
  ASSUME NEW x, NEW e
  PROVE  Has(<<x>>, e) <=> x = e
BY DEF Has

LEMMA HasNone == \A e : ~Has(<<>>, e)
BY DEF Has

LEMMA HasAppend ==
  ASSUME NEW T, NEW s \in Seq(T), NEW x \in T, NEW e
  PROVE  Has(Append(s, x), e) <=> Has(s, e) \/ x = e
<1>1. Append(s, x) = s \o <<x>> /\ <<x>> \in Seq(T)
  BY AppendIsConcat
<1>2. Has(s \o <<x>>, e) <=> Has(s, e) \/ Has(<<x>>, e)
  BY <1>1, HasConcat
<1>3. QED
  BY <1>1, <1>2, HasOne

LEMMA HasTail ==
  ASSUME NEW T, NEW s \in Seq(T), s # <<>>, NEW e
  PROVE  Has(s, e) <=> Head(s) = e \/ Has(Tail(s), e)
<1>1. /\ Head(s) \in T /\ Tail(s) \in Seq(T)
      /\ <<Head(s)>> \in Seq(T)
      /\ s = <<Head(s)>> \o Tail(s)
  OBVIOUS
<1>2. Has(<<Head(s)>> \o Tail(s), e) <=> Has(<<Head(s)>>, e) \/ Has(Tail(s), e)
  BY <1>1, HasConcat
<1>3. QED
  BY <1>1, <1>2, HasOne

(* Of two sequences, one after the other. *)
LEMMA TimesConcat ==
  ASSUME NEW T, NEW s \in Seq(T), NEW t \in Seq(T), NEW e
  PROVE  Times(s \o t, e) = Times(s, e) + Times(t, e)
<1> DEFINE Shifted == { i \in (Len(s) + 1)..(Len(s) + Len(t)) : t[i - Len(s)] = e }
           f == [i \in Places(t, e) |-> i + Len(s)]
<1>1. /\ s \o t \in Seq(T)
      /\ Len(s \o t) = Len(s) + Len(t)
      /\ \A i \in 1..(Len(s) + Len(t)) :
           (s \o t)[i] = IF i <= Len(s) THEN s[i] ELSE t[i - Len(s)]
      /\ Len(s) \in Nat /\ Len(t) \in Nat
  BY ConcatProperties
<1>2. Places(s \o t, e) = Places(s, e) \cup Shifted
  <2>1. DOMAIN (s \o t) = 1..(Len(s) + Len(t)) /\ DOMAIN s = 1..Len(s)
    BY <1>1
  <2>2. QED
    BY <1>1, <2>1 DEF Places
<1>3. Places(s, e) \cap Shifted = {}
  BY <1>1, PlacesFinite
<1>4. f \in Bijection(Places(t, e), Shifted)
  <2>1. Places(t, e) = { i \in 1..Len(t) : t[i] = e }
    BY DEF Places
  <2>2. \A i \in Places(t, e) : f[i] \in Shifted
    BY <1>1, <2>1
  <2>3. \A i, j \in Places(t, e) : f[i] = f[j] => i = j
    BY <1>1, <2>1
  <2>4. ASSUME NEW k \in Shifted
        PROVE  \E i \in Places(t, e) : f[i] = k
    <3>1. k - Len(s) \in Places(t, e)
      BY <1>1, <2>1
    <3>2. QED
      BY <1>1, <3>1
  <2>5. f \in [Places(t, e) -> Shifted]
    BY <2>2
  <2>6. QED
    BY <2>3, <2>4, <2>5, Fun_IsBij
<1>5. IsFiniteSet(Shifted) /\ Cardinality(Shifted) = Cardinality(Places(t, e))
  <2>1. ExistsBijection(Places(t, e), Shifted)
    BY <1>4 DEF ExistsBijection
  <2>2. IsFiniteSet(Places(t, e))
    BY PlacesFinite
  <2> HIDE DEF Shifted, f
  <2>3. QED
    BY <2>1, <2>2, FS_Bijection
<1>6. /\ IsFiniteSet(Places(s, e))
      /\ Times(s, e) = Cardinality(Places(s, e))
      /\ Times(s, e) \in Nat
  BY PlacesFinite
<1>7. Times(t, e) = Cardinality(Places(t, e)) /\ Times(t, e) \in Nat
  BY PlacesFinite
<1>8. Times(s \o t, e) = Cardinality(Places(s \o t, e))
  BY <1>1, PlacesFinite
<1>9. Cardinality(Places(s, e) \cup Shifted) = Cardinality(Places(s, e)) + Cardinality(Shifted)
  <2> HIDE DEF Shifted
  <2>1. /\ Cardinality(Places(s, e)) \in Nat
        /\ Cardinality(Shifted) \in Nat
        /\ Cardinality(Places(s, e) \cap Shifted) = 0
    BY <1>3, <1>5, <1>6, FS_EmptySet, FS_CardinalityType
  <2>2. Cardinality(Places(s, e) \cup Shifted)
          = Cardinality(Places(s, e)) + Cardinality(Shifted) - Cardinality(Places(s, e) \cap Shifted)
    BY <1>5, <1>6, FS_Union
  <2>3. QED
    BY <2>1, <2>2
<1>10. QED
  BY <1>2, <1>5, <1>6, <1>7, <1>8, <1>9

LEMMA TimesOne ==
  ASSUME NEW T, NEW x \in T, NEW e
  PROVE  Times(<<x>>, e) = IF x = e THEN 1 ELSE 0
<1>1. <<x>> \in Seq(T) /\ Len(<<x>>) = 1 /\ <<x>>[1] = x
  OBVIOUS
<1>2. CASE x = e
  <2>1. Places(<<x>>, e) = {1}
    BY <1>1, <1>2 DEF Places
  <2>2. Times(<<x>>, e) = Cardinality({1})
    BY <1>1, <2>1, PlacesFinite
  <2>3. QED
    BY <1>2, <2>2, FS_Singleton
<1>3. CASE x # e
  <2>1. \A i \in 1..Len(<<x>>) : <<x>>[i] # e
    BY <1>1, <1>3
  <2>2. QED
    BY <1>1, <1>3, <2>1, TimesZero
<1>4. QED
  BY <1>2, <1>3

LEMMA TimesAppend ==
  ASSUME NEW T, NEW s \in Seq(T), NEW x \in T, NEW e
  PROVE  Times(Append(s, x), e) = Times(s, e) + (IF x = e THEN 1 ELSE 0)
<1>1. Append(s, x) = s \o <<x>> /\ <<x>> \in Seq(T)
  BY AppendIsConcat
<1>2. Times(s \o <<x>>, e) = Times(s, e) + Times(<<x>>, e)
  BY <1>1, TimesConcat
<1>3. Times(<<x>>, e) = IF x = e THEN 1 ELSE 0
  BY TimesOne
<1>4. QED
  BY <1>1, <1>2, <1>3

LEMMA TimesTail ==
  ASSUME NEW T, NEW s \in Seq(T), s # <<>>, NEW e
  PROVE  Times(s, e) = Times(Tail(s), e) + (IF Head(s) = e THEN 1 ELSE 0)
<1>1. /\ Head(s) \in T /\ Tail(s) \in Seq(T)
      /\ <<Head(s)>> \in Seq(T)
      /\ s = <<Head(s)>> \o Tail(s)
  OBVIOUS
<1>2. Times(<<Head(s)>> \o Tail(s), e) = Times(<<Head(s)>>, e) + Times(Tail(s), e)
  BY <1>1, TimesConcat
<1>3. Times(Tail(s), e) \in Nat
  BY <1>1, PlacesFinite
<1>4. Times(<<Head(s)>>, e) = IF Head(s) = e THEN 1 ELSE 0
  BY <1>1, TimesOne
<1>5. Times(s, e) = Times(<<Head(s)>>, e) + Times(Tail(s), e)
  BY <1>1, <1>2
<1>6. CASE Head(s) = e
  BY <1>3, <1>4, <1>5, <1>6
<1>7. CASE Head(s) # e
  BY <1>3, <1>4, <1>5, <1>7
<1>8. QED
  BY <1>6, <1>7

LEMMA TimesLonger ==
  ASSUME NEW T, NEW s \in Seq(T), NEW x \in T
  PROVE  /\ Times(Append(s, x), x) = Times(s, x) + 1
         /\ \A e : e # x => Times(Append(s, x), e) = Times(s, e)
<1>1. \A e : Times(s, e) \in Nat
  BY PlacesFinite
<1>2. \A e : Times(Append(s, x), e) = Times(s, e) + (IF x = e THEN 1 ELSE 0)
  BY TimesAppend
<1>3. QED
  BY <1>1, <1>2

LEMMA TimesShorter ==
  ASSUME NEW T, NEW s \in Seq(T), s # <<>>
  PROVE  /\ Times(s, Head(s)) = Times(Tail(s), Head(s)) + 1
         /\ \A e : e # Head(s) => Times(s, e) = Times(Tail(s), e)
         /\ \A e : Times(Tail(s), e) \in Nat
<1>1. \A e : Times(Tail(s), e) \in Nat
  <2>1. Tail(s) \in Seq(T)
    OBVIOUS
  <2>2. QED
    BY <2>1, PlacesFinite
<1>2. \A e : Times(s, e) = Times(Tail(s), e) + (IF Head(s) = e THEN 1 ELSE 0)
  BY TimesTail
<1>3. QED
  BY <1>1, <1>2

LEMMA Pushed ==
  ASSUME NEW T, NEW s \in Seq(T), NEW x \in T, NEW t \in Seq(T)
  PROVE  /\ s \o <<x>> \o t \in Seq(T)
         /\ \A e : Has(s \o <<x>> \o t, e) <=> Has(s, e) \/ e = x \/ Has(t, e)
         /\ \A e : Times(s \o <<x>> \o t, e) = Times(s, e) + Times(<<x>>, e) + Times(t, e)
<1> DEFINE u == s \o <<x>>
<1>1. <<x>> \in Seq(T) /\ u \in Seq(T) /\ u \o t \in Seq(T)
  OBVIOUS
<1>2. \A e : Has(u, e) <=> Has(s, e) \/ e = x
  BY <1>1, HasConcat, HasOne
<1>3. \A e : Times(u, e) = Times(s, e) + Times(<<x>>, e)
  BY <1>1, TimesConcat
<1> HIDE DEF u
<1>4. \A e : Has(u \o t, e) <=> Has(u, e) \/ Has(t, e)
  BY <1>1, HasConcat
<1>5. \A e : Times(u \o t, e) = Times(u, e) + Times(t, e)
  BY <1>1, TimesConcat
<1>6. /\ u \o t \in Seq(T)
      /\ \A e : Has(u \o t, e) <=> Has(s, e) \/ e = x \/ Has(t, e)
      /\ \A e : Times(u \o t, e) = Times(s, e) + Times(<<x>>, e) + Times(t, e)
  BY <1>1, <1>2, <1>3, <1>4, <1>5
<1>7. QED
  BY <1>6 DEF u

-------------------------------------------------------------------------------
(* How many fields refer to an object: ObjectCounts.                       *)

Heaps == [Objects -> [Fields -> Objects \cup {Null}]]

Referring(f, S, o) == { at \in S \X Fields : f[at[1]][at[2]] = o }

PointersIn(f, S, o) == Cardinality(Referring(f, S, o))

LEMMA PointersNow ==
  ASSUME NEW S, NEW o
  PROVE  PointersFrom(S, o) = PointersIn(field, S, o)
BY DEF PointersFrom, PointersIn, Referring

LEMMA PointersFinite ==
  ASSUME NEW f, NEW S \in SUBSET Objects, NEW o
  PROVE  /\ IsFiniteSet(Referring(f, S, o))
         /\ PointersIn(f, S, o) \in Nat
<1>1. IsFiniteSet(Fields)
  BY ObjectsAssumption, FS_Interval DEF Fields
<1>2. IsFiniteSet(S)
  BY ObjectsAssumption, FS_Subset
<1>3. IsFiniteSet(S \X Fields)
  BY <1>1, <1>2, FS_Product
<1>4. Referring(f, S, o) \subseteq S \X Fields
  BY DEF Referring
<1>5. IsFiniteSet(Referring(f, S, o))
  BY <1>3, <1>4, FS_Subset
<1>6. QED
  BY <1>5, FS_CardinalityType DEF PointersIn

LEMMA PointersZero ==
  ASSUME NEW f, NEW S \in SUBSET Objects, NEW o
  PROVE  PointersIn(f, S, o) = 0 <=> \A p \in S, i \in Fields : f[p][i] # o
<1>1. PointersIn(f, S, o) = 0 <=> Referring(f, S, o) = {}
  BY PointersFinite, FS_EmptySet DEF PointersIn
<1>2. ASSUME NEW p \in S, NEW i \in Fields, f[p][i] = o
      PROVE  Referring(f, S, o) # {}
  <2>1. <<p, i>> \in Referring(f, S, o)
    BY <1>2 DEF Referring
  <2>2. QED
    BY <2>1
<1>3. ASSUME NEW at \in Referring(f, S, o)
      PROVE  \E p \in S, i \in Fields : f[p][i] = o
  <2>1. at[1] \in S /\ at[2] \in Fields /\ f[at[1]][at[2]] = o
    BY DEF Referring
  <2>2. QED
    BY <2>1
<1>4. QED
  BY <1>1, <1>2, <1>3

(* Fewer objects refer fewer times, and if as often then all that refer are   *)
(* among the fewer.                                                           *)
LEMMA PointersSubset ==
  ASSUME NEW f, NEW S \in SUBSET Objects, NEW R \in SUBSET S, NEW o
  PROVE  /\ PointersIn(f, R, o) <= PointersIn(f, S, o)
         /\ PointersIn(f, R, o) = PointersIn(f, S, o)
              => \A p \in S, i \in Fields : f[p][i] = o => p \in R
<1>1. Referring(f, R, o) \subseteq Referring(f, S, o)
  BY DEF Referring
<1>2. IsFiniteSet(Referring(f, S, o))
  BY PointersFinite
<1>3. /\ PointersIn(f, R, o) <= PointersIn(f, S, o)
      /\ PointersIn(f, R, o) = PointersIn(f, S, o) => Referring(f, R, o) = Referring(f, S, o)
  BY <1>1, <1>2, FS_Subset DEF PointersIn
<1>4. ASSUME Referring(f, R, o) = Referring(f, S, o),
             NEW p \in S, NEW i \in Fields, f[p][i] = o
      PROVE  p \in R
  <2>1. <<p, i>> \in Referring(f, S, o)
    BY <1>4 DEF Referring
  <2>2. <<p, i>> \in Referring(f, R, o)
    BY <1>4, <2>1
  <2>3. QED
    BY <2>2 DEF Referring
<1>5. QED
  BY <1>3, <1>4

(* The calls that are made for the children of an object. *)
LEMMA CallsType ==
  ASSUME NEW q \in Objects, NEW call \in Calls, field \in Heaps
  PROVE  /\ ForEachChild(call, q) \in Seq(Calls \X (Objects \cup {Null}))
         /\ Len(ForEachChild(call, q)) = NumFields
         /\ \A i \in 1..NumFields : ForEachChild(call, q)[i] = <<call, field[q][i]>>
<1>1. /\ ForEachChild(call, q) = [i \in 1..NumFields |-> <<call, field[q][i]>>]
      /\ NumFields \in Nat
  BY ObjectsAssumption DEF ForEachChild, Fields
<1>2. \A i \in 1..NumFields : field[q][i] \in Objects \cup {Null}
  BY DEF Heaps, Fields
<1>3. \A i \in 1..NumFields : <<call, field[q][i]>> \in Calls \X (Objects \cup {Null})
  BY <1>2
<1>4. ForEachChild(call, q) \in [1..NumFields -> Calls \X (Objects \cup {Null})]
  BY <1>1, <1>3
<1>5. QED
  BY <1>1, <1>4

LEMMA HasCalls ==
  ASSUME NEW q \in Objects, NEW call \in Calls, field \in Heaps, NEW other, NEW o
  PROVE  Has(ForEachChild(call, q), <<other, o>>)
           <=> other = call /\ \E i \in Fields : field[q][i] = o
<1>1. /\ Len(ForEachChild(call, q)) = NumFields
      /\ \A i \in 1..NumFields : ForEachChild(call, q)[i] = <<call, field[q][i]>>
  BY CallsType
<1>2. QED
  BY <1>1 DEF Has, Fields

LEMMA CallsOther ==
  ASSUME NEW q \in Objects, NEW call \in Calls, field \in Heaps, NEW other, other # call, NEW o
  PROVE  Times(ForEachChild(call, q), <<other, o>>) = 0
<1>1. /\ ForEachChild(call, q) \in Seq(Calls \X (Objects \cup {Null}))
      /\ \A i \in 1..Len(ForEachChild(call, q)) : ForEachChild(call, q)[i] # <<other, o>>
  BY CallsType
<1>2. QED
  BY <1>1, TimesZero

(* The references of one object are its calls; the others' are left. *)
LEMMA PointersSplit ==
  ASSUME field \in Heaps, NEW S \in SUBSET Objects, NEW q \in S, NEW call \in Calls, NEW o
  PROVE  /\ Times(ForEachChild(call, q), <<call, o>>) \in Nat
         /\ PointersIn(field, S, o)
              = PointersIn(field, S \ {q}, o) + Times(ForEachChild(call, q), <<call, o>>)
<1> DEFINE s == ForEachChild(call, q)
           C == Places(s, <<call, o>>)
           B == { at \in {q} \X Fields : field[at[1]][at[2]] = o }
           b == [i \in C |-> <<q, i>>]
<1>1. /\ s \in Seq(Calls \X (Objects \cup {Null})) /\ DOMAIN s = Fields
      /\ \A i \in Fields : s[i] = <<call, field[q][i]>>
  BY CallsType DEF Fields
<1>2. IsFiniteSet(C) /\ Times(s, <<call, o>>) = Cardinality(C) /\ Times(s, <<call, o>>) \in Nat
  BY <1>1, PlacesFinite
<1>3. IsFiniteSet(B) /\ Cardinality(B) = Cardinality(C)
  <2>1. C = { i \in Fields : field[q][i] = o }
    BY <1>1 DEF Places
  <2>2. b \in [C -> B]
    BY <2>1
  <2>3. ASSUME NEW x \in B
        PROVE  \E i \in C : b[i] = x
    <3>1. x = <<q, x[2]>> /\ x[2] \in Fields /\ field[q][x[2]] = o
      OBVIOUS
    <3>2. x[2] \in C
      BY <2>1, <3>1
    <3>3. b[x[2]] = <<q, x[2]>>
      BY <3>2
    <3>4. QED
      BY <3>1, <3>2, <3>3
  <2>4. \A x, y \in C : b[x] = b[y] => x = y
    OBVIOUS
  <2> HIDE DEF b, B, C
  <2>5. b \in Bijection(C, B)
    BY <2>2, <2>3, <2>4, Fun_IsBij
  <2>6. ExistsBijection(C, B)
    BY <2>5 DEF ExistsBijection
  <2>7. QED
    BY <1>2, <2>6, FS_Bijection
<1>4. Referring(field, S, o) = Referring(field, S \ {q}, o) \cup B
  BY DEF Referring
<1>5. Referring(field, S \ {q}, o) \cap B = {}
  BY DEF Referring
<1>6. IsFiniteSet(Referring(field, S \ {q}, o)) /\ PointersIn(field, S \ {q}, o) \in Nat
  BY PointersFinite
<1> HIDE DEF B, C, s
<1>7. Cardinality(Referring(field, S \ {q}, o) \cup B)
        = Cardinality(Referring(field, S \ {q}, o)) + Cardinality(B)
          - Cardinality(Referring(field, S \ {q}, o) \cap B)
  BY <1>3, <1>6, FS_Union
<1>8. Cardinality(Referring(field, S \ {q}, o) \cap B) = 0
  BY <1>5, FS_EmptySet
<1>9. QED
  <2>1. PointersIn(field, S, o)
          = PointersIn(field, S \ {q}, o) + Cardinality(B)
    BY <1>3, <1>2, <1>4, <1>6, <1>7, <1>8 DEF PointersIn
  <2>2. QED
    BY <1>2, <1>3, <2>1 DEF s

LEMMA Without ==
  ASSUME NEW X, IsFiniteSet(X), NEW x
  PROVE  /\ x \in X => Cardinality(X) = Cardinality(X \ {x}) + 1
         /\ x \notin X => Cardinality(X) = Cardinality(X \ {x})
         /\ Cardinality(X \ {x}) \in Nat
<1>1. Cardinality(X) \in Nat
  BY FS_CardinalityType
<1>2. Cardinality(X \ {x}) \in Nat
  BY FS_Subset, FS_CardinalityType
<1>3. Cardinality(X \ {x}) = IF x \in X THEN Cardinality(X) - 1 ELSE Cardinality(X)
  BY FS_RemoveElement
<1>4. QED
  BY <1>1, <1>2, <1>3

(* One field is set: the old value loses a reference, the new one gains it. *)
FieldSet(f, S, q, j, v, o) ==
  PointersIn([f EXCEPT ![q][j] = v], S, o) + (IF f[q][j] = o THEN 1 ELSE 0)
    = PointersIn(f, S, o) + (IF v = o THEN 1 ELSE 0)

LEMMA PointersSet ==
  ASSUME NEW f \in Heaps, NEW S \in SUBSET Objects, NEW q \in S, NEW j \in Fields,
         NEW v \in Objects \cup {Null}, NEW o
  PROVE  FieldSet(f, S, q, j, v, o)
<1> DEFINE g == [f EXCEPT ![q][j] = v]
           here == <<q, j>>
           Others == Referring(f, S, o) \ {here}
<1>1. g \in Heaps /\ g[q][j] = v
  BY DEF Heaps
<1>2. \A p \in S, i \in Fields : <<p, i>> # here => g[p][i] = f[p][i]
  BY DEF Heaps
<1>3. Others = Referring(g, S, o) \ {here}
  <2>1. \A at \in S \X Fields : at = <<at[1], at[2]>> /\ at[1] \in S /\ at[2] \in Fields
    OBVIOUS
  <2>2. \A at \in S \X Fields : at # here => g[at[1]][at[2]] = f[at[1]][at[2]]
    BY <1>2, <2>1
  <2> HIDE DEF g, here
  <2>3. QED
    BY <2>2 DEF Referring
<1>4. here \in Referring(f, S, o) <=> f[q][j] = o
  BY DEF Referring
<1>5. here \in Referring(g, S, o) <=> v = o
  BY <1>1 DEF Referring
<1>6. /\ IsFiniteSet(Referring(f, S, o)) /\ PointersIn(f, S, o) \in Nat
      /\ IsFiniteSet(Referring(g, S, o)) /\ PointersIn(g, S, o) \in Nat
  BY PointersFinite
<1> HIDE DEF here
<1>7. PointersIn(f, S, o) = Cardinality(Others) + (IF f[q][j] = o THEN 1 ELSE 0)
  <2>1. /\ here \in Referring(f, S, o) =>
             Cardinality(Referring(f, S, o)) = Cardinality(Referring(f, S, o) \ {here}) + 1
        /\ here \notin Referring(f, S, o) =>
             Cardinality(Referring(f, S, o)) = Cardinality(Referring(f, S, o) \ {here})
        /\ Cardinality(Referring(f, S, o) \ {here}) \in Nat
    BY <1>6, Without
  <2>2. QED
    BY <1>4, <2>1 DEF PointersIn
<1>8. PointersIn(g, S, o) = Cardinality(Others) + (IF v = o THEN 1 ELSE 0)
  <2>1. /\ here \in Referring(g, S, o) =>
             Cardinality(Referring(g, S, o)) = Cardinality(Referring(g, S, o) \ {here}) + 1
        /\ here \notin Referring(g, S, o) =>
             Cardinality(Referring(g, S, o)) = Cardinality(Referring(g, S, o) \ {here})
        /\ Cardinality(Referring(g, S, o) \ {here}) \in Nat
    BY <1>6, Without
  <2> HIDE DEF g, Others
  <2>2. QED
    BY <1>3, <1>5, <2>1 DEF PointersIn
<1>9. Cardinality(Others) \in Nat
  BY <1>6, FS_Subset, FS_CardinalityType
<1> HIDE DEF g, Others
<1>10. PointersIn(g, S, o) + (IF f[q][j] = o THEN 1 ELSE 0)
         = PointersIn(f, S, o) + (IF v = o THEN 1 ELSE 0)
  BY <1>7, <1>8, <1>9
<1>11. QED
  BY <1>10 DEF g, FieldSet

-------------------------------------------------------------------------------
(* The inductive invariant of CycleCollector.                              *)

(* Removals of an object that are still to be made. *)
Owed(o) == Times(work, <<"removeReferenceReal", o>>) + Times(work, <<"cyclicDecrement", o>>)

(* The members of the cycle that is being freed. *)
Doomed == IF phase = "unlink" THEN Range(cycles[index]) ELSE {}

Gone == (discounted \cup freed) \ Doomed

Dead == discounted \cup freed \cup Doomed

Judging == {"judge", "unlink", "refurbish"}

CallsOf(p) ==
  { call \in Calls :
      \/ p \in {"flush", "unlink"} /\ call \in {"removeReferenceReal", "released"}
      \/ p = "unlink" /\ call = "cyclicDecrement"
      \/ p = "mark" /\ call = "markChild"
      \/ p = "scan" /\ call = "scanRoot"
      \/ p = "collect" /\ call = "collectWhite" }

(* The k-th member of the j-th candidate cycle. *)
Holds(j, k, o) == j \in 1..Len(cycles) /\ k \in 1..Len(cycles[j]) /\ cycles[j][k] = o

(* What each phase has left to do. *)
PhaseInv ==
  /\ \A call \in Calls : \A o : Has(work, <<call, o>>) => call \in CallsOf(phase)
  /\ phase \notin {"run", "flush"} => increments = <<>> /\ decrements = <<>>
  /\ phase = "flush" /\ work # <<>> => increments = <<>>
  /\ phase \in {"mark", "scan"} => cycles = <<>>
  /\ phase \in Judging => index <= Len(cycles)
  /\ phase \in {"unlink", "refurbish"} =>
       index > 0 /\ member > 0 /\ member <= Len(cycles[index]) + 1
  /\ phase \in {"mark", "scan"} => index > 0 /\ index <= Len(roots) + 1
  /\ phase = "collect" /\ work # <<>> => cycles # <<>>
  /\ phase = "prepare" => roots = <<>> /\ index > 0

(* Nothing knows of an object that is not allocated yet. *)
FreshInv ==
  \A o \in fresh :
    /\ refs[o] = 0
    /\ rc[o] = 0
    /\ ~Has(increments, o)
    /\ ~Has(decrements, o)
    /\ ~Has(roots, o)
    /\ \A call \in Calls : ~Has(work, <<call, o>>)
    /\ \A j, k \in Nat : ~Holds(j, k, o)
    /\ \A p \in Objects, i \in Fields : field[p][i] # o

(* Nothing holds an object that is dead, and only the dead refer to it. *)
DeadUnheld ==
  \A o \in Dead :
    /\ o \notin fresh
    /\ refs[o] = 0
    /\ ~Has(increments, o)
    /\ ~Has(decrements, o)

DeadPointers ==
  \A p \in Objects, i \in Fields :
    /\ field[p][i] \in Gone => p \in discounted
    /\ field[p][i] \in Doomed => p \in discounted \cup Doomed

DeadCalls ==
  \A o :
    /\ Has(work, <<"removeReferenceReal", o>>) => o \notin Dead
    /\ Has(work, <<"markChild", o>>) => o \notin Dead
    /\ Has(work, <<"cyclicDecrement", o>>) => o \notin Gone
    /\ Has(work, <<"released", o>>) => o \in discounted \ Doomed

DeadCounts == \A o \in (discounted \ Doomed) \ freed : rc[o] = 0

(* The members of the cycle that is freed are unlinked one after the other. *)
UnlinkInv ==
  phase = "unlink" =>
    /\ \A k \in 1..Len(cycles[index]) : k < member <=> cycles[index][k] \in discounted
    /\ Doomed \cap freed = {}

(* The count of an object that is not dead, with what is still to be done.    *)
Balanced(o) ==
  rc[o] + Times(increments, o) - Times(decrements, o) - Owed(o) = refs[o] + Pointers(o)

CountInv == \A o \in Objects \ Dead : Balanced(o)

RedInv ==
  /\ \A o \in Objects : color[o] = "RED" => o \in freed \cup Doomed
  /\ \A o \in Doomed : color[o] = "RED"

(* A dead object that is not BLACK, RED or PURPLE is about to become BLACK. *)
PaleInv ==
  \A o \in Dead : color[o] \in {"GRAY", "WHITE", "ORANGE"} => Has(work, <<"released", o>>)

RootColors ==
  /\ phase \in {"run", "flush", "mark"} \cup Judging =>
       \A o : Has(roots, o) => color[o] \in {"PURPLE", "BLACK", "RED", "GRAY"}
  /\ phase = "mark" => \A k \in 1..(index - 1) : color[roots[k]] = "GRAY"

(* The places of the buffer that are still to be judged. *)
Waits(j, k) ==
  /\ phase = "judge" => j <= index
  /\ phase = "unlink" => j < index
  /\ phase = "refurbish" => j < index \/ (j = index /\ k >= member)

Distinct ==
  \A i, j, k, l \in Nat : \A o \in Objects :
    Holds(i, k, o) /\ Holds(j, l, o) => i = j /\ k = l

OrangeOwned ==
  \A o \in Objects : color[o] = "ORANGE" =>
    \E j, k \in Nat : Holds(j, k, o) /\ Waits(j, k)

OrangeMembers ==
  phase \in {"collect", "prepare"} =>
    \A j, k \in Nat : \A o \in Objects : Holds(j, k, o) => color[o] = "ORANGE"

(* Nothing that was done to an object is still to be applied to it. *)
Quiet(o) ==
  /\ o \notin discounted
  /\ ~Has(increments, o)
  /\ ~Has(decrements, o)
  /\ ~Has(work, <<"removeReferenceReal", o>>)

Within(j, o) == Inside(cycles[j], o)

IsPrepared(j) == phase # "collect" /\ (phase = "prepare" => j < index)

(* The cyclic count of a candidate to which nothing has happened is the number  *)
(* of references to it from outside.                                            *)
CyclicInv ==
  \A j, k \in Nat : \A o \in Objects :
    Holds(j, k, o) /\ Waits(j, k) /\ IsPrepared(j) /\ color[o] = "ORANGE" /\ Quiet(o)
      => crc[o] = rc[o] - Within(j, o)

SeenInv ==
  /\ \A o \in Objects \ freed : buffered[o] \/ color[o] = "PURPLE" =>
       \/ Has(roots, o)
       \/ \E j, k \in Nat : Holds(j, k, o) /\ (Waits(j, k) \/ o \in Doomed)
  /\ phase \in {"scan", "collect", "prepare"} =>
       \A o \in Objects \ freed : color[o] # "PURPLE"

DeadInv == DeadUnheld /\ DeadPointers /\ DeadCalls /\ DeadCounts /\ UnlinkInv

ColorInv == RedInv /\ PaleInv /\ RootColors

OrangeInv == Distinct /\ OrangeOwned /\ OrangeMembers

CollectorIInv ==
  /\ CollectorTypeOK
  /\ PhaseInv
  /\ FreshInv
  /\ DeadInv
  /\ CountInv
  /\ ColorInv
  /\ OrangeInv
  /\ CyclicInv
  /\ SeenInv

LEMMA RangeOf ==
  ASSUME NEW T, NEW s \in Seq(T)
  PROVE  \A x : x \in Range(s) <=> \E i \in 1..Len(s) : s[i] = x
BY DEF Range

LEMMA InitCollector == CollectorInit => CollectorIInv
<1> SUFFICES ASSUME CollectorInit
             PROVE  CollectorIInv
  OBVIOUS
<1> USE DEF CollectorInit
<1>1. CollectorTypeOK
  <2>1. /\ 0 \in 0..MaxRefs /\ 0 \in 0..MaxLeaves
        /\ <<>> \in Seq(Objects) /\ <<>> \in Seq(Seq(Objects))
        /\ <<>> \in Seq(Calls \X (Objects \cup {Null}))
    BY BoundsAssumption
  <2>2. /\ field \in [Objects -> [Fields -> Objects \cup {Null}]]
        /\ rc \in [Objects -> Int]
        /\ crc \in [Objects -> Int]
        /\ color \in [Objects -> Colors]
        /\ buffered \in [Objects -> BOOLEAN]
        /\ refs \in [Objects -> 0..MaxRefs]
    BY <2>1 DEF Colors
  <2>3. QED
    BY <2>1, <2>2 DEF CollectorTypeOK, Allocated, Phases
<1> \A e : ~Has(<<>>, e)
  BY DEF Has
<1>2. PhaseInv
  BY DEF PhaseInv, Judging
<1>3. FreshInv
  BY ObjectsAssumption DEF FreshInv, Holds
<1>4. DeadInv
  BY DEF DeadInv, DeadUnheld, DeadPointers, DeadCalls, DeadCounts, UnlinkInv, Dead, Gone, Doomed
<1>5. CountInv
  <2> SUFFICES ASSUME NEW o \in Objects
               PROVE  rc[o] + Times(increments, o) - Times(decrements, o) - Owed(o)
                        = refs[o] + Pointers(o)
    BY DEF CountInv, Balanced
  <2>1. <<>> \in Seq({}) /\ \A i \in 1..Len(<<>>) : FALSE
    OBVIOUS
  <2>2. \A e : Times(<<>>, e) = 0
    BY <2>1, TimesZero
  <2>3. Pointers(o) = 0
    <3>1. \A p \in Objects, i \in Fields : field[p][i] # o
      BY ObjectsAssumption
    <3>2. PointersIn(field, Objects \ discounted, o) = 0
      BY <3>1, PointersZero
    <3>3. QED
      BY <3>2, PointersNow DEF Pointers
  <2>4. QED
    BY <2>2, <2>3 DEF Owed
<1>6. ColorInv
  BY DEF ColorInv, RedInv, PaleInv, RootColors, Dead, Doomed
<1>7. OrangeInv
  BY DEF OrangeInv, Distinct, OrangeOwned, OrangeMembers, Holds
<1>8. CyclicInv
  BY DEF CyclicInv, Holds
<1>9. SeenInv
  BY DEF SeenInv
<1>10. QED
  BY <1>1, <1>2, <1>3, <1>4, <1>5, <1>6, <1>7, <1>8, <1>9 DEF CollectorIInv

(* Of the references as a function of the fields, in this state and the next. *)
LEMMA PointersHere ==
  /\ \A o : Pointers(o) = PointersIn(field, Objects \ discounted, o)
  /\ \A j, o : Within(j, o) = PointersIn(field, Range(cycles[j]), o)
BY DEF Pointers, Within, Inside, PointersFrom, PointersIn, Referring

LEMMA PointersThen ==
  /\ \A o : Pointers(o)' = PointersIn(field', Objects \ discounted', o)
  /\ \A j, o : Within(j, o)' = PointersIn(field', Range(cycles'[j]), o)
BY DEF Pointers, Within, Inside, PointersFrom, PointersIn, Referring

(* Steps that change none of what the counts are about. *)
LEMMA SameCounts ==
  ASSUME CountInv, Dead' = Dead,
         UNCHANGED <<field, rc, refs, discounted, increments, decrements, work>>
  PROVE  CountInv'
<1>1. \A o : Pointers(o)' = Pointers(o)
  BY PointersHere, PointersThen
<1>2. \A o : Owed(o)' = Owed(o)
  BY DEF Owed
<1>3. QED
  BY <1>1, <1>2 DEF CountInv, Balanced

(* Only the flush and the recursions have calls to make. *)
LEMMA NoWork ==
  ASSUME CollectorTypeOK, PhaseInv, phase \notin {"flush", "unlink", "mark", "scan", "collect"}
  PROVE  work = <<>>
<1> SUFFICES ASSUME work # <<>>
             PROVE  FALSE
  OBVIOUS
<1>1. work[1] \in Calls \X (Objects \cup {Null}) /\ 1 \in 1..Len(work)
  BY DEF CollectorTypeOK
<1>2. PICK call \in Calls, o \in Objects \cup {Null} : work[1] = <<call, o>>
  BY <1>1
<1>3. Has(work, <<call, o>>)
  BY <1>1, <1>2 DEF Has
<1>4. call \in CallsOf(phase)
  BY <1>3 DEF PhaseInv
<1>5. QED
  BY <1>4 DEF CallsOf

(* A step that changes no field, ObjectRef or candidate and makes no call anew. *)
LEMMA FreshSame ==
  ASSUME FreshInv, UNCHANGED <<fresh, refs, increments, decrements, field, cycles>>,
         \A p \in fresh : rc'[p] = 0 /\ ~Has(roots', p),
         \A e : Has(work', e) => Has(work, e)
  PROVE  FreshInv'
BY DEF FreshInv, Holds

LEMMA DistinctSame ==
  ASSUME Distinct, UNCHANGED cycles
  PROVE  Distinct'
BY DEF Distinct, Holds

(* What a step keeps that only goes from one phase to the next. *)
LEMMA PhaseOnly ==
  ASSUME CollectorIInv, phase # "unlink", phase' # "unlink",
         UNCHANGED <<objects, work, refs, fresh, increments, decrements>>
  PROVE  /\ FreshInv' /\ DeadInv' /\ CountInv' /\ RedInv' /\ PaleInv' /\ Distinct'
         /\ \A j, o : Within(j, o)' = Within(j, o)
         /\ Doomed = {} /\ Doomed' = {}
<1> USE DEF objects, CollectorIInv, DeadInv, ColorInv, OrangeInv
<1>1. Doomed = {} /\ Doomed' = {} /\ Gone' = Gone /\ Dead' = Dead
  BY DEF Doomed, Gone, Dead
<1>2. FreshInv'
  <2>1. \A p \in fresh : rc'[p] = 0 /\ ~Has(roots', p)
    BY DEF FreshInv
  <2>2. QED
    BY <2>1, FreshSame
<1>3. DeadInv'
  <2>1. DeadUnheld' /\ DeadPointers'
    BY <1>1 DEF DeadUnheld, DeadPointers
  <2>2. DeadCalls' /\ DeadCounts'
    BY <1>1 DEF DeadCalls, DeadCounts
  <2>3. UnlinkInv'
    BY DEF UnlinkInv
  <2>4. QED
    BY <2>1, <2>2, <2>3
<1>4. CountInv'
  BY <1>1, SameCounts
<1>5. RedInv' /\ PaleInv'
  BY <1>1 DEF RedInv, PaleInv
<1>6. Distinct'
  BY DistinctSame
<1>7. \A j, o : Within(j, o)' = Within(j, o)
  BY PointersHere, PointersThen
<1>8. QED
  BY <1>1, <1>2, <1>3, <1>4, <1>5, <1>6, <1>7

LEMMA LeaveFrameKeeps == CollectorIInv /\ LeaveFrame => CollectorIInv'
<1> SUFFICES ASSUME CollectorIInv, LeaveFrame
             PROVE  CollectorIInv'
  OBVIOUS
<1> USE DEF LeaveFrame, CollectorIInv, DeadInv, ColorInv, OrangeInv
<1>1. CollectorTypeOK'
  BY BoundsAssumption DEF objects, CollectorTypeOK, Phases, Allocated
<1>2. PhaseInv'
  BY NoWork, HasNone DEF objects, PhaseInv, Judging
<1>3. /\ FreshInv' /\ DeadInv' /\ CountInv' /\ RedInv' /\ PaleInv' /\ Distinct'
      /\ \A j, o : Within(j, o)' = Within(j, o)
      /\ Doomed = {} /\ Doomed' = {}
  BY PhaseOnly
<1> USE DEF objects
<1>4. RootColors' /\ OrangeOwned' /\ OrangeMembers'
  BY DEF RootColors, OrangeOwned, OrangeMembers, Holds, Waits
<1>5. CyclicInv'
  BY <1>3 DEF CyclicInv, Holds, Waits, IsPrepared, Quiet
<1>6. SeenInv'
  BY <1>3 DEF SeenInv, Holds, Waits
<1>7. QED
  BY <1>1, <1>2, <1>3, <1>4, <1>5, <1>6

LEMMA FlushedKeeps ==
  ASSUME CollectorIInv, Flushed, UNCHANGED misused
  PROVE  CollectorIInv'
<1> USE DEF Flushed, In, Loop, CollectorIInv, DeadInv, ColorInv, OrangeInv
<1>1. CollectorTypeOK'
  BY DEF objects, mutator, CollectorTypeOK, Phases, Allocated
<1>2. PhaseInv'
  BY HasNone DEF objects, mutator, CollectorTypeOK, PhaseInv, Judging
<1>3. /\ FreshInv' /\ DeadInv' /\ CountInv' /\ RedInv' /\ PaleInv' /\ Distinct'
      /\ \A j, o : Within(j, o)' = Within(j, o)
      /\ Doomed = {} /\ Doomed' = {}
  BY PhaseOnly DEF mutator
<1> USE DEF objects, mutator
<1>4. RootColors'
  BY DEF RootColors, PhaseInv, Judging
<1>5. OrangeOwned' /\ OrangeMembers'
  BY DEF OrangeOwned, OrangeMembers, Holds, Waits
<1>6. CyclicInv'
  BY <1>3 DEF CyclicInv, Holds, IsPrepared, Quiet, Waits
<1>7. SeenInv'
  BY <1>3 DEF SeenInv, Holds, Waits
<1>8. QED
  BY <1>1, <1>2, <1>3, <1>4, <1>5, <1>6, <1>7

LEMMA RefurbishedKeeps ==
  ASSUME CollectorIInv, Refurbished, UNCHANGED misused
  PROVE  CollectorIInv'
<1> USE DEF Refurbished, In, Loop, CollectorIInv, DeadInv, ColorInv, OrangeInv
<1>1. CollectorTypeOK'
  BY DEF objects, mutator, CollectorTypeOK, Phases, Allocated, PhaseInv
<1>2. PhaseInv'
  BY HasNone DEF objects, mutator, CollectorTypeOK, PhaseInv, Judging
<1>3. /\ FreshInv' /\ DeadInv' /\ CountInv' /\ RedInv' /\ PaleInv' /\ Distinct'
      /\ \A j, o : Within(j, o)' = Within(j, o)
      /\ Doomed = {} /\ Doomed' = {}
  BY PhaseOnly DEF mutator
<1> USE DEF objects, mutator
<1>H. \A j, k \in Nat : \A o : Holds(j, k, o) => (Waits(j, k) <=> Waits(j, k)')
  <2>1. index \in 1..Len(cycles) /\ cycles[index] \in Seq(Objects) /\ member \in Nat
    BY DEF PhaseInv, Judging, CollectorTypeOK
  <2>2. Len(cycles[index]) \in Nat
    BY <2>1
  <2>3. QED
    BY <2>1, <2>2 DEF Holds, Waits
<1>4. RootColors'
  BY DEF RootColors, PhaseInv, Judging
<1>5. OrangeOwned' /\ OrangeMembers'
  BY <1>H DEF OrangeOwned, OrangeMembers, Holds
<1>6. CyclicInv'
  BY <1>3, <1>H DEF CyclicInv, Holds, IsPrepared, Quiet
<1>7. SeenInv'
  BY <1>3, <1>H DEF SeenInv, Holds
<1>8. QED
  BY <1>1, <1>2, <1>3, <1>4, <1>5, <1>6, <1>7

LEMMA MarkedKeeps ==
  ASSUME CollectorIInv, Marked, UNCHANGED misused
  PROVE  CollectorIInv'
<1> USE DEF Marked, In, Loop, CollectorIInv, DeadInv, ColorInv, OrangeInv
<1>1. CollectorTypeOK'
  BY DEF objects, mutator, CollectorTypeOK, Phases, Allocated
<1>2. PhaseInv'
  BY HasNone DEF objects, mutator, CollectorTypeOK, PhaseInv, Judging
<1>3. /\ FreshInv' /\ DeadInv' /\ CountInv' /\ RedInv' /\ PaleInv' /\ Distinct'
      /\ \A j, o : Within(j, o)' = Within(j, o)
      /\ Doomed = {} /\ Doomed' = {}
  BY PhaseOnly DEF mutator
<1> USE DEF objects, mutator
<1>4. RootColors'
  BY DEF RootColors, PhaseInv, Judging
<1>5. OrangeOwned' /\ OrangeMembers'
  BY DEF OrangeOwned, OrangeMembers, Holds, Waits
<1>6. CyclicInv'
  BY <1>3 DEF CyclicInv, Holds, IsPrepared, Quiet, Waits
<1>7. SeenInv'
  <2> SUFFICES ASSUME NEW o \in Objects \ freed, color[o] = "PURPLE"
               PROVE  FALSE
    BY <1>3 DEF SeenInv, Holds, Waits
  <2>1. PICK k \in 1..Len(roots) : roots[k] = o
    BY <1>3 DEF SeenInv, Holds, PhaseInv, Has
  <2>2. k \in 1..(index - 1)
    BY DEF CollectorTypeOK
  <2>3. QED
    BY <2>1, <2>2 DEF RootColors
<1>8. QED
  BY <1>1, <1>2, <1>3, <1>4, <1>5, <1>6, <1>7

LEMMA ScannedKeeps ==
  ASSUME CollectorIInv, Scanned, UNCHANGED misused
  PROVE  CollectorIInv'
<1> USE DEF Scanned, In, Loop, CollectorIInv, DeadInv, ColorInv, OrangeInv
<1>1. CollectorTypeOK'
  BY DEF objects, mutator, CollectorTypeOK, Phases, Allocated
<1>2. PhaseInv'
  BY HasNone DEF objects, mutator, CollectorTypeOK, PhaseInv, Judging
<1>3. /\ FreshInv' /\ DeadInv' /\ CountInv' /\ RedInv' /\ PaleInv' /\ Distinct'
      /\ \A j, o : Within(j, o)' = Within(j, o)
      /\ Doomed = {} /\ Doomed' = {}
  BY PhaseOnly DEF mutator
<1> USE DEF objects, mutator
<1>4. RootColors'
  BY DEF RootColors, PhaseInv, Judging
<1>5. OrangeOwned' /\ OrangeMembers'
  BY DEF OrangeOwned, OrangeMembers, Holds, Waits, PhaseInv
<1>6. CyclicInv'
  BY <1>3 DEF CyclicInv, Holds, IsPrepared, Quiet, Waits
<1>7. SeenInv'
  BY <1>3 DEF SeenInv, Holds, Waits
<1>8. QED
  BY <1>1, <1>2, <1>3, <1>4, <1>5, <1>6, <1>7

LEMMA CollectedKeeps ==
  ASSUME CollectorIInv, Collected, UNCHANGED misused
  PROVE  CollectorIInv'
<1> USE DEF Collected, In, Loop, CollectorIInv, DeadInv, ColorInv, OrangeInv
<1>1. CollectorTypeOK'
  BY DEF objects, mutator, CollectorTypeOK, Phases, Allocated
<1>2. PhaseInv'
  BY HasNone DEF objects, mutator, CollectorTypeOK, PhaseInv, Judging
<1>3. /\ FreshInv' /\ DeadInv' /\ CountInv' /\ RedInv' /\ PaleInv' /\ Distinct'
      /\ \A j, o : Within(j, o)' = Within(j, o)
      /\ Doomed = {} /\ Doomed' = {}
  BY PhaseOnly DEF mutator
<1> USE DEF objects, mutator
<1>4. RootColors'
  BY DEF RootColors, PhaseInv, Judging
<1>5. OrangeOwned' /\ OrangeMembers'
  BY DEF OrangeOwned, OrangeMembers, Holds, Waits
<1>6. CyclicInv'
  BY <1>3 DEF CyclicInv, Holds, IsPrepared, Quiet, Waits
<1>7. SeenInv'
  BY <1>3 DEF SeenInv, Holds, Waits
<1>8. QED
  BY <1>1, <1>2, <1>3, <1>4, <1>5, <1>6, <1>7

LEMMA PreparedKeeps ==
  ASSUME CollectorIInv, Prepared, UNCHANGED misused
  PROVE  CollectorIInv'
<1> USE DEF Prepared, In, Loop, CollectorIInv, DeadInv, ColorInv, OrangeInv
<1>1. CollectorTypeOK'
  BY DEF objects, mutator, CollectorTypeOK, Phases, Allocated
<1>2. PhaseInv'
  BY HasNone DEF objects, mutator, CollectorTypeOK, PhaseInv, Judging
<1>3. /\ FreshInv' /\ DeadInv' /\ CountInv' /\ RedInv' /\ PaleInv' /\ Distinct'
      /\ \A j, o : Within(j, o)' = Within(j, o)
      /\ Doomed = {} /\ Doomed' = {}
  BY PhaseOnly DEF mutator
<1> USE DEF objects, mutator
<1>4. RootColors'
  BY HasNone DEF RootColors, PhaseInv, Judging
<1>5. OrangeOwned' /\ OrangeMembers'
  BY DEF OrangeOwned, OrangeMembers, Holds, Waits
<1>6. CyclicInv'
  <2>1. \A j, k \in Nat : \A o : Holds(j, k, o) => IsPrepared(j)
    BY DEF Holds, IsPrepared, PhaseInv, CollectorTypeOK
  <2>2. \A j, k \in Nat : \A o : Holds(j, k, o)' <=> Holds(j, k, o)
    BY DEF Holds
  <2>3. \A j, k : Waits(j, k)
    BY DEF Waits
  <2>4. \A o : Quiet(o)' <=> Quiet(o)
    BY DEF Quiet
  <2>5. QED
    BY <1>3, <2>1, <2>2, <2>3, <2>4 DEF CyclicInv
<1>7. SeenInv'
  BY <1>3 DEF SeenInv, Holds, Waits
<1>8. QED
  BY <1>1, <1>2, <1>3, <1>4, <1>5, <1>6, <1>7

(* While the mutator runs nothing is being done. *)
LEMMA Running ==
  ASSUME CollectorIInv, phase = "run"
  PROVE  /\ work = <<>>
         /\ Doomed = {}
         /\ Gone = discounted \cup freed
         /\ Dead = discounted \cup freed
BY NoWork DEF CollectorIInv, Doomed, Gone, Dead

(* What the mutator holds is not dead, and neither is what it can read. *)
LEMMA ReadableAlive ==
  ASSUME CollectorIInv, phase = "run", NEW o \in Objects, Readable(o)
  PROVE  o \notin Dead /\ o \notin fresh
<1>1. Doomed = {} /\ Gone = Dead /\ discounted \subseteq Dead
  BY Running
<1>2. \A p \in Objects : refs[p] > 0 => p \notin Dead /\ p \notin fresh
  BY DEF CollectorIInv, CollectorTypeOK, DeadInv, DeadUnheld, FreshInv
<1>3. ASSUME NEW p \in Objects, NEW i \in Fields, refs[p] > 0, field[p][i] = o
      PROVE  o \notin Dead /\ o \notin fresh
  BY <1>1, <1>2, <1>3 DEF CollectorIInv, DeadInv, DeadPointers, FreshInv
<1>4. QED
  BY <1>2, <1>3 DEF Readable

LEMMA TypesOfCounts ==
  ASSUME CollectorTypeOK, NEW o \in Objects
  PROVE  /\ rc[o] \in Int
         /\ refs[o] \in Nat
         /\ Times(increments, o) \in Nat
         /\ Times(decrements, o) \in Nat
         /\ Times(work, <<"removeReferenceReal", o>>) \in Nat
         /\ Times(work, <<"cyclicDecrement", o>>) \in Nat
         /\ Owed(o) \in Nat
         /\ Pointers(o) \in Nat
<1> USE DEF CollectorTypeOK
<1>1. /\ Times(increments, o) \in Nat
      /\ Times(decrements, o) \in Nat
      /\ Times(work, <<"removeReferenceReal", o>>) \in Nat
      /\ Times(work, <<"cyclicDecrement", o>>) \in Nat
  BY PlacesFinite
<1>2. Pointers(o) \in Nat
  BY PointersFinite, PointersHere
<1>3. rc[o] \in Int /\ refs[o] \in Nat
  BY BoundsAssumption
<1>4. QED
  BY <1>1, <1>2, <1>3 DEF Owed

(* The equation of an object, with the types of its terms. *)
LEMMA BalancedNow ==
  ASSUME CollectorTypeOK, CountInv, NEW o \in Objects \ Dead
  PROVE  /\ rc[o] + Times(increments, o) - Times(decrements, o) - Owed(o) = refs[o] + Pointers(o)
         /\ rc[o] \in Int /\ refs[o] \in Int /\ Times(increments, o) \in Int
         /\ Times(decrements, o) \in Int /\ Owed(o) \in Int /\ Pointers(o) \in Int
<1>1. rc[o] + Times(increments, o) - Times(decrements, o) - Owed(o) = refs[o] + Pointers(o)
  BY DEF CountInv, Balanced
<1>2. /\ rc[o] \in Int /\ refs[o] \in Nat
      /\ Times(increments, o) \in Nat
      /\ Times(decrements, o) \in Nat
      /\ Owed(o) \in Nat
      /\ Pointers(o) \in Nat
  BY TypesOfCounts
<1>3. QED
  BY <1>1, <1>2

(* A step that changes neither the candidates nor their colors. *)
LEMMA OrangeSame ==
  ASSUME OrangeInv, UNCHANGED <<color, cycles, loops>>
  PROVE  OrangeInv'
<1>1. /\ \A j, k, p : Holds(j, k, p)' <=> Holds(j, k, p)
      /\ \A j, k : Waits(j, k)' <=> Waits(j, k)
  BY DEF Holds, Waits, loops
<1>2. Distinct'
  BY <1>1 DEF OrangeInv, Distinct
<1>3. OrangeOwned'
  BY <1>1 DEF OrangeInv, OrangeOwned
<1>4. OrangeMembers'
  BY <1>1 DEF OrangeInv, OrangeMembers, loops
<1>5. QED
  BY <1>2, <1>3, <1>4 DEF OrangeInv

LEMMA AllocObjectKeeps ==
  ASSUME CollectorIInv, NEW o \in Objects, AllocObject(o)
  PROVE  CollectorIInv'
<1> USE DEF CollectorIInv, DeadInv, ColorInv, OrangeInv
<1>0. /\ work = <<>>
      /\ Doomed = {} /\ Doomed' = {}
      /\ Dead' = Dead /\ Gone' = Gone
      /\ o \notin Dead
  BY Running DEF AllocObject, loops, Doomed, Dead, Gone, DeadUnheld
<1> USE DEF AllocObject, loops
<1>1. CollectorTypeOK'
  BY BoundsAssumption DEF CollectorTypeOK, Allocated
<1>2. PhaseInv'
  BY DEF PhaseInv
<1>3. FreshInv'
  BY DEF FreshInv, Holds, CollectorTypeOK
<1>4. DeadInv'
  <2>1. /\ \A p \in Objects : p # o => refs'[p] = refs[p] /\ rc'[p] = rc[p]
        /\ Dead \subseteq Objects /\ discounted \subseteq Dead
    BY <1>0, Running DEF CollectorTypeOK, Allocated, Dead
  <2>2. DeadUnheld'
    BY <1>0, <2>1 DEF DeadUnheld
  <2>3. DeadPointers' /\ DeadCalls' /\ UnlinkInv'
    BY <1>0 DEF DeadPointers, DeadCalls, UnlinkInv
  <2>4. DeadCounts'
    BY <1>0, <2>1 DEF DeadCounts
  <2>5. QED
    BY <2>2, <2>3, <2>4
<1>5. CountInv'
  <2>1. \A p : Pointers(p)' = Pointers(p) /\ Owed(p)' = Owed(p)
    BY PointersHere, PointersThen DEF Owed
  <2>2. rc[o] = 0 /\ refs[o] = 0
    BY DEF FreshInv
  <2>3. rc'[o] = 1 /\ refs'[o] = 1
    BY DEF CollectorTypeOK
  <2>4. \A p \in Objects : p # o => rc'[p] = rc[p] /\ refs'[p] = refs[p]
    BY DEF CollectorTypeOK
  <2>5. ASSUME NEW p \in Objects \ Dead
        PROVE  Balanced(p)'
    <3>1. /\ rc[p] + Times(increments, p) - Times(decrements, p) - Owed(p) = refs[p] + Pointers(p)
          /\ rc[p] \in Int /\ refs[p] \in Int /\ Times(increments, p) \in Int
          /\ Times(decrements, p) \in Int /\ Owed(p) \in Int /\ Pointers(p) \in Int
      BY BalancedNow
    <3>2. Times(increments', p) = Times(increments, p) /\ Times(decrements', p) = Times(decrements, p)
      OBVIOUS
    <3>3. rc'[p] - rc[p] = refs'[p] - refs[p] /\ rc'[p] \in Int /\ refs'[p] \in Int
      BY <2>2, <2>3, <2>4, <3>1
    <3>4. rc'[p] + Times(increments', p) - Times(decrements', p) - Owed(p)' = refs'[p] + Pointers(p)'
      <4> HIDE DEF AllocObject, CollectorIInv
      <4>1. Pointers(p)' = Pointers(p) /\ Owed(p)' = Owed(p)
        BY <2>1
      <4>2. QED
        BY <4>1, <3>1, <3>2, <3>3, Z3
    <3>5. QED
      BY <3>4 DEF Balanced
  <2>6. QED
    BY <1>0, <2>5 DEF CountInv
<1>6. ColorInv'
  BY <1>0 DEF RedInv, PaleInv, RootColors
<1>7. OrangeInv'
  <2>1. OrangeInv /\ UNCHANGED <<color, cycles, loops>>
    BY DEF loops
  <2> HIDE DEF CollectorIInv, OrangeInv
  <2>2. QED
    BY <2>1, OrangeSame
<1>8. CyclicInv'
  <2>1. \A j, p : Within(j, p)' = Within(j, p)
    BY PointersHere, PointersThen
  <2>2. \A j, k \in Nat : ~Holds(j, k, o)
    BY DEF FreshInv
  <2>3. \A p \in Objects : p # o => rc'[p] = rc[p]
    BY DEF CollectorTypeOK
  <2>4. \A j, k, p : /\ Holds(j, k, p)' <=> Holds(j, k, p)
                     /\ Waits(j, k)' <=> Waits(j, k)
                     /\ IsPrepared(j)' <=> IsPrepared(j)
                     /\ Quiet(p)' <=> Quiet(p)
    BY DEF Holds, Waits, IsPrepared, Quiet
  <2>5. QED
    BY <2>1, <2>2, <2>3, <2>4 DEF CyclicInv
<1>9. SeenInv'
  BY <1>0 DEF SeenInv, Holds, Waits
<1>10. QED
  BY <1>1, <1>2, <1>3, <1>4, <1>5, <1>6, <1>7, <1>8, <1>9

LEMMA CopyRefKeeps ==
  ASSUME CollectorIInv, NEW o \in Objects, CopyRef(o)
  PROVE  CollectorIInv'
<1> USE DEF CollectorIInv, DeadInv, ColorInv, OrangeInv
<1>0. /\ work = <<>>
      /\ Doomed = {} /\ Doomed' = {}
      /\ Dead' = Dead /\ Gone' = Gone
      /\ o \notin Dead /\ o \notin fresh
      /\ \A p : Has(increments', p) <=> Has(increments, p) \/ p = o
  <2>1. /\ phase = "run" /\ Readable(o) /\ phase' = phase
        /\ UNCHANGED <<discounted, freed>>
        /\ increments' = Append(increments, o)
    BY DEF CopyRef, objects, loops, Readable
  <2>2. work = <<>> /\ Doomed = {}
    BY <2>1, Running
  <2>3. o \notin Dead /\ o \notin fresh
    BY <2>1, ReadableAlive
  <2>4. increments \in Seq(Objects)
    BY DEF CollectorTypeOK
  <2>5. \A p : Has(increments', p) <=> Has(increments, p) \/ p = o
    BY <2>1, <2>4, HasAppend
  <2>6. Doomed' = {} /\ Dead' = Dead /\ Gone' = Gone
    BY <2>1, <2>2 DEF Doomed, Dead, Gone
  <2>7. QED
    BY <2>2, <2>3, <2>5, <2>6
<1> USE DEF CopyRef, objects, loops
<1>1. CollectorTypeOK'
  BY BoundsAssumption DEF CollectorTypeOK, Allocated
<1>2. PhaseInv'
  BY DEF PhaseInv
<1>3. FreshInv'
  BY <1>0 DEF FreshInv, Holds, CollectorTypeOK
<1>4. DeadInv'
  <2>1. DeadUnheld'
    <3>1. \A p \in Objects : p # o => refs'[p] = refs[p]
      BY DEF CollectorTypeOK
    <3>2. Dead \subseteq Objects
      BY <1>0, Running DEF CollectorTypeOK, Allocated
    <3>3. QED
      BY <1>0, <3>1, <3>2 DEF DeadUnheld
  <2>2. DeadPointers' /\ DeadCalls' /\ DeadCounts' /\ UnlinkInv'
    BY <1>0 DEF DeadPointers, DeadCalls, DeadCounts, UnlinkInv
  <2>3. QED
    BY <2>1, <2>2
<1>5. CountInv'
  <2>1. \A p : Pointers(p)' = Pointers(p) /\ Owed(p)' = Owed(p)
    BY PointersHere, PointersThen DEF Owed
  <2>2. ASSUME NEW p \in Objects \ Dead
        PROVE  Balanced(p)'
    <3>1. /\ rc[p] + Times(increments, p) - Times(decrements, p) - Owed(p) = refs[p] + Pointers(p)
          /\ rc[p] \in Int /\ refs[p] \in Int /\ Times(increments, p) \in Int
          /\ Times(decrements, p) \in Int /\ Owed(p) \in Int /\ Pointers(p) \in Int
      BY BalancedNow
    <3>2. rc'[p] = rc[p] /\ Times(decrements', p) = Times(decrements, p)
      OBVIOUS
    <3>3. /\ p = o => Times(increments', p) = Times(increments, p) + 1
          /\ p # o => Times(increments', p) = Times(increments, p)
      <4>1. increments \in Seq(Objects) /\ increments' = Append(increments, o)
        BY DEF CollectorTypeOK
      <4>2. QED
        BY <4>1, TimesLonger
    <3>4. (p = o => refs'[p] = refs[p] + 1) /\ (p # o => refs'[p] = refs[p])
      BY DEF CollectorTypeOK
    <3>5. /\ Times(increments', p) - Times(increments, p) = refs'[p] - refs[p]
          /\ Times(increments', p) \in Int /\ refs'[p] \in Int
      <4>1. CASE p = o
        BY <3>1, <3>3, <3>4, <4>1, Z3
      <4>2. CASE p # o
        BY <3>1, <3>3, <3>4, <4>2
      <4>3. QED
        BY <4>1, <4>2
    <3>6. rc'[p] + Times(increments', p) - Times(decrements', p) - Owed(p)' = refs'[p] + Pointers(p)'
      <4> HIDE DEF CopyRef, CollectorIInv
      <4>1. Pointers(p)' = Pointers(p) /\ Owed(p)' = Owed(p)
        BY <2>1
      <4>2. QED
        BY <4>1, <3>1, <3>2, <3>5
    <3>7. QED
      BY <3>6 DEF Balanced
  <2>3. QED
    BY <1>0, <2>2 DEF CountInv
<1>6. ColorInv'
  BY <1>0 DEF RedInv, PaleInv, RootColors
<1>7. OrangeInv'
  <2>1. OrangeInv /\ UNCHANGED <<color, cycles, loops>>
    BY DEF loops
  <2> HIDE DEF CollectorIInv, OrangeInv
  <2>2. QED
    BY <2>1, OrangeSame
<1>8. CyclicInv'
  <2>1. \A j, p : Within(j, p)' = Within(j, p)
    BY PointersHere, PointersThen
  <2>2. \A j, k, p : /\ Holds(j, k, p)' <=> Holds(j, k, p)
                     /\ Waits(j, k)' <=> Waits(j, k)
                     /\ IsPrepared(j)' <=> IsPrepared(j)
                     /\ Quiet(p)' => Quiet(p)
    BY <1>0 DEF Holds, Waits, IsPrepared, Quiet
  <2>3. QED
    BY <2>1, <2>2 DEF CyclicInv
<1>9. SeenInv'
  BY <1>0 DEF SeenInv, Holds, Waits
<1>10. QED
  BY <1>1, <1>2, <1>3, <1>4, <1>5, <1>6, <1>7, <1>8, <1>9

LEMMA DropRefKeeps ==
  ASSUME CollectorIInv, NEW o \in Objects, DropRef(o)
  PROVE  CollectorIInv'
<1> USE DEF CollectorIInv, DeadInv, ColorInv, OrangeInv
<1>0. /\ work = <<>>
      /\ Doomed = {} /\ Doomed' = {}
      /\ Dead' = Dead /\ Gone' = Gone
      /\ o \notin Dead /\ o \notin fresh
      /\ \A p : Has(decrements', p) <=> Has(decrements, p) \/ p = o
  <2>1. /\ phase = "run" /\ Readable(o) /\ phase' = phase
        /\ UNCHANGED <<discounted, freed>>
        /\ decrements' = Append(decrements, o)
    BY DEF DropRef, objects, loops, Readable
  <2>2. work = <<>> /\ Doomed = {}
    BY <2>1, Running
  <2>3. o \notin Dead /\ o \notin fresh
    BY <2>1, ReadableAlive
  <2>4. decrements \in Seq(Objects)
    BY DEF CollectorTypeOK
  <2>5. \A p : Has(decrements', p) <=> Has(decrements, p) \/ p = o
    BY <2>1, <2>4, HasAppend
  <2>6. Doomed' = {} /\ Dead' = Dead /\ Gone' = Gone
    BY <2>1, <2>2 DEF Doomed, Dead, Gone
  <2>7. QED
    BY <2>2, <2>3, <2>5, <2>6
<1> USE DEF Readable, DropRef, objects, loops
<1>1. CollectorTypeOK'
  <2>1. refs \in [Objects -> 0..MaxRefs] /\ refs[o] > 0 /\ MaxRefs \in Nat
    BY BoundsAssumption DEF CollectorTypeOK
  <2>2. refs[o] - 1 \in 0..MaxRefs
    BY <2>1
  <2>3. refs' \in [Objects -> 0..MaxRefs]
    BY <2>1, <2>2
  <2>4. decrements' \in Seq(Objects)
    BY DEF CollectorTypeOK
  <2>5. QED
    BY <2>3, <2>4 DEF CollectorTypeOK, Allocated
<1>2. PhaseInv'
  BY DEF PhaseInv
<1>3. FreshInv'
  BY <1>0 DEF FreshInv, Holds, CollectorTypeOK
<1>4. DeadInv'
  <2>1. DeadUnheld'
    <3>1. \A p \in Objects : p # o => refs'[p] = refs[p]
      BY DEF CollectorTypeOK
    <3>2. Dead \subseteq Objects
      BY <1>0, Running DEF CollectorTypeOK, Allocated
    <3>3. QED
      BY <1>0, <3>1, <3>2 DEF DeadUnheld
  <2>2. DeadPointers' /\ DeadCalls' /\ DeadCounts' /\ UnlinkInv'
    BY <1>0 DEF DeadPointers, DeadCalls, DeadCounts, UnlinkInv
  <2>3. QED
    BY <2>1, <2>2
<1>5. CountInv'
  <2>1. \A p : Pointers(p)' = Pointers(p) /\ Owed(p)' = Owed(p)
    BY PointersHere, PointersThen DEF Owed
  <2>2. ASSUME NEW p \in Objects \ Dead
        PROVE  Balanced(p)'
    <3>1. /\ rc[p] + Times(increments, p) - Times(decrements, p) - Owed(p) = refs[p] + Pointers(p)
          /\ rc[p] \in Int /\ refs[p] \in Int /\ Times(increments, p) \in Int
          /\ Times(decrements, p) \in Int /\ Owed(p) \in Int /\ Pointers(p) \in Int
      BY BalancedNow
    <3>2. rc'[p] = rc[p] /\ Times(increments', p) = Times(increments, p)
      OBVIOUS
    <3>3. /\ p = o => Times(decrements', p) = Times(decrements, p) + 1
          /\ p # o => Times(decrements', p) = Times(decrements, p)
      <4>1. decrements \in Seq(Objects) /\ decrements' = Append(decrements, o)
        BY DEF CollectorTypeOK
      <4>2. QED
        BY <4>1, TimesLonger
    <3>4. (p = o => refs'[p] = refs[p] - 1) /\ (p # o => refs'[p] = refs[p])
      BY DEF CollectorTypeOK
    <3>5. /\ Times(decrements', p) - Times(decrements, p) = refs[p] - refs'[p]
          /\ Times(decrements', p) \in Int /\ refs'[p] \in Int
      <4>1. CASE p = o
        <5> DEFINE a == Times(decrements, p)
                   b == refs[p]
        <5>1. a \in Int
          BY <3>1
        <5>2. b \in Int
          BY <3>1
        <5>3. Times(decrements', p) = a + 1 /\ refs'[p] = b - 1
          BY <3>3, <3>4, <4>1
        <5> HIDE DEF a, b, CollectorIInv, DropRef
        <5>4. (a + 1) - a = b - (b - 1) /\ a + 1 \in Int /\ b - 1 \in Int
          BY <5>1, <5>2
        <5>5. QED
          BY <5>3, <5>4 DEF a, b
      <4>2. CASE p # o
        BY <3>1, <3>3, <3>4, <4>2
      <4>3. QED
        BY <4>1, <4>2
    <3>6. rc'[p] + Times(increments', p) - Times(decrements', p) - Owed(p)' = refs'[p] + Pointers(p)'
      <4> HIDE DEF DropRef, CollectorIInv
      <4>1. Pointers(p)' = Pointers(p) /\ Owed(p)' = Owed(p)
        BY <2>1
      <4>2. QED
        BY <4>1, <3>1, <3>2, <3>5
    <3>7. QED
      BY <3>6 DEF Balanced
  <2>3. QED
    BY <1>0, <2>2 DEF CountInv
<1>6. ColorInv'
  BY <1>0 DEF RedInv, PaleInv, RootColors
<1>7. OrangeInv'
  <2>1. OrangeInv /\ UNCHANGED <<color, cycles, loops>>
    BY DEF loops
  <2> HIDE DEF CollectorIInv, OrangeInv
  <2>2. QED
    BY <2>1, OrangeSame
<1>8. CyclicInv'
  <2>1. \A j, p : Within(j, p)' = Within(j, p)
    BY PointersHere, PointersThen
  <2>2. \A j, k, p : /\ Holds(j, k, p)' <=> Holds(j, k, p)
                     /\ Waits(j, k)' <=> Waits(j, k)
                     /\ IsPrepared(j)' <=> IsPrepared(j)
                     /\ Quiet(p)' => Quiet(p)
    BY <1>0 DEF Holds, Waits, IsPrepared, Quiet
  <2>3. QED
    BY <2>1, <2>2 DEF CyclicInv
<1>9. SeenInv'
  BY <1>0 DEF SeenInv, Holds, Waits
<1>10. QED
  BY <1>1, <1>2, <1>3, <1>4, <1>5, <1>6, <1>7, <1>8, <1>9

SameReferences(f, g, S, o) == \A p \in S, i \in Fields : f[p][i] = o <=> g[p][i] = o

LEMMA PointersAgree ==
  ASSUME NEW f, NEW g, NEW S, NEW o, SameReferences(f, g, S, o)
  PROVE  PointersIn(f, S, o) = PointersIn(g, S, o)
<1>1. \A at \in S \X Fields : at[1] \in S /\ at[2] \in Fields
  OBVIOUS
<1>2. Referring(f, S, o) = Referring(g, S, o)
  BY <1>1 DEF Referring, SameReferences
<1>3. QED
  BY <1>2 DEF PointersIn

LEMMA SetObjectKeeps ==
  ASSUME CollectorIInv, NEW o \in Objects, NEW i \in Fields, NEW value \in Objects \cup {Null},
         SetObject(o, i, value)
  PROVE  CollectorIInv'
<1> DEFINE old == field[o][i]
<1> USE DEF CollectorIInv, DeadInv, ColorInv, OrangeInv
<1>T. CollectorTypeOK
  OBVIOUS
<1>0. /\ old \in Objects \cup {Null}
      /\ Null \notin Objects
      /\ increments \in Seq(Objects) /\ decrements \in Seq(Objects)
      /\ refs[o] > 0
      /\ field' = [field EXCEPT ![o][i] = value]
      /\ work = <<>> /\ work' = <<>>
  <2>1. /\ old \in Objects \cup {Null}
        /\ increments \in Seq(Objects) /\ decrements \in Seq(Objects)
    BY DEF CollectorTypeOK
  <2>2. phase = "run" /\ refs[o] > 0 /\ field' = [field EXCEPT ![o][i] = value] /\ work' = work
    BY DEF SetObject
  <2>3. work = <<>>
    BY <2>2, Running
  <2>4. QED
    BY <2>1, <2>2, <2>3, ObjectsAssumption
<1>1. /\ Doomed = {} /\ Doomed' = {}
      /\ Dead' = Dead /\ Gone' = Gone /\ Gone = Dead
      /\ Dead \subseteq Objects
  BY Running DEF SetObject, loops, Doomed, Dead, Gone, CollectorTypeOK, Allocated
<1>2. /\ o \notin Dead /\ o \notin fresh
      /\ value \notin Dead /\ value \notin fresh
      /\ old \notin Dead /\ old \notin fresh
  <2>1. o \notin Dead /\ o \notin fresh
    BY <1>0, ReadableAlive DEF Readable, SetObject
  <2>2. value \in Objects => value \notin Dead /\ value \notin fresh
    BY <1>0, ReadableAlive DEF Readable, SetObject
  <2>3. old \in Objects => Readable(old)
    BY <1>0 DEF Readable
  <2>4. old \in Objects => old \notin Dead /\ old \notin fresh
    BY <2>3, ReadableAlive DEF SetObject
  <2>5. fresh \subseteq Objects
    BY DEF CollectorTypeOK
  <2>6. QED
    BY <1>0, <1>1, <2>1, <2>2, <2>4, <2>5
<1> HIDE DEF old
<1>3. \A p \in Objects :
        /\ Has(increments', p) <=> Has(increments, p) \/ p = value
        /\ Has(decrements', p) <=> Has(decrements, p) \/ p = old
  BY <1>0, HasAppend DEF SetObject, old
<1>4. \A p \in Objects, j \in Fields :
        field'[p][j] = IF p = o /\ j = i THEN value ELSE field[p][j]
  BY <1>0 DEF CollectorTypeOK
<1> USE DEF SetObject, loops
<1>5. CollectorTypeOK'
  <2>1. field' \in [Objects -> [Fields -> Objects \cup {Null}]]
    BY <1>0 DEF CollectorTypeOK
  <2>2. increments' \in Seq(Objects) /\ decrements' \in Seq(Objects)
    BY <1>0 DEF CollectorTypeOK, old
  <2>3. QED
    BY <2>1, <2>2 DEF CollectorTypeOK, Allocated
<1>6. PhaseInv'
  BY <1>0 DEF PhaseInv
<1>7. FreshInv'
  <2>1. fresh \subseteq Objects
    BY DEF CollectorTypeOK
  <2>2. QED
    BY <1>0, <1>2, <1>3, <1>4, <2>1 DEF FreshInv, Holds
<1>8. DeadInv'
  <2>1. DeadUnheld'
    BY <1>1, <1>2, <1>3 DEF DeadUnheld
  <2>2. DeadPointers'
    BY <1>1, <1>2, <1>4 DEF DeadPointers
  <2>3. DeadCalls' /\ DeadCounts' /\ UnlinkInv'
    BY <1>1 DEF DeadCalls, DeadCounts, UnlinkInv
  <2>4. QED
    BY <2>1, <2>2, <2>3
<1>9. CountInv'
  <2>1. ASSUME NEW p \in Objects \ Dead
        PROVE  Balanced(p)'
    <3>1. /\ rc[p] + Times(increments, p) - Times(decrements, p) - Owed(p) = refs[p] + Pointers(p)
          /\ rc[p] \in Int /\ refs[p] \in Int /\ Times(increments, p) \in Int
          /\ Times(decrements, p) \in Int /\ Owed(p) \in Int /\ Pointers(p) \in Int
      BY BalancedNow
    <3>2. rc'[p] = rc[p] /\ refs'[p] = refs[p] /\ Owed(p)' = Owed(p)
      BY DEF Owed
    <3>3. /\ p = value => Times(increments', p) = Times(increments, p) + 1
          /\ p # value => Times(increments', p) = Times(increments, p)
      BY <1>0, TimesLonger
    <3>4. /\ p = old => Times(decrements', p) = Times(decrements, p) + 1
          /\ p # old => Times(decrements', p) = Times(decrements, p)
      BY <1>0, TimesLonger DEF old
    <3>5. Pointers(p)' + (IF old = p THEN 1 ELSE 0) = Pointers(p) + (IF value = p THEN 1 ELSE 0)
      <4>1. o \in Objects \ discounted /\ field \in Heaps /\ discounted' = discounted
        BY <1>2 DEF Dead, CollectorTypeOK, Heaps
      <4>S. (Objects \ discounted) \in SUBSET Objects
        OBVIOUS
      <4> HIDE DEF SetObject, CollectorIInv
      <4>2. FieldSet(field, Objects \ discounted, o, i, value, p)
        BY <4>1, <4>S, PointersSet, Zenon
      <4>3. Pointers(p) = PointersIn(field, Objects \ discounted, p)
        BY PointersHere
      <4>4. Pointers(p)' = PointersIn([field EXCEPT ![o][i] = value], Objects \ discounted, p)
        BY <1>0, <4>1, PointersThen
      <4>5. QED
        BY <4>2, <4>3, <4>4 DEF old, FieldSet
    <3>6. Pointers(p)' \in Int
      BY <1>5, PointersFinite, PointersThen
    <3>7. rc'[p] + Times(increments', p) - Times(decrements', p) - Owed(p)' = refs'[p] + Pointers(p)'
      <4> HIDE DEF SetObject, CollectorIInv
      <4>1. CASE old = p /\ value = p
        BY <3>1, <3>2, <3>3, <3>4, <3>5, <3>6, <4>1, Z3
      <4>2. CASE old = p /\ value # p
        BY <3>1, <3>2, <3>3, <3>4, <3>5, <3>6, <4>2, Z3
      <4>3. CASE old # p /\ value = p
        BY <3>1, <3>2, <3>3, <3>4, <3>5, <3>6, <4>3, Z3
      <4>4. CASE old # p /\ value # p
        BY <3>1, <3>2, <3>3, <3>4, <3>5, <3>6, <4>4, Z3
      <4>5. QED
        BY <4>1, <4>2, <4>3, <4>4
    <3>8. QED
      BY <3>7 DEF Balanced
  <2>2. QED
    BY <1>1, <2>1 DEF CountInv
<1>10. ColorInv'
  BY <1>1 DEF RedInv, PaleInv, RootColors
<1>11. OrangeInv'
  BY OrangeSame
<1>12. CyclicInv'
  <2>1. ASSUME NEW j \in 1..Len(cycles), NEW p \in Objects, p # old, p # value
        PROVE  Within(j, p)' = Within(j, p)
    <3>1. \A q \in Range(cycles[j]) : q \in Objects
      <4>1. cycles[j] \in Seq(Objects)
        BY DEF CollectorTypeOK
      <4>2. QED
        BY <4>1, RangeOf
    <3>2. SameReferences(field, field', Range(cycles[j]), p)
      BY <1>4, <2>1, <3>1 DEF old, SameReferences
    <3>3. PointersIn(field, Range(cycles[j]), p) = PointersIn(field', Range(cycles[j]), p)
      <4> HIDE DEF SetObject, CollectorIInv
      <4>1. QED
        BY <3>2, PointersAgree
    <3>4. cycles' = cycles
      OBVIOUS
    <3>5. Within(j, p)' = PointersIn(field', Range(cycles'[j]), p)
      BY PointersThen
    <3>6. Within(j, p) = PointersIn(field, Range(cycles[j]), p)
      BY PointersHere
    <3>7. QED
      BY <3>3, <3>4, <3>5, <3>6
  <2>2. \A j, k, p : /\ Holds(j, k, p)' <=> Holds(j, k, p)
                     /\ Waits(j, k)' <=> Waits(j, k)
                     /\ IsPrepared(j)' <=> IsPrepared(j)
    BY DEF Holds, Waits, IsPrepared
  <2>3. \A p \in Objects : Quiet(p)' => Quiet(p) /\ p # old /\ p # value
    BY <1>0, <1>3 DEF Quiet
  <2>4. \A j, k, p : Holds(j, k, p) => j \in 1..Len(cycles)
    BY DEF Holds
  <2>5. QED
    BY <2>1, <2>2, <2>3, <2>4 DEF CyclicInv
<1>13. SeenInv'
  BY <1>1 DEF SeenInv, Holds, Waits
<1>14. QED
  BY <1>5, <1>6, <1>7, <1>8, <1>9, <1>10, <1>11, <1>12, <1>13

(* What is known of the next call. *)
LEMMA NextCall ==
  ASSUME CollectorIInv, work # <<>>
  PROVE  /\ Head(work) = <<Head(work)[1], Head(work)[2]>>
         /\ Head(work)[1] \in CallsOf(phase)
         /\ Head(work)[1] \in Calls
         /\ Head(work)[2] \in Objects \cup {Null}
         /\ Tail(work) \in Seq(Calls \X (Objects \cup {Null}))
         /\ \A e : Has(work, e) <=> Head(work) = e \/ Has(Tail(work), e)
         /\ phase \in {"flush", "unlink"} => increments = <<>>
<1>1. work \in Seq(Calls \X (Objects \cup {Null}))
  BY DEF CollectorIInv, CollectorTypeOK
<1>2. Head(work) \in Calls \X (Objects \cup {Null})
  BY <1>1
<1>3. \A e : Has(work, e) <=> Head(work) = e \/ Has(Tail(work), e)
  BY <1>1, HasTail
<1>4. PICK c \in Calls, o \in Objects \cup {Null} : Head(work) = <<c, o>>
  BY <1>2
<1>5. c \in CallsOf(phase)
  BY <1>3, <1>4 DEF CollectorIInv, PhaseInv
<1>6. Tail(work) \in Seq(Calls \X (Objects \cup {Null}))
  BY <1>1
<1>7. phase \in {"flush", "unlink"} => increments = <<>>
  BY DEF CollectorIInv, PhaseInv
<1>8. QED
  BY <1>3, <1>4, <1>5, <1>6, <1>7

(* What is known of the candidates, by what a step of a flush or of the freeing *)
(* of a cycle does to them.                                                     *)
LEMMA CandidatesKeep ==
  ASSUME OrangeInv, CyclicInv, phase \in {"flush", "unlink"}, CollectorTypeOK, CollectorTypeOK',
         UNCHANGED <<field, cycles, loops>>,
         \A p \in Objects : color'[p] = "ORANGE" => color[p] = "ORANGE",
         \A p \in Objects : color'[p] = "ORANGE" /\ Quiet(p)' =>
                              Quiet(p) /\ crc'[p] - crc[p] = rc'[p] - rc[p]
  PROVE  OrangeInv' /\ CyclicInv'
<1> USE DEF loops
<1>1. \A j, k, p : /\ Holds(j, k, p)' <=> Holds(j, k, p)
                   /\ Waits(j, k)' <=> Waits(j, k)
                   /\ IsPrepared(j)' <=> IsPrepared(j)
  BY DEF Holds, Waits, IsPrepared
<1>2. \A j, p : Within(j, p)' = Within(j, p)
  BY PointersHere, PointersThen
<1>3. Distinct' /\ OrangeOwned'
  BY <1>1 DEF OrangeInv, Distinct, OrangeOwned
<1>4. OrangeMembers'
  BY DEF OrangeMembers
<1>5. CyclicInv'
  <2> SUFFICES ASSUME NEW j \in Nat, NEW k \in Nat, NEW p \in Objects,
                      Holds(j, k, p)', Waits(j, k)', IsPrepared(j)', color'[p] = "ORANGE", Quiet(p)'
               PROVE  crc'[p] = rc'[p] - Within(j, p)'
    BY DEF CyclicInv
  <2>1. crc[p] = rc[p] - Within(j, p)
    BY <1>1 DEF CyclicInv
  <2>2. /\ crc'[p] - crc[p] = rc'[p] - rc[p]
        /\ crc[p] \in Int /\ rc[p] \in Int /\ crc'[p] \in Int /\ rc'[p] \in Int
    BY DEF CollectorTypeOK
  <2>3. Range(cycles[j]) \in SUBSET Objects
    <3>0. j \in 1..Len(cycles)
      BY <1>1 DEF Holds
    <3>1. cycles \in Seq(Seq(Objects))
      BY DEF CollectorTypeOK
    <3>3. cycles[j] \in Seq(Objects)
      BY <3>0, <3>1
    <3>2. QED
      BY <3>3, RangeOf
  <2>4. Within(j, p) \in Int
    BY <2>3, PointersHere, PointersFinite
  <2>5. Within(j, p)' = Within(j, p)
    BY <1>2
  <2>6. QED
    BY <2>1, <2>2, <2>4, <2>5, Z3
<1>6. QED
  BY <1>3, <1>4, <1>5 DEF OrangeInv

(* scanBlack of an object that is not dead does not go to a dead one. *)
LEMMA Repainted ==
  ASSUME CollectorIInv, NEW o \in Objects \ Dead, NEW painted \in {"BLACK", "PURPLE"},
         ScanBlack(o, painted)
  PROVE  /\ color' \in [Objects -> Colors]
         /\ color'[o] = painted
         /\ \A p \in Objects : p # o => color'[p] = color[p] \/ color'[p] = "BLACK"
         /\ \A p \in Dead : color'[p] = color[p]
<1> DEFINE T == { q \in Objects : color[q] # "BLACK" }
           U == Objects \ Dead
<1>1. Spread({o}, T) \subseteq U
  <2>1. {o} \cap T \subseteq U
    OBVIOUS
  <2>2. ASSUME NEW p \in U, NEW i \in Fields, field[p][i] \in T
        PROVE  field[p][i] \in U
    <3>1. field[p][i] \notin Gone /\ field[p][i] \notin Doomed
      BY DEF CollectorIInv, DeadInv, DeadPointers, Dead
    <3>2. QED
      BY <2>2, <3>1 DEF Gone, Dead
  <2>3. U \in SUBSET Objects
    OBVIOUS
  <2> HIDE DEF T, U
  <2>4. QED
    BY <2>1, <2>2, <2>3 DEF Spread
<1>2. color' = [ p \in Objects |->
                   IF p = o THEN painted ELSE IF p \in Spread({o}, T) THEN "BLACK" ELSE color[p] ]
  BY DEF ScanBlack
<1>3. color \in [Objects -> Colors]
  BY DEF CollectorIInv, CollectorTypeOK
<1>4. Dead \subseteq Objects
  <2>1. Doomed \subseteq Objects
    <3>1. phase = "unlink" => cycles[index] \in Seq(Objects)
      BY DEF CollectorIInv, CollectorTypeOK, PhaseInv, Judging
    <3>2. QED
      BY <3>1, RangeOf DEF Doomed
  <2>2. QED
    BY <2>1 DEF CollectorIInv, CollectorTypeOK, Allocated, Dead
<1> HIDE DEF T
<1>5. QED
  BY <1>1, <1>2, <1>3, <1>4 DEF Colors

LEMMA RootsAre ==
  ASSUME CollectorIInv
  PROVE  \A p : Has(roots, p) => p \in Objects
<1>1. roots \in Seq(Objects)
  BY DEF CollectorIInv, CollectorTypeOK
<1>2. QED
  BY <1>1 DEF Has

LEMMA DeadAre ==
  ASSUME CollectorIInv
  PROVE  Dead \subseteq Objects /\ Gone \subseteq Dead /\ Doomed \subseteq Dead
<1>1. Doomed \subseteq Objects
  <2>1. phase = "unlink" => cycles[index] \in Seq(Objects)
    BY DEF CollectorIInv, CollectorTypeOK, PhaseInv, Judging
  <2>2. QED
    BY <2>1, RangeOf DEF Doomed
<1>2. QED
  BY <1>1 DEF CollectorIInv, CollectorTypeOK, Allocated, Dead, Gone

\* A step that only takes colours away keeps SeenInv.
LEMMA SeenSame ==
  ASSUME SeenInv, Doomed' = Doomed,
         UNCHANGED <<freed, buffered, roots, cycles, phase, index, member>>,
         \A p \in Objects \ freed : color'[p] = "PURPLE" => color[p] = "PURPLE"
  PROVE  SeenInv'
BY DEF SeenInv, Holds, Waits

LEMMA ApplyIncrementKeeps ==
  ASSUME CollectorIInv, ApplyIncrement, UNCHANGED misused
  PROVE  CollectorIInv'
<1> DEFINE o == Head(increments)
<1> USE DEF CollectorIInv, DeadInv, ColorInv, OrangeInv
<1>0. /\ phase = "flush" /\ work = <<>> /\ work' = <<>>
      /\ increments \in Seq(Objects) /\ increments # <<>> /\ increments' = Tail(increments)
      /\ UNCHANGED <<field, crc, buffered, roots, cycles, freed, discounted,
                     refs, fresh, epoch, decrements, phase, index, member, misused>>
      /\ rc' = [rc EXCEPT ![o] = @ + 1]
      /\ ScanBlack(o, "BLACK")
  BY DEF ApplyIncrement, In, AddReferenceReal, loops, CollectorTypeOK
<1>1. /\ o \in Objects
      /\ \A e : Has(increments, e) <=> e = o \/ Has(increments', e)
  BY <1>0, HasTail
<1>2. /\ Doomed = {} /\ Doomed' = {}
      /\ Dead' = Dead /\ Gone' = Gone
      /\ o \notin Dead /\ o \notin fresh
  BY <1>0, <1>1 DEF Doomed, Dead, Gone, DeadUnheld, FreshInv
<1> HIDE DEF o
<1>3. /\ color' \in [Objects -> Colors]
      /\ color'[o] = "BLACK"
      /\ \A p \in Objects : p # o => color'[p] = color[p] \/ color'[p] = "BLACK"
      /\ \A p \in Dead : color'[p] = color[p]
  BY <1>0, <1>1, <1>2, Repainted
<1>4. CollectorTypeOK'
  <2>0. rc \in [Objects -> Int]
    BY DEF CollectorTypeOK
  <2>1. rc' \in [Objects -> Int] /\ increments' \in Seq(Objects)
    <3>1. rc[o] + 1 \in Int
      BY <1>1, <2>0
    <3>2. rc' \in [Objects -> Int]
      BY <1>0, <2>0, <3>1
    <3>3. increments' \in Seq(Objects)
      BY <1>0
    <3>4. QED
      BY <3>2, <3>3
  <2>2. QED
    BY <1>0, <1>3, <2>1 DEF CollectorTypeOK, Allocated
<1>5. PhaseInv'
  BY <1>0, HasNone DEF PhaseInv, Judging
<1>6. \A p \in Objects : p # o => rc'[p] = rc[p]
  BY <1>0 DEF CollectorTypeOK
<1>7. FreshInv'
  <2>1. \A p \in fresh : p \in Objects /\ p # o
    BY <1>2 DEF CollectorTypeOK
  <2>2. \A p \in fresh : rc'[p] = 0 /\ ~Has(increments', p)
    BY <1>1, <1>6, <2>1 DEF FreshInv
  <2>3. QED
    BY <1>0, <2>2 DEF FreshInv, Holds
<1>8. DeadInv'
  <2>1. DeadUnheld' /\ DeadPointers' /\ DeadCalls' /\ UnlinkInv'
    BY <1>0, <1>1, <1>2 DEF DeadUnheld, DeadPointers, DeadCalls, UnlinkInv
  <2>2. DeadCounts'
    BY <1>0, <1>1, <1>2, <1>6 DEF DeadCounts, Dead, CollectorTypeOK, Allocated
  <2>3. QED
    BY <2>1, <2>2
<1>9. CountInv'
  <2>1. ASSUME NEW p \in Objects \ Dead
        PROVE  Balanced(p)'
    <3>1. /\ rc[p] + Times(increments, p) - Times(decrements, p) - Owed(p) = refs[p] + Pointers(p)
          /\ rc[p] \in Int /\ refs[p] \in Int /\ Times(increments, p) \in Int
          /\ Times(decrements, p) \in Int /\ Owed(p) \in Int /\ Pointers(p) \in Int
      BY BalancedNow
    <3>2. refs'[p] = refs[p] /\ Times(decrements', p) = Times(decrements, p)
      BY <1>0
    <3>3. Pointers(p)' = Pointers(p) /\ Owed(p)' = Owed(p)
      BY <1>0, PointersHere, PointersThen DEF Owed
    <3>4. /\ p = o => Times(increments, p) = Times(increments', p) + 1
          /\ p # o => Times(increments, p) = Times(increments', p)
          /\ Times(increments', p) \in Int
      BY <1>0, TimesShorter DEF o
    <3>5. (p = o => rc'[p] = rc[p] + 1) /\ (p # o => rc'[p] = rc[p])
      BY <1>0 DEF CollectorTypeOK
    <3>6. rc'[p] + Times(increments', p) - Times(decrements', p) - Owed(p)' = refs'[p] + Pointers(p)'
      <4> HIDE DEF CollectorIInv
      <4>1. CASE p = o
        BY <3>1, <3>2, <3>3, <3>4, <3>5, <4>1, Z3
      <4>2. CASE p # o
        BY <3>1, <3>2, <3>3, <3>4, <3>5, <4>2, Z3
      <4>3. QED
        BY <4>1, <4>2
    <3>7. QED
      BY <3>6 DEF Balanced
  <2>2. QED
    BY <1>2, <2>1 DEF CountInv
<1>10. ColorInv'
  <2>1. RedInv'
    BY <1>0, <1>1, <1>2, <1>3 DEF RedInv
  <2>2. PaleInv'
    BY <1>0, <1>2, <1>3 DEF PaleInv
  <2>3. RootColors'
    <3>1. \A p : Has(roots, p) => p \in Objects
      BY RootsAre
    <3>2. QED
      BY <1>0, <1>3, <3>1 DEF RootColors
  <2>4. QED
    BY <2>1, <2>2, <2>3
<1>11. OrangeInv' /\ CyclicInv'
  <2>1. \A p \in Objects : color'[p] = "ORANGE" => color[p] = "ORANGE" /\ p # o
    BY <1>3
  <2>2. \A p \in Objects : p # o /\ Quiet(p)' => Quiet(p)
    BY <1>0, <1>1 DEF Quiet
  <2>3. ASSUME NEW p \in Objects, color'[p] = "ORANGE", Quiet(p)'
        PROVE  Quiet(p) /\ crc'[p] - crc[p] = rc'[p] - rc[p]
    <3>1. p # o /\ Quiet(p) /\ rc'[p] = rc[p] /\ crc'[p] = crc[p]
      BY <1>0, <1>6, <2>1, <2>2, <2>3
    <3>2. rc[p] \in Int /\ crc[p] \in Int
      BY DEF CollectorTypeOK
    <3>3. QED
      BY <3>1, <3>2
  <2>4. UNCHANGED <<field, cycles, loops>>
    BY <1>0 DEF loops
  <2>5. QED
    BY <1>0, <1>4, <2>1, <2>3, <2>4, CandidatesKeep
<1>12. SeenInv'
  <2>1. \A p \in Objects \ freed : color'[p] = "PURPLE" => color[p] = "PURPLE"
    BY <1>1, <1>3
  <2>2. QED
    BY <1>0, <1>2, <2>1, SeenSame
<1>13. QED
  BY <1>4, <1>5, <1>7, <1>8, <1>9, <1>10, <1>11, <1>12

LEMMA NothingOwed ==
  ASSUME CollectorTypeOK, NEW o,
         ~Has(work, <<"removeReferenceReal", o>>), ~Has(work, <<"cyclicDecrement", o>>)
  PROVE  Owed(o) = 0
<1>1. work \in Seq(Calls \X (Objects \cup {Null}))
  BY DEF CollectorTypeOK
<1>2. Times(work, <<"removeReferenceReal", o>>) = 0 /\ Times(work, <<"cyclicDecrement", o>>) = 0
  BY <1>1, HasTimes
<1>3. QED
  BY <1>2 DEF Owed

(* A call that does nothing. *)
LEMMA SkipKeeps ==
  ASSUME CollectorIInv, work # <<>>, work' = Tail(work),
         UNCHANGED <<objects, mutator, loops, misused>>,
         \/ Head(work)[2] = Null
         \/ Head(work)[1] = "cyclicDecrement" /\ color[Head(work)[2]] = "RED"
         \/ Head(work)[1] = "collectWhite"
  PROVE  CollectorIInv'
<1> USE DEF CollectorIInv, DeadInv, ColorInv, OrangeInv, objects, mutator, loops
<1>1. /\ Head(work) = <<Head(work)[1], Head(work)[2]>>
      /\ Head(work)[2] \in Objects \cup {Null}
      /\ Tail(work) \in Seq(Calls \X (Objects \cup {Null}))
      /\ \A e : Has(work, e) <=> Head(work) = e \/ Has(Tail(work), e)
  BY NextCall
<1>2. Doomed' = Doomed /\ Dead' = Dead /\ Gone' = Gone /\ Dead \subseteq Objects
  BY DeadAre DEF Doomed, Dead, Gone
<1>3. \A p \in Objects : /\ Head(work) # <<"removeReferenceReal", p>>
                         /\ Head(work) # <<"released", p>>
                         /\ Head(work) = <<"cyclicDecrement", p>> => p \in Dead
  <2>1. \A p \in Objects : color[p] = "RED" => p \in Dead
    BY DEF RedInv, Dead
  <2>2. Null \notin Objects
    BY ObjectsAssumption
  <2>3. QED
    BY <1>1, <2>1, <2>2
<1>4. CollectorTypeOK'
  BY <1>1 DEF CollectorTypeOK, Allocated
<1>5. PhaseInv'
  BY <1>1 DEF PhaseInv, Judging
<1>6. FreshInv'
  BY <1>1 DEF FreshInv, Holds
<1>7. DeadInv'
  BY <1>1, <1>2 DEF DeadUnheld, DeadPointers, DeadCalls, DeadCounts, UnlinkInv
<1>8. CountInv'
  <2>1. ASSUME NEW p \in Objects \ Dead
        PROVE  Balanced(p)'
    <3>1. Balanced(p)
      BY DEF CountInv
    <3>2. Pointers(p)' = Pointers(p)
      BY PointersHere, PointersThen
    <3>3. Owed(p)' = Owed(p)
      <4>1. Head(work) # <<"removeReferenceReal", p>> /\ Head(work) # <<"cyclicDecrement", p>>
        BY <1>3
      <4>2. work \in Seq(Calls \X (Objects \cup {Null}))
        BY DEF CollectorTypeOK
      <4>3. QED
        BY <4>1, <4>2, TimesShorter DEF Owed
    <3>4. QED
      BY <3>1, <3>2, <3>3 DEF Balanced
  <2>2. QED
    BY <1>2, <2>1 DEF CountInv
<1>9. ColorInv'
  <2>1. PaleInv'
    BY <1>1, <1>2, <1>3 DEF PaleInv
  <2>2. RedInv' /\ RootColors'
    BY <1>2 DEF RedInv, RootColors
  <2>3. QED
    BY <2>1, <2>2
<1>10. OrangeInv'
  BY DEF Distinct, OrangeOwned, OrangeMembers, Holds, Waits
<1>11. CyclicInv'
  <2>1. \A j, k, p : /\ Holds(j, k, p)' <=> Holds(j, k, p)
                     /\ Waits(j, k)' <=> Waits(j, k)
                     /\ IsPrepared(j)' <=> IsPrepared(j)
    BY DEF Holds, Waits, IsPrepared
  <2>2. \A p \in Objects : Quiet(p)' => Quiet(p)
    BY <1>1, <1>3 DEF Quiet
  <2>3. \A j, p : Within(j, p)' = Within(j, p)
    BY PointersHere, PointersThen
  <2>4. QED
    BY <2>1, <2>2, <2>3 DEF CyclicInv
<1>12. SeenInv'
  BY <1>2 DEF SeenInv, Holds, Waits
<1>13. QED
  BY <1>4, <1>5, <1>6, <1>7, <1>8, <1>9, <1>10, <1>11, <1>12

LEMMA ApplyDecrementKeeps ==
  ASSUME CollectorIInv, ApplyDecrement, UNCHANGED misused
  PROVE  CollectorIInv'
<1> DEFINE o == Head(decrements)
           Removal == <<"removeReferenceReal", o>>
<1> USE DEF CollectorIInv, DeadInv, ColorInv, OrangeInv
<1>0. /\ phase = "flush" /\ work = <<>> /\ work' = <<Removal>> /\ increments = <<>>
      /\ decrements \in Seq(Objects) /\ decrements # <<>> /\ decrements' = Tail(decrements)
      /\ UNCHANGED <<field, rc, crc, color, buffered, roots, cycles, freed, discounted,
                     refs, fresh, epoch, increments, phase, index, member, misused>>
  BY DEF ApplyDecrement, In, objects, loops, CollectorTypeOK
<1>1. /\ o \in Objects
      /\ \A e : Has(decrements, e) <=> e = o \/ Has(decrements', e)
      /\ \A e : Has(work', e) <=> e = Removal
  BY <1>0, HasTail, HasOne
<1>2. /\ Doomed = {} /\ Doomed' = {}
      /\ Dead' = Dead /\ Gone' = Gone
      /\ o \notin Dead /\ o \notin Gone /\ o \notin fresh
  BY <1>0, <1>1 DEF Doomed, Dead, Gone, DeadUnheld, FreshInv
<1> HIDE DEF o
<1>4. CollectorTypeOK'
  <2>1. decrements' \in Seq(Objects)
    BY <1>0
  <2>2. work' \in Seq(Calls \X (Objects \cup {Null}))
    BY <1>0, <1>1 DEF Calls
  <2>3. QED
    BY <1>0, <2>1, <2>2 DEF CollectorTypeOK, Allocated
<1>5. PhaseInv'
  BY <1>0, <1>1 DEF PhaseInv, Judging, CallsOf
<1>7. FreshInv'
  <2>1. \A p \in fresh : p # o
    BY <1>2
  <2>2. QED
    BY <1>0, <1>1, <2>1 DEF FreshInv, Holds
<1>8. DeadInv'
  BY <1>0, <1>1, <1>2 DEF DeadUnheld, DeadPointers, DeadCalls, UnlinkInv, DeadCounts
<1>9. CountInv'
  <2>1. ASSUME NEW p \in Objects \ Dead
        PROVE  Balanced(p)'
    <3>1. /\ rc[p] + Times(increments, p) - Times(decrements, p) - Owed(p) = refs[p] + Pointers(p)
          /\ rc[p] \in Int /\ refs[p] \in Int /\ Times(increments, p) \in Int
          /\ Times(decrements, p) \in Int /\ Owed(p) \in Int /\ Pointers(p) \in Int
      BY BalancedNow
    <3>2. refs'[p] = refs[p] /\ Times(increments', p) = Times(increments, p) /\ rc'[p] = rc[p]
      BY <1>0
    <3>3. Pointers(p)' = Pointers(p)
      BY <1>0, PointersHere, PointersThen
    <3>4. /\ p = o => Times(decrements, p) = Times(decrements', p) + 1
          /\ p # o => Times(decrements, p) = Times(decrements', p)
          /\ Times(decrements', p) \in Int
      BY <1>0, TimesShorter DEF o
    <3>5. Owed(p) = 0 /\ (p = o => Owed(p)' = 1) /\ (p # o => Owed(p)' = 0)
      <4>1. Owed(p) = 0
        <5>1. ~Has(work, <<"removeReferenceReal", p>>) /\ ~Has(work, <<"cyclicDecrement", p>>)
          BY <1>0, HasNone
        <5>2. QED
          BY <5>1, NothingOwed
      <4>2. /\ Times(<<Removal>>, <<"removeReferenceReal", p>>)
                 = IF Removal = <<"removeReferenceReal", p>> THEN 1 ELSE 0
            /\ Times(<<Removal>>, <<"cyclicDecrement", p>>)
                 = IF Removal = <<"cyclicDecrement", p>> THEN 1 ELSE 0
        BY TimesOne
      <4>3. Owed(p)' = Times(<<Removal>>, <<"removeReferenceReal", p>>)
                         + Times(<<Removal>>, <<"cyclicDecrement", p>>)
        BY <1>0 DEF Owed
      <4>4. QED
        BY <4>1, <4>2, <4>3
    <3>6. rc'[p] + Times(increments', p) - Times(decrements', p) - Owed(p)' = refs'[p] + Pointers(p)'
      <4> HIDE DEF CollectorIInv
      <4>1. CASE p = o
        BY <3>1, <3>2, <3>3, <3>4, <3>5, <4>1, Z3
      <4>2. CASE p # o
        BY <3>1, <3>2, <3>3, <3>4, <3>5, <4>2, Z3
      <4>3. QED
        BY <4>1, <4>2
    <3>7. QED
      BY <3>6 DEF Balanced
  <2>2. QED
    BY <1>2, <2>1 DEF CountInv
<1>10. ColorInv'
  BY <1>0, <1>1, <1>2, HasNone DEF RedInv, PaleInv, RootColors
<1>11. OrangeInv' /\ CyclicInv'
  <2>1. \A p \in Objects : color'[p] = "ORANGE" => color[p] = "ORANGE"
    BY <1>0
  <2>2. \A p \in Objects : Quiet(p)' => Quiet(p)
    BY <1>0, <1>1, HasNone DEF Quiet
  <2>3. \A p \in Objects : color'[p] = "ORANGE" /\ Quiet(p)' =>
                              Quiet(p) /\ crc'[p] - crc[p] = rc'[p] - rc[p]
    BY <1>0, <2>2 DEF CollectorTypeOK
  <2>4. UNCHANGED <<field, cycles, loops>>
    BY <1>0 DEF loops
  <2>5. QED
    BY <1>0, <1>4, <2>1, <2>3, <2>4, CandidatesKeep
<1>12. SeenInv'
  BY <1>0, <1>1, <1>2 DEF SeenInv, Holds, Waits
<1>13. QED
  BY <1>4, <1>5, <1>7, <1>8, <1>9, <1>10, <1>11, <1>12

(* The fields that an object loses are removals that are still to be made. *)
LEMMA BalancedSpread ==
  ASSUME CollectorTypeOK, CountInv, NEW o \in Objects \ Dead, NEW x \in Int,
         rc'[o] = rc[o], refs'[o] = refs[o],
         Times(increments', o) = Times(increments, o), Times(decrements', o) = Times(decrements, o),
         Pointers(o)' \in Int, Pointers(o) = Pointers(o)' + x, Owed(o)' = Owed(o) + x
  PROVE  Balanced(o)'
<1>1. rc[o] + Times(increments, o) - Times(decrements, o) - Owed(o) = refs[o] + Pointers(o)
  BY DEF CountInv, Balanced
<1>2. rc[o] \in Int
  BY TypesOfCounts
<1>3. refs[o] \in Nat
  BY TypesOfCounts
<1>4. Times(increments, o) \in Nat
  BY TypesOfCounts
<1>5. Times(decrements, o) \in Nat
  BY TypesOfCounts
<1>6. Owed(o) \in Nat
  BY TypesOfCounts
<1>7. rc[o] + Times(increments, o) - Times(decrements, o) - (Owed(o) + x) = refs[o] + Pointers(o)'
  BY <1>1, <1>2, <1>3, <1>4, <1>5, <1>6
<1>8. rc'[o] + Times(increments', o) - Times(decrements', o) - Owed(o)' = refs'[o] + Pointers(o)'
  BY <1>7
<1>9. QED
  BY <1>8 DEF Balanced

(* A removal is made. *)
LEMMA BalancedRemoved ==
  ASSUME CollectorTypeOK, CountInv, NEW o \in Objects \ Dead,
         rc'[o] = rc[o] - 1, refs'[o] = refs[o],
         Times(increments', o) = Times(increments, o), Times(decrements', o) = Times(decrements, o),
         Pointers(o)' = Pointers(o), Owed(o)' \in Int, Owed(o) = Owed(o)' + 1
  PROVE  Balanced(o)'
<1>1. rc[o] + Times(increments, o) - Times(decrements, o) - Owed(o) = refs[o] + Pointers(o)
  BY DEF CountInv, Balanced
<1>2. rc[o] \in Int
  BY TypesOfCounts
<1>3. refs[o] \in Nat
  BY TypesOfCounts
<1>4. Times(increments, o) \in Nat
  BY TypesOfCounts
<1>5. Times(decrements, o) \in Nat
  BY TypesOfCounts
<1>6. Pointers(o) \in Nat
  BY TypesOfCounts
<1>7. rc[o] - 1 + Times(increments, o) - Times(decrements, o) - Owed(o)' = refs[o] + Pointers(o)
  BY <1>1, <1>2, <1>3, <1>4, <1>5, <1>6
<1>8. rc'[o] + Times(increments', o) - Times(decrements', o) - Owed(o)' = refs'[o] + Pointers(o)'
  BY <1>7
<1>9. QED
  BY <1>8 DEF Balanced

(* When an increment is not there and the count is one that is owed. *)
LEMMA LastReference ==
  ASSUME CollectorTypeOK, CountInv, NEW o \in Objects \ Dead, NEW x \in Nat, NEW y \in Nat,
         Times(increments, o) = 0, Owed(o) = x + y + 1, rc[o] - 1 <= 0
  PROVE  rc[o] = 1 /\ refs[o] = 0 /\ Pointers(o) = 0 /\ Times(decrements, o) = 0 /\ x = 0 /\ y = 0
<1>1. rc[o] + Times(increments, o) - Times(decrements, o) - Owed(o) = refs[o] + Pointers(o)
  BY DEF CountInv, Balanced
<1>2. rc[o] \in Int
  BY TypesOfCounts
<1>3. refs[o] \in Nat
  BY TypesOfCounts
<1>5. Times(decrements, o) \in Nat
  BY TypesOfCounts
<1>6. Pointers(o) \in Nat
  BY TypesOfCounts
<1>7. rc[o] = refs[o] + Pointers(o) + Times(decrements, o) + x + y + 1
  BY <1>1, <1>2, <1>3, <1>5, <1>6
<1>8. refs[o] + Pointers(o) + Times(decrements, o) + x + y <= 0
  BY <1>7, <1>2, <1>3, <1>5, <1>6
<1>9. refs[o] = 0 /\ Pointers(o) = 0 /\ Times(decrements, o) = 0 /\ x = 0 /\ y = 0
  BY <1>8, <1>3, <1>5, <1>6
<1>10. QED
  BY <1>7, <1>9

LEMMA ReleasedKeeps ==
  ASSUME CollectorIInv, work # <<>>, NEW o \in Objects, Head(work) = <<"released", o>>,
         Released(o, Tail(work)), UNCHANGED <<mutator, loops, misused>>
  PROVE  CollectorIInv'
<1> USE DEF CollectorIInv, DeadInv, ColorInv, OrangeInv
<1>0. /\ phase \in {"flush", "unlink"} /\ increments = <<>>
      /\ work' = Tail(work) /\ work' \in Seq(Calls \X (Objects \cup {Null}))
      /\ \A e : Has(work, e) <=> <<"released", o>> = e \/ Has(work', e)
      /\ freed' = IF buffered[o] THEN freed ELSE freed \cup {o}
      /\ UNCHANGED <<field, rc, crc, buffered, roots, cycles, discounted, refs, fresh, epoch,
                     increments, decrements, phase, index, member, misused>>
  BY NextCall DEF CallsOf, Released, mutator, loops
<1>1. /\ color' \in [Objects -> Colors]
      /\ color'[o] = "BLACK"
      /\ \A p \in Objects : p # o => color'[p] = color[p]
  BY DEF Released, CollectorTypeOK, Colors
<1>2. /\ o \in discounted /\ o \notin Doomed
      /\ Doomed' = Doomed /\ Dead' = Dead /\ Gone' = Gone /\ Dead \subseteq Objects
      /\ freed \subseteq freed' /\ freed' \subseteq freed \cup {o}
  <2>1. o \in discounted /\ o \notin Doomed
    BY <1>0 DEF DeadCalls
  <2>2. Doomed' = Doomed
    BY <1>0 DEF Doomed
  <2>3. QED
    BY <1>0, <2>1, <2>2, DeadAre DEF Dead, Gone
<1>4. CollectorTypeOK'
  <2>1. freed' \subseteq Objects \ fresh
    BY <1>0, <1>2 DEF CollectorTypeOK, Allocated
  <2>2. QED
    BY <1>0, <1>1, <2>1 DEF CollectorTypeOK, Allocated
<1>5. PhaseInv'
  BY <1>0 DEF PhaseInv, Judging
<1>7. FreshInv'
  <2>1. \A p \in fresh : rc'[p] = 0 /\ ~Has(roots', p)
    BY <1>0 DEF FreshInv
  <2>2. QED
    BY <1>0, <2>1, FreshSame
<1>8. DeadInv'
  <2>1. DeadUnheld' /\ DeadPointers' /\ DeadCalls'
    BY <1>0, <1>2 DEF DeadUnheld, DeadPointers, DeadCalls
  <2>2. DeadCounts'
    BY <1>0, <1>2 DEF DeadCounts
  <2>3. UnlinkInv'
    BY <1>0, <1>2 DEF UnlinkInv
  <2>4. QED
    BY <2>1, <2>2, <2>3
<1>9. CountInv'
  <2>1. ASSUME NEW p \in Objects \ Dead
        PROVE  Balanced(p)'
    <3>1. Balanced(p)
      BY DEF CountInv
    <3>2. Pointers(p)' = Pointers(p)
      BY <1>0, PointersHere, PointersThen
    <3>3. Owed(p)' = Owed(p)
      <4>1. Head(work) # <<"removeReferenceReal", p>> /\ Head(work) # <<"cyclicDecrement", p>>
        OBVIOUS
      <4>2. work \in Seq(Calls \X (Objects \cup {Null}))
        BY DEF CollectorTypeOK
      <4>3. QED
        BY <1>0, <4>1, <4>2, TimesShorter DEF Owed
    <3>4. QED
      BY <1>0, <3>1, <3>2, <3>3 DEF Balanced
  <2>2. QED
    BY <1>2, <2>1 DEF CountInv
<1>10. ColorInv'
  <2>1. RedInv'
    BY <1>0, <1>1, <1>2 DEF RedInv, Dead
  <2>2. PaleInv'
    <3>1. ASSUME NEW p \in Dead, color'[p] \in {"GRAY", "WHITE", "ORANGE"}
          PROVE  Has(work', <<"released", p>>)
      <4>1. p # o /\ color[p] = color'[p]
        BY <1>1, <1>2, <3>1
      <4>2. Has(work, <<"released", p>>)
        BY <3>1, <4>1 DEF PaleInv
      <4>3. <<"released", o>> # <<"released", p>>
        BY <4>1
      <4>4. QED
        BY <1>0, <4>2, <4>3
    <3>2. QED
      BY <1>2, <3>1 DEF PaleInv
  <2>3. RootColors'
    <3>1. \A p : Has(roots, p) => p \in Objects
      BY RootsAre
    <3>2. QED
      BY <1>0, <1>1, <3>1 DEF RootColors
  <2>4. QED
    BY <2>1, <2>2, <2>3
<1>11. OrangeInv' /\ CyclicInv'
  <2>1. \A p \in Objects : color'[p] = "ORANGE" => color[p] = "ORANGE"
    BY <1>1
  <2>2. \A p \in Objects : Quiet(p)' => Quiet(p)
    BY <1>0 DEF Quiet
  <2>3. \A p \in Objects : color'[p] = "ORANGE" /\ Quiet(p)' =>
                              Quiet(p) /\ crc'[p] - crc[p] = rc'[p] - rc[p]
    BY <1>0, <2>2 DEF CollectorTypeOK
  <2>4. UNCHANGED <<field, cycles, loops>>
    BY <1>0 DEF loops
  <2>5. QED
    BY <1>0, <1>4, <2>1, <2>3, <2>4, CandidatesKeep
<1>12. SeenInv'
  BY <1>0, <1>1, <1>2 DEF SeenInv, Holds, Waits
<1>13. QED
  BY <1>4, <1>5, <1>7, <1>8, <1>9, <1>10, <1>11, <1>12

(* removeReferenceReal takes the last reference: release. *)
LEMMA ReleaseKeeps ==
  ASSUME CollectorIInv, work # <<>>, NEW o \in Objects, Head(work) = <<"removeReferenceReal", o>>,
         RemoveReferenceReal(o, Tail(work)), rc[o] - 1 <= 0,
         UNCHANGED <<mutator, loops, misused>>
  PROVE  CollectorIInv'
<1> DEFINE children == ForEachChild("removeReferenceReal", o)
           rest == Tail(work)
<1> USE DEF CollectorIInv, DeadInv, ColorInv, OrangeInv
<1>0. /\ phase \in {"flush", "unlink"} /\ increments = <<>>
      /\ rest \in Seq(Calls \X (Objects \cup {Null}))
      /\ \A e : Has(work, e) <=> <<"removeReferenceReal", o>> = e \/ Has(rest, e)
      /\ rc' = [rc EXCEPT ![o] = @ - 1]
      /\ discounted' = discounted \cup {o}
      /\ work' = children \o <<<<"released", o>>>> \o rest
      /\ UNCHANGED <<field, crc, color, buffered, roots, cycles, freed, refs, fresh, epoch,
                     increments, decrements, phase, index, member, misused>>
  <2>1. ~(rc[o] - 1 > 0)
    BY DEF CollectorTypeOK
  <2>2. /\ rc' = [rc EXCEPT ![o] = @ - 1]
        /\ discounted' = discounted \cup {o}
        /\ work' = children \o <<<<"released", o>>>> \o rest
        /\ UNCHANGED <<field, crc, color, buffered, roots, cycles, freed>>
    BY <2>1 DEF RemoveReferenceReal
  <2>3. /\ phase \in {"flush", "unlink"} /\ increments = <<>>
        /\ rest \in Seq(Calls \X (Objects \cup {Null}))
        /\ \A e : Has(work, e) <=> <<"removeReferenceReal", o>> = e \/ Has(rest, e)
    BY NextCall DEF CallsOf
  <2>4. QED
    BY <2>2, <2>3 DEF mutator, loops
<1>1. /\ o \notin Dead /\ o \notin fresh /\ o \notin discounted /\ o \notin Doomed /\ o \notin Gone
  BY <1>0 DEF DeadCalls, FreshInv, Dead, Gone, Calls
<1>2. /\ Doomed' = Doomed /\ Dead' = Dead \cup {o} /\ Gone' = Gone \cup {o}
      /\ Dead \subseteq Objects
  BY <1>0, <1>1, DeadAre DEF Doomed, Dead, Gone
<1>3. /\ children \in Seq(Calls \X (Objects \cup {Null}))
      /\ \A c, p : Has(children, <<c, p>>)
                     <=> c = "removeReferenceReal" /\ \E i \in Fields : field[o][i] = p
  <2>1. field \in Heaps /\ "removeReferenceReal" \in Calls
    BY DEF CollectorTypeOK, Heaps, Calls
  <2>2. QED
    BY <2>1, CallsType, HasCalls
<1> HIDE DEF children
<1>4. /\ work' \in Seq(Calls \X (Objects \cup {Null}))
      /\ \A e : Has(work', e) <=> Has(children, e) \/ e = <<"released", o>> \/ Has(rest, e)
      /\ \A e : Times(work', e) = Times(children, e) + Times(<<<<"released", o>>>>, e) + Times(rest, e)
  <2>1. <<"released", o>> \in Calls \X (Objects \cup {Null})
    BY DEF Calls
  <2> HIDE DEF rest
  <2>2. /\ children \o <<<<"released", o>>>> \o rest \in Seq(Calls \X (Objects \cup {Null}))
        /\ \A e : Has(children \o <<<<"released", o>>>> \o rest, e)
                     <=> Has(children, e) \/ e = <<"released", o>> \/ Has(rest, e)
        /\ \A e : Times(children \o <<<<"released", o>>>> \o rest, e)
                     = Times(children, e) + Times(<<<<"released", o>>>>, e) + Times(rest, e)
    <3> DEFINE T == Calls \X (Objects \cup {Null})
               call == <<"released", o>>
    <3>1. children \in Seq(T) /\ call \in T /\ rest \in Seq(T)
      BY <1>0, <1>3, <2>1
    <3> HIDE DEF T, call
    <3>2. /\ children \o <<call>> \o rest \in Seq(T)
          /\ \A e : Has(children \o <<call>> \o rest, e) <=> Has(children, e) \/ e = call \/ Has(rest, e)
          /\ \A e : Times(children \o <<call>> \o rest, e)
                       = Times(children, e) + Times(<<call>>, e) + Times(rest, e)
      BY <3>1, Pushed
    <3>3. QED
      BY <3>2 DEF T, call
  <2>3. work' = children \o <<<<"released", o>>>> \o rest
    BY <1>0
  <2>4. QED
    BY <2>2, <2>3
<1>5. /\ rc[o] = 1 /\ refs[o] = 0 /\ Pointers(o) = 0
      /\ ~Has(decrements, o)
      /\ ~Has(rest, <<"removeReferenceReal", o>>) /\ ~Has(rest, <<"cyclicDecrement", o>>)
  <2>0. CollectorTypeOK /\ CountInv
    OBVIOUS
  <2>2. Times(increments, o) = 0
    <3>1. increments \in Seq(Objects) /\ ~Has(increments, o)
      BY <1>0, HasNone
    <3>2. QED
      BY <3>1, HasTimes
  <2>3. /\ Owed(o) = Times(rest, <<"removeReferenceReal", o>>)
                       + Times(rest, <<"cyclicDecrement", o>>) + 1
        /\ Times(rest, <<"removeReferenceReal", o>>) \in Nat
        /\ Times(rest, <<"cyclicDecrement", o>>) \in Nat
    <3>1. work \in Seq(Calls \X (Objects \cup {Null}))
      BY DEF CollectorTypeOK
    <3>2. /\ Times(work, <<"removeReferenceReal", o>>) = Times(rest, <<"removeReferenceReal", o>>) + 1
          /\ Times(work, <<"cyclicDecrement", o>>) = Times(rest, <<"cyclicDecrement", o>>)
          /\ Times(rest, <<"removeReferenceReal", o>>) \in Nat
          /\ Times(rest, <<"cyclicDecrement", o>>) \in Nat
      BY <3>1, TimesShorter
    <3> HIDE DEF CollectorIInv, rest
    <3>3. QED
      BY <3>2, Z3 DEF Owed
  <2>4. /\ rc[o] = 1 /\ refs[o] = 0 /\ Pointers(o) = 0 /\ Times(decrements, o) = 0
        /\ Times(rest, <<"removeReferenceReal", o>>) = 0
        /\ Times(rest, <<"cyclicDecrement", o>>) = 0
    <3> HIDE DEF CollectorIInv, rest
    <3>1. QED
      BY <1>1, <2>0, <2>2, <2>3, LastReference
  <2>5. decrements \in Seq(Objects)
    BY DEF CollectorTypeOK
  <2>6. QED
    BY <1>0, <2>4, <2>5, HasTimes
<1>6. \A p \in Objects, i \in Fields : field[p][i] = o => p \in discounted
  <2>1. PointersIn(field, Objects \ discounted, o) = 0
    BY <1>5, PointersHere
  <2>2. \A p \in Objects \ discounted, i \in Fields : field[p][i] # o
    BY <2>1, PointersZero
  <2>3. QED
    BY <2>2
<1>7. /\ rc' \in [Objects -> Int] /\ rc'[o] = 0
      /\ \A p \in Objects : p # o => rc'[p] = rc[p]
  <2>1. rc \in [Objects -> Int]
    BY DEF CollectorTypeOK
  <2>2. rc[o] - 1 = 0
    BY <1>5
  <2>3. QED
    BY <1>0, <2>1, <2>2
<1> HIDE DEF rest
<1>8. CollectorTypeOK'
  <2>1. discounted' \subseteq Objects \ fresh
    BY <1>0, <1>1 DEF CollectorTypeOK, Allocated
  <2>2. QED
    BY <1>0, <1>4, <1>7, <2>1 DEF CollectorTypeOK, Allocated
<1>9. PhaseInv'
  BY <1>0, <1>3, <1>4 DEF PhaseInv, Judging, CallsOf
<1>10. FreshInv'
  <2>1. \A p \in fresh : p \in Objects /\ p # o
    BY <1>1 DEF CollectorTypeOK
  <2>2. \A p \in fresh : rc'[p] = 0
    BY <1>7, <2>1 DEF FreshInv
  <2>3. ASSUME NEW p \in fresh, NEW c \in Calls
        PROVE  ~Has(work', <<c, p>>)
    <3>1. ~Has(children, <<c, p>>)
      BY <1>3, <2>1 DEF FreshInv
    <3>2. <<c, p>> # <<"released", o>>
      BY <2>1
    <3>3. ~Has(rest, <<c, p>>)
      BY <1>0 DEF FreshInv
    <3>4. QED
      BY <1>4, <3>1, <3>2, <3>3
  <2>4. \A j, k, p : Holds(j, k, p)' <=> Holds(j, k, p)
    BY <1>0 DEF Holds
  <2>5. QED
    BY <1>0, <2>2, <2>3, <2>4 DEF FreshInv
<1>11. DeadInv'
  <2>1. DeadUnheld'
    BY <1>0, <1>1, <1>2, <1>5, HasNone DEF DeadUnheld
  <2>2. DeadPointers'
    BY <1>0, <1>2, <1>6 DEF DeadPointers
  <2>3. DeadCalls'
    <3>1. \A i \in Fields : field[o][i] # o /\ field[o][i] \notin Dead
      BY <1>1, <1>6 DEF DeadPointers, Dead, Gone
    <3>2. ASSUME NEW p
          PROVE  /\ Has(work', <<"removeReferenceReal", p>>) => p \notin Dead'
                 /\ Has(work', <<"markChild", p>>) => p \notin Dead'
                 /\ Has(work', <<"cyclicDecrement", p>>) => p \notin Gone'
                 /\ Has(work', <<"released", p>>) => p \in discounted' \ Doomed'
      <4>1. /\ Has(work, <<"removeReferenceReal", p>>) => p \notin Dead
            /\ Has(work, <<"markChild", p>>) => p \notin Dead
            /\ Has(work, <<"cyclicDecrement", p>>) => p \notin Gone
            /\ Has(work, <<"released", p>>) => p \in discounted \ Doomed
        BY DEF DeadCalls
      <4>2. Has(children, <<"removeReferenceReal", p>>) => p \notin Dead /\ p # o
        BY <1>3, <3>1
      <4>3. /\ ~Has(children, <<"markChild", p>>)
            /\ ~Has(children, <<"cyclicDecrement", p>>)
            /\ ~Has(children, <<"released", p>>)
        BY <1>3
      <4>4. \A c : Has(rest, <<c, p>>) => Has(work, <<c, p>>)
        BY <1>0
      <4>5. ~Has(rest, <<"markChild", p>>)
        <5>1. Has(work, <<"markChild", p>>) => "markChild" \in CallsOf(phase)
          BY DEF PhaseInv, Calls
        <5>2. QED
          BY <1>0, <4>4, <5>1 DEF CallsOf
      <4>6. /\ Has(rest, <<"removeReferenceReal", p>>) => p # o
            /\ Has(rest, <<"cyclicDecrement", p>>) => p # o
        BY <1>5
      <4>7. \A c : c # "released" => (Has(work', <<c, p>>) <=> Has(children, <<c, p>>) \/ Has(rest, <<c, p>>))
        BY <1>4
      <4>8. Has(work', <<"released", p>>) => p = o \/ Has(rest, <<"released", p>>)
        BY <1>4, <4>3
      <4> HIDE DEF CollectorIInv
      <4>9. /\ Has(work', <<"removeReferenceReal", p>>) => p \notin Dead'
            /\ Has(work', <<"cyclicDecrement", p>>) => p \notin Gone'
        BY <1>2, <4>1, <4>2, <4>3, <4>4, <4>6, <4>7
      <4>10. Has(work', <<"released", p>>) => p \in discounted' \ Doomed'
        BY <1>0, <1>1, <1>2, <4>1, <4>4, <4>8
      <4>11. ~Has(work', <<"markChild", p>>)
        BY <4>3, <4>5, <4>7
      <4>12. QED
        BY <4>9, <4>10, <4>11
    <3>3. QED
      BY <3>2 DEF DeadCalls
  <2>4. DeadCounts'
    BY <1>0, <1>2, <1>7 DEF DeadCounts, CollectorTypeOK, Allocated
  <2>5. UnlinkInv'
    <3>1. phase = "unlink" => \A k \in 1..Len(cycles[index]) : cycles[index][k] # o
      <4>1. phase = "unlink" => cycles[index] \in Seq(Objects)
        BY DEF CollectorTypeOK, PhaseInv, Judging
      <4>2. phase = "unlink" => o \notin Range(cycles[index])
        BY <1>1 DEF Doomed
      <4>3. QED
        BY <4>1, <4>2, RangeOf
    <3>2. QED
      BY <1>0, <1>2, <3>1 DEF UnlinkInv
  <2>6. QED
    BY <2>1, <2>2, <2>3, <2>4, <2>5
<1>12. CountInv'
  <2>1. ASSUME NEW p \in Objects \ Dead, p # o
        PROVE  Balanced(p)'
    <3>1. /\ rc[p] + Times(increments, p) - Times(decrements, p) - Owed(p) = refs[p] + Pointers(p)
          /\ rc[p] \in Int /\ refs[p] \in Int /\ Times(increments, p) \in Int
          /\ Times(decrements, p) \in Int /\ Owed(p) \in Int /\ Pointers(p) \in Int
      BY BalancedNow
    <3>2. /\ refs'[p] = refs[p] /\ Times(increments', p) = Times(increments, p)
          /\ rc'[p] = rc[p] /\ Times(decrements', p) = Times(decrements, p)
      BY <1>0, <1>7, <2>1
    <3>3. /\ Pointers(p) = Pointers(p)' + Times(children, <<"removeReferenceReal", p>>)
          /\ Times(children, <<"removeReferenceReal", p>>) \in Int
          /\ Pointers(p)' \in Int
      <4>1. field \in Heaps /\ o \in Objects \ discounted /\ "removeReferenceReal" \in Calls
        BY <1>1 DEF CollectorTypeOK, Heaps, Calls
      <4>2. (Objects \ discounted) \in SUBSET Objects
        OBVIOUS
      <4>3. /\ Times(children, <<"removeReferenceReal", p>>) \in Nat
            /\ PointersIn(field, Objects \ discounted, p)
                 = PointersIn(field, (Objects \ discounted) \ {o}, p)
                   + Times(children, <<"removeReferenceReal", p>>)
        <5> HIDE DEF CollectorIInv
        <5>1. QED
          BY <4>1, <4>2, PointersSplit DEF children
      <4>4. (Objects \ discounted) \ {o} = Objects \ discounted' /\ field' = field
        BY <1>0
      <4>5. Pointers(p)' = PointersIn(field, (Objects \ discounted) \ {o}, p)
        BY <4>4, PointersThen
      <4>6. PointersIn(field, (Objects \ discounted) \ {o}, p) \in Nat
        BY PointersFinite
      <4>7. Pointers(p) = PointersIn(field, Objects \ discounted, p)
        BY PointersHere
      <4> HIDE DEF CollectorIInv
      <4>8. QED
        BY <4>3, <4>5, <4>6, <4>7, Z3
    <3>4. Owed(p)' = Owed(p) + Times(children, <<"removeReferenceReal", p>>)
      <4>1. work \in Seq(Calls \X (Objects \cup {Null}))
        BY DEF CollectorTypeOK
      <4>2. /\ Times(work, <<"removeReferenceReal", p>>) = Times(rest, <<"removeReferenceReal", p>>)
            /\ Times(work, <<"cyclicDecrement", p>>) = Times(rest, <<"cyclicDecrement", p>>)
        BY <2>1, <4>1, TimesShorter DEF rest
      <4>3. /\ Times(<<<<"released", o>>>>, <<"removeReferenceReal", p>>) = 0
            /\ Times(<<<<"released", o>>>>, <<"cyclicDecrement", p>>) = 0
        BY TimesOne
      <4>4. Times(children, <<"cyclicDecrement", p>>) = 0
        BY <1>3, HasTimes
      <4>5. /\ Times(work', <<"removeReferenceReal", p>>)
                 = Times(children, <<"removeReferenceReal", p>>) + 0
                   + Times(work, <<"removeReferenceReal", p>>)
            /\ Times(work', <<"cyclicDecrement", p>>)
                 = 0 + 0 + Times(work, <<"cyclicDecrement", p>>)
        BY <1>4, <4>2, <4>3, <4>4
      <4>6. /\ Times(work, <<"removeReferenceReal", p>>) \in Nat
            /\ Times(work, <<"cyclicDecrement", p>>) \in Nat
        BY TypesOfCounts
      <4> HIDE DEF CollectorIInv
      <4>7. QED
        BY <3>3, <4>5, <4>6, Z3 DEF Owed
    <3>5. QED
      <4> DEFINE x == Times(children, <<"removeReferenceReal", p>>)
      <4>1. x \in Int /\ Pointers(p) = Pointers(p)' + x /\ Owed(p)' = Owed(p) + x
        BY <3>3, <3>4
      <4>2. CollectorTypeOK /\ CountInv /\ p \in Objects \ Dead /\ Pointers(p)' \in Int
        BY <3>3
      <4> HIDE DEF CollectorIInv, x
      <4>3. QED
        BY <3>2, <4>1, <4>2, BalancedSpread
  <2>2. QED
    BY <1>2, <2>1 DEF CountInv
<1>13. ColorInv'
  <2>1. RedInv' /\ RootColors'
    BY <1>0, <1>2 DEF RedInv, RootColors
  <2>2. PaleInv'
    BY <1>0, <1>2, <1>4 DEF PaleInv
  <2>3. QED
    BY <2>1, <2>2
<1>14. OrangeInv' /\ CyclicInv'
  <2>1. \A p \in Objects : color'[p] = "ORANGE" => color[p] = "ORANGE"
    BY <1>0
  <2>2. \A p \in Objects : Quiet(p)' => Quiet(p) /\ p # o
    BY <1>0, <1>4 DEF Quiet
  <2>3. \A p \in Objects : color'[p] = "ORANGE" /\ Quiet(p)' =>
                              Quiet(p) /\ crc'[p] - crc[p] = rc'[p] - rc[p]
    BY <1>0, <1>7, <2>2 DEF CollectorTypeOK
  <2>4. UNCHANGED <<field, cycles, loops>>
    BY <1>0 DEF loops
  <2>5. QED
    BY <1>0, <1>8, <2>1, <2>3, <2>4, CandidatesKeep
<1>15. SeenInv'
  BY <1>0, <1>2 DEF SeenInv, Holds, Waits
<1>16. QED
  BY <1>8, <1>9, <1>10, <1>11, <1>12, <1>13, <1>14, <1>15

LEMMA AddOne ==
  ASSUME NEW a \in Nat, NEW b \in Nat
  PROVE  (a + 1) + b = (a + b) + 1 /\ a + (b + 1) = (a + b) + 1 /\ a + b \in Int
OBVIOUS

(* removeReferenceReal leaves references: the object may be the root of a cycle. *)
LEMMA RootKeeps ==
  ASSUME CollectorIInv, work # <<>>, NEW o \in Objects, Head(work) = <<"removeReferenceReal", o>>,
         rc' = [rc EXCEPT ![o] = @ - 1], AddPossibleCycleRoot(o), work' = Tail(work),
         UNCHANGED <<field, crc, cycles, freed, discounted, mutator, loops, misused>>
  PROVE  CollectorIInv'
<1> USE DEF CollectorIInv, DeadInv, ColorInv, OrangeInv
<1>0. /\ phase \in {"flush", "unlink"} /\ increments = <<>>
      /\ work' \in Seq(Calls \X (Objects \cup {Null}))
      /\ \A e : Has(work, e) <=> <<"removeReferenceReal", o>> = e \/ Has(work', e)
      /\ ScanBlack(o, "PURPLE")
      /\ buffered' = [buffered EXCEPT ![o] = TRUE]
      /\ roots' = IF buffered[o] THEN roots ELSE Append(roots, o)
      /\ UNCHANGED <<field, crc, cycles, freed, discounted, refs, fresh, epoch,
                     increments, decrements, phase, index, member, misused>>
  <2>1. /\ phase \in {"flush", "unlink"} /\ increments = <<>>
        /\ Tail(work) \in Seq(Calls \X (Objects \cup {Null}))
        /\ \A e : Has(work, e) <=> <<"removeReferenceReal", o>> = e \/ Has(Tail(work), e)
    <3>1. Head(work)[1] = "removeReferenceReal"
      OBVIOUS
    <3>2. "removeReferenceReal" \in CallsOf(phase)
      BY <3>1, NextCall
    <3>3. phase \in {"flush", "unlink"}
      BY <3>2 DEF CallsOf
    <3>4. QED
      BY <3>3, NextCall
  <2>2. QED
    BY <2>1 DEF AddPossibleCycleRoot, mutator, loops
<1>1. /\ o \notin Dead /\ o \notin fresh
      /\ Doomed' = Doomed /\ Dead' = Dead /\ Gone' = Gone /\ Dead \subseteq Objects
  <2>1. o \notin Dead /\ o \notin fresh
    BY <1>0 DEF DeadCalls, FreshInv, Calls
  <2>2. Doomed' = Doomed
    BY <1>0 DEF Doomed
  <2>3. QED
    BY <1>0, <2>1, <2>2, DeadAre DEF Dead, Gone
<1>2. /\ color' \in [Objects -> Colors]
      /\ color'[o] = "PURPLE"
      /\ \A p \in Objects : p # o => color'[p] = color[p] \/ color'[p] = "BLACK"
      /\ \A p \in Dead : color'[p] = color[p]
  BY <1>0, <1>1, Repainted
<1>3. /\ rc' \in [Objects -> Int] /\ rc'[o] = rc[o] - 1
      /\ \A p \in Objects : p # o => rc'[p] = rc[p]
  <2>1. rc \in [Objects -> Int]
    BY DEF CollectorTypeOK
  <2>2. rc[o] - 1 \in Int
    BY <2>1
  <2>3. QED
    BY <2>1, <2>2
<1>4. /\ buffered' \in [Objects -> BOOLEAN]
      /\ \A p \in Objects : p # o => buffered'[p] = buffered[p]
  BY <1>0 DEF CollectorTypeOK
<1>5. /\ roots' \in Seq(Objects)
      /\ \A p : Has(roots', p) => Has(roots, p) \/ p = o
      /\ \A p : Has(roots, p) => Has(roots', p) /\ p \in Objects
      /\ ~buffered[o] => Has(roots', o)
  <2>1. roots \in Seq(Objects)
    BY DEF CollectorTypeOK
  <2>2. \A p : Has(roots, p) => p \in Objects
    BY <2>1 DEF Has
  <2>3. CASE buffered[o]
    BY <1>0, <2>1, <2>2, <2>3
  <2>4. CASE ~buffered[o]
    <3>1. roots' = Append(roots, o)
      BY <1>0, <2>4
    <3>2. \A p : Has(Append(roots, o), p) <=> Has(roots, p) \/ o = p
      BY <2>1, HasAppend
    <3>3. QED
      BY <2>1, <2>2, <3>1, <3>2
  <2>5. QED
    BY <2>3, <2>4
<1>6. CollectorTypeOK'
  BY <1>0, <1>2, <1>3, <1>4, <1>5 DEF CollectorTypeOK, Allocated
<1>7. PhaseInv'
  BY <1>0 DEF PhaseInv, Judging
<1>8. FreshInv'
  <2>1. \A p \in fresh : p \in Objects /\ p # o
    BY <1>1 DEF CollectorTypeOK
  <2>2. \A p \in fresh : rc'[p] = 0 /\ ~Has(roots', p)
    BY <1>3, <1>5, <2>1 DEF FreshInv
  <2>3. QED
    BY <1>0, <2>2, FreshSame DEF mutator
<1>9. DeadInv'
  <2>1. DeadUnheld' /\ DeadPointers' /\ DeadCalls' /\ UnlinkInv'
    BY <1>0, <1>1 DEF DeadUnheld, DeadPointers, DeadCalls, UnlinkInv
  <2>2. DeadCounts'
    BY <1>0, <1>1, <1>3 DEF DeadCounts, Dead
  <2>3. QED
    BY <2>1, <2>2
<1>10. CountInv'
  <2>1. ASSUME NEW p \in Objects \ Dead
        PROVE  Balanced(p)'
    <3>1. work \in Seq(Calls \X (Objects \cup {Null}))
      BY DEF CollectorTypeOK
    <3>2. Pointers(p)' = Pointers(p)
      BY <1>0, PointersHere, PointersThen
    <3>3. /\ refs'[p] = refs[p] /\ Times(increments', p) = Times(increments, p)
          /\ Times(decrements', p) = Times(decrements, p)
      BY <1>0
    <3>4. Times(work', <<"cyclicDecrement", p>>) = Times(work, <<"cyclicDecrement", p>>)
      BY <3>1, TimesShorter
    <3>5. CASE p = o
      <4>1. Times(work, <<"removeReferenceReal", p>>) = Times(work', <<"removeReferenceReal", p>>) + 1
        BY <3>1, <3>5, TimesShorter
      <4>a. Times(work', <<"removeReferenceReal", p>>) \in Nat
        BY <3>1, TimesShorter
      <4>b. Times(work', <<"cyclicDecrement", p>>) \in Nat
        BY <3>1, TimesShorter
      <4>2. Owed(p) = Owed(p)' + 1 /\ Owed(p)' \in Int
        <5>1. Owed(p)' = Times(work', <<"removeReferenceReal", p>>) + Times(work', <<"cyclicDecrement", p>>)
          BY DEF Owed
        <5>2. Owed(p) = (Times(work', <<"removeReferenceReal", p>>) + 1)
                            + Times(work', <<"cyclicDecrement", p>>)
          BY <3>4, <4>1 DEF Owed
        <5> HIDE DEF CollectorIInv
        <5>3. QED
          BY <5>1, <5>2, <4>a, <4>b, AddOne
      <4>3. rc'[p] = rc[p] - 1
        BY <1>3, <3>5
      <4>4. QED
        BY <3>2, <3>3, <4>2, <4>3, BalancedRemoved
    <3>6. CASE p # o
      <4>1. Times(work, <<"removeReferenceReal", p>>) = Times(work', <<"removeReferenceReal", p>>)
        BY <3>1, <3>6, TimesShorter
      <4>2. Owed(p)' = Owed(p)
        BY <3>4, <4>1 DEF Owed
      <4>3. rc'[p] = rc[p]
        BY <1>3, <3>6
      <4>4. Balanced(p)
        BY DEF CountInv
      <4>5. QED
        BY <3>2, <3>3, <4>2, <4>3, <4>4 DEF Balanced
    <3>7. QED
      BY <3>5, <3>6
  <2>2. QED
    BY <1>1, <2>1 DEF CountInv
<1>11. ColorInv'
  <2>1. RedInv'
    BY <1>0, <1>1, <1>2 DEF RedInv, Dead
  <2>2. PaleInv'
    BY <1>0, <1>1, <1>2 DEF PaleInv
  <2>3. RootColors'
    BY <1>0, <1>2, <1>5 DEF RootColors
  <2>4. QED
    BY <2>1, <2>2, <2>3
<1>12. OrangeInv' /\ CyclicInv'
  <2>1. \A p \in Objects : color'[p] = "ORANGE" => color[p] = "ORANGE" /\ p # o
    BY <1>2
  <2>2. \A p \in Objects : p # o /\ Quiet(p)' => Quiet(p)
    BY <1>0 DEF Quiet
  <2>3. \A p \in Objects : color'[p] = "ORANGE" /\ Quiet(p)' =>
                              Quiet(p) /\ crc'[p] - crc[p] = rc'[p] - rc[p]
    BY <1>0, <1>3, <2>1, <2>2 DEF CollectorTypeOK
  <2>4. UNCHANGED <<field, cycles, loops>>
    BY <1>0 DEF loops
  <2>5. QED
    BY <1>0, <1>6, <2>1, <2>3, <2>4, CandidatesKeep
<1>13. SeenInv'
  <2>1. \A j, k : \A p : (Holds(j, k, p)' <=> Holds(j, k, p)) /\ (Waits(j, k)' <=> Waits(j, k))
    BY <1>0 DEF Holds, Waits
  <2>2. ASSUME NEW p \in Objects \ freed, buffered'[p] \/ color'[p] = "PURPLE"
        PROVE  Has(roots', p) \/ \E j, k \in Nat : Holds(j, k, p) /\ (Waits(j, k) \/ p \in Doomed)
    <3>1. CASE p = o /\ ~buffered[o]
      BY <1>5, <3>1
    <3>2. CASE ~(p = o /\ ~buffered[o])
      <4>1. buffered[p] \/ color[p] = "PURPLE"
        BY <1>2, <1>4, <2>2, <3>2
      <4>2. QED
        BY <1>5, <4>1 DEF SeenInv
    <3>3. QED
      BY <3>1, <3>2
  <2>3. freed' = freed /\ Doomed' = Doomed
    BY <1>0, <1>1
  <2>4. QED
    BY <1>0, <2>1, <2>2, <2>3 DEF SeenInv
<1>14. QED
  BY <1>6, <1>7, <1>8, <1>9, <1>10, <1>11, <1>12, <1>13

(* cyclicDecrement of a member of another candidate. *)
LEMMA OrangeDecrementKeeps ==
  ASSUME CollectorIInv, work # <<>>, NEW o \in Objects, Head(work) = <<"cyclicDecrement", o>>,
         color[o] = "ORANGE", rc' = [rc EXCEPT ![o] = @ - 1], crc' = [crc EXCEPT ![o] = @ - 1],
         work' = Tail(work),
         UNCHANGED <<field, color, buffered, roots, cycles, freed, discounted, mutator, loops, misused>>
  PROVE  CollectorIInv'
<1> USE DEF CollectorIInv, DeadInv, ColorInv, OrangeInv
<1>0. /\ phase = "unlink" /\ increments = <<>>
      /\ work' \in Seq(Calls \X (Objects \cup {Null}))
      /\ \A e : Has(work, e) <=> <<"cyclicDecrement", o>> = e \/ Has(work', e)
      /\ UNCHANGED <<field, color, buffered, roots, cycles, freed, discounted, refs, fresh, epoch,
                     increments, decrements, phase, index, member, misused>>
  <2>1. /\ phase = "unlink" /\ increments = <<>>
        /\ Tail(work) \in Seq(Calls \X (Objects \cup {Null}))
        /\ \A e : Has(work, e) <=> <<"cyclicDecrement", o>> = e \/ Has(Tail(work), e)
    BY NextCall DEF CallsOf
  <2>2. QED
    BY <2>1 DEF mutator, loops
<1>1. /\ o \notin Dead /\ o \notin fresh
      /\ Doomed' = Doomed /\ Dead' = Dead /\ Gone' = Gone /\ Dead \subseteq Objects
  <2>1. o \notin Gone /\ o \notin fresh
    BY <1>0 DEF DeadCalls, FreshInv, Calls
  <2>2. o \notin Doomed
    BY DEF RedInv
  <2>3. Doomed' = Doomed
    BY <1>0 DEF Doomed
  <2>4. QED
    BY <1>0, <2>1, <2>2, <2>3, DeadAre DEF Dead, Gone
<1>3. /\ rc' \in [Objects -> Int] /\ rc'[o] = rc[o] - 1 /\ rc[o] \in Int
      /\ crc' \in [Objects -> Int] /\ crc'[o] = crc[o] - 1 /\ crc[o] \in Int
      /\ \A p \in Objects : p # o => rc'[p] = rc[p] /\ crc'[p] = crc[p]
  <2>1. rc \in [Objects -> Int] /\ crc \in [Objects -> Int]
    BY DEF CollectorTypeOK
  <2>2. rc[o] - 1 \in Int /\ crc[o] - 1 \in Int
    BY <2>1
  <2>3. QED
    BY <2>1, <2>2
<1>6. CollectorTypeOK'
  BY <1>0, <1>3 DEF CollectorTypeOK, Allocated
<1>7. PhaseInv'
  BY <1>0 DEF PhaseInv, Judging
<1>8. FreshInv'
  <2>1. \A p \in fresh : p \in Objects /\ p # o
    BY <1>1 DEF CollectorTypeOK
  <2>2. \A p \in fresh : rc'[p] = 0
    BY <1>3, <2>1 DEF FreshInv
  <2>3. QED
    BY <1>0, <2>2 DEF FreshInv, Holds
<1>9. DeadInv'
  <2>1. DeadUnheld' /\ DeadPointers' /\ DeadCalls' /\ UnlinkInv'
    BY <1>0, <1>1 DEF DeadUnheld, DeadPointers, DeadCalls, UnlinkInv
  <2>2. DeadCounts'
    BY <1>0, <1>1, <1>3 DEF DeadCounts, Dead
  <2>3. QED
    BY <2>1, <2>2
<1>10. CountInv'
  <2>1. ASSUME NEW p \in Objects \ Dead
        PROVE  Balanced(p)'
    <3>1. work \in Seq(Calls \X (Objects \cup {Null}))
      BY DEF CollectorTypeOK
    <3>2. Pointers(p)' = Pointers(p)
      BY <1>0, PointersHere, PointersThen
    <3>3. /\ refs'[p] = refs[p] /\ Times(increments', p) = Times(increments, p)
          /\ Times(decrements', p) = Times(decrements, p)
      BY <1>0
    <3>4. Times(work', <<"removeReferenceReal", p>>) = Times(work, <<"removeReferenceReal", p>>)
      BY <3>1, TimesShorter
    <3>5. CASE p = o
      <4>1. Times(work, <<"cyclicDecrement", p>>) = Times(work', <<"cyclicDecrement", p>>) + 1
        BY <3>1, <3>5, TimesShorter
      <4>a. Times(work', <<"removeReferenceReal", p>>) \in Nat
        BY <3>1, TimesShorter
      <4>b. Times(work', <<"cyclicDecrement", p>>) \in Nat
        BY <3>1, TimesShorter
      <4>2. Owed(p) = Owed(p)' + 1 /\ Owed(p)' \in Int
        <5>1. Owed(p)' = Times(work', <<"removeReferenceReal", p>>) + Times(work', <<"cyclicDecrement", p>>)
          BY DEF Owed
        <5>2. Owed(p) = Times(work', <<"removeReferenceReal", p>>)
                            + (Times(work', <<"cyclicDecrement", p>>) + 1)
          BY <3>4, <4>1 DEF Owed
        <5> HIDE DEF CollectorIInv
        <5>3. QED
          BY <5>1, <5>2, <4>a, <4>b, AddOne
      <4>3. rc'[p] = rc[p] - 1
        BY <1>3, <3>5
      <4>4. QED
        BY <3>2, <3>3, <4>2, <4>3, BalancedRemoved
    <3>6. CASE p # o
      <4>1. Times(work, <<"cyclicDecrement", p>>) = Times(work', <<"cyclicDecrement", p>>)
        BY <3>1, <3>6, TimesShorter
      <4>2. Owed(p)' = Owed(p)
        BY <3>4, <4>1 DEF Owed
      <4>3. rc'[p] = rc[p]
        BY <1>3, <3>6
      <4>4. Balanced(p)
        BY DEF CountInv
      <4>5. QED
        BY <3>2, <3>3, <4>2, <4>3, <4>4 DEF Balanced
    <3>7. QED
      BY <3>5, <3>6
  <2>2. QED
    BY <1>1, <2>1 DEF CountInv
<1>11. ColorInv'
  BY <1>0, <1>1 DEF RedInv, PaleInv, RootColors
<1>12. OrangeInv' /\ CyclicInv'
  <2>1. \A p \in Objects : color'[p] = "ORANGE" => color[p] = "ORANGE"
    BY <1>0
  <2>2. \A p \in Objects : Quiet(p)' => Quiet(p)
    BY <1>0 DEF Quiet
  <2>3. ASSUME NEW p \in Objects
        PROVE  crc'[p] - crc[p] = rc'[p] - rc[p]
    <3>1. CASE p = o
      BY <1>3, <3>1
    <3>2. CASE p # o
      <4>1. crc'[p] = crc[p] /\ rc'[p] = rc[p] /\ crc[p] \in Int /\ rc[p] \in Int
        BY <1>3, <3>2 DEF CollectorTypeOK
      <4>2. QED
        BY <4>1
    <3>3. QED
      BY <3>1, <3>2
  <2>4. \A p \in Objects : color'[p] = "ORANGE" /\ Quiet(p)' =>
                              Quiet(p) /\ crc'[p] - crc[p] = rc'[p] - rc[p]
    BY <2>2, <2>3
  <2>5. UNCHANGED <<field, cycles, loops>>
    BY <1>0 DEF loops
  <2>6. QED
    BY <1>0, <1>6, <2>1, <2>4, <2>5, CandidatesKeep
<1>13. SeenInv'
  BY <1>0, <1>1 DEF SeenInv, Holds, Waits
<1>14. QED
  BY <1>6, <1>7, <1>8, <1>9, <1>10, <1>11, <1>12, <1>13

(* cyclicDecrement of an object outside of every candidate. *)
LEMMA OutsideDecrementKeeps ==
  ASSUME CollectorIInv, work # <<>>, NEW o \in Objects, Head(work) = <<"cyclicDecrement", o>>,
         color[o] \notin {"RED", "ORANGE"},
         work' = <<<<"removeReferenceReal", o>>>> \o Tail(work),
         UNCHANGED <<objects, mutator, loops, misused>>
  PROVE  CollectorIInv'
<1> DEFINE rest == Tail(work)
           call == <<"removeReferenceReal", o>>
<1> USE DEF CollectorIInv, DeadInv, ColorInv, OrangeInv
<1>0. /\ phase = "unlink" /\ increments = <<>>
      /\ rest \in Seq(Calls \X (Objects \cup {Null}))
      /\ \A e : Has(work, e) <=> <<"cyclicDecrement", o>> = e \/ Has(rest, e)
      /\ UNCHANGED <<field, rc, crc, color, buffered, roots, cycles, freed, discounted, refs, fresh,
                     epoch, increments, decrements, phase, index, member, misused>>
  <2>1. /\ phase = "unlink" /\ increments = <<>>
        /\ Tail(work) \in Seq(Calls \X (Objects \cup {Null}))
        /\ \A e : Has(work, e) <=> <<"cyclicDecrement", o>> = e \/ Has(Tail(work), e)
    BY NextCall DEF CallsOf
  <2>2. QED
    BY <2>1 DEF mutator, loops, objects
<1>1. /\ o \notin Dead /\ o \notin fresh
      /\ Doomed' = Doomed /\ Dead' = Dead /\ Gone' = Gone /\ Dead \subseteq Objects
  <2>1. o \notin Gone /\ o \notin fresh
    BY <1>0 DEF DeadCalls, FreshInv, Calls
  <2>2. o \notin Doomed
    BY DEF RedInv
  <2>3. Doomed' = Doomed
    BY <1>0 DEF Doomed
  <2>4. QED
    BY <1>0, <2>1, <2>2, <2>3, DeadAre DEF Dead, Gone
<1>2. /\ work' \in Seq(Calls \X (Objects \cup {Null}))
      /\ \A e : Has(work', e) <=> e = call \/ Has(rest, e)
      /\ \A e : Times(work', e) = Times(<<call>>, e) + Times(rest, e)
  <2>1. <<call>> \in Seq(Calls \X (Objects \cup {Null})) /\ work' = <<call>> \o rest
    BY DEF Calls
  <2> HIDE DEF call, rest, CollectorIInv
  <2>a. <<call>> \o rest \in Seq(Calls \X (Objects \cup {Null}))
    BY <1>0, <2>1
  <2>b. \A e : Has(<<call>> \o rest, e) <=> Has(<<call>>, e) \/ Has(rest, e)
    <3>1. rest \in Seq(Calls \X (Objects \cup {Null}))
      BY <1>0
    <3>2. <<call>> \in Seq(Calls \X (Objects \cup {Null}))
      BY <2>1
    <3>3. QED
      BY <3>1, <3>2, HasConcat
  <2>2. \A e : Times(<<call>> \o rest, e) = Times(<<call>>, e) + Times(rest, e)
    BY <1>0, <2>1, TimesConcat
  <2>3. \A e : Has(<<call>>, e) <=> call = e
    BY HasOne
  <2>4. QED
    BY <2>1, <2>a, <2>b, <2>2, <2>3
<1>6. CollectorTypeOK'
  BY <1>0, <1>2 DEF CollectorTypeOK, Allocated
<1>7. PhaseInv'
  BY <1>0, <1>2 DEF PhaseInv, Judging, CallsOf
<1>8. FreshInv'
  <2>1. \A p \in fresh : p # o
    BY <1>1
  <2>2. \A p \in fresh, c \in Calls : ~Has(work', <<c, p>>)
    BY <1>0, <1>2, <2>1 DEF FreshInv
  <2>3. \A j, k, p : Holds(j, k, p)' <=> Holds(j, k, p)
    BY <1>0 DEF Holds
  <2>4. \A p \in fresh : /\ refs[p] = 0 /\ rc[p] = 0
                         /\ ~Has(increments, p) /\ ~Has(decrements, p) /\ ~Has(roots, p)
                         /\ \A j, k \in Nat : ~Holds(j, k, p)
                         /\ \A q \in Objects, i \in Fields : field[q][i] # p
    BY DEF FreshInv
  <2> HIDE DEF CollectorIInv
  <2>5. QED
    BY <1>0, <2>2, <2>3, <2>4 DEF FreshInv
<1>9. DeadInv'
  BY <1>0, <1>1, <1>2 DEF DeadUnheld, DeadPointers, DeadCalls, DeadCounts, UnlinkInv
<1>10. CountInv'
  <2>1. ASSUME NEW p \in Objects \ Dead
        PROVE  Balanced(p)'
    <3>1. work \in Seq(Calls \X (Objects \cup {Null}))
      BY DEF CollectorTypeOK
    <3>2. Pointers(p)' = Pointers(p)
      BY <1>0, PointersHere, PointersThen
    <3>3. /\ refs'[p] = refs[p] /\ Times(increments', p) = Times(increments, p)
          /\ Times(decrements', p) = Times(decrements, p) /\ rc'[p] = rc[p]
      BY <1>0
    <3>4. /\ Times(work, <<"removeReferenceReal", p>>) = Times(rest, <<"removeReferenceReal", p>>)
          /\ p # o => Times(work, <<"cyclicDecrement", p>>) = Times(rest, <<"cyclicDecrement", p>>)
          /\ p = o => Times(work, <<"cyclicDecrement", p>>) = Times(rest, <<"cyclicDecrement", p>>) + 1
          /\ Times(rest, <<"removeReferenceReal", p>>) \in Nat
          /\ Times(rest, <<"cyclicDecrement", p>>) \in Nat
      <4>1. <<"removeReferenceReal", p>> # Head(work) /\ (p # o => <<"cyclicDecrement", p>> # Head(work))
        OBVIOUS
      <4>2. /\ Times(work, Head(work)) = Times(rest, Head(work)) + 1
            /\ \A e : e # Head(work) => Times(work, e) = Times(rest, e)
            /\ \A e : Times(rest, e) \in Nat
        BY <3>1, TimesShorter
      <4> HIDE DEF rest
      <4>3. QED
        BY <4>1, <4>2
    <3>5. /\ p = o => Times(<<call>>, <<"removeReferenceReal", p>>) = 1
          /\ p # o => Times(<<call>>, <<"removeReferenceReal", p>>) = 0
          /\ Times(<<call>>, <<"cyclicDecrement", p>>) = 0
      BY TimesOne
    <3>6. /\ Times(work', <<"removeReferenceReal", p>>)
               = Times(<<call>>, <<"removeReferenceReal", p>>) + Times(rest, <<"removeReferenceReal", p>>)
          /\ Times(work', <<"cyclicDecrement", p>>)
               = Times(<<call>>, <<"cyclicDecrement", p>>) + Times(rest, <<"cyclicDecrement", p>>)
      BY <1>2
    <3>7. Owed(p)' = Owed(p)
      <4> HIDE DEF CollectorIInv, rest, call
      <4>1. CASE p = o
        <5> DEFINE a == Times(work, <<"removeReferenceReal", p>>)
                   b == Times(work, <<"cyclicDecrement", p>>)
                   c == Times(rest, <<"removeReferenceReal", p>>)
                   d == Times(rest, <<"cyclicDecrement", p>>)
        <5>1. a = c /\ b = d + 1 /\ c \in Nat /\ d \in Nat
          BY <3>4, <4>1
        <5>2. Times(work', <<"removeReferenceReal", p>>) = 1 + c
          BY <3>5, <3>6, <4>1
        <5>3. Times(work', <<"cyclicDecrement", p>>) = 0 + d
          BY <3>5, <3>6, <4>1
        <5>4. Owed(p) = a + b /\ Owed(p)' = (1 + c) + (0 + d)
          BY <5>2, <5>3 DEF Owed
        <5> HIDE DEF a, b, c, d
        <5>5. QED
          BY <5>1, <5>4
      <4>2. CASE p # o
        BY <3>4, <3>5, <3>6, <4>2, Z3 DEF Owed
      <4>3. QED
        BY <4>1, <4>2
    <3>8. Balanced(p)
      BY DEF CountInv
    <3>9. QED
      BY <3>2, <3>3, <3>7, <3>8 DEF Balanced
  <2>2. QED
    BY <1>1, <2>1 DEF CountInv
<1>11. ColorInv'
  BY <1>0, <1>1, <1>2 DEF RedInv, PaleInv, RootColors
<1>12. OrangeInv' /\ CyclicInv'
  <2>1. \A p \in Objects : color'[p] = "ORANGE" => color[p] = "ORANGE"
    BY <1>0
  <2>2. \A p \in Objects : Quiet(p)' => Quiet(p)
    BY <1>0, <1>2 DEF Quiet
  <2>3. \A p \in Objects : color'[p] = "ORANGE" /\ Quiet(p)' =>
                              Quiet(p) /\ crc'[p] - crc[p] = rc'[p] - rc[p]
    BY <1>0, <2>2 DEF CollectorTypeOK
  <2>5. UNCHANGED <<field, cycles, loops>>
    BY <1>0 DEF loops
  <2>6. QED
    BY <1>0, <1>6, <2>1, <2>3, <2>5, CandidatesKeep
<1>13. SeenInv'
  BY <1>0, <1>1 DEF SeenInv, Holds, Waits
<1>14. QED
  BY <1>6, <1>7, <1>8, <1>9, <1>10, <1>11, <1>12, <1>13

-------------------------------------------------------------------------------
(* The sum that the sigma test takes: CycleCollector.                      *)

(* A set of naturals that is not empty has a least member. *)
LEMMA LeastNumber ==
  ASSUME NEW S, S \subseteq Nat, S # {}
  PROVE  \E x \in S : \A y \in S : x <= y
<1>1. PICK x \in S : \A y \in S : ~ (<<y, x>> \in OpToRel(<, Nat))
  BY NatLessThanWellFounded, WFMin
<1>2. \A y \in S : ~ (y < x)
  BY <1>1 DEF OpToRel
<1>3. QED
  BY <1>2

(* Induction, with a set for the property. *)
LEMMA Induction ==
  ASSUME NEW n \in Nat, NEW P, 0 \in P, \A m \in 1..n : m - 1 \in P => m \in P
  PROVE  \A m \in 0..n : m \in P
<1> DEFINE Bad == (0..n) \ P
<1>1. ASSUME Bad # {}
      PROVE  FALSE
  <2>1. Bad \subseteq Nat
    OBVIOUS
  <2> HIDE DEF Bad
  <2>2. PICK m \in Bad : \A l \in Bad : m <= l
    BY <1>1, <2>1, LeastNumber
  <2>3. m \in 0..n /\ m \notin P /\ m # 0
    BY DEF Bad
  <2>4. m \in 1..n /\ m - 1 \in 0..n /\ ~ (m <= m - 1)
    BY <2>3
  <2>5. m - 1 \in P
    BY <2>2, <2>4 DEF Bad
  <2>6. QED
    BY <2>3, <2>4, <2>5
<1>2. QED
  BY <1>1

(* A function on 0..n that starts at a and goes on by step. *)
Goes(f, S, a, n, step) ==
  f \in [0..n -> S] /\ f[0] = a /\ \A k \in 1..n : f[k] = step[k][f[k - 1]]

(* Each function of numbers up to n that is defined by steps exists. *)
LEMMA Recursion ==
  ASSUME NEW S, NEW a \in S, NEW n \in Nat, NEW step \in [1..n -> [S -> S]]
  PROVE  \E f : Goes(f, S, a, n, step)
<1> DEFINE Upto(m, f) ==
             f \in [0..m -> S] /\ f[0] = a /\ \A k \in 1..m : f[k] = step[k][f[k - 1]]
           P == {m \in 0..n : \E f : Upto(m, f)}
<1>1. 0 \in P
  <2>1. Upto(0, [k \in 0..0 |-> a])
    OBVIOUS
  <2> HIDE DEF Upto
  <2>2. 0 \in 0..n
    OBVIOUS
  <2>3. QED
    BY <2>1, <2>2
<1>2. ASSUME NEW m \in 1..n, m - 1 \in P
      PROVE  m \in P
  <2>1. PICK f : Upto(m - 1, f)
    BY <1>2
  <2> DEFINE x == step[m][f[m - 1]]
             g == [k \in 0..m |-> IF k = m THEN x ELSE f[k]]
  <2>2. m - 1 \in 0..(m - 1) /\ m \in Nat /\ 0 \in 0..m /\ 0 # m
    OBVIOUS
  <2>3. x \in S
    <3>1. f[m - 1] \in S
      BY <2>1, <2>2
    <3>2. QED
      BY <3>1
  <2> HIDE DEF x
  <2>4. \A k \in 0..m : k = m \/ k \in 0..(m - 1)
    OBVIOUS
  <2>5. g \in [0..m -> S] /\ g[0] = a
    BY <2>1, <2>2, <2>3, <2>4
  <2>6. ASSUME NEW k \in 1..m
        PROVE  g[k] = step[k][g[k - 1]]
    <3>1. k - 1 \in 0..m /\ k - 1 # m /\ k \in 0..m
      OBVIOUS
    <3>2. g[k - 1] = f[k - 1]
      BY <3>1
    <3>3. CASE k = m
      BY <3>1, <3>2, <3>3 DEF x
    <3>4. CASE k # m
      <4>1. k \in 1..(m - 1)
        BY <3>4
      <4>2. f[k] = step[k][f[k - 1]] /\ g[k] = f[k]
        BY <2>1, <3>1, <3>4, <4>1
      <4>3. QED
        BY <3>2, <4>2
    <3>5. QED
      BY <3>3, <3>4
  <2>7. Upto(m, g)
    BY <2>5, <2>6
  <2>8. m \in 0..n
    OBVIOUS
  <2>9. QED
    BY <2>7, <2>8
<1> HIDE DEF P
<1>3. n \in P
  <2>1. \A m \in 0..n : m \in P
    BY <1>1, <1>2, Induction
  <2>2. QED
    BY <2>1
<1>4. QED
  BY <1>3 DEF P, Goes

(* A sum of naturals that is nothing has nothing to add. *)
LEMMA OnlyZeros ==
  ASSUME NEW cycle \in Seq(Objects), \A i \in 1..Len(cycle) : crc[cycle[i]] \in Nat,
         SigmaTest(cycle)
  PROVE  \A i \in 1..Len(cycle) : crc[cycle[i]] = 0
<1> DEFINE n == Len(cycle)
           Is(f) == f = [i \in 0..Len(cycle) |-> IF i = 0 THEN 0 ELSE f[i - 1] + crc[cycle[i]]]
           step == [k \in 1..n |-> [x \in Nat |-> x + crc[cycle[k]]]]
<1>0. n \in Nat
  OBVIOUS
<1>1. \A k \in 1..n : crc[cycle[k]] \in Nat
  OBVIOUS
<1>2. step \in [1..n -> [Nat -> Nat]]
  BY <1>1
<1>3. PICK f : Goes(f, Nat, 0, n, step)
  BY <1>0, <1>2, Recursion
<1>4. f \in [0..n -> Nat] /\ f[0] = 0 /\ \A i \in 1..n : f[i] = f[i - 1] + crc[cycle[i]]
  <2>1. \A k \in 1..n : k - 1 \in 0..n
    OBVIOUS
  <2>2. QED
    BY <1>3, <2>1 DEF Goes
<1>5. Is(f)
  <2> DEFINE g == [i \in 0..Len(cycle) |-> IF i = 0 THEN 0 ELSE f[i - 1] + crc[cycle[i]]]
  <2>1. \A k \in 0..n : k = 0 \/ k \in 1..n
    OBVIOUS
  <2>2. \A k \in 0..n : f[k] = g[k]
    BY <1>4, <2>1
  <2>3. g = [k \in 0..n |-> g[k]] /\ f = [k \in 0..n |-> f[k]]
    BY <1>4
  <2> HIDE DEF g
  <2>4. f = g
    BY <2>2, <2>3
  <2>5. QED
    BY <2>4 DEF g
<1> DEFINE N == CHOOSE sum : Is(sum)
<1>6. Is(N)
  <2> HIDE DEF Is
  <2>1. QED
    BY <1>5
<1>7. N[n] = 0
  BY DEF SigmaTest, ExternRefCount
<1>8. ASSUME NEW i \in 0..n
      PROVE  N[i] = IF i = 0 THEN 0 ELSE N[i - 1] + crc[cycle[i]]
  BY <1>6
<1> HIDE DEF N, Is, n
<1>9. ASSUME NEW k \in 1..n, crc[cycle[k]] # 0
      PROVE  FALSE
  <2> DEFINE P == {m \in 0..n : N[m] \in Nat /\ (m >= k => N[m] > 0)}
  <2>1. 0 \in P
    <3>1. 0 \in 0..n /\ N[0] = 0 /\ ~(0 >= k)
      BY <1>0, <1>8
    <3>2. QED
      BY <3>1
  <2>2. ASSUME NEW m \in 1..n, m - 1 \in P
        PROVE  m \in P
    <3>1. N[m - 1] \in Nat /\ m \in 0..n /\ m # 0
      BY <1>0, <2>2
    <3>2. N[m] = N[m - 1] + crc[cycle[m]]
      BY <1>8, <3>1
    <3>3. crc[cycle[m]] \in Nat
      BY <1>1
    <3>4. N[m] \in Nat /\ N[m] >= N[m - 1] /\ N[m] >= crc[cycle[m]]
      BY <3>1, <3>2, <3>3
    <3>5. m >= k => N[m] > 0
      <4>1. CASE m = k
        BY <1>9, <3>3, <3>4, <4>1
      <4>2. CASE m > k
        <5>1. N[m - 1] > 0
          BY <1>0, <2>2, <4>2
        <5>2. QED
          BY <3>1, <3>4, <5>1
      <4>3. QED
        BY <1>0, <4>1, <4>2
    <3>6. QED
      BY <3>1, <3>4, <3>5
  <2> HIDE DEF P
  <2>3. n \in P
    <3>1. \A m \in 0..n : m \in P
      BY <1>0, <2>1, <2>2, Induction
    <3>2. QED
      BY <1>0, <3>1
  <2>4. QED
    BY <1>0, <1>7, <2>3 DEF P
<1>10. QED
  BY <1>9 DEF n

-------------------------------------------------------------------------------
(* The candidates are judged: CycleCollector.                              *)

LEMMA OrangeAlive ==
  ASSUME CollectorIInv, work = <<>>, NEW o \in Objects, color[o] \in {"GRAY", "WHITE", "ORANGE"}
  PROVE  o \notin Dead
BY HasNone DEF CollectorIInv, ColorInv, PaleInv

LEMMA MembersAre ==
  ASSUME CollectorIInv, NEW j \in 1..Len(cycles)
  PROVE  /\ cycles[j] \in Seq(Objects)
         /\ Len(cycles[j]) \in Nat
         /\ Range(cycles[j]) \in SUBSET Objects
         /\ \A o : o \in Range(cycles[j]) <=> \E k \in 1..Len(cycles[j]) : cycles[j][k] = o
         /\ \A o : o \in Range(cycles[j]) <=> \E k \in Nat : Holds(j, k, o)
<1>1. cycles[j] \in Seq(Objects)
  BY DEF CollectorIInv, CollectorTypeOK
<1>2. \A o : o \in Range(cycles[j]) <=> \E k \in 1..Len(cycles[j]) : cycles[j][k] = o
  BY <1>1, RangeOf
<1>3. \A o : o \in Range(cycles[j]) <=> \E k \in Nat : Holds(j, k, o)
  BY <1>2 DEF Holds
<1>4. Range(cycles[j]) \in SUBSET Objects
  BY <1>1, <1>2
<1>5. QED
  BY <1>1, <1>2, <1>3, <1>4

(* When nothing is waiting to be applied. *)
LEMMA CountSettled ==
  ASSUME CollectorIInv, work = <<>>, increments = <<>>, decrements = <<>>, NEW o \in Objects \ Dead
  PROVE  /\ rc[o] = refs[o] + Pointers(o)
         /\ refs[o] \in Nat
         /\ Pointers(o) \in Nat
<1> USE DEF CollectorIInv
<1>1. rc[o] + Times(increments, o) - Times(decrements, o) - Owed(o) = refs[o] + Pointers(o)
  BY DEF CountInv, Balanced
<1>2. rc[o] \in Int
  BY TypesOfCounts
<1>3. refs[o] \in Nat
  BY TypesOfCounts
<1>4. Pointers(o) \in Nat
  BY TypesOfCounts
<1>5. Owed(o) = 0
  <2>1. ~Has(work, <<"removeReferenceReal", o>>) /\ ~Has(work, <<"cyclicDecrement", o>>)
    BY HasNone
  <2>2. QED
    BY <2>1, NothingOwed
<1>6. Times(increments, o) = 0 /\ Times(decrements, o) = 0
  <2>1. /\ increments \in Seq(Objects) /\ ~Has(increments, o)
        /\ decrements \in Seq(Objects) /\ ~Has(decrements, o)
    BY HasNone DEF CollectorTypeOK
  <2>2. QED
    BY <2>1, HasTimes
<1> HIDE DEF CollectorIInv
<1>7. rc[o] = refs[o] + Pointers(o)
  BY <1>1, <1>2, <1>3, <1>4, <1>5, <1>6
<1>8. QED
  BY <1>3, <1>4, <1>7

(* The references from inside a candidate are among all references. *)
LEMMA WithinAll ==
  ASSUME CollectorIInv, NEW j \in 1..Len(cycles), Range(cycles[j]) \cap discounted = {}, NEW o
  PROVE  /\ Within(j, o) \in Nat
         /\ Within(j, o) <= Pointers(o)
         /\ Within(j, o) = Pointers(o) =>
              \A p \in Objects, i \in Fields :
                field[p][i] = o => p \in discounted \cup Range(cycles[j])
<1> DEFINE S == Objects \ discounted
           R == Range(cycles[j])
<1>1. S \in SUBSET Objects /\ R \in SUBSET S /\ R \in SUBSET Objects
  BY MembersAre
<1>2. Within(j, o) = PointersIn(field, R, o) /\ Pointers(o) = PointersIn(field, S, o)
  BY PointersHere
<1> HIDE DEF R, S
<1>3. PointersIn(field, R, o) \in Nat
  BY <1>1, PointersFinite
<1>4. PointersIn(field, R, o) <= PointersIn(field, S, o)
  BY <1>1, PointersSubset
<1>5. PointersIn(field, R, o) = PointersIn(field, S, o)
        => \A p \in S, i \in Fields : field[p][i] = o => p \in R
  BY <1>1, PointersSubset
<1>6. QED
  BY <1>2, <1>3, <1>4, <1>5 DEF R, S

(* The arithmetic of a candidate that passes. *)
LEMMA OutsideCount ==
  ASSUME NEW a \in Nat, NEW b \in Nat, NEW w \in Nat, w <= b
  PROVE  /\ (a + b) - w \in Nat
         /\ (a + b) - w = 0 => a = 0 /\ w = b
OBVIOUS

LEMMA JudgePassKeeps ==
  ASSUME CollectorIInv, In("judge"), index > 0,
         DeltaTest(cycles[index]), SigmaTest(cycles[index]),
         color' = [o \in Objects |-> IF o \in Range(cycles[index]) THEN "RED" ELSE color[o]],
         Loop("unlink", index, 1),
         UNCHANGED <<field, rc, crc, buffered, roots, cycles, freed, discounted, work, mutator, misused>>
  PROVE  CollectorIInv'
<1> DEFINE R == Range(cycles[index])
<1> USE DEF CollectorIInv, DeadInv, ColorInv, OrangeInv
<1>0. /\ phase = "judge" /\ phase' = "unlink" /\ index' = index /\ member' = 1
      /\ work = <<>> /\ work' = <<>> /\ increments = <<>> /\ decrements = <<>>
      /\ index \in 1..Len(cycles) /\ index \in Nat
      /\ UNCHANGED <<field, rc, crc, buffered, roots, cycles, freed, discounted, refs, fresh, epoch,
                     increments, decrements, misused>>
  BY DEF In, Loop, mutator, PhaseInv, Judging, CollectorTypeOK
<1>1. /\ cycles[index] \in Seq(Objects)
      /\ Len(cycles[index]) \in Nat
      /\ R \in SUBSET Objects
      /\ \A o : o \in R <=> \E k \in 1..Len(cycles[index]) : cycles[index][k] = o
      /\ \A o : o \in R <=> \E k \in Nat : Holds(index, k, o)
  BY <1>0, MembersAre
<1>2. \A o \in R : color[o] = "ORANGE" /\ o \notin Dead /\ o \notin fresh
  <2>1. \A o \in R : color[o] = "ORANGE"
    BY <1>1 DEF DeltaTest
  <2>2. QED
    BY <1>0, <1>1, <2>1, OrangeAlive DEF FreshInv
<1>3. /\ Doomed = {} /\ Doomed' = R /\ Gone' = Gone /\ Dead' = Dead \cup R /\ Gone = Dead
  BY <1>0, <1>2 DEF Doomed, Gone, Dead
<1>4. \A o \in R : /\ refs[o] = 0
                   /\ \A p \in Objects, i \in Fields : field[p][i] = o => p \in discounted \cup R
  <2>1. R \cap discounted = {}
    BY <1>2 DEF Dead
  <2>2. ASSUME NEW o \in R
        PROVE  /\ crc[o] \in Nat
               /\ crc[o] = 0 => refs[o] = 0 /\ Within(index, o) = Pointers(o)
    <3>1. o \in Objects \ Dead /\ color[o] = "ORANGE"
      BY <1>1, <1>2
    <3>2. PICK k \in Nat : Holds(index, k, o)
      BY <1>1
    <3>3. Waits(index, k) /\ IsPrepared(index)
      BY <1>0 DEF Waits, IsPrepared
    <3>4. Quiet(o)
      BY <1>0, <3>1, HasNone DEF Quiet, Dead
    <3>5. crc[o] = rc[o] - Within(index, o)
      BY <1>0, <3>1, <3>2, <3>3, <3>4 DEF CyclicInv
    <3>6. rc[o] = refs[o] + Pointers(o) /\ refs[o] \in Nat /\ Pointers(o) \in Nat
      BY <1>0, <3>1, CountSettled
    <3>7. Within(index, o) \in Nat /\ Within(index, o) <= Pointers(o)
      BY <1>0, <2>1, WithinAll
    <3> HIDE DEF CollectorIInv
    <3> HIDE DEF CollectorIInv
    <3>8. DEFINE a == refs[o]
                 b == Pointers(o)
                 w == Within(index, o)
    <3>9. a \in Nat /\ b \in Nat /\ w \in Nat /\ w <= b /\ crc[o] = rc[o] - w /\ rc[o] = a + b
      BY <3>5, <3>6, <3>7
    <3> HIDE DEF a, b, w
    <3>10. (a + b) - w \in Nat /\ ((a + b) - w = 0 => a = 0 /\ w = b)
      BY <3>9, OutsideCount
    <3>11. crc[o] = (a + b) - w
      BY <3>9, Zenon
    <3>12. crc[o] \in Nat /\ (crc[o] = 0 => a = 0 /\ w = b)
      BY <3>10, <3>11, Zenon
    <3>13. QED
      BY <3>12, Zenon DEF a, b, w
  <2>3. \A i \in 1..Len(cycles[index]) : crc[cycles[index][i]] \in Nat
    BY <1>1, <2>2
  <2>4. \A i \in 1..Len(cycles[index]) : crc[cycles[index][i]] = 0
    BY <1>1, <2>3, OnlyZeros
  <2>5. ASSUME NEW o \in R
        PROVE  refs[o] = 0 /\ Within(index, o) = Pointers(o)
    <3>1. crc[o] = 0
      BY <1>1, <2>4
    <3>2. QED
      BY <2>2, <3>1
  <2>6. ASSUME NEW o \in R
        PROVE  \A p \in Objects, i \in Fields : field[p][i] = o => p \in discounted \cup R
    BY <1>0, <2>1, <2>5, WithinAll
  <2>7. QED
    BY <2>5, <2>6
<1> HIDE DEF R
<1>5. /\ \A o \in Objects : color'[o] = IF o \in R THEN "RED" ELSE color[o]
      /\ color' \in [Objects -> Colors]
  BY DEF CollectorTypeOK, Colors, R
<1>6. CollectorTypeOK'
  BY <1>0, <1>5 DEF CollectorTypeOK, Allocated, Phases
<1>7. PhaseInv'
  <2>1. index <= Len(cycles) /\ 1 <= Len(cycles[index]) + 1 /\ index > 0
    BY <1>0, <1>1
  <2>2. QED
    BY <1>0, <2>1, HasNone DEF PhaseInv, Judging
<1>8. FreshInv'
  BY <1>0, HasNone DEF FreshInv, Holds
<1>9. DeadInv'
  <2>1. DeadUnheld'
    BY <1>0, <1>2, <1>3, <1>4, HasNone DEF DeadUnheld
  <2>2. DeadPointers'
    BY <1>0, <1>3, <1>4 DEF DeadPointers
  <2>3. DeadCalls'
    BY <1>0, HasNone DEF DeadCalls
  <2>4. DeadCounts'
    BY <1>0, <1>3 DEF DeadCounts
  <2>5. UnlinkInv'
    <3>1. \A k \in 1..Len(cycles[index]) : ~(k < 1) /\ cycles[index][k] \notin discounted
      BY <1>1, <1>2 DEF Dead
    <3>2. R \cap freed = {}
      BY <1>2 DEF Dead
    <3>3. QED
      BY <1>0, <1>3, <3>1, <3>2 DEF UnlinkInv
  <2>6. QED
    BY <2>1, <2>2, <2>3, <2>4, <2>5
<1>10. CountInv'
  <2>1. ASSUME NEW p \in Objects \ Dead
        PROVE  Balanced(p)'
    <3>1. Balanced(p)
      BY DEF CountInv
    <3>2. Pointers(p)' = Pointers(p) /\ Owed(p)' = Owed(p)
      BY <1>0, PointersHere, PointersThen DEF Owed
    <3>3. QED
      BY <1>0, <3>1, <3>2 DEF Balanced
  <2>2. QED
    BY <1>3, <2>1 DEF CountInv
<1>11. ColorInv'
  <2>1. RedInv'
    BY <1>0, <1>1, <1>3, <1>5 DEF RedInv
  <2>2. PaleInv'
    BY <1>0, <1>1, <1>3, <1>5, DeadAre, HasNone DEF PaleInv
  <2>3. RootColors'
    <3>1. \A p : Has(roots, p) => p \in Objects
      BY RootsAre
    <3>2. QED
      BY <1>0, <1>5, <3>1 DEF RootColors, Judging
  <2>4. QED
    BY <2>1, <2>2, <2>3
<1>12. \A j, k \in Nat : \A o \in Objects :
         /\ Holds(j, k, o)' <=> Holds(j, k, o)
         /\ Waits(j, k)' <=> j < index
         /\ Waits(j, k) <=> j <= index
         /\ Holds(j, k, o) /\ Waits(j, k) /\ o \notin R => Waits(j, k)'
  BY <1>0, <1>1 DEF Holds, Waits
<1>13. OrangeInv'
  <2>1. Distinct'
    BY <1>12 DEF Distinct
  <2>2. OrangeOwned'
    BY <1>5, <1>12 DEF OrangeOwned
  <2>3. OrangeMembers'
    BY <1>0 DEF OrangeMembers
  <2>4. QED
    BY <2>1, <2>2, <2>3
<1>14. CyclicInv'
  <2>1. \A j, p : Within(j, p)' = Within(j, p)
    BY <1>0, PointersHere, PointersThen
  <2>2. \A p : Quiet(p)' <=> Quiet(p)
    BY <1>0 DEF Quiet
  <2>3. \A j : IsPrepared(j)
    BY <1>0 DEF IsPrepared
  <2>4. \A j, k \in Nat : Waits(j, k)' => Waits(j, k)
    BY <1>0 DEF Waits
  <2>5. \A o \in Objects : color'[o] = "ORANGE" => color[o] = "ORANGE"
    BY <1>5
  <2>6. QED
    BY <1>0, <1>12, <2>1, <2>2, <2>3, <2>4, <2>5 DEF CyclicInv
<1>15. SeenInv'
  <2>1. ASSUME NEW o \in Objects \ freed, buffered[o] \/ color'[o] = "PURPLE"
        PROVE  Has(roots, o) \/ \E j, k \in Nat : Holds(j, k, o) /\ (Waits(j, k)' \/ o \in R)
    <3>1. buffered[o] \/ color[o] = "PURPLE"
      BY <1>5, <2>1
    <3>2. Has(roots, o) \/ \E j, k \in Nat : Holds(j, k, o) /\ Waits(j, k)
      BY <1>3, <3>1 DEF SeenInv
    <3>3. QED
      BY <1>12, <3>2
  <2>2. QED
    BY <1>0, <1>3, <1>12, <2>1 DEF SeenInv
<1>16. QED
  BY <1>6, <1>7, <1>8, <1>9, <1>10, <1>11, <1>13, <1>14, <1>15

LEMMA JudgeFailKeeps ==
  ASSUME CollectorIInv, In("judge"), index > 0,
         Loop("refurbish", index, 1),
         UNCHANGED <<objects, work, mutator, misused>>
  PROVE  CollectorIInv'
<1> USE DEF In, Loop, CollectorIInv, DeadInv, ColorInv, OrangeInv
<1>0. index \in 1..Len(cycles) /\ index \in Nat /\ Len(cycles[index]) \in Nat
  <2>1. index \in 1..Len(cycles)
    BY DEF PhaseInv, Judging, CollectorTypeOK
  <2>2. QED
    BY <2>1, MembersAre
<1>1. CollectorTypeOK'
  BY DEF objects, mutator, CollectorTypeOK, Phases, Allocated
<1>2. PhaseInv'
  BY <1>0, HasNone DEF objects, mutator, PhaseInv, Judging
<1>3. /\ FreshInv' /\ DeadInv' /\ CountInv' /\ RedInv' /\ PaleInv' /\ Distinct'
      /\ \A j, o : Within(j, o)' = Within(j, o)
      /\ Doomed = {} /\ Doomed' = {}
  BY PhaseOnly DEF mutator
<1> USE DEF objects, mutator
<1>4. \A j, k \in Nat : \A o : Holds(j, k, o) => (Waits(j, k) <=> Waits(j, k)')
  BY <1>0 DEF Holds, Waits
<1>5. RootColors'
  BY DEF RootColors, PhaseInv, Judging
<1>6. OrangeOwned' /\ OrangeMembers'
  BY <1>4 DEF OrangeOwned, OrangeMembers, Holds
<1>7. CyclicInv'
  BY <1>3, <1>4 DEF CyclicInv, Holds, IsPrepared, Quiet
<1>8. SeenInv'
  BY <1>3, <1>4 DEF SeenInv, Holds
<1>9. QED
  BY <1>1, <1>2, <1>3, <1>5, <1>6, <1>7, <1>8

LEMMA JudgeKeeps ==
  ASSUME CollectorIInv, Judge, UNCHANGED misused
  PROVE  CollectorIInv'
<1>1. CASE DeltaTest(cycles[index]) /\ SigmaTest(cycles[index])
  BY <1>1, JudgePassKeeps DEF Judge
<1>2. CASE ~(DeltaTest(cycles[index]) /\ SigmaTest(cycles[index]))
  BY <1>2, JudgeFailKeeps DEF Judge, objects
<1>3. QED
  BY <1>1, <1>2

-------------------------------------------------------------------------------
(* The members of a candidate that passed are unlinked and freed.          *)

(* A step outside of the collection that leaves the candidates where they are *)
(* and changes none of those that stay ORANGE.                                 *)
LEMMA CandidatesAgree ==
  ASSUME OrangeInv, CyclicInv,
         phase \in {"run", "flush"} \cup Judging, phase' \in {"run", "flush"} \cup Judging,
         UNCHANGED <<field, cycles>>,
         \A p \in Objects : color'[p] = "ORANGE" => color[p] = "ORANGE",
         \A j, k \in Nat : \A p \in Objects :
           color'[p] = "ORANGE" /\ Holds(j, k, p) => (Waits(j, k)' <=> Waits(j, k)),
         \A p \in Objects : color'[p] = "ORANGE" /\ Quiet(p)' =>
                              Quiet(p) /\ crc'[p] = crc[p] /\ rc'[p] = rc[p]
  PROVE  OrangeInv' /\ CyclicInv'
<1>1. \A j, k, p : Holds(j, k, p)' <=> Holds(j, k, p)
  BY DEF Holds
<1>2. \A j, p : Within(j, p)' = Within(j, p)
  BY PointersHere, PointersThen
<1>3. \A j : IsPrepared(j) /\ IsPrepared(j)'
  BY DEF IsPrepared, Judging
<1>4. Distinct'
  BY <1>1 DEF OrangeInv, Distinct
<1>5. OrangeOwned'
  <2> SUFFICES ASSUME NEW p \in Objects, color'[p] = "ORANGE"
               PROVE  \E j, k \in Nat : Holds(j, k, p)' /\ Waits(j, k)'
    BY DEF OrangeOwned
  <2>1. PICK j \in Nat, k \in Nat : Holds(j, k, p) /\ Waits(j, k)
    BY DEF OrangeInv, OrangeOwned
  <2>2. Waits(j, k)' /\ Holds(j, k, p)'
    BY <1>1, <2>1
  <2>3. QED
    BY <2>2
<1>6. OrangeMembers'
  BY DEF OrangeMembers, Judging
<1>7. CyclicInv'
  <2> SUFFICES ASSUME NEW j \in Nat, NEW k \in Nat, NEW p \in Objects,
                      Holds(j, k, p)', Waits(j, k)', IsPrepared(j)', color'[p] = "ORANGE", Quiet(p)'
               PROVE  crc'[p] = rc'[p] - Within(j, p)'
    BY DEF CyclicInv
  <2>1. Holds(j, k, p) /\ Waits(j, k) /\ color[p] = "ORANGE" /\ Quiet(p)
        /\ crc'[p] = crc[p] /\ rc'[p] = rc[p]
    BY <1>1
  <2>2. crc[p] = rc[p] - Within(j, p)
    BY <1>3, <2>1 DEF CyclicInv
  <2>3. QED
    BY <1>2, <2>1, <2>2
<1>8. QED
  BY <1>4, <1>5, <1>6, <1>7 DEF OrangeInv

(* The cycle that is freed or refurbished. *)
LEMMA CurrentCycle ==
  ASSUME CollectorIInv, phase \in {"unlink", "refurbish"}
  PROVE  /\ index \in 1..Len(cycles) /\ index \in Nat /\ member \in Nat /\ member > 0
         /\ cycles[index] \in Seq(Objects)
         /\ Len(cycles[index]) \in Nat
         /\ \A o : o \in Range(cycles[index]) <=> \E k \in 1..Len(cycles[index]) : cycles[index][k] = o
         /\ \A k \in 1..Len(cycles[index]) : Holds(index, k, cycles[index][k])
         /\ \A k \in 1..Len(cycles[index]) : cycles[index][k] \in Objects
<1>1. index \in 1..Len(cycles) /\ index \in Nat /\ member \in Nat /\ member > 0
  BY DEF CollectorIInv, PhaseInv, Judging, CollectorTypeOK
<1>2. /\ cycles[index] \in Seq(Objects)
      /\ Len(cycles[index]) \in Nat
      /\ \A o : o \in Range(cycles[index]) <=> \E k \in 1..Len(cycles[index]) : cycles[index][k] = o
  BY <1>1, MembersAre
<1>3. QED
  BY <1>1, <1>2 DEF Holds

LEMMA UnlinkMemberKeeps ==
  ASSUME CollectorIInv, UnlinkMember, UNCHANGED misused
  PROVE  CollectorIInv'
<1> DEFINE o == cycles[index][member]
           children == ForEachChild("cyclicDecrement", o)
<1> USE DEF CollectorIInv, DeadInv, ColorInv, OrangeInv
<1>0. /\ phase = "unlink" /\ work = <<>> /\ increments = <<>> /\ decrements = <<>>
      /\ member <= Len(cycles[index])
      /\ discounted' = discounted \cup {o}
      /\ work' = children
      /\ member' = member + 1
      /\ UNCHANGED <<field, rc, crc, color, buffered, roots, cycles, freed, refs, fresh, epoch,
                     increments, decrements, phase, index, misused>>
  BY DEF UnlinkMember, In, Loop, mutator, PhaseInv
<1>1. /\ index \in 1..Len(cycles) /\ index \in Nat
      /\ cycles[index] \in Seq(Objects) /\ Len(cycles[index]) \in Nat
      /\ member \in 1..Len(cycles[index])
      /\ o \in Objects /\ o \in Doomed
      /\ \A k \in 1..Len(cycles[index]) : cycles[index][k] = o => k = member
  <2>1. /\ index \in 1..Len(cycles) /\ index \in Nat
        /\ cycles[index] \in Seq(Objects) /\ Len(cycles[index]) \in Nat
        /\ \A p : p \in Range(cycles[index]) <=> \E k \in 1..Len(cycles[index]) : cycles[index][k] = p
        /\ \A k \in 1..Len(cycles[index]) : Holds(index, k, cycles[index][k])
        /\ member \in Nat /\ member > 0
    BY <1>0, CurrentCycle
  <2>2. member \in 1..Len(cycles[index])
    BY <1>0, <2>1
  <2>3. o \in Objects /\ o \in Doomed
    BY <1>0, <2>1, <2>2 DEF Doomed
  <2>4. ASSUME NEW k \in 1..Len(cycles[index]), cycles[index][k] = o
        PROVE  k = member
    <3>1. Holds(index, k, o) /\ Holds(index, member, o) /\ k \in Nat /\ member \in Nat
      BY <2>1, <2>2, <2>4
    <3>2. QED
      BY <2>1, <2>3, <3>1 DEF Distinct
  <2>5. QED
    BY <2>1, <2>2, <2>3, <2>4
<1>2. /\ o \notin discounted /\ o \notin freed /\ o \notin Gone
      /\ Doomed' = Doomed /\ Dead' = Dead /\ Gone' = Gone
  <2>1. o \notin discounted /\ o \notin freed
    BY <1>0, <1>1 DEF UnlinkInv
  <2>2. QED
    BY <1>0, <1>1, <2>1 DEF Doomed, Dead, Gone
<1>3. /\ children \in Seq(Calls \X (Objects \cup {Null}))
      /\ \A c, p : Has(children, <<c, p>>)
                     <=> c = "cyclicDecrement" /\ \E i \in Fields : field[o][i] = p
  <2>1. field \in Heaps /\ "cyclicDecrement" \in Calls
    BY DEF CollectorTypeOK, Heaps, Calls
  <2>2. QED
    BY <1>1, <2>1, CallsType, HasCalls
<1> HIDE DEF children
<1>4. CollectorTypeOK'
  <2>1. discounted' \subseteq Objects \ fresh
    BY <1>0, <1>1, DeadAre DEF CollectorTypeOK, Allocated, DeadUnheld
  <2>2. member' \in Nat
    BY <1>0, <1>1
  <2>3. QED
    BY <1>0, <1>3, <2>1, <2>2 DEF CollectorTypeOK, Allocated
<1>5. PhaseInv'
  <2>1. member' > 0 /\ member' <= Len(cycles[index]) + 1 /\ index > 0
    BY <1>0, <1>1
  <2>2. QED
    BY <1>0, <1>3, <2>1 DEF PhaseInv, Judging, CallsOf
<1>6. FreshInv'
  <2>0. \A p \in fresh, i \in Fields : field[o][i] # p
    BY <1>1 DEF FreshInv
  <2>1. \A p \in fresh, c \in Calls : ~Has(children, <<c, p>>)
    BY <1>3, <2>0, Zenon
  <2>2. QED
    BY <1>0, <2>1 DEF FreshInv, Holds
<1>7. DeadInv'
  <2>1. DeadUnheld'
    BY <1>0, <1>2 DEF DeadUnheld
  <2>2. DeadPointers'
    BY <1>0, <1>2 DEF DeadPointers
  <2>3. DeadCalls'
    <3>1. \A i \in Fields : field[o][i] \notin Gone
      BY <1>1, <1>2 DEF DeadPointers
    <3>2. ASSUME NEW p
          PROVE  /\ ~Has(children, <<"removeReferenceReal", p>>)
                 /\ ~Has(children, <<"markChild", p>>)
                 /\ ~Has(children, <<"released", p>>)
                 /\ Has(children, <<"cyclicDecrement", p>>) => p \notin Gone
      <4>1. /\ ~Has(children, <<"removeReferenceReal", p>>)
            /\ ~Has(children, <<"markChild", p>>)
            /\ ~Has(children, <<"released", p>>)
        BY <1>3
      <4>2. Has(children, <<"cyclicDecrement", p>>) => \E i \in Fields : field[o][i] = p
        BY <1>3
      <4>3. QED
        BY <3>1, <4>1, <4>2
    <3> HIDE DEF CollectorIInv
    <3>3. QED
      BY <1>0, <1>2, <3>2 DEF DeadCalls
  <2>4. DeadCounts'
    BY <1>0, <1>1, <1>2 DEF DeadCounts
  <2>5. UnlinkInv'
    <3>1. \A k \in 1..Len(cycles[index]) : k < member + 1 <=> k < member \/ k = member
      BY <1>1
    <3>2. \A k \in 1..Len(cycles[index]) : k < member <=> cycles[index][k] \in discounted
      BY <1>0 DEF UnlinkInv
    <3>3. \A k \in 1..Len(cycles[index]) : k < member + 1 <=> cycles[index][k] \in discounted'
      BY <1>0, <1>1, <3>1, <3>2
    <3>4. Doomed' \cap freed' = {}
      BY <1>0, <1>2 DEF UnlinkInv
    <3>5. QED
      BY <1>0, <3>3, <3>4 DEF UnlinkInv
  <2>6. QED
    BY <2>1, <2>2, <2>3, <2>4, <2>5
<1>8. CountInv'
  <2>1. ASSUME NEW p \in Objects \ Dead
        PROVE  Balanced(p)'
    <3>1. /\ Pointers(p) = Pointers(p)' + Times(children, <<"cyclicDecrement", p>>)
          /\ Times(children, <<"cyclicDecrement", p>>) \in Int
          /\ Pointers(p)' \in Int
      <4>1. field \in Heaps /\ o \in Objects \ discounted /\ "cyclicDecrement" \in Calls
        BY <1>1, <1>2 DEF CollectorTypeOK, Heaps, Calls
      <4>2. (Objects \ discounted) \in SUBSET Objects
        OBVIOUS
      <4>3. /\ Times(children, <<"cyclicDecrement", p>>) \in Nat
            /\ PointersIn(field, Objects \ discounted, p)
                 = PointersIn(field, (Objects \ discounted) \ {o}, p)
                   + Times(children, <<"cyclicDecrement", p>>)
        <5> HIDE DEF CollectorIInv, o
        <5>1. QED
          BY <4>1, <4>2, PointersSplit DEF children
      <4>4. (Objects \ discounted) \ {o} = Objects \ discounted' /\ field' = field
        BY <1>0
      <4>5. Pointers(p)' = PointersIn(field, (Objects \ discounted) \ {o}, p)
        BY <4>4, PointersThen
      <4>6. PointersIn(field, (Objects \ discounted) \ {o}, p) \in Nat
        BY PointersFinite
      <4>7. Pointers(p) = PointersIn(field, Objects \ discounted, p)
        BY PointersHere
      <4> HIDE DEF CollectorIInv, o
      <4>8. QED
        BY <4>3, <4>5, <4>6, <4>7, Z3
    <3>2. Owed(p)' = Owed(p) + Times(children, <<"cyclicDecrement", p>>)
      <4>1. Owed(p) = 0
        BY <1>0, NothingOwed, HasNone
      <4>2. Times(children, <<"removeReferenceReal", p>>) = 0
        BY <1>3, HasTimes
      <4>3. Owed(p)' = 0 + Times(children, <<"cyclicDecrement", p>>)
        BY <1>0, <4>2 DEF Owed
      <4>4. Times(children, <<"cyclicDecrement", p>>) \in Int
        BY <3>1
      <4> HIDE DEF CollectorIInv
      <4>5. QED
        BY <4>1, <4>3, <4>4
    <3>3. /\ rc'[p] = rc[p] /\ refs'[p] = refs[p]
          /\ Times(increments', p) = Times(increments, p)
          /\ Times(decrements', p) = Times(decrements, p)
      BY <1>0
    <3> DEFINE x == Times(children, <<"cyclicDecrement", p>>)
    <3>4. x \in Int /\ Pointers(p) = Pointers(p)' + x /\ Owed(p)' = Owed(p) + x
      BY <3>1, <3>2
    <3>5. CollectorTypeOK /\ CountInv /\ p \in Objects \ Dead /\ Pointers(p)' \in Int
      BY <3>1
    <3> HIDE DEF CollectorIInv, x
    <3>6. QED
      BY <3>3, <3>4, <3>5, BalancedSpread
  <2>2. QED
    BY <1>2, <2>1 DEF CountInv
<1>9. ColorInv'
  <2>1. RedInv' /\ RootColors'
    BY <1>0, <1>2 DEF RedInv, RootColors
  <2>2. PaleInv'
    BY <1>0, <1>2, HasNone DEF PaleInv
  <2>3. QED
    BY <2>1, <2>2
<1>10. OrangeInv' /\ CyclicInv'
  <2>1. \A j, k \in Nat : Waits(j, k)' <=> Waits(j, k)
    BY <1>0 DEF Waits
  <2>2. \A p : Quiet(p)' => Quiet(p)
    BY <1>0, HasNone DEF Quiet
  <2>3. QED
    BY <1>0, <2>1, <2>2, CandidatesAgree DEF Judging
<1>11. SeenInv'
  <2>1. \A j, k \in Nat : \A p : (Holds(j, k, p)' <=> Holds(j, k, p)) /\ (Waits(j, k)' <=> Waits(j, k))
    BY <1>0 DEF Waits, Holds
  <2>2. QED
    BY <1>0, <1>2, <2>1 DEF SeenInv
<1>12. QED
  BY <1>4, <1>5, <1>6, <1>7, <1>8, <1>9, <1>10, <1>11

LEMMA FreeMembersKeeps ==
  ASSUME CollectorIInv, FreeMembers, UNCHANGED misused
  PROVE  CollectorIInv'
<1> USE DEF CollectorIInv, DeadInv, ColorInv, OrangeInv
<1>0. /\ phase = "unlink" /\ phase' = "judge" /\ work = <<>> /\ increments = <<>> /\ decrements = <<>>
      /\ member > Len(cycles[index])
      /\ freed' = freed \cup Range(cycles[index])
      /\ index' = index - 1 /\ member' = 0
      /\ UNCHANGED <<field, rc, crc, color, buffered, roots, cycles, discounted, work, refs, fresh, epoch,
                     increments, decrements, misused>>
  BY DEF FreeMembers, In, Loop, mutator, PhaseInv
<1>1. /\ index \in 1..Len(cycles) /\ index \in Nat
      /\ Len(cycles[index]) \in Nat /\ member \in Nat
      /\ \A p : p \in Range(cycles[index]) <=> \E k \in 1..Len(cycles[index]) : cycles[index][k] = p
  BY <1>0, CurrentCycle
<1>2. /\ Doomed = Range(cycles[index]) /\ Doomed \subseteq discounted /\ Doomed' = {}
      /\ Dead' = Dead /\ Gone' = Dead /\ Dead = discounted \cup freed
      /\ freed' = freed \cup Doomed /\ Dead \subseteq Objects
  <2>1. \A k \in 1..Len(cycles[index]) : k < member
    BY <1>0, <1>1
  <2>2. \A k \in 1..Len(cycles[index]) : cycles[index][k] \in discounted
    BY <1>0, <2>1 DEF UnlinkInv
  <2>3. Doomed = Range(cycles[index]) /\ Doomed \subseteq discounted /\ Doomed' = {}
    BY <1>0, <1>1, <2>2 DEF Doomed
  <2>4. QED
    BY <1>0, <2>3, DeadAre DEF Dead, Gone
<1>3. CollectorTypeOK'
  <2>1. freed' \subseteq Objects \ fresh
    BY <1>0, <1>2 DEF CollectorTypeOK, Allocated
  <2>2. index' \in Nat
    BY <1>0, <1>1
  <2>3. QED
    BY <1>0, <2>1, <2>2 DEF CollectorTypeOK, Allocated, Phases
<1>4. PhaseInv'
  <2>1. index' <= Len(cycles)
    BY <1>0, <1>1
  <2>2. QED
    BY <1>0, <2>1, HasNone DEF PhaseInv, Judging
<1>5. FreshInv'
  BY <1>0 DEF FreshInv, Holds
<1>6. DeadInv'
  <2>1. DeadUnheld'
    BY <1>0, <1>2 DEF DeadUnheld
  <2>2. DeadPointers'
    BY <1>0, <1>2 DEF DeadPointers, Dead, Gone
  <2>3. DeadCalls' /\ UnlinkInv'
    BY <1>0, HasNone DEF DeadCalls, UnlinkInv
  <2>4. DeadCounts'
    BY <1>0, <1>2 DEF DeadCounts
  <2>5. QED
    BY <2>1, <2>2, <2>3, <2>4
<1>7. CountInv'
  BY <1>0, <1>2, SameCounts
<1>8. ColorInv'
  <2>1. RedInv'
    BY <1>0, <1>2 DEF RedInv
  <2>2. PaleInv'
    BY <1>0, <1>2 DEF PaleInv
  <2>3. RootColors'
    BY <1>0 DEF RootColors, Judging
  <2>4. QED
    BY <2>1, <2>2, <2>3
<1>9. \A j, k \in Nat : Waits(j, k)' <=> Waits(j, k)
  BY <1>0, <1>1 DEF Waits
<1>10. OrangeInv' /\ CyclicInv'
  <2>1. \A p : Quiet(p)' => Quiet(p)
    BY <1>0 DEF Quiet
  <2>2. QED
    BY <1>0, <1>9, <2>1, CandidatesAgree DEF Judging
<1>11. SeenInv'
  <2>1. \A j, k, p : Holds(j, k, p)' <=> Holds(j, k, p)
    BY <1>0 DEF Holds
  <2>2. QED
    BY <1>0, <1>2, <1>9, <2>1 DEF SeenInv
<1>12. QED
  BY <1>3, <1>4, <1>5, <1>6, <1>7, <1>8, <1>10, <1>11

-------------------------------------------------------------------------------
(* A candidate that failed is refurbished, and the buffer cleared.          *)

LEMMA RefurbishKeeps ==
  ASSUME CollectorIInv, phase = "refurbish", work = <<>>,
         member <= Len(cycles[index]), NEW o, o = cycles[index][member],
         NEW painted \in {"PURPLE", "BLACK"},
         color' = [color EXCEPT ![o] = painted],
         buffered' \in [Objects -> BOOLEAN],
         \A p \in Objects : p # o => buffered'[p] = buffered[p],
         roots' \in Seq(Objects),
         \A p : Has(roots, p) => Has(roots', p),
         \A p : Has(roots', p) => Has(roots, p) \/ p = o,
         painted = "PURPLE" => Has(roots', o),
         painted = "BLACK" => ~buffered'[o],
         Loop("refurbish", index, member + 1),
         UNCHANGED <<field, rc, crc, cycles, freed, discounted, work, mutator, misused>>
  PROVE  CollectorIInv'
<1> USE DEF CollectorIInv, DeadInv, ColorInv, OrangeInv
<1>0. /\ phase' = "refurbish" /\ index' = index /\ member' = member + 1
      /\ increments = <<>> /\ decrements = <<>>
      /\ UNCHANGED <<field, rc, crc, cycles, freed, discounted, work, refs, fresh, epoch,
                     increments, decrements, misused>>
  BY DEF Loop, mutator, PhaseInv
<1>1. /\ index \in 1..Len(cycles) /\ index \in Nat
      /\ Len(cycles[index]) \in Nat
      /\ member \in 1..Len(cycles[index]) /\ member \in Nat
      /\ o \in Objects /\ Holds(index, member, o)
  <2>1. /\ index \in 1..Len(cycles) /\ index \in Nat
        /\ Len(cycles[index]) \in Nat
        /\ \A k \in 1..Len(cycles[index]) : Holds(index, k, cycles[index][k])
        /\ \A k \in 1..Len(cycles[index]) : cycles[index][k] \in Objects
        /\ member \in Nat /\ member > 0
    BY CurrentCycle
  <2>2. member \in 1..Len(cycles[index])
    BY <2>1
  <2>3. QED
    BY <2>1, <2>2
<1>2. /\ Doomed = {} /\ Doomed' = {} /\ Dead' = Dead /\ Gone' = Gone
      /\ o \notin fresh /\ Dead \subseteq Objects
  <2>1. o \notin fresh
    BY <1>1 DEF FreshInv
  <2>2. QED
    BY <1>0, <2>1, DeadAre DEF Doomed, Dead, Gone
<1>3. /\ color' \in [Objects -> Colors]
      /\ color'[o] = painted
      /\ \A p \in Objects : p # o => color'[p] = color[p]
  BY <1>1 DEF CollectorTypeOK, Colors
<1>4. CollectorTypeOK'
  <2>1. member' \in Nat
    BY <1>0, <1>1
  <2>2. QED
    BY <1>0, <1>3, <2>1 DEF CollectorTypeOK, Allocated, Phases
<1>5. PhaseInv'
  <2>1. member' > 0 /\ member' <= Len(cycles[index]) + 1 /\ index > 0
    BY <1>0, <1>1
  <2>2. QED
    BY <1>0, <2>1, HasNone DEF PhaseInv, Judging
<1>6. FreshInv'
  BY <1>0, <1>2 DEF FreshInv, Holds
<1>7. DeadInv'
  BY <1>0, <1>2 DEF DeadUnheld, DeadPointers, DeadCalls, DeadCounts, UnlinkInv
<1>8. CountInv'
  BY <1>0, <1>2, SameCounts
<1>9. ColorInv'
  <2>1. RedInv'
    BY <1>0, <1>2, <1>3 DEF RedInv
  <2>2. PaleInv'
    BY <1>0, <1>2, <1>3 DEF PaleInv
  <2>3. RootColors'
    <3>1. \A p : Has(roots, p) => p \in Objects
      BY RootsAre
    <3>2. QED
      BY <1>0, <1>3, <3>1 DEF RootColors, Judging
  <2>4. QED
    BY <2>1, <2>2, <2>3
<1>10. ASSUME NEW j \in Nat, NEW k \in Nat, NEW p \in Objects, Holds(j, k, p), p # o
       PROVE  Waits(j, k)' <=> Waits(j, k)
  <2>1. ~(j = index /\ k = member)
    BY <1>10, <1>1 DEF Holds
  <2>2. k >= member + 1 <=> k >= member /\ k # member
    BY <1>1
  <2>3. QED
    BY <1>0, <2>1, <2>2 DEF Waits
<1>11. OrangeInv' /\ CyclicInv'
  <2>1. \A p \in Objects : Quiet(p)' => Quiet(p)
    BY <1>0 DEF Quiet
  <2>2. \A p \in Objects : color'[p] = "ORANGE" => color[p] = "ORANGE" /\ p # o
    BY <1>3
  <2>3. \A j, k \in Nat : \A p \in Objects :
          color'[p] = "ORANGE" /\ Holds(j, k, p) => (Waits(j, k)' <=> Waits(j, k))
    BY <1>10, <2>2
  <2>4. phase \in {"run", "flush"} \cup Judging /\ phase' \in {"run", "flush"} \cup Judging
    BY <1>0 DEF Judging
  <2>5. UNCHANGED <<field, cycles, rc, crc>>
    BY <1>0
  <2>6. OrangeInv /\ CyclicInv
    OBVIOUS
  <2> HIDE DEF CollectorIInv, OrangeInv
  <2>7. QED
    BY <2>1, <2>2, <2>3, <2>4, <2>5, <2>6, CandidatesAgree
<1>12. SeenInv'
  <2>1. ASSUME NEW p \in Objects \ freed, buffered'[p] \/ color'[p] = "PURPLE"
        PROVE  Has(roots', p) \/ \E j, k \in Nat : Holds(j, k, p) /\ Waits(j, k)'
    <3>1. CASE p = o
      BY <1>3, <2>1, <3>1
    <3>2. CASE p # o
      <4>1. Has(roots, p) \/ \E j, k \in Nat : Holds(j, k, p) /\ Waits(j, k)
        BY <1>2, <1>3, <2>1, <3>2 DEF SeenInv
      <4>2. QED
        BY <1>10, <3>2, <4>1
    <3>3. QED
      BY <3>1, <3>2
  <2>2. \A j, k, p : Holds(j, k, p)' <=> Holds(j, k, p)
    BY <1>0 DEF Holds
  <2>3. QED
    BY <1>0, <2>1, <2>2 DEF SeenInv
<1>13. QED
  BY <1>4, <1>5, <1>6, <1>7, <1>8, <1>9, <1>11, <1>12

LEMMA RefurbishMemberKeeps ==
  ASSUME CollectorIInv, RefurbishMember, UNCHANGED misused
  PROVE  CollectorIInv'
<1> DEFINE o == cycles[index][member]
<1>1. /\ phase = "refurbish" /\ work = <<>> /\ member <= Len(cycles[index])
      /\ Loop("refurbish", index, member + 1)
      /\ UNCHANGED <<field, rc, crc, cycles, freed, discounted, work, mutator, misused>>
  BY DEF RefurbishMember, In
<1>2. /\ color \in [Objects -> Colors] /\ buffered \in [Objects -> BOOLEAN] /\ roots \in Seq(Objects)
  BY DEF CollectorIInv, CollectorTypeOK
<1>3. o \in Objects
  <2>1. /\ \A k \in 1..Len(cycles[index]) : cycles[index][k] \in Objects
        /\ Len(cycles[index]) \in Nat /\ member \in Nat /\ member > 0
    BY <1>1, CurrentCycle
  <2>2. QED
    BY <1>1, <2>1
<1>4. CASE color[o] = "PURPLE" \/ (member = 1 /\ color[o] = "ORANGE")
  <2>1. color' = [color EXCEPT ![o] = "PURPLE"] /\ roots' = Append(roots, o) /\ buffered' = buffered
    BY <1>4 DEF RefurbishMember
  <2>2. roots' \in Seq(Objects) /\ \A p : Has(roots', p) <=> Has(roots, p) \/ o = p
    BY <1>2, <1>3, <2>1, HasAppend
  <2> HIDE DEF o
  <2>3. QED
    BY <1>1, <1>2, <2>1, <2>2, RefurbishKeeps DEF o
<1>5. CASE ~(color[o] = "PURPLE" \/ (member = 1 /\ color[o] = "ORANGE"))
  <2>1. /\ color' = [color EXCEPT ![o] = "BLACK"] /\ roots' = roots
        /\ buffered' = [buffered EXCEPT ![o] = FALSE]
    BY <1>5 DEF RefurbishMember
  <2>2. /\ buffered' \in [Objects -> BOOLEAN] /\ ~buffered'[o]
        /\ \A p \in Objects : p # o => buffered'[p] = buffered[p]
    BY <1>2, <1>3, <2>1
  <2> HIDE DEF o
  <2>3. QED
    BY <1>1, <1>2, <2>1, <2>2, RefurbishKeeps DEF o
<1>6. QED
  BY <1>4, <1>5

LEMMA ClearCyclesKeeps ==
  ASSUME CollectorIInv, ClearCycles, UNCHANGED misused
  PROVE  CollectorIInv'
<1> USE DEF CollectorIInv, DeadInv, ColorInv, OrangeInv
<1>0. /\ phase = "judge" /\ phase' = "mark" /\ work = <<>> /\ index = 0 /\ index' = 1 /\ member' = 0
      /\ increments = <<>> /\ decrements = <<>> /\ cycles' = <<>>
      /\ UNCHANGED <<field, rc, crc, color, buffered, roots, freed, discounted, work, refs, fresh, epoch,
                     increments, decrements, misused>>
  BY DEF ClearCycles, In, Loop, mutator, PhaseInv
<1>1. /\ Doomed = {} /\ Doomed' = {} /\ Dead' = Dead /\ Gone' = Gone
  BY <1>0 DEF Doomed, Dead, Gone
<1>2. /\ \A j, k \in Nat : \A p : ~(Holds(j, k, p) /\ Waits(j, k))
      /\ \A j, k, p : ~Holds(j, k, p)'
  <2>1. \A j \in 1..Len(cycles) : ~(j <= 0)
    OBVIOUS
  <2>2. QED
    BY <1>0, <2>1 DEF Holds, Waits
<1>3. \A p \in Objects : color[p] # "ORANGE"
  BY <1>2 DEF OrangeOwned
<1>4. CollectorTypeOK'
  <2>1. <<>> \in Seq(Seq(Objects)) /\ 1 \in Nat
    OBVIOUS
  <2>2. QED
    BY <1>0, <2>1 DEF CollectorTypeOK, Allocated, Phases
<1>5. PhaseInv'
  <2>1. 1 <= Len(roots) + 1
    BY DEF CollectorTypeOK
  <2>2. QED
    BY <1>0, <2>1, HasNone DEF PhaseInv, Judging
<1>6. FreshInv'
  BY <1>0, <1>2 DEF FreshInv
<1>7. DeadInv'
  BY <1>0, <1>1 DEF DeadUnheld, DeadPointers, DeadCalls, DeadCounts, UnlinkInv
<1>8. CountInv'
  BY <1>0, <1>1, SameCounts
<1>9. ColorInv'
  <2>1. RedInv' /\ PaleInv'
    BY <1>0, <1>1 DEF RedInv, PaleInv
  <2>2. RootColors'
    BY <1>0 DEF RootColors, Judging
  <2>3. QED
    BY <2>1, <2>2
<1>10. OrangeInv' /\ CyclicInv'
  BY <1>0, <1>2, <1>3 DEF Distinct, OrangeOwned, OrangeMembers, CyclicInv
<1>11. SeenInv'
  BY <1>0, <1>1, <1>2 DEF SeenInv
<1>12. QED
  BY <1>4, <1>5, <1>6, <1>7, <1>8, <1>9, <1>10, <1>11

-------------------------------------------------------------------------------
(* The recursions over the heap: MarkRoots, ScanRoots, CollectRoots.         *)

Visits == {"markChild", "scanRoot", "collectWhite"}

(* The calls that a visit of an object leaves. *)
Left(w, rest, call, o) ==
  /\ w \in Seq(Calls \X (Objects \cup {Null}))
  /\ \A c, p : Has(w, <<c, p>>) =>
       Has(rest, <<c, p>>) \/ (c = call /\ \E i \in Fields : field[o][i] = p)

LEMMA VisitWork ==
  ASSUME CollectorTypeOK, NEW o \in Objects, NEW call \in Visits,
         NEW rest \in Seq(Calls \X (Objects \cup {Null})),
         NEW w, w = rest \/ w = ForEachChild(call, o) \o rest
  PROVE  Left(w, rest, call, o)
<1> DEFINE T == Calls \X (Objects \cup {Null})
           children == ForEachChild(call, o)
<1>1. /\ children \in Seq(T)
      /\ \A c, p : Has(children, <<c, p>>) <=> c = call /\ \E i \in Fields : field[o][i] = p
  <2>1. field \in Heaps /\ call \in Calls
    BY DEF CollectorTypeOK, Heaps, Calls, Visits
  <2>2. QED
    BY <2>1, CallsType, HasCalls
<1>2. rest \in Seq(T)
  OBVIOUS
<1>3. w = rest \/ w = children \o rest
  OBVIOUS
<1> HIDE DEF T, children
<1>4. children \o rest \in Seq(T)
  BY <1>1, <1>2
<1>5. \A e : Has(children \o rest, e) <=> Has(children, e) \/ Has(rest, e)
  BY <1>1, <1>2, HasConcat
<1>6. w \in Seq(T)
  BY <1>2, <1>3, <1>4
<1>7. ASSUME NEW c, NEW p, Has(w, <<c, p>>)
      PROVE  Has(rest, <<c, p>>) \/ (c = call /\ \E i \in Fields : field[o][i] = p)
  <2>1. CASE w = rest
    BY <1>7, <2>1, Zenon
  <2>2. CASE w = children \o rest
    <3>1. Has(children, <<c, p>>) \/ Has(rest, <<c, p>>)
      BY <1>5, <1>7, <2>2, Zenon
    <3>2. QED
      BY <1>1, <3>1, Zenon
  <2>3. QED
    BY <1>3, <2>1, <2>2
<1>8. QED
  BY <1>6, <1>7 DEF T, Left

(* In the phases that visit, nothing is dead that is not gone, and no count is  *)
(* about to change.                                                             *)
LEMMA Visiting ==
  ASSUME CollectorIInv, phase \in {"mark", "scan", "collect"}
  PROVE  /\ increments = <<>> /\ decrements = <<>>
         /\ Doomed = {} /\ Gone = Dead /\ Dead = discounted \cup freed /\ Dead \subseteq Objects
         /\ \A p : /\ ~Has(work, <<"removeReferenceReal", p>>)
                   /\ ~Has(work, <<"cyclicDecrement", p>>)
                   /\ ~Has(work, <<"released", p>>)
         /\ \A p \in Dead : color[p] \notin {"GRAY", "WHITE", "ORANGE"}
         /\ \A p \in Objects, i \in Fields : field[p][i] \in Dead => p \in discounted
         /\ \A p \in Objects : color[p] # "RED" \/ p \in freed
<1> USE DEF CollectorIInv, DeadInv, ColorInv
<1>1. increments = <<>> /\ decrements = <<>>
  BY DEF PhaseInv
<1>2. Doomed = {} /\ Gone = Dead /\ Dead = discounted \cup freed /\ Dead \subseteq Objects
  BY DeadAre DEF Doomed, Gone, Dead
<1>3. /\ "removeReferenceReal" \in Calls /\ "removeReferenceReal" \notin CallsOf(phase)
      /\ "cyclicDecrement" \in Calls /\ "cyclicDecrement" \notin CallsOf(phase)
      /\ "released" \in Calls /\ "released" \notin CallsOf(phase)
  BY DEF Calls, CallsOf
<1>4. \A p : /\ ~Has(work, <<"removeReferenceReal", p>>)
             /\ ~Has(work, <<"cyclicDecrement", p>>)
             /\ ~Has(work, <<"released", p>>)
  BY <1>3 DEF PhaseInv
<1>5. \A p \in Dead : color[p] \notin {"GRAY", "WHITE", "ORANGE"}
  BY <1>4 DEF PaleInv
<1>6. \A p \in Objects, i \in Fields : field[p][i] \in Dead => p \in discounted
  BY <1>2 DEF DeadPointers
<1>7. \A p \in Objects : color[p] # "RED" \/ p \in freed
  BY <1>2 DEF RedInv
<1>8. QED
  BY <1>1, <1>2, <1>4, <1>5, <1>6, <1>7

(* A step that visits changes no count. *)
LEMMA CalmCounts ==
  ASSUME CollectorIInv, phase \in {"mark", "scan", "collect"}, CollectorTypeOK',
         \A p : ~Has(work', <<"removeReferenceReal", p>>) /\ ~Has(work', <<"cyclicDecrement", p>>),
         Dead \subseteq Dead',
         UNCHANGED <<field, rc, refs, discounted, increments, decrements>>
  PROVE  CountInv'
<1>1. \A p : Pointers(p)' = Pointers(p)
  BY PointersHere, PointersThen
<1>2. \A p : Owed(p) = 0
  <2>1. CollectorTypeOK
    BY DEF CollectorIInv
  <2>2. QED
    BY <2>1, Visiting, NothingOwed
<1>3. ASSUME NEW p
      PROVE  Owed(p)' = 0
  <2>1. work' \in Seq(Calls \X (Objects \cup {Null}))
    BY DEF CollectorTypeOK
  <2>2. /\ Times(work', <<"removeReferenceReal", p>>) = 0
        /\ Times(work', <<"cyclicDecrement", p>>) = 0
    BY <2>1, HasTimes
  <2>3. QED
    BY <2>2 DEF Owed
<1>4. CountInv
  BY DEF CollectorIInv
<1>5. QED
  BY <1>1, <1>2, <1>3, <1>4 DEF CountInv, Balanced

LEMMA VisitKeeps ==
  ASSUME CollectorIInv, CollectorTypeOK', phase \in {"mark", "scan", "collect"}, phase' = phase,
         NEW o \in Objects, NEW call \in Visits, call \in CallsOf(phase),
         call = "markChild" => o \notin Dead,
         NEW rest \in Seq(Calls \X (Objects \cup {Null})),
         \A e : Has(rest, e) => Has(work, e),
         work' = rest \/ work' = ForEachChild(call, o) \o rest,
         \A p \in fresh : ~Has(roots', p) /\ \A j, k \in Nat : ~Holds(j, k, p)',
         UNCHANGED <<field, rc, discounted, freed, refs, fresh, increments, decrements>>
  PROVE  /\ \A c \in Calls : \A p : Has(work', <<c, p>>) => c \in CallsOf(phase)'
         /\ FreshInv' /\ DeadInv' /\ CountInv'
         /\ Dead' = Dead /\ Doomed' = {}
<1> USE DEF CollectorIInv, DeadInv
<1>1. \A c, p : Has(work', <<c, p>>) =>
         Has(rest, <<c, p>>) \/ (c = call /\ \E i \in Fields : field[o][i] = p)
  <2> DEFINE w == work'
  <2>1. CollectorTypeOK /\ (w = rest \/ w = ForEachChild(call, o) \o rest)
    OBVIOUS
  <2> HIDE DEF CollectorIInv, w
  <2>2. Left(w, rest, call, o)
    BY <2>1, VisitWork
  <2>3. QED
    BY <2>2 DEF w, Left
<1>2. \A c \in Calls : \A p : Has(work', <<c, p>>) => c \in CallsOf(phase)
  BY <1>1 DEF PhaseInv
<1>3. /\ \A p : /\ ~Has(work', <<"removeReferenceReal", p>>)
                /\ ~Has(work', <<"cyclicDecrement", p>>)
                /\ ~Has(work', <<"released", p>>)
      /\ increments = <<>> /\ decrements = <<>>
      /\ Doomed = {} /\ Gone = Dead /\ Dead = discounted \cup freed
      /\ \A p \in Objects, i \in Fields : field[p][i] \in Dead => p \in discounted
  BY <1>1, Visiting DEF Visits
<1>4. Doomed' = {} /\ Dead' = Dead /\ Gone' = Dead
  BY <1>3 DEF Doomed, Dead, Gone
<1>5. FreshInv'
  <2>1. ASSUME NEW p \in fresh, NEW c \in Calls
        PROVE  ~Has(work', <<c, p>>)
    <3>1. ~Has(work, <<c, p>>) /\ \A i \in Fields : field[o][i] # p
      BY DEF FreshInv
    <3>2. QED
      BY <1>1, <3>1
  <2>2. QED
    BY <2>1 DEF FreshInv
<1>6. DeadInv'
  <2>1. DeadUnheld'
    BY <1>4 DEF DeadUnheld
  <2>2. DeadPointers'
    BY <1>3, <1>4 DEF DeadPointers
  <2>3. DeadCalls'
    <3>1. ASSUME NEW p, Has(work', <<"markChild", p>>)
          PROVE  p \notin Dead
      <4>1. CASE Has(rest, <<"markChild", p>>)
        BY <4>1 DEF DeadCalls
      <4>2. CASE ~Has(rest, <<"markChild", p>>)
        <5>1. call = "markChild" /\ \E i \in Fields : field[o][i] = p
          BY <1>1, <3>1, <4>2
        <5>2. o \notin discounted
          BY <1>3, <5>1
        <5>3. QED
          BY <1>3, <5>1, <5>2
      <4>3. QED
        BY <4>1, <4>2
    <3>2. QED
      BY <1>3, <1>4, <3>1 DEF DeadCalls
  <2>4. DeadCounts' /\ UnlinkInv'
    BY <1>3, <1>4 DEF DeadCounts, UnlinkInv
  <2>5. QED
    BY <2>1, <2>2, <2>3, <2>4
<1>7. CountInv'
  BY <1>3, <1>4, CalmCounts
<1>8. QED
  BY <1>2, <1>4, <1>5, <1>6, <1>7 DEF CallsOf

(* Nothing is a candidate while the roots are marked and scanned. *)
LEMMA NoCandidates ==
  ASSUME CollectorIInv, phase \in {"mark", "scan"}
  PROVE  /\ cycles = <<>>
         /\ \A j, k, p : ~Holds(j, k, p)
         /\ \A p \in Objects : color[p] # "ORANGE"
<1>1. cycles = <<>>
  BY DEF CollectorIInv, PhaseInv
<1>2. \A j, k, p : ~Holds(j, k, p)
  BY <1>1 DEF Holds
<1>3. QED
  BY <1>1, <1>2 DEF CollectorIInv, OrangeInv, OrangeOwned

LEMMA ScanRootKeeps ==
  ASSUME CollectorIInv, phase = "scan", NEW o \in Objects,
         NEW rest \in Seq(Calls \X (Objects \cup {Null})),
         \A e : Has(rest, e) => Has(work, e),
         ScanRoot(o, rest),
         phase' = "scan", index' \in Nat, index' > 0, index' <= Len(roots) + 1, member' \in Nat,
         UNCHANGED <<mutator, misused>>
  PROVE  CollectorIInv'
<1> USE DEF CollectorIInv, DeadInv, ColorInv, OrangeInv
<1>0. /\ work' = rest \/ work' = ForEachChild("scanRoot", o) \o rest
      /\ UNCHANGED <<field, rc, crc, buffered, roots, cycles, freed, discounted, refs, fresh, epoch,
                     increments, decrements, phase, misused>>
  BY DEF ScanRoot, mutator
<1>1. /\ Doomed = {} /\ Dead = discounted \cup freed
      /\ \A p \in Dead : color[p] \notin {"GRAY", "WHITE", "ORANGE"}
      /\ cycles = <<>> /\ \A j, k, p : ~Holds(j, k, p)
      /\ \A p \in Objects : color[p] # "ORANGE"
  BY Visiting, NoCandidates
<1>2. /\ color' \in [Objects -> Colors]
      /\ \A p \in Objects : color'[p] = color[p] \/ (color[p] = "GRAY" /\ color'[p] \in {"WHITE", "BLACK"})
  BY DEF ScanRoot, CollectorTypeOK, Colors
<1>3. "scanRoot" \in Visits /\ "scanRoot" \in CallsOf(phase)
  BY DEF Visits, CallsOf, Calls
<1>4. CollectorTypeOK'
  <2>1. work' \in Seq(Calls \X (Objects \cup {Null}))
    BY <1>0, <1>3, VisitWork DEF Left
  <2>2. QED
    BY <1>0, <1>2, <2>1 DEF CollectorTypeOK, Allocated, Phases
<1>5. \A p \in fresh : ~Has(roots', p) /\ \A j, k \in Nat : ~Holds(j, k, p)'
  BY <1>0 DEF FreshInv, Holds
<1>6. /\ \A c \in Calls : \A p : Has(work', <<c, p>>) => c \in CallsOf(phase)'
      /\ FreshInv' /\ DeadInv' /\ CountInv'
      /\ Dead' = Dead /\ Doomed' = {}
  BY <1>0, <1>3, <1>4, <1>5, VisitKeeps
<1>7. PhaseInv'
  BY <1>0, <1>6 DEF PhaseInv, Judging
<1>8. ColorInv'
  <2>1. RedInv'
    BY <1>0, <1>1, <1>2, <1>6 DEF RedInv
  <2>2. PaleInv'
    BY <1>1, <1>2, <1>6, DeadAre DEF PaleInv
  <2>3. RootColors'
    BY <1>0 DEF RootColors, Judging
  <2>4. QED
    BY <2>1, <2>2, <2>3
<1>9. OrangeInv' /\ CyclicInv'
  <2>1. \A p \in Objects : color'[p] # "ORANGE"
    BY <1>1, <1>2
  <2>2. \A j, k, p : ~Holds(j, k, p)'
    BY <1>0, <1>1 DEF Holds
  <2>3. QED
    BY <2>1, <2>2 DEF Distinct, OrangeOwned, OrangeMembers, CyclicInv
<1>10. SeenInv'
  BY <1>0, <1>1, <1>2 DEF SeenInv
<1>11. QED
  BY <1>4, <1>6, <1>7, <1>8, <1>9, <1>10

LEMMA ScanNextRootKeeps ==
  ASSUME CollectorIInv, ScanNextRoot, UNCHANGED misused
  PROVE  CollectorIInv'
<1>1. /\ phase = "scan" /\ work = <<>> /\ index <= Len(roots) /\ ScanRoot(roots[index], <<>>)
      /\ phase' = "scan" /\ index' = index + 1 /\ member' = 0
      /\ UNCHANGED <<mutator, misused>>
  BY DEF ScanNextRoot, In, Loop
<1>2. index \in Nat /\ index > 0 /\ roots \in Seq(Objects) /\ Len(roots) \in Nat
  BY <1>1 DEF CollectorIInv, PhaseInv, CollectorTypeOK
<1>3. roots[index] \in Objects
  BY <1>1, <1>2
<1>4. index' \in Nat /\ index' > 0 /\ index' <= Len(roots) + 1 /\ member' \in Nat
  BY <1>1, <1>2
<1>5. <<>> \in Seq(Calls \X (Objects \cup {Null})) /\ \A e : Has(<<>>, e) => Has(work, e)
  BY HasNone
<1>6. QED
  BY <1>1, <1>3, <1>4, <1>5, ScanRootKeeps

LEMMA MarkKeeps ==
  ASSUME CollectorIInv, phase = "mark", NEW o \in Objects \ Dead, NEW count \in Int,
         NEW rest \in Seq(Calls \X (Objects \cup {Null})),
         \A e : Has(rest, e) => Has(work, e),
         MarkGray(o, count, rest),
         phase' = "mark", index' \in Nat, index' > 0, index' <= Len(roots) + 1, member' \in Nat,
         \A k \in 1..(index' - 1) : k \in 1..(index - 1) \/ roots[k] = o,
         UNCHANGED <<roots, mutator, misused>>
  PROVE  CollectorIInv'
<1> USE DEF CollectorIInv, DeadInv, ColorInv, OrangeInv
<1>0. /\ work' = rest \/ work' = ForEachChild("markChild", o) \o rest
      /\ UNCHANGED <<field, rc, buffered, roots, cycles, freed, discounted, refs, fresh, epoch,
                     increments, decrements, phase, misused>>
  BY DEF MarkGray, mutator
<1>1. /\ Doomed = {} /\ Dead = discounted \cup freed /\ Dead \subseteq Objects
      /\ \A p \in Dead : color[p] \notin {"GRAY", "WHITE", "ORANGE"}
      /\ cycles = <<>> /\ \A j, k, p : ~Holds(j, k, p)
      /\ \A p \in Objects : color[p] # "ORANGE"
  BY Visiting, NoCandidates
<1>2. /\ color' \in [Objects -> Colors]
      /\ color'[o] = "GRAY"
      /\ \A p \in Objects : p # o => color'[p] = color[p]
  BY DEF MarkGray, CollectorTypeOK, Colors
<1>3. crc' \in [Objects -> Int]
  <2>1. crc \in [Objects -> Int] /\ rc[o] \in Int /\ count - 1 \in Int
    BY DEF CollectorTypeOK
  <2>2. \/ crc' = [crc EXCEPT ![o] = rc[o]]
        \/ crc' = [crc EXCEPT ![o] = count - 1]
        \/ crc' = [crc EXCEPT ![o] = count]
    BY DEF MarkGray
  <2> HIDE DEF CollectorIInv
  <2>3. QED
    BY <2>1, <2>2
<1>4. "markChild" \in Visits /\ "markChild" \in CallsOf(phase)
  BY DEF Visits, CallsOf, Calls
<1>5. CollectorTypeOK'
  <2>1. work' \in Seq(Calls \X (Objects \cup {Null}))
    BY <1>0, <1>4, VisitWork DEF Left
  <2>2. QED
    BY <1>0, <1>2, <1>3, <2>1 DEF CollectorTypeOK, Allocated, Phases
<1>6. \A p \in fresh : ~Has(roots', p) /\ \A j, k \in Nat : ~Holds(j, k, p)'
  BY <1>0 DEF FreshInv, Holds
<1>7. /\ \A c \in Calls : \A p : Has(work', <<c, p>>) => c \in CallsOf(phase)'
      /\ FreshInv' /\ DeadInv' /\ CountInv'
      /\ Dead' = Dead /\ Doomed' = {}
  BY <1>0, <1>4, <1>5, <1>6, VisitKeeps
<1>8. PhaseInv'
  BY <1>0, <1>7 DEF PhaseInv, Judging
<1>9. ColorInv'
  <2>1. RedInv'
    BY <1>0, <1>1, <1>2, <1>7 DEF RedInv
  <2>2. PaleInv'
    BY <1>1, <1>2, <1>7 DEF PaleInv
  <2>3. RootColors'
    <3>1. \A p : Has(roots, p) => p \in Objects
      BY RootsAre
    <3>2. \A p : Has(roots, p) => color'[p] \in {"PURPLE", "BLACK", "RED", "GRAY"}
      BY <1>2, <3>1 DEF RootColors
    <3>3. ASSUME NEW k \in 1..(index' - 1)
          PROVE  color'[roots[k]] = "GRAY"
      <4>1. CASE roots[k] = o
        BY <1>2, <4>1
      <4>2. CASE roots[k] # o
        <5>1. k \in 1..(index - 1)
          BY <4>2
        <5>2. color[roots[k]] = "GRAY"
          BY <5>1 DEF RootColors
        <5>3. roots[k] \in Objects
          <6>1. /\ index \in Nat /\ Len(roots) \in Nat /\ index <= Len(roots) + 1
                /\ roots \in Seq(Objects)
            BY DEF PhaseInv, CollectorTypeOK
          <6>2. k \in 1..Len(roots)
            BY <5>1, <6>1
          <6>3. QED
            BY <6>1, <6>2
        <5>4. QED
          BY <1>2, <4>2, <5>2, <5>3
      <4>3. QED
        BY <4>1, <4>2
    <3>4. QED
      BY <1>0, <3>2, <3>3 DEF RootColors
  <2>4. QED
    BY <2>1, <2>2, <2>3
<1>10. OrangeInv' /\ CyclicInv'
  <2>1. \A p \in Objects : color'[p] # "ORANGE"
    BY <1>1, <1>2
  <2>2. \A j, k, p : ~Holds(j, k, p)'
    BY <1>0, <1>1 DEF Holds
  <2>3. QED
    BY <2>1, <2>2 DEF Distinct, OrangeOwned, OrangeMembers, CyclicInv
<1>11. SeenInv'
  <2>1. \A p \in Objects \ freed : buffered[p] \/ color[p] = "PURPLE" => Has(roots, p)
    BY <1>1 DEF SeenInv
  <2>2. QED
    BY <1>0, <1>2, <2>1 DEF SeenInv
<1>12. QED
  BY <1>5, <1>7, <1>8, <1>9, <1>10, <1>11

(* A sequence without its i-th element. *)
Drops(t, s, i, T) ==
  /\ t \in Seq(T)
  /\ Len(t) = Len(s) - 1
  /\ \A k \in 1..(i - 1) : t[k] = s[k]
  /\ \A e : Has(t, e) => Has(s, e)
  /\ \A e : Has(s, e) /\ e # s[i] => Has(t, e)

LEMMA Shortened ==
  ASSUME NEW T, NEW s \in Seq(T), NEW i \in 1..Len(s), NEW t,
         t = SubSeq(s, 1, i - 1) \o SubSeq(s, i + 1, Len(s))
  PROVE  Drops(t, s, i, T)
<1> DEFINE a == SubSeq(s, 1, i - 1)
           b == SubSeq(s, i + 1, Len(s))
<1>0. Len(s) \in Nat /\ i \in Nat /\ i >= 1 /\ i <= Len(s)
  OBVIOUS
<1>1. /\ a \in Seq(T) /\ Len(a) = i - 1
      /\ \A k \in 1..(i - 1) : a[k] = s[k]
  <2>1. i - 1 \in 0..Len(s) /\ 1 \in 1..(Len(s) + 1)
    BY <1>0
  <2>2. QED
    BY <1>0, <2>1, SubSeqProperties
<1>2. /\ b \in Seq(T) /\ Len(b) = Len(s) - i
      /\ \A k \in 1..(Len(s) - i) : b[k] = s[k + i]
  <2>1. i + 1 \in 1..(Len(s) + 1) /\ Len(s) \in i..Len(s)
    BY <1>0
  <2>2. /\ b \in Seq(T)
        /\ Len(b) = IF i + 1 <= Len(s) THEN Len(s) - (i + 1) + 1 ELSE 0
        /\ \A k \in 1..(Len(s) - (i + 1) + 1) : b[k] = s[i + 1 + k - 1]
    BY <1>0, <2>1, SubSeqProperties
  <2>3. Len(s) - (i + 1) + 1 = Len(s) - i /\ \A k \in 1..(Len(s) - i) : i + 1 + k - 1 = k + i
    BY <1>0
  <2>4. Len(b) = Len(s) - i
    <3>1. CASE i + 1 <= Len(s)
      BY <2>2, <2>3, <3>1
    <3>2. CASE ~(i + 1 <= Len(s))
      <4>1. Len(s) - i = 0
        BY <1>0, <3>2
      <4>2. QED
        BY <2>2, <3>2, <4>1
    <3>3. QED
      BY <3>1, <3>2
  <2>5. b \in Seq(T)
    BY <2>2
  <2>6. ASSUME NEW k \in 1..(Len(s) - i)
        PROVE  b[k] = s[k + i]
    <3>1. k \in 1..(Len(s) - (i + 1) + 1) /\ i + 1 + k - 1 = k + i
      BY <2>3
    <3>2. QED
      BY <2>2, <3>1
  <2>7. QED
    BY <2>4, <2>5, <2>6
<1> HIDE DEF a, b
<1>3. /\ t \in Seq(T) /\ Len(t) = Len(a) + Len(b)
      /\ \A k \in 1..(Len(a) + Len(b)) : t[k] = IF k <= Len(a) THEN a[k] ELSE b[k - Len(a)]
  <2>1. t = a \o b
    BY DEF a, b
  <2>2. a \in Seq(T) /\ b \in Seq(T)
    BY <1>1, <1>2
  <2>3. /\ a \o b \in Seq(T) /\ Len(a \o b) = Len(a) + Len(b)
        /\ \A k \in 1..(Len(a) + Len(b)) : (a \o b)[k] = IF k <= Len(a) THEN a[k] ELSE b[k - Len(a)]
    BY <2>2, ConcatProperties
  <2>4. QED
    BY <2>1, <2>3
<1>4. Len(t) = Len(s) - 1
  <2>1. Len(t) = (i - 1) + (Len(s) - i)
    BY <1>1, <1>2, <1>3
  <2>2. i \in Int
    BY <1>0
  <2> DEFINE n == Len(s)
  <2>3. n \in Int
    BY <1>0
  <2> HIDE DEF n
  <2>4. (i - 1) + (n - i) = n - 1
    BY <2>2, <2>3
  <2>5. QED
    BY <2>1, <2>4 DEF n
<1>5. ASSUME NEW k \in 1..(i - 1)
      PROVE  t[k] = s[k]
  <2>1. Len(a) = i - 1 /\ Len(b) = Len(s) - i
    BY <1>1, <1>2
  <2>2. k \in 1..(Len(a) + Len(b)) /\ k <= Len(a)
    BY <1>0, <2>1
  <2>3. t[k] = a[k] /\ a[k] = s[k]
    BY <1>1, <1>3, <2>2
  <2>4. QED
    BY <2>3
<1>6. \A e : Has(t, e) <=> Has(a, e) \/ Has(b, e)
  <2>1. a \in Seq(T) /\ b \in Seq(T)
    BY <1>1, <1>2
  <2>2. t = a \o b
    BY DEF a, b
  <2>3. \A e : Has(a \o b, e) <=> Has(a, e) \/ Has(b, e)
    BY <2>1, HasConcat
  <2>4. QED
    BY <2>2, <2>3
<1>7. \A e : Has(a, e) => Has(s, e)
  <2>1. \A k \in 1..Len(a) : k \in 1..Len(s) /\ a[k] = s[k]
    BY <1>0, <1>1
  <2>2. QED
    BY <2>1 DEF Has
<1>8. \A e : Has(b, e) => Has(s, e)
  <2>1. \A k \in 1..(Len(s) - i) : k + i \in 1..Len(s)
    BY <1>0
  <2>2. QED
    BY <1>2, <2>1 DEF Has
<1>9. ASSUME NEW e, Has(s, e), e # s[i]
      PROVE  Has(a, e) \/ Has(b, e)
  <2>1. PICK k \in 1..Len(s) : s[k] = e
    BY <1>9 DEF Has
  <2>2. CASE k < i
    BY <1>0, <1>1, <2>1, <2>2 DEF Has
  <2>3. CASE k > i
    <3>1. k - i \in 1..(Len(s) - i) /\ (k - i) + i = k
      BY <1>0, <2>3
    <3>2. b[k - i] = e
      BY <1>2, <2>1, <3>1
    <3>3. QED
      BY <1>2, <3>1, <3>2 DEF Has
  <2>4. QED
    BY <1>0, <1>9, <2>1, <2>2, <2>3
<1>10. QED
  BY <1>3, <1>4, <1>5, <1>6, <1>7, <1>8, <1>9 DEF Drops

(* A root that is no candidate any more is dropped. *)
LEMMA DropRootKeeps ==
  ASSUME CollectorIInv, phase = "mark", work = <<>>, index <= Len(roots),
         NEW o, o = roots[index], o \notin freed,
         ~(color[o] = "GRAY" \/ (color[o] = "PURPLE" /\ rc[o] > 0)),
         roots' = SubSeq(roots, 1, index - 1) \o SubSeq(roots, index + 1, Len(roots)),
         buffered' = [buffered EXCEPT ![o] = FALSE],
         freed' = IF rc[o] <= 0 THEN freed \cup {o} ELSE freed,
         UNCHANGED <<field, rc, crc, color, cycles, discounted, work, loops, mutator, misused>>
  PROVE  CollectorIInv'
<1> USE DEF CollectorIInv, DeadInv, ColorInv, OrangeInv
<1>0. UNCHANGED <<field, rc, crc, color, cycles, discounted, work, refs, fresh, epoch,
                  increments, decrements, phase, index, member, misused>>
  BY DEF mutator, loops
<1>1. /\ Doomed = {} /\ Gone = Dead /\ Dead = discounted \cup freed /\ Dead \subseteq Objects
      /\ increments = <<>> /\ decrements = <<>>
      /\ \A p \in Dead : color[p] \notin {"GRAY", "WHITE", "ORANGE"}
      /\ \A p \in Objects, i \in Fields : field[p][i] \in Dead => p \in discounted
      /\ \A p \in Objects : color[p] # "RED" \/ p \in freed
      /\ cycles = <<>> /\ \A j, k, p : ~Holds(j, k, p)
      /\ \A p \in Objects : color[p] # "ORANGE"
  BY Visiting, NoCandidates
<1>2. index \in 1..Len(roots) /\ o \in Objects /\ o \notin fresh /\ Has(roots, o)
  <2>1. index \in 1..Len(roots) /\ roots \in Seq(Objects)
    BY DEF PhaseInv, CollectorTypeOK
  <2>2. o \in Objects /\ Has(roots, o)
    BY <2>1 DEF Has
  <2>3. QED
    BY <2>1, <2>2 DEF FreshInv
<1>3. color[o] = "BLACK" \/ (color[o] = "PURPLE" /\ rc[o] <= 0)
  <2>1. color[o] \in {"PURPLE", "BLACK", "RED", "GRAY"} /\ color[o] # "RED" /\ rc[o] \in Int
    BY <1>1, <1>2 DEF RootColors, CollectorTypeOK
  <2> HIDE DEF CollectorIInv
  <2>2. QED
    BY <2>1
<1>4. /\ roots' \in Seq(Objects)
      /\ Len(roots') = Len(roots) - 1
      /\ \A k \in 1..(index - 1) : roots'[k] = roots[k]
      /\ \A p : Has(roots', p) => Has(roots, p)
      /\ \A p : Has(roots, p) /\ p # o => Has(roots', p)
  <2>1. roots \in Seq(Objects)
    BY DEF CollectorTypeOK
  <2> DEFINE t == roots'
  <2>2. t = SubSeq(roots, 1, index - 1) \o SubSeq(roots, index + 1, Len(roots))
    OBVIOUS
  <2> HIDE DEF CollectorIInv, t
  <2>3. /\ t \in Seq(Objects)
        /\ Len(t) = Len(roots) - 1
        /\ \A k \in 1..(index - 1) : t[k] = roots[k]
        /\ \A p : Has(t, p) => Has(roots, p)
        /\ \A p : Has(roots, p) /\ p # roots[index] => Has(t, p)
    <3> DEFINE s == roots
               i == index
    <3>1. s \in Seq(Objects) /\ i \in 1..Len(s) /\ t = SubSeq(s, 1, i - 1) \o SubSeq(s, i + 1, Len(s))
      BY <1>2, <2>1, <2>2
    <3> HIDE DEF s, i
    <3>2. Drops(t, s, i, Objects)
      BY <3>1, Shortened
    <3>3. QED
      BY <3>2 DEF s, i, Drops
  <2>4. QED
    BY <2>3 DEF t
<1>5. /\ buffered' \in [Objects -> BOOLEAN] /\ ~buffered'[o]
      /\ \A p \in Objects : p # o => buffered'[p] = buffered[p]
  BY <1>2 DEF CollectorTypeOK
<1>6. /\ freed \subseteq freed' /\ freed' \subseteq freed \cup {o}
      /\ rc[o] <= 0 => o \in freed'
  OBVIOUS
<1>7. /\ Doomed' = {} /\ Gone' = Dead' /\ Dead' = discounted \cup freed'
      /\ Dead \subseteq Dead' /\ Dead' \subseteq Dead \cup {o}
  BY <1>0, <1>1, <1>6 DEF Doomed, Gone, Dead
<1>8. o \in Dead' => /\ refs[o] = 0
                     /\ \A p \in Objects, i \in Fields : field[p][i] = o => p \in discounted
  <2>1. CASE o \in Dead
    BY <1>1, <2>1 DEF DeadUnheld
  <2>2. CASE o \notin Dead /\ o \in Dead'
    <3>1. rc[o] <= 0
      BY <1>1, <1>7, <2>2
    <3>2. rc[o] = refs[o] + Pointers(o) /\ refs[o] \in Nat /\ Pointers(o) \in Nat
      BY <1>1, <1>2, <2>2, CountSettled
    <3>3. refs[o] = 0 /\ Pointers(o) = 0
      <4> HIDE DEF CollectorIInv
      <4>1. QED
        BY <3>1, <3>2, Z3
    <3>4. PointersIn(field, Objects \ discounted, o) = 0
      BY <3>3, PointersHere
    <3>5. \A p \in Objects \ discounted, i \in Fields : field[p][i] # o
      BY <3>4, PointersZero
    <3>6. QED
      BY <3>3, <3>5
  <2>3. QED
    BY <2>1, <2>2
<1>9. CollectorTypeOK'
  <2>1. freed' \subseteq Objects \ fresh
    BY <1>2, <1>6 DEF CollectorTypeOK, Allocated
  <2>2. QED
    BY <1>0, <1>4, <1>5, <2>1 DEF CollectorTypeOK, Allocated
<1>10. PhaseInv'
  <2> DEFINE m == Len(roots)
             n == Len(roots')
  <2>0. m \in Nat
    BY DEF CollectorTypeOK
  <2>3. n = m - 1
    BY <1>4
  <2>4. index \in 1..m
    BY <1>2
  <2> HIDE DEF m, n, CollectorIInv
  <2>5. index <= n + 1 /\ index > 0
    BY <2>0, <2>3, <2>4
  <2>1. index <= Len(roots') + 1 /\ index > 0
    BY <2>5 DEF n
  <2> USE DEF CollectorIInv
  <2>2. QED
    BY <1>0, <2>1 DEF PhaseInv, Judging
<1>11. FreshInv'
  BY <1>0, <1>4 DEF FreshInv, Holds
<1>12. DeadInv'
  <2>1. DeadUnheld'
    BY <1>0, <1>1, <1>2, <1>7, <1>8, HasNone DEF DeadUnheld
  <2>2. DeadPointers'
    BY <1>0, <1>1, <1>7, <1>8 DEF DeadPointers
  <2>3. DeadCalls' /\ UnlinkInv'
    BY <1>0, HasNone DEF DeadCalls, UnlinkInv
  <2>4. DeadCounts'
    BY <1>0, <1>1, <1>6, <1>7 DEF DeadCounts
  <2>5. QED
    BY <2>1, <2>2, <2>3, <2>4
<1>13. CountInv'
  BY <1>0, <1>7, <1>9, HasNone, CalmCounts
<1>14. ColorInv'
  <2>1. RedInv'
    BY <1>0, <1>1, <1>6, <1>7 DEF RedInv
  <2>2. PaleInv'
    BY <1>0, <1>1, <1>3, <1>7 DEF PaleInv
  <2>3. RootColors'
    BY <1>0, <1>4 DEF RootColors, Judging
  <2>4. QED
    BY <2>1, <2>2, <2>3
<1>15. OrangeInv' /\ CyclicInv'
  BY <1>0 DEF Distinct, OrangeOwned, OrangeMembers, CyclicInv, Holds, Waits, PhaseInv
<1>16. SeenInv'
  <2>1. \A p \in Objects \ freed : buffered[p] \/ color[p] = "PURPLE" => Has(roots, p)
    BY <1>1 DEF SeenInv
  <2>2. ASSUME NEW p \in Objects \ freed', buffered'[p] \/ color[p] = "PURPLE"
        PROVE  Has(roots', p)
    <3>1. p # o
      BY <1>3, <1>5, <1>6, <2>2
    <3>2. QED
      BY <1>4, <1>5, <1>6, <2>1, <2>2, <3>1
  <2>3. QED
    BY <1>0, <2>2 DEF SeenInv
<1>17. QED
  BY <1>9, <1>10, <1>11, <1>12, <1>13, <1>14, <1>15, <1>16

LEMMA MarkRootKeeps ==
  ASSUME CollectorIInv, MarkRoot, roots[index] \notin freed, UNCHANGED misused
  PROVE  CollectorIInv'
<1> DEFINE o == roots[index]
<1>1. phase = "mark" /\ work = <<>> /\ index <= Len(roots) /\ UNCHANGED mutator
  BY DEF MarkRoot, In
<1>2. /\ index \in 1..Len(roots) /\ index \in Nat /\ Len(roots) \in Nat /\ o \in Objects
      /\ crc[o] \in Int /\ rc[o] \in Int
  BY <1>1 DEF CollectorIInv, PhaseInv, CollectorTypeOK
<1>3. CASE color[o] = "GRAY" \/ (color[o] = "PURPLE" /\ rc[o] > 0)
  <2>1. /\ MarkGray(o, crc[o], <<>>) /\ roots' = roots
        /\ phase' = "mark" /\ index' = index + 1 /\ member' = 0
    BY <1>3 DEF MarkRoot, Loop
  <2>2. o \notin Dead
    <3>1. CASE color[o] = "GRAY"
      BY <1>1, <3>1, Visiting
    <3>2. CASE color[o] = "PURPLE" /\ rc[o] > 0
      <4>1. Dead = discounted \cup freed /\ Doomed = {}
        BY <1>1, Visiting
      <4>2. rc[o] # 0
        BY <1>2, <3>2
      <4>3. QED
        BY <4>1, <4>2 DEF CollectorIInv, DeadInv, DeadCounts
    <3>3. QED
      BY <1>3, <3>1, <3>2
  <2>3. /\ index' \in Nat /\ index' > 0 /\ index' <= Len(roots) + 1 /\ member' \in Nat
        /\ \A k \in 1..(index' - 1) : k \in 1..(index - 1) \/ k = index
    BY <1>2, <2>1
  <2>4. <<>> \in Seq(Calls \X (Objects \cup {Null})) /\ \A e : Has(<<>>, e) => Has(work, e)
    BY HasNone
  <2>5. \A k \in 1..(index' - 1) : k \in 1..(index - 1) \/ roots[k] = o
    BY <2>3
  <2> HIDE DEF o
  <2>6. QED
    BY <1>1, <1>2, <2>1, <2>2, <2>3, <2>4, <2>5, MarkKeeps
<1>4. CASE ~(color[o] = "GRAY" \/ (color[o] = "PURPLE" /\ rc[o] > 0))
  <2>1. /\ roots' = SubSeq(roots, 1, index - 1) \o SubSeq(roots, index + 1, Len(roots))
        /\ buffered' = [buffered EXCEPT ![o] = FALSE]
        /\ freed' = IF rc[o] <= 0 THEN freed \cup {o} ELSE freed
        /\ UNCHANGED <<field, rc, crc, color, cycles, discounted, work, loops>>
    BY <1>4 DEF MarkRoot
  <2>2. o = roots[index]
    OBVIOUS
  <2> HIDE DEF o
  <2>3. QED
    BY <1>1, <1>4, <2>1, <2>2, DropRootKeeps
<1>5. QED
  BY <1>3, <1>4

(* A sequence of sequences whose last has got one element more. *)
Grown(c, buffer, o, T) ==
  /\ c \in Seq(Seq(T))
  /\ Len(c) = Len(buffer) /\ Len(buffer) \in 1..Len(c)
  /\ \A j \in 1..Len(c) : c[j] = IF j = Len(c) THEN Append(buffer[j], o) ELSE buffer[j]

LEMMA Gathered ==
  ASSUME NEW T, NEW buffer \in Seq(Seq(T)), buffer # <<>>, NEW o \in T, NEW c,
         c = [buffer EXCEPT ![Len(buffer)] = Append(@, o)]
  PROVE  Grown(c, buffer, o, T)
<1> DEFINE n == Len(buffer)
<1>1. n \in Nat /\ n \in 1..n /\ buffer \in [1..n -> Seq(T)]
  OBVIOUS
<1>2. buffer[n] \in Seq(T) /\ Append(buffer[n], o) \in Seq(T)
  BY <1>1
<1> HIDE DEF n
<1>3. c = [buffer EXCEPT ![n] = Append(buffer[n], o)]
  BY <1>1 DEF n
<1>4. /\ c \in [1..n -> Seq(T)]
      /\ \A j \in 1..n : c[j] = IF j = n THEN Append(buffer[j], o) ELSE buffer[j]
  BY <1>1, <1>2, <1>3
<1>5. c \in Seq(Seq(T)) /\ Len(c) = n
  BY <1>1, <1>4
<1>6. QED
  BY <1>1, <1>4, <1>5 DEF Grown, n

HoldsIn(b, j, k, p) == j \in 1..Len(b) /\ k \in 1..Len(b[j]) /\ b[j][k] = p

(* What the buffer holds when an object was collected. *)
LEMMA HoldsMore ==
  ASSUME NEW T, NEW buffer \in Seq(Seq(T)), NEW o \in T, NEW c, Grown(c, buffer, o, T)
  PROVE  \E n, m \in Nat :
           /\ \A j, k \in Nat : \A p :
                HoldsIn(c, j, k, p) <=> HoldsIn(buffer, j, k, p) \/ (j = n /\ k = m /\ p = o)
           /\ HoldsIn(c, n, m, o)
<1> DEFINE n == Len(c)
           m == Len(buffer[n]) + 1
<1>1. n \in Nat /\ n = Len(buffer) /\ n \in 1..n
  BY DEF Grown
<1>2. buffer[n] \in Seq(T)
  BY <1>1
<1>3. /\ Len(buffer[n]) \in Nat /\ m \in Nat /\ m = Len(buffer[n]) + 1
      /\ Len(Append(buffer[n], o)) = m
      /\ Append(buffer[n], o)[m] = o
      /\ \A k \in 1..Len(buffer[n]) : Append(buffer[n], o)[k] = buffer[n][k]
  BY <1>2
<1>4. /\ c[n] = Append(buffer[n], o)
      /\ \A j \in 1..n : j # n => c[j] = buffer[j]
  BY <1>1 DEF Grown
<1> HIDE DEF n, m
<1>5. ASSUME NEW j \in Nat, NEW k \in Nat, NEW p
      PROVE  HoldsIn(c, j, k, p) <=> HoldsIn(buffer, j, k, p) \/ (j = n /\ k = m /\ p = o)
  <2>1. CASE j = n
    <3>1. k \in 1..m <=> k \in 1..Len(buffer[n]) \/ k = m
      BY <1>3
    <3>2. ~(m \in 1..Len(buffer[n]))
      BY <1>3
    <3>3. Len(c) = n
      BY DEF n
    <3>4. Len(c[n]) = m /\ c[n][m] = o /\ \A l \in 1..Len(buffer[n]) : c[n][l] = buffer[n][l]
      BY <1>3, <1>4
    <3>5. QED
      BY <1>1, <2>1, <3>1, <3>2, <3>3, <3>4 DEF HoldsIn
  <2>2. CASE j # n
    <3>1. Len(c) = n
      BY DEF n
    <3>2. QED
      BY <1>1, <1>4, <2>2, <3>1 DEF HoldsIn
  <2>3. QED
    BY <2>1, <2>2
<1>6. HoldsIn(c, n, m, o)
  <2>1. m \in 1..m
    BY <1>3
  <2>2. Len(c) = n /\ n \in 1..n /\ Len(c[n]) = m /\ c[n][m] = o
    BY <1>1, <1>3, <1>4 DEF n
  <2>3. QED
    BY <2>1, <2>2 DEF HoldsIn
<1>7. QED
  BY <1>1, <1>3, <1>5, <1>6

LEMMA CollectKeeps ==
  ASSUME CollectorIInv, phase = "collect", NEW o \in Objects, color[o] = "WHITE", o \notin fresh,
         NEW buffer \in Seq(Seq(Objects)), buffer # <<>>,
         \A j, k \in Nat : \A p : HoldsIn(buffer, j, k, p) <=> Holds(j, k, p),
         NEW rest \in Seq(Calls \X (Objects \cup {Null})),
         \A e : Has(rest, e) => Has(work, e),
         Collect(o, buffer, rest),
         roots' \in Seq(Objects),
         \A p : Has(roots', p) => Has(roots, p),
         \A p : Has(roots, p) /\ p # o => Has(roots', p),
         UNCHANGED <<mutator, loops, misused>>
  PROVE  CollectorIInv'
<1> USE DEF CollectorIInv, DeadInv, ColorInv, OrangeInv
<1>0. /\ work' = rest \/ work' = ForEachChild("collectWhite", o) \o rest
      /\ cycles' = [buffer EXCEPT ![Len(buffer)] = Append(@, o)]
      /\ UNCHANGED <<field, rc, crc, freed, discounted, refs, fresh, epoch,
                     increments, decrements, phase, index, member, misused>>
  BY DEF Collect, mutator, loops
<1>1. /\ Doomed = {} /\ Dead = discounted \cup freed /\ Dead \subseteq Objects
      /\ \A p \in Dead : color[p] \notin {"GRAY", "WHITE", "ORANGE"}
  BY Visiting
<1>2. /\ color' \in [Objects -> Colors]
      /\ color'[o] = "ORANGE"
      /\ \A p \in Objects : p # o => color'[p] = color[p]
      /\ buffered' \in [Objects -> BOOLEAN]
      /\ \A p \in Objects : p # o => buffered'[p] = buffered[p]
  BY DEF Collect, CollectorTypeOK, Colors
<1>3. Grown(cycles', buffer, o, Objects)
  <2> DEFINE c == cycles'
  <2>1. c = [buffer EXCEPT ![Len(buffer)] = Append(@, o)]
    BY <1>0
  <2> HIDE DEF c
  <2>2. Grown(c, buffer, o, Objects)
    BY <2>1, Gathered
  <2>3. QED
    BY <2>2 DEF c
<1>4. PICK n \in Nat, m \in Nat :
        /\ \A j, k \in Nat : \A p : Holds(j, k, p)' <=> Holds(j, k, p) \/ (j = n /\ k = m /\ p = o)
        /\ Holds(n, m, o)'
  <2> DEFINE c == cycles'
  <2> HIDE DEF c
  <2>1. Grown(c, buffer, o, Objects)
    BY <1>3 DEF c
  <2>2. PICK n \in Nat, m \in Nat :
          /\ \A j, k \in Nat : \A p :
               HoldsIn(c, j, k, p) <=> HoldsIn(buffer, j, k, p) \/ (j = n /\ k = m /\ p = o)
          /\ HoldsIn(c, n, m, o)
    BY <2>1, HoldsMore
  <2>3. \A j, k, p : Holds(j, k, p)' <=> HoldsIn(c, j, k, p)
    BY DEF Holds, HoldsIn, c
  <2>4. QED
    BY <2>2, <2>3
<1>5. "collectWhite" \in Visits /\ "collectWhite" \in CallsOf(phase)
  BY DEF Visits, CallsOf, Calls
<1>6. CollectorTypeOK'
  <2>1. work' \in Seq(Calls \X (Objects \cup {Null}))
    BY <1>0, <1>5, VisitWork DEF Left
  <2>2. cycles' \in Seq(Seq(Objects))
    BY <1>3 DEF Grown
  <2>3. QED
    BY <1>0, <1>2, <2>1, <2>2 DEF CollectorTypeOK, Allocated
<1>7. ASSUME NEW p \in fresh
      PROVE  ~Has(roots', p) /\ \A j, k \in Nat : ~Holds(j, k, p)'
  <2>1. p # o /\ ~Has(roots, p) /\ \A j, k \in Nat : ~Holds(j, k, p)
    BY DEF FreshInv
  <2>2. \A j, k \in Nat : ~Holds(j, k, p)'
    BY <1>4, <2>1
  <2>3. QED
    BY <2>1, <2>2
<1>8. /\ \A c \in Calls : \A p : Has(work', <<c, p>>) => c \in CallsOf(phase)'
      /\ FreshInv' /\ DeadInv' /\ CountInv'
      /\ Dead' = Dead /\ Doomed' = {}
  BY <1>0, <1>5, <1>6, <1>7, VisitKeeps
<1>9. PhaseInv'
  <2>1. cycles' # <<>>
    BY <1>3 DEF Grown
  <2>2. QED
    BY <1>0, <1>8, <2>1 DEF PhaseInv, Judging
<1>10. ColorInv'
  <2>1. RedInv'
    BY <1>0, <1>1, <1>2, <1>8 DEF RedInv
  <2>2. PaleInv'
    BY <1>1, <1>2, <1>8 DEF PaleInv
  <2>3. RootColors'
    BY <1>0 DEF RootColors, Judging
  <2>4. QED
    BY <2>1, <2>2, <2>3
<1>11. /\ \A j, k \in Nat : ~Holds(j, k, o)
       /\ \A j, k : Waits(j, k) /\ Waits(j, k)'
  BY <1>0 DEF OrangeMembers, Waits
<1>12. OrangeInv' /\ CyclicInv'
  <2>1. Distinct'
    BY <1>4, <1>11 DEF Distinct
  <2>2. OrangeOwned'
    BY <1>2, <1>4, <1>11 DEF OrangeOwned
  <2>3. OrangeMembers'
    BY <1>2, <1>4 DEF OrangeMembers
  <2>4. CyclicInv'
    BY <1>0 DEF CyclicInv, IsPrepared
  <2>5. QED
    BY <2>1, <2>2, <2>3, <2>4
<1>13. SeenInv'
  <2>1. \A p \in Objects \ freed : color[p] # "PURPLE"
    BY DEF SeenInv
  <2>2. \A p \in Objects \ freed : buffered[p] => Has(roots, p) \/ \E j, k \in Nat : Holds(j, k, p)
    BY DEF SeenInv
  <2>3. ASSUME NEW p \in Objects \ freed, buffered'[p] \/ color'[p] = "PURPLE"
        PROVE  Has(roots', p) \/ \E j, k \in Nat : Holds(j, k, p)'
    <3>1. CASE p = o
      BY <1>4, <3>1
    <3>2. CASE p # o
      BY <1>2, <1>4, <2>1, <2>2, <2>3, <3>2
    <3>3. QED
      BY <3>1, <3>2
  <2>4. \A p \in Objects \ freed : color'[p] # "PURPLE"
    BY <1>2, <2>1
  <2>5. QED
    BY <1>0, <1>11, <2>3, <2>4 DEF SeenInv
<1>14. QED
  BY <1>6, <1>8, <1>9, <1>10, <1>12, <1>13

LEMMA CollectRootKeeps ==
  ASSUME CollectorIInv, CollectRoot, UNCHANGED misused
  PROVE  CollectorIInv'
<1> DEFINE o == Head(roots)
<1> USE DEF CollectorIInv, DeadInv, ColorInv, OrangeInv
<1>0. /\ phase = "collect" /\ work = <<>> /\ roots # <<>> /\ roots' = Tail(roots)
      /\ increments = <<>> /\ decrements = <<>>
      /\ UNCHANGED <<refs, fresh, epoch, increments, decrements, phase, index, member, misused>>
  BY DEF CollectRoot, In, mutator, loops, PhaseInv
<1>1. /\ roots' \in Seq(Objects) /\ o \in Objects
      /\ \A p : Has(roots, p) <=> o = p \/ Has(roots', p)
  <2>1. roots \in Seq(Objects)
    BY DEF CollectorTypeOK
  <2>2. Tail(roots) \in Seq(Objects) /\ o \in Objects
    BY <1>0, <2>1
  <2>3. \A p : Has(roots, p) <=> Head(roots) = p \/ Has(Tail(roots), p)
    BY <1>0, <2>1, HasTail
  <2>4. QED
    BY <1>0, <2>2, <2>3
<1>2. o \notin fresh
  BY <1>1 DEF FreshInv
<1> HIDE DEF o
<1>3. CASE color[o] = "WHITE"
  <2>1. Collect(o, Append(cycles, <<>>), <<>>)
    BY <1>3 DEF CollectRoot, o
  <2> DEFINE buffer == Append(cycles, <<>>)
  <2>2. cycles \in Seq(Seq(Objects)) /\ <<>> \in Seq(Objects)
    BY DEF CollectorTypeOK
  <2>3. /\ buffer \in Seq(Seq(Objects)) /\ buffer # <<>>
        /\ Len(buffer) = Len(cycles) + 1 /\ Len(cycles) \in Nat
        /\ \A j \in 1..Len(cycles) : buffer[j] = cycles[j]
        /\ buffer[Len(cycles) + 1] = <<>>
    BY <2>2
  <2>4. \A j, k \in Nat : \A p : HoldsIn(buffer, j, k, p) <=> Holds(j, k, p)
    <3>1. \A j \in Nat : j \in 1..(Len(cycles) + 1) <=> j \in 1..Len(cycles) \/ j = Len(cycles) + 1
      BY <2>3
    <3>2. \A k \in Nat : ~(k \in 1..Len(<<>>))
      OBVIOUS
    <3> HIDE DEF buffer
    <3>3. QED
      BY <2>3, <3>1, <3>2 DEF HoldsIn, Holds
  <2>5. <<>> \in Seq(Calls \X (Objects \cup {Null})) /\ \A e : Has(<<>>, e) => Has(work, e)
    BY HasNone
  <2>6. UNCHANGED <<mutator, loops, misused>>
    BY DEF CollectRoot
  <2>7. Collect(o, buffer, <<>>)
    BY <2>1
  <2>8. CollectorIInv
    OBVIOUS
  <2> HIDE DEF buffer, CollectorIInv
  <2>9. QED
    BY <1>0, <1>1, <1>2, <1>3, <2>3, <2>4, <2>5, <2>6, <2>7, <2>8, CollectKeeps
<1>4. CASE color[o] # "WHITE"
  <2>1. /\ buffered' = [buffered EXCEPT ![o] = FALSE]
        /\ UNCHANGED <<field, rc, crc, color, cycles, freed, discounted, work>>
    BY <1>4 DEF CollectRoot, o
  <2>2. /\ buffered' \in [Objects -> BOOLEAN] /\ ~buffered'[o]
        /\ \A p \in Objects : p # o => buffered'[p] = buffered[p]
    BY <1>1, <2>1 DEF CollectorTypeOK
  <2>3. Doomed = {} /\ Doomed' = {} /\ Dead' = Dead /\ Gone' = Gone
    BY <1>0, <2>1 DEF Doomed, Dead, Gone
  <2>4. CollectorTypeOK'
    BY <1>0, <1>1, <2>1, <2>2 DEF CollectorTypeOK, Allocated
  <2>5. PhaseInv'
    BY <1>0, <2>1 DEF PhaseInv, Judging
  <2>6. FreshInv'
    BY <1>0, <1>1, <2>1 DEF FreshInv, Holds
  <2>7. DeadInv'
    BY <1>0, <2>1, <2>3 DEF DeadUnheld, DeadPointers, DeadCalls, DeadCounts, UnlinkInv
  <2>8. CountInv'
    BY <1>0, <2>1, <2>3, SameCounts
  <2>9. ColorInv'
    BY <1>0, <2>1, <2>3 DEF RedInv, PaleInv, RootColors, Judging
  <2>10. OrangeInv' /\ CyclicInv'
    BY <1>0, <2>1 DEF Distinct, OrangeOwned, OrangeMembers, CyclicInv, IsPrepared, Holds, Waits
  <2>11. SeenInv'
    <3>1. \A j, k, p : (Holds(j, k, p)' <=> Holds(j, k, p)) /\ (Waits(j, k)' <=> Waits(j, k))
      BY <1>0, <2>1 DEF Holds, Waits
    <3>2. \A p \in Objects \ freed : color[p] # "PURPLE"
      BY <1>0 DEF SeenInv
    <3>3. QED
      BY <1>0, <1>1, <2>1, <2>2, <2>3, <3>1, <3>2 DEF SeenInv
  <2>12. QED
    BY <2>4, <2>5, <2>6, <2>7, <2>8, <2>9, <2>10, <2>11
<1>5. QED
  BY <1>3, <1>4

LEMMA PrepareCycleKeeps ==
  ASSUME CollectorIInv, PrepareCycle, UNCHANGED misused
  PROVE  CollectorIInv'
<1> DEFINE R == Range(cycles[index])
<1> USE DEF CollectorIInv, DeadInv, ColorInv, OrangeInv
<1>0. /\ phase = "prepare" /\ phase' = "prepare" /\ work = <<>>
      /\ index \in 1..Len(cycles) /\ index \in Nat /\ Len(cycles) \in Nat
      /\ index' = index + 1 /\ member' = 0
      /\ increments = <<>> /\ decrements = <<>> /\ roots = <<>>
      /\ UNCHANGED <<field, rc, buffered, roots, cycles, freed, discounted, work, refs, fresh, epoch,
                     increments, decrements, misused>>
  BY DEF PrepareCycle, In, Loop, mutator, PhaseInv, CollectorTypeOK
<1>1. /\ R \in SUBSET Objects
      /\ \A p : p \in R <=> \E k \in Nat : Holds(index, k, p)
  BY <1>0, MembersAre
<1>2. \A p \in R : color[p] = "ORANGE" /\ p \notin Dead
  <2>1. \A p \in R : color[p] = "ORANGE"
    BY <1>0, <1>1 DEF OrangeMembers
  <2>2. QED
    BY <1>0, <1>1, <2>1, OrangeAlive
<1>3. ASSUME NEW p \in R
      PROVE  rc[p] >= Within(index, p) /\ Within(index, p) \in Nat /\ rc[p] \in Int
  <2>1. rc[p] = refs[p] + Pointers(p) /\ refs[p] \in Nat /\ Pointers(p) \in Nat
    BY <1>0, <1>1, <1>2, CountSettled
  <2>2. R \cap discounted = {}
    BY <1>2 DEF Dead
  <2>3. Within(index, p) \in Nat /\ Within(index, p) <= Pointers(p)
    BY <1>0, <2>2, WithinAll
  <2> HIDE DEF CollectorIInv, R
  <2>4. rc[p] >= Within(index, p) /\ rc[p] \in Int
    BY <2>1, <2>3, Z3
  <2>5. QED
    BY <2>3, <2>4
<1>4. /\ \A p \in R : crc'[p] = rc[p] - Within(index, p)
      /\ \A p \in Objects : p \notin R => crc'[p] = crc[p]
      /\ crc' \in [Objects -> Int]
  <2>0. crc' = [ p \in Objects |->
                    IF p \notin R THEN crc[p]
                    ELSE IF rc[p] >= Within(index, p) THEN rc[p] - Within(index, p)
                    ELSE IF rc[p] > 0 THEN 0
                    ELSE rc[p] ]
    BY DEF PrepareCycle, Within
  <2>1. \A p \in R : crc'[p] = rc[p] - Within(index, p)
    BY <1>1, <1>3, <2>0
  <2>2. \A p \in Objects : p \notin R => crc'[p] = crc[p]
    BY <2>0
  <2>3. \A p \in Objects : crc[p] \in Int
    BY DEF CollectorTypeOK
  <2>4. ASSUME NEW p \in Objects
        PROVE  crc'[p] \in Int
    <3>1. CASE p \notin R
      BY <2>2, <2>3, <3>1
    <3>2. CASE p \in R
      <4>1. rc[p] \in Int /\ Within(index, p) \in Int
        BY <1>3, <3>2
      <4>2. rc[p] - Within(index, p) \in Int
        BY <4>1
      <4>3. QED
        BY <2>1, <3>2, <4>2
    <3>3. QED
      BY <3>1, <3>2
  <2> HIDE DEF CollectorIInv, R
  <2>5. crc' \in [Objects -> Int]
    BY <2>0, <2>4
  <2>6. QED
    BY <2>1, <2>2, <2>5
<1>5. color' = color
  <2>1. color' = [p \in Objects |-> IF p \in R THEN "ORANGE" ELSE color[p]]
    BY DEF PrepareCycle
  <2>2. color \in [Objects -> Colors]
    BY DEF CollectorTypeOK
  <2>3. QED
    BY <1>2, <2>1, <2>2
<1> HIDE DEF R
<1>6. Doomed = {} /\ Doomed' = {} /\ Dead' = Dead /\ Gone' = Gone
  BY <1>0 DEF Doomed, Dead, Gone
<1>7. CollectorTypeOK'
  <2>1. index' \in Nat /\ member' \in Nat /\ phase' \in Phases
    BY <1>0 DEF Phases
  <2>2. CollectorTypeOK
    OBVIOUS
  <2> HIDE DEF CollectorIInv
  <2>3. QED
    BY <1>0, <1>4, <1>5, <2>1, <2>2 DEF CollectorTypeOK, Allocated
<1>8. PhaseInv'
  BY <1>0, HasNone DEF PhaseInv, Judging
<1>9. FreshInv'
  BY <1>0 DEF FreshInv, Holds
<1>10. DeadInv'
  BY <1>0, <1>6 DEF DeadUnheld, DeadPointers, DeadCalls, DeadCounts, UnlinkInv
<1>11. CountInv'
  BY <1>0, <1>6, SameCounts
<1>12. ColorInv'
  BY <1>0, <1>5, <1>6 DEF RedInv, PaleInv, RootColors, Judging
<1>13. /\ \A j, k, p : Holds(j, k, p)' <=> Holds(j, k, p)
       /\ \A j, k : Waits(j, k) /\ Waits(j, k)'
  BY <1>0 DEF Holds, Waits
<1>14. OrangeInv'
  BY <1>0, <1>5, <1>13 DEF Distinct, OrangeOwned, OrangeMembers
<1>15. CyclicInv'
  <2> SUFFICES ASSUME NEW j \in Nat, NEW k \in Nat, NEW p \in Objects,
                      Holds(j, k, p), j < index + 1, color[p] = "ORANGE", Quiet(p)
               PROVE  crc'[p] = rc[p] - Within(j, p)
    <3>1. \A j, p : Within(j, p)' = Within(j, p)
      BY <1>0, PointersHere, PointersThen
    <3>2. \A p : Quiet(p)' <=> Quiet(p)
      BY <1>0 DEF Quiet
    <3>3. \A j : IsPrepared(j)' => j < index + 1
      BY <1>0 DEF IsPrepared
    <3>4. QED
      BY <1>0, <1>5, <1>13, <3>1, <3>2, <3>3 DEF CyclicInv
  <2>1. CASE j = index
    <3>1. p \in R
      BY <1>1, <2>1
    <3>2. QED
      BY <1>4, <2>1, <3>1
  <2>2. CASE j # index
    <3>1. j < index
      BY <1>0, <2>2
    <3>2. p \notin R
      BY <1>0, <1>1, <2>2 DEF Distinct
    <3>3. crc[p] = rc[p] - Within(j, p)
      BY <1>0, <1>13, <3>1 DEF CyclicInv, IsPrepared
    <3>4. QED
      BY <1>4, <3>2, <3>3
  <2>3. QED
    BY <2>1, <2>2
<1>16. SeenInv'
  BY <1>0, <1>5, <1>6, <1>13 DEF SeenInv
<1>17. QED
  BY <1>7, <1>8, <1>9, <1>10, <1>11, <1>12, <1>14, <1>15, <1>16

-------------------------------------------------------------------------------
(* Every step keeps the invariant.                                         *)

LEMMA CallKeeps ==
  ASSUME CollectorIInv, work # <<>>, Call, UNCHANGED <<mutator, loops, misused>>
  PROVE  CollectorIInv'
<1> DEFINE call == Head(work)[1]
           o == Head(work)[2]
           rest == Tail(work)
<1>1. /\ Head(work) = <<call, o>>
      /\ call \in CallsOf(phase) /\ call \in Calls
      /\ o \in Objects \cup {Null}
      /\ rest \in Seq(Calls \X (Objects \cup {Null}))
      /\ \A e : Has(work, e) <=> <<call, o>> = e \/ Has(rest, e)
  BY NextCall
<1>2. \/ o = Null /\ work' = rest /\ UNCHANGED objects
      \/ o # Null /\ call = "removeReferenceReal" /\ RemoveReferenceReal(o, rest)
      \/ o # Null /\ call = "released" /\ Released(o, rest)
      \/ o # Null /\ call = "cyclicDecrement" /\ CyclicDecrement(o, rest)
      \/ o # Null /\ call = "markChild" /\ MarkChild(o, rest)
      \/ o # Null /\ call = "scanRoot" /\ ScanRoot(o, rest)
      \/ o # Null /\ call = "collectWhite" /\ CollectWhite(o, rest)
  BY DEF Call
<1>3. CASE o = Null /\ work' = rest /\ UNCHANGED objects
  BY <1>3, SkipKeeps
<1>4. ASSUME o # Null
      PROVE  o \in Objects /\ o \notin fresh
  BY <1>1, <1>4 DEF CollectorIInv, FreshInv
<1>5. \A e : Has(rest, e) => Has(work, e)
  BY <1>1
<1>6. UNCHANGED mutator /\ UNCHANGED loops /\ UNCHANGED misused
  OBVIOUS
<1>7. CASE o # Null /\ call = "removeReferenceReal" /\ RemoveReferenceReal(o, rest)
  <2>1. o \in Objects /\ Head(work) = <<"removeReferenceReal", o>>
    BY <1>1, <1>4, <1>7
  <2>2. CASE rc[o] - 1 <= 0
    <3> HIDE DEF o
    <3>1. QED
      BY <1>7, <2>1, <2>2, ReleaseKeeps
  <2>3. CASE ~(rc[o] - 1 <= 0)
    <3>1. /\ rc' = [rc EXCEPT ![o] = @ - 1] /\ AddPossibleCycleRoot(o) /\ work' = Tail(work)
          /\ UNCHANGED <<field, crc, cycles, freed, discounted>>
      BY <1>7, <2>3 DEF RemoveReferenceReal
    <3> HIDE DEF o
    <3>2. QED
      BY <2>1, <3>1, RootKeeps
  <2>4. QED
    BY <2>2, <2>3
<1>8. CASE o # Null /\ call = "released" /\ Released(o, rest)
  <2>1. o \in Objects /\ Head(work) = <<"released", o>>
    BY <1>1, <1>4, <1>8
  <2> HIDE DEF o
  <2>2. QED
    BY <1>8, <2>1, ReleasedKeeps
<1>9. CASE o # Null /\ call = "cyclicDecrement" /\ CyclicDecrement(o, rest)
  <2>1. o \in Objects /\ Head(work) = <<"cyclicDecrement", o>>
    BY <1>1, <1>4, <1>9
  <2>2. CASE color[o] = "RED" /\ work' = rest /\ UNCHANGED objects
    BY <1>9, <2>2, SkipKeeps
  <2>3. CASE /\ color[o] = "ORANGE"
             /\ rc' = [rc EXCEPT ![o] = @ - 1]
             /\ crc' = [crc EXCEPT ![o] = @ - 1]
             /\ work' = rest
             /\ UNCHANGED <<field, color, buffered, roots, cycles, freed, discounted>>
    <3> HIDE DEF o
    <3>1. QED
      BY <2>1, <2>3, OrangeDecrementKeeps
  <2>4. CASE /\ color[o] \notin {"RED", "ORANGE"}
             /\ work' = <<<<"removeReferenceReal", o>>>> \o rest
             /\ UNCHANGED objects
    <3> HIDE DEF o
    <3>1. QED
      BY <2>1, <2>4, OutsideDecrementKeeps
  <2>5. QED
    BY <1>9, <2>2, <2>3, <2>4 DEF CyclicDecrement
<1>10. CASE o # Null /\ call = "markChild" /\ MarkChild(o, rest)
  <2>1. phase = "mark" /\ Has(work, <<"markChild", o>>)
    BY <1>1, <1>10 DEF CallsOf
  <2>2. o \in Objects \ Dead
    BY <1>4, <1>10, <2>1 DEF CollectorIInv, DeadInv, DeadCalls
  <2>3. crc[o] - 1 \in Int
    BY <2>2 DEF CollectorIInv, CollectorTypeOK
  <2>4. MarkGray(o, crc[o] - 1, rest) /\ UNCHANGED roots
    BY <1>10 DEF MarkChild
  <2>5. /\ phase' = "mark" /\ index' \in Nat /\ index' > 0 /\ index' <= Len(roots) + 1
        /\ member' \in Nat /\ index' = index
    BY <2>1 DEF loops, CollectorIInv, CollectorTypeOK, PhaseInv
  <2> HIDE DEF o, rest
  <2>6. QED
    BY <1>1, <1>5, <1>6, <2>1, <2>2, <2>3, <2>4, <2>5, MarkKeeps
<1>11. CASE o # Null /\ call = "scanRoot" /\ ScanRoot(o, rest)
  <2>1. phase = "scan" /\ o \in Objects
    BY <1>1, <1>4, <1>11 DEF CallsOf
  <2>2. /\ phase' = "scan" /\ index' \in Nat /\ index' > 0 /\ index' <= Len(roots) + 1
        /\ member' \in Nat
    BY <2>1 DEF loops, CollectorIInv, CollectorTypeOK, PhaseInv
  <2> HIDE DEF o, rest
  <2>3. QED
    BY <1>1, <1>5, <1>6, <1>11, <2>1, <2>2, ScanRootKeeps
<1>12. CASE o # Null /\ call = "collectWhite" /\ CollectWhite(o, rest)
  <2>1. phase = "collect" /\ o \in Objects /\ o \notin fresh
    BY <1>1, <1>4, <1>12 DEF CallsOf
  <2>2. CASE color[o] # "WHITE" /\ work' = rest /\ UNCHANGED objects
    BY <1>12, <2>2, SkipKeeps
  <2>3. CASE color[o] = "WHITE" /\ Collect(o, cycles, rest) /\ UNCHANGED roots
    <3>1. cycles \in Seq(Seq(Objects)) /\ cycles # <<>> /\ roots' \in Seq(Objects)
      BY <2>1, <2>3 DEF CollectorIInv, CollectorTypeOK, PhaseInv
    <3>2. \A j, k \in Nat : \A p : HoldsIn(cycles, j, k, p) <=> Holds(j, k, p)
      BY DEF HoldsIn, Holds
    <3>3. (\A p : Has(roots', p) => Has(roots, p)) /\ (\A p : Has(roots, p) /\ p # o => Has(roots', p))
      BY <2>3
    <3> HIDE DEF o, rest
    <3>4. QED
      BY <1>1, <1>5, <1>6, <2>1, <2>3, <3>1, <3>2, <3>3, CollectKeeps
  <2>4. QED
    BY <1>12, <2>2, <2>3 DEF CollectWhite
<1>13. QED
  BY <1>2, <1>3, <1>7, <1>8, <1>9, <1>10, <1>11, <1>12

(* A step that changes nothing, or only finds that it went to freed memory. *)
LEMMA SameKeeps ==
  ASSUME CollectorIInv, UNCHANGED <<objects, work, mutator, loops>>, misused' \in BOOLEAN
  PROVE  CollectorIInv'
<1> USE DEF objects, mutator, loops, CollectorIInv, DeadInv, ColorInv, OrangeInv
<1>1. CollectorTypeOK'
  BY DEF CollectorTypeOK, Allocated
<1>2. PhaseInv'
  BY DEF PhaseInv, CallsOf
<1>3. Doomed' = Doomed /\ Dead' = Dead /\ Gone' = Gone
  BY DEF Doomed, Dead, Gone
<1>4. /\ \A j, k, p : Holds(j, k, p)' <=> Holds(j, k, p)
      /\ \A j, k : Waits(j, k)' <=> Waits(j, k)
      /\ \A j : IsPrepared(j)' <=> IsPrepared(j)
      /\ \A p : Quiet(p)' <=> Quiet(p)
      /\ \A j, p : Within(j, p)' = Within(j, p)
  <2>1. \A j, p : Within(j, p)' = Within(j, p)
    BY PointersHere, PointersThen
  <2>2. QED
    BY <2>1 DEF Holds, Waits, IsPrepared, Quiet
<1>5. FreshInv' /\ Distinct' /\ OrangeOwned' /\ OrangeMembers'
  BY <1>4 DEF FreshInv, Distinct, OrangeOwned, OrangeMembers
<1>6. DeadInv'
  BY <1>3 DEF DeadUnheld, DeadPointers, DeadCalls, DeadCounts, UnlinkInv
<1>7. CountInv'
  BY <1>3, SameCounts
<1>8. ColorInv'
  BY <1>3 DEF RedInv, PaleInv, RootColors
<1>9. CyclicInv'
  BY <1>4 DEF CyclicInv
<1>10. SeenInv'
  BY <1>3, <1>4 DEF SeenInv
<1>11. QED
  BY <1>1, <1>2, <1>5, <1>6, <1>7, <1>8, <1>9, <1>10

LEMMA BoundaryKeeps ==
  ASSUME CollectorIInv, EpochBoundary, NextTouched \cap freed = {}, UNCHANGED misused
  PROVE  CollectorIInv'
<1>1. CASE work # <<>> /\ Call /\ UNCHANGED <<mutator, loops>>
  BY <1>1, CallKeeps
<1>2. CASE ApplyIncrement
  BY <1>2, ApplyIncrementKeeps
<1>3. CASE ApplyDecrement
  BY <1>3, ApplyDecrementKeeps
<1>4. CASE Flushed
  BY <1>4, FlushedKeeps
<1>5. CASE FreeCycles
  <2>1. CASE Judge
    BY <2>1, JudgeKeeps
  <2>2. CASE UnlinkMember
    BY <2>2, UnlinkMemberKeeps
  <2>3. CASE FreeMembers
    BY <2>3, FreeMembersKeeps
  <2>4. CASE RefurbishMember
    BY <2>4, RefurbishMemberKeeps
  <2>5. CASE Refurbished
    BY <2>5, RefurbishedKeeps
  <2>6. CASE ClearCycles
    BY <2>6, ClearCyclesKeeps
  <2>7. QED
    BY <1>5, <2>1, <2>2, <2>3, <2>4, <2>5, <2>6 DEF FreeCycles
<1>6. CASE CollectCycles
  <2>1. CASE MarkRoot
    <3>1. phase = "mark" /\ work = <<>> /\ index <= Len(roots)
      BY <2>1 DEF MarkRoot, In
    <3>2. NextTouched = {roots[index]}
      BY <3>1 DEF NextTouched
    <3>3. QED
      BY <2>1, <3>2, MarkRootKeeps
  <2>2. CASE Marked
    BY <2>2, MarkedKeeps
  <2>3. CASE ScanNextRoot
    BY <2>3, ScanNextRootKeeps
  <2>4. CASE Scanned
    BY <2>4, ScannedKeeps
  <2>5. CASE CollectRoot
    BY <2>5, CollectRootKeeps
  <2>6. CASE Collected
    BY <2>6, CollectedKeeps
  <2>7. QED
    BY <1>6, <2>1, <2>2, <2>3, <2>4, <2>5, <2>6 DEF CollectCycles
<1>7. CASE PrepareCycle
  BY <1>7, PrepareCycleKeeps
<1>8. CASE Prepared
  BY <1>8, PreparedKeeps
<1>9. QED
  BY <1>1, <1>2, <1>3, <1>4, <1>5, <1>6, <1>7, <1>8 DEF EpochBoundary

LEMMA CollectorStepKeeps == CollectorIInv /\ [CollectorNext]_collectorVars => CollectorIInv'
<1> SUFFICES ASSUME CollectorIInv, [CollectorNext]_collectorVars
             PROVE  CollectorIInv'
  OBVIOUS
<1>1. misused \in BOOLEAN
  BY DEF CollectorIInv, CollectorTypeOK
<1>2. CASE Mutating
  <2>1. ASSUME NEW o \in Objects, AllocObject(o)
        PROVE  CollectorIInv'
    BY <2>1, AllocObjectKeeps
  <2>2. ASSUME NEW o \in Objects, CopyRef(o)
        PROVE  CollectorIInv'
    BY <2>2, CopyRefKeeps
  <2>3. ASSUME NEW o \in Objects, DropRef(o)
        PROVE  CollectorIInv'
    BY <2>3, DropRefKeeps
  <2>4. ASSUME NEW o \in Objects, NEW i \in Fields, NEW v \in Objects \cup {Null}, SetObject(o, i, v)
        PROVE  CollectorIInv'
    BY <2>4, SetObjectKeeps
  <2>5. CASE LeaveFrame
    BY <2>5, LeaveFrameKeeps
  <2>6. QED
    BY <1>2, <2>1, <2>2, <2>3, <2>4, <2>5 DEF Mutating
<1>3. CASE Touching(NextTouched, EpochBoundary)
  <2>1. CASE NextTouched \cap freed = {}
    BY <1>3, <2>1, BoundaryKeeps DEF Touching
  <2>2. CASE NextTouched \cap freed # {}
    <3>1. misused' = TRUE /\ UNCHANGED <<objects, work, mutator, loops>>
      BY <1>3, <2>2 DEF Touching
    <3>2. QED
      BY <3>1, SameKeeps
  <2>3. QED
    BY <2>1, <2>2
<1>4. CASE UNCHANGED collectorVars
  BY <1>1, <1>4, SameKeeps DEF collectorVars
<1>5. QED
  BY <1>2, <1>3, <1>4 DEF CollectorNext

LEMMA CollectorInductive == CollectorSpec => []CollectorIInv
BY InitCollector, CollectorStepKeeps, PTL DEF CollectorSpec

(* Counts, colors, flags, buffers, logs and calls keep their types. *)
THEOREM CollectorTypeCorrect == CollectorSpec => []CollectorTypeOK
<1>1. CollectorIInv => CollectorTypeOK
  BY DEF CollectorIInv
<1>2. QED
  BY <1>1, CollectorInductive, PTL

(* No object that the mutator can reach is ever freed: not by its count, not as a *)
(* root that was released while it was buffered, and not as a member of a         *)
(* candidate that passed both tests (Object.cpp, CycleCollector.cpp).             *)
THEOREM NoLiveFreedCorrect == CollectorSpec => []NoLiveFreed
<1>1. CollectorIInv => NoLiveFreed
  <2> SUFFICES ASSUME CollectorIInv, NEW o, o \in Live, o \in freed
               PROVE  FALSE
    BY DEF NoLiveFreed
  <2> DEFINE U == Objects \ Dead
  <2>1. freed \subseteq Dead /\ U \in SUBSET Objects
    BY DEF Dead
  <2>2. { p \in Objects : refs[p] > 0 } \cap Objects \subseteq U
    <3>1. \A p \in Objects : p \in Dead => ~(refs[p] > 0)
      BY DEF CollectorIInv, DeadInv, DeadUnheld
    <3>2. QED
      BY <3>1
  <2>3. \A p \in U, i \in Fields : field[p][i] \in Objects => field[p][i] \in U
    BY DEF CollectorIInv, DeadInv, DeadPointers, Dead, Gone
  <2>4. o \in U
    BY <2>1, <2>2, <2>3 DEF Live, Spread
  <2>5. QED
    BY <2>1, <2>4
<1>2. QED
  BY <1>1, CollectorInductive, PTL

(* Deferring the counts loses nothing: with what the log still holds, an object's *)
(* count is the number of references to it (Object.cpp, MutationBuffer::flush).   *)
THEOREM CountsExactCorrect == CollectorSpec => []CountsExact
<1>1. CollectorIInv => CountsExact
  <2> SUFFICES ASSUME CollectorIInv, phase = "run", NEW o \in Allocated \ freed
               PROVE  rc[o] + Times(increments, o) - Times(decrements, o) = refs[o] + Pointers(o)
    BY DEF CountsExact
  <2>0. o \in Objects /\ CollectorTypeOK
    BY DEF Allocated, CollectorIInv
  <2>1. work = <<>> /\ Doomed = {} /\ Gone = discounted \cup freed /\ Dead = discounted \cup freed
    BY Running
  <2>2. CASE o \notin Dead
    <3>1. rc[o] + Times(increments, o) - Times(decrements, o) - Owed(o) = refs[o] + Pointers(o)
      BY <2>0, <2>2 DEF CollectorIInv, CountInv, Balanced
    <3>2. Owed(o) = 0
      BY <2>0, <2>1, HasNone, NothingOwed
    <3>3. rc[o] \in Int
      BY <2>0, TypesOfCounts
    <3>4. Times(increments, o) \in Nat /\ Times(decrements, o) \in Nat
      BY <2>0, TypesOfCounts
    <3>5. rc[o] + Times(increments, o) - Times(decrements, o) - 0
            = rc[o] + Times(increments, o) - Times(decrements, o)
      BY <3>3, <3>4, Z3
    <3>6. QED
      BY <3>1, <3>2, <3>5
  <2>3. CASE o \in Dead
    <3>1. rc[o] = 0 /\ refs[o] = 0 /\ ~Has(increments, o) /\ ~Has(decrements, o)
      BY <2>1, <2>3 DEF CollectorIInv, DeadInv, DeadCounts, DeadUnheld
    <3>2. Times(increments, o) = 0 /\ Times(decrements, o) = 0
      <4>1. increments \in Seq(Objects) /\ decrements \in Seq(Objects)
        BY <2>0 DEF CollectorTypeOK
      <4>2. QED
        BY <3>1, <4>1, HasTimes
    <3>3. Pointers(o) = 0
      <4>1. \A p \in Objects \ discounted, i \in Fields : field[p][i] # o
        BY <2>1, <2>3 DEF CollectorIInv, DeadInv, DeadPointers
      <4>2. PointersIn(field, Objects \ discounted, o) = 0
        BY <4>1, PointersZero
      <4>3. QED
        BY <4>2, PointersHere
    <3>4. QED
      BY <3>1, <3>2, <3>3
  <2>4. QED
    BY <2>2, <2>3
<1>2. QED
  BY <1>1, CollectorInductive, PTL

(* The collector never loses sight of an object that may be garbage: when the    *)
(* mutator goes on, every ORANGE object is in exactly one candidate cycle, and     *)
(* every flagged or PURPLE object is in a buffer that the next boundary looks at   *)
(* (CycleCollector.cpp, FreeCycles to SigmaPreparation).                           *)
THEOREM CandidatesKeptCorrect == CollectorSpec => []CandidatesKept
<1>1. CollectorIInv => CandidatesKept
  <2> SUFFICES ASSUME CollectorIInv
               PROVE  CandidatesKept
    OBVIOUS
  <2>1. CollectorTypeOK
    BY DEF CollectorIInv
  <2>2. \A j, o : (\E k \in Nat : Holds(j, k, o)) <=> j \in DOMAIN cycles /\ o \in Range(cycles[j])
    <3>1. DOMAIN cycles = 1..Len(cycles)
      BY <2>1 DEF CollectorTypeOK
    <3>2. \A j \in 1..Len(cycles) : \A o : o \in Range(cycles[j]) <=> \E k \in Nat : Holds(j, k, o)
      BY MembersAre
    <3>3. QED
      BY <3>1, <3>2 DEF Holds
  <2>3. CandidatesOwned
    <3> SUFFICES ASSUME phase = "run", NEW o \in Objects, color[o] = "ORANGE"
                 PROVE  Cardinality({ i \in DOMAIN cycles : o \in Range(cycles[i]) }) = 1
      BY DEF CandidatesOwned
    <3>1. PICK j \in Nat, k \in Nat : Holds(j, k, o)
      BY DEF CollectorIInv, OrangeInv, OrangeOwned
    <3>2. \A i \in Nat : (\E l \in Nat : Holds(i, l, o)) <=> i = j
      BY <3>1 DEF CollectorIInv, OrangeInv, Distinct
    <3>3. DOMAIN cycles \subseteq Nat
      BY <2>1 DEF CollectorTypeOK
    <3>4. { i \in DOMAIN cycles : o \in Range(cycles[i]) } = {j}
      BY <2>2, <3>1, <3>2, <3>3
    <3>5. QED
      BY <3>4, FS_Singleton
  <2>4. BufferedSeen
    <3> SUFFICES ASSUME phase = "run", NEW o \in Objects \ freed, buffered[o] \/ color[o] = "PURPLE"
                 PROVE  o \in Candidates \cup Range(roots)
      BY DEF BufferedSeen
    <3>1. Has(roots, o) \/ \E j, k \in Nat : Holds(j, k, o)
      BY Running DEF CollectorIInv, SeenInv
    <3>2. CASE Has(roots, o)
      BY <2>1, <3>2, RangeOf DEF Has, CollectorTypeOK
    <3>3. CASE \E j, k \in Nat : Holds(j, k, o)
      BY <2>2, <3>3 DEF Candidates
    <3>4. QED
      BY <3>1, <3>2, <3>3
  <2>5. QED
    BY <2>1, <2>3, <2>4 DEF CandidatesKept
<1>2. QED
  BY <1>1, CollectorInductive, PTL

===============================================================================
