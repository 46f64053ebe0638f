------------------------------- MODULE Heap_proofs -------------------------------
(***************************************************************************)
(* TLAPS proofs about what runs beside the threads that use the heap: the  *)
(* collector's daemon (DaemonWake), for any number of mutators and         *)
(* requests, the data that native threads share (NativeData), for any      *)
(* finite set of threads, any objects, size of arrays and bounds, and the  *)
(* arguments that cross to native code and back (ArgumentPassing), for any *)
(* descriptors, values and widths.                                         *)
(***************************************************************************)
EXTENDS DaemonWake, NativeData, ArgumentPassing, FunctionTheorems, FiniteSetTheorems,
        SequenceTheorems, WellFoundedInduction, TLAPS

(* The main thread launches the daemon before anybody else can wake it, and   *)
(* the daemon ends only when it was told to.                                  *)
LaunchInv ==
  /\ clientPc[Main] \in {"spawn", "attach", "wakeStore"} => mSleeping /\ ~entered
  /\ ~Launched => ~finalize /\ \A m \in Mutators : clientPc[m] = "idle"
  /\ nonDaemonThreads =
       IF clientPc[Main] \in {"spawn", "attach"} \/ daemonPc = "gone" THEN 0 ELSE 1
  /\ daemonPc \in {"ending", "gone"} => finalize

(* A daemon that has entered its loop and finds itself awake was asked for a  *)
(* collection it has not made: the wake-up of its launch is behind it.        *)
WokenInv ==
  entered /\ ~mSleeping /\ daemonPc \in {"check", "block", "waiting"} =>
    collections < requests

IInv == TypeOK /\ LaunchInv /\ WokenInv /\ CollectsOnRequest

-------------------------------------------------------------------------------

(* The initial states satisfy the inductive invariant. *)
LEMMA InitIInv == Init => IInv
<1> SUFFICES ASSUME Init PROVE IInv
  OBVIOUS
<1>1. TypeOK
  BY DEF Init, TypeOK, DaemonPcs, ClientPcs, Clients
<1>2. LaunchInv
  BY DaemonAssumption DEF Init, LaunchInv, Launched, Clients
<1>3. WokenInv /\ CollectsOnRequest
  BY DEF Init, WokenInv, CollectsOnRequest
<1> QED
  BY <1>1, <1>2, <1>3 DEF IInv

(* The main thread's launch preserves it. *)
LEMMA LaunchStep ==
  ASSUME IInv, Launch
  PROVE  IInv'
<1> USE DaemonAssumption
    DEF IInv, TypeOK, LaunchInv, WokenInv, CollectsOnRequest, Launched, Clients,
        ClientPcs, DaemonPcs, Go, ready, counts
<1>1. CASE SpawnDaemon
  BY <1>1 DEF SpawnDaemon
<1>2. CASE AttachDaemon
  BY <1>2 DEF AttachDaemon
<1>3. CASE LaunchWake
  BY <1>3 DEF LaunchWake
<1>4. CASE LaunchNotify
  BY <1>4 DEF LaunchNotify, Notified
<1>5. CASE SetReady
  BY <1>5 DEF SetReady
<1> QED
  BY <1>1, <1>2, <1>3, <1>4, <1>5 DEF Launch

(* The daemon's steps preserve it: in particular the check that sends it to   *)
(* its collection.                                                            *)
LEMMA DaemonPreserves ==
  ASSUME IInv, DaemonStep \/ SpuriousWake
  PROVE  IInv'
<1> USE DaemonAssumption
    DEF IInv, TypeOK, LaunchInv, WokenInv, CollectsOnRequest, Launched, Clients,
        ClientPcs, DaemonPcs, ready, counts
<1>1. CASE Hibernate
  BY <1>1 DEF Hibernate
<1>2. CASE Check
  BY <1>2 DEF Check
<1>3. CASE Block \/ SpuriousWake
  BY <1>3 DEF Block, SpuriousWake
<1>4. CASE LockReady
  BY <1>4 DEF LockReady
<1>5. CASE Collect
  BY <1>5 DEF Collect
<1>6. CASE EndCollection
  BY <1>6 DEF EndCollection, Nobody
<1>7. CASE EndDaemon
  BY <1>7 DEF EndDaemon
<1> QED
  BY <1>1, <1>2, <1>3, <1>4, <1>5, <1>6, <1>7 DEF DaemonStep

(* A client's steps preserve it: a wake-up is a request. *)
LEMMA ClientPreserves ==
  ASSUME IInv, NEW c \in Clients, Request(c) \/ ClientStep(c)
  PROVE  IInv'
<1> USE DaemonAssumption
    DEF IInv, TypeOK, LaunchInv, WokenInv, CollectsOnRequest, Launched, Clients,
        ClientPcs, DaemonPcs, Go, ready, counts
<1>1. CASE Request(c)
  BY <1>1 DEF Request
<1>2. CASE LockRequest(c)
  BY <1>2 DEF LockRequest
<1>3. CASE StoreRequest(c)
  <2>1. Launched /\ Launched'
    BY <1>3 DEF StoreRequest
  <2>2. TypeOK'
    <3>1. faulted' \in BOOLEAN
      <4>1. faulted' = (daemonPc = "gone")
        BY <1>3, Zenon DEF StoreRequest
      <4> QED
        BY <4>1, Zenon
    <3>2. clientPc' \in [Clients -> ClientPcs]
      BY <1>3 DEF StoreRequest
    <3>3. requests' \in Nat
      BY <1>3 DEF StoreRequest
    <3>4. mSleeping' \in BOOLEAN
      <4>1. mSleeping' = FALSE
        BY <1>3 DEF StoreRequest
      <4> QED
        BY <4>1
    <3>5. UNCHANGED <<daemonPc, entered, nonDaemonThreads, readyMutex, isReady,
                      finalize, collections>>
      BY <1>3 DEF StoreRequest
    <3> QED
      BY <3>1, <3>2, <3>3, <3>4, <3>5
  <2>3. collections <= requests /\ collections' = collections /\ requests' = requests + 1
    BY <1>3 DEF StoreRequest
  <2>4. /\ UNCHANGED <<nonDaemonThreads, daemonPc, finalize>>
        /\ clientPc'[Main] \in {clientPc[Main], "notify"}
        /\ clientPc[Main] \notin {"spawn", "attach", "wakeStore"}
    BY <1>3, <2>1 DEF StoreRequest
  <2>5. LaunchInv'
    BY <2>1, <2>4
  <2>6. WokenInv' /\ CollectsOnRequest'
    BY <2>3, <2>4
  <2> QED
    BY <2>2, <2>5, <2>6
<1>4. CASE NotifyRequest(c)
  BY <1>4 DEF NotifyRequest, Notified, Nobody
<1> QED
  BY <1>1, <1>2, <1>3, <1>4 DEF ClientStep

(* The end of the program preserves it. *)
LEMMA ShutdownPreserves ==
  ASSUME IInv, ProgramEnds \/ Shutdown
  PROVE  IInv'
<1> USE DaemonAssumption
    DEF IInv, TypeOK, LaunchInv, WokenInv, CollectsOnRequest, Launched, Clients,
        ClientPcs, DaemonPcs, Go, ready, counts
<1>1. CASE ProgramEnds
  BY <1>1 DEF ProgramEnds
<1>2. CASE WaitUntilReady
  BY <1>2 DEF WaitUntilReady
<1>3. CASE Finalize
  BY <1>3 DEF Finalize
<1>4. CASE WaitForAllThreads
  BY <1>4 DEF WaitForAllThreads
<1> QED
  BY <1>1, <1>2, <1>3, <1>4 DEF Shutdown

(* The inductive invariant is inductive. *)
LEMMA IInvStep == IInv /\ [Next]_vars => IInv'
<1>1. ASSUME IInv, Next
      PROVE  IInv'
  BY <1>1, LaunchStep, DaemonPreserves, ClientPreserves, ShutdownPreserves DEF Next
<1>2. ASSUME IInv, UNCHANGED vars
      PROVE  IInv'
  BY <1>2
  DEF IInv, TypeOK, LaunchInv, WokenInv, CollectsOnRequest, Launched, vars
<1> QED
  BY <1>1, <1>2

(* The inductive invariant of the specification. *)
LEMMA Invariance == Spec => []IInv
BY InitIInv, IInvStep, PTL DEF Spec

(* Every variable keeps its type: in particular the end of the daemon is      *)
(* counted once, after it was counted in.                                     *)
THEOREM TypeCorrect == Spec => []TypeOK
<1>1. IInv => TypeOK
  BY DEF IInv
<1> QED
  BY <1>1, Invariance, PTL

(* The collector collects only when it was asked to, however many mutators    *)
(* wake it and wherever in hibernate() they find it.                          *)
THEOREM CollectsOnRequestCorrect == Spec => []CollectsOnRequest
<1>1. IInv => CollectsOnRequest
  BY DEF IInv
<1> QED
  BY <1>1, Invariance, PTL

-------------------------------------------------------------------------------
(* The data that native threads share.                                     *)

(* Where a thread is says what is shared, and a copy stays within the array. *)
Placed(where, a, what) ==
  /\ where = "set" => a.cell = Field
  /\ where \in {"copy", "put"} =>
       /\ what = "elements"
       /\ a.cell \in Elements
       /\ a.cell + a.count <= Size /\ a.source + a.count <= Size
       /\ a.left <= a.count
  /\ where = "put" => a.left > 0

Places == \A t \in Threads : Placed(at[t], args[t], sharing)

(* The elements that a copy has yet to move, counted from its first. *)
Remaining(a) == IF Overlapping(a) THEN 0..(a.left - 1) ELSE (a.count - a.left)..(a.count - 1)

(* A copy that nobody disturbs has done what it has done, and what it has yet to *)
(* move is where it was.                                                         *)
Copied(where, a, contents) ==
  where \in {"copy", "put"} /\ a.alone =>
    /\ a.goal \in [Elements -> Refs]
    /\ \A i \in Elements : i - a.cell \notin Remaining(a) => contents[i] = a.goal[i]
    /\ \A k \in Remaining(a) : contents[a.source + k] = a.goal[a.cell + k]
    /\ where = "put" => a.value = a.goal[a.cell + NextElement(a)]

Progress == \A t \in Threads : Copied(at[t], args[t], cells)

(* Until copies overlap there is one at most, and it is the array with what was *)
(* written to it.                                                               *)
Copies ==
  sharing = "longs" /\ ~overlapped =>
    /\ \A t, u \in Threads : copies[t].held /\ copies[u].held => t = u
    /\ \A t \in Threads : copies[t].held =>
         \A i \in Elements : copies[t].data[i] = longs[i] + copies[t].written[i]

DataInv ==
  /\ DataTypeOK /\ Places /\ CountsExactUnlessTainted /\ Progress /\ Copies /\ WritesKept

-------------------------------------------------------------------------------
(* The numbers that the counts are made of.                                *)

LEMMA CountsSum ==
  ASSUME NEW c \in Int, NEW cc \in Int, NEW s \in Int, NEW ss \in Int, NEW l \in Int,
         NEW ll \in Int, NEW i \in Int, NEW ii \in Int, NEW d \in Int, NEW dd \in Int,
         cc - c = (ss - s) + (ll - l) + (ii - i) - (dd - d)
  PROVE  cc = c + (ss - s) + (ll - l) + (ii - i) - (dd - d)
OBVIOUS

(* A set that changes by one element at most. *)
LEMMA OneElement ==
  ASSUME NEW A, NEW B, NEW x, IsFiniteSet(A),
         \A y : y # x => (y \in A <=> y \in B)
  PROVE  /\ IsFiniteSet(B)
         /\ Cardinality(A) \in Nat /\ Cardinality(B) \in Nat
         /\ Cardinality(B) =
              Cardinality(A) + (IF x \in B THEN 1 ELSE 0) - (IF x \in A THEN 1 ELSE 0)
<1>1. IsFiniteSet(A \ {x}) /\ Cardinality(A \ {x}) \in Nat /\ Cardinality(A) \in Nat
  BY FS_RemoveElement, FS_CardinalityType
<1>2. Cardinality(A \ {x}) = IF x \in A THEN Cardinality(A) - 1 ELSE Cardinality(A)
  BY FS_RemoveElement
<1>3. CASE x \in B
  <2>1. B = (A \ {x}) \cup {x}
    BY <1>3
  <2>2. IsFiniteSet(B) /\ Cardinality(B) = Cardinality(A \ {x}) + 1
    BY <1>1, <2>1, FS_AddElement
  <2>3. QED
    BY <1>1, <1>2, <1>3, <2>2
<1>4. CASE x \notin B
  <2>1. B = A \ {x}
    BY <1>4
  <2>2. QED
    BY <1>1, <1>2, <1>4, <2>1
<1>5. QED
  BY <1>3, <1>4

LEMMA CellsFinite == IsFiniteSet(Cells)
<1>1. Size - 1 \in Int
  BY DataAssumption
<1>2. IsFiniteSet(Elements)
  BY <1>1, FS_Interval DEF Elements
<1>3. IsFiniteSet({Field, Global})
  <2>1. IsFiniteSet({Field}) /\ {Field, Global} = {Field} \cup {Global}
    BY FS_Singleton
  <2>2. QED
    BY <2>1, FS_AddElement
<1>4. QED
  BY <1>2, <1>3, FS_Union DEF Cells

LEMMA CellsFew ==
  ASSUME NEW f, NEW o
  PROVE  IsFiniteSet({ d \in Cells : f[d] = o }) /\ CellsOf(f, o) \in Nat
<1>1. { d \in Cells : f[d] = o } \in SUBSET Cells
  OBVIOUS
<1>2. QED
  BY <1>1, CellsFinite, FS_Subset, FS_CardinalityType DEF CellsOf

(* One place takes another reference. *)
CellStored(f, g, c, v) == f \in [Cells -> Refs] /\ g = [f EXCEPT ![c] = v]

LEMMA CellsOfStored ==
  ASSUME NEW f, NEW g, NEW c \in Cells, NEW v, NEW o, CellStored(f, g, c, v)
  PROVE  /\ CellsOf(f, o) \in Nat /\ CellsOf(g, o) \in Nat
         /\ CellsOf(g, o) =
              CellsOf(f, o) + (IF v = o THEN 1 ELSE 0) - (IF f[c] = o THEN 1 ELSE 0)
<1> DEFINE A == { d \in Cells : f[d] = o }
           B == { d \in Cells : g[d] = o }
<1>1. IsFiniteSet(A)
  BY CellsFew
<1>2. \A d : d # c => (d \in A <=> d \in B)
  BY DEF CellStored
<1>3. (c \in A <=> f[c] = o) /\ (c \in B <=> v = o)
  BY DEF CellStored
<1> HIDE DEF A, B
<1>4. /\ Cardinality(A) \in Nat /\ Cardinality(B) \in Nat
      /\ Cardinality(B) = Cardinality(A) + (IF c \in B THEN 1 ELSE 0) - (IF c \in A THEN 1 ELSE 0)
  BY <1>1, <1>2, OneElement
<1>5. QED
  BY <1>3, <1>4 DEF CellsOf, A, B

LEMMA RefsFinite ==
  ASSUME NEW held, NEW o
  PROVE  IsFiniteSet(LocalRefs(held, o)) /\ Cardinality(LocalRefs(held, o)) \in Nat
<1>1. IsFiniteSet(Threads) /\ IsFiniteSet(1..MaxLocals)
  BY DataAssumption, FS_Interval
<1>2. IsFiniteSet(Threads \X (1..MaxLocals))
  BY <1>1, FS_Product
<1>3. LocalRefs(held, o) \in SUBSET (Threads \X (1..MaxLocals))
  BY DEF LocalRefs
<1>4. QED
  BY <1>2, <1>3, FS_Subset, FS_CardinalityType

(* A thread may get a reference while there are fewer than MaxLocals. *)
LEMMA RoomForOne ==
  ASSUME DataTypeOK, NEW t \in Threads, NEW o \in Objects, Cardinality(LocalRefs(locals, o)) < MaxLocals
  PROVE  locals[t][o] + 1 \in 0..MaxLocals
<1>1. MaxLocals \in Nat /\ locals[t][o] \in 0..MaxLocals
  BY DataAssumption DEF DataTypeOK
<1>2. SUFFICES ASSUME locals[t][o] = MaxLocals PROVE FALSE
  BY <1>1
<1>3. {t} \X (1..MaxLocals) \subseteq LocalRefs(locals, o)
  BY <1>2 DEF LocalRefs
<1>4. IsFiniteSet({t}) /\ Cardinality({t}) = 1
  BY FS_Singleton
<1>5. IsFiniteSet(1..MaxLocals) /\ Cardinality(1..MaxLocals) = MaxLocals
  BY <1>1, FS_Interval
<1>6. Cardinality({t} \X (1..MaxLocals)) = MaxLocals
  <2>1. Cardinality({t} \X (1..MaxLocals)) = Cardinality({t}) * Cardinality(1..MaxLocals)
    BY <1>4, <1>5, FS_Product
  <2>2. QED
    BY <1>1, <1>4, <1>5, <2>1
<1>7. Cardinality({t} \X (1..MaxLocals)) <= Cardinality(LocalRefs(locals, o))
  <2>1. {t} \X (1..MaxLocals) \in SUBSET LocalRefs(locals, o)
    BY <1>3
  <2>2. IsFiniteSet(LocalRefs(locals, o))
    BY RefsFinite
  <2>3. QED
    BY <2>1, <2>2, FS_Subset
<1>8. QED
  BY <1>1, <1>6, <1>7, RefsFinite

LocalCounts == [Threads -> [Objects -> 0..MaxLocals]]

(* g is f with one more local reference of t to o, or with one less. *)
ByOne(f, g, t, o, n) ==
  /\ f \in LocalCounts /\ g \in LocalCounts /\ n \in {-1, 1}
  /\ \A u \in Threads, p \in Objects : u # t \/ p # o => g[u][p] = f[u][p]
  /\ g[t][o] = f[t][o] + n

LEMMA LocalsChange ==
  ASSUME NEW f, NEW g, NEW n, NEW t \in Threads, NEW o \in Objects, ByOne(f, g, t, o, n)
  PROVE  /\ \A p \in Objects : p # o => LocalRefs(g, p) = LocalRefs(f, p)
         /\ Cardinality(LocalRefs(g, o)) = Cardinality(LocalRefs(f, o)) + n
<1>0. f \in [Threads -> [Objects -> 0..MaxLocals]] /\ g \in [Threads -> [Objects -> 0..MaxLocals]]
  BY DEF ByOne, LocalCounts
<1>1. /\ MaxLocals \in Nat /\ f[t][o] \in 0..MaxLocals /\ g[t][o] \in 0..MaxLocals
      /\ g[t][o] = f[t][o] + 1 \/ g[t][o] = f[t][o] - 1
      /\ n = g[t][o] - f[t][o]
  BY <1>0, DataAssumption DEF ByOne
<1>2. ASSUME NEW p \in Objects, p # o
      PROVE  LocalRefs(g, p) = LocalRefs(f, p)
  BY <1>2 DEF LocalRefs, ByOne
<1>3. /\ Cardinality(LocalRefs(f, o)) \in Nat /\ Cardinality(LocalRefs(g, o)) \in Nat
      /\ Cardinality(LocalRefs(g, o)) = Cardinality(LocalRefs(f, o)) + g[t][o] - f[t][o]
  <2> DEFINE x == <<t, IF g[t][o] = f[t][o] + 1 THEN g[t][o] ELSE f[t][o]>>
             A == LocalRefs(f, o)
             B == LocalRefs(g, o)
  <2>1. \A y : y \in A <=> y \in Threads \X (1..MaxLocals) /\ y[2] <= f[y[1]][o]
    BY DEF LocalRefs
  <2>2. \A y : y \in B <=> y \in Threads \X (1..MaxLocals) /\ y[2] <= g[y[1]][o]
    BY DEF LocalRefs
  <2>3. /\ x \in Threads \X (1..MaxLocals) /\ x[1] = t
        /\ x[2] = IF g[t][o] = f[t][o] + 1 THEN g[t][o] ELSE f[t][o]
    BY <1>1
  <2> HIDE DEF A, B, x
  <2>4. ASSUME NEW y, y # x
        PROVE  y \in A <=> y \in B
    <3>1. CASE y \in Threads \X (1..MaxLocals) /\ y[1] = t
      <4>1. y[2] \in 1..MaxLocals
        BY <3>1
      <4>2. y[2] # IF g[t][o] = f[t][o] + 1 THEN g[t][o] ELSE f[t][o]
        BY <2>4, <3>1 DEF x
      <4>3. (y \in A <=> y[2] <= f[t][o]) /\ (y \in B <=> y[2] <= g[t][o])
        BY <2>1, <2>2, <3>1
      <4>4. QED
        BY <1>1, <4>1, <4>2, <4>3
    <3>2. CASE y \in Threads \X (1..MaxLocals) /\ y[1] # t
      <4>1. y[1] \in Threads /\ g[y[1]][o] = f[y[1]][o]
        BY <3>2 DEF ByOne
      <4>2. QED
        BY <2>1, <2>2, <3>2, <4>1
    <3>3. CASE y \notin Threads \X (1..MaxLocals)
      BY <2>1, <2>2, <3>3
    <3>4. QED
      BY <3>1, <3>2, <3>3
  <2>5. x \in A <=> g[t][o] # f[t][o] + 1
    BY <1>1, <2>1, <2>3
  <2>6. x \in B <=> g[t][o] = f[t][o] + 1
    BY <1>1, <2>2, <2>3
  <2>7. IsFiniteSet(A)
    BY RefsFinite DEF A
  <2>8. /\ Cardinality(A) \in Nat /\ Cardinality(B) \in Nat
        /\ Cardinality(B) = Cardinality(A) + (IF x \in B THEN 1 ELSE 0) - (IF x \in A THEN 1 ELSE 0)
    BY <2>4, <2>7, OneElement
  <2>9. QED
    BY <1>1, <2>5, <2>6, <2>8 DEF A, B
<1>4. QED
  BY <1>1, <1>2, <1>3

(* Which of the threads that are in the middle of a store a step of t changes. *)
LEMMA MiddleChange ==
  ASSUME NEW t \in Threads, NEW o,
         \A u \in Threads \ {t} :
           /\ at'[u] = at[u]
           /\ args'[u].value = args[u].value
           /\ args'[u].seen = args[u].seen
           /\ args'[u].cell = args[u].cell
  PROVE  /\ Cardinality(Incremented(o)) \in Nat /\ Cardinality(Incremented(o)') \in Nat
         /\ Cardinality(Decremented(o)) \in Nat /\ Cardinality(Decremented(o)') \in Nat
         /\ Cardinality(Incremented(o)') =
              Cardinality(Incremented(o)) + (IF t \in Incremented(o)' THEN 1 ELSE 0)
                                          - (IF t \in Incremented(o) THEN 1 ELSE 0)
         /\ Cardinality(Decremented(o)') =
              Cardinality(Decremented(o)) + (IF t \in Decremented(o)' THEN 1 ELSE 0)
                                          - (IF t \in Decremented(o) THEN 1 ELSE 0)
<1> DEFINE A == Incremented(o)
           B == Incremented(o)'
           C == Decremented(o)
           D == Decremented(o)'
<1>1. IsFiniteSet(A) /\ IsFiniteSet(C)
  <2>1. A \in SUBSET Threads /\ C \in SUBSET Threads
    BY DEF Incremented, Decremented
  <2>2. QED
    BY <2>1, DataAssumption, FS_Subset
<1>2. \A u : u # t => (u \in A <=> u \in B)
  BY DEF Incremented
<1>3. \A u : u # t => (u \in C <=> u \in D)
  BY DEF Decremented
<1> HIDE DEF A, B, C, D
<1>4. /\ Cardinality(A) \in Nat /\ Cardinality(B) \in Nat
      /\ Cardinality(B) = Cardinality(A) + (IF t \in B THEN 1 ELSE 0) - (IF t \in A THEN 1 ELSE 0)
  BY <1>1, <1>2, OneElement
<1>5. /\ Cardinality(C) \in Nat /\ Cardinality(D) \in Nat
      /\ Cardinality(D) = Cardinality(C) + (IF t \in D THEN 1 ELSE 0) - (IF t \in C THEN 1 ELSE 0)
  BY <1>1, <1>3, OneElement
<1>6. QED
  BY <1>4, <1>5 DEF A, B, C, D

LEMMA LogValue ==
  ASSUME DataTypeOK, NEW o \in Refs, NEW n \in Int
  PROVE  /\ Log(o, n) \in [Objects -> Int]
         /\ \A p \in Objects \ tainted :
              Log(o, n)[p] = counted[p] + (IF p = o THEN n ELSE 0)
<1>1. counted \in [Objects -> Int] /\ Null \notin Objects
  BY DataAssumption DEF DataTypeOK
<1>2. CASE o \in tainted \cup {Null}
  <2>1. Log(o, n) = counted
    BY <1>2 DEF Log
  <2>2. QED
    BY <1>1, <1>2, <2>1
<1>3. CASE o \notin tainted \cup {Null}
  <2>1. Log(o, n) = [counted EXCEPT ![o] = counted[o] + n]
    BY <1>3 DEF Log
  <2>2. o \in Objects /\ counted[o] \in Int
    BY <1>1, <1>3 DEF Refs
  <2>3. QED
    BY <1>1, <2>1, <2>2
<1>4. QED
  BY <1>2, <1>3

LEMMA TaintValue ==
  ASSUME DataTypeOK, NEW S \in SUBSET Refs, NEW f \in [Objects -> Int], Taint(S, f)
  PROVE  /\ tainted' \subseteq Objects /\ tainted' = tainted \cup (S \ {Null})
         /\ counted' \in [Objects -> Int]
         /\ \A p \in Objects \ tainted' : counted'[p] = f[p]
BY DEF DataTypeOK, Taint, Refs

-------------------------------------------------------------------------------
(* What a step leaves alone.                                               *)

Where == {"idle", "give", "set", "store", "copy", "put", "ended"}

(* A step of t leaves the others where they are, or disturbs their copies. *)
Moves(t, where, a) ==
  /\ at' = [at EXCEPT ![t] = where]
  /\ \/ args' = [args EXCEPT ![t] = a] /\ UNCHANGED cells
     \/ args' = [Disturbed(t) EXCEPT ![t] = a]
  /\ sharing' = sharing
  /\ UNCHANGED arrays

LEMMA Disturbs ==
  ASSUME DataTypeOK, NEW t \in Threads
  PROVE  /\ Disturbed(t) \in [Threads -> Args]
         /\ Disturbed(t)[t] = args[t]
         /\ \A u \in Threads \ {t} :
              Disturbed(t)[u] = IF at[u] \in {"copy", "put"}
                                THEN [args[u] EXCEPT !.alone = FALSE, !.goal = <<>>] ELSE args[u]
<1>1. args \in [Threads -> Args]
  BY DEF DataTypeOK
<1>2. \A u \in Threads :
        [args[u] EXCEPT !.alone = FALSE, !.goal = <<>>] \in Args
  BY <1>1 DEF Args
<1>3. QED
  BY <1>1, <1>2 DEF Disturbed

LEMMA ArraysAside ==
  ASSUME DataInv, UNCHANGED arrays, sharing' \in {sharing, "ended"}
  PROVE  Copies' /\ WritesKept'
BY DEF DataInv, Copies, WritesKept, arrays

LEMMA Aside ==
  ASSUME DataInv, NEW t \in Threads, NEW where \in Where, NEW a \in Args,
         Moves(t, where, a), Placed(where, a, sharing), Copied(where, a, cells')
  PROVE  /\ at' \in [Threads -> Where] /\ args' \in [Threads -> Args]
         /\ sharing' \in {"fields", "elements", "longs", "ended"}
         /\ longs' \in [Elements -> Nat] /\ released' \in [Elements -> Nat]
         /\ copies' \in [Threads -> [held : BOOLEAN, data : [Elements -> Nat],
                                     written : [Elements -> Nat]]]
         /\ overlapped' \in BOOLEAN
         /\ Places' /\ Progress' /\ Copies' /\ WritesKept'
         /\ at'[t] = where /\ args'[t] = a
         /\ \A u \in Threads \ {t} :
              /\ at'[u] = at[u]
              /\ args'[u].value = args[u].value
              /\ args'[u].seen = args[u].seen
              /\ args'[u].cell = args[u].cell
<1>1. DataTypeOK /\ Places /\ Progress
  BY DEF DataInv
<1>2. at \in [Threads -> Where] /\ args \in [Threads -> Args]
  BY <1>1 DEF DataTypeOK, Where
<1>3. at' \in [Threads -> Where] /\ at'[t] = where /\ \A u \in Threads \ {t} : at'[u] = at[u]
  BY <1>2 DEF Moves
<1>4. /\ args' \in [Threads -> Args] /\ args'[t] = a
      /\ \A u \in Threads \ {t} :
           \/ args'[u] = args[u] /\ (cells' = cells \/ at[u] \notin {"copy", "put"})
           \/ /\ at[u] \in {"copy", "put"}
              /\ args'[u] = [args[u] EXCEPT !.alone = FALSE, !.goal = <<>>]
  <2>1. CASE args' = [args EXCEPT ![t] = a] /\ UNCHANGED cells
    BY <1>2, <2>1
  <2>2. CASE args' = [Disturbed(t) EXCEPT ![t] = a]
    BY <1>1, <2>2, Disturbs
  <2>3. QED
    BY <2>1, <2>2 DEF Moves
<1>5. \A u \in Threads \ {t} :
        /\ args'[u].value = args[u].value
        /\ args'[u].seen = args[u].seen
        /\ args'[u].cell = args[u].cell
        /\ args'[u].source = args[u].source
        /\ args'[u].count = args[u].count
        /\ args'[u].left = args[u].left
        /\ \/ ~ args'[u].alone
           \/ args'[u] = args[u] /\ (cells' = cells \/ at[u] \notin {"copy", "put"})
  <2> SUFFICES ASSUME NEW u \in Threads \ {t}
               PROVE  /\ args'[u].value = args[u].value
                      /\ args'[u].seen = args[u].seen
                      /\ args'[u].cell = args[u].cell
                      /\ args'[u].source = args[u].source
                      /\ args'[u].count = args[u].count
                      /\ args'[u].left = args[u].left
                      /\ \/ ~ args'[u].alone
                         \/ /\ args'[u] = args[u]
                            /\ cells' = cells \/ at[u] \notin {"copy", "put"}
    OBVIOUS
  <2>1. args[u] \in Args
    BY <1>2
  <2>2. CASE args'[u] = args[u] /\ (cells' = cells \/ at[u] \notin {"copy", "put"})
    BY <2>2
  <2>3. CASE args'[u] = [args[u] EXCEPT !.alone = FALSE, !.goal = <<>>]
    BY <2>1, <2>3 DEF Args
  <2>4. QED
    BY <1>4, <2>2, <2>3
<1>6. sharing' = sharing /\ UNCHANGED arrays
  BY DEF Moves
<1>7. Places'
  <2>1. ASSUME NEW u \in Threads, u # t
        PROVE  Placed(at'[u], args'[u], sharing')
    <3>1. Placed(at[u], args[u], sharing)
      BY <1>1 DEF Places
    <3>2. QED
      BY <1>3, <1>5, <1>6, <2>1, <3>1 DEF Placed
  <2>2. Placed(at'[t], args'[t], sharing')
    BY <1>3, <1>4, <1>6
  <2>3. QED
    BY <2>1, <2>2 DEF Places, Placed
<1>8. Progress'
  <2>1. ASSUME NEW u \in Threads
        PROVE  Copied(at'[u], args'[u], cells')
    <3>1. CASE u = t
      BY <1>3, <1>4, <3>1
    <3>2. CASE u # t /\ args'[u] = args[u] /\ cells' = cells
      BY <1>1, <1>3, <3>2 DEF Progress
    <3>3. CASE u # t /\ ~ args'[u].alone
      BY <3>3 DEF Copied
    <3>4. CASE u # t /\ at[u] \notin {"copy", "put"}
      BY <1>3, <3>4 DEF Copied
    <3>5. QED
      BY <1>5, <3>1, <3>2, <3>3, <3>4
  <2>2. QED
    BY <2>1 DEF Progress, Copied
<1>9. Copies' /\ WritesKept'
  BY <1>6, ArraysAside
<1>10. QED
  BY <1>1, <1>3, <1>4, <1>5, <1>6, <1>7, <1>8, <1>9 DEF DataTypeOK, arrays

-------------------------------------------------------------------------------
(* Each step keeps the invariant.                                          *)

LEMMA EndStep == DataInv /\ End => DataInv'
<1> SUFFICES ASSUME DataInv, End PROVE DataInv'
  OBVIOUS
<1>1. NoArgs \in Args
  BY DataAssumption DEF NoArgs, Args, Refs, Cells
<1>2. DataTypeOK'
  BY <1>1, DataAssumption DEF DataInv, DataTypeOK, End, Refs, arrays
<1>3. Places' /\ Progress'
  BY DEF End, Places, Placed, Progress, Copied
<1>4. CountsExactUnlessTainted'
  BY DEF End, CountsExactUnlessTainted
<1>5. Copies' /\ WritesKept'
  BY ArraysAside DEF End
<1>6. QED
  BY <1>2, <1>3, <1>4, <1>5 DEF DataInv

(* What a thread in the middle of a store has logged of an object. *)
Up(where, a, o) == IF where = "put" /\ a.value = o THEN 1 ELSE 0

Down(where, a, o) ==
  IF /\ where \in {"store", "put"} /\ a.seen = o
     /\ ~ (where = "store" /\ a.cell \in Elements /\ a.value = a.seen)
  THEN 1 ELSE 0

TypesKept ==
  /\ cells' \in [Cells -> Refs] /\ counted' \in [Objects -> Int] /\ locals' \in LocalCounts
  /\ tainted \subseteq tainted' /\ tainted' \subseteq Objects

BalanceKept(t, where, a, o) ==
  counted'[o] - counted[o] =
    (CellsOf(cells', o) - CellsOf(cells, o))
    + (Cardinality(LocalRefs(locals', o)) - Cardinality(LocalRefs(locals, o)))
    + (Up(where, a, o) - Up(at[t], args[t], o))
    - (Down(where, a, o) - Down(at[t], args[t], o))

(* The conclusion of a step that keeps the counts exact. *)
LEMMA Concluded ==
  ASSUME DataInv, NEW t \in Threads, NEW where \in Where, NEW a \in Args,
         Moves(t, where, a), Placed(where, a, sharing), Copied(where, a, cells'),
         TypesKept,
         \A o \in Objects \ tainted' : BalanceKept(t, where, a, o)
  PROVE  DataInv'
<1>1. /\ at' \in [Threads -> Where] /\ args' \in [Threads -> Args]
      /\ sharing' \in {"fields", "elements", "longs", "ended"}
      /\ longs' \in [Elements -> Nat] /\ released' \in [Elements -> Nat]
      /\ copies' \in [Threads -> [held : BOOLEAN, data : [Elements -> Nat],
                                  written : [Elements -> Nat]]]
      /\ overlapped' \in BOOLEAN
      /\ Places' /\ Progress' /\ Copies' /\ WritesKept'
      /\ at'[t] = where /\ args'[t] = a
      /\ \A u \in Threads \ {t} :
           /\ at'[u] = at[u]
           /\ args'[u].value = args[u].value
           /\ args'[u].seen = args[u].seen
           /\ args'[u].cell = args[u].cell
  BY Aside
<1>2. DataTypeOK'
  BY <1>1 DEF DataTypeOK, Where, TypesKept, LocalCounts
<1>3. ASSUME sharing' # "ended", NEW o \in Objects \ tainted'
      PROVE  counted'[o] = CellsOf(cells', o) + Cardinality(LocalRefs(locals', o))
                             + Cardinality(Incremented(o)') - Cardinality(Decremented(o)')
  <2>1. sharing # "ended" /\ o \in Objects \ tainted
    BY <1>3 DEF Moves, TypesKept
  <2>2. counted[o] = CellsOf(cells, o) + Cardinality(LocalRefs(locals, o))
                       + Cardinality(Incremented(o)) - Cardinality(Decremented(o))
    BY <2>1 DEF DataInv, CountsExactUnlessTainted
  <2>3. /\ Cardinality(Incremented(o)) \in Nat /\ Cardinality(Incremented(o)') \in Nat
        /\ Cardinality(Decremented(o)) \in Nat /\ Cardinality(Decremented(o)') \in Nat
        /\ Cardinality(Incremented(o)') =
             Cardinality(Incremented(o)) + (IF t \in Incremented(o)' THEN 1 ELSE 0)
                                         - (IF t \in Incremented(o) THEN 1 ELSE 0)
        /\ Cardinality(Decremented(o)') =
             Cardinality(Decremented(o)) + (IF t \in Decremented(o)' THEN 1 ELSE 0)
                                         - (IF t \in Decremented(o) THEN 1 ELSE 0)
    BY <1>1, MiddleChange
  <2> DEFINE i == Up(at[t], args[t], o)
             ii == Up(where, a, o)
             d == Down(at[t], args[t], o)
             dd == Down(where, a, o)
  <2>4. /\ ii = IF t \in Incremented(o)' THEN 1 ELSE 0
        /\ i = IF t \in Incremented(o) THEN 1 ELSE 0
        /\ dd = IF t \in Decremented(o)' THEN 1 ELSE 0
        /\ d = IF t \in Decremented(o) THEN 1 ELSE 0
    BY <1>1 DEF Incremented, Decremented, Up, Down
  <2>5. /\ counted[o] \in Int /\ counted'[o] \in Int
        /\ CellsOf(cells, o) \in Nat /\ CellsOf(cells', o) \in Nat
        /\ Cardinality(LocalRefs(locals, o)) \in Nat /\ Cardinality(LocalRefs(locals', o)) \in Nat
    <3>2. CellsOf(cells, o) \in Nat /\ CellsOf(cells', o) \in Nat
      BY CellsFew
    <3>3. Cardinality(LocalRefs(locals, o)) \in Nat /\ Cardinality(LocalRefs(locals', o)) \in Nat
      BY RefsFinite
    <3>4. QED
      BY <1>3, <3>2, <3>3 DEF DataInv, DataTypeOK, TypesKept
  <2>7. {i, ii, d, dd} \subseteq Int
    BY DEF Up, Down
  <2>8. /\ Cardinality(Incremented(o)') = Cardinality(Incremented(o)) + ii - i
        /\ Cardinality(Decremented(o)') = Cardinality(Decremented(o)) + dd - d
    BY <2>3, <2>4
  <2>9. counted'[o] - counted[o] =
             (CellsOf(cells', o) - CellsOf(cells, o))
             + (Cardinality(LocalRefs(locals', o)) - Cardinality(LocalRefs(locals, o)))
             + (ii - i) - (dd - d)
    BY <1>3 DEF BalanceKept
  <2> HIDE DEF i, ii, d, dd
  <2>10. /\ Cardinality(Incremented(o)) \in Nat /\ Cardinality(Incremented(o)') \in Nat
         /\ Cardinality(Decremented(o)) \in Nat /\ Cardinality(Decremented(o)') \in Nat
    BY <2>3
  <2>11. CellsOf(cells', o) \in Int /\ CellsOf(cells, o) \in Int
    BY <2>5
  <2>12. Cardinality(LocalRefs(locals, o)) \in Int /\ Cardinality(LocalRefs(locals', o)) \in Int
    BY <2>5
  <2>13. counted'[o] = counted[o] + (CellsOf(cells', o) - CellsOf(cells, o))
             + (Cardinality(LocalRefs(locals', o)) - Cardinality(LocalRefs(locals, o)))
             + (ii - i) - (dd - d)
    <3> DEFINE c == counted[o]
               cc == counted'[o]
               s == CellsOf(cells, o)
               ss == CellsOf(cells', o)
               l == Cardinality(LocalRefs(locals, o))
               ll == Cardinality(LocalRefs(locals', o))
    <3>1. /\ c \in Int /\ cc \in Int /\ s \in Int /\ ss \in Int /\ l \in Int /\ ll \in Int
          /\ i \in Int /\ ii \in Int /\ d \in Int /\ dd \in Int
      BY <2>5, <2>7, <2>11, <2>12
    <3>2. cc - c = (ss - s) + (ll - l) + (ii - i) - (dd - d)
      BY <2>9
    <3> HIDE DEF c, cc, s, ss, l, ll
    <3>3. cc = c + (ss - s) + (ll - l) + (ii - i) - (dd - d)
      BY <3>1, <3>2, CountsSum
    <3>4. QED
      BY <3>3 DEF c, cc, s, ss, l, ll
  <2>14. counted'[o] = CellsOf(cells', o) + Cardinality(LocalRefs(locals', o))
           + Cardinality(Incremented(o)) - Cardinality(Decremented(o)) + (ii - i) - (dd - d)
    BY <2>2, <2>5, <2>7, <2>10, <2>11, <2>12, <2>13
  <2>15. QED
    BY <2>5, <2>7, <2>8, <2>10, <2>11, <2>12, <2>14
<1>4. CountsExactUnlessTainted'
  BY <1>3 DEF CountsExactUnlessTainted, CellsOf
<1>5. QED
  BY <1>1, <1>2, <1>4 DEF DataInv

(* Nothing to copy and no place: what a thread that does nothing else works with. *)
LEMMA Idle ==
  ASSUME NEW where \in {"idle", "give"}, NEW a, NEW what, NEW contents
  PROVE  /\ Placed(where, a, what) /\ Copied(where, a, contents)
         /\ \A o : Up(where, a, o) = 0 /\ Down(where, a, o) = 0
BY DEF Placed, Copied, Up, Down

LEMMA PlainArgs ==
  ASSUME NEW o \in Refs, NEW p \in Refs, NEW q \in Refs, NEW c \in Cells
  PROVE  /\ NoArgs \in Args
         /\ [NoArgs EXCEPT !.old = o] \in Args
         /\ [NoArgs EXCEPT !.old = o, !.value = p] \in Args
         /\ [NoArgs EXCEPT !.cell = c, !.value = p, !.old = o, !.seen = q] \in Args
<1>1. NoArgs \in Args
  BY DataAssumption DEF NoArgs, Args, Refs, Cells
<1>2. QED
  BY <1>1 DEF Args

LEMMA CreateStep ==
  ASSUME DataInv, NEW t \in Threads, CreateLocalRef(t)
  PROVE  DataInv'
<1>0. DataTypeOK /\ args[t] \in Args /\ args[t].old \in Refs
  BY DEF DataInv, DataTypeOK, Args
<1>1. PICK o \in Refs : o = args[t].old
  BY <1>0
<1>2. CASE o = Null
  BY <1>1, <1>2, EndStep DEF CreateLocalRef
<1>3. CASE o # Null
  <2>1. /\ at[t] = "give" /\ Cardinality(LocalRefs(locals, o)) < MaxLocals
        /\ locals' = [locals EXCEPT ![t][o] = locals[t][o] + 1]
        /\ counted' = Log(o, 1)
        /\ Proceed(t, "idle", NoArgs)
        /\ UNCHANGED <<sharing, cells, tainted, arrays>>
    BY <1>1, <1>3 DEF CreateLocalRef
  <2>2. o \in Objects /\ NoArgs \in Args
    BY <1>1, <1>3, PlainArgs DEF Refs, Cells
  <2>3. locals[t][o] + 1 \in 0..MaxLocals /\ locals \in [Threads -> [Objects -> 0..MaxLocals]]
    BY <1>0, <2>1, <2>2, RoomForOne DEF DataTypeOK
  <2>4. ByOne(locals, locals', t, o, 1)
    BY <2>1, <2>2, <2>3 DEF ByOne, LocalCounts
  <2>5. /\ \A p \in Objects : p # o => LocalRefs(locals', p) = LocalRefs(locals, p)
        /\ Cardinality(LocalRefs(locals', o)) = Cardinality(LocalRefs(locals, o)) + 1
    BY <2>2, <2>4, LocalsChange
  <2>6. /\ Log(o, 1) \in [Objects -> Int]
        /\ \A p \in Objects \ tainted : Log(o, 1)[p] = counted[p] + (IF p = o THEN 1 ELSE 0)
    BY <1>0, LogValue
  <2>7. Moves(t, "idle", NoArgs)
    BY <2>1 DEF Moves, Proceed
  <2>8. TypesKept
    BY <1>0, <2>1, <2>4, <2>6 DEF DataTypeOK, TypesKept, ByOne
  <2>9. ASSUME NEW p \in Objects \ tainted'
        PROVE  BalanceKept(t, "idle", NoArgs, p)
    <3>1. CellsOf(cells, p) \in Nat /\ cells' = cells
      BY <1>0, <2>1, CellsFew
    <3>2. p \in Objects /\ p \notin tainted /\ counted[p] \in Int /\ locals[t][o] \in Int
      BY <1>0, <2>1, <2>2, <2>9 DEF DataTypeOK
    <3>3. /\ Up("idle", NoArgs, p) = 0 /\ Up(at[t], args[t], p) = 0
          /\ Down("idle", NoArgs, p) = 0 /\ Down(at[t], args[t], p) = 0
      BY <2>1, Idle
    <3>4. counted'[p] - counted[p] = IF p = o THEN 1 ELSE 0
      BY <2>1, <2>6, <3>2
    <3>5. Cardinality(LocalRefs(locals', p)) - Cardinality(LocalRefs(locals, p)) =
            IF p = o THEN 1 ELSE 0
      <4>1. Cardinality(LocalRefs(locals, p)) \in Nat
        BY RefsFinite
      <4>2. CASE p = o
        BY <2>5, <4>1, <4>2
      <4>3. CASE p # o
        BY <2>5, <3>2, <4>1, <4>3
      <4>4. QED
        BY <4>2, <4>3
    <3>6. CellsOf(cells', p) - CellsOf(cells, p) = 0
      BY <3>1
    <3>7. QED
      BY <3>3, <3>4, <3>5, <3>6 DEF BalanceKept
  <2>10. Placed("idle", NoArgs, sharing) /\ Copied("idle", NoArgs, cells') /\ "idle" \in Where
    BY Idle DEF Where
  <2>11. QED
    BY <2>2, <2>7, <2>8, <2>9, <2>10, Concluded
<1>4. QED
  BY <1>2, <1>3

LEMMA DeleteStep ==
  ASSUME DataInv, NEW t \in Threads, NEW o \in Objects, DeleteLocalRef(t, o)
  PROVE  DataInv'
<1>0. DataTypeOK /\ args[t] \in Args
  BY DEF DataInv, DataTypeOK
<1>1. PICK a \in Args : a = args[t]
  BY <1>0
<1>2. /\ at[t] = "idle" /\ locals[t][o] > 0
      /\ locals' = [locals EXCEPT ![t][o] = locals[t][o] - 1]
      /\ counted' = Log(o, -1)
      /\ UNCHANGED <<sharing, cells, at, args, tainted, arrays>>
  BY DEF DeleteLocalRef
<1>3. ByOne(locals, locals', t, o, -1)
  BY <1>0, <1>2, DataAssumption DEF ByOne, LocalCounts, DataTypeOK
<1>4. /\ \A p \in Objects : p # o => LocalRefs(locals', p) = LocalRefs(locals, p)
      /\ Cardinality(LocalRefs(locals', o)) = Cardinality(LocalRefs(locals, o)) + (-1)
  BY <1>3, LocalsChange
<1>5. o \in Refs
  BY DEF Refs
<1>6. /\ Log(o, -1) \in [Objects -> Int]
      /\ \A p \in Objects \ tainted : Log(o, -1)[p] = counted[p] + (IF p = o THEN -1 ELSE 0)
  BY <1>0, <1>5, LogValue
<1>7. Moves(t, "idle", a)
  BY <1>0, <1>1, <1>2 DEF Moves, DataTypeOK
<1>8. TypesKept
  BY <1>0, <1>2, <1>3, <1>6 DEF DataTypeOK, TypesKept, ByOne
<1>9. ASSUME NEW p \in Objects \ tainted'
      PROVE  BalanceKept(t, "idle", a, p)
  <2>1. CellsOf(cells, p) \in Nat /\ cells' = cells
    BY <1>0, <1>2, CellsFew
  <2>2. p \in Objects /\ p \notin tainted /\ counted[p] \in Int
    BY <1>0, <1>2, <1>9 DEF DataTypeOK
  <2>3. /\ Up("idle", a, p) = 0 /\ Up(at[t], args[t], p) = 0
        /\ Down("idle", a, p) = 0 /\ Down(at[t], args[t], p) = 0
    BY <1>2, Idle
  <2>4. counted'[p] - counted[p] = IF p = o THEN -1 ELSE 0
    BY <1>2, <1>6, <2>2
  <2>5. Cardinality(LocalRefs(locals', p)) - Cardinality(LocalRefs(locals, p)) =
          IF p = o THEN -1 ELSE 0
    <3>1. Cardinality(LocalRefs(locals, p)) \in Nat
      BY RefsFinite
    <3>2. CASE p = o
      BY <1>4, <3>1, <3>2
    <3>3. CASE p # o
      BY <1>4, <2>2, <3>1, <3>3
    <3>4. QED
      BY <3>2, <3>3
  <2>6. CellsOf(cells', p) - CellsOf(cells, p) = 0
    BY <2>1
  <2>7. QED
    BY <2>3, <2>4, <2>5, <2>6 DEF BalanceKept
<1>10. Placed("idle", a, sharing) /\ Copied("idle", a, cells') /\ "idle" \in Where
  BY Idle DEF Where
<1>11. QED
  BY <1>1, <1>7, <1>8, <1>9, <1>10, Concluded

(* A step that logs nothing and stores nothing. *)
LEMMA Steady ==
  ASSUME DataInv, NEW t \in Threads, NEW where \in Where, NEW a \in Args,
         Moves(t, where, a), Placed(where, a, sharing), Copied(where, a, cells),
         UNCHANGED <<cells, counted, locals, tainted>>,
         \A o : Up(where, a, o) = Up(at[t], args[t], o) /\ Down(where, a, o) = Down(at[t], args[t], o)
  PROVE  DataInv'
<1>1. DataTypeOK
  BY DEF DataInv
<1>2. TypesKept
  BY <1>1 DEF DataTypeOK, TypesKept, LocalCounts
<1>3. ASSUME NEW p \in Objects \ tainted'
      PROVE  BalanceKept(t, where, a, p)
  <2>1. CellsOf(cells, p) \in Nat /\ cells' = cells
    BY <1>1, CellsFew
  <2>2. Cardinality(LocalRefs(locals, p)) \in Nat /\ locals' = locals
    BY RefsFinite
  <2>3. counted[p] \in Int /\ counted' = counted
    BY <1>1, <1>3 DEF DataTypeOK
  <2>4. /\ Up(where, a, p) - Up(at[t], args[t], p) = 0
        /\ Down(where, a, p) - Down(at[t], args[t], p) = 0
    BY DEF Up, Down
  <2>5. QED
    BY <2>1, <2>2, <2>3, <2>4 DEF BalanceKept
<1>4. Copied(where, a, cells')
  OBVIOUS
<1>5. QED
  BY <1>2, <1>3, <1>4, Concluded

LEMMA GetStep ==
  ASSUME DataInv, NEW t \in Threads, GetObjectField(t)
  PROVE  DataInv'
<1>0. cells[Field] \in Refs
  BY DEF DataInv, DataTypeOK, Cells
<1>1. PICK a \in Args : a = [NoArgs EXCEPT !.old = cells[Field]]
  <2>1. Field \in Cells
    BY DEF Cells
  <2>2. QED
    BY <1>0, <2>1, PlainArgs
<1>2. Moves(t, "give", a) /\ UNCHANGED <<cells, counted, locals, tainted>> /\ at[t] = "idle"
  BY <1>1 DEF GetObjectField, Proceed, Moves
<1>3. /\ Placed("give", a, sharing) /\ Copied("give", a, cells) /\ "give" \in Where
      /\ \A o : Up("give", a, o) = 0 /\ Down("give", a, o) = 0
      /\ \A o : Up(at[t], args[t], o) = 0 /\ Down(at[t], args[t], o) = 0
  BY <1>2, Idle DEF Where
<1>4. QED
  BY <1>1, <1>2, <1>3, Steady

LEMMA SetFieldStep ==
  ASSUME DataInv, NEW t \in Threads, NEW value \in Objects \cup {Null}, SetObjectField(t, value)
  PROVE  DataInv'
<1>0. cells[Field] \in Refs /\ value \in Refs /\ Field \in Cells
  BY DEF DataInv, DataTypeOK, Cells, Refs
<1>1. PICK a \in Args : a = [NoArgs EXCEPT !.old = cells[Field], !.value = value]
  BY <1>0, PlainArgs
<1>2. a.cell = Field
  BY <1>1 DEF NoArgs
<1>3. Moves(t, "set", a) /\ UNCHANGED <<cells, counted, locals, tainted>> /\ at[t] = "idle"
  BY <1>1 DEF SetObjectField, Proceed, Moves
<1>4. /\ Placed("set", a, sharing) /\ Copied("set", a, cells) /\ "set" \in Where
      /\ \A o : Up("set", a, o) = 0 /\ Down("set", a, o) = 0
  BY <1>2 DEF Where, Placed, Copied, Up, Down
<1>5. \A o : Up(at[t], args[t], o) = 0 /\ Down(at[t], args[t], o) = 0
  BY <1>3, Idle
<1>6. QED
  BY <1>1, <1>3, <1>4, <1>5, Steady

LEMMA CopyEndsStep ==
  ASSUME DataInv, NEW t \in Threads, CopyEnds(t)
  PROVE  DataInv'
<1>1. NoArgs \in Args
  BY PlainArgs DEF Refs, Cells
<1>2. Moves(t, "idle", NoArgs) /\ UNCHANGED <<cells, counted, locals, tainted>> /\ at[t] = "copy"
  BY DEF CopyEnds, Proceed, Moves
<1>3. /\ Placed("idle", NoArgs, sharing) /\ Copied("idle", NoArgs, cells) /\ "idle" \in Where
      /\ \A o : Up("idle", NoArgs, o) = 0 /\ Down("idle", NoArgs, o) = 0
      /\ \A o : Up(at[t], args[t], o) = 0 /\ Down(at[t], args[t], o) = 0
  BY <1>2, Idle DEF Where, Up, Down
<1>4. QED
  BY <1>1, <1>2, <1>3, Steady

(* A step that logs what it is about to store or to replace. *)
LEMMA Logs ==
  ASSUME DataInv, NEW t \in Threads, NEW where \in Where, NEW a \in Args,
         Moves(t, where, a), Placed(where, a, sharing), Copied(where, a, cells),
         UNCHANGED <<cells, locals, tainted>>, counted' \in [Objects -> Int],
         \A p \in Objects \ tainted :
           counted'[p] = counted[p] + (Up(where, a, p) - Up(at[t], args[t], p))
                                    - (Down(where, a, p) - Down(at[t], args[t], p))
  PROVE  DataInv'
<1>1. DataTypeOK
  BY DEF DataInv
<1>2. TypesKept
  BY <1>1 DEF DataTypeOK, TypesKept, LocalCounts
<1>3. ASSUME NEW p \in Objects \ tainted'
      PROVE  BalanceKept(t, where, a, p)
  <2>1. CellsOf(cells, p) \in Nat /\ cells' = cells
    BY <1>1, CellsFew
  <2>2. Cardinality(LocalRefs(locals, p)) \in Nat /\ locals' = locals
    BY RefsFinite
  <2>3. counted[p] \in Int
    BY <1>1, <1>3 DEF DataTypeOK
  <2>4. /\ Up(where, a, p) \in Int /\ Up(at[t], args[t], p) \in Int
        /\ Down(where, a, p) \in Int /\ Down(at[t], args[t], p) \in Int
    BY DEF Up, Down
  <2>5. counted'[p] = counted[p] + (Up(where, a, p) - Up(at[t], args[t], p))
                                 - (Down(where, a, p) - Down(at[t], args[t], p))
    BY <1>3
  <2>6. QED
    BY <2>1, <2>2, <2>3, <2>4, <2>5 DEF BalanceKept
<1>4. Copied(where, a, cells')
  OBVIOUS
<1>5. QED
  BY <1>2, <1>3, <1>4, Concluded

LEMMA SetObjectStep ==
  ASSUME DataInv, NEW t \in Threads, SetObject(t)
  PROVE  DataInv'
<1>0. /\ DataTypeOK /\ args[t] \in Args /\ cells[Field] \in Refs /\ Placed(at[t], args[t], sharing)
  BY DEF DataInv, DataTypeOK, Cells, Places
<1>1. PICK seen \in Refs : seen = cells[Field]
  BY <1>0
<1>2. PICK a \in Args : a = [args[t] EXCEPT !.seen = seen]
  BY <1>0 DEF Args
<1>3. /\ at[t] = "set" /\ counted' = Log(seen, -1) /\ Moves(t, "store", a)
      /\ UNCHANGED <<cells, locals, tainted>>
  BY <1>1, <1>2 DEF SetObject, Proceed, Moves
<1>4. a.cell = Field /\ a.seen = seen /\ Field \notin Elements
  <2>1. args[t].cell = Field
    BY <1>0, <1>3 DEF Placed
  <2>2. a.cell = args[t].cell /\ a.seen = seen
    BY <1>0, <1>2 DEF Args
  <2>3. QED
    BY <2>1, <2>2 DEF Field, Elements
<1>5. /\ Log(seen, -1) \in [Objects -> Int]
      /\ \A p \in Objects \ tainted : Log(seen, -1)[p] = counted[p] + (IF p = seen THEN -1 ELSE 0)
  BY <1>0, <1>1, LogValue
<1>6. ASSUME NEW p \in Objects \ tainted
      PROVE  counted'[p] = counted[p] + (Up("store", a, p) - Up(at[t], args[t], p))
                                      - (Down("store", a, p) - Down(at[t], args[t], p))
  <2>1. /\ Up("store", a, p) = 0 /\ Up(at[t], args[t], p) = 0 /\ Down(at[t], args[t], p) = 0
        /\ Down("store", a, p) = IF seen = p THEN 1 ELSE 0
    BY <1>3, <1>4 DEF Up, Down
  <2>2. counted'[p] = counted[p] + (IF p = seen THEN -1 ELSE 0) /\ counted[p] \in Int
    BY <1>0, <1>3, <1>5, <1>6 DEF DataTypeOK
  <2>3. QED
    BY <2>1, <2>2
<1>7. Placed("store", a, sharing) /\ Copied("store", a, cells) /\ "store" \in Where
  BY DEF Placed, Copied, Where
<1>8. counted' \in [Objects -> Int]
  BY <1>3, <1>5
<1>9. QED
  BY <1>2, <1>3, <1>6, <1>7, <1>8, Logs

LEMMA SetElementStep ==
  ASSUME DataInv, NEW t \in Threads, NEW i \in Elements, NEW value \in Objects \cup {Null},
         SetObjectArrayElement(t, i, value)
  PROVE  DataInv'
<1>0. DataTypeOK /\ cells[i] \in Refs /\ i \in Cells /\ value \in Refs
  BY DEF DataInv, DataTypeOK, Cells, Refs
<1>1. PICK old \in Refs : old = cells[i]
  BY <1>0
<1>2. CASE old # value /\ old = Null
  BY <1>1, <1>2, EndStep DEF SetObjectArrayElement
<1>3. CASE ~ (old # value /\ old = Null)
  <2>1. PICK a \in Args : a = [NoArgs EXCEPT !.cell = i, !.value = value, !.old = old, !.seen = old]
    BY <1>0, PlainArgs
  <2>2. /\ at[t] = "idle" /\ Moves(t, "store", a) /\ UNCHANGED <<cells, locals, tainted>>
        /\ counted' = IF old = value THEN counted ELSE Log(old, -1)
    BY <1>1, <1>3, <2>1 DEF SetObjectArrayElement, Proceed, Moves
  <2>3. a.cell = i /\ a.value = value /\ a.seen = old
    BY <2>1 DEF NoArgs
  <2>4. /\ Log(old, -1) \in [Objects -> Int]
        /\ \A p \in Objects \ tainted : Log(old, -1)[p] = counted[p] + (IF p = old THEN -1 ELSE 0)
    BY <1>0, <1>1, LogValue
  <2>5. counted \in [Objects -> Int] /\ counted' \in [Objects -> Int]
    BY <1>0, <2>2, <2>4 DEF DataTypeOK
  <2>6. ASSUME NEW p \in Objects \ tainted
        PROVE  counted'[p] = counted[p] + (Up("store", a, p) - Up(at[t], args[t], p))
                                        - (Down("store", a, p) - Down(at[t], args[t], p))
    <3>1. /\ Up("store", a, p) = 0 /\ Up(at[t], args[t], p) = 0 /\ Down(at[t], args[t], p) = 0
          /\ Down("store", a, p) = IF old = p /\ old # value THEN 1 ELSE 0
      BY <2>2, <2>3 DEF Up, Down
    <3>2. counted[p] \in Int
      BY <2>5
    <3>3. CASE old = value
      BY <2>2, <3>1, <3>2, <3>3
    <3>4. CASE old # value
      <4>1. counted'[p] = counted[p] + (IF p = old THEN -1 ELSE 0)
        BY <2>2, <2>4, <2>6, <3>4
      <4>2. QED
        BY <3>1, <3>2, <3>4, <4>1
    <3>5. QED
      BY <3>3, <3>4
  <2>7. Placed("store", a, sharing) /\ Copied("store", a, cells) /\ "store" \in Where
    BY DEF Placed, Copied, Where
  <2>8. QED
    BY <2>1, <2>2, <2>5, <2>6, <2>7, Logs
<1>4. QED
  BY <1>2, <1>3

LEMMA StoreStep ==
  ASSUME DataInv, NEW t \in Threads, Store(t)
  PROVE  DataInv'
<1>0. /\ DataTypeOK /\ args[t] \in Args
      /\ args[t].cell \in Cells /\ args[t].value \in Refs /\ args[t].seen \in Refs
      /\ args[t].old \in Refs /\ cells[args[t].cell] \in Refs
  BY DEF DataInv, DataTypeOK, Args
<1>1. PICK c \in Cells, value \in Refs, seen \in Refs, old \in Refs, held \in Refs :
        /\ c = args[t].cell /\ value = args[t].value /\ seen = args[t].seen /\ old = args[t].old
        /\ held = cells[c]
  BY <1>0
<1>2. PICK a \in Args : a = [NoArgs EXCEPT !.old = old]
  BY <1>1, PlainArgs
<1>3. PICK S \in SUBSET Refs :
        S = ((IF held # seen THEN {held, seen} ELSE {})
             \cup (IF c \in Elements /\ seen = value THEN {value} ELSE {})) \ {Null}
  OBVIOUS
<1>4. S = Spoilt(t)
  BY <1>1, <1>3 DEF Spoilt
<1>5. /\ at[t] = "store" /\ Moves(t, "give", a) /\ locals' = locals
      /\ cells' = [cells EXCEPT ![c] = value]
      /\ Taint(S, Log(value, 1))
  BY <1>1, <1>2, <1>4 DEF Store, Moves
<1>6. /\ Log(value, 1) \in [Objects -> Int]
      /\ \A p \in Objects \ tainted : Log(value, 1)[p] = counted[p] + (IF p = value THEN 1 ELSE 0)
  BY <1>0, <1>1, LogValue
<1>7. /\ tainted' \subseteq Objects /\ tainted' = tainted \cup (S \ {Null})
      /\ counted' \in [Objects -> Int]
      /\ \A p \in Objects \ tainted' : counted'[p] = Log(value, 1)[p]
  BY <1>0, <1>5, <1>6, TaintValue
<1>8. TypesKept
  BY <1>0, <1>1, <1>5, <1>7 DEF DataTypeOK, TypesKept, LocalCounts
<1>9. ASSUME NEW p \in Objects \ tainted'
      PROVE  BalanceKept(t, "give", a, p)
  <2>1. p \in Objects /\ p \notin tainted /\ p \notin S /\ counted[p] \in Int /\ p # Null
    BY <1>0, <1>7, <1>9, DataAssumption DEF DataTypeOK
  <2>2. counted'[p] = counted[p] + (IF p = value THEN 1 ELSE 0)
    BY <1>6, <1>7, <1>9, <2>1
  <2>3. /\ CellsOf(cells, p) \in Nat /\ CellsOf(cells', p) \in Nat
        /\ CellsOf(cells', p) =
             CellsOf(cells, p) + (IF value = p THEN 1 ELSE 0) - (IF held = p THEN 1 ELSE 0)
    <3>1. CellStored(cells, cells', c, value)
      BY <1>0, <1>5 DEF DataTypeOK, CellStored
    <3>2. QED
      BY <1>1, <3>1, CellsOfStored
  <2>4. Cardinality(LocalRefs(locals', p)) - Cardinality(LocalRefs(locals, p)) = 0
    BY <1>5, RefsFinite
  <2>5. /\ Up("give", a, p) = 0 /\ Down("give", a, p) = 0 /\ Up(at[t], args[t], p) = 0
        /\ Down(at[t], args[t], p) = IF seen = p /\ ~ (c \in Elements /\ value = seen) THEN 1 ELSE 0
    BY <1>1, <1>5 DEF Up, Down
  <2>6. (IF held = p THEN 1 ELSE 0) = IF seen = p /\ ~ (c \in Elements /\ value = seen) THEN 1 ELSE 0
    BY <1>3, <2>1
  <2> DEFINE d == IF held = p THEN 1 ELSE 0
             v == IF value = p THEN 1 ELSE 0
  <2>7. d \in Int /\ v \in Int
    OBVIOUS
  <2>8. /\ CellsOf(cells', p) = CellsOf(cells, p) + v - d
        /\ counted'[p] = counted[p] + v
        /\ Down(at[t], args[t], p) = d
    BY <2>2, <2>3, <2>5, <2>6
  <2> HIDE DEF d, v
  <2>9. QED
    BY <2>1, <2>3, <2>4, <2>5, <2>7, <2>8 DEF BalanceKept
<1>10. Placed("give", a, sharing) /\ Copied("give", a, cells') /\ "give" \in Where
  BY Idle DEF Where
<1>11. QED
  BY <1>2, <1>5, <1>8, <1>9, <1>10, Concluded

LEMMA SetGlobalStep ==
  ASSUME DataInv, NEW t \in Threads, NEW value \in Objects \cup {Null}, SetObjectGlobalVar(t, value)
  PROVE  DataInv'
<1>0. /\ DataTypeOK /\ args[t] \in Args /\ value \in Refs /\ Global \in Cells
      /\ cells[Global] \in Refs
  BY DEF DataInv, DataTypeOK, Cells, Refs
<1>1. PICK a \in Args, held \in Refs : a = args[t] /\ held = cells[Global]
  BY <1>0
<1>2. /\ sharing = "fields" /\ at[t] = "idle" /\ cells' = [cells EXCEPT ![Global] = value]
      /\ Taint({held, value}, counted)
      /\ UNCHANGED <<sharing, locals, at, args, arrays>>
  BY <1>1 DEF SetObjectGlobalVar
<1>3. Moves(t, "idle", a)
  <2>1. \A u \in Threads : at[u] \notin {"copy", "put"}
    BY <1>2 DEF DataInv, Places, Placed
  <2>2. Disturbed(t) = args
    BY <1>0, <2>1 DEF Disturbed, DataTypeOK
  <2>3. args' = [Disturbed(t) EXCEPT ![t] = a]
    BY <1>0, <1>1, <1>2, <2>2 DEF DataTypeOK
  <2>4. at' = [at EXCEPT ![t] = "idle"]
    BY <1>0, <1>2 DEF DataTypeOK
  <2>5. QED
    BY <1>2, <2>3, <2>4 DEF Moves
<1>4. counted \in [Objects -> Int]
  BY <1>0 DEF DataTypeOK
<1>5. /\ tainted' \subseteq Objects /\ tainted' = tainted \cup ({held, value} \ {Null})
      /\ counted' \in [Objects -> Int]
      /\ \A p \in Objects \ tainted' : counted'[p] = counted[p]
  <2>1. {held, value} \in SUBSET Refs
    BY <1>0, <1>1
  <2>2. QED
    BY <1>0, <1>2, <1>4, <2>1, TaintValue
<1>6. TypesKept
  BY <1>0, <1>2, <1>5 DEF DataTypeOK, TypesKept, LocalCounts
<1>7. ASSUME NEW p \in Objects \ tainted'
      PROVE  BalanceKept(t, "idle", a, p)
  <2>1. p # held /\ p # value /\ counted'[p] = counted[p] /\ counted[p] \in Int
    BY <1>4, <1>5, <1>7, DataAssumption
  <2>2. /\ CellsOf(cells, p) \in Nat /\ CellsOf(cells', p) \in Nat
        /\ CellsOf(cells', p) =
             CellsOf(cells, p) + (IF value = p THEN 1 ELSE 0) - (IF held = p THEN 1 ELSE 0)
    <3>1. CellStored(cells, cells', Global, value)
      BY <1>0, <1>2 DEF DataTypeOK, CellStored
    <3>2. QED
      BY <1>0, <1>1, <3>1, CellsOfStored
  <2>3. Cardinality(LocalRefs(locals', p)) - Cardinality(LocalRefs(locals, p)) = 0
    BY <1>2, RefsFinite
  <2>4. /\ Up("idle", a, p) = 0 /\ Down("idle", a, p) = 0
        /\ Up(at[t], args[t], p) = 0 /\ Down(at[t], args[t], p) = 0
    BY <1>2, Idle
  <2>5. CellsOf(cells', p) - CellsOf(cells, p) = 0
    BY <2>1, <2>2
  <2>6. QED
    BY <2>1, <2>3, <2>4, <2>5 DEF BalanceKept
<1>8. Placed("idle", a, sharing) /\ Copied("idle", a, cells') /\ "idle" \in Where
  BY Idle DEF Where
<1>9. QED
  BY <1>1, <1>3, <1>6, <1>7, <1>8, Concluded

-------------------------------------------------------------------------------
(* Copies within the array.                                                *)

(* The next element is one of those that remain, from a place to a place of the *)
(* array.                                                                       *)
LEMMA NextRemains ==
  ASSUME NEW a \in Args, NEW where \in {"copy", "put"}, NEW what, Placed(where, a, what), a.left > 0
  PROVE  /\ NextElement(a) \in Remaining(a) /\ NextElement(a) \in 0..(a.count - 1)
         /\ a.source + NextElement(a) \in Elements
         /\ a.cell + NextElement(a) \in Elements
<1>1. /\ a.cell \in Nat /\ a.source \in Nat /\ a.left \in Nat /\ a.count \in Nat /\ Size \in Nat
      /\ a.left <= a.count /\ a.cell + a.count <= Size /\ a.source + a.count <= Size
  BY DataAssumption DEF Args, Placed, Elements
<1>2. NextElement(a) \in Remaining(a) /\ NextElement(a) \in 0..(a.count - 1)
  BY <1>1 DEF NextElement, Remaining
<1>3. QED
  BY <1>1, <1>2 DEF Elements

(* Once the next element is where it goes, one less remains; the elements that *)
(* remain have not been overwritten.                                           *)
LEMMA OneMoved ==
  ASSUME NEW a \in Args, NEW b, NEW where \in {"copy", "put"}, NEW what, NEW f, NEW g,
         Placed(where, a, what), a.left > 0, b = [a EXCEPT !.left = @ - 1],
         Copied(where, a, f),
         \A i \in Elements :
           g[i] = IF i = a.cell + NextElement(a) THEN f[a.source + NextElement(a)] ELSE f[i]
  PROVE  b \in Args /\ Placed("copy", b, what) /\ Copied("copy", b, g)
<1>1. /\ a.cell \in Nat /\ a.source \in Nat /\ a.left \in Nat /\ a.count \in Nat /\ Size \in Nat
      /\ a.left <= a.count /\ a.cell + a.count <= Size /\ a.source + a.count <= Size
      /\ a.left <= Size
  BY DataAssumption DEF Args, Placed, Elements
<1>2. /\ b.cell = a.cell /\ b.source = a.source /\ b.count = a.count /\ b.left = a.left - 1
      /\ b.goal = a.goal /\ (b.alone <=> a.alone)
  BY DEF Args
<1>3. b \in Args
  BY <1>1 DEF Args
<1>4. Placed("copy", b, what)
  BY <1>1, <1>2 DEF Placed
<1> DEFINE n == NextElement(a)
<1>5. /\ n \in Remaining(a) /\ n \in 0..(a.count - 1)
      /\ a.source + n \in Elements /\ a.cell + n \in Elements
  BY NextRemains
<1>6. \A k \in Int : k \in Remaining(b) <=> k \in Remaining(a) /\ k # n
  BY <1>1, <1>2 DEF Remaining, NextElement, Overlapping
<1>7. \A k \in Remaining(b) : /\ k \in 0..(a.count - 1) /\ k \in Remaining(a)
                              /\ a.source + k # a.cell + n
                              /\ a.source + k \in Elements
  BY <1>1, <1>2 DEF Remaining, NextElement, Overlapping, Elements
<1> HIDE DEF n
<1>8. ASSUME a.alone
      PROVE  Copied("copy", b, g)
  <2>1. /\ a.goal \in [Elements -> Refs]
        /\ \A i \in Elements : i - a.cell \notin Remaining(a) => f[i] = a.goal[i]
        /\ \A k \in Remaining(a) : f[a.source + k] = a.goal[a.cell + k]
    BY <1>8 DEF Copied
  <2>2. ASSUME NEW i \in Elements, i - a.cell \notin Remaining(b)
        PROVE  g[i] = a.goal[i]
    <3>1. i \in Int
      BY DEF Elements
    <3>2. CASE i = a.cell + n
      BY <1>5, <2>1, <3>2 DEF n
    <3>3. CASE i # a.cell + n
      <4>1. n \in Int /\ i - a.cell \in Int /\ i - a.cell # n
        BY <1>1, <1>5, <3>1, <3>3
      <4>2. i - a.cell \notin Remaining(a)
        BY <1>6, <2>2, <4>1
      <4>3. QED
        BY <2>1, <3>3, <4>2 DEF n
    <3>4. QED
      BY <3>2, <3>3
  <2>3. ASSUME NEW k \in Remaining(b)
        PROVE  g[a.source + k] = a.goal[a.cell + k]
    <3>1. /\ k \in Remaining(a) /\ a.source + k # a.cell + n /\ a.source + k \in Elements
      BY <1>7
    <3>2. g[a.source + k] = f[a.source + k]
      BY <3>1 DEF n
    <3>3. QED
      BY <2>1, <3>1, <3>2
  <2>4. QED
    BY <1>2, <2>1, <2>2, <2>3 DEF Copied
<1>9. ASSUME ~ a.alone
      PROVE  Copied("copy", b, g)
  BY <1>2, <1>9 DEF Copied
<1>10. QED
  BY <1>3, <1>4, <1>8, <1>9

LEMMA CopyStep ==
  ASSUME DataInv, NEW t \in Threads, NEW source \in -1..(Size - 1), NEW dest \in -1..(Size - 1),
         NEW count \in -1..Size, Copy(t, source, dest, count)
  PROVE  DataInv'
<1> DEFINE Within == /\ {source, dest, count} \subseteq Nat
                     /\ source + count <= Size /\ dest + count <= Size
<1>1. CASE ~ Within
  BY <1>1, EndStep DEF Copy
<1>2. CASE Within
  <2>0. DataTypeOK /\ cells \in [Cells -> Refs]
    BY DEF DataInv, DataTypeOK
  <2>1. /\ source \in Nat /\ dest \in Nat /\ count \in Nat /\ Size \in Nat
        /\ source + count <= Size /\ dest + count <= Size
        /\ dest \in Elements /\ source \in 0..Size /\ count \in 0..Size
    BY <1>2, DataAssumption DEF Elements
  <2>2. PICK goal : goal = Moved(cells, source, dest, count)
    OBVIOUS
  <2>3. /\ \A i \in Elements :
             /\ i \in dest..(dest + count - 1) =>
                  /\ source + i - dest \in Elements
                  /\ goal[i] = cells[source + i - dest]
             /\ i \notin dest..(dest + count - 1) => goal[i] = cells[i]
    BY <2>1, <2>2 DEF Moved, Elements
  <2>4. goal \in [Elements -> Refs]
    <3>1. \A i \in Elements : goal[i] \in Refs
      BY <2>0, <2>3 DEF Cells
    <3>2. goal = [i \in Elements |-> goal[i]]
      BY <2>2 DEF Moved
    <3>3. QED
      BY <3>1, <3>2
  <2>5. NoArgs \in Args
    BY PlainArgs DEF Refs, Cells
  <2>6. PICK a \in Args : a = [NoArgs EXCEPT !.cell = dest, !.source = source, !.count = count,
                                             !.left = count, !.goal = goal]
    BY <2>1, <2>4, <2>5 DEF Args, Cells
  <2>7. /\ a.cell = dest /\ a.source = source /\ a.count = count /\ a.left = count
        /\ a.goal = goal
    BY <2>6 DEF NoArgs
  <2>8. /\ at[t] = "idle" /\ sharing = "elements" /\ Moves(t, "copy", a)
        /\ UNCHANGED <<cells, counted, locals, tainted>>
    BY <1>2, <2>2, <2>6 DEF Copy, Proceed, Moves
  <2>9. Placed("copy", a, sharing)
    BY <2>1, <2>7, <2>8 DEF Placed
  <2>10. \A k \in Int : k \in Remaining(a) <=> k \in 0..(count - 1)
    BY <2>1, <2>7 DEF Remaining
  <2>11. Copied("copy", a, cells)
    <3>1. ASSUME NEW i \in Elements, i - dest \notin Remaining(a)
          PROVE  cells[i] = goal[i]
      <4>1. i \in Int
        BY DEF Elements
      <4>2. i \notin dest..(dest + count - 1)
        BY <2>1, <2>10, <3>1, <4>1
      <4>3. QED
        BY <2>3, <4>2
    <3>2. ASSUME NEW k \in Remaining(a)
          PROVE  cells[source + k] = goal[dest + k]
      <4>1. k \in Int
        BY <2>1, <2>7 DEF Remaining
      <4>2. k \in 0..(count - 1)
        BY <2>10, <4>1
      <4>3. dest + k \in Elements /\ dest + k \in dest..(dest + count - 1)
        BY <2>1, <4>2 DEF Elements
      <4>4. source + (dest + k) - dest = source + k
        BY <2>1, <4>1
      <4>5. QED
        BY <2>3, <4>3, <4>4
    <3>3. QED
      BY <2>4, <2>7, <3>1, <3>2 DEF Copied
  <2>12. \A o : /\ Up("copy", a, o) = Up(at[t], args[t], o)
                /\ Down("copy", a, o) = Down(at[t], args[t], o)
    BY <2>8 DEF Up, Down
  <2>13. "copy" \in Where
    BY DEF Where
  <2>14. QED
    BY <2>6, <2>8, <2>9, <2>11, <2>12, <2>13, Steady
<1>3. QED
  BY <1>1, <1>2

LEMMA CopyElementStep ==
  ASSUME DataInv, NEW t \in Threads, CopyElement(t)
  PROVE  DataInv'
<1>0. /\ DataTypeOK /\ args[t] \in Args /\ cells \in [Cells -> Refs]
      /\ at[t] = "copy" /\ args[t].left > 0
      /\ UNCHANGED <<sharing, cells, locals, tainted, arrays>>
      /\ Placed("copy", args[t], sharing) /\ Copied("copy", args[t], cells)
  BY DEF DataInv, DataTypeOK, CopyElement, Places, Progress
<1>1. PICK a \in Args : a = args[t]
  BY <1>0
<1>2. a.left > 0 /\ Placed("copy", a, sharing) /\ Copied("copy", a, cells)
  BY <1>0, <1>1
<1>3. /\ NextElement(a) \in Remaining(a)
      /\ a.source + NextElement(a) \in Elements
      /\ a.cell + NextElement(a) \in Elements
  BY <1>2, NextRemains
<1>4. PICK obj \in Refs, destSlot \in Refs :
        obj = cells[a.source + NextElement(a)] /\ destSlot = cells[a.cell + NextElement(a)]
  BY <1>0, <1>3 DEF Cells
<1>5. CASE destSlot = obj
  <2>1. PICK b : b = [a EXCEPT !.left = @ - 1]
    OBVIOUS
  <2>2. \A i \in Elements :
          cells[i] = IF i = a.cell + NextElement(a) THEN cells[a.source + NextElement(a)] ELSE cells[i]
    BY <1>4, <1>5
  <2>3. b \in Args /\ Placed("copy", b, sharing) /\ Copied("copy", b, cells)
    BY <1>2, <2>1, <2>2, OneMoved
  <2>4. Moves(t, "copy", b) /\ UNCHANGED <<cells, counted, locals, tainted>>
    BY <1>1, <1>4, <1>5, <2>1 DEF CopyElement, Proceed, Moves
  <2>5. \A o : /\ Up("copy", b, o) = Up(at[t], args[t], o)
               /\ Down("copy", b, o) = Down(at[t], args[t], o)
    BY <1>0 DEF Up, Down
  <2>6. "copy" \in Where
    BY DEF Where
  <2>7. QED
    BY <2>3, <2>4, <2>5, <2>6, Steady
<1>6. CASE destSlot # obj
  <2>1. PICK b \in Args : b = [a EXCEPT !.value = obj, !.seen = destSlot]
    BY DEF Args
  <2>2. /\ b.cell = a.cell /\ b.source = a.source /\ b.count = a.count /\ b.left = a.left
        /\ b.goal = a.goal /\ (b.alone <=> a.alone) /\ b.value = obj /\ b.seen = destSlot
    BY <2>1 DEF Args
  <2>3. NextElement(b) = NextElement(a) /\ Remaining(b) = Remaining(a)
    BY <2>2 DEF NextElement, Remaining, Overlapping
  <2>4. Placed("put", b, sharing)
    BY <1>2, <2>2 DEF Placed
  <2>5. Copied("put", b, cells)
    <3>1. CASE a.alone
      <4>1. /\ a.goal \in [Elements -> Refs]
            /\ \A i \in Elements : i - a.cell \notin Remaining(a) => cells[i] = a.goal[i]
            /\ \A k \in Remaining(a) : cells[a.source + k] = a.goal[a.cell + k]
        BY <1>2, <3>1 DEF Copied
      <4>2. obj = a.goal[a.cell + NextElement(a)]
        BY <1>3, <1>4, <4>1
      <4>3. QED
        BY <2>2, <2>3, <4>1, <4>2 DEF Copied
    <3>2. CASE ~ a.alone
      BY <2>2, <3>2 DEF Copied
    <3>3. QED
      BY <3>1, <3>2
  <2>6. /\ Moves(t, "put", b)
        /\ counted' = [o \in Objects |->
                         IF o \in tainted THEN 0
                         ELSE counted[o] + (IF o = obj THEN 1 ELSE 0) - (IF o = destSlot THEN 1 ELSE 0)]
    BY <1>1, <1>4, <1>6, <2>1 DEF CopyElement, Proceed, Moves
  <2>7. counted' \in [Objects -> Int]
    BY <1>0, <2>6 DEF DataTypeOK
  <2>8. ASSUME NEW p \in Objects \ tainted
        PROVE  counted'[p] = counted[p] + (Up("put", b, p) - Up(at[t], args[t], p))
                                        - (Down("put", b, p) - Down(at[t], args[t], p))
    <3>1. /\ Up(at[t], args[t], p) = 0 /\ Down(at[t], args[t], p) = 0
          /\ Up("put", b, p) = IF obj = p THEN 1 ELSE 0
          /\ Down("put", b, p) = IF destSlot = p THEN 1 ELSE 0
      BY <1>0, <2>2 DEF Up, Down
    <3>2. /\ counted[p] \in Int
          /\ counted'[p] = counted[p] + (IF p = obj THEN 1 ELSE 0) - (IF p = destSlot THEN 1 ELSE 0)
      BY <1>0, <2>6, <2>8 DEF DataTypeOK
    <3>3. QED
      BY <3>1, <3>2
  <2>9. "put" \in Where
    BY DEF Where
  <2>10. QED
    BY <1>0, <2>1, <2>4, <2>5, <2>6, <2>7, <2>8, <2>9, Logs
<1>7. QED
  BY <1>5, <1>6

LEMMA CopyPutStep ==
  ASSUME DataInv, NEW t \in Threads, CopyPut(t)
  PROVE  DataInv'
<1>0. /\ DataTypeOK /\ args[t] \in Args /\ cells \in [Cells -> Refs]
      /\ counted \in [Objects -> Int]
      /\ at[t] = "put" /\ locals' = locals
      /\ Placed("put", args[t], sharing) /\ Copied("put", args[t], cells)
  BY DEF DataInv, DataTypeOK, CopyPut, Places, Progress
<1>1. PICK a \in Args : a = args[t]
  BY <1>0
<1>2. a.left > 0 /\ Placed("put", a, sharing) /\ Copied("put", a, cells)
  BY <1>0, <1>1 DEF Placed
<1>3. /\ NextElement(a) \in Remaining(a)
      /\ a.source + NextElement(a) \in Elements
      /\ a.cell + NextElement(a) \in Elements
  BY <1>2, NextRemains
<1>4. PICK c \in Elements : c = a.cell + NextElement(a)
  BY <1>3
<1>5. c \in Cells
  BY DEF Cells
<1>6. PICK value \in Refs, seen \in Refs, held \in Refs :
        value = a.value /\ seen = a.seen /\ held = cells[c]
  BY <1>0, <1>5 DEF Args
<1>7. PICK b : b = [a EXCEPT !.left = @ - 1]
  OBVIOUS
<1>8. /\ cells' = [cells EXCEPT ![c] = value]
      /\ Taint(IF held = seen THEN {} ELSE {held, seen}, counted)
      /\ at' = [at EXCEPT ![t] = "copy"]
      /\ args' = [Disturbed(t) EXCEPT ![t].left = @ - 1]
      /\ UNCHANGED <<sharing, locals, arrays>>
  BY <1>1, <1>4, <1>6 DEF CopyPut
<1>9. Moves(t, "copy", b)
  <2>1. Disturbed(t) \in [Threads -> Args] /\ Disturbed(t)[t] = a
    BY <1>0, <1>1, Disturbs
  <2>2. args' = [Disturbed(t) EXCEPT ![t] = b]
    BY <1>7, <1>8, <2>1
  <2>3. QED
    BY <1>8, <2>2 DEF Moves
<1>10. b \in Args /\ Placed("copy", b, sharing) /\ Copied("copy", b, cells')
  <2>1. CASE a.alone
    <3>1. /\ a.value = a.goal[a.cell + NextElement(a)]
          /\ cells[a.source + NextElement(a)] = a.goal[a.cell + NextElement(a)]
      BY <1>2, <1>3, <2>1 DEF Copied
    <3>2. \A i \in Elements :
            cells'[i] = IF i = a.cell + NextElement(a) THEN cells[a.source + NextElement(a)] ELSE cells[i]
      BY <1>0, <1>4, <1>6, <1>8, <3>1 DEF Cells
    <3>3. QED
      BY <1>2, <1>7, <3>2, OneMoved
  <2>2. CASE ~ a.alone
    <3>1. /\ b \in Args /\ b.cell = a.cell /\ b.source = a.source /\ b.count = a.count
          /\ b.left = a.left - 1 /\ (b.alone <=> a.alone)
      BY <1>2, <1>7, DataAssumption DEF Args
    <3>2. a.left \in Nat /\ a.count \in Nat
      BY DEF Args
    <3>3. Placed("copy", b, sharing)
      BY <1>2, <3>1, <3>2 DEF Placed
    <3>4. Copied("copy", b, cells')
      BY <2>2, <3>1 DEF Copied
    <3>5. QED
      BY <3>1, <3>3, <3>4
  <2>3. QED
    BY <2>1, <2>2
<1>11. PICK S \in SUBSET Refs : S = IF held = seen THEN {} ELSE {held, seen}
  OBVIOUS
<1>12. /\ tainted' \subseteq Objects /\ tainted' = tainted \cup (S \ {Null})
       /\ counted' \in [Objects -> Int]
       /\ \A p \in Objects \ tainted' : counted'[p] = counted[p]
  <2>1. Taint(S, counted)
    BY <1>8, <1>11
  <2>2. QED
    BY <1>0, <2>1, TaintValue
<1>13. TypesKept
  BY <1>0, <1>5, <1>8, <1>12 DEF DataTypeOK, TypesKept, LocalCounts
<1>14. ASSUME NEW p \in Objects \ tainted'
       PROVE  BalanceKept(t, "copy", b, p)
  <2>1. /\ p \in Objects /\ p \notin tainted /\ p \notin S /\ counted[p] \in Int /\ p # Null
        /\ counted'[p] = counted[p]
    BY <1>0, <1>12, <1>14, DataAssumption
  <2>2. /\ CellsOf(cells, p) \in Nat /\ CellsOf(cells', p) \in Nat
        /\ CellsOf(cells', p) =
             CellsOf(cells, p) + (IF value = p THEN 1 ELSE 0) - (IF held = p THEN 1 ELSE 0)
    <3>1. CellStored(cells, cells', c, value)
      BY <1>0, <1>8 DEF CellStored
    <3>2. QED
      BY <1>5, <1>6, <3>1, CellsOfStored
  <2>3. Cardinality(LocalRefs(locals', p)) - Cardinality(LocalRefs(locals, p)) = 0
    BY <1>8, RefsFinite
  <2>4. /\ Up("copy", b, p) = 0 /\ Down("copy", b, p) = 0
        /\ Up(at[t], args[t], p) = IF value = p THEN 1 ELSE 0
        /\ Down(at[t], args[t], p) = IF seen = p THEN 1 ELSE 0
    BY <1>0, <1>1, <1>6 DEF Up, Down
  <2>5. (IF held = p THEN 1 ELSE 0) = IF seen = p THEN 1 ELSE 0
    BY <1>11, <2>1
  <2> DEFINE d == IF held = p THEN 1 ELSE 0
             v == IF value = p THEN 1 ELSE 0
  <2>6. d \in Int /\ v \in Int
    OBVIOUS
  <2>7. /\ CellsOf(cells', p) = CellsOf(cells, p) + v - d
        /\ Up(at[t], args[t], p) = v
        /\ Down(at[t], args[t], p) = d
    BY <2>2, <2>4, <2>5
  <2> HIDE DEF d, v
  <2>8. QED
    BY <2>1, <2>2, <2>3, <2>4, <2>6, <2>7 DEF BalanceKept
<1>15. "copy" \in Where
  BY DEF Where
<1>16. QED
  BY <1>9, <1>10, <1>13, <1>14, <1>15, Concluded

-------------------------------------------------------------------------------
(* The array of longs.                                                     *)

ACopy == [held : BOOLEAN, data : [Elements -> Nat], written : [Elements -> Nat]]

(* A step on the array of longs leaves the references alone. *)
LEMMA ReferencesAside ==
  ASSUME DataInv, sharing' = sharing, UNCHANGED references,
         longs' \in [Elements -> Nat], copies' \in [Threads -> ACopy],
         released' \in [Elements -> Nat], overlapped' \in BOOLEAN,
         Copies', WritesKept'
  PROVE  DataInv'
<1>1. DataTypeOK'
  BY DEF DataInv, DataTypeOK, references, ACopy
<1>2. Places' /\ Progress'
  BY DEF DataInv, Places, Progress, references
<1>3. ASSUME sharing' # "ended", NEW o \in Objects \ tainted'
      PROVE  counted'[o] = CellsOf(cells', o) + Cardinality(LocalRefs(locals', o))
                             + Cardinality(Incremented(o)') - Cardinality(Decremented(o)')
  <2>1. /\ counted' = counted /\ cells' = cells /\ locals' = locals /\ tainted' = tainted
        /\ Incremented(o)' = Incremented(o) /\ Decremented(o)' = Decremented(o)
    BY DEF references, Incremented, Decremented
  <2>2. QED
    BY <1>3, <2>1 DEF DataInv, CountsExactUnlessTainted
<1>4. CountsExactUnlessTainted'
  BY <1>3 DEF CountsExactUnlessTainted
<1>5. QED
  BY <1>1, <1>2, <1>4 DEF DataInv

LEMMA LongsTypes ==
  ASSUME DataInv
  PROVE  /\ longs \in [Elements -> Nat] /\ copies \in [Threads -> ACopy]
         /\ released \in [Elements -> Nat] /\ overlapped \in BOOLEAN
         /\ NoCopy.written \in [Elements -> Nat] /\ NoCopy \in ACopy
BY DEF DataInv, DataTypeOK, ACopy, NoCopy

LEMMA CopyLongsStep ==
  ASSUME DataInv, NEW source \in -1..(Size - 1), NEW dest \in -1..(Size - 1),
         NEW count \in -1..Size, CopyLongs(source, dest, count)
  PROVE  DataInv'
<1> DEFINE Within == /\ {source, dest, count} \subseteq Nat
                     /\ source + count <= Size /\ dest + count <= Size
<1>1. CASE ~ Within
  BY <1>1, EndStep DEF CopyLongs
<1>2. CASE Within
  <2>1. /\ source \in Nat /\ dest \in Nat /\ count \in Nat /\ Size \in Nat
        /\ source + count <= Size /\ dest + count <= Size
    BY <1>2, DataAssumption
  <2>2. /\ longs' = Moved(longs, source, dest, count)
        /\ overlapped' = (overlapped \/ \E t \in Threads : copies[t].held)
        /\ Releases(Moved(released, source, dest, count))
        /\ sharing' = sharing /\ UNCHANGED references /\ copies' = copies
    BY <1>2 DEF CopyLongs
  <2>3. ASSUME NEW f \in [Elements -> Nat]
        PROVE  Moved(f, source, dest, count) \in [Elements -> Nat]
    BY <2>1 DEF Moved, Elements
  <2>4. longs' \in [Elements -> Nat] /\ released' \in [Elements -> Nat]
    BY <2>2, <2>3, LongsTypes DEF Releases
  <2>5. ASSUME sharing' = "longs", ~overlapped'
        PROVE  longs' = released' /\ \A t \in Threads : ~copies'[t].held
    <3>1. sharing = "longs" /\ ~overlapped /\ \A t \in Threads : ~copies[t].held
      BY <2>2, <2>5
    <3>2. longs = released
      BY <3>1, LongsTypes DEF DataInv, WritesKept
    <3>3. released' = Moved(released, source, dest, count)
      BY <2>2, <2>5 DEF Releases
    <3>4. QED
      BY <2>2, <3>1, <3>2, <3>3
  <2>6. WritesKept' /\ Copies'
    BY <2>5 DEF WritesKept, Copies
  <2>7. QED
    BY <2>2, <2>4, <2>6, LongsTypes, ReferencesAside
<1>3. QED
  BY <1>1, <1>2

LEMMA GetCopyStep ==
  ASSUME DataInv, NEW t \in Threads, GetLongArrayElements(t)
  PROVE  DataInv'
<1>1. /\ ~copies[t].held /\ longs' = longs /\ sharing' = sharing /\ UNCHANGED references
      /\ overlapped' = (overlapped \/ \E u \in Threads \ {t} : copies[u].held)
      /\ Releases(released)
  BY DEF GetLongArrayElements
<1>2. PICK c \in ACopy : c = [NoCopy EXCEPT !.held = TRUE, !.data = longs]
  BY LongsTypes DEF ACopy
<1>3. copies' = [copies EXCEPT ![t] = c]
  BY <1>2 DEF GetLongArrayElements
<1>4. copies' \in [Threads -> ACopy] /\ copies'[t] = c /\ \A u \in Threads \ {t} : copies'[u] = copies[u]
  BY <1>3, LongsTypes
<1>5. released' \in [Elements -> Nat]
  BY <1>1, LongsTypes DEF Releases
<1>6. c.data = longs /\ \A i \in Elements : c.written[i] = 0
  BY <1>2 DEF NoCopy
<1>7. ASSUME sharing' = "longs", ~overlapped'
      PROVE  /\ released' = released /\ sharing = "longs" /\ ~overlapped
             /\ \A u \in Threads \ {t} : ~copies'[u].held
  BY <1>1, <1>4, <1>7 DEF Releases
<1>8. WritesKept'
  BY <1>1, <1>7 DEF DataInv, WritesKept
<1>9. Copies'
  <2> SUFFICES ASSUME sharing' = "longs", ~overlapped'
               PROVE  /\ \A u, v \in Threads : copies'[u].held /\ copies'[v].held => u = v
                      /\ \A u \in Threads : copies'[u].held =>
                           \A i \in Elements : copies'[u].data[i] = longs'[i] + copies'[u].written[i]
    BY DEF Copies
  <2>1. \A u \in Threads : copies'[u].held => u = t
    BY <1>7
  <2>2. \A i \in Elements : copies'[t].data[i] = longs'[i] + copies'[t].written[i]
    <3>1. longs' \in [Elements -> Nat]
      BY <1>1, LongsTypes
    <3>2. QED
      BY <1>1, <1>4, <1>6, <3>1
  <2>3. QED
    BY <2>1, <2>2
<1>10. QED
  BY <1>1, <1>4, <1>5, <1>8, <1>9, LongsTypes, ReferencesAside

LEMMA WriteStep ==
  ASSUME DataInv, NEW t \in Threads, NEW i \in Elements, Write(t, i)
  PROVE  DataInv'
<1>1. /\ copies[t].held /\ longs' = longs /\ sharing' = sharing /\ UNCHANGED references
      /\ released' = released /\ overlapped' = overlapped
      /\ copies' = [copies EXCEPT ![t].data[i] = @ + 1, ![t].written[i] = @ + 1]
  BY DEF Write
<1>2. PICK c \in ACopy : c = copies[t]
  BY LongsTypes
<1>3. /\ copies' \in [Threads -> ACopy]
      /\ (copies'[t].held <=> copies[t].held)
      /\ copies'[t].data = [c.data EXCEPT ![i] = @ + 1]
      /\ copies'[t].written = [c.written EXCEPT ![i] = @ + 1]
      /\ \A u \in Threads \ {t} : copies'[u] = copies[u]
  BY <1>1, <1>2, LongsTypes DEF ACopy
<1>4. WritesKept'
  BY <1>1 DEF DataInv, WritesKept
<1>5. Copies'
  <2> SUFFICES ASSUME sharing' = "longs", ~overlapped'
               PROVE  /\ \A u, v \in Threads : copies'[u].held /\ copies'[v].held => u = v
                      /\ \A u \in Threads : copies'[u].held =>
                           \A j \in Elements : copies'[u].data[j] = longs'[j] + copies'[u].written[j]
    BY DEF Copies
  <2>1. /\ \A u, v \in Threads : copies[u].held /\ copies[v].held => u = v
        /\ \A u \in Threads : copies[u].held =>
             \A j \in Elements : copies[u].data[j] = longs[j] + copies[u].written[j]
    BY <1>1 DEF DataInv, Copies
  <2>2. \A u \in Threads : copies'[u].held => u = t
    BY <1>1, <1>3, <2>1
  <2>3. ASSUME NEW j \in Elements
        PROVE  copies'[t].data[j] = longs'[j] + copies'[t].written[j]
    <3>1. c.data[j] = longs[j] + c.written[j]
      BY <1>1, <1>2, <2>1
    <3>2. c.data \in [Elements -> Nat] /\ c.written \in [Elements -> Nat] /\ longs[j] \in Nat
      BY LongsTypes DEF ACopy
    <3>3. QED
      BY <1>1, <1>3, <3>1, <3>2
  <2>4. QED
    BY <2>2, <2>3
<1>6. QED
  BY <1>1, <1>3, <1>4, <1>5, LongsTypes, ReferencesAside

LEMMA ReleaseStep ==
  ASSUME DataInv, NEW t \in Threads, NEW mode \in {"0", "VM_COMMIT", "VM_ABORT"},
         ReleaseLongArrayElements(t, mode)
  PROVE  DataInv'
<1>1. PICK c \in ACopy : c = copies[t]
  BY LongsTypes
<1>2. /\ c.held /\ sharing' = sharing /\ UNCHANGED references /\ overlapped' = overlapped
      /\ longs' = IF CopiesBack(mode) THEN c.data ELSE longs
      /\ Releases(IF mode = "VM_ABORT" THEN released
                  ELSE [i \in Elements |-> released[i] + c.written[i]])
      /\ copies' = [copies EXCEPT ![t] =
                      IF Frees(mode) THEN NoCopy ELSE [c EXCEPT !.written = NoCopy.written]]
  BY <1>1 DEF ReleaseLongArrayElements
<1>3. c.data \in [Elements -> Nat] /\ c.written \in [Elements -> Nat]
  BY DEF ACopy
<1>4. longs' \in [Elements -> Nat] /\ released' \in [Elements -> Nat]
  BY <1>2, <1>3, LongsTypes DEF Releases
<1>5. PICK d \in ACopy : d = IF Frees(mode) THEN NoCopy ELSE [c EXCEPT !.written = NoCopy.written]
  BY LongsTypes DEF ACopy
<1>6. copies' \in [Threads -> ACopy] /\ copies'[t] = d /\ \A u \in Threads \ {t} : copies'[u] = copies[u]
  BY <1>2, <1>5, LongsTypes
<1>7. ASSUME sharing' = "longs", ~overlapped'
      PROVE  /\ sharing = "longs" /\ ~overlapped
             /\ \A u \in Threads \ {t} : ~copies'[u].held
             /\ \A i \in Elements : /\ longs[i] = released[i]
                                    /\ c.data[i] = longs[i] + c.written[i]
  BY <1>1, <1>2, <1>6, <1>7 DEF DataInv, Copies, WritesKept
<1>8. WritesKept'
  <2> SUFFICES ASSUME sharing' = "longs", ~overlapped', NEW i \in Elements
               PROVE  longs'[i] = released'[i]
    BY DEF WritesKept
  <2>1. released' = IF mode = "VM_ABORT" THEN released ELSE [j \in Elements |-> released[j] + c.written[j]]
    BY <1>2 DEF Releases
  <2>2. longs[i] = released[i] /\ c.data[i] = longs[i] + c.written[i]
    BY <1>7
  <2>3. QED
    BY <1>2, <2>1, <2>2 DEF CopiesBack
<1>9. Copies'
  <2> SUFFICES ASSUME sharing' = "longs", ~overlapped'
               PROVE  /\ \A u, v \in Threads : copies'[u].held /\ copies'[v].held => u = v
                      /\ \A u \in Threads : copies'[u].held =>
                           \A i \in Elements : copies'[u].data[i] = longs'[i] + copies'[u].written[i]
    BY DEF Copies
  <2>1. \A u \in Threads : copies'[u].held => u = t
    BY <1>7
  <2>2. ASSUME copies'[t].held, NEW i \in Elements
        PROVE  copies'[t].data[i] = longs'[i] + copies'[t].written[i]
    <3>1. mode = "VM_COMMIT"
      BY <1>5, <1>6, <2>2 DEF Frees, NoCopy
    <3>2. longs' = c.data
      BY <1>2, <3>1 DEF CopiesBack
    <3>3. d.data = c.data /\ d.written[i] = 0
      BY <1>5, <3>1 DEF Frees, NoCopy, ACopy
    <3>4. QED
      BY <1>3, <1>6, <3>2, <3>3
  <2>3. QED
    BY <2>1, <2>2
<1>10. QED
  BY <1>2, <1>4, <1>6, <1>8, <1>9, LongsTypes, ReferencesAside

-------------------------------------------------------------------------------
(* The theorem.                                                            *)

LEMMA InitDataInv == DataInit => DataInv
<1> SUFFICES ASSUME DataInit PROVE DataInv
  OBVIOUS
<1>1. NoArgs \in Args
  BY PlainArgs DEF Refs, Cells
<1>2. cells \in [Cells -> Refs]
  BY DEF DataInit, Refs
<1>3. \A o \in Objects : CellsOf(cells, o) \in Nat
  BY CellsFew
<1>4. DataTypeOK
  <2>1. counted \in [Objects -> Int]
    BY <1>3 DEF DataInit
  <2>2. locals \in [Threads -> [Objects -> 0..MaxLocals]]
    BY DataAssumption DEF DataInit
  <2>3. copies \in [Threads -> [held : BOOLEAN, data : [Elements -> Nat], written : [Elements -> Nat]]]
    BY DEF DataInit, NoCopy
  <2>4. QED
    BY <1>1, <1>2, <2>1, <2>2, <2>3 DEF DataInit, DataTypeOK
<1>5. Places /\ Progress
  BY DEF DataInit, Places, Placed, Progress, Copied
<1>6. ASSUME NEW o \in Objects
      PROVE  counted[o] = CellsOf(cells, o) + Cardinality(LocalRefs(locals, o))
                            + Cardinality(Incremented(o)) - Cardinality(Decremented(o))
  <2>1. LocalRefs(locals, o) = {}
    <3> SUFFICES ASSUME NEW u \in Threads, NEW r \in 1..MaxLocals, r <= locals[u][o] PROVE FALSE
      BY DEF LocalRefs
    <3>1. locals[u][o] = 0
      BY DEF DataInit
    <3>2. QED
      BY <3>1, DataAssumption
  <2>2. Incremented(o) = {} /\ Decremented(o) = {}
    BY DEF Incremented, Decremented, DataInit
  <2>3. counted[o] = CellsOf(cells, o)
    BY DEF DataInit
  <2>4. QED
    BY <1>3, <2>1, <2>2, <2>3, FS_EmptySet
<1>7. CountsExactUnlessTainted
  BY <1>6 DEF CountsExactUnlessTainted
<1>8. Copies /\ WritesKept
  BY DEF DataInit, Copies, WritesKept, NoCopy
<1>9. QED
  BY <1>4, <1>5, <1>7, <1>8 DEF DataInv

LEMMA DataInvStep == DataInv /\ [DataNext]_dataVars => DataInv'
<1> SUFFICES ASSUME DataInv, [DataNext]_dataVars PROVE DataInv'
  OBVIOUS
<1>1. ASSUME NEW source \in -1..(Size - 1), NEW dest \in -1..(Size - 1), NEW count \in -1..Size,
             CopyLongs(source, dest, count)
      PROVE  DataInv'
  BY <1>1, CopyLongsStep
<1>2. ASSUME NEW t \in Threads,
             \/ CreateLocalRef(t) \/ GetObjectField(t) \/ SetObject(t) \/ Store(t)
             \/ CopyElement(t) \/ CopyPut(t) \/ CopyEnds(t) \/ GetLongArrayElements(t)
      PROVE  DataInv'
  BY <1>2, CreateStep, GetStep, SetObjectStep, StoreStep, CopyElementStep, CopyPutStep,
     CopyEndsStep, GetCopyStep
<1>3. ASSUME NEW t \in Threads, NEW o \in Objects, DeleteLocalRef(t, o)
      PROVE  DataInv'
  BY <1>3, DeleteStep
<1>4. ASSUME NEW t \in Threads, NEW value \in Objects \cup {Null},
             \/ SetObjectField(t, value) \/ SetObjectGlobalVar(t, value)
             \/ \E i \in Elements : SetObjectArrayElement(t, i, value)
      PROVE  DataInv'
  BY <1>4, SetFieldStep, SetGlobalStep, SetElementStep
<1>5. ASSUME NEW t \in Threads, NEW source \in -1..(Size - 1), NEW dest \in -1..(Size - 1),
             NEW count \in -1..Size, Copy(t, source, dest, count)
      PROVE  DataInv'
  BY <1>5, CopyStep
<1>6. ASSUME NEW t \in Threads, NEW i \in Elements, Write(t, i)
      PROVE  DataInv'
  BY <1>6, WriteStep
<1>7. ASSUME NEW t \in Threads, NEW mode \in {"0", "VM_COMMIT", "VM_ABORT"},
             ReleaseLongArrayElements(t, mode)
      PROVE  DataInv'
  BY <1>7, ReleaseStep
<1>8. CASE UNCHANGED dataVars
  <2>1. sharing' = sharing /\ UNCHANGED references /\ UNCHANGED arrays
    BY <1>8 DEF dataVars
  <2>2. Copies' /\ WritesKept'
    BY <2>1, ArraysAside
  <2>3. QED
    BY <2>1, <2>2, LongsTypes, ReferencesAside DEF arrays
<1>9. QED
  BY <1>1, <1>2, <1>3, <1>4, <1>5, <1>6, <1>7, <1>8 DEF DataNext

(* A copy with nothing left to move has the array as if moved at once. *)
LEMMA DataInvImplies == DataInv => SharedDataKept
<1> SUFFICES ASSUME DataInv PROVE SharedDataKept
  OBVIOUS
<1>1. ASSUME NEW t \in Threads, at[t] = "copy", args[t].left = 0, args[t].alone, NEW i \in Elements
      PROVE  cells[i] = args[t].goal[i]
  <2>1. PICK a \in Args : a = args[t]
    BY DEF DataInv, DataTypeOK
  <2>2. a.left = 0 /\ a.count \in Nat
    BY <1>1, <2>1 DEF Args
  <2>3. Remaining(a) = {}
    BY <2>2 DEF Remaining
  <2>4. Copied("copy", a, cells) /\ a.alone
    BY <1>1, <2>1 DEF DataInv, Progress
  <2>5. QED
    BY <2>1, <2>3, <2>4 DEF Copied
<1>2. CopiesAtOnce
  BY <1>1 DEF CopiesAtOnce
<1>3. QED
  BY <1>2 DEF DataInv, SharedDataKept

(* Objects and arrays that native threads read, store, copy and hold copies of at the *)
(* same time lose neither a reference nor an element: the counts of the objects that  *)
(* no unsafe operation has touched are exact, a copy within an array that nobody      *)
(* disturbs moves the elements as if at once, and what is written to the one copy of  *)
(* an array is in the array once released.                                            *)
THEOREM SharedDataKeptCorrect == DataSpec => []SharedDataKept
<1>1. DataInit => DataInv
  BY InitDataInv
<1>2. DataInv /\ [DataNext]_dataVars => DataInv'
  BY DataInvStep
<1>3. DataInv => SharedDataKept
  BY DataInvImplies
<1>4. QED
  BY <1>1, <1>2, <1>3, PTL DEF DataSpec

-------------------------------------------------------------------------------
(* The arguments of a descriptor: Descriptors.                             *)

(* A set of naturals that is not empty has a least member. *)
LEMMA LeastOf ==
  ASSUME NEW S, S \subseteq Nat, S # {}
  PROVE  Min(S) \in S
<1>1. PICK x \in S : \A y \in S : ~ (<<y, x>> \in OpToRel(<, Nat))
  BY NatLessThanWellFounded, WFMin
<1>2. \A y \in S : ~ (y < x)
  BY <1>1 DEF OpToRel
<1>3. \E z \in S : \A y \in S : z <= y
  BY <1>2
<1>4. QED
  BY <1>3 DEF Min

(* Induction from a number down, with a set for the property. *)
LEMMA DownTo ==
  ASSUME NEW n \in Nat, NEW P,
         \A i \in 0..n : (\A j \in (i + 1)..n : j \in P) => i \in P
  PROVE  \A i \in 0..n : i \in P
<1> DEFINE Misses == {k \in 0..n : n - k \notin P}
<1>1. ASSUME Misses # {}
      PROVE  FALSE
  <2>1. Misses \subseteq Nat
    OBVIOUS
  <2>2. PICK x \in Misses : \A y \in Misses : ~ (<<y, x>> \in OpToRel(<, Nat))
    BY <1>1, <2>1, NatLessThanWellFounded, WFMin
  <2>3. \A y \in Misses : ~ (y < x)
    BY <2>1, <2>2 DEF OpToRel
  <2>4. ASSUME NEW j \in ((n - x) + 1)..n
        PROVE  j \in P
    <3>1. n - j \in 0..n /\ n - j < x /\ n - (n - j) = j
      BY <2>1
    <3>2. n - j \notin Misses
      BY <2>3, <3>1
    <3>3. QED
      BY <3>1, <3>2
  <2>5. n - x \in 0..n
    OBVIOUS
  <2>6. n - x \in P
    BY <2>4, <2>5
  <2>7. QED
    BY <2>6
<1>2. ASSUME NEW i \in 0..n
      PROVE  i \in P
  <2> SUFFICES ASSUME i \notin P
               PROVE  FALSE
    OBVIOUS
  <2>1. n - i \in 0..n /\ n - (n - i) = i
    OBVIOUS
  <2>2. n - i \in Misses
    BY <2>1
  <2>3. QED
    BY <1>1, <2>2
<1>3. QED
  BY <1>2

(* What is made at an index depends on what is at the ones further on. *)
LooksOn(n, R, made) ==
  /\ made \in [0..n -> [[0..n -> R] -> R]]
  /\ \A i \in 0..n : \A x, y \in [0..n -> R] :
       (\A j \in (i + 1)..n : x[j] = y[j]) => made[i][x] = made[i][y]

Solves(f, n, R, made) == f \in [0..n -> R] /\ \A i \in 0..n : f[i] = made[i][f]

(* A function of 0..n may be defined from what it is further on. *)
LEMMA Backwards ==
  ASSUME NEW n \in Nat, NEW R, NEW r \in R, NEW made, LooksOn(n, R, made)
  PROVE  \E f : Solves(f, n, R, made)
<1> USE DEF LooksOn
<1> DEFINE T == [0..n -> R]
           From(f, i) == \A k \in i..n : f[k] = made[k][f]
           P == {i \in 0..n : \E f \in T : From(f, i)}
<1>1. ASSUME NEW i \in 0..n, NEW f \in T, From(f, i + 1)
      PROVE  i \in P
  <2> DEFINE g == [f EXCEPT ![i] = made[i][f]]
  <2>1. made[i][f] \in R
    OBVIOUS
  <2>2. g \in T /\ g[i] = made[i][f] /\ \A k \in 0..n : k # i => g[k] = f[k]
    BY <2>1
  <2> HIDE DEF g
  <2>3. ASSUME NEW k \in i..n
        PROVE  g[k] = made[k][g]
    <3>1. k \in 0..n /\ \A j \in (k + 1)..n : j \in 0..n /\ j # i
      OBVIOUS
    <3>2. made[k][g] = made[k][f]
      BY <2>2, <3>1
    <3>3. CASE k = i
      BY <2>2, <3>2, <3>3
    <3>4. CASE k # i
      <4>1. k \in (i + 1)..n
        BY <3>4
      <4>2. f[k] = made[k][f]
        BY <1>1, <4>1
      <4>3. QED
        BY <2>2, <3>1, <3>2, <3>4, <4>2
    <3>5. QED
      BY <3>3, <3>4
  <2>4. From(g, i)
    BY <2>3
  <2>5. QED
    BY <2>2, <2>4
<1>2. ASSUME NEW i \in 0..n, \A j \in (i + 1)..n : j \in P
      PROVE  i \in P
  <2>1. CASE i = n
    <3>1. [k \in 0..n |-> r] \in T /\ From([k \in 0..n |-> r], i + 1)
      BY <2>1
    <3>2. QED
      BY <1>1, <3>1
  <2>2. CASE i # n
    <3>1. i + 1 \in (i + 1)..n
      BY <2>2
    <3>2. PICK f \in T : From(f, i + 1)
      BY <1>2, <3>1
    <3>3. QED
      BY <1>1, <3>2
  <2>3. QED
    BY <2>1, <2>2
<1> HIDE DEF P
<1>3. 0 \in P
  <2>1. \A i \in 0..n : i \in P
    BY <1>2, DownTo
  <2>2. QED
    BY <2>1
<1>4. QED
  BY <1>3 DEF P, Solves

(* A type ends behind where it starts, and no further than one behind the text. *)
LEMMA ParsedOn ==
  ASSUME NEW S, NEW memory \in Seq(S), NEW i \in Nat, i < Length(memory)
  PROVE  ParseType(memory, i).index \in {Bad} \cup ((i + 1)..(Len(memory) + 1))
<1> DEFINE n == Len(memory)
<1>1. n \in Nat /\ Length(memory) = n - 1
  BY DEF Length
<1> HIDE DEF n
<1>2. ASSUME NEW k \in Nat
      PROVE  ParseClassType(memory, k) \in {Bad} \cup ((k + 1)..n)
  <2> DEFINE ends == { j \in (k + 1)..Length(memory) : At(memory, j) = ";" }
  <2>1. ends \subseteq Nat /\ ends \subseteq (k + 1)..(n - 1)
    <3>1. ends \subseteq (k + 1)..Length(memory)
      OBVIOUS
    <3> HIDE DEF ends
    <3>2. QED
      BY <1>1, <3>1
  <2>2. ParseClassType(memory, k) =
          IF k >= Length(memory) \/ ends = {} THEN Bad ELSE Min(ends) + 1
    BY DEF ParseClassType
  <2> HIDE DEF ends
  <2>3. CASE ends = {}
    BY <2>2, <2>3
  <2>4. CASE ends # {}
    <3>1. Min(ends) \in (k + 1)..(n - 1)
      BY <2>1, <2>4, LeastOf
    <3>2. Min(ends) + 1 \in (k + 1)..n
      BY <1>1, <3>1
    <3>3. QED
      BY <2>2, <3>2
  <2>5. QED
    BY <2>3, <2>4
<1>3. ASSUME NEW k \in Nat, k <= n
      PROVE  ParseArrayBaseType(memory, k) \in {Bad} \cup ((k + 1)..(n + 1))
  <2> DEFINE others == { j \in k..Len(memory) : At(memory, j) # "[" }
             base == Min(others)
  <2>1. others \subseteq Nat /\ others \subseteq k..n
    BY <1>1 DEF n
  <2>2. n \in others
    <3>1. At(memory, n) = "?"
      BY <1>1 DEF At, n
    <3>2. QED
      BY <1>1, <1>3, <3>1 DEF n
  <2> HIDE DEF others
  <2>3. base \in k..n
    BY <2>1, <2>2, LeastOf
  <2>4. ParseArrayBaseType(memory, k) =
          IF At(memory, base) = "R" THEN ParseClassType(memory, base + 1)
          ELSE IF At(memory, base) \in Primitives THEN base + 1
          ELSE Bad
    BY DEF ParseArrayBaseType, others
  <2> HIDE DEF base
  <2>5. base + 1 \in Nat /\ base + 1 \in (k + 1)..(n + 1)
    BY <1>1, <2>3
  <2>6. ParseClassType(memory, base + 1) \in {Bad} \cup ((base + 2)..n)
    <3>1. (base + 1) + 1 = base + 2
      BY <1>1, <2>3
    <3>2. QED
      BY <1>2, <2>5, <3>1
  <2>7. (base + 2)..n \subseteq (k + 1)..(n + 1)
    BY <1>1, <2>3
  <2>8. QED
    BY <2>4, <2>5, <2>6, <2>7
<1>4. /\ ParseClassType(memory, i + 1) \in {Bad} \cup ((i + 2)..n)
      /\ ParseArrayBaseType(memory, i + 1) \in {Bad} \cup ((i + 2)..(n + 1))
  <2>1. i + 1 \in Nat /\ i + 1 <= n /\ (i + 1) + 1 = i + 2
    BY <1>1
  <2>2. QED
    BY <1>2, <1>3, <2>1
<1>5. i + 1 \in (i + 1)..(n + 1) /\ (i + 2)..n \subseteq (i + 1)..(n + 1)
      /\ (i + 2)..(n + 1) \subseteq (i + 1)..(n + 1)
  BY <1>1
<1>6. QED
  BY <1>4, <1>5 DEF ParseType, n

(* The function that ParseFunctionType calls exists, and its arguments are a sequence. *)
LEMMA ArgumentsAre ==
  ASSUME NEW S, NEW memory \in Seq(S), Len(memory) > 0
  PROVE  Len(ParseFunctionType(memory).arguments) \in Nat
<1> DEFINE n == Len(memory) + 1
           A == {ParseType(memory, i) : i \in Nat}
           R == [index : Int, arguments : Seq(A)]
           T == [0..n -> R]
           Stops(i) == i >= Length(memory) \/ At(memory, i) = ")"
           a(i) == ParseType(memory, i)
           Made(x, i) ==
             IF Stops(i) THEN [index |-> i, arguments |-> <<>>]
             ELSE IF a(i).index = Bad THEN [index |-> Bad, arguments |-> <<>>]
             ELSE [x[a(i).index] EXCEPT !.arguments = <<a(i)>> \o @]
           Is(f) == f = [i \in 0..n |-> Made(f, i)]
           made == [i \in 0..n |-> [x \in T |-> Made(x, i)]]
<1>1. n \in Nat /\ 1 \in 0..n /\ Length(memory) = n - 2
  BY DEF Length
<1>2. ASSUME NEW i \in 0..n, ~ Stops(i), a(i).index # Bad
      PROVE  a(i).index \in (i + 1)..n /\ a(i).index \in 0..n
  <2>1. i \in Nat /\ i < Length(memory)
    BY <1>1, <1>2
  <2>2. a(i).index \in {Bad} \cup ((i + 1)..n)
    BY <2>1, ParsedOn
  <2>3. a(i).index \in (i + 1)..n
    BY <1>2, <2>2
  <2>4. QED
    BY <2>3
<1>3. \A i \in 0..n : a(i) \in A /\ i \in Int
  OBVIOUS
<1>4. Bad \in Int
  BY DEF Bad
<1>5. ArgumentsFrom(memory) = CHOOSE f : Is(f)
  BY DEF ArgumentsFrom
<1>6. Len(ParseFunctionType(memory).arguments)
        \in {0, Len(ArgumentsFrom(memory)[1].arguments)}
  BY DEF ParseFunctionType, Refused
<1> HIDE DEF a, Stops, n, A
(* A value of the function, for what it is further on. *)
<1>7. ASSUME NEW i \in 0..n, NEW x, \A j \in (i + 1)..n : x[j] \in R
      PROVE  Made(x, i) \in R
  <2>1. CASE Stops(i) \/ a(i).index = Bad
    BY <1>3, <1>4, <2>1
  <2>2. CASE ~ Stops(i) /\ a(i).index # Bad
    <3> DEFINE r == x[a(i).index]
    <3>1. r \in R
      BY <1>2, <1>7, <2>2
    <3> HIDE DEF r
    <3>2. r.arguments \in Seq(A) /\ a(i) \in A
      BY <1>3, <3>1
    <3>3. <<a(i)>> \o r.arguments \in Seq(A)
      BY <3>2
    <3>4. [r EXCEPT !.arguments = <<a(i)>> \o @] \in R
      BY <3>1, <3>3
    <3>5. QED
      BY <2>2, <3>4 DEF r
  <2>3. QED
    BY <2>1, <2>2
<1>8. ASSUME NEW i \in 0..n, NEW x \in T, NEW y \in T, \A j \in (i + 1)..n : x[j] = y[j]
      PROVE  Made(x, i) = Made(y, i)
  <2>1. CASE Stops(i) \/ a(i).index = Bad
    BY <2>1
  <2>2. CASE ~ Stops(i) /\ a(i).index # Bad
    <3>1. x[a(i).index] = y[a(i).index]
      BY <1>2, <1>8, <2>2
    <3>2. QED
      BY <2>2, <3>1
  <2>3. QED
    BY <2>1, <2>2
<1>9. [index |-> 0, arguments |-> <<>>] \in R
  OBVIOUS
<1> HIDE DEF R, Made
<1>10. made \in [0..n -> [T -> R]]
  <2>1. \A i \in 0..n, x \in T : \A j \in (i + 1)..n : x[j] \in R
    BY <1>1
  <2>2. \A i \in 0..n, x \in T : Made(x, i) \in R
    BY <1>7, <2>1
  <2>3. QED
    BY <2>2
<1>11. \A i \in 0..n : \A x, y \in T :
         (\A j \in (i + 1)..n : x[j] = y[j]) => made[i][x] = made[i][y]
  BY <1>8
<1>12. PICK f \in T : \A i \in 0..n : f[i] = made[i][f]
  <2>1. LooksOn(n, R, made)
    BY <1>10, <1>11 DEF LooksOn
  <2> HIDE DEF made
  <2>2. \E f : Solves(f, n, R, made)
    BY <1>1, <1>9, <2>1, Backwards
  <2>3. QED
    BY <2>2 DEF Solves
<1>13. Is(f)
  <2>1. f = [i \in 0..n |-> f[i]]
    OBVIOUS
  <2>2. \A i \in 0..n : f[i] = Made(f, i)
    BY <1>12
  <2>3. QED
    BY <2>1, <2>2
<1> DEFINE e == ArgumentsFrom(memory)
<1>14. Is(e)
  <2> HIDE DEF Is
  <2>1. QED
    BY <1>5, <1>13
<1> HIDE DEF e
<1>15. \A i \in 0..n : e[i] = Made(e, i)
  BY <1>14
<1> DEFINE P == {i \in 0..n : e[i] \in R}
<1>16. ASSUME NEW i \in 0..n, \A j \in (i + 1)..n : j \in P
       PROVE  i \in P
  BY <1>7, <1>15, <1>16
<1> HIDE DEF P
<1>17. \A i \in 0..n : i \in P
  BY <1>1, <1>16, DownTo
<1>18. e[1] \in R
  BY <1>1, <1>17 DEF P
<1>19. e[1].arguments \in Seq(A)
  BY <1>18 DEF R
<1>20. QED
  BY <1>6, <1>19 DEF e

-------------------------------------------------------------------------------
(* What arrives of what was passed: ArgumentPassing.                       *)

(* A slot that local[i] is for, and for no other argument, has argument i. *)
LEMMA LocalsHold ==
  ASSUME NEW n \in Int, NEW local, NEW value,
         \A i \in Taken : /\ local[i] \in 0..(n - 1)
                          /\ \A j \in Taken : local[j] = local[i] => j = i
  PROVE  /\ DOMAIN Locals(n, local, value) = 0..(n - 1)
         /\ \A i \in Taken :
              Locals(n, local, value)[local[i]] = Slot(Argument(i), value[i])
<1>1. DOMAIN Locals(n, local, value) = 0..(n - 1)
  BY DEF Locals
<1>2. ASSUME NEW i \in Taken
      PROVE  Locals(n, local, value)[local[i]] = Slot(Argument(i), value[i])
  <2> DEFINE j == CHOOSE j \in Taken : local[j] = local[i]
  <2>1. j \in Taken /\ local[j] = local[i]
    OBVIOUS
  <2>2. j = i
    BY <2>1
  <2>3. Locals(n, local, value)[local[i]] = Slot(Argument(j), value[j])
    BY DEF Locals
  <2> HIDE DEF j
  <2>4. QED
    BY <2>2, <2>3
<1>3. QED
  BY <1>1, <1>2

(* The operands of a call are in the order of its arguments. *)
LEMMA OperandsAre ==
  ASSUME Arity \in Nat, Taken = 1..Arity, NEW below, NEW sent
  PROVE  LET operands == Operands(below, sent)
         IN  /\ Len(operands) = Arity + 1 /\ DOMAIN operands = 1..(Arity + 1)
             /\ \A i \in 1..Arity : /\ Above(i) = Arity - i
                                    /\ operands[i + 1] = Slot(Argument(i), sent[i])
                                    /\ Popped(operands, i) = Slot(Argument(i), sent[i])
<1> DEFINE n == Arity
           operands == Operands(below, sent)
<1>1. Cardinality(Taken) = n
  BY FS_Interval
<1>2. ASSUME NEW i \in 1..n
      PROVE  Above(i) = n - i
  <2>1. {k \in Taken : k > i} = (i + 1)..n
    OBVIOUS
  <2>2. Cardinality((i + 1)..n) = n - i
    BY FS_Interval
  <2>3. QED
    BY <2>1, <2>2 DEF Above
<1> DEFINE m == Cardinality(Taken)
           Pushed(p) == CHOOSE i \in Taken : Above(i) = m + 1 - p
<1>3. operands = [p \in 1..(m + 1) |->
         IF p = 1 THEN Slot("handle", below)
         ELSE Slot(Argument(Pushed(p)), sent[Pushed(p)])]
  BY DEF Operands
<1>4. ASSUME NEW i \in 1..n
      PROVE  Pushed(i + 1) = i
  <2>1. \A j \in Taken : Above(j) = m + 1 - (i + 1) <=> j = i
    BY <1>1, <1>2
  <2>2. Pushed(i + 1) \in Taken /\ Above(Pushed(i + 1)) = m + 1 - (i + 1)
    BY <2>1
  <2>3. QED
    BY <2>1, <2>2
<1> HIDE DEF operands, Pushed
<1>5. Len(operands) = n + 1 /\ DOMAIN operands = 1..(n + 1)
  BY <1>1, <1>3
<1>6. ASSUME NEW i \in 1..n
      PROVE  /\ operands[i + 1] = Slot(Argument(i), sent[i])
             /\ Popped(operands, i) = Slot(Argument(i), sent[i])
  <2>1. i + 1 \in 1..(n + 1) /\ i + 1 # 1 /\ Len(operands) - Above(i) = i + 1
    BY <1>2, <1>5
  <2>2. operands[i + 1] = Slot(Argument(i), sent[i])
    BY <1>1, <1>3, <1>4, <2>1
  <2>3. QED
    BY <2>1, <2>2 DEF Popped
<1>7. QED
  BY <1>2, <1>5, <1>6 DEF operands

(* What a type can hold stays as it is in it and, of one not wider, in an int. *)
LEMMA CastsKeep ==
  ASSUME NEW type, NEW v \in Int, InRange(type, v)
  PROVE  /\ Cast(type, v) = v
         /\ Arrives(type, v, FromOperand(type, v))
         /\ type \in {"byte", "short", "int", "char"} => Cast("int", v) = v
<1>1. Cast(type, v) = v
  BY DEF InRange
<1>2. Arrives(type, v, FromOperand(type, v))
  BY <1>1 DEF Arrives, FromOperand
<1>3. ASSUME type \in {"byte", "short", "int", "char"}
      PROVE  Cast("int", v) = v
  <2> DEFINE h == Half[type]
             H == Half["int"]
  <2>1. h \in Nat \ {0} /\ H \in Nat \ {0} /\ h <= H
    BY <1>3, PassingAssumption DEF Integer
  <2>2. ((v + h) % (2 * h)) - h = v
    BY <1>1, <1>3 DEF Cast, Integer
  <2>3. Cast("int", v) = ((v + H) % (2 * H)) - H
    BY DEF Cast, Integer
  <2> HIDE DEF h, H
  <2>4. (v + h) % (2 * h) \in 0..(2 * h - 1)
    BY <2>1
  <2>5. v + H \in 0..(2 * H - 1)
    BY <2>1, <2>2, <2>4
  <2>6. \A x \in Int, m \in Nat \ {0} : x \in 0..(m - 1) => x % m = x
    OBVIOUS
  <2>7. (v + H) % (2 * H) = v + H
    BY <2>1, <2>5, <2>6
  <2>8. QED
    BY <2>1, <2>3, <2>7
<1>4. QED
  BY <1>1, <1>2, <1>3

(* What the function sees of a call that has no void arguments. *)
Delivered(c) ==
  LET first == IF c.this THEN 1 ELSE 0
  IN  /\ \A i \in 1..Arity :
           LET s == c.seen[i - 1 + first]
           IN  /\ s.tag = Tag(Argument(i))
               /\ (c.form # "odd" /\ InRange(Argument(i), c.sent[i])) =>
                    Arrives(Argument(i), c.sent[i], s.value)
      /\ (c.this \/ (c.form \in {"bytecode", "native"} /\ Arity > 0
                       /\ Argument(1) = "reference")) => c.seen[0] = c.receiver

Answered(c) == InRange(function.returns, c.returned) => c.result = c.returned

PassInv ==
  /\ text \in Seq(Chars \cup After) /\ Len(text) > 0
  /\ Arity \in Nat
  /\ DOMAIN call = DOMAIN NoCall
  /\ phase \in {"entered", "returned"} /\ Taken = 1..Arity => Delivered(call)
  /\ phase = "returned" => Answered(call)

(* The invariant is the property, with what the steps need. *)
LEMMA PassGives == PassInv => ValuesArrive
BY DEF PassInv, ValuesArrive, Delivered, Answered

(* A call that was made. *)
Made(form, this, sent, seen, receiver) ==
  [NoCall EXCEPT !.form = form, !.this = this, !.sent = sent, !.seen = seen,
                 !.receiver = receiver]

(* It takes the phase and what its function sees. *)
LEMMA EnterPasses ==
  ASSUME PassInv, NEW form, NEW this, NEW sent, NEW seen, NEW receiver,
         Enter(form, this, sent, seen, receiver),
         Taken = 1..Arity => Delivered(Made(form, this, sent, seen, receiver))
  PROVE  PassInv'
<1> DEFINE c == Made(form, this, sent, seen, receiver)
<1>1. call' = c /\ phase' = "entered" /\ text' = text /\ function' = function
  BY DEF Enter, Made
<1>2. DOMAIN c = DOMAIN NoCall
  BY DEF Made, NoCall
<1> HIDE DEF c
<1>3. /\ Arity' = Arity /\ Taken' = Taken
      /\ Delivered(call)' <=> Delivered(c)
  BY <1>1 DEF Arity, Taken, Argument, Delivered
<1>4. QED
  BY <1>1, <1>2, <1>3 DEF PassInv, c

(* The locals of a call whose arguments follow each other. *)
LEMMA CallDelivers ==
  ASSUME Arity \in Nat, Taken = 1..Arity, NEW form, NEW sent, NEW receiver,
         NEW local, NEW value, \A i \in 1..Arity : local[i] = i - 1,
         \A i \in 1..Arity : form # "odd" /\ InRange(Argument(i), sent[i]) =>
                               Arrives(Argument(i), sent[i], value[i]),
         form \in {"bytecode", "native"} /\ Arity > 0 /\ Argument(1) = "reference" =>
           receiver = Slot(Argument(1), value[1])
  PROVE  Delivered(Made(form, FALSE, sent, Locals(Arity, local, value), receiver))
<1> DEFINE seen == Locals(Arity, local, value)
           c == Made(form, FALSE, sent, seen, receiver)
<1>1. \A i \in 1..Arity : seen[i - 1] = Slot(Argument(i), value[i])
  <2>1. \A i \in Taken : /\ local[i] \in 0..(Arity - 1)
                         /\ \A j \in Taken : local[j] = local[i] => j = i
    OBVIOUS
  <2>2. \A i \in Taken : seen[local[i]] = Slot(Argument(i), value[i])
    BY <2>1, LocalsHold
  <2>3. QED
    BY <2>2
<1> HIDE DEF seen
<1>2. /\ c.form = form /\ c.this = FALSE /\ c.sent = sent /\ c.seen = seen
      /\ c.receiver = receiver
  BY DEF Made, NoCall
<1> HIDE DEF c
<1>3. \A i \in 1..Arity : i - 1 + 0 = i - 1
  OBVIOUS
<1>4. Arity > 0 => seen[0] = Slot(Argument(1), value[1])
  <2>1. Arity > 0 => 1 \in 1..Arity /\ 1 - 1 = 0
    OBVIOUS
  <2>2. QED
    BY <1>1, <2>1
<1>5. ASSUME NEW i \in 1..Arity
      PROVE  /\ c.seen[i - 1 + 0].tag = Tag(Argument(i))
             /\ (c.form # "odd" /\ InRange(Argument(i), c.sent[i])) =>
                  Arrives(Argument(i), c.sent[i], c.seen[i - 1 + 0].value)
  <2>1. c.seen[i - 1 + 0] = Slot(Argument(i), value[i])
    BY <1>1, <1>2, <1>3
  <2>2. /\ Slot(Argument(i), value[i]).tag = Tag(Argument(i))
        /\ Slot(Argument(i), value[i]).value = value[i]
    BY DEF Slot
  <2>3. QED
    BY <1>2, <2>1, <2>2
<1>6. c.form \in {"bytecode", "native"} /\ Arity > 0 /\ Argument(1) = "reference" =>
        c.seen[0] = c.receiver
  BY <1>2, <1>4
<1>7. Delivered(c)
  BY <1>2, <1>5, <1>6 DEF Delivered
<1>8. QED
  BY <1>7 DEF c, seen

(* The same with a receiver before them. *)
LEMMA MethodDelivers ==
  ASSUME Arity \in Nat, Taken = 1..Arity, NEW form, NEW sent, NEW receiver,
         NEW local, NEW value, \A i \in 1..Arity : local[i] = i,
         \A i \in 1..Arity : form # "odd" /\ InRange(Argument(i), sent[i]) =>
                               Arrives(Argument(i), sent[i], value[i])
  PROVE  Delivered(Made(form, TRUE, sent,
                        [Locals(Arity + 1, local, value) EXCEPT ![0] = receiver], receiver))
<1> DEFINE arguments == Locals(Arity + 1, local, value)
           seen == [arguments EXCEPT ![0] = receiver]
           c == Made(form, TRUE, sent, seen, receiver)
<1>1. /\ DOMAIN arguments = 0..Arity
      /\ \A i \in 1..Arity : arguments[i] = Slot(Argument(i), value[i])
  <2>1. \A i \in Taken : /\ local[i] \in 0..((Arity + 1) - 1)
                         /\ \A j \in Taken : local[j] = local[i] => j = i
    OBVIOUS
  <2>2. Arity + 1 \in Int /\ (Arity + 1) - 1 = Arity
    OBVIOUS
  <2>3. /\ DOMAIN arguments = 0..((Arity + 1) - 1)
        /\ \A i \in Taken : arguments[local[i]] = Slot(Argument(i), value[i])
    BY <2>1, <2>2, LocalsHold
  <2>4. QED
    BY <2>2, <2>3
<1> HIDE DEF arguments
<1>2. seen[0] = receiver /\ \A i \in 1..Arity : seen[i] = Slot(Argument(i), value[i])
  BY <1>1
<1> HIDE DEF seen
<1>3. /\ c.form = form /\ c.this = TRUE /\ c.sent = sent /\ c.seen = seen
      /\ c.receiver = receiver
  BY DEF Made, NoCall
<1> HIDE DEF c
<1>4. \A i \in 1..Arity : i - 1 + 1 = i
  OBVIOUS
<1>5. ASSUME NEW i \in 1..Arity
      PROVE  /\ c.seen[i - 1 + 1].tag = Tag(Argument(i))
             /\ (c.form # "odd" /\ InRange(Argument(i), c.sent[i])) =>
                  Arrives(Argument(i), c.sent[i], c.seen[i - 1 + 1].value)
  <2>1. c.seen[i - 1 + 1] = Slot(Argument(i), value[i])
    BY <1>2, <1>3, <1>4
  <2>2. /\ Slot(Argument(i), value[i]).tag = Tag(Argument(i))
        /\ Slot(Argument(i), value[i]).value = value[i]
    BY DEF Slot
  <2>3. QED
    BY <1>3, <2>1, <2>2
<1>6. c.seen[0] = c.receiver
  BY <1>2, <1>3
<1>7. Delivered(c)
  BY <1>3, <1>5, <1>6 DEF Delivered
<1>8. QED
  BY <1>7 DEF c, seen, arguments

(* A function is read from its descriptor. *)
LEMMA LoadPasses ==
  ASSUME PassInv, Load
  PROVE  PassInv'
<1>1. Len(function'.arguments) \in Nat
  BY ArgumentsAre DEF Load, PassInv
<1>2. /\ text' = text /\ call' = call /\ phase' \notin {"entered", "returned"}
  BY DEF Load
<1>3. QED
  BY <1>1, <1>2 DEF PassInv, Arity

(* What is passed are numbers. *)
LEMMA SentAre ==
  ASSUME NEW sent \in Sent, NEW i \in 1..Arity
  PROVE  sent[i] \in Int
<1>1. Half["long"] \in Nat
  BY PassingAssumption DEF Integer
<1>2. \A v \in Passed : v \in Int
  BY <1>1, PassingAssumption DEF Longs
<1>3. QED
  BY <1>2 DEF Sent

(* The calls keep the invariant, one after the other. *)
LEMMA BytecodePasses ==
  ASSUME PassInv, NEW sent \in Sent, NEW below, CallFromBytecode(sent, below)
  PROVE  PassInv'
<1> DEFINE operands == Operands(below, sent)
           local == [i \in Taken |-> BytecodeLocal(i)]
           value == [i \in Taken |-> FromOperand(Argument(i), Popped(operands, i).value)]
           receiver == ExtractThis(operands)
<1>1. Enter("bytecode", FALSE, sent, Locals(Arity, local, value), receiver)
  BY DEF CallFromBytecode
<1>2. ASSUME Taken = 1..Arity
      PROVE  Delivered(Made("bytecode", FALSE, sent, Locals(Arity, local, value), receiver))
  <2>1. Arity \in Nat
    BY DEF PassInv
  <2>2. /\ Len(operands) = Arity + 1 /\ DOMAIN operands = 1..(Arity + 1)
        /\ \A i \in 1..Arity : /\ Above(i) = Arity - i
                               /\ operands[i + 1] = Slot(Argument(i), sent[i])
                               /\ Popped(operands, i) = Slot(Argument(i), sent[i])
    BY <1>2, <2>1, OperandsAre
  <2>3. \A i \in 1..Arity : local[i] = i - 1
    BY <1>2, <2>1, <2>2 DEF BytecodeLocal
  <2>4. \A i \in 1..Arity : Popped(operands, i).value = sent[i]
    <3>1. \A type, v : Slot(type, v).value = v
      BY DEF Slot
    <3> HIDE DEF operands
    <3>2. QED
      BY <2>2, <3>1
  <2>5. \A i \in 1..Arity : value[i] = FromOperand(Argument(i), sent[i])
    BY <1>2, <2>4
  <2> HIDE DEF value, local, operands
  <2>6. \A i \in 1..Arity : InRange(Argument(i), sent[i]) =>
                              Arrives(Argument(i), sent[i], value[i])
    BY <2>5, SentAre, CastsKeep
  <2>7. Arity > 0 /\ Argument(1) = "reference" => receiver = Slot(Argument(1), value[1])
    <3>1. SUFFICES ASSUME Arity > 0, Argument(1) = "reference"
                   PROVE  receiver = Slot(Argument(1), value[1])
      OBVIOUS
    <3>2. Len(operands) - Arity + 1 = 2 /\ 2 \in DOMAIN operands /\ 1 \in 1..Arity
      BY <2>1, <2>2, <3>1
    <3>3. receiver = operands[2]
      BY <3>2 DEF ExtractThis
    <3>4. operands[2] = Slot(Argument(1), sent[1])
      <4>1. 1 + 1 = 2
        OBVIOUS
      <4>2. QED
        BY <2>2, <3>2, <4>1
    <3>5. value[1] = sent[1]
      BY <2>5, <3>1, <3>2 DEF FromOperand, Cast, Integer
    <3>6. QED
      BY <3>3, <3>4, <3>5
  <2> HIDE DEF receiver
  <2>8. QED
    BY <1>2, <2>1, <2>3, <2>6, <2>7, CallDelivers
<1>3. QED
  BY <1>1, <1>2, EnterPasses

LEMMA EndedPasses ==
  ASSUME PassInv, phase' = "exited", UNCHANGED <<text, function, symbol, call>>
  PROVE  PassInv'
BY DEF PassInv, Arity

LEMMA NativePasses ==
  ASSUME PassInv, NEW sent \in Sent, NEW below, CallNative(sent, below)
  PROVE  PassInv'
<1> DEFINE operands == Operands(below, sent)
           local == [i \in Taken |-> i - 1]
           value == [i \in Taken |-> Cast(Argument(i), Popped(operands, i).value)]
           receiver == ExtractThis(operands)
<1>1. CASE Taken # 1..Arity
  BY <1>1, EndedPasses DEF CallNative
<1>2. CASE Taken = 1..Arity
  <2>1. Arity \in Nat
    BY DEF PassInv
  <2>2. /\ Len(operands) = Arity + 1 /\ DOMAIN operands = 1..(Arity + 1)
        /\ \A i \in 1..Arity : /\ operands[i + 1] = Slot(Argument(i), sent[i])
                               /\ Popped(operands, i) = Slot(Argument(i), sent[i])
    BY <1>2, <2>1, OperandsAre
  <2>3. \A i \in 1..Arity : local[i] = i - 1
    BY <1>2
  <2>4. \A i \in 1..Arity : Popped(operands, i).value = sent[i]
    <3>1. \A type, v : Slot(type, v).value = v
      BY DEF Slot
    <3> HIDE DEF operands
    <3>2. QED
      BY <2>2, <3>1
  <2>5. \A i \in 1..Arity : value[i] = Cast(Argument(i), sent[i])
    BY <1>2, <2>4
  <2>6. Enter("native", FALSE, sent, Locals(Arity, local, value), receiver)
    BY <1>2 DEF CallNative
  <2> HIDE DEF value, local, operands
  <2>7. \A i \in 1..Arity : InRange(Argument(i), sent[i]) =>
                              Arrives(Argument(i), sent[i], value[i])
    BY <2>5 DEF InRange, Arrives
  <2>8. Arity > 0 /\ Argument(1) = "reference" => receiver = Slot(Argument(1), value[1])
    <3>1. SUFFICES ASSUME Arity > 0, Argument(1) = "reference"
                   PROVE  receiver = Slot(Argument(1), value[1])
      OBVIOUS
    <3>2. Len(operands) - Arity + 1 = 2 /\ 2 \in DOMAIN operands /\ 1 \in 1..Arity
      BY <2>1, <2>2, <3>1
    <3>3. receiver = operands[2]
      BY <3>2 DEF ExtractThis
    <3>4. operands[2] = Slot(Argument(1), sent[1])
      <4>1. 1 + 1 = 2
        OBVIOUS
      <4>2. QED
        BY <2>2, <3>2, <4>1
    <3>5. value[1] = sent[1]
      BY <2>5, <3>1, <3>2 DEF Cast, Integer
    <3>6. QED
      BY <3>3, <3>4, <3>5
  <2> HIDE DEF receiver
  <2>9. Delivered(Made("native", FALSE, sent, Locals(Arity, local, value), receiver))
    BY <1>2, <2>1, <2>3, <2>7, <2>8, CallDelivers
  <2>10. QED
    BY <2>6, <2>9, EnterPasses
<1>3. QED
  BY <1>1, <1>2

(* A call by native code, with values of which the ones of their types arrive. *)
LEMMA NativeCallPasses ==
  ASSUME PassInv, NEW form, form \notin {"bytecode", "native"}, NEW this \in BOOLEAN,
         NEW sent, NEW receiver, NEW value, NativeCall(form, this, sent, receiver, value),
         Taken = 1..Arity =>
           \A i \in 1..Arity : form # "odd" /\ InRange(Argument(i), sent[i]) =>
                                 Arrives(Argument(i), sent[i], value[i])
  PROVE  PassInv'
<1> DEFINE local == [i \in Taken |-> NativeLocal(this, i)]
<1>1. Arity \in Nat
  BY DEF PassInv
<1>2. CASE this = TRUE
  <2> DEFINE seen == [Locals(Arity + 1, local, value) EXCEPT ![0] = receiver]
  <2>1. Enter(form, TRUE, sent, seen, receiver)
    BY <1>2 DEF NativeCall
  <2>2. Taken = 1..Arity => \A i \in 1..Arity : local[i] = i
    BY <1>2 DEF NativeLocal
  <2> HIDE DEF local
  <2>3. Taken = 1..Arity => Delivered(Made(form, TRUE, sent, seen, receiver))
    BY <1>1, <2>2, MethodDelivers
  <2>4. QED
    BY <2>1, <2>3, EnterPasses
<1>3. CASE this = FALSE
  <2> DEFINE seen == Locals(Arity, local, value)
  <2>1. Enter(form, FALSE, sent, seen, NoSlot)
    <3>1. Arity + 0 = Arity
      BY <1>1
    <3>2. QED
      BY <1>3, <3>1 DEF NativeCall
  <2>2. Taken = 1..Arity => \A i \in 1..Arity : local[i] = i - 1
    BY <1>3 DEF NativeLocal
  <2> HIDE DEF local
  <2>3. Taken = 1..Arity => Delivered(Made(form, FALSE, sent, seen, NoSlot))
    BY <1>1, <2>2, CallDelivers
  <2>4. QED
    BY <2>1, <2>3, EnterPasses
<1>4. QED
  BY <1>2, <1>3

(* The entries of the table of functions, with the arguments as they are sent. *)
LEMMA ThroughPasses ==
  ASSUME PassInv, NEW entry, NEW this \in BOOLEAN, NEW sent, NEW receiver,
         Through(entry, this, sent, receiver)
  PROVE  PassInv'
<1> DEFINE value == [i \in Taken |-> Cast(Argument(i), sent[i])]
<1>1. NativeCall("code", this, sent, receiver, value)
  BY DEF Through, CallTFunctionV, CallTFunctionA
<1>2. Taken = 1..Arity =>
        \A i \in 1..Arity : InRange(Argument(i), sent[i]) =>
                              Arrives(Argument(i), sent[i], value[i])
  BY DEF InRange, Arrives
<1> HIDE DEF value
<1>3. QED
  BY <1>1, <1>2, NativeCallPasses

(* A method of which the C++ context may read the arguments one early. *)
LEMMA CallMethodPasses ==
  ASSUME PassInv, NEW sent, NEW receiver, CallMethod(sent, receiver)
  PROVE  PassInv'
<1>1. ASSUME NEW entry, Through(entry, TRUE, sent, receiver)
      PROVE  PassInv'
  BY <1>1, ThroughPasses
<1>2. ASSUME NEW value, NativeCall("odd", TRUE, sent, receiver, value)
      PROVE  PassInv'
  BY <1>2, NativeCallPasses
<1>3. QED
  BY <1>1, <1>2 DEF CallMethod

LEMMA NewObjectPasses ==
  ASSUME PassInv, NEW sent, NEW receiver, NewObject(sent, receiver)
  PROVE  PassInv'
<1>1. ASSUME NEW entry, Through(entry, TRUE, sent, receiver)
      PROVE  PassInv'
  BY <1>1, ThroughPasses
<1>2. ASSUME NEW value, NativeCall("odd", TRUE, sent, receiver, value)
      PROVE  PassInv'
  BY <1>2, NativeCallPasses
<1>3. QED
  BY <1>1, <1>2 DEF NewObject

LEMMA OddPasses ==
  ASSUME PassInv, NEW sent, NEW odd, NEW other, CallTFunctionAOdd(sent, odd, other)
  PROVE  PassInv'
<1>1. ASSUME NEW value, NativeCall("odd", FALSE, sent, NoSlot, value)
      PROVE  PassInv'
  BY <1>1, NativeCallPasses
<1>2. QED
  BY <1>1 DEF CallTFunctionAOdd

LEMMA InvokePasses ==
  ASSUME PassInv, NEW sent \in Sent, NEW odd,
         Invoke([i \in 1..Arity |-> IF i = odd THEN "int" ELSE Argument(i)], sent)
  PROVE  PassInv'
<1> DEFINE given == [i \in 1..Arity |-> IF i = odd THEN "int" ELSE Argument(i)]
           local == [i \in Taken |-> InvokedLocal(i)]
           value == [i \in Taken |-> FromOperand(Argument(i), Cast(given[i], sent[i]))]
<1>1. Arity \in Nat
  BY DEF PassInv
<1>2. CASE \E i \in 1..Arity : ~ Takes(Argument(i), given[i])
  BY <1>2, EndedPasses DEF Invoke
<1>3. CASE \A i \in 1..Arity : Takes(Argument(i), given[i])
  <2>1. Enter("invoke", FALSE, sent, Locals(Arity, local, value), NoSlot)
    BY <1>3 DEF Invoke
  <2>2. Taken = 1..Arity => \A i \in 1..Arity : local[i] = i - 1
    BY DEF InvokedLocal
  <2>3. ASSUME NEW i \in 1..Arity, InRange(Argument(i), sent[i])
        PROVE  Cast(given[i], sent[i]) = sent[i]
    <3>1. CASE given[i] = Argument(i)
      BY <2>3, <3>1 DEF InRange
    <3>2. CASE given[i] # Argument(i)
      <4>1. given[i] = "int" /\ Argument(i) \in {"byte", "short", "int", "char"}
        BY <1>3, <3>2 DEF Takes
      <4>2. QED
        BY <2>3, <4>1, SentAre, CastsKeep
    <3>3. QED
      BY <3>1, <3>2
  <2>4. Taken = 1..Arity =>
          \A i \in 1..Arity : InRange(Argument(i), sent[i]) =>
                                Arrives(Argument(i), sent[i], value[i])
    <3>1. SUFFICES ASSUME Taken = 1..Arity, NEW i \in 1..Arity,
                          InRange(Argument(i), sent[i])
                   PROVE  Arrives(Argument(i), sent[i], value[i])
      OBVIOUS
    <3>2. value[i] = FromOperand(Argument(i), sent[i])
      BY <2>3, <3>1
    <3>3. QED
      BY <3>1, <3>2, SentAre, CastsKeep
  <2> HIDE DEF local, value
  <2>5. Taken = 1..Arity =>
          Delivered(Made("invoke", FALSE, sent, Locals(Arity, local, value), NoSlot))
    BY <1>1, <2>2, <2>4, CallDelivers
  <2>6. QED
    BY <2>1, <2>5, EnterPasses
<1>4. QED
  BY <1>2, <1>3

LEMMA ReturnPasses ==
  ASSUME PassInv, NEW v, Return(v)
  PROVE  PassInv'
<1> DEFINE c == [call EXCEPT !.returned = v, !.result = Result(v)]
<1>1. /\ phase = "entered" /\ call' = c /\ phase' = "returned"
      /\ text' = text /\ function' = function
  BY DEF Return
<1>2. DOMAIN call = DOMAIN NoCall
  BY DEF PassInv
<1>3. /\ DOMAIN c = DOMAIN NoCall /\ c.returned = v /\ c.result = Result(v)
      /\ c.form = call.form /\ c.this = call.this /\ c.sent = call.sent
      /\ c.seen = call.seen /\ c.receiver = call.receiver
  BY <1>2 DEF NoCall
<1> HIDE DEF c
<1>4. Answered(c)
  BY <1>3 DEF Answered, Result, InRange
<1>5. Delivered(call) => Delivered(c)
  BY <1>3 DEF Delivered
<1>6. /\ Arity' = Arity /\ Taken' = Taken
      /\ (Delivered(call)' <=> Delivered(c)) /\ (Answered(call)' <=> Answered(c))
  BY <1>1 DEF Arity, Taken, Argument, Delivered, Answered
<1>7. QED
  BY <1>1, <1>3, <1>4, <1>5, <1>6 DEF PassInv

(* The invariant holds at first, and every step keeps it. *)
LEMMA PassesAtFirst == PassingInit => PassInv
<1> SUFFICES ASSUME PassingInit
             PROVE  PassInv
  OBVIOUS
<1>1. PICK n \in 0..MaxLength :
        \E d \in [1..n -> Chars], c \in After : text = Append(d, c)
  BY DEF PassingInit
<1>2. PICK d \in [1..n -> Chars], c \in After : text = Append(d, c)
  BY <1>1
<1>3. d \in Seq(Chars \cup After) /\ c \in Chars \cup After
  BY PassingAssumption
<1>4. text \in Seq(Chars \cup After) /\ Len(text) > 0
  BY <1>2, <1>3
<1>5. Arity = 0
  BY DEF PassingInit, Arity, Refused
<1>6. QED
  BY <1>4, <1>5 DEF PassInv, PassingInit

LEMMA PassesOn == PassInv /\ [PassingNext]_passingVars => PassInv'
<1> SUFFICES ASSUME PassInv, [PassingNext]_passingVars
             PROVE  PassInv'
  OBVIOUS
<1>1. CASE UNCHANGED passingVars
  BY <1>1 DEF passingVars, PassInv, Arity, Taken, Argument, Delivered, Answered
<1>2. CASE Load
  BY <1>2, LoadPasses
<1>3. ASSUME NEW name \in Names, Link(name)
      PROVE  PassInv'
  BY <1>3 DEF Link, PassInv, Arity
<1>4. ASSUME NEW sent \in Sent, NEW other,
             \/ CallFromBytecode(sent, other)
             \/ CallNative(sent, other)
             \/ CallFunction(sent)
             \/ CallMethod(sent, Slot("reference", other))
             \/ NewObject(sent, Slot("reference", other))
      PROVE  PassInv'
  BY <1>4, BytecodePasses, NativePasses, ThroughPasses, CallMethodPasses, NewObjectPasses
     DEF CallFunction
<1>5. ASSUME NEW sent \in Sent, NEW odd,
             Invoke([i \in 1..Arity |-> IF i = odd THEN "int" ELSE Argument(i)], sent)
      PROVE  PassInv'
  BY <1>5, InvokePasses
<1>6. ASSUME InvokeNative
      PROVE  PassInv'
  BY <1>6, EndedPasses DEF InvokeNative
<1>7. ASSUME NEW sent, NEW odd, NEW type, CallTFunctionAOdd(sent, odd, type)
      PROVE  PassInv'
  BY <1>7, OddPasses
<1>8. ASSUME NEW v, Return(v)
      PROVE  PassInv'
  BY <1>8, ReturnPasses
<1>9. QED
  BY <1>1, <1>2, <1>3, <1>4, <1>5, <1>6, <1>7, <1>8 DEF PassingNext

(* For any descriptor, any values and any widths of the types that are in the order of *)
(* those of C: whoever calls (Function::call, invoke, CallTFunctionA, CallTFunctionV), *)
(* every argument is in its local, the result arrives, and the receiver is the object  *)
(* that the method was dispatched on; and the values of the arguments arrive by every  *)
(* way but the odd ones, the variadic method and constructor calls of the C++ context  *)
(* and JValues of another type.                                                        *)
THEOREM ValuesArriveCorrect == PassingSpec => []ValuesArrive
<1>1. PassingSpec => []PassInv
  BY PassesAtFirst, PassesOn, PTL DEF PassingSpec
<1>2. QED
  BY <1>1, PassGives, PTL

===============================================================================
