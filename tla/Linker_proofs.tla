----------------------------- MODULE Linker_proofs -----------------------------
(***************************************************************************)
(* TLAPS proofs about the tables of the linker: ModuleLoader, for any      *)
(* threads, names and records, and StartUp, for any plugins, any libraries *)
(* and however long the code of the threads is.                            *)
(***************************************************************************)
EXTENDS ModuleLoader, StartUp, FiniteSetTheorems, TLAPS

(* A thread inside LoadModule points to the record that is in the table, and   *)
(* the one that reads the file does so while the record is LOADING.            *)
Held ==
  \A t \in Threads : call[t].stage # "none" =>
    /\ call[t].name \in Names
    /\ status[call[t].name] # "absent"
    /\ record[call[t].name] = call[t].record
    /\ call[t].stage = "bootstrap" => status[call[t].name] = "LOADING"

(* Each record that is LOADING has its loader. *)
Loading ==
  /\ \A n \in Names : status[n] = "LOADING" =>
       \E t \in Threads : call[t].stage = "bootstrap" /\ call[t].name = n
  /\ \A t, u \in Threads :
       /\ call[t].stage = "bootstrap"
       /\ call[u].stage = "bootstrap"
       /\ call[t].name = call[u].name
       => t = u

Counted ==
  \A n \in Names :
    /\ threadsWaiting[n] = Cardinality(WaitingFor(n))
    /\ status[n] = "NOT_FOUND" => threadsWaiting[n] > 0

(* What is in the table is no null pointer. *)
Present ==
  \A n \in Names : status[n] # "absent" => record[n] \in Records

IInv ==
  /\ TypeOK
  /\ Held
  /\ Loading
  /\ Counted
  /\ Present

-------------------------------------------------------------------------------

(* Every step preserves the types, if what is waited for is counted. *)
LEMMA TypeStep ==
  ASSUME IInv, [Next]_vars
  PROVE  TypeOK'
<1> USE DEF TypeOK, Return, NotifyAll, NoCall, modules
<1>1. ASSUME NEW t \in Threads, NEW n \in Names, LoadNew(t, n)
      PROVE  TypeOK'
  BY <1>1 DEF IInv, LoadNew, BeginLoad, Free
<1>2. ASSUME NEW t \in Threads, NEW n \in Names, LoadKnown(t, n)
      PROVE  TypeOK'
  BY <1>2 DEF IInv, LoadKnown, Module
<1>3. ASSUME NEW t \in Threads, NEW n \in Names, WaitForLoad(t, n)
      PROVE  TypeOK'
  BY <1>3 DEF IInv, WaitForLoad
<1>4. ASSUME NEW t \in Threads, NEW n \in Names, WaitOn(t, n)
      PROVE  TypeOK'
  BY <1>4 DEF IInv, WaitOn
<1>5. ASSUME NEW t \in Threads, NEW n \in Names, WakeUp(t, n)
      PROVE  TypeOK'
  <2>1. t \in WaitingFor(n)
    BY <1>5 DEF WakeUp
  <2>2. IsFiniteSet(WaitingFor(n))
    BY LoaderAssumption, FS_Subset DEF WaitingFor
  <2>3. Cardinality(WaitingFor(n)) # 0
    BY <2>1, <2>2, FS_EmptySet
  <2>4. threadsWaiting[n] - 1 \in Nat
    BY <2>3 DEF IInv, Counted
  <2> QED
    BY <1>5, <2>4 DEF IInv, WakeUp, Module
<1>6. ASSUME NEW t \in Threads, NEW n \in Names, LoadFails(t, n)
      PROVE  TypeOK'
  BY <1>6 DEF IInv, LoadFails
<1>7. ASSUME NEW t \in Threads, NEW n \in Names, LoadSucceeds(t, n)
      PROVE  TypeOK'
  <2>1. Append(inits[t], n) \in Seq(Names)
    BY DEF IInv
  <2> QED
    BY <1>7, <2>1 DEF IInv, LoadSucceeds
<1>8. ASSUME NEW t \in Threads, NEW n \in Names, AddExistingModule(t, n)
      PROVE  TypeOK'
  BY <1>8 DEF IInv, AddExistingModule, Free
<1>9. ASSUME NEW t \in Threads, FinishInit(t)
      PROVE  TypeOK'
  <2>1. /\ inits[t] \in Seq(Names)
        /\ inits[t] # <<>>
    BY <1>9 DEF IInv, FinishInit
  <2>2. /\ inits[t][Len(inits[t])] \in Names
        /\ SubSeq(inits[t], 1, Len(inits[t]) - 1) \in Seq(Names)
    BY <2>1
  <2> QED
    BY <1>9, <2>2 DEF IInv, FinishInit, Module
<1>10. CASE UNCHANGED vars
  BY <1>10 DEF IInv, vars
<1>11. ASSUME NEW t \in Threads, NEW n \in Names, LoadAfterAll(t, n)
      PROVE  TypeOK'
  BY <1>11 DEF IInv, LoadAfterAll, BeginLoad, Free
<1>12. ASSUME NEW t \in Threads, NEW n \in Names, ExistingRefused(t, n)
      PROVE  TypeOK'
  BY <1>12 DEF IInv, ExistingRefused, modules
<1> QED
  BY <1>1, <1>2, <1>3, <1>4, <1>5, <1>6, <1>7, <1>8, <1>9, <1>10,
     <1>11, <1>12 DEF Next

(* Every step keeps the loaders' and the waiters' pointers. *)
LEMMA HeldStep ==
  ASSUME IInv, [Next]_vars
  PROVE  Held' /\ Loading' /\ Present'
<1> USE DEF IInv, TypeOK, Held, Loading, Present, NoCall, modules
<1>1. ASSUME NEW t \in Threads, NEW n \in Names, LoadNew(t, n)
      PROVE  Held' /\ Loading' /\ Present'
  BY <1>1 DEF LoadNew, BeginLoad, Free, Running
<1>2. ASSUME NEW t \in Threads, NEW n \in Names, LoadKnown(t, n)
      PROVE  Held' /\ Loading' /\ Present'
  BY <1>2 DEF LoadKnown
<1>3. ASSUME NEW t \in Threads, NEW n \in Names, WaitForLoad(t, n)
      PROVE  Held' /\ Loading' /\ Present'
  BY <1>3 DEF WaitForLoad, Running
<1>4. ASSUME NEW t \in Threads, NEW n \in Names, WaitOn(t, n)
      PROVE  Held' /\ Loading' /\ Present'
  BY <1>4 DEF WaitOn
<1>5. ASSUME NEW t \in Threads, NEW n \in Names, WakeUp(t, n)
      PROVE  Held' /\ Loading' /\ Present'
  BY <1>5 DEF WakeUp, WaitingFor
<1>6. ASSUME NEW t \in Threads, NEW n \in Names, LoadFails(t, n)
      PROVE  Held' /\ Loading' /\ Present'
  <2>1. CASE threadsWaiting[n] = 0
    (* The loader that removes the record is alone with it. *)
    <3>1. WaitingFor(n) = {}
      BY <2>1, LoaderAssumption, FS_Subset, FS_EmptySet DEF Counted, WaitingFor
    <3>2. \A u \in Threads : call[u].stage # "none" /\ call[u].name = n => u = t
      BY <1>6, <3>1 DEF LoadFails, WaitingFor
    <3> QED
      BY <1>6, <2>1, <3>2 DEF LoadFails
  <2>2. CASE threadsWaiting[n] # 0
    <3>1. /\ status' = [status EXCEPT ![n] = "NOT_FOUND"]
          /\ record' = record
          /\ call' = [call EXCEPT ![t] = NoCall]
          /\ call[t].stage = "bootstrap" /\ call[t].name = n
      BY <1>6, <2>2 DEF LoadFails
    <3>2. Held'
      BY <3>1
    <3>3. Loading'
      BY <3>1
    <3>4. Present'
      BY <3>1
    <3> QED
      BY <3>2, <3>3, <3>4
  <2> QED
    BY <2>1, <2>2
<1>7. ASSUME NEW t \in Threads, NEW n \in Names, LoadSucceeds(t, n)
      PROVE  Held' /\ Loading' /\ Present'
  <2>1. /\ status' = [status EXCEPT ![n] = "LOADED"]
        /\ record' = record
        /\ call' = [call EXCEPT ![t] = NoCall]
        /\ call[t].stage = "bootstrap" /\ call[t].name = n
    BY <1>7 DEF LoadSucceeds
  <2>2. Held'
    BY <2>1
  <2>3. Loading'
    BY <2>1
  <2>4. Present'
    BY <2>1
  <2> QED
    BY <2>2, <2>3, <2>4
<1>8. ASSUME NEW t \in Threads, NEW n \in Names, AddExistingModule(t, n)
      PROVE  Held' /\ Loading' /\ Present'
  BY <1>8 DEF AddExistingModule, Free
<1>9. ASSUME NEW t \in Threads, FinishInit(t)
      PROVE  Held' /\ Loading' /\ Present'
  BY <1>9 DEF FinishInit
<1>10. CASE UNCHANGED vars
  BY <1>10 DEF vars
<1>11. ASSUME NEW t \in Threads, NEW n \in Names, LoadAfterAll(t, n)
      PROVE  Held' /\ Loading' /\ Present'
  (* The waiter that removes the record is alone with it. *)
  <2>1. t \in WaitingFor(n) /\ Cardinality(WaitingFor(n)) = 1
    BY <1>11 DEF LoadAfterAll, Counted
  <2>2. IsFiniteSet(WaitingFor(n))
    BY LoaderAssumption, FS_Subset DEF WaitingFor
  <2>3. \A u \in WaitingFor(n) : u = t
    BY <2>1, <2>2, FS_Singleton
  <2>4. \A u \in Threads : call[u].stage # "none" /\ call[u].name = n => u = t
    BY <1>11, <2>3 DEF LoadAfterAll, WaitingFor
  <2> QED
    BY <1>11, <2>4 DEF LoadAfterAll, BeginLoad, Free, WaitingFor
<1>12. ASSUME NEW t \in Threads, NEW n \in Names, ExistingRefused(t, n)
      PROVE  Held' /\ Loading' /\ Present'
  BY <1>12 DEF ExistingRefused
<1> QED
  BY <1>1, <1>2, <1>3, <1>4, <1>5, <1>6, <1>7, <1>8, <1>9, <1>10,
     <1>11, <1>12 DEF Next

(* threadsWaiting goes up and down with the threads that wait. *)
LEMMA CountedStep ==
  ASSUME IInv, [Next]_vars
  PROVE  Counted'
<1> USE DEF IInv, TypeOK, Counted, NoCall, modules
<1>a. \A n \in Names : IsFiniteSet(WaitingFor(n))
  BY LoaderAssumption, FS_Subset DEF WaitingFor
<1>1. ASSUME NEW t \in Threads, NEW n \in Names, LoadNew(t, n)
      PROVE  Counted'
  <2>1. \A m \in Names : WaitingFor(m)' = WaitingFor(m)
    BY <1>1 DEF LoadNew, BeginLoad, Running, WaitingFor
  <2>2. Cardinality(WaitingFor(n)) = 0
    <3>1. WaitingFor(n) = {}
      BY <1>1 DEF LoadNew, WaitingFor, Held
    <3> QED
      BY <3>1, FS_EmptySet
  <2> QED
    BY <1>1, <2>1, <2>2 DEF LoadNew, BeginLoad
<1>2. ASSUME NEW t \in Threads, NEW n \in Names, LoadKnown(t, n)
      PROVE  Counted'
  BY <1>2 DEF LoadKnown, WaitingFor
<1>3. ASSUME NEW t \in Threads, NEW n \in Names, WaitForLoad(t, n)
      PROVE  Counted'
  <2>1. /\ WaitingFor(n)' = WaitingFor(n) \cup {t}
        /\ t \notin WaitingFor(n)
        /\ \A m \in Names \ {n} : WaitingFor(m)' = WaitingFor(m)
    BY <1>3 DEF WaitForLoad, Running, WaitingFor
  <2>2. Cardinality(WaitingFor(n)') = Cardinality(WaitingFor(n)) + 1
    BY <1>a, <2>1, FS_AddElement
  <2> QED
    BY <1>3, <2>1, <2>2 DEF WaitForLoad
<1>4. ASSUME NEW t \in Threads, NEW n \in Names, WaitOn(t, n)
      PROVE  Counted'
  BY <1>4 DEF WaitOn, WaitingFor
<1>5. ASSUME NEW t \in Threads, NEW n \in Names, WakeUp(t, n)
      PROVE  Counted'
  <2>1. /\ WaitingFor(n)' = WaitingFor(n) \ {t}
        /\ t \in WaitingFor(n)
        /\ \A m \in Names \ {n} : WaitingFor(m)' = WaitingFor(m)
    BY <1>5 DEF WakeUp, WaitingFor
  <2>2. Cardinality(WaitingFor(n)') = Cardinality(WaitingFor(n)) - 1
    BY <1>a, <2>1, FS_RemoveElement
  <2>3. threadsWaiting[n] = Cardinality(WaitingFor(n)) /\ threadsWaiting[n] # 0
    BY <1>a, <2>1, FS_EmptySet
  <2>4. threadsWaiting' = [threadsWaiting EXCEPT ![n] = @ - 1]
    BY <1>5 DEF WakeUp
  <2>5. /\ status' = status
        /\ status[n] = "NOT_FOUND" => threadsWaiting[n] # 1
    BY <1>5 DEF WakeUp
  <2>6. ASSUME NEW m \in Names
        PROVE  /\ threadsWaiting'[m] = Cardinality(WaitingFor(m)')
               /\ status'[m] = "NOT_FOUND" => threadsWaiting'[m] > 0
    <3>1. CASE m = n
      BY <2>2, <2>3, <2>4, <2>5, <3>1
    <3>2. CASE m # n
      BY <2>1, <2>4, <2>5, <3>2
    <3> QED
      BY <3>1, <3>2
  <2> QED
    BY <2>6
<1>6. ASSUME NEW t \in Threads, NEW n \in Names, LoadFails(t, n)
      PROVE  Counted'
  <2>1. \A m \in Names : WaitingFor(m)' = WaitingFor(m)
    BY <1>6 DEF LoadFails, WaitingFor
  <2> QED
    BY <1>6, <2>1 DEF LoadFails
<1>7. ASSUME NEW t \in Threads, NEW n \in Names, LoadSucceeds(t, n)
      PROVE  Counted'
  <2>1. \A m \in Names : WaitingFor(m)' = WaitingFor(m)
    BY <1>7 DEF LoadSucceeds, WaitingFor
  <2> QED
    BY <1>7, <2>1 DEF LoadSucceeds
<1>8. ASSUME NEW t \in Threads, NEW n \in Names, AddExistingModule(t, n)
      PROVE  Counted'
  <2>1. \A m \in Names : WaitingFor(m)' = WaitingFor(m)
    BY <1>8 DEF AddExistingModule, WaitingFor
  <2>2. status[n] = "absent" => Cardinality(WaitingFor(n)) = 0
    <3>1. status[n] = "absent" => WaitingFor(n) = {}
      BY DEF WaitingFor, Held
    <3> QED
      BY <3>1, FS_EmptySet
  <2> QED
    BY <1>8, <2>1, <2>2 DEF AddExistingModule
<1>9. ASSUME NEW t \in Threads, FinishInit(t)
      PROVE  Counted'
  BY <1>9 DEF FinishInit, WaitingFor
<1>10. CASE UNCHANGED vars
  BY <1>10 DEF vars, WaitingFor
<1>11. ASSUME NEW t \in Threads, NEW n \in Names, LoadAfterAll(t, n)
      PROVE  Counted'
  <2>1. /\ WaitingFor(n)' = WaitingFor(n) \ {t}
        /\ t \in WaitingFor(n)
        /\ \A m \in Names \ {n} : WaitingFor(m)' = WaitingFor(m)
    BY <1>11 DEF LoadAfterAll, BeginLoad, WaitingFor
  <2>2. Cardinality(WaitingFor(n)') = Cardinality(WaitingFor(n)) - 1
    BY <1>a, <2>1, FS_RemoveElement
  <2>3. threadsWaiting[n] = Cardinality(WaitingFor(n)) /\ threadsWaiting[n] = 1
    BY <1>11 DEF LoadAfterAll
  <2>4. /\ threadsWaiting' = [threadsWaiting EXCEPT ![n] = 0]
        /\ status' = [status EXCEPT ![n] = "LOADING"]
    BY <1>11 DEF LoadAfterAll, BeginLoad
  <2>5. ASSUME NEW m \in Names
        PROVE  /\ threadsWaiting'[m] = Cardinality(WaitingFor(m)')
               /\ status'[m] = "NOT_FOUND" => threadsWaiting'[m] > 0
    <3>1. CASE m = n
      BY <2>2, <2>3, <2>4, <3>1
    <3>2. CASE m # n
      BY <2>1, <2>4, <3>2
    <3> QED
      BY <3>1, <3>2
  <2> QED
    BY <2>5
<1>12. ASSUME NEW t \in Threads, NEW n \in Names, ExistingRefused(t, n)
      PROVE  Counted'
  BY <1>12 DEF ExistingRefused, WaitingFor
<1> QED
  BY <1>1, <1>2, <1>3, <1>4, <1>5, <1>6, <1>7, <1>8, <1>9, <1>10,
     <1>11, <1>12 DEF Next

(* IInv is an inductive invariant of the linker's table. *)
LEMMA Inductive == Spec => []IInv
<1>1. Init => IInv
  <2> SUFFICES ASSUME Init PROVE IInv
    OBVIOUS
  <2>1. \A n \in Names : Cardinality(WaitingFor(n)) = 0
    <3>1. \A n \in Names : WaitingFor(n) = {}
      BY DEF Init, WaitingFor, NoCall
    <3> QED
      BY <3>1, FS_EmptySet
  <2>2. TypeOK
    BY DEF Init, TypeOK, NoCall, modules
  <2> QED
    BY <2>1, <2>2 DEF Init, IInv, Held, Loading, Counted, Present, NoCall, modules
<1>2. IInv /\ [Next]_vars => IInv'
  BY TypeStep, HeldStep, CountedStep DEF IInv
<1> QED
  BY <1>1, <1>2, PTL DEF Spec

-------------------------------------------------------------------------------

(* Type correctness of the linker's table; that threadsWaiting, a u32, never    *)
(* goes below zero rests on the counting of the waiters.                       *)
THEOREM TypeCorrect == Spec => []TypeOK
<1>1. IInv => TypeOK
  BY DEF IInv
<1> QED
  BY <1>1, Inductive, PTL

(* No thread ever holds a pointer to a record that another one has removed.    *)
THEOREM RecordsKeptCorrect == Spec => []RecordsKept
<1>1. IInv => RecordsKept
  BY DEF IInv, RecordsKept, Held, Counted
<1> QED
  BY <1>1, Inductive, PTL

(* A module is read from its file by one thread at a time. *)
THEOREM OneLoaderCorrect == Spec => []OneLoader
<1>1. IInv => OneLoader
  <2> SUFFICES ASSUME IInv, NEW n \in Names
               PROVE  LET loaders == { t \in Threads : call[t].stage = "bootstrap"
                                                       /\ call[t].name = n }
                      IN  /\ Cardinality(loaders) =
                               (IF status[n] = "LOADING" THEN 1 ELSE 0)
                          /\ status[n] = "NOT_FOUND" =>
                               threadsWaiting[n] > 0
    BY DEF OneLoader
  <2> DEFINE loaders == { t \in Threads : call[t].stage = "bootstrap"
                                          /\ call[t].name = n }
  <2>1. CASE status[n] = "LOADING"
    <3>1. PICK t \in Threads : call[t].stage = "bootstrap" /\ call[t].name = n
      BY <2>1 DEF IInv, Loading
    <3>2. loaders = {t}
      BY <3>1 DEF IInv, Loading
    <3>3. Cardinality(loaders) = 1
      BY <3>2, FS_Singleton
    <3> QED
      BY <2>1, <3>3
  <2>2. CASE status[n] # "LOADING"
    <3>1. loaders = {}
      BY <2>2 DEF IInv, Held
    <3>2. Cardinality(loaders) = 0
      BY <3>1, FS_EmptySet
    <3> QED
      BY <2>2, <3>2 DEF IInv, Counted
  <2> QED
    BY <2>1, <2>2
<1> QED
  BY <1>1, Inductive, PTL

-------------------------------------------------------------------------------

(* A step of the linker binds at most one name, one that was not bound, and     *)
(* answers with what its name is bound to.                                     *)
LEMMA RefinementStep ==
  ASSUME IInv, [Next]_vars
  PROVE  [Table!Next]_<<[n \in Names |-> Module(n)], answer>>
<1> DEFINE bound == [n \in Names |-> Module(n)]
<1> SUFFICES Table!Next \/ UNCHANGED <<bound, answer>>
  OBVIOUS
<1>0. \A n \in Names : bound[n] = Module(n) /\ bound'[n] = Module(n)'
  OBVIOUS
<1> USE DEF IInv, TypeOK, Module
(* An answer without a binding. *)
<1>a. ASSUME NEW t \in Threads, NEW n \in Names,
             UNCHANGED bound, Return(t, n, Module(n))
      PROVE  Table!Next
  BY <1>a, <1>0 DEF Table!Next, Table!Answer, Return
<1>1. ASSUME NEW t \in Threads, NEW n \in Names, LoadNew(t, n)
      PROVE  UNCHANGED <<bound, answer>>
  BY <1>1 DEF LoadNew, BeginLoad
<1>2. ASSUME NEW t \in Threads, NEW n \in Names, LoadKnown(t, n)
      PROVE  Table!Next
  BY <1>2, <1>a DEF LoadKnown, modules
<1>3. ASSUME NEW t \in Threads, NEW n \in Names, WaitForLoad(t, n)
      PROVE  UNCHANGED <<bound, answer>>
  BY <1>3 DEF WaitForLoad
<1>4. ASSUME NEW t \in Threads, NEW n \in Names, WaitOn(t, n)
      PROVE  UNCHANGED <<bound, answer>>
  BY <1>4 DEF WaitOn, modules
<1>5. ASSUME NEW t \in Threads, NEW n \in Names, WakeUp(t, n)
      PROVE  Table!Next
  BY <1>5, <1>a DEF WakeUp
<1>6. ASSUME NEW t \in Threads, NEW n \in Names, LoadFails(t, n)
      PROVE  Table!Next
  <2>1. status[n] = "LOADING"
    BY <1>6 DEF LoadFails, Held
  <2>2. UNCHANGED bound
    BY <1>6, <2>1 DEF LoadFails
  <2> QED
    BY <1>6, <1>a, <2>1, <2>2 DEF LoadFails
<1>7. ASSUME NEW t \in Threads, NEW n \in Names, LoadSucceeds(t, n)
      PROVE  Table!Next
  <2>1. status[n] = "LOADING"
    BY <1>7 DEF LoadSucceeds, Held
  <2>2. bound[n] = NoModule
    BY <2>1
  <2>3. PICK r \in Records : record[n] = r
    BY <2>1 DEF Present
  <2>4. bound' = [bound EXCEPT ![n] = r]
    BY <1>7, <2>3 DEF LoadSucceeds
  <2>5. Table!Bind(n, r) /\ UNCHANGED answer
    BY <1>7, <2>2, <2>4 DEF LoadSucceeds, Table!Bind
  <2> QED
    BY <2>5 DEF Table!Next
<1>8. ASSUME NEW t \in Threads, NEW n \in Names, AddExistingModule(t, n)
      PROVE  Table!Next
  <2>1. PICK r \in Records : /\ record' = [record EXCEPT ![n] = r]
                             /\ Return(t, n, r)
    BY <1>8 DEF AddExistingModule, Free
  <2>2. status[n] = "absent" /\ status' = [status EXCEPT ![n] = "LOADED"]
    BY <1>8 DEF AddExistingModule
  <2>3. bound[n] = NoModule /\ bound' = [bound EXCEPT ![n] = r]
    BY <2>1, <2>2
  <2>4. Table!Bind(n, r) /\ Table!Answer(t, n, r)
    BY <2>1, <2>3 DEF Table!Bind, Table!Answer, Return
  <2> QED
    BY <2>4 DEF Table!Next
<1>9. ASSUME NEW t \in Threads, FinishInit(t)
      PROVE  Table!Next
  <2>1. inits[t] \in Seq(Names) /\ inits[t] # <<>>
    BY <1>9 DEF FinishInit
  <2>2. inits[t][Len(inits[t])] \in Names
    BY <2>1
  <2>3. UNCHANGED bound
    BY <1>9 DEF FinishInit, modules
  <2> QED
    BY <1>9, <1>a, <2>2, <2>3 DEF FinishInit
<1>10. CASE UNCHANGED vars
  BY <1>10 DEF vars
<1>11. ASSUME NEW t \in Threads, NEW n \in Names, LoadAfterAll(t, n)
      PROVE  UNCHANGED <<bound, answer>>
  BY <1>11 DEF LoadAfterAll, BeginLoad
<1>12. ASSUME NEW t \in Threads, NEW n \in Names, ExistingRefused(t, n)
      PROVE  Table!Next
  <2>1. UNCHANGED bound /\ Table!Refuse(t)
    BY <1>12 DEF ExistingRefused, Table!Refuse, modules
  <2> QED
    BY <2>1 DEF Table!Next
<1> QED
  BY <1>1, <1>2, <1>3, <1>4, <1>5, <1>6, <1>7, <1>8, <1>9, <1>10,
     <1>11, <1>12 DEF Next

(* The linker implements the table of modules. *)
THEOREM Refinement == Spec => TableSpec
<1>1. Init => Table!Init
  BY DEF Init, Table!Init, Module
<1>2. IInv /\ [Next]_vars => [Table!Next]_<<[n \in Names |-> Module(n)], answer>>
  BY RefinementStep
<1> QED
  BY <1>1, <1>2, Inductive, PTL DEF Spec, TableSpec, Table!Spec

-------------------------------------------------------------------------------
(* StartUp: preloading, the plugins and the functions they are linked with.  *)

(* Where a thread may be: one that looks for a symbol does so for a function, *)
(* and in a plugin.                                                           *)
Places ==
  { place \in
      [pc : {"none", "entry", "code", "call", "link", "load", "open", "symbol",
             "waiting", "done"},
       function : Natives \cup {"none"},
       plugin : Plugins \cup {NoPlugin},
       left : SUBSET Plugins] :
      /\ place.pc \in {"link", "symbol"} => place.function # "none"
      /\ place.pc \in {"load", "open", "symbol"} => place.plugin \in Plugins }

(* The parts of the state that the proof looks at. *)
TypesInv ==
  /\ code \in [Natives -> Plugins \cup {"vm", "null"}]
  /\ opened \in [Plugins -> Nat]
  /\ plugins \subseteq Plugins
  /\ at \in [StartThreads -> Places]

(* A library is open if it was opened. *)
OpenInv == \A p \in Plugins : opened[p] = (IF p \in handle THEN 1 ELSE 0)

(* While main runs code, it is at an entry that runs some. *)
EntryInv ==
  at[Main].pc \notin {"entry", "waiting", "none"} => Entries[step][1] \in {"module", "start"}

(* Nobody links an overridden function, unless it did so before. *)
LinkInv ==
  \A t \in StartThreads :
    /\ Linking(t)
    /\ at[t].function \in ToSet(Overrides)
    /\ <<"override", at[t].function>> \in ready
    => at[t].function \in raced

StartIInv == TypesInv /\ OpenInv /\ EntryInv /\ LinkInv /\ OverrideHolds

-------------------------------------------------------------------------------

LEMMA PlaceType ==
  ASSUME NEW pc \in {"none", "entry", "code", "call", "waiting", "done"}
  PROVE  Place(pc) \in Places
BY DEF Place, Places

(* No function is called "none". *)
LEMMA NoneIsNoFunction == "none" \notin Natives
<1>1. \A i \in DOMAIN Overrides : Overrides[i] # "none"
  BY DEF Overrides
<1>2. ToSet(Overrides) = { Overrides[i] : i \in DOMAIN Overrides }
  BY DEF ToSet
<1> QED
  BY <1>1, <1>2 DEF Natives

(* The initial states satisfy the inductive invariant. *)
LEMMA StartInitIInv == StartInit => StartIInv
<1> SUFFICES ASSUME StartInit PROVE StartIInv
  OBVIOUS
<1>1. TypesInv
  <2>1. Place("entry") \in Places /\ Place("none") \in Places
    BY PlaceType
  <2> QED
    BY <2>1 DEF StartInit, TypesInv
<1>2. OpenInv /\ LinkInv /\ OverrideHolds
  BY DEF StartInit, OpenInv, LinkInv, OverrideHolds
<1>3. EntryInv
  BY DEF StartInit, EntryInv, Place, StartThreads
<1> QED
  BY <1>1, <1>2, <1>3 DEF StartIInv

(* The process ends with nothing left to say. *)
LEMMA EndsIInv ==
  ASSUME NEW how, Ends(how)
  PROVE  StartIInv'
<1>1. TypesInv'
  BY PlaceType DEF Ends, TypesInv
<1>2. OpenInv' /\ EntryInv' /\ LinkInv' /\ OverrideHolds'
  BY DEF Ends, OpenInv, EntryInv, LinkInv, OverrideHolds, Place, Linking, StartThreads
<1> QED
  BY <1>1, <1>2 DEF StartIInv

(* A thread that goes on leaves the entry and the functions alone. *)
LEMMA GoOn ==
  ASSUME StartIInv, NEW t \in StartThreads, NEW place \in Places,
         Go(t, place), UNCHANGED <<preload, code, opened, handle>>, plugins' \subseteq Plugins,
         t = Main => at[Main].pc \notin {"entry", "waiting", "none"},
         \/ place.function = "none"
         \/ place.pc = "call"
         \/ Linking(t) /\ place.function = at[t].function
         \/ code[place.function] = "null"
  PROVE  StartIInv'
<1> USE StartUpAssumption DEF StartIInv, Go, preload, StartThreads
<1>1. TypesInv'
  BY DEF TypesInv
<1>2. OpenInv' /\ EntryInv' /\ OverrideHolds'
  BY DEF TypesInv, OpenInv, EntryInv, OverrideHolds, Places
<1>3. LinkInv'
  <2> SUFFICES ASSUME NEW u \in StartThreads, Linking(u)',
                      at'[u].function \in ToSet(Overrides),
                      <<"override", at'[u].function>> \in ready'
               PROVE  at'[u].function \in raced'
    BY DEF LinkInv
  <2>1. CASE u # t
    BY <2>1 DEF LinkInv, Linking, TypesInv
  <2>2. CASE u = t
    <3>1. at'[t] = place /\ place.pc # "call" /\ place.function # "none"
      BY <2>2 DEF TypesInv, Linking
    <3>2. CASE Linking(t) /\ place.function = at[t].function
      BY <2>2, <3>1, <3>2 DEF LinkInv
    <3>3. CASE code[place.function] = "null"
      BY <2>2, <3>1, <3>3 DEF OverrideHolds
    <3> QED
      BY <3>1, <3>2, <3>3
  <2> QED
    BY <2>1, <2>2
<1> QED
  BY <1>1, <1>2, <1>3

(* A thread runs code. *)
InCode(t) == t = Main => at[Main].pc \notin {"entry", "waiting", "none"}

(* LoadPlugin preserves the invariant, whoever calls it. *)
LEMMA LoadPluginStep ==
  ASSUME StartIInv, NEW t \in StartThreads, NEW p \in Plugins, LoadPlugin(t, p), InCode(t)
  PROVE  StartIInv'
<1>0. plugins \subseteq Plugins
  BY DEF StartIInv, TypesInv
<1>1. CASE p \notin plugins /\ ~HasFile(p)
  <2>1. PICK place \in Places : place = Place("code") /\ place.function = "none"
    BY PlaceType DEF Place
  <2>2. Go(t, place) /\ UNCHANGED <<preload, code, plugins, handle, opened>>
    BY <1>1, <2>1 DEF LoadPlugin, libraries
  <2> QED
    BY <1>0, <2>1, <2>2, GoOn DEF InCode
<1>2. CASE Ends("undefined")
  BY <1>2, EndsIInv
<1>3. CASE /\ plugins' = plugins \cup {p}
           /\ Go(t, [Place("load") EXCEPT !.plugin = p])
           /\ UNCHANGED <<preload, code, handle, opened>>
  <2>0. /\ [Place("load") EXCEPT !.plugin = p] \in Places
        /\ [Place("load") EXCEPT !.plugin = p].function = "none"
    BY DEF Place, Places
  <2>1. PICK place \in Places :
          place = [Place("load") EXCEPT !.plugin = p] /\ place.function = "none"
    BY <2>0
  <2>2. Go(t, place) /\ plugins' \subseteq Plugins
    BY <1>0, <1>3, <2>1
  <2> QED
    BY <1>3, <2>1, <2>2, GoOn DEF InCode
<1> QED
  BY <1>1, <1>2, <1>3 DEF LoadPlugin

(* So do the return of a call, ... *)
LEMMA DoneStep ==
  ASSUME StartIInv, NEW t \in StartThreads, Done(t), InCode(t)
  PROVE  StartIInv'
<1>1. PICK place \in Places : place = Place("code") /\ place.function = "none"
  BY PlaceType DEF Place
<1>2. Go(t, place) /\ UNCHANGED <<preload, code, handle, opened>> /\ plugins' \subseteq Plugins
  BY <1>1 DEF Done, libraries, StartIInv, TypesInv
<1> QED
  BY <1>1, <1>2, GoOn DEF InCode

(* ... the making of a string, ... *)
LEMMA MakeStringStep ==
  ASSUME StartIInv, NEW t \in StartThreads, MakeString(t), InCode(t)
  PROVE  StartIInv'
BY DoneStep, EndsIInv DEF MakeString

(* ... and the lookup of the symbol: if the function was overridden           *)
(* meanwhile, it is one that was raced for.                                   *)
LEMMA LookUpStep ==
  ASSUME StartIInv, NEW t \in StartThreads, NEW p \in Plugins, LookUp(t, p), Linking(t), InCode(t)
  PROVE  StartIInv'
<1> USE StartUpAssumption
<1> DEFINE f == at[t].function
<1>1. /\ f \in Natives
      /\ code' = [code EXCEPT ![f] = IF f \in Exports[p] THEN p ELSE code[f]]
      /\ UNCHANGED <<preload, libraries>>
  BY DEF LookUp, Linking, StartIInv, TypesInv, Places
<1>2. PICK place \in Places :
        /\ at' = [at EXCEPT ![t] = place]
        /\ place.function = f /\ place.pc \in {"call", "link"}
  <2> DEFINE place == [at[t] EXCEPT !.pc = IF f \in Exports[p] THEN "call" ELSE "link",
                                    !.plugin = NoPlugin, !.left = @ \ {p}]
  <2>0. at[t] \in Places /\ at[t].function # "none"
    BY DEF StartIInv, TypesInv, Linking
  <2>1. place \in Places /\ place.function = f /\ place.pc \in {"call", "link"}
    BY <2>0 DEF Places
  <2>2. at' = [at EXCEPT ![t] = place]
    BY DEF LookUp, Go
  <2> QED
    BY <2>1, <2>2
<1>3. TypesInv'
  BY <1>1, <1>2 DEF StartIInv, TypesInv, libraries
<1>4. OpenInv' /\ EntryInv'
  BY <1>1, <1>2 DEF StartIInv, TypesInv, OpenInv, EntryInv, InCode, libraries, preload,
                    StartThreads
<1>5. LinkInv'
  <2> SUFFICES ASSUME NEW u \in StartThreads, Linking(u)',
                      at'[u].function \in ToSet(Overrides),
                      <<"override", at'[u].function>> \in ready'
               PROVE  at'[u].function \in raced'
    BY DEF LinkInv
  <2>1. Linking(u) /\ at'[u].function = at[u].function
    BY <1>2 DEF Linking, StartIInv, TypesInv
  <2> QED
    BY <1>1, <2>1 DEF StartIInv, LinkInv, preload
<1>6. OverrideHolds'
  <2> SUFFICES ASSUME NEW g \in ToSet(Overrides), g \notin raced, <<"override", g>> \in ready
               PROVE  code'[g] = "vm"
    BY <1>1 DEF OverrideHolds, preload
  <2>1. code[g] = "vm"
    BY DEF StartIInv, OverrideHolds
  <2>2. g # f
    BY DEF StartIInv, LinkInv
  <2>3. g \in Natives
    BY DEF Natives
  <2> QED
    BY <1>1, <2>1, <2>2, <2>3 DEF StartIInv, TypesInv
<1> QED
  BY <1>3, <1>4, <1>5, <1>6 DEF StartIInv

(* The rest of load: the library is opened by whoever finds it closed. *)
LEMMA OpenStep ==
  ASSUME StartIInv, NEW t \in StartThreads, Open(t), InCode(t)
  PROVE  StartIInv'
<1> USE StartUpAssumption
<1> DEFINE p == at[t].plugin
<1>1. CASE Ends("exited")
  BY <1>1, EndsIInv
<1>2. CASE /\ opened' = [opened EXCEPT ![p] = IF Opens(p) THEN @ + 1 ELSE @]
           /\ handle' = IF p \in Loadable THEN handle \cup {p} ELSE handle
           /\ UNCHANGED <<preload, code, plugins>>
           /\ \/ Go(t, Place("code"))
              \/ at[t].function # "none" /\ Go(t, [at[t] EXCEPT !.pc = "symbol"])
  <2>1. PICK place \in Places :
          /\ at' = [at EXCEPT ![t] = place]
          /\ \/ place.function = "none"
             \/ Linking(t) /\ place.function = at[t].function
    <3>1. CASE Go(t, Place("code"))
      <4>1. Place("code") \in Places /\ Place("code").function = "none"
        BY PlaceType DEF Place
      <4> QED
        BY <3>1, <4>1 DEF Go
    <3>2. CASE at[t].function # "none" /\ Go(t, [at[t] EXCEPT !.pc = "symbol"])
      <4>0. at[t] \in Places /\ at[t].pc = "open"
        BY DEF StartIInv, TypesInv, Open
      <4>1. /\ [at[t] EXCEPT !.pc = "symbol"] \in Places
            /\ [at[t] EXCEPT !.pc = "symbol"].function = at[t].function
        BY <3>2, <4>0 DEF Places
      <4>2. Linking(t)
        BY <3>2 DEF Open, Linking
      <4> QED
        BY <3>2, <4>1, <4>2 DEF Go
    <3> QED
      BY <1>2, <3>1, <3>2
  <2>2. TypesInv'
    <3>1. opened' \in [Plugins -> Nat]
      <4>1. opened \in [Plugins -> Nat]
        BY DEF StartIInv, TypesInv
      <4>2. opened' = [opened EXCEPT ![p] = opened[p] + 1] \/ opened' = opened
        BY <1>2, <4>1
      <4> QED
        BY <4>1, <4>2
    <3>2. at' \in [StartThreads -> Places]
      BY <2>1 DEF StartIInv, TypesInv
    <3> QED
      BY <1>2, <3>1, <3>2 DEF StartIInv, TypesInv
  <2>3. OpenInv'
    BY <1>2 DEF StartIInv, TypesInv, OpenInv, Opens
  <2>4. EntryInv' /\ OverrideHolds'
    BY <1>2, <2>1 DEF StartIInv, TypesInv, EntryInv, OverrideHolds, InCode, preload, StartThreads
  <2>5. LinkInv'
    BY <1>2, <2>1 DEF StartIInv, TypesInv, LinkInv, Linking, preload
  <2> QED
    BY <2>2, <2>3, <2>4, <2>5 DEF StartIInv
<1> QED
  BY <1>1, <1>2 DEF Open

(* Every step of a thread's code preserves the invariant. *)
LEMMA CodeStepPreserves ==
  ASSUME StartIInv, NEW t \in StartThreads, CodeStep(t)
  PROVE  StartIInv'
<1> USE StartUpAssumption
<1>0. at[t] \in Places /\ plugins \subseteq Plugins
  BY DEF StartIInv, TypesInv
<1>1. ASSUME NEW f \in Natives, Call(t, f)
      PROVE  StartIInv'
  <2>1. InCode(t)
    BY <1>1 DEF Call, InCode
  <2>2. CASE code[f] = "null"
    <3> DEFINE place == [Place("link") EXCEPT !.function = f, !.left = plugins]
    <3>1. place \in Places /\ place.function = f
      BY <1>0, NoneIsNoFunction DEF Place, Places
    <3>2. Go(t, place) /\ UNCHANGED <<preload, code, libraries>>
      BY <1>1, <2>2 DEF Call
    <3> HIDE DEF place
    <3> QED
      BY <1>0, <2>1, <2>2, <3>1, <3>2, GoOn DEF InCode, libraries
  <2>3. CASE code[f] # "null"
    <3> DEFINE place == [Place("call") EXCEPT !.function = f]
    <3>1. place \in Places /\ place.pc = "call"
      BY DEF Place, Places
    <3>2. Go(t, place) /\ UNCHANGED <<preload, code, libraries>>
      BY <1>1, <2>3 DEF Call
    <3> HIDE DEF place
    <3> QED
      BY <1>0, <2>1, <3>1, <3>2, GoOn DEF InCode, libraries
  <2> QED
    BY <2>2, <2>3
<1>2. ASSUME GetFunction(t)
      PROVE  StartIInv'
  <2>1. PICK p \in at[t].left :
          /\ at[t].pc = "link"
          /\ \/ LookUp(t, p)
             \/ /\ Go(t, [at[t] EXCEPT !.pc = "load", !.plugin = p])
                /\ UNCHANGED <<preload, code, libraries>>
    BY <1>2 DEF GetFunction
  <2>2. p \in Plugins /\ InCode(t)
    BY <1>0, <2>1 DEF Places, InCode
  <2>3. Linking(t)
    BY <1>0, <2>1 DEF Linking, Places
  <2>4. CASE LookUp(t, p)
    BY <2>2, <2>3, <2>4, LookUpStep
  <2>5. CASE /\ Go(t, [at[t] EXCEPT !.pc = "load", !.plugin = p])
             /\ UNCHANGED <<preload, code, libraries>>
    <3> DEFINE place == [at[t] EXCEPT !.pc = "load", !.plugin = p]
    <3>1. place \in Places /\ place.function = at[t].function
      BY <1>0, <2>2 DEF Places
    <3> HIDE DEF place
    <3> QED
      BY <1>0, <2>2, <2>3, <2>5, <3>1, GoOn DEF InCode, libraries, place
  <2> QED
    BY <2>1, <2>4, <2>5
<1>3. ASSUME GetSymbol(t)
      PROVE  StartIInv'
  BY <1>0, <1>3, LookUpStep DEF GetSymbol, Linking, InCode, Places
<1>4. ASSUME NotLinked(t)
      PROVE  StartIInv'
  <2>1. CASE Ends("exited")
    BY <2>1, EndsIInv
  <2>2. CASE /\ Go(t, [at[t] EXCEPT !.pc = "call"])
             /\ UNCHANGED <<preload, code, libraries>>
    <3> DEFINE place == [at[t] EXCEPT !.pc = "call"]
    <3>1. place \in Places /\ place.pc = "call"
      BY <1>0 DEF Places
    <3>2. InCode(t)
      BY <1>4 DEF NotLinked, InCode
    <3> HIDE DEF place
    <3> QED
      BY <1>0, <2>2, <3>1, <3>2, GoOn DEF InCode, libraries, place
  <2> QED
    BY <1>4, <2>1, <2>2 DEF NotLinked
<1>5. ASSUME Run(t)
      PROVE  StartIInv'
  <2>1. InCode(t)
    BY <1>5 DEF Run, InCode
  <2>2. \/ Ends("faulted") \/ Ends("exited") \/ Done(t) \/ MakeString(t)
        \/ \E p \in Plugins : LoadPlugin(t, p)
    BY <1>5 DEF Run
  <2> QED
    BY <2>1, <2>2, EndsIInv, DoneStep, MakeStringStep, LoadPluginStep
<1>6. ASSUME NEW p \in Plugins, RequirePlugin(t, p)
      PROVE  StartIInv'
  BY <1>6, LoadPluginStep DEF RequirePlugin, InCode
<1>7. ASSUME Load(t)
      PROVE  StartIInv'
  <2> DEFINE place == [at[t] EXCEPT !.pc = "open"]
  <2>1. /\ place \in Places /\ place.function = at[t].function
        /\ at[t].function # "none" => Linking(t)
    BY <1>0, <1>7 DEF Places, Load, Linking
  <2>2. Go(t, place) /\ UNCHANGED <<preload, code, libraries>> /\ InCode(t)
    BY <1>7 DEF Load, InCode
  <2> HIDE DEF place
  <2> QED
    BY <1>0, <2>1, <2>2, GoOn DEF InCode, libraries
<1>8. ASSUME Open(t)
      PROVE  StartIInv'
  BY <1>8, OpenStep DEF Open, InCode
<1>9. ASSUME UseString(t)
      PROVE  StartIInv'
  BY <1>9, MakeStringStep DEF UseString, InCode
<1> QED
  BY <1>1, <1>2, <1>3, <1>4, <1>5, <1>6, <1>7, <1>8, <1>9 DEF CodeStep

(* The entries that run no code preserve the invariant: what is ready         *)
(* afterwards is no override.                                                 *)
LEMMA PassedStep ==
  ASSUME StartIInv, Passed, Entries[step][1] # "override",
         UNCHANGED <<code, plugins, handle, opened, raced>>,
         \/ at[Main].pc = "entry" /\ UNCHANGED at
         \/ Go(Main, Place("entry"))
  PROVE  StartIInv'
<1> USE StartUpAssumption DEF StartIInv
<1>1. PICK place \in Places :
        /\ at' = [at EXCEPT ![Main] = place]
        /\ \/ place = at[Main] /\ place.pc = "entry"
           \/ place = Place("entry")
  <2>1. Place("entry") \in Places /\ at[Main] \in Places
    BY PlaceType DEF TypesInv, StartThreads
  <2>2. UNCHANGED at => at' = [at EXCEPT ![Main] = at[Main]]
    BY DEF TypesInv, StartThreads
  <2> QED
    BY <2>1, <2>2 DEF Go
<1>2. \A f : <<"override", f>> \in ready' => <<"override", f>> \in ready
  <2> SUFFICES ASSUME NEW f, <<"override", f>> = Entries[step]
               PROVE  FALSE
    BY DEF Passed
  <2>1. <<"override", f>>[1] = "override"
    OBVIOUS
  <2> QED
    BY <2>1
<1>3. TypesInv' /\ OpenInv'
  BY <1>1 DEF TypesInv, OpenInv
<1>4. LinkInv' /\ OverrideHolds'
  BY <1>1, <1>2 DEF TypesInv, LinkInv, Linking, OverrideHolds, Place
<1>5. EntryInv'
  BY <1>1 DEF TypesInv, EntryInv, Place, StartThreads
<1> QED
  BY <1>3, <1>4, <1>5

(* Every step of main preserves the invariant: an override puts the VM's code *)
(* into a function, and notes who is linking it.                              *)
LEMMA MainPreserves ==
  ASSUME StartIInv, MainStep
  PROVE  StartIInv'
<1> USE StartUpAssumption
<1>0. Main \in StartThreads /\ Other \in StartThreads /\ plugins \subseteq Plugins
  BY DEF StartIInv, TypesInv, StartThreads
<1>p. /\ Place("code") \in Places /\ Place("code").function = "none"
      /\ Place("waiting") \in Places /\ Place("waiting").function = "none"
  BY PlaceType DEF Place
<1>1. CASE CodeStep(Main)
  BY <1>0, <1>1, CodeStepPreserves
<1>2. CASE Launch
  <2>1. PICK place \in Places : place = Place("code") /\ place.function = "none"
    BY <1>p
  <2>2. Go(Other, place) /\ UNCHANGED <<preload, code, libraries>>
    BY <1>2, <2>1 DEF Launch
  <2> QED
    BY <1>0, <2>1, <2>2, GoOn DEF libraries
<1>3. ASSUME NEW kind \in {"class", "field", "function"}, Preload(kind)
      PROVE  StartIInv'
  <2>1. CASE Ends("exited")
    BY <2>1, EndsIInv
  <2>2. CASE Passed /\ UNCHANGED <<process, raced, code, libraries, locks, at, uses>>
    BY <1>3, <2>2, PassedStep DEF Preload, AtEntry, libraries
  <2> QED
    BY <1>3, <2>1, <2>2 DEF Preload
<1>go. ASSUME AtEntry("module") \/ AtEntry("start"), Go(Main, Place("code")),
              UNCHANGED <<preload, code, libraries>>
       PROVE  StartIInv'
  <2>1. TypesInv' /\ OpenInv' /\ OverrideHolds'
    BY <1>p, <1>go DEF StartIInv, TypesInv, OpenInv, OverrideHolds, Go, libraries, preload
  <2>2. EntryInv'
    BY <1>go DEF EntryInv, AtEntry, preload
  <2>3. LinkInv'
    BY <1>p, <1>go DEF StartIInv, TypesInv, LinkInv, Linking, Go, preload
  <2> QED
    BY <2>1, <2>2, <2>3 DEF StartIInv
<1>4. CASE LoadModule
  <2>1. CASE Go(Main, Place("code")) /\ UNCHANGED <<preload, code, libraries, locks, uses>>
    BY <1>4, <1>go, <2>1 DEF LoadModule
  <2>2. CASE Passed /\ UNCHANGED <<process, raced, code, libraries, locks, at, uses>>
    BY <1>4, <2>2, PassedStep DEF LoadModule, AtEntry, libraries
  <2>3. ASSUME NEW how, Ends(how)
        PROVE  StartIInv'
    BY <2>3, EndsIInv
  <2> QED
    BY <1>4, <2>1, <2>2, <2>3 DEF LoadModule
<1>5. CASE Override
  <2> DEFINE f == Entries[step][2]
  <2>1. /\ code' = [code EXCEPT ![f] = "vm"]
        /\ raced' = raced \cup
             { g \in {f} : \E t \in StartThreads : Linking(t) /\ at[t].function = f }
        /\ ready' = ready \cup {Entries[step]}
        /\ UNCHANGED <<plugins, handle, opened, at>>
        /\ at[Main].pc = "entry"
    BY <1>5 DEF Override, Overridden, Passed, libraries, AtEntry
  <2>2. \A g : <<"override", g>> \in ready' => <<"override", g>> \in ready \/ g = f
    <3> SUFFICES ASSUME NEW g, <<"override", g>> = Entries[step]
                 PROVE  g = f
      BY <2>1
    <3>1. <<"override", g>>[2] = g
      OBVIOUS
    <3> QED
      BY <3>1
  <2>3. TypesInv' /\ OpenInv' /\ EntryInv'
    BY <2>1 DEF StartIInv, TypesInv, OpenInv, EntryInv
  <2>4. LinkInv'
    <3> SUFFICES ASSUME NEW t \in StartThreads, Linking(t)',
                        at'[t].function \in ToSet(Overrides),
                        <<"override", at'[t].function>> \in ready'
                 PROVE  at'[t].function \in raced'
      BY DEF LinkInv
    <3>1. Linking(t) /\ at'[t] = at[t]
      BY <2>1 DEF Linking
    <3> QED
      BY <2>1, <2>2, <3>1 DEF StartIInv, LinkInv
  <2>5. OverrideHolds'
    <3> SUFFICES ASSUME NEW g \in ToSet(Overrides), g \notin raced', <<"override", g>> \in ready'
                 PROVE  code'[g] = "vm"
      BY DEF OverrideHolds
    <3>1. g \in Natives
      BY DEF Natives
    <3> QED
      BY <2>1, <2>2, <3>1 DEF StartIInv, TypesInv, OverrideHolds
  <2> QED
    BY <2>3, <2>4, <2>5 DEF StartIInv
<1>6. CASE Start
  <2>1. CASE Ends("faulted")
    BY <2>1, EndsIInv
  <2>2. CASE Go(Main, Place("code")) /\ UNCHANGED <<preload, code, libraries, locks, uses>>
    BY <1>6, <1>go, <2>2 DEF Start
  <2> QED
    BY <1>6, <2>1, <2>2 DEF Start
<1>7. CASE MainReturns
  <2>1. CASE Go(Main, Place("waiting")) /\ UNCHANGED <<step, ready>>
    <3>1. PICK place \in Places : place = Place("waiting") /\ place.function = "none"
      BY <1>p
    <3>2. Go(Main, place) /\ UNCHANGED <<preload, code, libraries>> /\ at[Main].pc = "code"
      BY <1>7, <2>1, <3>1 DEF MainReturns, preload
    <3> QED
      BY <1>0, <3>1, <3>2, GoOn DEF libraries
  <2>2. CASE Go(Main, Place("entry")) /\ Passed
    <3>1. Entries[step][1] # "override"
      BY <1>7 DEF MainReturns, StartIInv, EntryInv
    <3>2. UNCHANGED <<code, plugins, handle, opened, raced>>
      BY <1>7 DEF MainReturns, libraries
    <3> QED
      BY <2>2, <3>1, <3>2, PassedStep
  <2> QED
    BY <1>7, <2>1, <2>2 DEF MainReturns
<1>8. CASE AllThreadsDone
  BY <1>8, EndsIInv DEF AllThreadsDone
<1> QED
  BY <1>1, <1>2, <1>3, <1>4, <1>5, <1>6, <1>7, <1>8 DEF MainStep

(* So does every step of the other thread. *)
LEMMA OtherPreserves ==
  ASSUME StartIInv, OtherStep
  PROVE  StartIInv'
<1> USE StartUpAssumption
<1>0. Other \in StartThreads /\ plugins \subseteq Plugins
  BY DEF StartIInv, TypesInv, StartThreads
<1>1. CASE CodeStep(Other)
  BY <1>0, <1>1, CodeStepPreserves
<1>2. CASE OtherReturns
  <2>1. PICK place \in Places : place = Place("done") /\ place.function = "none"
    BY PlaceType DEF Place
  <2>2. Go(Other, place) /\ UNCHANGED <<preload, code, libraries>>
    BY <1>2, <2>1 DEF OtherReturns
  <2> QED
    BY <1>0, <2>1, <2>2, GoOn DEF libraries
<1> QED
  BY <1>1, <1>2 DEF OtherStep

(* The inductive invariant is inductive. *)
LEMMA StartIInvStep == StartIInv /\ [StartNext]_startVars => StartIInv'
<1>1. ASSUME StartIInv, UNCHANGED startVars
      PROVE  StartIInv'
  BY <1>1 DEF StartIInv, startVars, TypesInv, OpenInv, EntryInv, LinkInv, Linking, OverrideHolds
<1> QED
  BY <1>1, MainPreserves, OtherPreserves DEF StartNext

(* Whatever the code of the two threads does while the VM starts: a library   *)
(* is opened once, and an override stands, unless another thread was linking  *)
(* the function when it was made.                                             *)
THEOREM PluginsHoldCorrect == StartSpec => []PluginsHold
<1>1. StartIInv => PluginsHold
  BY DEF StartIInv, OpenInv, PluginsHold, OpenedOnce
<1> QED
  BY <1>1, StartInitIInv, StartIInvStep, PTL DEF StartSpec

================================================================================
