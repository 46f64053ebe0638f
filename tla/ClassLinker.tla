---------------------------- MODULE ClassLinker ----------------------------
(***************************************************************************)
(* Linker::LoadClass of src/framework/src/Linker.cpp with Class::link,     *)
(* linkArray and the constants of class references: threads that load the  *)
(* classes of loaded modules and the array classes made from them.  The    *)
(* system's classes are linked by Preload.cpp before a second thread runs; *)
(* Object stands for them.                                                 *)
(***************************************************************************)
EXTENDS ClassLayout

CONSTANTS
    Threads,
    NoThread,
    Object,         \* rt::std::Primitives::Object::self
    Classes,        \* the other classes the modules declare
    Arrays,         \* names of array classes
    BaseOf,         \* the class an array's name gives as its base
    NoClass,
    Freed,          \* a pointer to an array class that is destroyed
    Supers,         \* the superclasses a class may declare
    FieldLists,     \* the fields each class may declare, as types
    MethodNames,    \* names, with the descriptor, that methods have
    MethodLists,    \* the methods each class may declare, as names
    MaxLoads        \* bound: loads a thread's code asks for

ASSUME NoThreadAssumption == NoThread \notin Threads
ASSUME ClassesAssumption ==
    /\ Object \notin Classes
    /\ NoClass \notin Classes \cup {Object}
    /\ Arrays \cap (Classes \cup {Object, NoClass}) = {}
    /\ Freed \notin Classes \cup Arrays \cup {Object, NoClass}
    /\ BaseOf \in [Arrays -> Classes \cup {Object} \cup Arrays]
    /\ Supers \in [Classes -> SUBSET (Classes \cup {Object, NoClass})]
    /\ IsFiniteSet(Classes)
    /\ FieldLists \in [Classes -> SUBSET Seq(Types)]
    /\ "equals" \in MethodNames
    /\ MethodLists \in [Classes -> SUBSET Seq(MethodNames)]
    /\ MaxLoads \in Nat

VARIABLES
    declared,   \* what moduleweb_class_info says of every class
    state,      \* mState
    loader,     \* mLoadingThread; NoThread: not written yet
    super,      \* mSuperClass
    layout,     \* mMemorySize and mMemoryOffset of the fields
    vtable,     \* mVTable
    slot,       \* mVTableIndex of the methods
    built,      \* the classes whose mFields, mMethods and mVTable are filled
    constant,   \* ConstPool::mConstants of the class references
    arrays,     \* Module::mClasses of the array names: who made the class
    calls,      \* the LoadClass calls each thread is in, innermost last
    returned,   \* what its last LoadClass returned
    refused,    \* history: declared classes LoadClass has given null for
    notified,   \* sleeping in condition.wait, and woken by notify_all
    loads,      \* loads it has asked for
    process     \* "running" until something undefined happens

vars == <<declared, state, loader, super, layout, vtable, slot, built, constant,
          arrays, calls, returned, refused, notified, loads, process>>

AllClasses == Classes \cup {Object}
Names == AllClasses \cup Arrays

\* A class reference resolved: the class found, and whose constant it is.
NoConstant == [class |-> NoClass, by |-> NoThread]

EmptyLayout == [size |-> 0, at |-> <<>>]

\* Object has one method and no fields; it is linked before the threads run.
Init ==
    /\ \E supers \in [Classes -> AllClasses \cup {NoClass}],
          fields \in [Classes -> UNION Range(FieldLists)],
          methods \in [Classes -> UNION Range(MethodLists)] :
         /\ \A c \in Classes : /\ supers[c] \in Supers[c]
                               /\ fields[c] \in FieldLists[c]
                               /\ methods[c] \in MethodLists[c]
         /\ declared = [c \in Classes |-> [super |-> supers[c],
                                           fields |-> fields[c],
                                           methods |-> methods[c]]]
    /\ state = [c \in AllClasses |->
                  IF c = Object THEN "LINKED" ELSE "INITIALIZED"]
    /\ loader = [c \in AllClasses |-> NoThread]
    /\ super = [c \in AllClasses |-> NoClass]
    /\ layout = [c \in AllClasses |-> EmptyLayout]
    /\ vtable = [c \in AllClasses |->
                   IF c = Object THEN <<<<Object, "equals">>>> ELSE <<>>]
    /\ slot = [c \in AllClasses |->
                 IF c = Object THEN [name \in {"equals"} |-> 1]
                 ELSE <<>>]
    /\ built = {Object}
    /\ constant = [c \in AllClasses |-> NoConstant]
    /\ arrays = [a \in Arrays |-> NoThread]
    /\ calls = [t \in Threads |-> <<>>]
    /\ returned = [t \in Threads |-> NoClass]
    /\ refused = {}
    /\ notified = [t \in Threads |-> FALSE]
    /\ loads = [t \in Threads |-> 0]
    /\ process = "running"

Top(t) == Last(calls[t])
At(t, pc) == process = "running" /\ calls[t] /= <<>> /\ Top(t).pc = pc

Call(name) == [name |-> name, pc |-> "find", held |-> NoConstant]

\* Next step of the innermost call of t.
Goto(t, pc) ==
    calls' = [calls EXCEPT ![t] = Append(Front(@), [Last(@) EXCEPT !.pc = pc])]

\* t goes on at pc once the LoadClass of name has returned.
Recurse(t, pc, name) ==
    calls' = [calls EXCEPT
                ![t] = Front(@) \o <<[Last(@) EXCEPT !.pc = pc], Call(name)>>]

Return(t, class) ==
    /\ calls' = [calls EXCEPT ![t] = Front(@)]
    /\ returned' = [returned EXCEPT ![t] = class]
    /\ refused' = IF class = NoClass THEN refused \cup ({Top(t).name} \cap AllClasses)
                  ELSE refused

linked == <<super, layout, vtable, slot, built>>
results == <<returned, refused>>

\* The code a thread runs needs a class (Object.cpp, constants, natives).
Ask(t, name) ==
    /\ process = "running" /\ calls[t] = <<>> /\ loads[t] < MaxLoads
    /\ loads' = [loads EXCEPT ![t] = @ + 1]
    /\ calls' = [calls EXCEPT ![t] = <<Call(name)>>]
    /\ UNCHANGED <<declared, state, loader, linked, constant, arrays, results,
                   notified, process>>

\* FindClass's test for a class its own thread links; mLoadingThread is read
\* uninitialised when the linking thread has not come to linkCommon yet.
SeesOwn(t, class) == loader[class] \in {t, NoThread}

SeesOther(t, class) == loader[class] /= t

\* FindClass on a declared class, under the linker's mutex.
FindDeclared(t) ==
    LET class == Top(t).name
    IN  /\ At(t, "find") /\ class \in AllClasses
        /\ \/ /\ state[class] = "LINKING" /\ SeesOwn(t, class)
              /\ Return(t, NoClass)
           \/ /\ state[class] = "LINKING" /\ SeesOther(t, class)
              /\ Goto(t, "wait")
              /\ UNCHANGED results
           \/ /\ state[class] /= "LINKING"
              /\ Goto(t, "check")
              /\ UNCHANGED results
        /\ UNCHANGED <<declared, state, loader, linked, constant, arrays,
                       notified, loads, process>>

\* condition.wait returns after a notify_all, or spuriously, when the state
\* allows it; Class::link itself notifies nobody.
LeavesWait(t) ==
    /\ At(t, "wait")
    /\ notified' = [notified EXCEPT ![t] = FALSE]
    /\ IF state[Top(t).name] /= "LINKING" THEN Goto(t, "check")
       ELSE UNCHANGED calls
    /\ UNCHANGED <<declared, state, loader, linked, constant, arrays, results,
                   loads, process>>

Awake(t) == notified[t] /\ LeavesWait(t)
WakeSpuriously(t) ==
    /\ At(t, "wait") /\ ~ notified[t]
    /\ state[Top(t).name] /= "LINKING"
    /\ LeavesWait(t)

Waiting == {t \in Threads : At(t, "wait")}

\* A module somewhere else is loaded: notify_all.
ModuleLoaded ==
    /\ process = "running"
    /\ \E t \in Waiting : ~ notified[t]
    /\ notified' = [t \in Threads |-> t \in Waiting]
    /\ UNCHANGED <<declared, state, loader, linked, constant, arrays, calls,
                   results, loads, process>>

\* link_check, without the mutex: the state is read once, and again.
Check(t) ==
    /\ At(t, "check")
    /\ \/ /\ state[Top(t).name] = "LINKED"
          /\ Return(t, Top(t).name)
       \/ /\ state[Top(t).name] /= "LINKED"
          /\ Goto(t, "check again")
          /\ UNCHANGED results
    /\ UNCHANGED <<declared, state, loader, linked, constant, arrays,
                   notified, loads, process>>

\* Mutant of CheckAgain: whatever somebody has begun to link is taken.
CheckLax(t) ==
    /\ At(t, "check again")
    /\ \/ /\ state[Top(t).name] = "INITIALIZED"
          /\ Goto(t, "mark")
          /\ UNCHANGED results
       \/ /\ state[Top(t).name] /= "INITIALIZED"
          /\ Return(t, Top(t).name)
    /\ UNCHANGED <<declared, state, loader, linked, constant, arrays,
                   notified, loads, process>>

\* A class that another thread has begun, or even finished, to link since is
\* refused.
CheckAgain(t) ==
    /\ At(t, "check again")
    /\ \/ /\ state[Top(t).name] = "INITIALIZED"
          /\ Goto(t, "mark")
          /\ UNCHANGED results
       \/ /\ state[Top(t).name] /= "INITIALIZED"
          /\ Return(t, NoClass)
    /\ UNCHANGED <<declared, state, loader, linked, constant, arrays,
                   notified, loads, process>>

\* Class::link's first assignment, whoever has begun to link the class since
\* its state was read.
Mark(t) ==
    /\ At(t, "mark")
    /\ state' = [state EXCEPT ![Top(t).name] = "LINKING"]
    /\ Goto(t, "loader")
    /\ UNCHANGED <<declared, loader, linked, constant, arrays, results,
                   notified, loads, process>>

\* Mutant of LinkCommon: the class does not say who links it.
LinkUnnamed(t) ==
    /\ At(t, "loader")
    /\ Goto(t, "super")
    /\ UNCHANGED <<declared, state, loader, linked, constant, arrays, results,
                   notified, loads, process>>

LinkCommon(t) ==
    /\ At(t, "loader")
    /\ loader' = [loader EXCEPT ![Top(t).name] = t]
    /\ Goto(t, "super")
    /\ UNCHANGED <<declared, state, linked, constant, arrays, results,
                   notified, loads, process>>

Hold(t, pc, held) ==
    calls' = [calls EXCEPT ![t] =
                Append(Front(@), [Last(@) EXCEPT !.pc = pc, !.held = held])]

\* getGeneric: the constant of the superclass is made when there is none,
\* which loads the class first.
Super(t) ==
    LET parent == declared[Top(t).name].super
    IN  /\ At(t, "super")
        /\ \/ parent = NoClass /\ Goto(t, "lay out")
           \/ /\ parent /= NoClass /\ constant[parent] = NoConstant
              /\ Recurse(t, "constant", parent)
           \/ /\ parent /= NoClass /\ constant[parent] /= NoConstant
              /\ Hold(t, "use", constant[parent])
        /\ UNCHANGED <<declared, state, loader, linked, constant, arrays,
                       results, notified, loads, process>>

\* The new constant replaces, and so destroys, one made meanwhile.
AssignConstant(t) ==
    LET made == [class |-> returned[t], by |-> t]
    IN  /\ At(t, "constant")
        /\ constant' = [constant EXCEPT ![declared[Top(t).name].super] = made]
        /\ Hold(t, "use", made)
        /\ UNCHANGED <<declared, state, loader, linked, arrays, results,
                       notified, loads, process>>

\* A second thread that comes to write the data of a class that is built does so
\* under its readers and doubles its vectors, into which others point.
Rewrites(t) ==
    /\ Top(t).name \in built
    /\ process' = "linked twice"
    /\ UNCHANGED <<calls, linked>>

\* ConstantClass::getClass on the pointer getGeneric gave.
UseConstant(t) ==
    LET class == Top(t).name
    IN  /\ At(t, "use")
        /\ \/ /\ constant[declared[class].super] /= Top(t).held
              /\ process' = "constant freed"
              /\ UNCHANGED <<calls, linked>>
           \/ /\ constant[declared[class].super] = Top(t).held
              /\ Rewrites(t)
           \/ /\ constant[declared[class].super] = Top(t).held
              /\ class \notin built
              /\ super' = [super EXCEPT ![class] = Top(t).held.class]
              /\ Goto(t, "lay out")
              /\ UNCHANGED <<layout, vtable, slot, built, process>>
        /\ UNCHANGED <<declared, state, loader, constant, arrays, results,
                       notified, loads>>

\* The fields, the methods, the buckets and the table: the class's own data.
Inherited(class) == IF super[class] = NoClass THEN <<>> ELSE vtable[super[class]]
BaseSize(class) == IF super[class] = NoClass THEN 0 ELSE layout[super[class]].size

Build(t) ==
    \E class \in {Top(t).name} \ built :
    \E table \in {VTable(class, Inherited(class), declared[class].methods)} :
        /\ layout' = [layout EXCEPT
                 ![class] = LayOut(BaseSize(class), declared[class].fields)]
        /\ vtable' = [vtable EXCEPT ![class] = table]
        /\ slot' = [slot EXCEPT ![class] = Slots(table, declared[class].methods)]
        /\ built' = built \cup {class}
        /\ Goto(t, "linked")
        /\ UNCHANGED <<super, process>>

LayOutClass(t) ==
    /\ At(t, "lay out")
    /\ Build(t) \/ Rewrites(t)
    /\ UNCHANGED <<declared, state, loader, constant, arrays, results,
                   notified, loads>>

\* Mutant of Linked: the state stays LINKING.
LinkedForgotten(t) ==
    /\ At(t, "linked")
    /\ Goto(t, "check")
    /\ UNCHANGED <<declared, state, loader, linked, constant, arrays, results,
                   notified, loads, process>>

\* link's last assignment, and back to link_check.
Linked(t) ==
    /\ At(t, "linked")
    /\ state' = [state EXCEPT ![Top(t).name] = "LINKED"]
    /\ Goto(t, "check")
    /\ UNCHANGED <<declared, loader, linked, constant, arrays, results,
                   notified, loads, process>>

-----------------------------------------------------------------------------
(* Array classes: found in the module, or made of the base class.          *)

FindArray(t) ==
    LET array == Top(t).name
    IN  /\ At(t, "find") /\ array \in Arrays
        /\ IF arrays[array] /= NoThread
           THEN Return(t, array)
           ELSE Recurse(t, "emplace", BaseOf[array]) /\ UNCHANGED results
        /\ UNCHANGED <<declared, state, loader, linked, constant, arrays,
                       notified, loads, process>>

\* std::unordered_map::emplace keeps the entry there is.  The class of a second
\* maker is then destroyed with the node made for it, or lost, if the library
\* looks the name up before it makes the node.
Emplaced(maker, t) == IF maker = NoThread THEN t ELSE maker
Answers(array) == IF arrays[array] = NoThread THEN {array} ELSE {array, Freed}

\* LoadArrayClass fails without a base class and reads the modifiers of the one
\* there is.  The caller gets the class it has made whatever emplace did.
EmplaceArray(t) ==
    LET array == Top(t).name
    IN  /\ At(t, "emplace")
        /\ \/ /\ returned[t] = NoClass
              /\ Return(t, NoClass)
              /\ UNCHANGED <<arrays, notified, process>>
           \/ /\ returned[t] = Freed
              /\ process' = "class freed"
              /\ UNCHANGED <<calls, results, arrays, notified>>
           \/ /\ returned[t] \notin {NoClass, Freed}
              /\ arrays' = [arrays EXCEPT ![array] = Emplaced(@, t)]
              /\ notified' = [u \in Threads |-> u \in Waiting]
              /\ \E class \in Answers(array) : Return(t, class)
              /\ UNCHANGED process
        /\ UNCHANGED <<declared, state, loader, linked, constant, loads>>

-----------------------------------------------------------------------------
Step(t) ==
    \/ FindDeclared(t) \/ Awake(t) \/ Check(t) \/ CheckAgain(t)
    \/ Mark(t) \/ LinkCommon(t) \/ Super(t) \/ AssignConstant(t) \/ UseConstant(t)
    \/ LayOutClass(t) \/ Linked(t)
    \/ FindArray(t) \/ EmplaceArray(t)

Next ==
    \/ \E t \in Threads : \E name \in Names : Ask(t, name)
    \/ \E t \in Threads : Step(t) \/ WakeSpuriously(t)
    \/ ModuleLoaded

Spec == Init /\ [][Next]_vars

\* A thread that can run goes on; nobody has to load another class or module.
FairSpec == Spec /\ \A t \in Threads : WF_vars(Step(t))
-----------------------------------------------------------------------------
\* isAssignableTo's walk: the class and the superclasses it was linked with,
\* then NoClass.
Ancestry(class) ==
    LET up[k \in 0 .. Cardinality(AllClasses)] ==
            IF k = 0 THEN class
            ELSE IF up[k - 1] = NoClass THEN NoClass ELSE super[up[k - 1]]
    IN  [k \in 1 .. Cardinality(AllClasses) |-> up[k - 1]]

Ancestors(class) == ToSet(Ancestry(class)) \ {NoClass}

Pcs == {"find", "wait", "check", "check again", "mark", "loader", "super", "constant", "use",
        "lay out", "linked", "emplace"}

Constants == [class : AllClasses \cup {NoClass}, by : Threads \cup {NoThread}]

Calls == [name : Names, pc : Pcs, held : Constants]

\* Every variable keeps to its type, but for what is laid out: see TablesOK.
TypeOK ==
    /\ \A c \in Classes : declared[c].super \in AllClasses \cup {NoClass}
    /\ state \in [AllClasses -> {"INITIALIZED", "LINKING", "LINKED"}]
    /\ loader \in [AllClasses -> Threads \cup {NoThread}]
    /\ super \in [AllClasses -> AllClasses \cup {NoClass}]
    /\ constant \in [AllClasses -> Constants]
    /\ arrays \in [Arrays -> Threads \cup {NoThread}]
    /\ calls \in [Threads -> Seq(Calls)]
    /\ built \subseteq AllClasses /\ refused \subseteq AllClasses
    /\ returned \in [Threads -> Names \cup {NoClass, Freed}]
    /\ loads \in [Threads -> 0 .. MaxLoads]
    /\ notified \in [Threads -> BOOLEAN]
    /\ process \in {"running", "linked twice", "constant freed", "class freed"}

\* getTotalSize's allocation holds every field of the class and of all its
\* superclasses, each at an offset its type may be read at, and no two fields
\* share a byte: a store to one field never changes another.
LayoutExact ==
    \A class \in AllClasses : state[class] = "LINKED" =>
        LET fields == UNION {{<<c, i>> : i \in DOMAIN layout[c].at} :
                               c \in Ancestors(class)}
            Size(f) == TypeSize(declared[f[1]].fields[f[2]])
            Offset(f) == layout[f[1]].at[f[2]]
        IN  \A f \in fields :
              /\ Offset(f) % Size(f) = 0
              /\ Offset(f) + Size(f) <= layout[class].size
              /\ \A g \in fields \ {f} :
                   \/ Offset(f) + Size(f) <= Offset(g)
                   \/ Offset(g) + Size(g) <= Offset(f)

\* The types of what LayOutClass writes.
TablesOK ==
    \A c \in AllClasses :
      /\ layout[c].size \in Nat
      /\ ToSet(vtable[c]) \subseteq AllClasses \X MethodNames
      /\ \A name \in DOMAIN slot[c] : slot[c][name] \in DOMAIN vtable[c]

\* dispatchMethod on an object of a linked class finds, for a method declared
\* by the class or by any superclass, the declaration nearest to the class,
\* and through the index kept in the superclass's method.
DispatchMostDerived ==
  /\ TablesOK
  /\ \A class \in AllClasses : state[class] = "LINKED" =>
        LET line == Ancestry(class)
            Nearest(name) ==
                line[SelectInSeq(line, LAMBDA c : /\ c /= NoClass
                                                  /\ name \in DOMAIN slot[c])]
        IN  \A c \in Ancestors(class) : \A name \in DOMAIN slot[c] :
              /\ slot[c][name] \in DOMAIN vtable[class]
              /\ vtable[class][slot[c][name]] = <<Nearest(name), name>>

\* The calls of a thread that are between link's first and last assignment.
LinkingPcs == {"loader", "super", "constant", "use", "lay out", "linked"}
LinkCalls(t, class) ==
    {i \in DOMAIN calls[t] :
       calls[t][i].name = class /\ calls[t][i].pc \in LinkingPcs}
Links(t, class) == LinkCalls(t, class) /= {}

\* However many threads load or link a class at once, one that sleeps for it
\* while it is being linked sleeps for the work of another thread: through any
\* chain of superclasses, and whoever wrote mLoadingThread last, FindClass lets
\* no thread wait for nobody but itself.
SleepsForAnother ==
    \A t \in Waiting : state[Top(t).name] = "LINKING" =>
        \E u \in Threads \ {t} : Links(u, Top(t).name)

\* The declared superclasses end in a class without one.
Acyclic ==
    \A c \in Classes :
        LET up[k \in 0 .. Cardinality(Classes)] ==
                IF k = 0 THEN c
                ELSE IF up[k - 1] \notin Classes THEN up[k - 1]
                ELSE declared[up[k - 1]].super
        IN  up[Cardinality(Classes)] \notin Classes

\* As link notifies nobody, a sleeper depends on a module being loaded
\* somewhere; given that, every load of a class ends unless the superclasses
\* form a cycle.
LoadsEnd ==
    (WF_vars(ModuleLoaded) /\ Acyclic) =>
        \A t \in Threads :
            calls[t] /= <<>> ~> (calls[t] = <<>> \/ process /= "running")

\* A class that LoadClass has given is laid out, although it may say that it is
\* being linked again.
GivenBuilt == \A t \in Threads : returned[t] \in AllClasses => returned[t] \in built

\* An array class that others find was made of a base class that is laid out
\* or that others find as well.
ArraysBased ==
    \A a \in Arrays : arrays[a] /= NoThread =>
        \/ BaseOf[a] \in built
        \/ BaseOf[a] \in Arrays /\ arrays[BaseOf[a]] /= NoThread

\* A class laid out without the superclass it declares lacks it because
\* LoadClass has refused that one, and what is refused somebody has begun to
\* link.
SuperRefused ==
    /\ \A c \in built \ {Object} :
         \/ super[c] = declared[c].super
         \/ super[c] = NoClass /\ declared[c].super \in refused
    /\ \A c \in refused : state[c] /= "INITIALIZED"

\* Whatever threads race for a class, what its loads have given stands: each
\* thread has a class that is laid out, below the superclass it declares unless
\* that one was refused while it was being linked, and the array classes in a
\* module have their bases.
ResultsStand == TypeOK /\ GivenBuilt /\ ArraysBased /\ SuperRefused

===============================================================================
