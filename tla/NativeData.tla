------------------------------ MODULE NativeData ------------------------------
(***************************************************************************)
(* The data of the VM that native code reads and writes: object fields,    *)
(* global variables and arrays (ProvidedFunctions.cpp in                   *)
(* framework/src/native_interface, Object::setObject of                    *)
(* framework/src/heap/Object.cpp, Arrays::copy of                          *)
(* framework/src/runtime/std/Arrays.cpp).                                  *)
(*                                                                         *)
(* Several threads are in native functions and share an object with a      *)
(* field of a reference type and a global of one, or an array of           *)
(* references, or an array of longs.  No function takes a lock: what one   *)
(* reads it uses after the others may have changed it.  counted is the     *)
(* increments less the decrements that the threads have logged; the count  *)
(* of an object that an unsafe operation has touched is not followed any   *)
(* further.                                                                *)
(***************************************************************************)
EXTENDS Integers, FiniteSets

CONSTANTS
  Threads,
  Objects,
  Null,
  Size,       \* of the arrays
  MaxLocals,  \* bound on the local references to an object
  MaxCopying, \* bound on the threads that copy at once
  MaxWrites   \* bound on the values that threads write to their copies of the array of longs

ASSUME DataAssumption ==
  /\ IsFiniteSet(Threads)
  /\ Null \notin Objects
  /\ Size \in Nat \ {0} /\ MaxLocals \in Nat /\ MaxCopying \in Nat /\ MaxWrites \in Nat

\* The places for a reference: the elements of the array, and two more.
Field == -1
Global == -2
Elements == 0..(Size - 1)
Cells == Elements \cup {Field, Global}

VARIABLES
  sharing,    \* what the threads share: "fields", "elements", "longs", or "ended"
  cells,      \* what each place refers to
  counted,    \* of each object that is not tainted
  locals,     \* of each thread and object, the local references
  at,         \* of each thread, what it is about to do
  args,       \* of each thread, what it works with
  tainted,    \* history: the objects whose counts an unsafe operation has touched
  longs,      \* the array of longs
  copies,     \* of each thread, the copy of it that GetLongArrayElements made
  released,   \* history: of each element, the writes that were released to it
  overlapped  \* history: while a thread held a copy, another got one or moved elements

references == <<cells, counted, locals, at, args, tainted>>
arrays == <<longs, copies, released, overlapped>>
dataVars == <<sharing, references, arrays>>

NoArgs == [cell |-> Field, value |-> Null, old |-> Null, seen |-> Null,
           source |-> 0, left |-> 0, count |-> 0, goal |-> <<>>, alone |-> TRUE]
NoCopy == [held |-> FALSE, data |-> [i \in Elements |-> 0], written |-> [i \in Elements |-> 0]]

\* Every reference counts once, whichever place it is in.
CellsOf(contents, o) == Cardinality({ c \in Cells : contents[c] = o })

\* The local references to an object, numbered for each thread.
LocalRefs(held, o) == { r \in Threads \X (1..MaxLocals) : r[2] <= held[r[1]][o] }

Shared(what) ==
  CASE what = "fields" -> {Field, Global} [] what = "elements" -> Elements [] OTHER -> {}

DataInit ==
  /\ sharing \in {"fields", "elements", "longs"}
  /\ cells \in { f \in [Cells -> Objects \cup {Null}] :
                   \A c \in Cells : c \in Shared(sharing) \/ f[c] = Null }
  /\ counted = [o \in Objects |-> CellsOf(cells, o)]
  /\ locals = [t \in Threads |-> [o \in Objects |-> 0]]
  /\ at = [t \in Threads |-> "idle"]
  /\ args = [t \in Threads |-> NoArgs]
  /\ tainted = {}
  /\ longs = [i \in Elements |-> 0]
  /\ copies = [t \in Threads |-> NoCopy]
  /\ released = [i \in Elements |-> 0]
  /\ overlapped = FALSE

\* Another thread's change of the array is seen by a copy in progress.
Disturbed(t) ==
  [u \in Threads |-> IF u # t /\ at[u] \in {"copy", "put"}
                     THEN [args[u] EXCEPT !.alone = FALSE, !.goal = <<>>] ELSE args[u]]

Proceed(t, where, with) ==
  /\ at' = [at EXCEPT ![t] = where]
  /\ args' = [args EXCEPT ![t] = with]

Log(o, n) == IF o \in tainted \cup {Null} THEN counted ELSE [counted EXCEPT ![o] = @ + n]

Taint(objects, counts) ==
  /\ tainted' = tainted \cup (objects \ {Null})
  /\ counted' = [o \in Objects |-> IF o \in tainted' THEN 0 ELSE counts[o]]

\* The process ends with a reference to null that is logged, and with a trap.
End ==
  /\ sharing' = "ended"
  /\ cells' = [c \in Cells |-> Null]
  /\ counted' = [o \in Objects |-> 0]
  /\ locals' = [t \in Threads |-> [o \in Objects |-> 0]]
  /\ at' = [t \in Threads |-> "ended"]
  /\ args' = [t \in Threads |-> NoArgs]
  /\ tainted' = {}
  /\ UNCHANGED arrays

-------------------------------------------------------------------------------
(* References.                                                             *)

\* CreateLocalRef of what was read, before the function returns it.
CreateLocalRef(t) ==
  LET o == args[t].old
  IN  /\ at[t] = "give"
      /\ IF o = Null THEN End
         ELSE /\ Cardinality(LocalRefs(locals, o)) < MaxLocals
              /\ locals' = [locals EXCEPT ![t][o] = @ + 1]
              /\ counted' = Log(o, 1)
              /\ Proceed(t, "idle", NoArgs)
              /\ UNCHANGED <<sharing, cells, tainted, arrays>>

DeleteLocalRef(t, o) ==
  /\ at[t] = "idle"
  /\ locals[t][o] > 0
  /\ locals' = [locals EXCEPT ![t][o] = @ - 1]
  /\ counted' = Log(o, -1)
  /\ UNCHANGED <<sharing, cells, at, args, tainted, arrays>>

\* GetObjectField.  GetObjectGlobalVar and GetObjectArrayElement change nothing.
GetObjectField(t) ==
  /\ sharing = "fields" /\ at[t] = "idle"
  /\ Proceed(t, "give", [NoArgs EXCEPT !.old = cells[Field]])
  /\ UNCHANGED <<sharing, cells, counted, locals, tainted, arrays>>

\* SetObjectField: SetTField gets the object that it will return.
SetObjectField(t, value) ==
  /\ sharing = "fields" /\ at[t] = "idle"
  /\ Proceed(t, "set", [NoArgs EXCEPT !.old = cells[Field], !.value = value])
  /\ UNCHANGED <<sharing, cells, counted, locals, tainted, arrays>>

\* setObject: it reads the field again, and logs the decrement of that object.
SetObject(t) ==
  LET seen == cells[Field]
  IN  /\ at[t] = "set"
      /\ counted' = Log(seen, -1)
      /\ Proceed(t, "store", [args[t] EXCEPT !.seen = seen])
      /\ UNCHANGED <<sharing, cells, locals, tainted, arrays>>

\* SetObjectArrayElement: the decrement is logged unless the object stays.
SetObjectArrayElement(t, i, value) ==
  LET old == cells[i]
  IN  /\ sharing = "elements" /\ at[t] = "idle"
      /\ IF old # value /\ old = Null THEN End
         ELSE /\ counted' = IF old = value THEN counted ELSE Log(old, -1)
              /\ Proceed(t, "store", [NoArgs EXCEPT !.cell = i, !.value = value, !.old = old, !.seen = old])
              /\ UNCHANGED <<sharing, cells, locals, tainted, arrays>>

\* The objects whose counts the store of a thread leaves wrong: another thread has
\* stored there since it looked, or it gives an element the value that it has.
Spoilt(t) ==
  LET a == args[t]
      unlucky == IF cells[a.cell] # a.seen THEN {cells[a.cell], a.seen} ELSE {}
      twice == IF a.cell \in Elements /\ a.seen = a.value THEN {a.value} ELSE {}
  IN  (unlucky \cup twice) \ {Null}

\* Mutant of Store: the increment is left out.
StoreUncounted(t) ==
  LET a == args[t]
  IN  /\ at[t] = "store"
      /\ cells' = [cells EXCEPT ![a.cell] = a.value]
      /\ Taint(Spoilt(t), counted)
      /\ at' = [at EXCEPT ![t] = "give"]
      /\ args' = [Disturbed(t) EXCEPT ![t] = [NoArgs EXCEPT !.old = a.old]]
      /\ UNCHANGED <<sharing, locals, arrays>>

\* The store, and the increment.
Store(t) ==
  LET a == args[t]
  IN  /\ at[t] = "store"
      /\ cells' = [cells EXCEPT ![a.cell] = a.value]
      /\ Taint(Spoilt(t), Log(a.value, 1))
      /\ at' = [at EXCEPT ![t] = "give"]
      /\ args' = [Disturbed(t) EXCEPT ![t] = [NoArgs EXCEPT !.old = a.old]]
      /\ UNCHANGED <<sharing, locals, arrays>>

\* SetObjectGlobalVar: neither the old object nor the new one is counted.
SetObjectGlobalVar(t, value) ==
  /\ sharing = "fields" /\ at[t] = "idle"
  /\ cells' = [cells EXCEPT ![Global] = value]
  /\ Taint({cells[Global], value}, counted)
  /\ UNCHANGED <<sharing, locals, at, args, arrays>>

\* An array with count of its elements copied at once.
Moved(a, source, dest, count) ==
  [i \in Elements |-> IF i \in dest..(dest + count - 1) THEN a[source + i - dest] ELSE a[i]]

\* Arrays::copy within the array: the checks.
Copy(t, source, dest, count) ==
  /\ sharing = "elements" /\ at[t] = "idle"
  /\ Cardinality({ u \in Threads : at[u] \in {"copy", "put"} }) < MaxCopying
  /\ IF {source, dest, count} \subseteq Nat /\ source + count <= Size /\ dest + count <= Size
     THEN /\ Proceed(t, "copy", [NoArgs EXCEPT !.cell = dest, !.source = source, !.count = count,
                                          !.left = count, !.goal = Moved(cells, source, dest, count)])
          /\ UNCHANGED <<sharing, cells, counted, locals, tainted, arrays>>
     ELSE End

\* The elements are copied from the last to the first.
Overlapping(a) == a.cell > a.source /\ a.cell < a.source + a.count

\* Which of the elements is next.
NextElement(a) == IF Overlapping(a) THEN a.left - 1 ELSE a.count - a.left

\* One element: the increment and the decrement are logged, if it changes.
CopyElement(t) ==
  LET a == args[t]
      obj == cells[a.source + NextElement(a)]
      destSlot == cells[a.cell + NextElement(a)]
  IN  /\ at[t] = "copy" /\ a.left > 0
      /\ IF destSlot = obj
         THEN /\ Proceed(t, "copy", [a EXCEPT !.left = @ - 1])
              /\ UNCHANGED counted
         ELSE /\ counted' = [o \in Objects |->
                               IF o \in tainted THEN 0
                               ELSE counted[o] + (IF o = obj THEN 1 ELSE 0) - (IF o = destSlot THEN 1 ELSE 0)]
              /\ Proceed(t, "put", [a EXCEPT !.value = obj, !.seen = destSlot])
      /\ UNCHANGED <<sharing, cells, locals, tainted, arrays>>

\* The element is stored.
CopyPut(t) ==
  LET a == args[t]
      c == a.cell + NextElement(a)
  IN  /\ at[t] = "put"
      /\ cells' = [cells EXCEPT ![c] = a.value]
      /\ Taint(IF cells[c] = a.seen THEN {} ELSE {cells[c], a.seen}, counted)
      /\ at' = [at EXCEPT ![t] = "copy"]
      /\ args' = [Disturbed(t) EXCEPT ![t].left = @ - 1]
      /\ UNCHANGED <<sharing, locals, arrays>>

CopyEnds(t) ==
  /\ at[t] = "copy" /\ args[t].left = 0
  /\ Proceed(t, "idle", NoArgs)
  /\ UNCHANGED <<sharing, cells, counted, locals, tainted, arrays>>

-------------------------------------------------------------------------------
(* The array of longs.                                                     *)

\* What was released is followed until copies have overlapped.
Releases(writes) == released' = IF overlapped' THEN NoCopy.written ELSE writes

\* Arrays::copy within an array of longs: the elements are moved as bytes, at once.
CopyLongs(source, dest, count) ==
  /\ sharing = "longs"
  /\ IF {source, dest, count} \subseteq Nat /\ source + count <= Size /\ dest + count <= Size
     THEN /\ longs' = Moved(longs, source, dest, count)
          /\ overlapped' = (overlapped \/ \E t \in Threads : copies[t].held)
          /\ Releases(Moved(released, source, dest, count))
          /\ UNCHANGED <<sharing, references, copies>>
     ELSE End

\* GetTArrayElements: a copy of the whole array.
GetLongArrayElements(t) ==
  /\ sharing = "longs" /\ ~copies[t].held
  /\ copies' = [copies EXCEPT ![t] = [NoCopy EXCEPT !.held = TRUE, !.data = longs]]
  /\ overlapped' = (overlapped \/ \E u \in Threads \ {t} : copies[u].held)
  /\ Releases(released)
  /\ UNCHANGED <<sharing, references, longs>>

\* Native code adds to an element of its copy.
Write(t, i) ==
  /\ sharing = "longs" /\ copies[t].held
  /\ copies[t].data[i] < MaxWrites
  /\ copies' = [copies EXCEPT ![t].data[i] = @ + 1, ![t].written[i] = @ + 1]
  /\ UNCHANGED <<sharing, references, longs, released, overlapped>>

\* The modes of ReleaseTArrayElements; one it does not know is as 0.
CopiesBack(mode) == mode # "VM_ABORT"
Frees(mode) == mode # "VM_COMMIT"

ReleaseLongArrayElements(t, mode) ==
  LET c == copies[t]
  IN  /\ sharing = "longs" /\ c.held
      /\ longs' = IF CopiesBack(mode) THEN c.data ELSE longs
      /\ UNCHANGED overlapped
      /\ Releases(IF mode = "VM_ABORT" THEN released
                  ELSE [i \in Elements |-> released[i] + c.written[i]])
      /\ copies' = [copies EXCEPT ![t] =
                      IF Frees(mode) THEN NoCopy ELSE [c EXCEPT !.written = NoCopy.written]]
      /\ UNCHANGED <<sharing, references>>

-------------------------------------------------------------------------------

DataNext ==
 \/ /\ sharing = "longs"
    /\ \E source, dest \in -1..(Size - 1), count \in -1..Size : CopyLongs(source, dest, count)
 \/ \E t \in Threads :
    \/ CreateLocalRef(t)
    \/ \E o \in Objects : DeleteLocalRef(t, o)
    \/ GetObjectField(t)
    \/ \E value \in Objects \cup {Null} :
         \/ SetObjectField(t, value)
         \/ SetObjectGlobalVar(t, value)
         \/ \E i \in Elements : SetObjectArrayElement(t, i, value)
    \/ SetObject(t)
    \/ Store(t)
    \/ /\ sharing = "elements" /\ at[t] = "idle"
       /\ \E source, dest \in -1..(Size - 1), count \in -1..Size : Copy(t, source, dest, count)
    \/ CopyElement(t)
    \/ CopyPut(t)
    \/ CopyEnds(t)
    \/ GetLongArrayElements(t)
    \/ \E i \in Elements : Write(t, i)
    \/ \E mode \in {"0", "VM_COMMIT", "VM_ABORT"} : ReleaseLongArrayElements(t, mode)

DataSpec == DataInit /\ [][DataNext]_dataVars

-------------------------------------------------------------------------------

Refs == Objects \cup {Null}

Args ==
  [cell : Cells, value : Refs, old : Refs, seen : Refs,
   source : 0..Size, left : 0..Size, count : 0..Size,
   goal : [Elements -> Refs] \cup {<<>>}, alone : BOOLEAN]

DataTypeOK ==
  /\ sharing \in {"fields", "elements", "longs", "ended"}
  /\ cells \in [Cells -> Refs]
  /\ counted \in [Objects -> Int]
  /\ locals \in [Threads -> [Objects -> 0..MaxLocals]]
  /\ at \in [Threads -> {"idle", "give", "set", "store", "copy", "put", "ended"}]
  /\ args \in [Threads -> Args]
  /\ tainted \subseteq Objects
  /\ longs \in [Elements -> Nat]
  /\ copies \in [Threads -> [held : BOOLEAN, data : [Elements -> Nat], written : [Elements -> Nat]]]
  /\ released \in [Elements -> Nat]
  /\ overlapped \in BOOLEAN

\* The threads that have logged an increment of an object they have yet to store, and
\* those that have logged the decrement of one that they have yet to replace.
Incremented(o) == { t \in Threads : at[t] = "put" /\ args[t].value = o }
Decremented(o) ==
  { t \in Threads :
      /\ at[t] \in {"store", "put"} /\ args[t].seen = o
      /\ ~ (at[t] = "store" /\ args[t].cell \in Elements /\ args[t].value = args[t].seen) }

\* The counts are exact between stores, whatever the threads do at once, for every
\* object but those of three unsafe operations: a store to a place where another thread
\* has stored since the first one looked, SetObjectArrayElement of the value that the
\* element has, and SetObjectGlobalVar.
CountsExactUnlessTainted ==
  sharing # "ended" =>
    \A o \in Objects \ tainted :
      counted[o] = CellsOf(cells, o) + Cardinality(LocalRefs(locals, o))
                     + Cardinality(Incremented(o)) - Cardinality(Decremented(o))

\* Arrays::copy within one array moves the elements as if at once, overlapping or not,
\* if no other thread stores to the array meanwhile.
CopiesAtOnce ==
  \A t \in Threads :
    at[t] = "copy" /\ args[t].left = 0 /\ args[t].alone =>
      \A i \in Elements : cells[i] = args[t].goal[i]

\* What native code writes to its copy of an array is in the array once it is released
\* but for VM_ABORT, and moves with the element, as long as the array is not copied or
\* moved while a copy is held.  If it is, the later release undoes what was written and
\* moved meanwhile, to other elements too: not claimed.
WritesKept ==
  sharing = "longs" /\ ~overlapped =>
    \A i \in Elements : longs[i] = released[i]

\* Objects and arrays that native threads read, store, copy and hold copies of at the same
\* time lose neither a reference nor an element.
SharedDataKept ==
  DataTypeOK /\ CountsExactUnlessTainted /\ CopiesAtOnce /\ WritesKept

===============================================================================
