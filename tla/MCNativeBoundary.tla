--------------------------- MODULE MCNativeBoundary ---------------------------
(* What crosses the boundary between the VM and native code: the calls of  *)
(* ArgumentPassing, the data of NativeData, or the bytes of ObjectMemory.  *)
(* In a behaviour one of the three runs, the others having ended.          *)
EXTENDS ArgumentPassing, NativeData, ObjectMemory, TLC

Letters == {"(", ")", "[", "R", ";", "V", "Z", "L"}
Following == {";"}
Halves == [bool |-> 2, byte |-> 2, char |-> 2, short |-> 4, int |-> 4, long |-> 8]
PassedValues == {-5, 0, 2}
NativeNames == { <<"a">>, <<"a", "_">>, <<"_", "1">>, <<"1">>, <<"a", ":", "2">> }

FieldLists == {<<>>, <<"BYTE", "REFERENCE">>, <<"LONG", "SHORT">>, <<"INT", "CHAR">>, <<"BOOL">>}
Numbered == {-1, 0, 5, 300}
AskedLengths == {-4, -3, -1, 0, 2, 8192}
Strings == {<<>>, <<1, 2>>}

Symmetry == Permutations(Threads) \cup Permutations(Objects)

NoCalls ==
  /\ text = <<"L">>
  /\ function = Refused
  /\ symbol = [path |-> <<>>, name |-> <<>>]
  /\ call = NoCall
  /\ phase = "stopped"

NoData ==
  /\ sharing = "ended"
  /\ cells = [c \in Cells |-> Null]
  /\ counted = [o \in Objects |-> 0]
  /\ locals = [t \in Threads |-> [o \in Objects |-> 0]]
  /\ at = [t \in Threads |-> "ended"]
  /\ args = [t \in Threads |-> NoArgs]
  /\ tainted = {}
  /\ longs = [i \in Elements |-> 0]
  /\ copies = [t \in Threads |-> NoCopy]
  /\ released = [i \in Elements |-> 0]
  /\ overlapped = FALSE

NoMemory ==
  /\ fieldTypes = NoFields
  /\ subject = None
  /\ memory = Zeros(0)
  /\ stored = Zero({})
  /\ stores = 0
  /\ fate = "exited"

BoundaryInit ==
  \/ PassingInit /\ NoData /\ NoMemory
  \/ NoCalls /\ DataInit /\ NoMemory
  \/ NoCalls /\ NoData /\ MemoryInit

BoundarySpec ==
  /\ BoundaryInit
  /\ [][\/ PassingNext /\ UNCHANGED <<dataVars, memoryVars>>
        \/ DataNext /\ UNCHANGED <<passingVars, memoryVars>>
        \/ MemoryNext /\ UNCHANGED <<passingVars, dataVars>>
     ]_<<passingVars, dataVars, memoryVars>>

===============================================================================
