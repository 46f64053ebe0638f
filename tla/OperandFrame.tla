------------------------------ MODULE OperandFrame ------------------------------
(***************************************************************************)
(* The references that one function's frame holds: the operand stack and   *)
(* the locals of Stack::Frame (framework/src/Stack.cpp) under every        *)
(* instruction of framework/src/bytecode/handlers/BaseHandler.cpp, and the *)
(* cells of the heap that the function reads and writes: a global          *)
(* variable, a field and an array element.                                 *)
(*                                                                         *)
(* A slot has a type and a value; a pop lowers the top and leaves both     *)
(* where they were.  Numbers and handles carry no value here.  Nothing     *)
(* checks the bytecode before it runs: an instruction that finds the wrong *)
(* type, or no room, ends the process.  A call is one step of the caller;  *)
(* what the callee's frame does with its own references is another frame's *)
(* business.                                                               *)
(***************************************************************************)
EXTENDS Integers, FiniteSets, Sequences

CONSTANTS
  Objects,    \* the objects the function may get hold of
  Null,       \* the null reference
  Garbage,    \* what a global holds after a constructor that set nothing
  StackSize,  \* mStackSize
  LocalCount, \* mLocalCount
  Arguments,  \* the argument types of the functions called
  Results,    \* what they leave on the caller's stack: nothing or one slot
  MaxCells,   \* bound on the cells that hold something
  MaxCount,   \* bound on the references to all objects
  MaxStranded \* bound on those of them that are stranded

ASSUME SizesAssumption ==
  /\ IsFiniteSet(Objects)
  /\ Null \notin Objects
  /\ Garbage \notin Objects \cup {Null}
  /\ StackSize \in Nat /\ LocalCount \in Nat /\ MaxCount \in Nat
  /\ MaxStranded \in Nat /\ MaxCells \in Nat
  /\ Arguments \subseteq Seq({"LONG", "HANDLE", "REFERENCE"})

VARIABLES
  stack,     \* mStack with mStackTypes, popped slots included
  top,       \* mStackTop
  locals,    \* mLocals with mLocalTypes
  cells,     \* the reference in each cell
  logged,    \* for each object, the increments less the decrements logged
  stranded,  \* those of them that no slot and no cell answers for any more
  returned,  \* what the caller received
  state      \* "run", "left", "exited", "faulted", "undefined"

vars == <<stack, top, locals, cells, logged, stranded, returned, state>>

References == Objects \cup {Null}
Cells == {"GLOBAL", "FIELD", "ELEMENT"}

Long == [type |-> "LONG", value |-> Null]
Handle == [type |-> "HANDLE", value |-> Null]
Untyped == [type |-> "OTHER", value |-> Null]   \* a type byte that names no type
Ref(o) == [type |-> "REFERENCE", value |-> o]
Slots == {Long, Handle, Untyped} \cup { Ref(o) : o \in References }

ASSUME ResultsAssumption == Results \subseteq Seq(Slots)

IsRef(slot) == slot.type = "REFERENCE"

\* The frame's memory is zeroed, and zero is the type LONG.
Zeroed(n) == [i \in 1..n |-> Long]

Init ==
  /\ stack = Zeroed(StackSize)
  /\ top = 0
  /\ locals = Zeroed(LocalCount)
  /\ cells = [c \in Cells |-> Null]
  /\ logged = [o \in Objects |-> 0]
  /\ stranded = [o \in Objects |-> 0]
  /\ returned = <<>>
  /\ state = "run"

-------------------------------------------------------------------------------
(* What the instructions are made of.                                      *)

\* The process is gone, and what it held with it.  ThrowStackOverflow,
\* ThrowStackUnderflow, ThrowTypeMismatch and a failed null or bounds check call
\* std::exit.  Fault: a mutation of the null object is logged, or it is used.
Ends(how) ==
  /\ state' = how
  /\ stack' = Zeroed(StackSize) /\ top' = 0 /\ locals' = Zeroed(LocalCount)
  /\ cells' = [c \in Cells |-> Null] /\ returned' = <<>>
  /\ logged' = [o \in Objects |-> 0] /\ stranded' = [o \in Objects |-> 0]

Exit == Ends("exited")
Fault == Ends("faulted")
Undefined == Ends("undefined")

Operand(i) == stack[top + 1 - i]
Top == Operand(1)

\* The pops of the types, the last pushed first, find them.
CanPop(types) ==
  /\ top >= Len(types)
  /\ \A i \in 1..Len(types) : Operand(i).type = types[i]

Held(o, slots) == Cardinality({ i \in DOMAIN slots : slots[i] = Ref(o) })

Popped(n) == SubSeq(stack, top - n + 1, top)

\* The slots with others written above n of them.
Above(n, pushed) ==
  [i \in 1..StackSize |->
     IF i \in (n + 1)..(n + Len(pushed)) THEN pushed[i - n] ELSE stack[i]]

\* One reference more, or fewer, for what a slot holds.
Plus(slot, n) ==
  [o \in Objects |-> logged[o] + (IF slot = Ref(o) THEN n ELSE 0)]

\* The sum of the counts.
Total(counts) == Cardinality(UNION { {o} \X (1..counts[o]) : o \in Objects })

\* The bounds: no instruction takes the counts over them.
Bounded ==
  /\ Total(logged') <= MaxCount
  /\ Total(stranded') <= MaxStranded
  /\ Cardinality({ c \in Cells : cells'[c] # Null }) <= MaxCells

\* An instruction pops n slots, an object into an ObjectRef that drops the stack's
\* reference when the instruction ends, and pushes others, an object with a
\* reference of its own.
Replace(n, pushed) ==
  IF top - n + Len(pushed) > StackSize THEN Exit
  ELSE /\ stack' = Above(top - n, pushed)
       /\ top' = top - n + Len(pushed)
       /\ logged' = [o \in Objects |-> logged[o] - Held(o, Popped(n)) + Held(o, pushed)]
       /\ UNCHANGED <<locals, cells, stranded, returned, state>>
       /\ Bounded

PopPush(types, pushed) ==
  IF CanPop(types) THEN Replace(Len(types), pushed) ELSE Exit

\* An instruction that pops a reference and checks it: null, no array, an index
\* out of bounds and an object of another class all end the process.
Checked(types, pushed) ==
  \/ Exit
  \/ /\ CanPop(types)
     /\ Operand(Len(types)) # Ref(Null)
     /\ Replace(Len(types), pushed)

-------------------------------------------------------------------------------
(* Numbers, handles, comparisons.                                          *)

\* The constants and BPush..LPush; HConstNull, RConstNull.
Constant == \E slot \in {Long, Handle, Ref(Null)} : PopPush(<<>>, <<slot>>)

\* Ldc: a string object, the same each time, or a handle; a name adds nothing.
Ldc ==
  \/ \E o \in Objects : PopPush(<<>>, <<Ref(o)>>)
  \/ PopPush(<<>>, <<Handle>>)
  \/ PopPush(<<>>, <<>>)

\* Add, Sub, Mul, And, Or, Xor, Shl, Shr.
Binary == PopPush(<<"LONG", "LONG">>, <<Long>>)

\* Div, Rem: by zero, the processor faults.
Divide == Binary \/ (CanPop(<<"LONG", "LONG">>) /\ Fault)

\* Not, Neg.
Unary == PopPush(<<"LONG">>, <<Long>>)

\* L2B, L2S, L2I.
Convert == PopPush(<<"LONG">>, <<Long>>)

\* Cmp, HCmp, RCmp.
Compare ==
  \E type \in {"LONG", "HANDLE", "REFERENCE"} : PopPush(<<type, type>>, <<Long>>)

\* JmpCmpEq..JmpRCmpNe, and the jumps on one value: the branch is no concern of
\* the frame.
JumpOnTwo ==
  \E type \in {"LONG", "HANDLE", "REFERENCE"} : PopPush(<<type, type>>, <<>>)

JumpOnOne ==
  \E type \in {"LONG", "HANDLE", "REFERENCE"} : PopPush(<<type>>, <<>>)

-------------------------------------------------------------------------------
(* The stack.                                                              *)

\* popGeneric.
Pop == IF top < 1 THEN Exit ELSE Replace(1, <<>>)

\* dup, dup2: a null reference is duplicated without a test.
Dup ==
  IF top < 1 THEN Exit
  ELSE IF Top = Ref(Null) /\ top < StackSize THEN Fault
  ELSE Replace(0, <<Top>>)

Dup2 ==
  IF top < 2 THEN Exit
  ELSE IF Ref(Null) \in {Operand(1), Operand(2)} /\ top + 2 <= StackSize THEN Fault
  ELSE Replace(0, <<Operand(2), Top>>)

\* The type byte dupx1 gives a slot: the low byte of its value.  That of an object
\* is a multiple of eight and so the type LONG or none; a number's is any.
LowBytes(slot) ==
  CASE slot = Ref(Null) -> {Long}
    [] IsRef(slot) -> {Long, Untyped}
    [] OTHER -> {Long, Handle, Untyped}

\* The low byte of a number may say REFERENCE.
NumberTakenForReference(slot) == ~IsRef(slot) /\ Undefined

\* dupx1 shifts the two slots below the top one too many, types the slots it
\* writes by their values, and writes below the stack if there are only two.
DupX1 ==
  IF top < 2 \/ top + 1 > StackSize THEN Exit
  ELSE IF top = 2 THEN Undefined
  ELSE \/ \E i \in 1..3 : NumberTakenForReference(Operand(i))
       \/ \E a \in LowBytes(Operand(1)), b \in LowBytes(Operand(2)),
             c \in LowBytes(Operand(3)) :
            LET shifted == <<a, c, Operand(1), b>>
            IN  /\ stack' = Above(top - 3, shifted)
                /\ top' = top + 1
                /\ stranded' = [o \in Objects |->
                                  stranded[o] + Held(o, Popped(3)) - Held(o, shifted)]
                /\ UNCHANGED <<locals, cells, logged, returned, state>>
                /\ Bounded

\* dupx2 checks, and does nothing.
DupX2 == IF top < 3 \/ top + 1 > StackSize THEN Exit ELSE UNCHANGED vars

Swap ==
  IF top < 2 THEN Exit
  ELSE /\ stack' = [stack EXCEPT ![top] = stack[top - 1], ![top - 1] = Top]
       /\ UNCHANGED <<top, locals, cells, logged, stranded, returned, state>>

-------------------------------------------------------------------------------
(* The locals.                                                             *)

\* Load, HLoad, RLoad, RLoad0: the local keeps its reference.
Load(i, type) ==
  IF locals[i].type = type THEN PopPush(<<>>, <<locals[i]>>) ELSE Exit

\* incLocal.
Inc(i) == IF locals[i].type = "LONG" THEN UNCHANGED vars ELSE Exit

\* Store, HStore, RStore: setLocal removes the old reference without a test for
\* null; setLocalObject adds a reference, and the ObjectRef that was popped drops
\* the stack's.
Store(i, type) ==
  IF ~CanPop(<<type>>) THEN Exit
  ELSE IF locals[i] = Ref(Null) THEN Fault
  ELSE /\ locals' = [locals EXCEPT ![i] = Top]
       /\ logged' = Plus(locals[i], -1)
       /\ top' = top - 1
       /\ UNCHANGED <<stack, cells, stranded, returned, state>>

-------------------------------------------------------------------------------
(* Objects, arrays, fields, globals.                                       *)

\* New: the ObjectRef has the count the object is born with, and drops it once the
\* stack has its own.  An allocation that fails pushes null.
New == \E o \in Objects \cup {Null} : PopPush(<<>>, <<Ref(o)>>)

\* NewArray, RNewArray.
NewArray == \E o \in Objects \cup {Null} : PopPush(<<"LONG">>, <<Ref(o)>>)

\* ArrayLength, IsInstance.
Inspect == Checked(<<"REFERENCE">>, <<Long>>)

\* BALoad..HALoad and BAStore..HAStore.
ArrayLoad ==
  \E slot \in {Long, Handle} : Checked(<<"LONG", "REFERENCE">>, <<slot>>)

ArrayStore ==
  \E type \in {"LONG", "HANDLE"} : Checked(<<type, "LONG", "REFERENCE">>, <<>>)

\* RALoad.
RALoad == Checked(<<"LONG", "REFERENCE">>, <<Ref(cells["ELEMENT"])>>)

\* n operands are popped and the cell gets contents: value has one reference more,
\* which nothing holds if it is also kept, and dropped has one fewer.
WriteCell(c, n, contents, value, kept, dropped) ==
  /\ cells' = [cells EXCEPT ![c] = contents]
  /\ top' = top - n
  /\ logged' = [o \in Objects |->
                  logged[o] - Held(o, Popped(n)) + (IF o = value THEN 1 ELSE 0)
                            - (IF o = dropped THEN 1 ELSE 0)]
  /\ stranded' = [o \in Objects |-> stranded[o] + (IF o = kept THEN 1 ELSE 0)]
  /\ UNCHANGED <<stack, locals, returned, state>>
  /\ Bounded

Write(c, n, value, kept, dropped) == WriteCell(c, n, value, value, kept, dropped)

\* The value's reference is counted, and the cell does not get it.
Lose(c, n, value, dropped) == WriteCell(c, n, Garbage, value, value, dropped)

\* RAStore: the element that is overwritten keeps its reference, and a null one
\* gets one.
RAStore ==
  LET types == <<"REFERENCE", "LONG", "REFERENCE">>
  IN  \/ Exit
      \/ /\ CanPop(types) /\ Operand(3) # Ref(Null)
         /\ IF Top = Ref(Null) THEN Fault
            ELSE Write("ELEMENT", 3, Top.value, cells["ELEMENT"], Null)

\* GetField, SetField.  A field of type FLOAT or DOUBLE pushes nothing; setting one
\* pops nothing.
GetField ==
  \/ \E slot \in {Long, Handle} : Checked(<<"REFERENCE">>, <<slot>>)
  \/ Checked(<<"REFERENCE">>, <<>>)
  \/ Checked(<<"REFERENCE">>, <<Ref(cells["FIELD"])>>)

SetField ==
  \/ \E type \in {"LONG", "HANDLE"} : Checked(<<type, "REFERENCE">>, <<>>)
  \/ UNCHANGED vars
  \/ /\ CanPop(<<"REFERENCE", "REFERENCE">>)
     /\ Operand(2) # Ref(Null)
     /\ Write("FIELD", 2, Top.value, Null, cells["FIELD"])

\* GetGlobal, SetGlobal: the same without an object.
GetGlobal ==
  \/ \E slot \in {Long, Handle} : PopPush(<<>>, <<slot>>)
  \/ UNCHANGED vars
  \/ cells["GLOBAL"] # Garbage /\ PopPush(<<>>, <<Ref(cells["GLOBAL"])>>)
  \/ cells["GLOBAL"] = Garbage /\ Undefined

\* JValue has a constructor for every type, but it sets nothing for an ObjectRef:
\* the build may leave the object there, or something else.
SetTo(value, dropped) ==
  \/ Write("GLOBAL", 1, value, Null, dropped)
  \/ Lose("GLOBAL", 1, value, dropped)

\* Mutant of SetGlobal: the reference of the old value is not removed.
SetGlobalKeeping ==
  \/ \E type \in {"LONG", "HANDLE"} : PopPush(<<type>>, <<>>)
  \/ UNCHANGED vars
  \/ /\ cells["GLOBAL"] # Garbage
     /\ IF CanPop(<<"REFERENCE">>) THEN SetTo(Top.value, Null) ELSE Exit
  \/ cells["GLOBAL"] = Garbage /\ Undefined

SetGlobal ==
  \/ \E type \in {"LONG", "HANDLE"} : PopPush(<<type>>, <<>>)
  \/ UNCHANGED vars
  \/ /\ cells["GLOBAL"] # Garbage
     /\ IF CanPop(<<"REFERENCE">>) THEN SetTo(Top.value, cells["GLOBAL"]) ELSE Exit
  \/ cells["GLOBAL"] = Garbage /\ Undefined

-------------------------------------------------------------------------------
(* Calls.                                                                  *)

\* Function::call of a bytecode function: the arguments are popped into the
\* callee's locals, which have references of their own; the callee's return pushes
\* its result.  An async function takes nothing from the stack.
Call ==
  \/ UNCHANGED vars
  \/ \E types \in Arguments, result \in Results : PopPush(types, result)

\* A native function's argument keeps the stack's reference: CreateLocalReference
\* adds one that the local frame drops, the ObjectRef is told to drop none.
CallNative ==
  \E types \in Arguments, result \in Results :
    LET n == Len(types)
    IN  IF ~CanPop(types) \/ top - n + Len(result) > StackSize THEN Exit
        ELSE IF \E i \in 1..n : Operand(i) = Ref(Null) THEN Fault
        ELSE /\ stack' = Above(top - n, result)
             /\ top' = top - n + Len(result)
             /\ logged' = [o \in Objects |-> logged[o] + Held(o, result)]
             /\ stranded' = [o \in Objects |-> stranded[o] + Held(o, Popped(n))]
             /\ UNCHANGED <<locals, cells, returned, state>>
             /\ Bounded

\* CallVirtual: extractThis takes the first argument's slot for an object, whatever
\* its type and wherever it is; then as Call.
CallVirtual ==
  \E types \in Arguments, result \in Results :
    LET n == Len(types)
    IN  IF n = 0 \/ top < n THEN Undefined
        ELSE IF ~IsRef(Operand(n)) THEN Undefined
        ELSE IF Operand(n) = Ref(Null) THEN Fault
        ELSE Exit \/ PopPush(types, result)

-------------------------------------------------------------------------------
(* The end of the frame.                                                   *)

\* Mutant of Destroyed: the destructor stops at the top.
DestroyedBelowTop(o) == logged[o] - Held(o, SubSeq(stack, 1, top)) - Held(o, locals)

\* The destructor drops what every slot of type REFERENCE holds, the popped ones
\* too.
Destroyed(o) == logged[o] - Held(o, stack) - Held(o, locals)

\* Return, LReturn, HReturn, RReturn.  The result is popped into an ObjectRef or a
\* variable, the frame is destroyed and the result is pushed to the caller's frame;
\* then the ObjectRef drops its reference.  Without a caller's frame only an object
\* is kept, by a reference added without a test for null.
Leave(types, results) ==
  IF ~CanPop(types) THEN Exit
  ELSE /\ state' = "left"
       /\ top' = top - Len(types)
       /\ logged' = [o \in Objects |-> Destroyed(o)]
       /\ returned' = results
       /\ UNCHANGED <<stack, locals, cells, stranded>>

Return == Leave(<<>>, <<>>)

LReturn == \E type \in {"LONG", "HANDLE"} : Leave(<<type>>, <<>>)

RReturn ==
  \/ Leave(<<"REFERENCE">>, <<Top>>)
  \/ CanPop(<<"REFERENCE">>) /\ Top = Ref(Null) /\ Fault

-------------------------------------------------------------------------------

Numbers == Constant \/ Ldc \/ Binary \/ Divide \/ Unary \/ Convert \/ Compare
           \/ JumpOnTwo \/ JumpOnOne

Slotwork ==
  \/ Pop
  \/ Dup
  \/ Dup2
  \/ DupX1
  \/ DupX2
  \/ Swap
  \/ \E i \in 1..LocalCount, type \in {"LONG", "HANDLE", "REFERENCE"} :
       Load(i, type) \/ Store(i, type)
  \/ \E i \in 1..LocalCount : Inc(i)

Heapwork ==
  \/ New
  \/ NewArray
  \/ Inspect
  \/ ArrayLoad
  \/ ArrayStore
  \/ RALoad
  \/ RAStore
  \/ GetField
  \/ SetField
  \/ GetGlobal
  \/ SetGlobal

Control == Call \/ CallNative \/ CallVirtual \/ Return \/ LReturn \/ RReturn

Next == state = "run" /\ (Numbers \/ Slotwork \/ Heapwork \/ Control)

Spec == Init /\ [][Next]_vars

-------------------------------------------------------------------------------

\* The type invariant.
TypeOK ==
  /\ stack \in [1..StackSize -> Slots]
  /\ top \in 0..StackSize
  /\ locals \in [1..LocalCount -> Slots]
  /\ cells \in [Cells -> References \cup {Garbage}]
  /\ \A c \in Cells \ {"GLOBAL"} : cells[c] # Garbage
  /\ logged \in [Objects -> Int]
  /\ stranded \in [Objects -> Nat]
  /\ returned \in Seq(Slots)
  /\ state \in {"run", "left", "exited", "faulted", "undefined"}

CellHeld(o) == Cardinality({ c \in Cells : cells[c] = o })

\* While the function runs, an object is counted once for every operand, every
\* local and every cell that holds it, whatever popped slots say, and beyond that
\* only for the references that an overwritten array element, a native call's
\* argument, DupX1 or a global that was not set has stranded.
HeldCounted ==
  state = "run" =>
    \A o \in Objects :
      logged[o] = Held(o, SubSeq(stack, 1, top)) + Held(o, locals)
                  + CellHeld(o) + stranded[o]

\* When the frame is gone, an object is counted for the result, for the cell and
\* for what was stranded, less one for every popped slot that still says it holds
\* the object: the destructor removes the reference of a popped slot a second time.
GoneAccounted ==
  state = "left" =>
    \A o \in Objects :
      logged[o] = Held(o, returned) + CellHeld(o) + stranded[o]
                  - Held(o, SubSeq(stack, top + 1, StackSize))

\* Whatever instructions run in whatever order, the slots stay slots of the frame and
\* the counts follow what they hold.
FrameSound == TypeOK /\ HeldCounted

===============================================================================
