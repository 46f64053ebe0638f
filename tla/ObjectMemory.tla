----------------------------- MODULE ObjectMemory -----------------------------
(***************************************************************************)
(* The bytes behind objects, arrays, strings and global variables, and     *)
(* what bytecode (the handlers of                                          *)
(* framework/src/bytecode/handlers/BaseHandler.cpp) and native code        *)
(* (framework/src/native_interface/ProvidedFunctions.cpp) read and write   *)
(* there: Object's accessors and the allocation of                         *)
(* framework/src/heap/Object.cpp, at the offsets of ClassLayout, and the   *)
(* union of GlobalVar.                                                     *)
(*                                                                         *)
(* A byte has Base values.  Memory is what follows the header of an object *)
(* or an array; an access beyond it hits what the allocator has put there, *)
(* and the behaviour ends.  References are pointers here: their counts are *)
(* in OperandFrame and NativeData.                                         *)
(***************************************************************************)
EXTENDS ClassLayout

CONSTANTS
  Base,          \* the values of a byte
  Declarations,  \* the types of the fields that a class may declare, in order
  Numbers,       \* the values that are stored
  Lengths,       \* the lengths asked for
  MaxAllocation, \* the largest number of bytes that the allocator has
  Texts,         \* the characters of strings
  MaxStores      \* bound on the stores

\* How many values n bytes have.
Values[n \in 0..8] == IF n = 0 THEN 1 ELSE Base * Values[n - 1]

\* What is stored is a slot's, and so are lengths.
ASSUME MemoryAssumption ==
  /\ Base \in Nat /\ Base > 1 /\ MaxAllocation \in Nat /\ MaxStores \in Nat
  /\ \A v \in Numbers \cup Lengths :
       v \in Int /\ -Values[8] <= 2 * v /\ 2 * v < Values[8]
  /\ Declarations \subseteq Seq(Types)
  /\ Texts \subseteq Seq(0 .. Base - 1)

VARIABLES
  fieldTypes, \* of the classes Base and Derived, in order, once there is an object
  subject,    \* what is worked on: its kind, its class or type, and its length
  memory,     \* its bytes, by offset
  stored,     \* history: what was last stored to each place of it
  stores,     \* how many stores there were
  fate        \* "running", "exited", "faulted", "overrun", "mistyped"

memoryVars == <<fieldTypes, subject, memory, stored, stores, fate>>

-------------------------------------------------------------------------------
(* Values as bytes, the lowest first.                                      *)

Bytes(v, n) == [k \in 1..n |-> (v \div Values[k - 1]) % Base]

Unsigned(bytes) ==
  LET sum[k \in 0..Len(bytes)] ==
        IF k = 0 THEN 0 ELSE sum[k - 1] + bytes[k] * Values[k - 1]
  IN  sum[Len(bytes)]

Signed(bytes) ==
  LET size == Values[Len(bytes)]
  IN  IF 2 * Unsigned(bytes) < size THEN Unsigned(bytes) ELSE Unsigned(bytes) - size

\* Pointers are unsigned, and so is Bool; char is signed.
Value(type, bytes) ==
  IF type \in {"REFERENCE", "HANDLE", "BOOL"} THEN Unsigned(bytes) ELSE Signed(bytes)

-------------------------------------------------------------------------------
(* Classes: Object, without fields; Base extends it, and Derived that.     *)
(* Fields of a class have one name and are told apart by their types.      *)

DeclaringClasses == {"Base", "Derived"}

SuperClass(class) ==
  CASE class = "Derived" -> "Base" [] class \in {"Base", "array"} -> "Object" [] OTHER -> "none"

\* isAssignableTo: the class or one of those it extends; an array class, linkArray's,
\* extends Object, and a primitive class, linkPrimitive's, extends none.
IsAssignableTo(class, other) ==
  other \in {class, SuperClass(class), SuperClass(SuperClass(class))} \ {"none"}

BaseLayout == LayOut(0, fieldTypes["Base"])
DerivedLayout == LayOut(BaseLayout.size, fieldTypes["Derived"])

LayoutOf(class) ==
  CASE class = "Base" -> BaseLayout
    [] class = "Derived" -> DerivedLayout
    [] OTHER -> [size |-> 0, at |-> <<>>]

\* getField: the class's own field of that descriptor, the first one; 0 if none.
GetField(class, type) ==
  SelectInSeq(fieldTypes[class], LAMBDA t : t = type)

HasField(class, type) == GetField(class, type) # 0

\* getMemoryOffset.
FieldAt(class, type) == LayoutOf(class).at[GetField(class, type)]

FieldsOf(class) ==
  { f \in DeclaringClasses \X Types :
      IsAssignableTo(class, f[1]) /\ HasField(f[1], f[2]) }

-------------------------------------------------------------------------------
(* Memory.                                                                 *)

\* CodeTypeToType, with T_HANDLE; T_MAX and beyond is no type.
CodeTypes == {"BYTE", "SHORT", "INT", "LONG", "CHAR", "FLOAT", "DOUBLE", "BOOL", "HANDLE"}

ArrayHeader == 24

None == [kind |-> "none", class |-> "none", length |-> 0]
Zeros(n) == [a \in 0 .. n - 1 |-> 0]
Zero(places) == [p \in places |-> 0]

NoFields == [class \in DeclaringClasses |-> <<>>]

MemoryInit ==
  /\ fieldTypes = NoFields
  /\ subject = None
  /\ memory = Zeros(0)
  /\ stored = Zero({})
  /\ stores = 0
  /\ fate = "running"

MemoryEnds(how) ==
  /\ fate' = how
  /\ subject' = None /\ memory' = Zeros(0) /\ stored' = Zero({}) /\ stores' = 0
  /\ fieldTypes' = NoFields

\* The bytes that an accessor of the type touches.
Touched(at, type) == at .. at + TypeSize(type) - 1

Inside(at, type) == Touched(at, type) \subseteq DOMAIN memory

Fetch(at, type) ==
  Value(type, [k \in 1 .. TypeSize(type) |-> memory[at + k - 1]])

\* Mutant of Put: a store is as wide as an operand.
PutWide(at, type, v) ==
  [a \in DOMAIN memory |->
     IF a \in Touched(at, "LONG") THEN Bytes(v, 8)[a - at + 1] ELSE memory[a]]

\* The memcpy of an accessor, from a value that was cast to the type.
Put(at, type, v) ==
  [a \in DOMAIN memory |->
     IF a \in Touched(at, type) THEN Bytes(v, TypeSize(type))[a - at + 1] ELSE memory[a]]

Start(what, bytes, places) ==
  /\ subject = None
  /\ subject' = what
  /\ memory' = bytes
  /\ stored' = Zero(places)
  /\ UNCHANGED <<fieldTypes, stores, fate>>

\* A store that the types allow: place is where it says it stores to.
Stores(place, at, type, v) ==
  /\ stores < MaxStores
  /\ IF ~Inside(at, type) THEN MemoryEnds("overrun")
     ELSE /\ memory' = Put(at, type, v)
          /\ stored' = [stored EXCEPT ![place] = v]
          /\ stores' = stores + 1
          /\ UNCHANGED <<fieldTypes, subject, fate>>

-------------------------------------------------------------------------------
(* Objects.                                                                *)

\* NEW and native AllocObject: zeroed memory of the getTotalSize of a class, whatever
\* fields it and the one it extends have been linked with.
AllocObject(class) ==
  /\ subject = None
  /\ fieldTypes' \in [DeclaringClasses -> Declarations]
  /\ subject' = [kind |-> "object", class |-> class, length |-> 0]
  /\ memory' = Zeros(LayoutOf(class)'.size)
  /\ stored' = Zero(FieldsOf(class)')
  /\ UNCHANGED <<stores, fate>>

\* GETFIELD and SETFIELD: null and an object that is no instance of the field's class
\* end the process, and floats are passed over.
SetField(class, type, v) ==
  /\ subject.kind = "object" /\ HasField(class, type) /\ type \notin {"FLOAT", "DOUBLE"}
  /\ IF ~IsAssignableTo(subject.class, class) THEN MemoryEnds("exited")
     ELSE Stores(<<class, type>>, FieldAt(class, type), type, v)

FieldRefused(class, type) ==
  /\ subject.kind = "object" /\ HasField(class, type)
  /\ ~IsAssignableTo(subject.class, class)
  /\ MemoryEnds("exited")

NullChecked == subject # None /\ MemoryEnds("exited")

\* getBool tells zero from the rest.
Truth(v) == IF v = 0 THEN 0 ELSE 1

\* A number that native code gives to Set<T>Field of the context, or to the C function:
\* the parameter is of the type.
Given(type, v) == Value(type, Bytes(v, TypeSize(type)))

\* Set<T>GlobalVar of the C++ context: that of a Bool is a bool.
GivenToGlobal(type, v) == IF type = "BOOL" THEN Truth(v) ELSE Given(type, v)

\* SetTField: nothing is checked, and floats end the process.
SetTField(class, type, v) ==
  /\ subject.kind = "object" /\ HasField(class, type)
  /\ IF type \in {"FLOAT", "DOUBLE"} THEN MemoryEnds("exited")
     ELSE IF <<class, type>> \in DOMAIN stored
     THEN Stores(<<class, type>>, FieldAt(class, type), type, v)
     ELSE MemoryEnds(IF Inside(FieldAt(class, type), type) THEN "mistyped" ELSE "overrun")

\* What GETFIELD pushes and GetTField returns.
FieldRead(class, type) ==
  LET v == Fetch(FieldAt(class, type), type)
  IN  IF type = "BOOL" THEN Truth(v) ELSE v

-------------------------------------------------------------------------------
(* Arrays.                                                                 *)

\* sizeof(Array) + size of the elements, in a u64.
ArrayBytes(type, length) == (ArrayHeader + TypeSize(type) * length) % Values[8]

Array(type, length) == [kind |-> "array", class |-> type, length |-> length]

\* AllocPrimitiveArray, AllocArray: without the memory the header does not fit either.
AllocArray(type, length) ==
  LET bytes == ArrayBytes(type, length)
  IN  /\ bytes <= MaxAllocation
      /\ IF bytes < ArrayHeader THEN subject = None /\ MemoryEnds("overrun")
         ELSE Start(Array(type, length), Zeros(bytes - ArrayHeader), 0 .. length - 1)

\* NEWARRAY, RNEWARRAY: an allocation that fails gives null.  No handle array can be
\* made, and no array of another number of type.
NewArray(type, length) ==
  CASE type \in (CodeTypes \ {"HANDLE"}) \cup {"REFERENCE"} ->
         \/ AllocArray(type, length)
         \/ /\ ArrayBytes(type, length) > MaxAllocation /\ subject = None
            /\ UNCHANGED memoryVars
    [] OTHER -> subject = None /\ MemoryEnds("exited")

\* NewTArray: the same, but null has no local reference.
NewTArray(type, length) ==
  /\ type \in CodeTypes
  /\ IF ArrayBytes(type, length) > MaxAllocation /\ type # "HANDLE"
     THEN subject = None /\ MemoryEnds("faulted")
     ELSE NewArray(type, length)

\* The types of the load and store instructions; a Bool has those of Byte.
AccessTypes == {"BYTE", "CHAR", "SHORT", "INT", "LONG", "HANDLE", "REFERENCE"}

Suits(type, element) == type = element \/ (type = "BYTE" /\ element = "BOOL")

ElementAt(type, i) == TypeSize(type) * i

InBounds(i) == i >= 0 /\ i < subject.length

\* BALOAD to RASTORE: the reference must be to an array and the index below its length.
\* Whether the elements are of the instruction's type is not checked.
ArrayStore(type, i, v) ==
  /\ subject # None
  /\ CASE subject.kind # "array" \/ ~InBounds(i) -> MemoryEnds("exited")
       [] subject.kind = "array" /\ InBounds(i) /\ Suits(type, subject.class) ->
            Stores(i, ElementAt(type, i), type, v)
       [] OTHER ->
            MemoryEnds(IF Inside(ElementAt(type, i), type) THEN "mistyped" ELSE "overrun")

\* GetTArrayElements and ReleaseTArrayElements: native code changes one element of a copy
\* of them all, and the copy is put back.
ReleaseChanged(i, v) ==
  /\ subject.kind = "array" /\ InBounds(i)
  /\ Stores(i, ElementAt(subject.class, i), subject.class, v)

ElementRead(type, i) == Fetch(ElementAt(type, i), type)

-------------------------------------------------------------------------------
(* Strings: an object with a reference to an array of characters.          *)

\* NewString, CreateString: memcpy of length characters.
NewString(text) ==
  /\ subject = None
  /\ subject' = [kind |-> "string", class |-> "CHAR", length |-> Len(text)]
  /\ memory' = [a \in 0 .. Len(text) - 1 |-> text[a + 1]]
  /\ stored' = [i \in 0 .. Len(text) - 1 |-> text[i + 1]]
  /\ UNCHANGED <<fieldTypes, stores, fate>>

\* GetStringChars and GetStringLength: a copy of as many characters as there are.
GetStringChars == [i \in 0 .. subject.length - 1 |-> memory[i]]

-------------------------------------------------------------------------------
(* Global variables: eight bytes, of which a union's member is assigned.   *)

NewGlobal(type) ==
  Start([kind |-> "global", class |-> type, length |-> 0], Zeros(8), {0})

\* JValue(T): the member's bytes are v's, the others are those the constructor found.
ValueBytes(type, v, found) ==
  [a \in 0 .. 7 |-> IF a < TypeSize(type) THEN Bytes(v, TypeSize(type))[a + 1] ELSE found]

\* SETGLOBAL and SetTGlobalVar; bytecode passes over floats, and sets no member for a
\* reference (OperandFrame).
SetGlobal(v, found) ==
  /\ subject.kind = "global" /\ stores < MaxStores
  /\ memory' = ValueBytes(subject.class, v, found)
  /\ stored' = [stored EXCEPT ![0] = v]
  /\ stores' = stores + 1
  /\ UNCHANGED <<fieldTypes, subject, fate>>

\* GETGLOBAL and GetTGlobalVar read the member.
GlobalRead == Fetch(0, subject.class)

-------------------------------------------------------------------------------

MemoryNext ==
  /\ fate = "running"
  /\ \/ \E class \in DeclaringClasses : AllocObject(class)
     \/ \E class \in DeclaringClasses, type \in Types :
          \/ FieldRefused(class, type)
          \/ \E v \in Numbers :
               SetField(class, type, v) \/ SetTField(class, type, Given(type, v))
     \/ NullChecked
     \/ \E type \in CodeTypes \cup {"REFERENCE", "none"}, length \in Lengths :
          NewArray(type, length) \/ NewTArray(type, length)
     \/ \E type \in AccessTypes, i \in Lengths, v \in Numbers : ArrayStore(type, i, v)
     \/ \E i \in Lengths, v \in Numbers : ReleaseChanged(i, v)
     \/ \E text \in Texts : NewString(text)
     \/ \E type \in Types : NewGlobal(type)
     \/ \E v \in Numbers, found \in {0, Base - 1} :
          SetGlobal(v, found) \/ SetGlobal(GivenToGlobal(subject.class, v), found)

MemorySpec == MemoryInit /\ [][MemoryNext]_memoryVars

-------------------------------------------------------------------------------

\* v as a value of the type, by arithmetic: the one of as many bytes that is equal to it
\* modulo their number of values, from the range of the type.
Cut(type, v) ==
  LET size == Values[TypeSize(type)]
  IN  IF type \in {"REFERENCE", "HANDLE", "BOOL"} THEN v % size
      ELSE ((v + size \div 2) % size) - size \div 2

\* The number of bytes does not wrap.
Countable(type, length) == ArrayHeader + TypeSize(type) * length < Values[8]

\* Every field of an object, inherited or not, every element of an array and every
\* global gives whoever reads it the value that was last stored to it, by whomever, cut to
\* its type, whatever was stored to its neighbours; and a string its characters.  A Bool
\* is cut to a byte: stored 256, it is false.  Excepted are arrays whose number of bytes
\* is no u64: they have less memory than elements.
ReadsWhatWasStored ==
  CASE subject.kind = "object" ->
         \A f \in DOMAIN stored :
           LET kept == Cut(f[2], stored[f])
           IN  /\ Inside(FieldAt(f[1], f[2]), f[2])
               /\ FieldRead(f[1], f[2]) = IF f[2] = "BOOL" THEN Truth(kept) ELSE kept
    [] subject.kind = "array" ->
         Countable(subject.class, subject.length) =>
         \A i \in 0 .. subject.length - 1 :
           /\ Inside(ElementAt(subject.class, i), subject.class)
           /\ ElementRead(subject.class, i) = Cut(subject.class, stored[i])
    [] subject.kind = "global" -> GlobalRead = Cut(subject.class, stored[0])
    [] subject.kind = "string" -> GetStringChars = stored
    [] OTHER -> TRUE

===============================================================================
