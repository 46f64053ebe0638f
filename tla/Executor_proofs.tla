---------------------------- MODULE Executor_proofs ----------------------------
(***************************************************************************)
(* TLAPS proofs about what the executor runs on and what it runs:          *)
(* OperandFrame, for any objects, sizes, bounds and functions called       *)
(* (IInv), and InsnList, for any bytes, labels, locals, increments and     *)
(* counts that are numbers of the code's widths (CodeInv).                 *)
(***************************************************************************)
EXTENDS OperandFrame, InsnList, FunctionTheorems, FiniteSetTheorems,
        SequenceTheorems, WellFoundedInduction, TLAPS

(*************************** The frame: OperandFrame ***********************)

(* How many of the slots from a to b hold o. *)
HeldIn(o, s, a, b) == Cardinality({ i \in a..b : s[i] = Ref(o) })

(* 1 if the slot holds o. *)
One(o, slot) == IF slot = Ref(o) THEN 1 ELSE 0

(* 1 if the two are the same. *)
Same(o, p) == IF o = p THEN 1 ELSE 0

-------------------------------------------------------------------------------
(* Slots.                                                                  *)

(* The kinds of slots differ, and references to different objects do. *)
LEMMA SlotKinds ==
  /\ Long \in Slots /\ Handle \in Slots /\ Untyped \in Slots
  /\ \A o \in References : Ref(o) \in Slots
  /\ \A o, p : Ref(o) = Ref(p) => o = p
  /\ \A o : Ref(o) # Long /\ Ref(o) # Handle /\ Ref(o) # Untyped
<1>1. /\ Long \in Slots /\ Handle \in Slots /\ Untyped \in Slots
      /\ \A o \in References : Ref(o) \in Slots
  BY DEF Slots
<1>2. \A o, p : Ref(o) = Ref(p) => o = p
  <2> SUFFICES ASSUME NEW o, NEW p, Ref(o) = Ref(p) PROVE o = p
    OBVIOUS
  <2>1. Ref(o).value = o /\ Ref(p).value = p
    BY DEF Ref
  <2>2. QED
    BY <2>1
<1>3. \A o : Ref(o) # Long /\ Ref(o) # Handle /\ Ref(o) # Untyped
  <2> SUFFICES ASSUME NEW o PROVE Ref(o) # Long /\ Ref(o) # Handle /\ Ref(o) # Untyped
    OBVIOUS
  <2>1. Ref(o).type = "REFERENCE" /\ Long.type = "LONG" /\ Handle.type = "HANDLE"
        /\ Untyped.type = "OTHER"
    BY DEF Ref, Long, Handle, Untyped
  <2>2. QED
    BY <2>1
<1>4. QED
  BY <1>1, <1>2, <1>3

(* An operand of type REFERENCE is a reference. *)
LEMMA ReferenceSlot ==
  ASSUME NEW slot \in Slots, slot.type = "REFERENCE"
  PROVE  \E o \in References : slot = Ref(o)
BY DEF Slots, Long, Handle, Untyped

-------------------------------------------------------------------------------
(* Counting.                                                               *)

(* The count is a natural number. *)
LEMMA HeldInType ==
  ASSUME NEW o, NEW s, NEW a \in Int, NEW b \in Int
  PROVE  /\ IsFiniteSet({ i \in a..b : s[i] = Ref(o) })
         /\ HeldIn(o, s, a, b) \in Nat
<1>1. IsFiniteSet(a..b)
  BY FS_Interval
<1>2. { i \in a..b : s[i] = Ref(o) } \in SUBSET (a..b)
  OBVIOUS
<1>3. IsFiniteSet({ i \in a..b : s[i] = Ref(o) })
  BY <1>1, <1>2, FS_Subset
<1>4. QED
  BY <1>3, FS_CardinalityType DEF HeldIn

(* An interval may be cut anywhere. *)
LEMMA HeldInCut ==
  ASSUME NEW o, NEW s, NEW a \in Int, NEW c \in Int, NEW b \in Int, a - 1 <= c, c <= b
  PROVE  HeldIn(o, s, a, b) = HeldIn(o, s, a, c) + HeldIn(o, s, c + 1, b)
<1> DEFINE A == { i \in a..c : s[i] = Ref(o) }
           B == { i \in (c + 1)..b : s[i] = Ref(o) }
<1>1. IsFiniteSet(A) /\ IsFiniteSet(B)
  <2>1. c + 1 \in Int
    OBVIOUS
  <2>2. IsFiniteSet(A)
    BY HeldInType
  <2>3. IsFiniteSet(B)
    BY <2>1, HeldInType
  <2>4. QED
    BY <2>2, <2>3
<1>2. A \cup B = { i \in a..b : s[i] = Ref(o) }
  OBVIOUS
<1>3. A \cap B = {}
  OBVIOUS
<1>4. Cardinality(A \cup B) = Cardinality(A) + Cardinality(B)
  <2>1. Cardinality(A) \in Nat /\ Cardinality(B) \in Nat
    BY <1>1, FS_CardinalityType
  <2>2. Cardinality(A \cap B) = 0
    BY <1>3, FS_EmptySet
  <2> HIDE DEF A, B
  <2>3. Cardinality(A \cup B) = Cardinality(A) + Cardinality(B) - Cardinality(A \cap B)
    BY <1>1, FS_Union
  <2>4. QED
    BY <2>1, <2>2, <2>3
<1>5. QED
  BY <1>2, <1>4 DEF HeldIn

(* No slot. *)
LEMMA HeldInNone ==
  ASSUME NEW o, NEW s, NEW a \in Int, NEW b \in Int, b < a
  PROVE  HeldIn(o, s, a, b) = 0
<1>1. { i \in a..b : s[i] = Ref(o) } = {}
  OBVIOUS
<1>2. QED
  BY <1>1, FS_EmptySet DEF HeldIn

(* One slot. *)
LEMMA HeldInOne ==
  ASSUME NEW o, NEW s, NEW a \in Int
  PROVE  HeldIn(o, s, a, a) = One(o, s[a])
<1>1. CASE s[a] = Ref(o)
  <2>1. { i \in a..a : s[i] = Ref(o) } = {a}
    BY <1>1
  <2>2. QED
    BY <2>1, <1>1, FS_Singleton DEF HeldIn, One
<1>2. CASE s[a] # Ref(o)
  <2>1. { i \in a..a : s[i] = Ref(o) } = {}
    BY <1>2
  <2>2. QED
    BY <2>1, <1>2, FS_EmptySet DEF HeldIn, One
<1>3. QED
  BY <1>1, <1>2

(* Slots that are the same hold the same. *)
LEMMA HeldInSame ==
  ASSUME NEW o, NEW s, NEW t, NEW a \in Int, NEW b \in Int,
         \A i \in a..b : s[i] = t[i]
  PROVE  HeldIn(o, s, a, b) = HeldIn(o, t, a, b)
<1>1. { i \in a..b : s[i] = Ref(o) } = { i \in a..b : t[i] = Ref(o) }
  OBVIOUS
<1>2. QED
  BY <1>1 DEF HeldIn

(* The slots of a sequence. *)
LEMMA HeldIsHeldIn ==
  ASSUME NEW o, NEW s, NEW n \in Int, DOMAIN s = 1..n
  PROVE  Held(o, s) = HeldIn(o, s, 1, n)
BY DEF Held, HeldIn

(* A part of a sequence. *)
LEMMA HeldSubSeq ==
  ASSUME NEW o, NEW s \in Seq(Slots), NEW a \in 1..(Len(s) + 1), NEW b \in (a - 1)..Len(s)
  PROVE  Held(o, SubSeq(s, a, b)) = HeldIn(o, s, a, b)
<1> DEFINE t == SubSeq(s, a, b)
           d == a - 1
           e == b - a + 1
           A == { i \in 1..e : t[i] = Ref(o) }
           B == { i \in a..b : s[i] = Ref(o) }
           f == [i \in A |-> i + d]
<1>1. /\ t \in Seq(Slots) /\ Len(t) = e
      /\ \A i \in 1..e : t[i] = s[i + d]
  <2>1. \A i \in a..b : s[i] \in Slots
    OBVIOUS
  <2>2. /\ t \in Seq(Slots) /\ Len(t) = e
        /\ \A i \in 1..e : t[i] = s[a + i - 1]
    BY <2>1, SubSeqProperties
  <2> HIDE DEF t
  <2>3. QED
    BY <2>2
<1> HIDE DEF t
<1>2. IsFiniteSet(A) /\ IsFiniteSet(B)
  <2>1. 1 \in Int /\ e \in Int /\ a \in Int /\ b \in Int
    OBVIOUS
  <2> HIDE DEF e
  <2>2. QED
    BY <2>1, HeldInType, Zenon
<1>3. f \in [A -> B]
  BY <1>1
<1>4. f \in Bijection(A, B)
  <2>1. \A i, j \in A : f[i] = f[j] => i = j
    OBVIOUS
  <2>2. \A j \in B : j - d \in A /\ f[j - d] = j
    <3> SUFFICES ASSUME NEW j \in B PROVE j - d \in A /\ f[j - d] = j
      OBVIOUS
    <3>1. j - d \in 1..e /\ (j - d) + d = j
      OBVIOUS
    <3>2. t[j - d] = s[j]
      BY <1>1, <3>1
    <3>3. QED
      BY <3>1, <3>2
  <2> HIDE DEF f, A
  <2>3. QED
    BY <1>3, <2>1, <2>2, Fun_IsBij
<1>5. ExistsBijection(A, B)
  BY <1>4 DEF ExistsBijection
<1>6. Held(o, t) = Cardinality(A)
  <2>1. DOMAIN t = 1..e
    BY <1>1
  <2>2. QED
    BY <2>1 DEF Held
<1> HIDE DEF A, B, f
<1>7. Cardinality(A) = Cardinality(B)
  BY <1>2, <1>5, FS_Bijection
<1>8. QED
  BY <1>6, <1>7 DEF HeldIn, B, t

(* One slot of a function on 1..n is written. *)
LEMMA HeldExcept ==
  ASSUME NEW o, NEW n \in Nat, NEW s \in [1..n -> Slots], NEW k \in 1..n, NEW slot \in Slots
  PROVE  HeldIn(o, [s EXCEPT ![k] = slot], 1, n)
           = HeldIn(o, s, 1, n) - One(o, s[k]) + One(o, slot)
<1> DEFINE t == [s EXCEPT ![k] = slot]
<1>1. /\ HeldIn(o, s, 1, n) = HeldIn(o, s, 1, k - 1) + HeldIn(o, s, k, n)
      /\ HeldIn(o, s, k, n) = HeldIn(o, s, k, k) + HeldIn(o, s, k + 1, n)
      /\ HeldIn(o, t, 1, n) = HeldIn(o, t, 1, k - 1) + HeldIn(o, t, k, n)
      /\ HeldIn(o, t, k, n) = HeldIn(o, t, k, k) + HeldIn(o, t, k + 1, n)
  <2>1. k - 1 + 1 = k
    OBVIOUS
  <2> HIDE DEF t
  <2>2. QED
    BY <2>1, HeldInCut
<1>2. HeldIn(o, s, k, k) = One(o, s[k]) /\ HeldIn(o, t, k, k) = One(o, slot)
  <2>1. t[k] = slot
    OBVIOUS
  <2> HIDE DEF t
  <2>2. QED
    BY <2>1, HeldInOne
<1>3. HeldIn(o, s, 1, k - 1) = HeldIn(o, t, 1, k - 1)
  <2>1. \A i \in 1..(k - 1) : s[i] = t[i]
    OBVIOUS
  <2> HIDE DEF t
  <2>2. QED
    BY <2>1, HeldInSame
<1>4. HeldIn(o, s, k + 1, n) = HeldIn(o, t, k + 1, n)
  <2>1. \A i \in (k + 1)..n : s[i] = t[i]
    OBVIOUS
  <2> HIDE DEF t
  <2>2. QED
    BY <2>1, HeldInSame
<1>5. /\ HeldIn(o, s, 1, k - 1) \in Nat /\ HeldIn(o, s, k + 1, n) \in Nat
      /\ One(o, s[k]) \in Nat /\ One(o, slot) \in Nat
  <2> DEFINE c == k - 1
             d == k + 1
  <2>1. 1 \in Int /\ n \in Int /\ c \in Int /\ d \in Int
    OBVIOUS
  <2> HIDE DEF c, d
  <2>2. HeldIn(o, s, 1, c) \in Nat /\ HeldIn(o, s, d, n) \in Nat
    BY <2>1, HeldInType, Zenon
  <2>3. QED
    BY <2>2 DEF One, c, d
<1> HIDE DEF t
<1>6. QED
  BY <1>1, <1>2, <1>3, <1>4, <1>5 DEF t

(* The first slots of a stack, and all of them. *)
LEMMA HeldPrefix ==
  ASSUME NEW o, NEW n \in Nat, NEW s \in [1..n -> Slots], NEW k \in 0..n
  PROVE  /\ s \in Seq(Slots) /\ Len(s) = n
         /\ Held(o, SubSeq(s, 1, k)) = HeldIn(o, s, 1, k)
         /\ Held(o, SubSeq(s, k + 1, n)) = HeldIn(o, s, k + 1, n)
         /\ Held(o, s) = HeldIn(o, s, 1, n)
<1>1. s \in Seq(Slots) /\ Len(s) = n
  OBVIOUS
<1>2. 1 \in 1..(Len(s) + 1) /\ k \in (1 - 1)..Len(s) /\ k + 1 \in 1..(Len(s) + 1)
      /\ n \in (k + 1 - 1)..Len(s)
  BY <1>1
<1>3. Held(o, SubSeq(s, 1, k)) = HeldIn(o, s, 1, k)
  BY <1>1, <1>2, HeldSubSeq
<1>4. Held(o, SubSeq(s, k + 1, n)) = HeldIn(o, s, k + 1, n)
  BY <1>1, <1>2, HeldSubSeq
<1>5. Held(o, s) = HeldIn(o, s, 1, n)
  BY HeldIsHeldIn
<1>6. QED
  BY <1>1, <1>3, <1>4, <1>5

(* What a short sequence of slots holds. *)
LEMMA HeldShort ==
  ASSUME NEW o
  PROVE  /\ Held(o, <<>>) = 0
         /\ \A x \in Slots : Held(o, <<x>>) = One(o, x)
         /\ \A x, y \in Slots : Held(o, <<x, y>>) = One(o, x) + One(o, y)
<1>1. Held(o, <<>>) = 0
  <2>1. { i \in DOMAIN <<>> : <<>>[i] = Ref(o) } = {}
    OBVIOUS
  <2>2. QED
    BY <2>1, FS_EmptySet DEF Held
<1>2. ASSUME NEW x \in Slots PROVE Held(o, <<x>>) = One(o, x)
  <2> DEFINE s == <<x>>
  <2>1. DOMAIN s = 1..1 /\ s[1] = x /\ 1 \in Int
    OBVIOUS
  <2> HIDE DEF s
  <2>2. Held(o, s) = HeldIn(o, s, 1, 1)
    BY <2>1, HeldIsHeldIn, Zenon
  <2>3. QED
    BY <2>1, <2>2, HeldInOne DEF s
<1>3. ASSUME NEW x \in Slots, NEW y \in Slots PROVE Held(o, <<x, y>>) = One(o, x) + One(o, y)
  <2> DEFINE s == <<x, y>>
  <2>1. DOMAIN s = 1..2 /\ s[1] = x /\ s[2] = y /\ 2 \in Int
    OBVIOUS
  <2> HIDE DEF s
  <2>2. Held(o, s) = HeldIn(o, s, 1, 2)
    BY <2>1, HeldIsHeldIn, Zenon
  <2>3. HeldIn(o, s, 1, 2) = HeldIn(o, s, 1, 1) + HeldIn(o, s, 1 + 1, 2)
    BY HeldInCut
  <2>4. HeldIn(o, s, 1, 1) = One(o, x) /\ HeldIn(o, s, 2, 2) = One(o, y)
    BY <2>1, HeldInOne
  <2>5. QED
    BY <2>2, <2>3, <2>4 DEF s
<1>4. QED
  BY <1>1, <1>2, <1>3

-------------------------------------------------------------------------------
(* The invariant, and the balance it speaks of in terms of HeldIn.         *)

IInv == TypeOK /\ HeldCounted /\ GoneAccounted

Balanced ==
  \A o \in Objects :
    logged[o] = HeldIn(o, stack, 1, top) + HeldIn(o, locals, 1, LocalCount)
                + CellHeld(o) + stranded[o]

(* While the function runs, the balance is what the invariant says. *)
LEMMA BalancedNow ==
  ASSUME IInv, state = "run"
  PROVE  Balanced
<1> SUFFICES ASSUME NEW o \in Objects
             PROVE  logged[o] = HeldIn(o, stack, 1, top) + HeldIn(o, locals, 1, LocalCount)
                                + CellHeld(o) + stranded[o]
  BY DEF Balanced
<1>1. /\ stack \in [1..StackSize -> Slots] /\ top \in 0..StackSize
      /\ locals \in [1..LocalCount -> Slots]
      /\ StackSize \in Nat
  BY SizesAssumption DEF IInv, TypeOK
<1>2. Held(o, SubSeq(stack, 1, top)) = HeldIn(o, stack, 1, top)
  BY <1>1, HeldPrefix, Zenon
<1>3. Held(o, locals) = HeldIn(o, locals, 1, LocalCount)
  BY <1>1, HeldIsHeldIn, SizesAssumption
<1>4. QED
  BY <1>2, <1>3 DEF IInv, HeldCounted

(* A step after which the function still runs keeps the invariant if it keeps the
   balance. *)
LEMMA BalancedThen ==
  ASSUME TypeOK', Balanced', state' = "run"
  PROVE  IInv'
<1>1. /\ stack' \in [1..StackSize -> Slots] /\ top' \in 0..StackSize
      /\ locals' \in [1..LocalCount -> Slots]
      /\ StackSize \in Nat
  BY SizesAssumption DEF TypeOK
<1>2. ASSUME NEW o \in Objects
      PROVE  /\ Held(o, SubSeq(stack', 1, top')) = HeldIn(o, stack', 1, top')
             /\ Held(o, locals') = HeldIn(o, locals', 1, LocalCount)
  <2>1. Held(o, SubSeq(stack', 1, top')) = HeldIn(o, stack', 1, top')
    BY <1>1, HeldPrefix, Zenon
  <2>2. Held(o, locals') = HeldIn(o, locals', 1, LocalCount)
    BY <1>1, HeldIsHeldIn, SizesAssumption
  <2>3. QED
    BY <2>1, <2>2
<1>3. HeldCounted'
  BY <1>2 DEF HeldCounted, Balanced
<1>4. GoneAccounted'
  BY DEF GoneAccounted
<1>5. QED
  BY <1>3, <1>4 DEF IInv

(* There are three cells. *)
LEMMA CellsFinite == IsFiniteSet(Cells)
<1>1. Cells = {"GLOBAL"} \cup {"FIELD"} \cup {"ELEMENT"}
  BY DEF Cells
<1>2. QED
  BY <1>1, FS_Singleton, FS_Union

(* The counts are numbers. *)
LEMMA CountsAreNumbers ==
  ASSUME IInv, NEW o \in Objects
  PROVE  /\ logged[o] \in Int /\ stranded[o] \in Nat /\ CellHeld(o) \in Nat
         /\ HeldIn(o, locals, 1, LocalCount) \in Nat
<1>1. HeldIn(o, locals, 1, LocalCount) \in Nat
  <2>1. 1 \in Int /\ LocalCount \in Int
    BY SizesAssumption
  <2>2. QED
    BY <2>1, HeldInType
<1>2. CellHeld(o) \in Nat
  <2>1. IsFiniteSet(Cells)
    BY CellsFinite
  <2>2. { c \in Cells : cells[c] = o } \in SUBSET Cells
    OBVIOUS
  <2>3. QED
    BY <2>1, <2>2, FS_Subset, FS_CardinalityType DEF CellHeld
<1>3. QED
  BY <1>1, <1>2 DEF IInv, TypeOK

-------------------------------------------------------------------------------
(* What instructions are made of.                                          *)

(* The facts about the state that the steps need. *)
LEMMA StateFacts ==
  ASSUME IInv
  PROVE  /\ StackSize \in Nat /\ LocalCount \in Nat
         /\ stack \in [1..StackSize -> Slots] /\ top \in 0..StackSize
         /\ locals \in [1..LocalCount -> Slots]
         /\ stack \in Seq(Slots) /\ Len(stack) = StackSize
         /\ \A i \in 1..top : Operand(i) \in Slots
<1>1. /\ StackSize \in Nat /\ LocalCount \in Nat
      /\ stack \in [1..StackSize -> Slots] /\ top \in 0..StackSize
      /\ locals \in [1..LocalCount -> Slots]
  BY SizesAssumption DEF IInv, TypeOK
<1>2. stack \in Seq(Slots) /\ Len(stack) = StackSize
  BY <1>1
<1>3. \A i \in 1..top : Operand(i) \in Slots
  BY <1>1 DEF Operand
<1>4. QED
  BY <1>1, <1>2, <1>3

(* The process ends. *)
LEMMA EndsStep ==
  ASSUME IInv, NEW how \in {"exited", "faulted", "undefined"}, Ends(how)
  PROVE  IInv'
<1>1. Zeroed(StackSize) \in [1..StackSize -> Slots] /\ Zeroed(LocalCount) \in [1..LocalCount -> Slots]
  BY SlotKinds DEF Zeroed
<1>2. TypeOK'
  <2>1. <<>> \in Seq(Slots) /\ 0 \in 0..StackSize
    BY SizesAssumption
  <2>2. QED
    BY <1>1, <2>1, SizesAssumption DEF Ends, TypeOK, References
<1>3. state' # "run" /\ state' # "left"
  BY DEF Ends
<1>4. QED
  BY <1>2, <1>3 DEF IInv, HeldCounted, GoneAccounted

(* What is popped is what the upper slots hold. *)
LEMMA PoppedHeld ==
  ASSUME IInv, NEW n \in 0..top, NEW o
  PROVE  /\ Popped(n) \in Seq(Slots) /\ Len(Popped(n)) = n
         /\ Held(o, Popped(n)) \in Nat
         /\ HeldIn(o, stack, 1, top - n) \in Nat
         /\ HeldIn(o, stack, 1, top) = HeldIn(o, stack, 1, top - n) + Held(o, Popped(n))
<1> DEFINE a == top - n + 1
<1>1. /\ a \in 1..(Len(stack) + 1) /\ top \in (a - 1)..Len(stack)
      /\ stack \in Seq(Slots) /\ a \in Int /\ top \in Int
  BY StateFacts
<1>2. \A i \in a..top : stack[i] \in Slots
  BY <1>1, StateFacts
<1>3. Popped(n) \in Seq(Slots) /\ Len(Popped(n)) = n
  <2>1. /\ SubSeq(stack, a, top) \in Seq(Slots)
        /\ Len(SubSeq(stack, a, top)) = IF a <= top THEN top - a + 1 ELSE 0
    BY <1>1, <1>2, SubSeqProperties
  <2>2. QED
    BY <2>1, StateFacts DEF Popped
<1>4. Held(o, Popped(n)) = HeldIn(o, stack, a, top)
  <2> HIDE DEF a
  <2>1. Held(o, SubSeq(stack, a, top)) = HeldIn(o, stack, a, top)
    BY <1>1, HeldSubSeq, Zenon
  <2>2. QED
    BY <2>1 DEF Popped, a
<1>5. HeldIn(o, stack, 1, top) = HeldIn(o, stack, 1, top - n) + HeldIn(o, stack, top - n + 1, top)
  <2>1. top - n \in Int /\ 1 - 1 <= top - n /\ top - n <= top
    BY StateFacts
  <2>2. QED
    BY <1>1, <2>1, HeldInCut
<1>6. HeldIn(o, stack, a, top) \in Nat
  <2> HIDE DEF a
  <2>1. QED
    BY <1>1, HeldInType
<1>7. HeldIn(o, stack, 1, top - n) \in Nat
  <2> DEFINE b == top - n
  <2>1. b \in Int /\ 1 \in Int
    BY StateFacts
  <2> HIDE DEF b
  <2>2. HeldIn(o, stack, 1, b) \in Nat
    BY <2>1, HeldInType, Zenon
  <2>3. QED
    BY <2>2 DEF b
<1>8. QED
  BY <1>3, <1>4, <1>5, <1>6, <1>7

(* What is pushed above n slots is held beside what they hold. *)
LEMMA AboveHeld ==
  ASSUME IInv, NEW n \in Nat, NEW pushed \in Seq(Slots), n + Len(pushed) <= StackSize, NEW o
  PROVE  /\ Above(n, pushed) \in [1..StackSize -> Slots]
         /\ Held(o, pushed) \in Nat
         /\ HeldIn(o, Above(n, pushed), 1, n + Len(pushed))
              = HeldIn(o, stack, 1, n) + Held(o, pushed)
<1> DEFINE t == Above(n, pushed)
           l == Len(pushed)
           m == n + l
           a == n + 1
<1>0. l \in Nat /\ m \in 0..StackSize /\ a \in 1..(StackSize + 1) /\ StackSize \in Nat
  BY StateFacts
<1>1. t \in [1..StackSize -> Slots]
  <2>1. ASSUME NEW i \in (n + 1)..(n + Len(pushed)) PROVE pushed[i - n] \in Slots
    <3>1. i - n \in 1..Len(pushed)
      BY <1>0
    <3>2. QED
      BY <3>1
  <2>2. QED
    BY <2>1, StateFacts DEF Above
<1>2. \A i \in 1..n : t[i] = stack[i]
  BY <1>0 DEF Above
<1>3. \A i \in 1..l : t[n + i] = pushed[i]
  <2> SUFFICES ASSUME NEW i \in 1..l PROVE t[n + i] = pushed[i]
    OBVIOUS
  <2>1. n + i \in (n + 1)..(n + Len(pushed)) /\ n + i \in 1..StackSize /\ (n + i) - n = i
    BY <1>0
  <2>2. QED
    BY <2>1 DEF Above
<1> HIDE DEF t
<1>4. t \in Seq(Slots) /\ Len(t) = StackSize
  BY <1>0, <1>1
<1>5. SubSeq(t, a, m) = pushed
  <2>1. \A i \in a..m : t[i] \in Slots
    BY <1>0, <1>1
  <2>2. /\ SubSeq(t, a, m) \in Seq(Slots) /\ Len(SubSeq(t, a, m)) = l
        /\ \A i \in 1..l : SubSeq(t, a, m)[i] = t[a + i - 1]
    BY <1>0, <2>1, SubSeqProperties
  <2>3. \A i \in 1..l : SubSeq(t, a, m)[i] = pushed[i]
    <3> SUFFICES ASSUME NEW i \in 1..l PROVE SubSeq(t, a, m)[i] = pushed[i]
      OBVIOUS
    <3>1. a + i - 1 = n + i
      OBVIOUS
    <3>2. QED
      BY <1>3, <2>2, <3>1
  <2> DEFINE u == SubSeq(t, a, m)
  <2>4. u \in Seq(Slots) /\ Len(u) = Len(pushed) /\ \A i \in 1..Len(u) : u[i] = pushed[i]
    BY <2>2, <2>3
  <2> HIDE DEF u
  <2>5. u = pushed
    BY <2>4, SeqEqual
  <2>6. QED
    BY <2>5 DEF u
<1>6. HeldIn(o, t, a, m) = Held(o, pushed)
  <2>1. a \in 1..(Len(t) + 1) /\ m \in (a - 1)..Len(t)
    BY <1>0, <1>4
  <2> HIDE DEF a, m
  <2>2. Held(o, SubSeq(t, a, m)) = HeldIn(o, t, a, m)
    BY <1>4, <2>1, HeldSubSeq, Zenon
  <2>3. QED
    BY <1>5, <2>2
<1>7. HeldIn(o, t, 1, m) = HeldIn(o, t, 1, n) + HeldIn(o, t, n + 1, m)
  <2>1. n \in Int /\ m \in Int /\ 1 - 1 <= n /\ n <= m
    BY <1>0
  <2> HIDE DEF m
  <2>2. QED
    BY <2>1, HeldInCut
<1>8. HeldIn(o, t, 1, n) = HeldIn(o, stack, 1, n)
  BY <1>2, HeldInSame
<1>9. Held(o, pushed) \in Nat
  <2>1. a \in Int /\ m \in Int
    BY <1>0
  <2> HIDE DEF a, m
  <2>2. HeldIn(o, t, a, m) \in Nat
    BY <2>1, HeldInType
  <2>3. QED
    BY <1>6, <2>2
<1>10. QED
  BY <1>1, <1>6, <1>7, <1>8, <1>9 DEF t

(* What a cell holds is counted when it changes. *)
LEMMA CellWritten ==
  ASSUME IInv, NEW c \in Cells, NEW x \in References \cup {Garbage},
         cells' = [cells EXCEPT ![c] = x], NEW o \in Objects
  PROVE  /\ cells' \in [Cells -> References \cup {Garbage}]
         /\ Cardinality({ d \in Cells : cells'[d] = o })
              = CellHeld(o) - Same(o, cells[c]) + Same(o, x)
<1> DEFINE A == { d \in Cells : cells[d] = o }
           B == { d \in Cells : cells'[d] = o }
<1>1. cells \in [Cells -> References \cup {Garbage}]
  BY DEF IInv, TypeOK
<1>2. cells' \in [Cells -> References \cup {Garbage}]
  BY <1>1
<1>3. IsFiniteSet(A) /\ IsFiniteSet(B)
  <2>1. IsFiniteSet(Cells)
    BY CellsFinite
  <2>2. A \in SUBSET Cells /\ B \in SUBSET Cells
    OBVIOUS
  <2>3. QED
    BY <2>1, <2>2, FS_Subset
<1>4. B = IF o = x THEN A \cup {c} ELSE A \ {c}
  BY <1>1
<1>5. c \in A <=> o = cells[c]
  OBVIOUS
<1>6. CellHeld(o) = Cardinality(A)
  BY DEF CellHeld
<1>7. Cardinality(A) \in Nat
  BY <1>3, FS_CardinalityType
<1> HIDE DEF A, B
<1>8. CASE o = x
  <2>1. Cardinality(B) = IF c \in A THEN Cardinality(A) ELSE Cardinality(A) + 1
    BY <1>3, <1>4, <1>8, FS_AddElement
  <2>2. QED
    BY <1>2, <1>5, <1>6, <1>7, <1>8, <2>1 DEF B, Same
<1>9. CASE o # x
  <2>1. Cardinality(B) = IF c \in A THEN Cardinality(A) - 1 ELSE Cardinality(A)
    BY <1>3, <1>4, <1>9, FS_RemoveElement
  <2>2. QED
    BY <1>2, <1>5, <1>6, <1>7, <1>9, <2>1 DEF B, Same
<1>10. QED
  BY <1>8, <1>9

(* Slots are popped, and others pushed. *)
LEMMA ReplaceStep ==
  ASSUME IInv, state = "run", NEW n \in 0..top, NEW pushed \in Seq(Slots), Replace(n, pushed)
  PROVE  IInv'
<1> DEFINE m == top - n
           k == m + Len(pushed)
<1>1. CASE k > StackSize
  BY <1>1, EndsStep DEF Replace, Exit
<1>2. CASE ~(k > StackSize)
  <2>1. /\ stack' = Above(m, pushed) /\ top' = k
        /\ logged' = [o \in Objects |-> logged[o] - Held(o, Popped(n)) + Held(o, pushed)]
        /\ UNCHANGED <<locals, cells, stranded, returned, state>>
    BY <1>2 DEF Replace
  <2>2. m \in Nat /\ Len(pushed) \in Nat /\ k \in 0..StackSize /\ m + Len(pushed) <= StackSize
    BY <1>2, StateFacts
  <2>3. ASSUME NEW o
        PROVE  /\ stack' \in [1..StackSize -> Slots]
               /\ Held(o, pushed) \in Nat /\ Held(o, Popped(n)) \in Nat
               /\ HeldIn(o, stack, 1, m) \in Nat
               /\ HeldIn(o, stack', 1, top') = HeldIn(o, stack, 1, m) + Held(o, pushed)
               /\ HeldIn(o, stack, 1, top) = HeldIn(o, stack, 1, m) + Held(o, Popped(n))
    <3>1. /\ Held(o, Popped(n)) \in Nat /\ HeldIn(o, stack, 1, m) \in Nat
          /\ HeldIn(o, stack, 1, top) = HeldIn(o, stack, 1, m) + Held(o, Popped(n))
      BY PoppedHeld
    <3> HIDE DEF m
    <3>2. /\ Above(m, pushed) \in [1..StackSize -> Slots] /\ Held(o, pushed) \in Nat
          /\ HeldIn(o, Above(m, pushed), 1, k) = HeldIn(o, stack, 1, m) + Held(o, pushed)
      BY <2>2, AboveHeld
    <3>3. QED
      BY <2>1, <3>1, <3>2
  <2>4. TypeOK'
    <3>1. logged' \in [Objects -> Int]
      BY <2>1, <2>3 DEF IInv, TypeOK
    <3>2. stack' \in [1..StackSize -> Slots]
      BY <2>3
    <3>3. QED
      BY <2>1, <2>2, <3>1, <3>2 DEF IInv, TypeOK
  <2>5. Balanced'
    <3> SUFFICES ASSUME NEW o \in Objects
                 PROVE  logged'[o] = HeldIn(o, stack', 1, top') + HeldIn(o, locals', 1, LocalCount)
                                     + CellHeld(o)' + stranded'[o]
      BY DEF Balanced
    <3>1. logged[o] = HeldIn(o, stack, 1, top) + HeldIn(o, locals, 1, LocalCount)
                      + CellHeld(o) + stranded[o]
      BY BalancedNow DEF Balanced
    <3>2. CellHeld(o)' = CellHeld(o)
      BY <2>1 DEF CellHeld
    <3>3. logged'[o] = logged[o] - Held(o, Popped(n)) + Held(o, pushed)
      BY <2>1
    <3>4. HeldIn(o, locals', 1, LocalCount) = HeldIn(o, locals, 1, LocalCount)
          /\ stranded'[o] = stranded[o]
      BY <2>1
    <3> HIDE DEF m
    <3>5. /\ Held(o, pushed) \in Nat /\ Held(o, Popped(n)) \in Nat
          /\ HeldIn(o, stack, 1, m) \in Nat
          /\ HeldIn(o, stack', 1, top') = HeldIn(o, stack, 1, m) + Held(o, pushed)
          /\ HeldIn(o, stack, 1, top) = HeldIn(o, stack, 1, m) + Held(o, Popped(n))
      BY <2>3
    <3>6. logged[o] \in Int /\ stranded[o] \in Nat /\ CellHeld(o) \in Nat
          /\ HeldIn(o, locals, 1, LocalCount) \in Nat
      BY CountsAreNumbers
    <3>7. logged'[o] = HeldIn(o, stack, 1, m) + Held(o, pushed) + HeldIn(o, locals, 1, LocalCount)
                      + CellHeld(o) + stranded[o]
      BY <3>1, <3>3, <3>5, <3>6, SMTT(60)
    <3>8. logged'[o] = HeldIn(o, stack', 1, top') + HeldIn(o, locals, 1, LocalCount)
                      + CellHeld(o) + stranded[o]
      BY <3>7, <3>5
    <3>9. QED
      BY <3>2, <3>4, <3>8
  <2>6. QED
    BY <2>1, <2>4, <2>5, BalancedThen
<1>3. QED
  BY <1>1, <1>2

(* The types that are popped are those of that many operands. *)
LEMMA PopPushStep ==
  ASSUME IInv, state = "run", NEW types \in Seq({"LONG", "HANDLE", "REFERENCE"}),
         NEW pushed \in Seq(Slots), PopPush(types, pushed)
  PROVE  IInv'
<1>1. CASE CanPop(types)
  <2>1. Len(types) \in 0..top
    BY <1>1, StateFacts DEF CanPop
  <2>2. Replace(Len(types), pushed)
    BY <1>1 DEF PopPush
  <2>3. QED
    BY <2>1, <2>2, ReplaceStep
<1>2. CASE ~CanPop(types)
  BY <1>2, EndsStep DEF PopPush, Exit
<1>3. QED
  BY <1>1, <1>2

(* The same of an instruction that checks what it pops. *)
LEMMA CheckedStep ==
  ASSUME IInv, state = "run", NEW types \in Seq({"LONG", "HANDLE", "REFERENCE"}),
         NEW pushed \in Seq(Slots), Checked(types, pushed)
  PROVE  IInv'
<1>1. CASE Exit
  BY <1>1, EndsStep DEF Exit
<1>2. CASE CanPop(types) /\ Replace(Len(types), pushed)
  <2>1. Len(types) \in 0..top
    BY <1>2, StateFacts DEF CanPop
  <2>2. QED
    BY <1>2, <2>1, ReplaceStep
<1>3. QED
  BY <1>1, <1>2 DEF Checked

(* Nothing happens. *)
LEMMA StutterStep ==
  ASSUME IInv, UNCHANGED vars
  PROVE  IInv'
BY DEF IInv, TypeOK, HeldCounted, GoneAccounted, vars, Held, CellHeld

(* A cell is written, and its references are counted or stranded. *)
LEMMA WriteCellStep ==
  ASSUME IInv, state = "run", NEW c \in Cells, NEW n \in 0..top,
         NEW contents \in References \cup {Garbage}, contents = Garbage => c = "GLOBAL",
         NEW value, NEW kept, NEW dropped,
         \A o \in Objects :
           Same(o, value) - Same(o, dropped)
             = Same(o, contents) + Same(o, kept) - Same(o, cells[c]),
         WriteCell(c, n, contents, value, kept, dropped)
  PROVE  IInv'
<1>1. /\ cells' = [cells EXCEPT ![c] = contents] /\ top' = top - n
      /\ logged' = [o \in Objects |-> logged[o] - Held(o, Popped(n)) + Same(o, value) - Same(o, dropped)]
      /\ stranded' = [o \in Objects |-> stranded[o] + Same(o, kept)]
      /\ UNCHANGED <<stack, locals, returned, state>>
  BY DEF WriteCell, Same
<1>2. \A o \in Objects :
        Same(o, value) - Same(o, dropped) = Same(o, contents) + Same(o, kept) - Same(o, cells[c])
  OBVIOUS
<1>3. \A o, p : Same(o, p) \in Nat
  BY DEF Same
<1>4. ASSUME NEW o \in Objects
      PROVE  /\ CellHeld(o)' = CellHeld(o) - Same(o, cells[c]) + Same(o, contents)
             /\ Held(o, Popped(n)) \in Nat /\ HeldIn(o, stack, 1, top - n) \in Nat
             /\ HeldIn(o, stack, 1, top) = HeldIn(o, stack, 1, top - n) + Held(o, Popped(n))
             /\ logged[o] \in Int /\ stranded[o] \in Nat /\ CellHeld(o) \in Nat
             /\ HeldIn(o, locals, 1, LocalCount) \in Nat
  <2>1. CellHeld(o)' = CellHeld(o) - Same(o, cells[c]) + Same(o, contents)
    <3>1. cells' = [cells EXCEPT ![c] = contents]
      BY <1>1
    <3>2. Cardinality({ d \in Cells : cells'[d] = o })
            = CellHeld(o) - Same(o, cells[c]) + Same(o, contents)
      BY <3>1, CellWritten
    <3>3. CellHeld(o)' = Cardinality({ d \in Cells : cells'[d] = o })
      BY DEF CellHeld
    <3>4. QED
      BY <3>2, <3>3
  <2>2. /\ Held(o, Popped(n)) \in Nat /\ HeldIn(o, stack, 1, top - n) \in Nat
        /\ HeldIn(o, stack, 1, top) = HeldIn(o, stack, 1, top - n) + Held(o, Popped(n))
    BY PoppedHeld
  <2>3. QED
    BY <2>1, <2>2, CountsAreNumbers
<1>5. TypeOK'
  <2>1. cells' \in [Cells -> References \cup {Garbage}]
        /\ \A d \in Cells \ {"GLOBAL"} : cells'[d] # Garbage
    BY <1>1 DEF IInv, TypeOK
  <2>2. logged' \in [Objects -> Int] /\ stranded' \in [Objects -> Nat]
    BY <1>1, <1>3, <1>4
  <2>3. top' \in 0..StackSize
    BY <1>1, StateFacts
  <2>4. QED
    BY <1>1, <2>1, <2>2, <2>3 DEF IInv, TypeOK
<1>6. Balanced'
  <2> SUFFICES ASSUME NEW o \in Objects
               PROVE  logged'[o] = HeldIn(o, stack', 1, top') + HeldIn(o, locals', 1, LocalCount)
                                   + CellHeld(o)' + stranded'[o]
    BY DEF Balanced
  <2>1. logged[o] = HeldIn(o, stack, 1, top) + HeldIn(o, locals, 1, LocalCount)
                    + CellHeld(o) + stranded[o]
    BY BalancedNow DEF Balanced
  <2>2. /\ logged'[o] = logged[o] - Held(o, Popped(n)) + Same(o, value) - Same(o, dropped)
        /\ stranded'[o] = stranded[o] + Same(o, kept)
        /\ HeldIn(o, stack', 1, top') = HeldIn(o, stack, 1, top - n)
        /\ HeldIn(o, locals', 1, LocalCount) = HeldIn(o, locals, 1, LocalCount)
    BY <1>1
  <2>3. logged'[o] = logged[o] - Held(o, Popped(n))
                     + (Same(o, contents) + Same(o, kept) - Same(o, cells[c]))
    BY <1>2, <1>3, <1>4, <2>2
  <2>4. logged'[o] = HeldIn(o, stack, 1, top - n) + HeldIn(o, locals, 1, LocalCount)
                     + CellHeld(o) + stranded[o]
                     + (Same(o, contents) + Same(o, kept) - Same(o, cells[c]))
    BY <1>3, <1>4, <2>1, <2>3, SMTT(60)
  <2>5. logged'[o] = HeldIn(o, stack, 1, top - n) + HeldIn(o, locals, 1, LocalCount)
                     + CellHeld(o)' + stranded'[o]
    BY <1>3, <1>4, <2>2, <2>4, SMTT(60)
  <2>6. QED
    BY <2>2, <2>5
<1>7. QED
  BY <1>1, <1>5, <1>6, BalancedThen

(* What the operand on top holds. *)
LEMMA TopHeld ==
  ASSUME IInv, top >= 1, NEW o
  PROVE  /\ Held(o, Popped(1)) = One(o, Top)
         /\ HeldIn(o, stack, 1, top) = HeldIn(o, stack, 1, top - 1) + One(o, Top)
<1>1. top \in Int /\ top - 1 \in Int /\ 1 - 1 <= top - 1 /\ top - 1 <= top /\ top - 1 + 1 = top
      /\ 1 \in 0..top
  BY StateFacts
<1>2. HeldIn(o, stack, 1, top) = HeldIn(o, stack, 1, top - 1) + HeldIn(o, stack, top - 1 + 1, top)
  BY <1>1, HeldInCut
<1>3. HeldIn(o, stack, top, top) = One(o, stack[top])
  BY <1>1, HeldInOne
<1>4. Top = stack[top]
  BY <1>1 DEF Top, Operand
<1>5. /\ HeldIn(o, stack, 1, top) = HeldIn(o, stack, 1, top - 1) + Held(o, Popped(1))
      /\ Held(o, Popped(1)) \in Nat /\ HeldIn(o, stack, 1, top - 1) \in Nat
  BY <1>1, PoppedHeld
<1>6. One(o, Top) \in Nat
  BY DEF One
<1>7. HeldIn(o, stack, 1, top) = HeldIn(o, stack, 1, top - 1) + One(o, Top)
  BY <1>1, <1>2, <1>3, <1>4
<1>8. QED
  BY <1>5, <1>6, <1>7

(* The end of the frame: the caller has what was popped. *)
LEMMA LeaveStep ==
  ASSUME IInv, state = "run", NEW types \in Seq({"LONG", "HANDLE", "REFERENCE"}),
         NEW results,
         CanPop(types) =>
           /\ results \in Seq(Slots)
           /\ \A o \in Objects : Held(o, results) = Held(o, Popped(Len(types))),
         Leave(types, results)
  PROVE  IInv'
<1>1. CASE ~CanPop(types)
  BY <1>1, EndsStep DEF Leave, Exit
<1>2. CASE CanPop(types)
  <2> DEFINE n == Len(types)
             m == top - n
  <2>1. /\ state' = "left" /\ top' = m /\ returned' = results
        /\ logged' = [o \in Objects |-> Destroyed(o)]
        /\ UNCHANGED <<stack, locals, cells, stranded>>
    BY <1>2 DEF Leave
  <2>2. n \in 0..top /\ m \in 0..StackSize /\ m <= top
    BY <1>2, StateFacts DEF CanPop
  <2>3. ASSUME NEW o \in Objects
        PROVE  /\ Held(o, SubSeq(stack, m + 1, StackSize)) \in Nat
               /\ Destroyed(o) = Held(o, results) + CellHeld(o) + stranded[o]
                                 - Held(o, SubSeq(stack, m + 1, StackSize))
    <3>1. logged[o] = HeldIn(o, stack, 1, top) + HeldIn(o, locals, 1, LocalCount)
                      + CellHeld(o) + stranded[o]
      BY BalancedNow DEF Balanced
    <3>2. logged[o] \in Int /\ stranded[o] \in Nat /\ CellHeld(o) \in Nat
          /\ HeldIn(o, locals, 1, LocalCount) \in Nat
      BY CountsAreNumbers
    <3>3. /\ Held(o, results) \in Nat /\ HeldIn(o, stack, 1, m) \in Nat
          /\ HeldIn(o, stack, 1, top) = HeldIn(o, stack, 1, m) + Held(o, results)
      BY <1>2, <2>2, PoppedHeld
    <3> HIDE DEF m
    <3>4. /\ Held(o, SubSeq(stack, m + 1, StackSize)) = HeldIn(o, stack, m + 1, StackSize)
          /\ Held(o, stack) = HeldIn(o, stack, 1, StackSize)
      <4>1. /\ StackSize \in Nat /\ stack \in [1..StackSize -> Slots] /\ m \in 0..StackSize
        BY <2>2, StateFacts
      <4>2. Held(o, SubSeq(stack, m + 1, StackSize)) = HeldIn(o, stack, m + 1, StackSize)
        BY <4>1, HeldPrefix
      <4>3. Held(o, stack) = HeldIn(o, stack, 1, StackSize)
        BY <4>1, HeldPrefix, Zenon
      <4>4. QED
        BY <4>2, <4>3
    <3>5. Held(o, locals) = HeldIn(o, locals, 1, LocalCount)
      BY StateFacts, HeldIsHeldIn
    <3>6. HeldIn(o, stack, 1, StackSize) = HeldIn(o, stack, 1, m) + HeldIn(o, stack, m + 1, StackSize)
      <4>1. m \in Int /\ StackSize \in Int /\ 1 - 1 <= m /\ m <= StackSize
        BY <2>2, StateFacts
      <4>2. QED
        BY <4>1, HeldInCut
    <3>7. HeldIn(o, stack, m + 1, StackSize) \in Nat
      <4> DEFINE a == m + 1
      <4>1. a \in Int /\ StackSize \in Int
        BY <2>2, StateFacts
      <4> HIDE DEF a
      <4>2. HeldIn(o, stack, a, StackSize) \in Nat
        BY <4>1, HeldInType
      <4>3. QED
        BY <4>2 DEF a
    <3>8. Destroyed(o) = logged[o] - (HeldIn(o, stack, 1, m) + HeldIn(o, stack, m + 1, StackSize))
                         - HeldIn(o, locals, 1, LocalCount)
      BY <3>4, <3>5, <3>6 DEF Destroyed
    <3>9. logged[o] = HeldIn(o, stack, 1, m) + Held(o, results) + HeldIn(o, locals, 1, LocalCount)
                      + CellHeld(o) + stranded[o]
      BY <3>1, <3>3
    <3>10. Destroyed(o) = Held(o, results) + CellHeld(o) + stranded[o]
                          - HeldIn(o, stack, m + 1, StackSize)
      BY <3>2, <3>3, <3>7, <3>8, <3>9, SMTT(60)
    <3>11. QED
      BY <3>4, <3>7, <3>10
  <2>4. ASSUME NEW o \in Objects PROVE logged'[o] = Destroyed(o) /\ Destroyed(o) \in Int
    <3>1. Held(o, results) \in Nat /\ CellHeld(o) \in Nat /\ stranded[o] \in Nat
      BY <1>2, <2>2, PoppedHeld, CountsAreNumbers
    <3>2. QED
      BY <2>1, <2>3, <3>1
  <2>5. TypeOK'
    <3>1. logged' \in [Objects -> Int]
      BY <2>1, <2>4
    <3>2. QED
      BY <1>2, <2>1, <2>2, <3>1 DEF IInv, TypeOK
  <2>6. GoneAccounted'
    <3>1. \A o \in Objects : CellHeld(o)' = CellHeld(o)
      BY <2>1 DEF CellHeld
    <3>2. QED
      BY <2>1, <2>3, <2>4, <3>1 DEF GoneAccounted
  <2>7. HeldCounted'
    BY <2>1 DEF HeldCounted
  <2>8. QED
    BY <2>5, <2>6, <2>7 DEF IInv
<1>3. QED
  BY <1>1, <1>2

-------------------------------------------------------------------------------
(* The instructions.                                                       *)

(* The sequences that instructions name. *)
LEMMA ShortSequences ==
  /\ <<>> \in Seq({"LONG", "HANDLE", "REFERENCE"})
  /\ \A x \in {"LONG", "HANDLE", "REFERENCE"} :
       <<x>> \in Seq({"LONG", "HANDLE", "REFERENCE"}) /\ Len(<<x>>) = 1
  /\ \A x, y \in {"LONG", "HANDLE", "REFERENCE"} :
       <<x, y>> \in Seq({"LONG", "HANDLE", "REFERENCE"}) /\ Len(<<x, y>>) = 2
  /\ \A x, y, z \in {"LONG", "HANDLE", "REFERENCE"} :
       <<x, y, z>> \in Seq({"LONG", "HANDLE", "REFERENCE"}) /\ Len(<<x, y, z>>) = 3
  /\ <<>> \in Seq(Slots)
  /\ \A x \in Slots : <<x>> \in Seq(Slots)
  /\ \A x, y \in Slots : <<x, y>> \in Seq(Slots)
OBVIOUS

(* Numbers, handles, constants, comparisons and jumps. *)
LEMMA NumbersStep ==
  ASSUME IInv, state = "run", Numbers
  PROVE  IInv'
<1> Null \in References /\ \A o \in Objects : o \in References
  BY DEF References
<1>1. CASE Constant
  BY <1>1, SlotKinds, ShortSequences, PopPushStep DEF Constant
<1>2. CASE Ldc
  BY <1>2, SlotKinds, ShortSequences, PopPushStep DEF Ldc
<1>3. CASE Binary
  BY <1>3, SlotKinds, ShortSequences, PopPushStep DEF Binary
<1>4. CASE Divide
  BY <1>3, <1>4, EndsStep DEF Divide, Fault
<1>5. CASE Unary
  BY <1>5, SlotKinds, ShortSequences, PopPushStep DEF Unary
<1>6. CASE Convert
  BY <1>6, SlotKinds, ShortSequences, PopPushStep DEF Convert
<1>7. CASE Compare
  BY <1>7, SlotKinds, ShortSequences, PopPushStep DEF Compare
<1>8. CASE JumpOnTwo
  BY <1>8, ShortSequences, PopPushStep DEF JumpOnTwo
<1>9. CASE JumpOnOne
  BY <1>9, ShortSequences, PopPushStep DEF JumpOnOne
<1>10. QED
  BY <1>1, <1>2, <1>3, <1>4, <1>5, <1>6, <1>7, <1>8, <1>9 DEF Numbers

(* What dupx1 writes holds the top operand and nothing else. *)
LEMMA ShiftedHeld ==
  ASSUME NEW a \in {Long, Handle, Untyped}, NEW b \in {Long, Handle, Untyped},
         NEW c \in {Long, Handle, Untyped}, NEW x \in Slots, NEW o
  PROVE  /\ <<a, c, x, b>> \in Seq(Slots) /\ Len(<<a, c, x, b>>) = 4
         /\ Held(o, <<a, c, x, b>>) = One(o, x)
<1> DEFINE s == <<a, c, x, b>>
<1>1. s \in Seq(Slots) /\ Len(s) = 4 /\ DOMAIN s = 1..4
  BY SlotKinds
<1>2. s[1] = a /\ s[2] = c /\ s[3] = x /\ s[4] = b
  OBVIOUS
<1> HIDE DEF s
<1>3. s[1] # Ref(o) /\ s[2] # Ref(o) /\ s[4] # Ref(o)
  BY <1>2, SlotKinds
<1>4. CASE x = Ref(o)
  <2>1. { i \in DOMAIN s : s[i] = Ref(o) } = {3}
    BY <1>1, <1>2, <1>3, <1>4
  <2>2. QED
    BY <1>1, <1>4, <2>1, FS_Singleton DEF Held, One, s
<1>5. CASE x # Ref(o)
  <2>1. { i \in DOMAIN s : s[i] = Ref(o) } = {}
    BY <1>1, <1>2, <1>3, <1>5
  <2>2. QED
    BY <1>1, <1>5, <2>1, FS_EmptySet DEF Held, One, s
<1>6. QED
  BY <1>4, <1>5

(* dupx1 strands what it shifts away, and never the top operand. *)
LEMMA DupX1Step ==
  ASSUME IInv, state = "run", DupX1
  PROVE  IInv'
<1>1. CASE Exit
  BY <1>1, EndsStep DEF Exit
<1>2. CASE Undefined
  BY <1>2, EndsStep DEF Undefined
<1>3. ASSUME top >= 3, top + 1 <= StackSize,
             NEW a \in LowBytes(Operand(1)), NEW b \in LowBytes(Operand(2)),
             NEW c \in LowBytes(Operand(3)),
             stack' = Above(top - 3, <<a, c, Operand(1), b>>),
             top' = top + 1,
             stranded' = [o \in Objects |->
                            stranded[o] + Held(o, Popped(3)) - Held(o, <<a, c, Operand(1), b>>)],
             UNCHANGED <<locals, cells, logged, returned, state>>
      PROVE  IInv'
  <2> DEFINE shifted == <<a, c, Operand(1), b>>
             m == top - 3
  <2>1. /\ a \in {Long, Handle, Untyped} /\ b \in {Long, Handle, Untyped}
        /\ c \in {Long, Handle, Untyped} /\ Operand(1) \in Slots
    <3>1. Operand(1) \in Slots
      BY <1>3, StateFacts
    <3>2. \A slot : LowBytes(slot) \subseteq {Long, Handle, Untyped}
      BY DEF LowBytes
    <3>3. QED
      BY <1>3, <3>1, <3>2
  <2>2. ASSUME NEW o
        PROVE  /\ shifted \in Seq(Slots) /\ Len(shifted) = 4
               /\ Held(o, shifted) = One(o, Operand(1))
    BY <2>1, ShiftedHeld
  <2> HIDE DEF shifted
  <2>3. m \in Nat /\ m + Len(shifted) = top + 1 /\ m + Len(shifted) <= StackSize
        /\ 3 \in 0..top /\ top + 1 \in 0..StackSize
    <3>1. Len(shifted) = 4
      BY <2>2
    <3>2. QED
      BY <1>3, <3>1, StateFacts
  <2>4. ASSUME NEW o
        PROVE  /\ stack' \in [1..StackSize -> Slots]
               /\ Held(o, shifted) \in Nat /\ Held(o, Popped(3)) \in Nat
               /\ HeldIn(o, stack, 1, m) \in Nat
               /\ HeldIn(o, stack', 1, top') = HeldIn(o, stack, 1, m) + Held(o, shifted)
               /\ HeldIn(o, stack, 1, top) = HeldIn(o, stack, 1, m) + Held(o, Popped(3))
    <3>1. /\ Held(o, Popped(3)) \in Nat /\ HeldIn(o, stack, 1, m) \in Nat
          /\ HeldIn(o, stack, 1, top) = HeldIn(o, stack, 1, m) + Held(o, Popped(3))
      BY <2>3, PoppedHeld
    <3>2. stack' = Above(m, shifted)
      BY <1>3 DEF shifted
    <3> HIDE DEF m
    <3>3. /\ Above(m, shifted) \in [1..StackSize -> Slots] /\ Held(o, shifted) \in Nat
          /\ HeldIn(o, Above(m, shifted), 1, m + Len(shifted))
               = HeldIn(o, stack, 1, m) + Held(o, shifted)
      BY <2>2, <2>3, AboveHeld
    <3>4. QED
      BY <1>3, <2>3, <3>1, <3>2, <3>3
  <2>5. ASSUME NEW o PROVE Held(o, shifted) <= Held(o, Popped(3))
    <3> DEFINE d == top - 1
               e == m + 1
    <3>1. HeldIn(o, stack, 1, top) = HeldIn(o, stack, 1, d) + One(o, Operand(1))
      BY <1>3, StateFacts, TopHeld DEF Top
    <3>2. HeldIn(o, stack, 1, d) = HeldIn(o, stack, 1, m) + HeldIn(o, stack, e, d)
      <4>1. m \in Int /\ d \in Int /\ 1 - 1 <= m /\ m <= d
        BY <2>3, StateFacts
      <4> HIDE DEF m, d
      <4>2. QED
        BY <4>1, HeldInCut
    <3>3. HeldIn(o, stack, e, d) \in Nat
      <4>1. d \in Int /\ e \in Int
        BY <2>3, StateFacts
      <4> HIDE DEF d, e
      <4>2. QED
        BY <4>1, HeldInType
    <3>4. One(o, Operand(1)) \in Nat
      BY DEF One
    <3> HIDE DEF d, e, m
    <3>5. QED
      BY <2>2, <2>4, <3>1, <3>2, <3>3, <3>4
  <2>6. ASSUME NEW o \in Objects
        PROVE  /\ stranded'[o] = stranded[o] + Held(o, Popped(3)) - Held(o, shifted)
               /\ stranded'[o] \in Nat
    <3>1. stranded'[o] = stranded[o] + Held(o, Popped(3)) - Held(o, shifted)
      BY <1>3 DEF shifted
    <3>2. QED
      BY <2>4, <2>5, <3>1, CountsAreNumbers
  <2>7. TypeOK'
    <3>1. stranded' \in [Objects -> Nat]
      BY <1>3, <2>6
    <3>2. QED
      BY <1>3, <2>3, <2>4, <3>1 DEF IInv, TypeOK
  <2>8. Balanced'
    <3> SUFFICES ASSUME NEW o \in Objects
                 PROVE  logged'[o] = HeldIn(o, stack', 1, top') + HeldIn(o, locals', 1, LocalCount)
                                     + CellHeld(o)' + stranded'[o]
      BY DEF Balanced
    <3>1. logged[o] = HeldIn(o, stack, 1, top) + HeldIn(o, locals, 1, LocalCount)
                      + CellHeld(o) + stranded[o]
      BY BalancedNow DEF Balanced
    <3>2. /\ CellHeld(o)' = CellHeld(o) /\ logged'[o] = logged[o]
          /\ HeldIn(o, locals', 1, LocalCount) = HeldIn(o, locals, 1, LocalCount)
      BY <1>3 DEF CellHeld
    <3>3. logged[o] \in Int /\ stranded[o] \in Nat /\ CellHeld(o) \in Nat
          /\ HeldIn(o, locals, 1, LocalCount) \in Nat
      BY CountsAreNumbers
    <3> HIDE DEF m
    <3>4. logged[o] = HeldIn(o, stack, 1, m) + Held(o, shifted)
                      + HeldIn(o, locals, 1, LocalCount) + CellHeld(o) + stranded'[o]
      BY <2>4, <2>6, <3>1, <3>3, SMTT(60)
    <3>5. QED
      BY <2>4, <3>2, <3>4
  <2>9. QED
    BY <1>3, <2>7, <2>8, BalancedThen
<1>4. QED
  <2>1. ASSUME NEW i \in 1..3, NumberTakenForReference(Operand(i)) PROVE Undefined
    BY <2>1 DEF NumberTakenForReference
  <2>2. top \in Nat /\ StackSize \in Nat
    BY StateFacts
  <2>3. CASE top < 2 \/ top + 1 > StackSize
    BY <1>1, <2>3 DEF DupX1
  <2>4. CASE ~(top < 2 \/ top + 1 > StackSize) /\ top = 2
    BY <1>2, <2>4 DEF DupX1
  <2>5. CASE ~(top < 2 \/ top + 1 > StackSize) /\ top # 2
    <3>1. top >= 3 /\ top + 1 <= StackSize
      BY <2>2, <2>5
    <3>2. QED
      BY <1>2, <1>3, <2>1, <2>5, <3>1 DEF DupX1
  <2>6. QED
    BY <2>3, <2>4, <2>5

(* Two slots change places. *)
LEMMA SwapStep ==
  ASSUME IInv, state = "run", Swap
  PROVE  IInv'
<1>1. CASE top < 2
  BY <1>1, EndsStep DEF Swap, Exit
<1>2. CASE ~(top < 2)
  <2> DEFINE a == stack[top]
             b == stack[top - 1]
             s == [stack EXCEPT ![top] = b]
             t == [s EXCEPT ![top - 1] = a]
             k == top - 1
             m == top + 1
  <2>1. /\ stack' = t
        /\ UNCHANGED <<top, locals, cells, logged, stranded, returned, state>>
    <3>1. Top = stack[top]
      BY <1>2, StateFacts DEF Top, Operand
    <3>2. QED
      BY <1>2, <3>1 DEF Swap
  <2>2. /\ top \in 1..StackSize /\ k \in 1..StackSize /\ a \in Slots /\ b \in Slots
        /\ s \in [1..StackSize -> Slots] /\ s[k] = b /\ k # top
    BY <1>2, StateFacts
  <2>3. /\ t \in [1..StackSize -> Slots]
        /\ \A i \in m..StackSize : t[i] = stack[i]
    BY <2>2, StateFacts
  <2>4. ASSUME NEW o PROVE HeldIn(o, t, 1, top) = HeldIn(o, stack, 1, top)
    <3>1. HeldIn(o, s, 1, StackSize) = HeldIn(o, stack, 1, StackSize) - One(o, a) + One(o, b)
      <4>1. /\ StackSize \in Nat /\ stack \in [1..StackSize -> Slots]
            /\ top \in 1..StackSize /\ b \in Slots
        BY <2>2, StateFacts
      <4> HIDE DEF b
      <4>2. QED
        BY <4>1, HeldExcept, Zenon
    <3>2. HeldIn(o, t, 1, StackSize) = HeldIn(o, s, 1, StackSize) - One(o, b) + One(o, a)
      <4>1. t = [s EXCEPT ![k] = a]
        OBVIOUS
      <4> HIDE DEF a, b, s, t, k
      <4>2. QED
        BY <2>2, <4>1, StateFacts, HeldExcept
    <3>3. /\ HeldIn(o, t, 1, StackSize) = HeldIn(o, t, 1, top) + HeldIn(o, t, top + 1, StackSize)
          /\ HeldIn(o, stack, 1, StackSize)
               = HeldIn(o, stack, 1, top) + HeldIn(o, stack, top + 1, StackSize)
      <4>1. /\ top \in Int /\ StackSize \in Int /\ 1 \in Int /\ 1 - 1 <= top /\ top <= StackSize
        BY <2>2, StateFacts
      <4> HIDE DEF t
      <4>2. QED
        BY <4>1, HeldInCut
    <3>4. HeldIn(o, t, m, StackSize) = HeldIn(o, stack, m, StackSize)
      <4>1. m \in Int /\ StackSize \in Int
        BY <2>2, StateFacts
      <4> HIDE DEF t, m
      <4>2. QED
        BY <2>3, <4>1, HeldInSame
    <3>5. /\ HeldIn(o, t, 1, top) \in Nat /\ HeldIn(o, stack, 1, top) \in Nat
          /\ HeldIn(o, stack, m, StackSize) \in Nat
      <4>1. 1 \in Int /\ top \in Int /\ m \in Int /\ StackSize \in Int
        BY <2>2, StateFacts
      <4> HIDE DEF t, m
      <4>2. QED
        BY <4>1, HeldInType, Zenon
    <3>6. HeldIn(o, s, 1, StackSize) \in Nat /\ HeldIn(o, stack, 1, StackSize) \in Nat
      <4>1. 1 \in Int /\ StackSize \in Int
        BY StateFacts
      <4> HIDE DEF s
      <4>2. QED
        BY <4>1, HeldInType, Zenon
    <3>7. One(o, a) \in Nat /\ One(o, b) \in Nat
      BY DEF One
    <3> HIDE DEF a, b, s, t
    <3>8. HeldIn(o, t, 1, StackSize) = HeldIn(o, stack, 1, StackSize)
      BY <3>1, <3>2, <3>6, <3>7
    <3>9. QED
      BY <3>3, <3>4, <3>5, <3>8
  <2> HIDE DEF t
  <2>5. TypeOK'
    BY <2>1, <2>3 DEF IInv, TypeOK
  <2>6. Balanced'
    <3> SUFFICES ASSUME NEW o \in Objects
                 PROVE  logged'[o] = HeldIn(o, stack', 1, top') + HeldIn(o, locals', 1, LocalCount)
                                     + CellHeld(o)' + stranded'[o]
      BY DEF Balanced
    <3>1. CellHeld(o)' = CellHeld(o)
      BY <2>1 DEF CellHeld
    <3>2. HeldIn(o, stack', 1, top') = HeldIn(o, stack, 1, top)
      BY <2>1, <2>4
    <3>3. QED
      BY <2>1, <3>1, <3>2, BalancedNow DEF Balanced
  <2>7. QED
    BY <2>1, <2>5, <2>6, BalancedThen
<1>3. QED
  BY <1>1, <1>2

(* The operand on top goes to a local. *)
LEMMA StoreStep ==
  ASSUME IInv, state = "run", NEW i \in 1..LocalCount,
         NEW type \in {"LONG", "HANDLE", "REFERENCE"}, Store(i, type)
  PROVE  IInv'
<1>1. CASE ~CanPop(<<type>>)
  BY <1>1, EndsStep DEF Store, Exit
<1>2. CASE CanPop(<<type>>) /\ locals[i] = Ref(Null)
  BY <1>2, EndsStep DEF Store, Fault
<1>3. CASE CanPop(<<type>>) /\ locals[i] # Ref(Null)
  <2>1. /\ locals' = [locals EXCEPT ![i] = Top]
        /\ logged' = Plus(locals[i], -1)
        /\ top' = top - 1
        /\ UNCHANGED <<stack, cells, stranded, returned, state>>
    BY <1>3 DEF Store
  <2>2. top >= 1 /\ top - 1 \in 0..StackSize /\ Top \in Slots /\ top \in Int
    <3>1. top >= 1
      BY <1>3 DEF CanPop
    <3>2. QED
      BY <3>1, StateFacts DEF Top
  <2>3. ASSUME NEW o \in Objects
        PROVE  /\ logged'[o] = logged[o] - One(o, locals[i])
               /\ logged[o] \in Int /\ One(o, locals[i]) \in Nat /\ One(o, Top) \in Nat
    <3>1. logged[o] \in Int
      BY CountsAreNumbers
    <3>2. QED
      BY <2>1, <3>1 DEF Plus, One
  <2>4. TypeOK'
    <3>1. logged' \in [Objects -> Int]
      BY <2>1, <2>3 DEF Plus
    <3>2. locals' \in [1..LocalCount -> Slots]
      BY <2>1, <2>2, StateFacts
    <3>3. QED
      BY <2>1, <2>2, <3>1, <3>2 DEF IInv, TypeOK
  <2>5. Balanced'
    <3> SUFFICES ASSUME NEW o \in Objects
                 PROVE  logged'[o] = HeldIn(o, stack', 1, top') + HeldIn(o, locals', 1, LocalCount)
                                     + CellHeld(o)' + stranded'[o]
      BY DEF Balanced
    <3>1. logged[o] = HeldIn(o, stack, 1, top) + HeldIn(o, locals, 1, LocalCount)
                      + CellHeld(o) + stranded[o]
      BY BalancedNow DEF Balanced
    <3>2. CellHeld(o)' = CellHeld(o) /\ stranded'[o] = stranded[o]
          /\ HeldIn(o, stack', 1, top') = HeldIn(o, stack, 1, top - 1)
      BY <2>1 DEF CellHeld
    <3>3. HeldIn(o, stack, 1, top) = HeldIn(o, stack, 1, top - 1) + One(o, Top)
      BY <2>2, TopHeld
    <3>4. HeldIn(o, locals', 1, LocalCount)
            = HeldIn(o, locals, 1, LocalCount) - One(o, locals[i]) + One(o, Top)
      BY <2>1, <2>2, StateFacts, HeldExcept
    <3>5. HeldIn(o, stack, 1, top - 1) \in Nat
      <4>1. 1 \in 0..top
        BY <2>2
      <4>2. QED
        BY <4>1, PoppedHeld
    <3>6. stranded[o] \in Nat /\ CellHeld(o) \in Nat /\ HeldIn(o, locals, 1, LocalCount) \in Nat
      BY CountsAreNumbers
    <3>7. logged'[o] = HeldIn(o, stack, 1, top - 1) + HeldIn(o, locals', 1, LocalCount)
                       + CellHeld(o) + stranded[o]
      BY <2>3, <3>1, <3>3, <3>4, <3>5, <3>6, SMTT(60)
    <3>8. QED
      BY <3>2, <3>7
  <2>6. QED
    BY <2>1, <2>4, <2>5, BalancedThen
<1>4. QED
  BY <1>1, <1>2, <1>3

(* The operations on the stack and on the locals. *)
LEMMA SlotworkStep ==
  ASSUME IInv, state = "run", Slotwork
  PROVE  IInv'
<1>0. StackSize \in Nat /\ LocalCount \in Nat /\ top \in 0..StackSize
      /\ \A i \in 1..top : Operand(i) \in Slots
  BY StateFacts
<1>1. CASE Pop
  <2>1. CASE top < 1
    BY <1>1, <2>1, EndsStep DEF Pop, Exit
  <2>2. CASE ~(top < 1)
    <3>1. 1 \in 0..top /\ Replace(1, <<>>)
      BY <1>0, <1>1, <2>2 DEF Pop
    <3>2. QED
      BY <3>1, ShortSequences, ReplaceStep
  <2>3. QED
    BY <2>1, <2>2
<1>2. CASE Dup
  <2>1. CASE top < 1
    BY <1>2, <2>1, EndsStep DEF Dup, Exit
  <2>2. CASE ~(top < 1) /\ Top = Ref(Null) /\ top < StackSize
    BY <1>2, <2>2, EndsStep DEF Dup, Fault
  <2>3. CASE ~(top < 1) /\ ~(Top = Ref(Null) /\ top < StackSize)
    <3>1. 0 \in 0..top /\ Replace(0, <<Top>>) /\ Top \in Slots
      BY <1>0, <1>2, <2>3 DEF Dup, Top
    <3>2. QED
      BY <3>1, ShortSequences, ReplaceStep
  <2>4. QED
    BY <2>1, <2>2, <2>3
<1>3. CASE Dup2
  <2>1. CASE top < 2
    BY <1>3, <2>1, EndsStep DEF Dup2, Exit
  <2>2. CASE ~(top < 2) /\ Ref(Null) \in {Operand(1), Operand(2)} /\ top + 2 <= StackSize
    BY <1>3, <2>2, EndsStep DEF Dup2, Fault
  <2>3. CASE ~(top < 2) /\ ~(Ref(Null) \in {Operand(1), Operand(2)} /\ top + 2 <= StackSize)
    <3>1. 0 \in 0..top /\ Top \in Slots /\ Operand(2) \in Slots
      BY <1>0, <2>3 DEF Top
    <3>2. Replace(0, <<Operand(2), Top>>)
      BY <1>3, <2>3 DEF Dup2
    <3>3. QED
      BY <3>1, <3>2, ShortSequences, ReplaceStep
  <2>4. QED
    BY <2>1, <2>2, <2>3
<1>4. CASE DupX1
  BY <1>4, DupX1Step
<1>5. CASE DupX2
  BY <1>5, EndsStep, StutterStep DEF DupX2, Exit
<1>6. CASE Swap
  BY <1>6, SwapStep
<1>7. ASSUME NEW i \in 1..LocalCount, NEW type \in {"LONG", "HANDLE", "REFERENCE"},
             Load(i, type)
      PROVE  IInv'
  <2>1. locals[i] \in Slots
    BY StateFacts
  <2>2. CASE locals[i].type = type
    BY <1>7, <2>1, <2>2, ShortSequences, PopPushStep DEF Load
  <2>3. CASE locals[i].type # type
    BY <1>7, <2>3, EndsStep DEF Load, Exit
  <2>4. QED
    BY <2>2, <2>3
<1>8. ASSUME NEW i \in 1..LocalCount, NEW type \in {"LONG", "HANDLE", "REFERENCE"},
             Store(i, type)
      PROVE  IInv'
  BY <1>8, StoreStep
<1>9. ASSUME NEW i \in 1..LocalCount, Inc(i)
      PROVE  IInv'
  BY <1>9, EndsStep, StutterStep DEF Inc, Exit
<1>10. QED
  BY <1>1, <1>2, <1>3, <1>4, <1>5, <1>6, <1>7, <1>8, <1>9 DEF Slotwork

(* Objects, arrays, fields and globals. *)
LEMMA HeapworkStep ==
  ASSUME IInv, state = "run", Heapwork
  PROVE  IInv'
<1>0. /\ Null \in References /\ Objects \subseteq References
      /\ Null \notin Objects /\ Garbage \notin References
      /\ \A c \in Cells : cells[c] \in References \cup {Garbage}
      /\ \A c \in Cells \ {"GLOBAL"} : cells[c] \in References
      /\ "GLOBAL" \in Cells /\ "FIELD" \in Cells /\ "ELEMENT" \in Cells
      /\ "FIELD" # "GLOBAL" /\ "ELEMENT" # "GLOBAL"
  BY SizesAssumption DEF References, IInv, TypeOK, Cells
<1>1. CASE New
  BY <1>0, <1>1, SlotKinds, ShortSequences, PopPushStep DEF New
<1>2. CASE NewArray
  BY <1>0, <1>2, SlotKinds, ShortSequences, PopPushStep DEF NewArray
<1>3. CASE Inspect
  BY <1>3, SlotKinds, ShortSequences, CheckedStep DEF Inspect
<1>4. CASE ArrayLoad
  BY <1>4, SlotKinds, ShortSequences, CheckedStep DEF ArrayLoad
<1>5. CASE ArrayStore
  BY <1>5, ShortSequences, CheckedStep DEF ArrayStore
<1>6. CASE RALoad
  BY <1>0, <1>6, SlotKinds, ShortSequences, CheckedStep DEF RALoad
<1>7. CASE RAStore
  <2> DEFINE types == <<"REFERENCE", "LONG", "REFERENCE">>
  <2>1. CASE Exit
    BY <2>1, EndsStep DEF Exit
  <2>2. CASE CanPop(types) /\ Top = Ref(Null) /\ Fault
    BY <2>2, EndsStep DEF Fault
  <2>3. CASE CanPop(types) /\ Write("ELEMENT", 3, Top.value, cells["ELEMENT"], Null)
    <3>1. 3 \in 0..top
      BY <2>3, StateFacts DEF CanPop
    <3>2. Top.value \in References
      <4>1. Top.type = "REFERENCE" /\ Top \in Slots
        BY <2>3, <3>1, StateFacts DEF CanPop, Top
      <4>2. QED
        BY <4>1, ReferenceSlot DEF Ref
    <3>3. \A o \in Objects :
            Same(o, Top.value) - Same(o, Null)
              = Same(o, Top.value) + Same(o, cells["ELEMENT"]) - Same(o, cells["ELEMENT"])
      BY <1>0 DEF Same
    <3>4. WriteCell("ELEMENT", 3, Top.value, Top.value, cells["ELEMENT"], Null)
      BY <2>3 DEF Write
    <3>5. QED
      BY <1>0, <3>1, <3>2, <3>3, <3>4, WriteCellStep
  <2>4. QED
    BY <1>7, <2>1, <2>2, <2>3 DEF RAStore
<1>8. CASE GetField
  BY <1>0, <1>8, SlotKinds, ShortSequences, CheckedStep DEF GetField
<1>9. CASE SetField
  <2> DEFINE types == <<"REFERENCE", "REFERENCE">>
  <2>1. CASE \E type \in {"LONG", "HANDLE"} : Checked(<<type, "REFERENCE">>, <<>>)
    BY <2>1, ShortSequences, CheckedStep
  <2>2. CASE UNCHANGED vars
    BY <2>2, StutterStep
  <2>3. CASE CanPop(types) /\ Write("FIELD", 2, Top.value, Null, cells["FIELD"])
    <3>1. 2 \in 0..top
      BY <2>3, StateFacts DEF CanPop
    <3>2. Top.value \in References
      <4>1. Top.type = "REFERENCE" /\ Top \in Slots
        BY <2>3, <3>1, StateFacts DEF CanPop, Top
      <4>2. QED
        BY <4>1, ReferenceSlot DEF Ref
    <3>3. \A o \in Objects :
            Same(o, Top.value) - Same(o, cells["FIELD"])
              = Same(o, Top.value) + Same(o, Null) - Same(o, cells["FIELD"])
      BY <1>0 DEF Same
    <3>4. WriteCell("FIELD", 2, Top.value, Top.value, Null, cells["FIELD"])
      BY <2>3 DEF Write
    <3>5. QED
      BY <1>0, <3>1, <3>2, <3>3, <3>4, WriteCellStep
  <2>4. QED
    BY <1>9, <2>1, <2>2, <2>3 DEF SetField
<1>10. CASE GetGlobal
  <2>1. CASE \E slot \in {Long, Handle} : PopPush(<<>>, <<slot>>)
    BY <2>1, SlotKinds, ShortSequences, PopPushStep
  <2>2. CASE UNCHANGED vars
    BY <2>2, StutterStep
  <2>3. CASE cells["GLOBAL"] # Garbage /\ PopPush(<<>>, <<Ref(cells["GLOBAL"])>>)
    BY <1>0, <2>3, SlotKinds, ShortSequences, PopPushStep
  <2>4. CASE Undefined
    BY <2>4, EndsStep DEF Undefined
  <2>5. QED
    BY <1>10, <2>1, <2>2, <2>3, <2>4 DEF GetGlobal
<1>11. CASE SetGlobal
  <2>1. CASE \E type \in {"LONG", "HANDLE"} : PopPush(<<type>>, <<>>)
    BY <2>1, ShortSequences, PopPushStep
  <2>2. CASE UNCHANGED vars
    BY <2>2, StutterStep
  <2>3. CASE Exit
    BY <2>3, EndsStep DEF Exit
  <2>4. CASE Undefined
    BY <2>4, EndsStep DEF Undefined
  <2>5. CASE CanPop(<<"REFERENCE">>) /\ SetTo(Top.value, cells["GLOBAL"])
    <3>1. 1 \in 0..top
      BY <2>5, StateFacts DEF CanPop
    <3>2. Top.value \in References
      <4>1. Top.type = "REFERENCE" /\ Top \in Slots
        BY <2>5, <3>1, StateFacts DEF CanPop, Top
      <4>2. QED
        BY <4>1, ReferenceSlot DEF Ref
    <3>3. \A o \in Objects :
            /\ Same(o, Top.value) - Same(o, cells["GLOBAL"])
                 = Same(o, Top.value) + Same(o, Null) - Same(o, cells["GLOBAL"])
            /\ Same(o, Top.value) - Same(o, cells["GLOBAL"])
                 = Same(o, Garbage) + Same(o, Top.value) - Same(o, cells["GLOBAL"])
      BY <1>0 DEF Same
    <3>4. CASE WriteCell("GLOBAL", 1, Top.value, Top.value, Null, cells["GLOBAL"])
      BY <1>0, <3>1, <3>2, <3>3, <3>4, WriteCellStep
    <3>5. CASE WriteCell("GLOBAL", 1, Garbage, Top.value, Top.value, cells["GLOBAL"])
      BY <1>0, <3>1, <3>2, <3>3, <3>5, WriteCellStep
    <3>6. QED
      BY <2>5, <3>4, <3>5 DEF SetTo, Write, Lose
  <2>6. QED
    BY <1>11, <2>1, <2>2, <2>3, <2>4, <2>5 DEF SetGlobal
<1>12. QED
  BY <1>1, <1>2, <1>3, <1>4, <1>5, <1>6, <1>7, <1>8, <1>9, <1>10, <1>11 DEF Heapwork

(* A native function is called: what it takes is stranded. *)
LEMMA CallNativeStep ==
  ASSUME IInv, state = "run", CallNative
  PROVE  IInv'
<1> SUFFICES ASSUME NEW types \in Arguments, NEW result \in Results,
                    CanPop(types), ~(top - Len(types) + Len(result) > StackSize),
                    stack' = Above(top - Len(types), result),
                    top' = top - Len(types) + Len(result),
                    logged' = [o \in Objects |-> logged[o] + Held(o, result)],
                    stranded' = [o \in Objects |-> stranded[o] + Held(o, Popped(Len(types)))],
                    UNCHANGED <<locals, cells, returned, state>>
             PROVE  IInv'
  BY EndsStep DEF CallNative, Exit, Fault
<1> DEFINE n == Len(types)
           m == top - n
           k == m + Len(result)
<1>1. types \in Seq({"LONG", "HANDLE", "REFERENCE"}) /\ result \in Seq(Slots)
  BY SizesAssumption, ResultsAssumption
<1>2. n \in 0..top /\ m \in Nat /\ k \in 0..StackSize /\ m + Len(result) <= StackSize
  BY <1>1, StateFacts DEF CanPop
<1>3. ASSUME NEW o
      PROVE  /\ stack' \in [1..StackSize -> Slots]
             /\ Held(o, result) \in Nat /\ Held(o, Popped(n)) \in Nat
             /\ HeldIn(o, stack, 1, m) \in Nat
             /\ HeldIn(o, stack', 1, top') = HeldIn(o, stack, 1, m) + Held(o, result)
             /\ HeldIn(o, stack, 1, top) = HeldIn(o, stack, 1, m) + Held(o, Popped(n))
  <2>1. /\ Held(o, Popped(n)) \in Nat /\ HeldIn(o, stack, 1, m) \in Nat
        /\ HeldIn(o, stack, 1, top) = HeldIn(o, stack, 1, m) + Held(o, Popped(n))
    BY <1>2, PoppedHeld
  <2>2. stack' = Above(m, result) /\ top' = k
    OBVIOUS
  <2> HIDE DEF m
  <2>3. /\ Above(m, result) \in [1..StackSize -> Slots] /\ Held(o, result) \in Nat
        /\ HeldIn(o, Above(m, result), 1, k) = HeldIn(o, stack, 1, m) + Held(o, result)
    BY <1>1, <1>2, AboveHeld
  <2>4. QED
    BY <2>1, <2>2, <2>3
<1>4. TypeOK'
  <2>1. logged' \in [Objects -> Int] /\ stranded' \in [Objects -> Nat]
    <3>1. \A o \in Objects :
            /\ logged[o] + Held(o, result) \in Int
            /\ stranded[o] + Held(o, Popped(n)) \in Nat
      <4> SUFFICES ASSUME NEW o \in Objects
                   PROVE  /\ logged[o] + Held(o, result) \in Int
                          /\ stranded[o] + Held(o, Popped(n)) \in Nat
        OBVIOUS
      <4>1. Held(o, result) \in Nat /\ Held(o, Popped(n)) \in Nat
        BY <1>3
      <4>2. QED
        BY <4>1, CountsAreNumbers
    <3>2. QED
      BY <3>1
  <2>2. stack' \in [1..StackSize -> Slots]
    BY <1>3
  <2>3. QED
    BY <1>2, <2>1, <2>2 DEF IInv, TypeOK
<1>5. Balanced'
  <2> SUFFICES ASSUME NEW o \in Objects
               PROVE  logged'[o] = HeldIn(o, stack', 1, top') + HeldIn(o, locals', 1, LocalCount)
                                   + CellHeld(o)' + stranded'[o]
    BY DEF Balanced
  <2>1. logged[o] = HeldIn(o, stack, 1, top) + HeldIn(o, locals, 1, LocalCount)
                    + CellHeld(o) + stranded[o]
    BY BalancedNow DEF Balanced
  <2>2. CellHeld(o)' = CellHeld(o)
    BY DEF CellHeld
  <2>3. /\ logged'[o] = logged[o] + Held(o, result)
        /\ stranded'[o] = stranded[o] + Held(o, Popped(n))
        /\ HeldIn(o, locals', 1, LocalCount) = HeldIn(o, locals, 1, LocalCount)
    OBVIOUS
  <2> HIDE DEF m
  <2>4. /\ Held(o, result) \in Nat /\ Held(o, Popped(n)) \in Nat
        /\ HeldIn(o, stack, 1, m) \in Nat
        /\ HeldIn(o, stack', 1, top') = HeldIn(o, stack, 1, m) + Held(o, result)
        /\ HeldIn(o, stack, 1, top) = HeldIn(o, stack, 1, m) + Held(o, Popped(n))
    BY <1>3
  <2>5. logged[o] \in Int /\ stranded[o] \in Nat /\ CellHeld(o) \in Nat
        /\ HeldIn(o, locals, 1, LocalCount) \in Nat
    BY CountsAreNumbers
  <2> HIDE DEF n
  <2>6. logged'[o] = HeldIn(o, stack, 1, m) + Held(o, result) + HeldIn(o, locals, 1, LocalCount)
                    + CellHeld(o) + stranded'[o]
    BY <2>1, <2>3, <2>4, <2>5, SMTT(60)
  <2>7. QED
    BY <2>2, <2>3, <2>4, <2>6
<1>6. QED
  BY <1>4, <1>5, BalancedThen

(* Calls and returns. *)
LEMMA ControlStep ==
  ASSUME IInv, state = "run", Control
  PROVE  IInv'
<1>0. /\ \A types \in Arguments : types \in Seq({"LONG", "HANDLE", "REFERENCE"})
      /\ \A result \in Results : result \in Seq(Slots)
  BY SizesAssumption, ResultsAssumption
<1>1. CASE Call
  BY <1>0, <1>1, PopPushStep, StutterStep DEF Call
<1>2. CASE CallNative
  BY <1>2, CallNativeStep
<1>3. CASE CallVirtual
  <2>1. CASE \E how \in {"exited", "faulted", "undefined"} : Ends(how)
    BY <2>1, EndsStep
  <2>2. CASE \E types \in Arguments, result \in Results : PopPush(types, result)
    BY <1>0, <2>2, PopPushStep
  <2>3. QED
    BY <1>3, <2>1, <2>2 DEF CallVirtual, Undefined, Fault, Exit
<1>4. CASE Return
  <2>1. /\ <<>> \in Seq({"LONG", "HANDLE", "REFERENCE"}) /\ <<>> \in Seq(Slots)
        /\ Len(<<>>) = 0
    OBVIOUS
  <2>2. \A o : Held(o, <<>>) = Held(o, Popped(0))
    <3> SUFFICES ASSUME NEW o PROVE Held(o, <<>>) = Held(o, Popped(0))
      OBVIOUS
    <3>1. 0 \in 0..top
      BY StateFacts
    <3>2. Popped(0) \in Seq(Slots) /\ Len(Popped(0)) = 0
      BY <3>1, PoppedHeld
    <3>3. Popped(0) = <<>>
      BY <3>2
    <3>4. QED
      BY <3>3
  <2>3. Leave(<<>>, <<>>)
    BY <1>4 DEF Return
  <2>4. QED
    BY <2>1, <2>2, <2>3, LeaveStep
<1>5. CASE LReturn
  <2> SUFFICES ASSUME NEW type \in {"LONG", "HANDLE"}, Leave(<<type>>, <<>>)
               PROVE  IInv'
    BY <1>5 DEF LReturn
  <2>1. /\ <<type>> \in Seq({"LONG", "HANDLE", "REFERENCE"}) /\ <<>> \in Seq(Slots)
        /\ Len(<<type>>) = 1
    OBVIOUS
  <2>2. CanPop(<<type>>) => \A o \in Objects : Held(o, <<>>) = Held(o, Popped(1))
    <3> SUFFICES ASSUME CanPop(<<type>>), NEW o \in Objects
                 PROVE  Held(o, <<>>) = Held(o, Popped(1))
      OBVIOUS
    <3>1. top >= 1 /\ Top.type = type
      BY DEF CanPop, Top
    <3>2. Top # Ref(o)
      BY <3>1 DEF Ref
    <3>3. Held(o, Popped(1)) = 0
      BY <3>1, <3>2, TopHeld DEF One
    <3>4. QED
      BY <3>3, HeldShort
  <2>3. QED
    BY <2>1, <2>2, LeaveStep
<1>6. CASE RReturn
  <2> DEFINE types == <<"REFERENCE">>
  <2>1. types \in Seq({"LONG", "HANDLE", "REFERENCE"}) /\ Len(types) = 1
    OBVIOUS
  <2>2. CanPop(types) =>
          <<Top>> \in Seq(Slots) /\ \A o \in Objects : Held(o, <<Top>>) = Held(o, Popped(1))
    <3> SUFFICES ASSUME CanPop(types)
                 PROVE  /\ <<Top>> \in Seq(Slots)
                        /\ \A o \in Objects : Held(o, <<Top>>) = Held(o, Popped(1))
      OBVIOUS
    <3>1. top >= 1
      BY DEF CanPop
    <3>2. Top \in Slots
      BY <3>1, StateFacts DEF Top
    <3>3. ASSUME NEW o \in Objects PROVE Held(o, <<Top>>) = Held(o, Popped(1))
      <4>1. Held(o, Popped(1)) = One(o, Top)
        BY <3>1, TopHeld
      <4>2. Held(o, <<Top>>) = One(o, Top)
        BY <3>2, HeldShort, Zenon
      <4>3. QED
        BY <4>1, <4>2
    <3>4. QED
      BY <3>2, <3>3
  <2> HIDE DEF types
  <2>3. CASE Leave(types, <<Top>>)
    BY <2>1, <2>2, <2>3, LeaveStep
  <2>4. CASE Fault
    BY <2>4, EndsStep DEF Fault
  <2>5. QED
    BY <1>6, <2>3, <2>4 DEF RReturn, types
<1>7. QED
  BY <1>1, <1>2, <1>3, <1>4, <1>5, <1>6 DEF Control

-------------------------------------------------------------------------------
(* The invariant holds.                                                    *)

(* A zeroed frame holds nothing. *)
LEMMA ZeroedHeld ==
  ASSUME NEW o, NEW n \in Nat, NEW k \in 0..n
  PROVE  HeldIn(o, Zeroed(n), 1, k) = 0
<1> DEFINE s == Zeroed(n)
<1>1. \A i \in 1..k : s[i] # Ref(o)
  BY SlotKinds DEF Zeroed
<1> HIDE DEF s
<1>2. { i \in 1..k : s[i] = Ref(o) } = {}
  BY <1>1
<1>3. QED
  BY <1>2, FS_EmptySet DEF HeldIn, s

LEMMA InitStep == Init => IInv
<1> SUFFICES ASSUME Init PROVE IInv
  OBVIOUS
<1>1. Zeroed(StackSize) \in [1..StackSize -> Slots] /\ Zeroed(LocalCount) \in [1..LocalCount -> Slots]
  BY SlotKinds DEF Zeroed
<1>2. TypeOK
  <2>1. <<>> \in Seq(Slots) /\ 0 \in 0..StackSize
    BY SizesAssumption
  <2>2. QED
    BY <1>1, <2>1, SizesAssumption DEF Init, TypeOK, References
<1>3. ASSUME NEW o \in Objects
      PROVE  logged[o] = Held(o, SubSeq(stack, 1, top)) + Held(o, locals)
                         + CellHeld(o) + stranded[o]
  <2>1. Held(o, SubSeq(stack, 1, top)) = 0
    <3>1. /\ StackSize \in Nat /\ 0 \in 0..StackSize /\ stack \in [1..StackSize -> Slots]
          /\ stack = Zeroed(StackSize) /\ top = 0
      BY <1>1, SizesAssumption DEF Init
    <3>2. Held(o, SubSeq(stack, 1, top)) = HeldIn(o, stack, 1, top)
      BY <3>1, HeldPrefix, Zenon
    <3>3. QED
      BY <3>1, <3>2, ZeroedHeld
  <2>2. Held(o, locals) = 0
    <3>1. /\ LocalCount \in Nat /\ LocalCount \in 0..LocalCount /\ LocalCount \in Int
          /\ DOMAIN locals = 1..LocalCount /\ locals = Zeroed(LocalCount)
      BY SizesAssumption DEF Init, Zeroed
    <3>2. Held(o, locals) = HeldIn(o, locals, 1, LocalCount)
      BY <3>1, HeldIsHeldIn
    <3>3. QED
      BY <3>1, <3>2, ZeroedHeld
  <2>3. CellHeld(o) = 0
    <3>1. { c \in Cells : cells[c] = o } = {}
      BY SizesAssumption DEF Init
    <3>2. QED
      BY <3>1, FS_EmptySet DEF CellHeld
  <2>4. QED
    BY <2>1, <2>2, <2>3 DEF Init
<1>4. HeldCounted /\ GoneAccounted
  BY <1>3 DEF HeldCounted, GoneAccounted, Init
<1>5. QED
  BY <1>2, <1>4 DEF IInv

LEMMA Invariance == Spec => []IInv
<1>1. IInv /\ [Next]_vars => IInv'
  BY NumbersStep, SlotworkStep, HeapworkStep, ControlStep, StutterStep DEF Next
<1>2. QED
  BY InitStep, <1>1, PTL DEF Spec

(* Whatever instructions run, in whatever order and with whatever functions    *)
(* called, an object is counted once for each operand, local and cell that     *)
(* holds it, and beyond that only for what was stranded.                       *)
THEOREM FrameSoundCorrect == Spec => []FrameSound
<1>1. IInv => FrameSound
  BY DEF IInv, FrameSound
<1>2. QED
  BY <1>1, Invariance, PTL

(* When a frame is destroyed, what it held is removed, and what a popped slot  *)
(* above the top still says it holds is removed a second time.                 *)
THEOREM GoneAccountedCorrect == Spec => []GoneAccounted
<1>1. IInv => GoneAccounted
  BY DEF IInv
<1>2. QED
  BY <1>1, Invariance, PTL

(*************************** The code: InsnList ****************************)

(* A set of naturals that is not empty has a least member. *)
LEMMA LeastNumber ==
  ASSUME NEW S, S \subseteq Nat, S # {}
  PROVE  \E x \in S : \A y \in S : x <= y
<1>1. PICK x \in S : \A y \in S : ~ (<<y, x>> \in OpToRel(<, Nat))
  BY NatLessThanWellFounded, WFMin
<1>2. \A y \in S : ~ (y < x)
  BY <1>1 DEF OpToRel
<1>3. QED
  BY <1>2

(* Induction, with a set for the property. *)
LEMMA Induction ==
  ASSUME NEW n \in Nat, NEW P, 0 \in P, \A m \in 1..n : m - 1 \in P => m \in P
  PROVE  \A m \in 0..n : m \in P
<1> DEFINE Bad == (0..n) \ P
<1>1. ASSUME Bad # {}
      PROVE  FALSE
  <2>1. Bad \subseteq Nat
    OBVIOUS
  <2> HIDE DEF Bad
  <2>2. PICK m \in Bad : \A l \in Bad : m <= l
    BY <1>1, <2>1, LeastNumber
  <2>3. m \in 0..n /\ m \notin P /\ m # 0
    BY DEF Bad
  <2>4. m \in 1..n /\ m - 1 \in 0..n /\ ~ (m <= m - 1)
    BY <2>3
  <2>5. m - 1 \in P
    BY <2>2, <2>4 DEF Bad
  <2>6. QED
    BY <2>3, <2>4, <2>5
<1>2. QED
  BY <1>1

(* A function on 0..n that starts at a and goes on by step. *)
Goes(f, S, a, n, step) ==
  f \in [0..n -> S] /\ f[0] = a /\ \A k \in 1..n : f[k] = step[k][f[k - 1]]

(* Each function of numbers up to n that is defined by steps exists. *)
LEMMA Recursion ==
  ASSUME NEW S, NEW a \in S, NEW n \in Nat, NEW step \in [1..n -> [S -> S]]
  PROVE  \E f : Goes(f, S, a, n, step)
<1> DEFINE Upto(m, f) ==
             f \in [0..m -> S] /\ f[0] = a /\ \A k \in 1..m : f[k] = step[k][f[k - 1]]
           P == {m \in 0..n : \E f : Upto(m, f)}
<1>1. 0 \in P
  <2>1. Upto(0, [k \in 0..0 |-> a])
    OBVIOUS
  <2> HIDE DEF Upto
  <2>2. 0 \in 0..n
    OBVIOUS
  <2>3. QED
    BY <2>1, <2>2
<1>2. ASSUME NEW m \in 1..n, m - 1 \in P
      PROVE  m \in P
  <2>1. PICK f : Upto(m - 1, f)
    BY <1>2
  <2> DEFINE x == step[m][f[m - 1]]
             g == [k \in 0..m |-> IF k = m THEN x ELSE f[k]]
  <2>2. m - 1 \in 0..(m - 1) /\ m \in Nat /\ 0 \in 0..m /\ 0 # m
    OBVIOUS
  <2>3. x \in S
    <3>1. f[m - 1] \in S
      BY <2>1, <2>2
    <3>2. QED
      BY <3>1
  <2> HIDE DEF x
  <2>4. \A k \in 0..m : k = m \/ k \in 0..(m - 1)
    OBVIOUS
  <2>5. g \in [0..m -> S] /\ g[0] = a
    BY <2>1, <2>2, <2>3, <2>4
  <2>6. ASSUME NEW k \in 1..m
        PROVE  g[k] = step[k][g[k - 1]]
    <3>1. k - 1 \in 0..m /\ k - 1 # m /\ k \in 0..m
      OBVIOUS
    <3>2. g[k - 1] = f[k - 1]
      BY <3>1
    <3>3. CASE k = m
      BY <3>1, <3>2, <3>3 DEF x
    <3>4. CASE k # m
      <4>1. k \in 1..(m - 1)
        BY <3>4
      <4>2. f[k] = step[k][f[k - 1]] /\ g[k] = f[k]
        BY <2>1, <3>1, <3>4, <4>1
      <4>3. QED
        BY <3>2, <4>2
    <3>5. QED
      BY <3>3, <3>4
  <2>7. Upto(m, g)
    BY <2>5, <2>6
  <2>8. m \in 0..n
    OBVIOUS
  <2>9. QED
    BY <2>7, <2>8
<1> HIDE DEF P
<1>3. n \in P
  <2>1. \A m \in 0..n : m \in P
    BY <1>1, <1>2, Induction
  <2>2. QED
    BY <2>1
<1>4. QED
  BY <1>3 DEF P, Goes

-------------------------------------------------------------------------------
(* Numbers and their bytes.                                                *)

(* The values of a byte. *)
Octets == 0..(Byte - 1)

(* The opcodes are bytes, and none is another. *)
LEMMA OpcodeFacts ==
  /\ Byte \in Nat /\ Byte >= 2
  /\ {NOP, WIDE, LOAD, INC, JMP, CALL, LPUSH} \subseteq Octets
  /\ Range(Opcodes) = {NOP, WIDE, LOAD, INC, JMP, CALL, LPUSH}
  /\ WIDE \notin {NOP, LOAD, INC, JMP, CALL, LPUSH}
  /\ INC \notin {NOP, LOAD, JMP, CALL, LPUSH}
  /\ JMP \notin {NOP, LOAD, CALL, LPUSH}
  /\ LOAD \notin {NOP, CALL, LPUSH}
  /\ CALL \notin {NOP, LPUSH}
  /\ LPUSH # NOP
<1>1. /\ Byte \in Nat /\ Byte >= 2
      /\ \A i, j \in 1..7 : Opcodes[i] = Opcodes[j] => i = j
      /\ \A i \in 1..7 : Opcodes[i] \in Octets
  BY OpcodeAssumption DEF Opcodes, Octets, IsInjective
<1>2. /\ Opcodes[1] = NOP /\ Opcodes[2] = WIDE /\ Opcodes[3] = LOAD /\ Opcodes[4] = INC
      /\ Opcodes[5] = JMP /\ Opcodes[6] = CALL /\ Opcodes[7] = LPUSH
      /\ DOMAIN Opcodes = 1..7
  BY DEF Opcodes
<1>3. 1..7 = {1, 2, 3, 4, 5, 6, 7}
  OBVIOUS
<1>4. Range(Opcodes) = {NOP, WIDE, LOAD, INC, JMP, CALL, LPUSH}
  BY <1>2, <1>3 DEF Range
<1>5. QED
  BY <1>1, <1>2, <1>3, <1>4

(* The quotient and the rest of a division by Byte. *)
LEMMA Division ==
  ASSUME NEW v \in Int
  PROVE  /\ v \div Byte \in Int /\ v % Byte \in Octets
         /\ v = (v \div Byte) * Byte + (v % Byte)
<1>1. \A b \in Nat : b >= 2 => /\ v \div b \in Int /\ v % b \in 0..(b - 1)
                                /\ v = b * (v \div b) + (v % b)
  OBVIOUS
<1>2. /\ v \div Byte \in Int /\ v % Byte \in 0..(Byte - 1)
      /\ v = Byte * (v \div Byte) + (v % Byte)
  BY <1>1, OpcodeFacts
<1>3. \A a, b \in Int : a * b = b * a
  OBVIOUS
<1>4. QED
  BY <1>2, <1>3, OpcodeFacts DEF Octets

(* The quotients that Digits takes. *)
Quotients(rest, value, n) ==
  /\ rest \in [0..n -> Int] /\ rest[0] = value
  /\ \A i \in 1..n : rest[i] = rest[i - 1] \div Byte

LEMMA DigitsAre ==
  ASSUME NEW v \in Int, NEW n \in Nat
  PROVE  \E rest : /\ Quotients(rest, v, n)
                   /\ Digits(v, n) = [i \in 1..n |-> rest[n - i] % Byte]
<1> DEFINE Is(f) == f = [i \in 0..n |-> IF i = 0 THEN v ELSE f[i - 1] \div Byte]
           step == [k \in 1..n |-> [x \in Int |-> x \div Byte]]
<1>1. step \in [1..n -> [Int -> Int]]
  BY Division
<1>2. PICK f : Goes(f, Int, v, n, step)
  BY <1>1, Recursion
<1>3. Quotients(f, v, n)
  <2>1. \A k \in 1..n : k - 1 \in 0..n
    OBVIOUS
  <2>2. QED
    BY <1>2, <2>1 DEF Goes, Quotients
<1>4. Is(f)
  <2> DEFINE g == [i \in 0..n |-> IF i = 0 THEN v ELSE f[i - 1] \div Byte]
  <2>1. \A k \in 0..n : k = 0 \/ k \in 1..n
    OBVIOUS
  <2>2. \A k \in 0..n : f[k] = g[k]
    BY <1>3, <2>1 DEF Quotients
  <2>3. g = [k \in 0..n |-> g[k]] /\ f = [k \in 0..n |-> f[k]]
    BY <1>3 DEF Quotients
  <2> HIDE DEF g
  <2>4. f = g
    BY <2>2, <2>3
  <2>5. QED
    BY <2>4 DEF g
<1> DEFINE R == CHOOSE rest : Is(rest)
<1>5. Is(R)
  <2> HIDE DEF Is
  <2>1. QED
    BY <1>4
<1>6. Digits(v, n) = [i \in 1..n |-> R[n - i] % Byte]
  BY DEF Digits
<1>7. ASSUME NEW i \in 0..n
      PROVE  R[i] = IF i = 0 THEN v ELSE R[i - 1] \div Byte
  BY <1>5
<1>8. R = [i \in 0..n |-> R[i]]
  BY <1>5
<1> HIDE DEF R, Is
<1>9. \A m \in 0..n : R[m] \in Int
  <2> DEFINE P == {m \in 0..n : R[m] \in Int}
  <2>1. 0 \in P
    BY <1>7
  <2>2. ASSUME NEW m \in 1..n, m - 1 \in P
        PROVE  m \in P
    BY <1>7, <2>2, Division
  <2> HIDE DEF P
  <2>3. \A m \in 0..n : m \in P
    BY <2>1, <2>2, Induction
  <2>4. QED
    BY <2>3 DEF P
<1>10. Quotients(R, v, n)
  <2>1. \A k \in 1..n : k \in 0..n /\ k # 0
    OBVIOUS
  <2>2. R \in [0..n -> Int]
    BY <1>8, <1>9
  <2>3. QED
    BY <1>7, <2>1, <2>2 DEF Quotients
<1>11. QED
  BY <1>6, <1>10

LEMMA DigitsType ==
  ASSUME NEW v \in Int, NEW n \in Nat
  PROVE  /\ Digits(v, n) \in [1..n -> Octets]
         /\ Digits(v, n) \in Seq(Octets) /\ Len(Digits(v, n)) = n
<1>1. PICK rest : /\ Quotients(rest, v, n)
                  /\ Digits(v, n) = [i \in 1..n |-> rest[n - i] % Byte]
  BY DigitsAre
<1>2. \A i \in 1..n : rest[n - i] % Byte \in Octets
  <2>1. \A i \in 1..n : n - i \in 0..n
    OBVIOUS
  <2>2. QED
    BY <1>1, <2>1, Division DEF Quotients
<1>3. Digits(v, n) \in [1..n -> Octets]
  BY <1>1, <1>2
<1>4. QED
  BY <1>3

(* What Number comes to, from the first byte on. *)
LEMMA NumberIs ==
  ASSUME NEW n \in Nat, NEW d \in Seq(Octets), Len(d) = n
  PROVE  \E number \in [0..n -> Nat] :
           /\ number[0] = 0
           /\ \A i \in 1..n : number[i] = number[i - 1] * Byte + d[i]
           /\ Number(d) = number[n]
<1> DEFINE Is(f) == f = [i \in 0..Len(d) |-> IF i = 0 THEN 0 ELSE f[i - 1] * Byte + d[i]]
           step == [k \in 1..n |-> [x \in Nat |-> x * Byte + d[k]]]
<1>1. \A k \in 1..n : d[k] \in Nat
  BY OpcodeFacts DEF Octets
<1>2. step \in [1..n -> [Nat -> Nat]]
  BY <1>1, OpcodeFacts
<1>3. PICK f : Goes(f, Nat, 0, n, step)
  BY <1>2, Recursion
<1>4. f \in [0..n -> Nat] /\ f[0] = 0 /\ \A i \in 1..n : f[i] = f[i - 1] * Byte + d[i]
  <2>1. \A k \in 1..n : k - 1 \in 0..n
    OBVIOUS
  <2>2. QED
    BY <1>3, <2>1 DEF Goes
<1>5. Is(f)
  <2> DEFINE g == [i \in 0..Len(d) |-> IF i = 0 THEN 0 ELSE f[i - 1] * Byte + d[i]]
  <2>1. \A k \in 0..n : k = 0 \/ k \in 1..n
    OBVIOUS
  <2>2. \A k \in 0..n : f[k] = g[k]
    BY <1>4, <2>1
  <2>3. g = [k \in 0..n |-> g[k]] /\ f = [k \in 0..n |-> f[k]]
    BY <1>4
  <2> HIDE DEF g
  <2>4. f = g
    BY <2>2, <2>3
  <2>5. QED
    BY <2>4 DEF g
<1> DEFINE N == CHOOSE number : Is(number)
<1>6. Is(N)
  <2> HIDE DEF Is
  <2>1. QED
    BY <1>5
<1>7. Number(d) = N[n]
  BY DEF Number
<1>8. ASSUME NEW i \in 0..n
      PROVE  N[i] = IF i = 0 THEN 0 ELSE N[i - 1] * Byte + d[i]
  BY <1>6
<1>9. N = [i \in 0..n |-> N[i]]
  BY <1>6
<1> HIDE DEF N, Is
<1>10. \A m \in 0..n : N[m] \in Nat
  <2> DEFINE P == {m \in 0..n : N[m] \in Nat}
  <2>1. 0 \in P
    BY <1>8
  <2>2. ASSUME NEW m \in 1..n, m - 1 \in P
        PROVE  m \in P
    <3>1. N[m - 1] \in Nat /\ m \in 0..n /\ m # 0
      BY <2>2
    <3>2. N[m] = N[m - 1] * Byte + d[m]
      BY <1>8, <3>1
    <3>3. N[m - 1] * Byte \in Nat
      BY <3>1, OpcodeFacts
    <3>4. QED
      BY <1>1, <3>1, <3>2, <3>3
  <2> HIDE DEF P
  <2>3. \A m \in 0..n : m \in P
    BY <2>1, <2>2, Induction
  <2>4. QED
    BY <2>3 DEF P
<1>11. N \in [0..n -> Nat] /\ N[0] = 0
  BY <1>8, <1>9, <1>10
<1>12. \A i \in 1..n : i \in 0..n /\ i # 0
  OBVIOUS
<1>13. QED
  BY <1>7, <1>8, <1>11, <1>12

(* A number that n bytes hold is read back from its n bytes. *)
LEMMA ReadBack ==
  ASSUME NEW v \in Int, NEW n \in Nat,
         \A rest : Quotients(rest, v, n) => rest[n] = 0
  PROVE  Number(Digits(v, n)) = v
<1>1. PICK rest : /\ Quotients(rest, v, n)
                  /\ Digits(v, n) = [i \in 1..n |-> rest[n - i] % Byte]
  BY DigitsAre
<1> DEFINE d == Digits(v, n)
<1>2. d \in Seq(Octets) /\ Len(d) = n
  BY DigitsType
<1>3. PICK number \in [0..n -> Nat] :
           /\ number[0] = 0
           /\ \A i \in 1..n : number[i] = number[i - 1] * Byte + d[i]
           /\ Number(d) = number[n]
  BY <1>2, NumberIs
<1> DEFINE P == {m \in 0..n : number[m] = rest[n - m]}
<1>4. 0 \in P
  <2>1. n - 0 = n /\ rest[n] = 0
    BY <1>1
  <2>2. QED
    BY <1>3, <2>1
<1>5. ASSUME NEW m \in 1..n, m - 1 \in P
      PROVE  m \in P
  <2> DEFINE q == rest[n - m]
  <2>1. n - m \in 0..n /\ n - (m - 1) \in 1..n /\ (n - (m - 1)) - 1 = n - m
    OBVIOUS
  <2>2. q \in Int
    BY <1>1, <2>1 DEF Quotients
  <2>3. number[m - 1] = q \div Byte
    <3>1. number[m - 1] = rest[n - (m - 1)]
      BY <1>5
    <3>2. QED
      BY <1>1, <2>1, <3>1 DEF Quotients
  <2>4. d[m] = q % Byte
    BY <1>1
  <2> HIDE DEF q, d
  <2>5. number[m] = (q \div Byte) * Byte + (q % Byte)
    <3>1. number[m] = number[m - 1] * Byte + d[m]
      BY <1>3
    <3>2. QED
      BY <2>3, <2>4, <3>1, Zenon
  <2>6. number[m] = q
    BY <2>2, <2>5, Division
  <2>7. QED
    BY <2>6 DEF q
<1> HIDE DEF P
<1>6. n \in P
  <2>1. \A m \in 0..n : m \in P
    BY <1>4, <1>5, Induction
  <2>2. QED
    BY <2>1
<1>7. number[n] = rest[n - n] /\ n - n = 0
  BY <1>6 DEF P
<1>8. QED
  BY <1>1, <1>3, <1>7 DEF Quotients


(* The division of a number below a multiple of Byte, and of one that is shifted by one. *)
LEMMA Quotient ==
  ASSUME NEW v \in Int, NEW x \in Int
  PROVE  /\ 0 <= v /\ v < x * Byte => 0 <= v \div Byte /\ v \div Byte < x
         /\ (v + x * Byte) \div Byte = v \div Byte + x
         /\ (v + x * Byte) % Byte = v % Byte
<1> DEFINE q == v \div Byte
           r == v % Byte
           w == v + x * Byte
<1>1. q \in Int /\ r \in Octets /\ v = q * Byte + r
  BY Division
<1>2. x * Byte \in Int /\ w \in Int /\ q * Byte \in Int
  BY <1>1, OpcodeFacts
<1>3. w \div Byte \in Int /\ w % Byte \in Octets /\ w = (w \div Byte) * Byte + (w % Byte)
  BY <1>2, Division
<1> HIDE DEF q, r, w
<1>4. ASSUME NEW a \in Int, NEW b \in Int, a < b
      PROVE  a * Byte + Byte <= b * Byte
  <2>1. \A n \in Nat, d \in Int : d >= 1 => d * n >= n
    OBVIOUS
  <2>2. (b - a) * Byte >= Byte
    BY <1>4, <2>1, OpcodeFacts
  <2>3. (b - a) * Byte = b * Byte - a * Byte
    BY OpcodeFacts
  <2>4. a * Byte \in Int /\ b * Byte \in Int /\ Byte \in Int
    BY OpcodeFacts
  <2>5. QED
    BY <2>2, <2>3, <2>4
<1>5. ASSUME 0 <= v, v < x * Byte
      PROVE  0 <= q /\ q < x
  <2>1. ~ (q < 0)
    <3>1. q < 0 => q * Byte + Byte <= 0 * Byte
      BY <1>1, <1>4
    <3>2. 0 * Byte = 0 /\ r < Byte /\ r \in Int /\ Byte \in Int
      BY <1>1, OpcodeFacts DEF Octets
    <3>3. QED
      BY <1>1, <1>2, <1>5, <3>1, <3>2
  <2>2. ~ (x <= q)
    <3>1. x < q => x * Byte + Byte <= q * Byte
      BY <1>1, <1>4
    <3>2. x <= q => x * Byte <= q * Byte
      BY <1>1, <1>2, <3>1, OpcodeFacts
    <3>3. r >= 0 /\ r \in Int
      BY <1>1 DEF Octets
    <3>4. QED
      BY <1>1, <1>2, <1>5, <3>2, <3>3
  <2>3. QED
    BY <1>1, <2>1, <2>2
<1>6. w \div Byte = q + x /\ w % Byte = r
  <2> DEFINE s == w \div Byte
             t == w % Byte
             u == q + x
  <2>1. s \in Int /\ t \in Octets /\ w = s * Byte + t
    BY <1>3
  <2>2. u \in Int /\ w = u * Byte + r
    <3>1. (q + x) * Byte = q * Byte + x * Byte
      BY <1>1, OpcodeFacts
    <3>2. r \in Int
      BY <1>1, OpcodeFacts DEF Octets
    <3>3. QED
      BY <1>1, <1>2, <3>1, <3>2 DEF w
  <2> HIDE DEF s, t, u
  <2>3. s * Byte \in Int /\ u * Byte \in Int /\ t \in Int /\ r \in Int
        /\ 0 <= t /\ t < Byte /\ 0 <= r /\ r < Byte /\ Byte \in Int
    BY <1>1, <2>1, <2>2, OpcodeFacts DEF Octets
  <2>4. ~ (s < u)
    <3>1. s < u => s * Byte + Byte <= u * Byte
      BY <1>4, <2>1, <2>2
    <3>2. QED
      BY <2>1, <2>2, <2>3, <3>1
  <2>5. ~ (u < s)
    <3>1. u < s => u * Byte + Byte <= s * Byte
      BY <1>4, <2>1, <2>2
    <3>2. QED
      BY <2>1, <2>2, <2>3, <3>1
  <2>6. s = u
    BY <2>1, <2>2, <2>4, <2>5
  <2>7. t = r
    BY <2>1, <2>2, <2>3, <2>6
  <2>8. QED
    BY <2>6, <2>7 DEF s, t, u
<1>7. QED
  BY <1>5, <1>6 DEF q, r, w

(* Numbers of the sizes that are written: what is read is what was written. *)
LEMMA ByteReadBack ==
  ASSUME NEW v \in Octets
  PROVE  Number(Digits(v, 1)) = v
<1>1. v \in Int /\ 0 <= v /\ v < 1 * Byte
  BY OpcodeFacts DEF Octets
<1>2. v \div Byte = 0
  <2>1. v \div Byte \in Int /\ 0 <= v \div Byte /\ v \div Byte < 1
    BY <1>1, Quotient, Division
  <2>2. QED
    BY <2>1
<1>3. ASSUME NEW rest, Quotients(rest, v, 1)
      PROVE  rest[1] = 0
  <2>1. rest[0] = v /\ rest[1] = rest[1 - 1] \div Byte
    BY <1>3 DEF Quotients
  <2>2. QED
    BY <1>2, <2>1
<1>4. QED
  BY <1>1, <1>3, ReadBack

LEMMA ShortQuotients ==
  ASSUME NEW v \in Int, 0 <= v, v < Shorts
  PROVE  (v \div Byte) \div Byte = 0
<1> DEFINE q == v \div Byte
<1>1. q \in Int /\ 0 <= q /\ q < Byte
  BY Quotient, Division, OpcodeFacts DEF Shorts
<1> HIDE DEF q
<1>2. q \div Byte \in Int /\ 0 <= q \div Byte /\ q \div Byte < 1
  <2>1. q < 1 * Byte
    BY <1>1, OpcodeFacts
  <2>2. QED
    BY <1>1, <2>1, Quotient, Division
<1>3. QED
  BY <1>2 DEF q

LEMMA ShortReadBack ==
  ASSUME NEW v \in Int, 0 <= v, v < Shorts
  PROVE  Number(Digits(v, 2)) = v
<1>1. ASSUME NEW rest, Quotients(rest, v, 2)
      PROVE  rest[2] = 0
  <2>1. rest[0] = v /\ rest[1] = rest[1 - 1] \div Byte /\ rest[2] = rest[2 - 1] \div Byte
    BY <1>1 DEF Quotients
  <2>2. QED
    BY <2>1, ShortQuotients
<1>2. QED
  BY <1>1, ReadBack

LEMMA IntReadBack ==
  ASSUME NEW v \in Int, 0 <= v, v < Shorts * Shorts
  PROVE  Number(Digits(v, 4)) = v
<1> DEFINE q == v \div Byte
           p == q \div Byte
<1>1. Shorts * Shorts = ((Byte * Byte) * Byte) * Byte
  BY OpcodeFacts DEF Shorts
<1>2. Byte * Byte \in Int /\ (Byte * Byte) * Byte \in Int
  BY OpcodeFacts
<1>3. q \in Int /\ 0 <= q /\ q < (Byte * Byte) * Byte
  BY <1>1, <1>2, Quotient, Division
<1> HIDE DEF q
<1>4. p \in Int /\ 0 <= p /\ p < Shorts
  BY <1>2, <1>3, Quotient, Division DEF Shorts
<1> HIDE DEF p
<1>5. (p \div Byte) \div Byte = 0
  BY <1>4, ShortQuotients
<1>6. ASSUME NEW rest, Quotients(rest, v, 4)
      PROVE  rest[4] = 0
  <2>1. rest[0] = v /\ rest[1] = rest[1 - 1] \div Byte /\ rest[2] = rest[2 - 1] \div Byte
        /\ rest[3] = rest[3 - 1] \div Byte /\ rest[4] = rest[4 - 1] \div Byte
    BY <1>6 DEF Quotients
  <2>2. QED
    BY <1>5, <2>1 DEF q, p
<1>7. QED
  BY <1>6, ReadBack

LEMMA OneReadBack == Number(Digits(1, 8)) = 1
<1>1. \A x \in {0, 1} : x \div Byte = 0
  <2> TAKE x \in {0, 1}
  <2>1. x \in Int /\ 0 <= x /\ x < 1 * Byte
    BY OpcodeFacts
  <2>2. x \div Byte \in Int /\ 0 <= x \div Byte /\ x \div Byte < 1
    BY <2>1, Quotient, Division
  <2>3. QED
    BY <2>2
<1>2. ASSUME NEW rest, Quotients(rest, 1, 8)
      PROVE  rest[8] = 0
  <2>1. rest[0] = 1 /\ rest[1] = rest[1 - 1] \div Byte /\ rest[2] = rest[2 - 1] \div Byte
        /\ rest[3] = rest[3 - 1] \div Byte /\ rest[4] = rest[4 - 1] \div Byte
        /\ rest[5] = rest[5 - 1] \div Byte /\ rest[6] = rest[6 - 1] \div Byte
        /\ rest[7] = rest[7 - 1] \div Byte /\ rest[8] = rest[8 - 1] \div Byte
    BY <1>2 DEF Quotients
  <2>2. QED
    BY <1>1, <2>1
<1>3. QED
  BY <1>2, ReadBack

(* A number that an i16 holds, sign included. *)
LEMMA SignedReadBack ==
  ASSUME NEW v \in Int, FitsShort(v)
  PROVE  Signed(Number(Digits(v, 2))) = v
<1>1. Shorts \in Int /\ Shorts = Byte * Byte
  BY OpcodeFacts DEF Shorts
<1>2. CASE 0 <= v
  <2>1. v < Shorts
    BY <1>1, <1>2 DEF FitsShort
  <2>2. Number(Digits(v, 2)) = v
    BY <1>2, <2>1, ShortReadBack
  <2>3. QED
    BY <1>1, <2>2 DEF FitsShort, Signed
<1>3. CASE v < 0
  <2> DEFINE w == v + Byte * Byte
  <2>1. w \in Int /\ 0 <= w /\ w < Shorts /\ 2 * w >= Shorts /\ w - Shorts = v
    BY <1>1, <1>3 DEF FitsShort
  <2>2. Number(Digits(w, 2)) = w
    BY <2>1, ShortReadBack
  <2>3. w \div Byte = v \div Byte + Byte /\ w % Byte = v % Byte
    <3>1. Byte \in Int
      BY OpcodeFacts
    <3>2. /\ (v + Byte * Byte) \div Byte = v \div Byte + Byte
          /\ (v + Byte * Byte) % Byte = v % Byte
      BY <3>1, Quotient
    <3>3. QED
      BY <3>2
  <2>4. (w \div Byte) % Byte = (v \div Byte) % Byte
    <3>1. v \div Byte \in Int /\ Byte = 1 * Byte
      BY Division, OpcodeFacts
    <3>2. (v \div Byte + 1 * Byte) % Byte = (v \div Byte) % Byte
      BY <3>1, Quotient
    <3>3. QED
      BY <2>3, <3>1, <3>2
  <2> HIDE DEF w
  <2>5. ASSUME NEW x \in Int
        PROVE  Digits(x, 2) = [i \in 1..2 |-> IF i = 1 THEN (x \div Byte) % Byte ELSE x % Byte]
    <3>1. PICK rest : /\ Quotients(rest, x, 2)
                      /\ Digits(x, 2) = [i \in 1..2 |-> rest[2 - i] % Byte]
      BY DigitsAre
    <3>2. rest[2 - 2] = x /\ rest[2 - 1] = x \div Byte
      BY <3>1 DEF Quotients
    <3>3. \A i \in 1..2 : i = 1 \/ i = 2
      OBVIOUS
    <3>4. QED
      BY <3>1, <3>2, <3>3
  <2>6. Digits(w, 2) = Digits(v, 2)
    BY <2>1, <2>3, <2>4, <2>5
  <2>7. QED
    BY <2>1, <2>2, <2>6 DEF Signed
<1>4. QED
  BY <1>2, <1>3


-------------------------------------------------------------------------------
(* Sequences of bytes, one behind the other.                               *)

LEMMA Joined ==
  ASSUME NEW a \in Seq(Octets), NEW b \in Seq(Octets)
  PROVE  /\ a \o b \in Seq(Octets) /\ Len(a \o b) = Len(a) + Len(b)
         /\ \A i \in 1..Len(a) : (a \o b)[i] = a[i]
         /\ \A i \in 1..Len(b) : (a \o b)[Len(a) + i] = b[i]
OBVIOUS

(* c is a, of n bytes, and then b, of m. *)
IsJoined(c, a, n, b, m) ==
  /\ c \in Seq(Octets) /\ Len(c) = n + m
  /\ \A i \in 1..n : c[i] = a[i]
  /\ \A i \in 1..m : c[n + i] = b[i]

LEMMA JoinedAt ==
  ASSUME NEW a \in Seq(Octets), NEW b \in Seq(Octets), NEW n \in Nat, NEW m \in Nat,
         Len(a) = n, Len(b) = m
  PROVE  IsJoined(a \o b, a, n, b, m)
BY Joined DEF IsJoined

LEMMA JoinedThrice ==
  ASSUME NEW a \in Seq(Octets), NEW b \in Seq(Octets), NEW c \in Seq(Octets)
  PROVE  (a \o b) \o c = a \o (b \o c)
BY ConcatAssociative

(* Three byte sequences, four and five, put together from the left.       *)
ThreeJoin(a, b, c) == (a \o b) \o c = a \o (b \o c)
FourJoin(a, b, c, d) ==
    /\ b \o c \in Seq(Octets) /\ (a \o b) \o c = a \o (b \o c)
    /\ (a \o (b \o c)) \o d = a \o ((b \o c) \o d)
FiveJoin(a, b, c, d, f) ==
    /\ FourJoin(a, b, c, d) /\ (b \o c) \o d \in Seq(Octets)
    /\ (a \o ((b \o c) \o d)) \o f = a \o (((b \o c) \o d) \o f)

LEMMA JoinedThree ==
  ASSUME NEW a \in Seq(Octets), NEW b \in Seq(Octets), NEW c \in Seq(Octets)
  PROVE  ThreeJoin(a, b, c)
BY JoinedThrice, Zenon DEF ThreeJoin

LEMMA JoinedFour ==
  ASSUME NEW a \in Seq(Octets), NEW b \in Seq(Octets), NEW c \in Seq(Octets),
         NEW d \in Seq(Octets)
  PROVE  FourJoin(a, b, c, d)
<1>1. b \o c \in Seq(Octets)
  BY Joined
<1>2. ThreeJoin(a, b, c)
  BY JoinedThree
<1> DEFINE e == b \o c
<1>3. e \in Seq(Octets)
  BY <1>1
<1> HIDE DEF e
<1>4. ThreeJoin(a, e, d)
  BY <1>3, JoinedThree
<1>5. QED
  BY <1>1, <1>2, <1>4, Zenon DEF e, ThreeJoin, FourJoin

LEMMA JoinedFive ==
  ASSUME NEW a \in Seq(Octets), NEW b \in Seq(Octets), NEW c \in Seq(Octets),
         NEW d \in Seq(Octets), NEW f \in Seq(Octets)
  PROVE  FiveJoin(a, b, c, d, f)
<1>1. FourJoin(a, b, c, d)
  BY JoinedFour
<1> DEFINE e == (b \o c) \o d
<1>2. e \in Seq(Octets)
  BY <1>1, Joined DEF FourJoin
<1> HIDE DEF e
<1>3. ThreeJoin(a, e, f)
  BY <1>2, JoinedThree
<1>4. QED
  BY <1>1, <1>2, <1>3, Zenon DEF e, ThreeJoin, FiveJoin

LEMMA OneThen ==
  ASSUME NEW x \in Octets, NEW d \in Seq(Octets)
  PROVE  /\ <<x>> \in Seq(Octets) /\ Len(<<x>>) = 1
         /\ <<x>> \o d \in Seq(Octets) /\ Len(<<x>> \o d) = 1 + Len(d)
         /\ (<<x>> \o d)[1] = x
         /\ \A i \in 1..Len(d) : (<<x>> \o d)[1 + i] = d[i]
<1>1. <<x>> \in Seq(Octets) /\ Len(<<x>>) = 1 /\ <<x>>[1] = x
  OBVIOUS
<1>2. QED
  BY <1>1, Joined

-------------------------------------------------------------------------------
(* Writing the parts of an instruction.                                    *)

(* The states of the stream, from part to part. *)
Streams == [ok : BOOLEAN, out : Seq(Octets)]

Streaming(stream, parts) ==
  /\ stream \in [0..Len(parts) -> Streams]
  /\ stream[0] = [ok |-> TRUE, out |-> bytes]
  /\ \A i \in 1..Len(parts) :
       stream[i] = IF stream[i - 1].ok /\ Len(stream[i - 1].out) + Len(parts[i]) <= room'
                   THEN [ok |-> TRUE, out |-> stream[i - 1].out \o parts[i]]
                   ELSE [ok |-> FALSE, out |-> stream[i - 1].out]

LEMMA WrittenIs ==
  ASSUME NEW parts \in Seq(Seq(Octets)), bytes \in Seq(Octets)
  PROVE  \E stream : Streaming(stream, parts) /\ Written(parts) = stream[Len(parts)]
<1> DEFINE n == Len(parts)
           On(s, i) == IF s.ok /\ Len(s.out) + Len(parts[i]) <= room'
                         THEN [ok |-> TRUE, out |-> s.out \o parts[i]]
                         ELSE [ok |-> FALSE, out |-> s.out]
           first == [ok |-> TRUE, out |-> bytes]
           Is(f) == f = [i \in 0..Len(parts) |->
                           IF i = 0 THEN [ok |-> TRUE, out |-> bytes]
                           ELSE IF f[i - 1].ok /\ Len(f[i - 1].out) + Len(parts[i]) <= room'
                           THEN [ok |-> TRUE, out |-> f[i - 1].out \o parts[i]]
                           ELSE [ok |-> FALSE, out |-> f[i - 1].out]]
           step == [k \in 1..n |-> [s \in Streams |-> On(s, k)]]
<1>1. ASSUME NEW s \in Streams, NEW i \in 1..n
      PROVE  On(s, i) \in Streams
  <2>1. s.out \in Seq(Octets) /\ parts[i] \in Seq(Octets)
    BY DEF Streams
  <2>2. s.out \o parts[i] \in Seq(Octets)
    BY <2>1, Joined
  <2>3. QED
    BY <2>1, <2>2 DEF Streams
<1>2. first \in Streams /\ n \in Nat
  BY DEF Streams
<1> HIDE DEF On
<1>3. step \in [1..n -> [Streams -> Streams]]
  BY <1>1
<1>4. PICK f : Goes(f, Streams, first, n, step)
  <2> HIDE DEF step, n, first
  <2>1. QED
    BY <1>2, <1>3, Recursion
<1>5. f \in [0..n -> Streams] /\ f[0] = first /\ \A i \in 1..n : f[i] = On(f[i - 1], i)
  <2>1. \A k \in 1..n : k - 1 \in 0..n
    OBVIOUS
  <2> HIDE DEF n, first
  <2>2. QED
    BY <1>4, <2>1 DEF Goes
<1>6. Is(f)
  <2> DEFINE g == [i \in 0..Len(parts) |->
                     IF i = 0 THEN [ok |-> TRUE, out |-> bytes]
                     ELSE IF f[i - 1].ok /\ Len(f[i - 1].out) + Len(parts[i]) <= room'
                     THEN [ok |-> TRUE, out |-> f[i - 1].out \o parts[i]]
                     ELSE [ok |-> FALSE, out |-> f[i - 1].out]]
  <2>1. \A k \in 0..n : k = 0 \/ k \in 1..n
    OBVIOUS
  <2>2. \A k \in 0..n : f[k] = g[k]
    BY <1>5, <2>1 DEF On
  <2>3. g = [k \in 0..n |-> g[k]] /\ f = [k \in 0..n |-> f[k]]
    BY <1>5
  <2> HIDE DEF g
  <2>4. f = g
    BY <2>2, <2>3
  <2>5. QED
    BY <2>4 DEF g
<1> DEFINE W == CHOOSE stream : Is(stream)
<1>7. Is(W)
  <2> HIDE DEF Is
  <2>1. QED
    BY <1>6
<1>8. Written(parts) = W[n]
  BY DEF Written
<1>9. ASSUME NEW i \in 0..n
      PROVE  W[i] = IF i = 0 THEN first ELSE On(W[i - 1], i)
  BY <1>7 DEF On
<1>10. W = [i \in 0..n |-> W[i]]
  BY <1>7
<1> HIDE DEF W, Is, n, first
<1>11. \A m \in 0..n : W[m] \in Streams
  <2> DEFINE P == {m \in 0..n : W[m] \in Streams}
  <2>1. 0 \in P
    BY <1>2, <1>9
  <2>2. ASSUME NEW m \in 1..n, m - 1 \in P
        PROVE  m \in P
    <3>1. W[m - 1] \in Streams /\ m \in 0..n /\ m # 0
      BY <1>2, <2>2
    <3>2. W[m] = On(W[m - 1], m)
      BY <1>9, <3>1
    <3>3. QED
      BY <1>1, <3>1, <3>2
  <2> HIDE DEF P
  <2>3. \A m \in 0..n : m \in P
    BY <1>2, <2>1, <2>2, Induction
  <2>4. QED
    BY <2>3 DEF P
<1>12. W \in [0..n -> Streams] /\ W[0] = first
  <2>1. W \in [0..n -> Streams]
    BY <1>10, <1>11
  <2>2. 0 \in 0..n
    BY <1>2
  <2>3. QED
    BY <1>9, <2>1, <2>2
<1>13. \A i \in 1..n : i \in 0..n /\ i # 0
  BY <1>2
<1>14. \A i \in 1..n : W[i] = On(W[i - 1], i)
  BY <1>9, <1>13
<1>15. Streaming(W, parts)
  BY <1>12, <1>14 DEF Streaming, On, n, first
<1>16. QED
  BY <1>8, <1>15 DEF n

(* The parts have been written one after the other; n of them with sum[n] bytes. *)
Chained(parts, n) ==
  /\ Written(parts).ok
  /\ \E stream \in [0..n -> Seq(Octets)] :
       /\ stream[0] = bytes /\ Written(parts).out = stream[n]
       /\ \A i \in 1..n : stream[i] = stream[i - 1] \o parts[i]

BoundedOut(parts, sum, n) ==
  /\ Written(parts).out \in Seq(Octets)
  /\ Len(Written(parts).out) <= room' /\ Len(Written(parts).out) <= Len(bytes) + sum[n]
  /\ Len(bytes) + sum[n] <= room' => Chained(parts, n)

(* Parts that fit are all written; and what is written fits, whatever is left out. *)
LEMMA WrittenParts ==
  ASSUME NEW n \in Nat, NEW parts \in Seq(Seq(Octets)), Len(parts) = n,
         bytes \in Seq(Octets), room' \in Nat, Len(bytes) <= room',
         NEW sum \in [0..n -> Nat], sum[0] = 0,
         \A i \in 1..n : sum[i] = sum[i - 1] + Len(parts[i])
  PROVE  BoundedOut(parts, sum, n)
<1>1. PICK stream : Streaming(stream, parts) /\ Written(parts) = stream[n]
  BY WrittenIs
<1>2. /\ stream \in [0..n -> Streams] /\ n \in Nat /\ n \in 0..n
      /\ \A i \in 0..n : /\ stream[i].ok \in BOOLEAN /\ stream[i].out \in Seq(Octets)
                         /\ Len(stream[i].out) \in Nat /\ sum[i] \in Nat
      /\ \A i \in 1..n : /\ i \in 0..n /\ i - 1 \in 0..n /\ parts[i] \in Seq(Octets)
                         /\ Len(parts[i]) \in Nat
  <2>1. stream \in [0..n -> Streams] /\ n \in Nat /\ n \in 0..n
    BY <1>1 DEF Streaming
  <2>2. ASSUME NEW i \in 0..n
        PROVE  /\ stream[i].ok \in BOOLEAN /\ stream[i].out \in Seq(Octets)
               /\ Len(stream[i].out) \in Nat /\ sum[i] \in Nat
    <3>1. stream[i] \in Streams
      BY <2>1
    <3>2. stream[i].ok \in BOOLEAN /\ stream[i].out \in Seq(Octets)
      BY <3>1 DEF Streams
    <3>3. QED
      BY <3>2
  <2>3. \A i \in 1..n : /\ i \in 0..n /\ i - 1 \in 0..n /\ parts[i] \in Seq(Octets)
                         /\ Len(parts[i]) \in Nat
    OBVIOUS
  <2>4. QED
    BY <2>1, <2>2, <2>3
<1>3. stream[0] = [ok |-> TRUE, out |-> bytes]
  BY <1>1 DEF Streaming
<1>4. ASSUME NEW i \in 1..n
      PROVE  stream[i] = IF /\ stream[i - 1].ok
                            /\ Len(stream[i - 1].out) + Len(parts[i]) <= room'
                         THEN [ok |-> TRUE, out |-> stream[i - 1].out \o parts[i]]
                         ELSE [ok |-> FALSE, out |-> stream[i - 1].out]
  BY <1>1 DEF Streaming
<1>9. ASSUME NEW i \in 1..n
      PROVE  IF stream[i - 1].ok /\ Len(stream[i - 1].out) + Len(parts[i]) <= room'
             THEN stream[i].ok /\ stream[i].out = stream[i - 1].out \o parts[i]
             ELSE ~ stream[i].ok /\ stream[i].out = stream[i - 1].out
  <2>1. CASE stream[i - 1].ok /\ Len(stream[i - 1].out) + Len(parts[i]) <= room'
    <3>1. stream[i] = [ok |-> TRUE, out |-> stream[i - 1].out \o parts[i]]
      BY <1>4, <2>1, Zenon
    <3> DEFINE y == stream[i - 1].out \o parts[i]
    <3> HIDE DEF y
    <3>4. stream[i] = [ok |-> TRUE, out |-> y]
      BY <3>1 DEF y
    <3>5. stream[i].ok = TRUE /\ stream[i].out = y
      BY <3>4
    <3>2. stream[i].ok /\ stream[i].out = stream[i - 1].out \o parts[i]
      BY <3>5 DEF y
    <3>3. QED
      BY <2>1, <3>2, Zenon
  <2>2. CASE ~ (stream[i - 1].ok /\ Len(stream[i - 1].out) + Len(parts[i]) <= room')
    <3>1. stream[i] = [ok |-> FALSE, out |-> stream[i - 1].out]
      BY <1>4, <2>2, Zenon
    <3>2. stream[i].ok = FALSE /\ stream[i].out = stream[i - 1].out
      BY <3>1
    <3>3. QED
      BY <2>2, <3>2, Zenon
  <2>3. QED
    BY <2>1, <2>2
<1>5. \A m \in 0..n : /\ Len(stream[m].out) <= room' /\ Len(stream[m].out) <= Len(bytes) + sum[m]
                      /\ stream[m].ok => Len(stream[m].out) = Len(bytes) + sum[m]
  <2> DEFINE Q(m) == /\ Len(stream[m].out) <= room'
                     /\ Len(stream[m].out) <= Len(bytes) + sum[m]
                     /\ stream[m].ok => Len(stream[m].out) = Len(bytes) + sum[m]
             P == {m \in 0..n : Q(m)}
  <2>1. 0 \in P
    BY <1>2, <1>3
  <2>2. ASSUME NEW m \in 1..n, m - 1 \in P
        PROVE  m \in P
    <3> DEFINE s == stream[m - 1].out
    <3>1. /\ s \in Seq(Octets) /\ parts[m] \in Seq(Octets) /\ Len(s) \in Nat
          /\ Len(parts[m]) \in Nat /\ Len(s \o parts[m]) = Len(s) + Len(parts[m])
          /\ sum[m - 1] \in Nat /\ Len(bytes) \in Nat
      BY <1>2, Joined
    <3>2. sum[m] = sum[m - 1] + Len(parts[m])
      OBVIOUS
    <3>3. Q(m - 1)
      BY <2>2
    <3>4. CASE stream[m - 1].ok /\ Len(s) + Len(parts[m]) <= room'
      <4>1. stream[m].out = s \o parts[m] /\ stream[m].ok
        BY <1>9, <3>4, Zenon
      <4>2. Len(s) = Len(bytes) + sum[m - 1]
        BY <3>3, <3>4, Zenon
      <4>3. Len(stream[m].out) = Len(s) + Len(parts[m])
        BY <3>1, <4>1
      <4>4. Len(stream[m].out) <= room' /\ Len(stream[m].out) = Len(bytes) + sum[m]
        BY <3>1, <3>2, <3>4, <4>2, <4>3
      <4>5. Len(bytes) + sum[m] <= Len(bytes) + sum[m] /\ m \in 0..n
        BY <1>2, <3>1
      <4>6. QED
        BY <4>4, <4>5
    <3>5. CASE ~ (stream[m - 1].ok /\ Len(s) + Len(parts[m]) <= room')
      <4>1. stream[m].out = s /\ ~ stream[m].ok
        BY <1>9, <3>5, Zenon
      <4>2. Len(s) <= room' /\ Len(s) <= Len(bytes) + sum[m - 1]
        BY <3>3
      <4>3. Len(s) <= Len(bytes) + sum[m] /\ m \in 0..n
        <5>1. m \in 0..n /\ sum[m] \in Nat
          BY <1>2
        <5>2. /\ Len(s) \in Nat /\ Len(parts[m]) \in Nat /\ sum[m - 1] \in Nat
              /\ Len(bytes) \in Nat
          BY <3>1
        <5> HIDE DEF s
        <5>3. QED
          BY <3>2, <4>2, <5>1, <5>2
      <4>4. QED
        BY <4>1, <4>2, <4>3, Zenon
    <3>6. QED
      BY <3>4, <3>5
  <2> HIDE DEF P
  <2>3. \A m \in 0..n : m \in P
    BY <1>2, <2>1, <2>2, Induction
  <2>4. QED
    BY <2>3 DEF P
<1>6. ASSUME Len(bytes) + sum[n] <= room'
      PROVE  \A m \in 0..n : stream[m].ok
  <2>1. \A m \in 0..n : sum[m] <= sum[n]
    <3> DEFINE P == {m \in 0..n : sum[n - m] <= sum[n]}
    <3>1. 0 \in P
      <4>1. n - 0 = n /\ sum[n] <= sum[n]
        BY <1>2
      <4>2. QED
        BY <1>2, <4>1
    <3>2. ASSUME NEW m \in 1..n, m - 1 \in P
          PROVE  m \in P
      <4>1. n - (m - 1) \in 1..n /\ (n - (m - 1)) - 1 = n - m /\ n - m \in 0..n
        BY <1>2
      <4>2. sum[n - (m - 1)] = sum[n - m] + Len(parts[n - (m - 1)])
        BY <4>1
      <4>3. sum[n - (m - 1)] <= sum[n]
        BY <3>2
      <4>4. /\ Len(parts[n - (m - 1)]) \in Nat /\ sum[n - m] \in Nat /\ sum[n] \in Nat
            /\ m \in 0..n
        BY <1>2, <4>1
      <4>5. sum[n - m] <= sum[n]
        BY <4>2, <4>3, <4>4
      <4>6. QED
        BY <4>4, <4>5
    <3> HIDE DEF P
    <3>3. \A m \in 0..n : m \in P
      BY <1>2, <3>1, <3>2, Induction
    <3>4. ASSUME NEW m \in 0..n
          PROVE  sum[m] <= sum[n]
      <4>1. n - m \in 0..n /\ n - (n - m) = m
        BY <1>2
      <4>2. QED
        BY <3>3, <4>1 DEF P
    <3>5. QED
      BY <3>4
  <2> DEFINE P == {m \in 0..n : stream[m].ok}
  <2>2. 0 \in P
    BY <1>2, <1>3
  <2>3. ASSUME NEW m \in 1..n, m - 1 \in P
        PROVE  m \in P
    <3>1. stream[m - 1].ok
      BY <2>3
    <3>2. Len(stream[m - 1].out) = Len(bytes) + sum[m - 1]
      BY <1>2, <1>5, <3>1
    <3>3. sum[m] = sum[m - 1] + Len(parts[m]) /\ sum[m] <= sum[n]
      BY <1>2, <2>1
    <3>4. Len(bytes) \in Nat
      OBVIOUS
    <3>5. Len(stream[m - 1].out) + Len(parts[m]) <= room'
      <4>1. /\ sum[m - 1] \in Nat /\ sum[m] \in Nat /\ sum[n] \in Nat
            /\ Len(parts[m]) \in Nat
        BY <1>2
      <4>2. QED
        BY <1>6, <3>2, <3>3, <3>4, <4>1
    <3>6. stream[m].ok
      BY <1>9, <3>1, <3>5, Zenon
    <3>7. QED
      BY <1>2, <3>6
  <2> HIDE DEF P
  <2>4. \A m \in 0..n : m \in P
    BY <1>2, <2>2, <2>3, Induction
  <2>5. QED
    BY <2>4 DEF P
<1>7. ASSUME Len(bytes) + sum[n] <= room'
      PROVE  Chained(parts, n)
  <2> DEFINE outs == [i \in 0..n |-> stream[i].out]
  <2>1. outs \in [0..n -> Seq(Octets)] /\ outs[0] = bytes /\ Written(parts).out = outs[n]
    BY <1>1, <1>2, <1>3
  <2>2. ASSUME NEW i \in 1..n
        PROVE  outs[i] = outs[i - 1] \o parts[i]
    <3>1. stream[i].ok /\ outs[i] = stream[i].out /\ outs[i - 1] = stream[i - 1].out
      BY <1>2, <1>6, <1>7
    <3>2. stream[i].out = stream[i - 1].out \o parts[i]
      <4>1. stream[i - 1].ok /\ Len(stream[i - 1].out) + Len(parts[i]) <= room'
        BY <1>9, <3>1, Zenon
      <4>2. QED
        BY <1>9, <4>1, Zenon
    <3>3. QED
      BY <3>1, <3>2
  <2>3. Written(parts).ok
    BY <1>1, <1>2, <1>6, <1>7
  <2> HIDE DEF outs
  <2>4. QED
    BY <2>1, <2>2, <2>3 DEF Chained
<1>8. QED
  BY <1>1, <1>2, <1>5, <1>7 DEF BoundedOut


(* All bytes of an instruction are written, or as many parts of it as fit. *)
WritesOut(parts, all) ==
  /\ Written(parts).out \in Seq(Octets)
  /\ Len(Written(parts).out) <= room' /\ Len(Written(parts).out) <= Len(bytes) + Len(all)
  /\ Len(bytes) + Len(all) <= room' => Written(parts).ok /\ Written(parts).out = bytes \o all

LEMMA WrittenTwo ==
  ASSUME NEW a \in Seq(Octets), NEW b \in Seq(Octets), bytes \in Seq(Octets),
         room' \in Nat, Len(bytes) <= room'
  PROVE  WritesOut(<<a, b>>, a \o b)
<1> DEFINE parts == <<a, b>>
           sum == [i \in 0..2 |-> IF i = 0 THEN 0 ELSE IF i = 1 THEN Len(a) ELSE Len(a) + Len(b)]
<1>1. parts \in Seq(Seq(Octets)) /\ Len(parts) = 2 /\ parts[1] = a /\ parts[2] = b
  OBVIOUS
<1>2. /\ sum \in [0..2 -> Nat] /\ sum[0] = 0 /\ sum[2] = Len(a \o b)
      /\ sum[1] = sum[1 - 1] + Len(a) /\ sum[2] = sum[2 - 1] + Len(b)
  BY Joined
<1> HIDE DEF parts, sum
<1>3. \A i \in 1..Len(parts) : sum[i] = sum[i - 1] + Len(parts[i])
  <2>1. \A i \in 1..2 : i = 1 \/ i = 2
    OBVIOUS
  <2>2. QED
    BY <1>1, <1>2, <2>1
<1>4. BoundedOut(parts, sum, 2)
  BY <1>1, <1>2, <1>3, WrittenParts
<1>5. ASSUME Len(bytes) + sum[2] <= room'
      PROVE  Written(parts).ok /\ Written(parts).out = bytes \o (a \o b)
  <2>1. PICK stream \in [0..2 -> Seq(Octets)] :
                /\ stream[0] = bytes /\ Written(parts).out = stream[2]
                /\ \A i \in 1..2 : stream[i] = stream[i - 1] \o parts[i]
    BY <1>4, <1>5 DEF BoundedOut, Chained
  <2>2. stream[1] = bytes \o a /\ stream[2] = stream[1] \o b
    <3>1. 1 \in 1..2 /\ 2 \in 1..2 /\ 1 - 1 = 0 /\ 2 - 1 = 1
      OBVIOUS
    <3>2. QED
      BY <1>1, <2>1, <3>1, Zenon
  <2>3. (bytes \o a) \o b = bytes \o (a \o b)
    <3>1. ThreeJoin(bytes, a, b)
      BY JoinedThree
    <3>2. QED
      BY <3>1, Zenon DEF ThreeJoin
  <2>4. Written(parts).ok
    BY <1>4, <1>5 DEF BoundedOut, Chained
  <2>5. QED
    BY <2>1, <2>2, <2>3, <2>4
<1>6. QED
  BY <1>2, <1>4, <1>5 DEF WritesOut, BoundedOut, parts

LEMMA WrittenThree ==
  ASSUME NEW a \in Seq(Octets), NEW b \in Seq(Octets), NEW c \in Seq(Octets),
         bytes \in Seq(Octets), room' \in Nat, Len(bytes) <= room'
  PROVE  WritesOut(<<a, b, c>>, (a \o b) \o c)
<1> DEFINE parts == <<a, b, c>>
           sum == [i \in 0..3 |-> IF i = 0 THEN 0 ELSE IF i = 1 THEN Len(a)
                                  ELSE IF i = 2 THEN Len(a) + Len(b)
                                  ELSE Len(a) + Len(b) + Len(c)]
<1>1. /\ parts \in Seq(Seq(Octets)) /\ Len(parts) = 3
      /\ parts[1] = a /\ parts[2] = b /\ parts[3] = c
  OBVIOUS
<1>2. /\ sum \in [0..3 -> Nat] /\ sum[0] = 0 /\ sum[3] = Len((a \o b) \o c)
      /\ sum[1] = sum[1 - 1] + Len(a) /\ sum[2] = sum[2 - 1] + Len(b)
      /\ sum[3] = sum[3 - 1] + Len(c)
  BY Joined
<1> HIDE DEF parts, sum
<1>3. \A i \in 1..Len(parts) : sum[i] = sum[i - 1] + Len(parts[i])
  <2>1. \A i \in 1..3 : i = 1 \/ i = 2 \/ i = 3
    OBVIOUS
  <2>2. QED
    BY <1>1, <1>2, <2>1
<1>4. BoundedOut(parts, sum, 3)
  BY <1>1, <1>2, <1>3, WrittenParts
<1>5. ASSUME Len(bytes) + sum[3] <= room'
      PROVE  Written(parts).ok /\ Written(parts).out = bytes \o ((a \o b) \o c)
  <2>1. PICK stream \in [0..3 -> Seq(Octets)] :
                /\ stream[0] = bytes /\ Written(parts).out = stream[3]
                /\ \A i \in 1..3 : stream[i] = stream[i - 1] \o parts[i]
    BY <1>4, <1>5 DEF BoundedOut, Chained
  <2>2. stream[1] = bytes \o a /\ stream[2] = stream[1] \o b /\ stream[3] = stream[2] \o c
    <3>1. stream[1] = stream[1 - 1] \o parts[1] /\ stream[2] = stream[2 - 1] \o parts[2]
          /\ stream[3] = stream[3 - 1] \o parts[3]
      <4>1. 1 \in 1..3 /\ 2 \in 1..3 /\ 3 \in 1..3
        OBVIOUS
      <4>2. QED
        BY <2>1, <4>1, Zenon
    <3>2. 1 - 1 = 0 /\ 2 - 1 = 1 /\ 3 - 1 = 2
      OBVIOUS
    <3>3. QED
      BY <1>1, <2>1, <3>1, <3>2, Zenon
  <2>3. /\ a \o b \in Seq(Octets)
        /\ (bytes \o a) \o b = bytes \o (a \o b)
        /\ (bytes \o (a \o b)) \o c = bytes \o ((a \o b) \o c)
    <3>1. FourJoin(bytes, a, b, c)
      BY JoinedFour
    <3>2. QED
      BY <3>1, Zenon DEF FourJoin
  <2>4. Written(parts).ok
    BY <1>4, <1>5 DEF BoundedOut, Chained
  <2>5. QED
    BY <2>1, <2>2, <2>3, <2>4
<1>6. QED
  BY <1>2, <1>4, <1>5 DEF WritesOut, BoundedOut, parts

LEMMA WrittenFour ==
  ASSUME NEW a \in Seq(Octets), NEW b \in Seq(Octets), NEW c \in Seq(Octets),
         NEW d \in Seq(Octets), bytes \in Seq(Octets), room' \in Nat, Len(bytes) <= room'
  PROVE  WritesOut(<<a, b, c, d>>, ((a \o b) \o c) \o d)
<1> DEFINE parts == <<a, b, c, d>>
           sum == [i \in 0..4 |-> IF i = 0 THEN 0 ELSE IF i = 1 THEN Len(a)
                                  ELSE IF i = 2 THEN Len(a) + Len(b)
                                  ELSE IF i = 3 THEN Len(a) + Len(b) + Len(c)
                                  ELSE Len(a) + Len(b) + Len(c) + Len(d)]
<1>1. /\ parts \in Seq(Seq(Octets)) /\ Len(parts) = 4
      /\ parts[1] = a /\ parts[2] = b /\ parts[3] = c /\ parts[4] = d
  OBVIOUS
<1>2. /\ sum \in [0..4 -> Nat] /\ sum[0] = 0
      /\ sum[1] = sum[1 - 1] + Len(a) /\ sum[2] = sum[2 - 1] + Len(b)
      /\ sum[3] = sum[3 - 1] + Len(c) /\ sum[4] = sum[4 - 1] + Len(d)
      /\ sum[4] = Len(((a \o b) \o c) \o d)
  BY Joined
<1> HIDE DEF parts, sum
<1>3. \A i \in 1..Len(parts) : sum[i] = sum[i - 1] + Len(parts[i])
  <2>1. \A i \in 1..4 : i = 1 \/ i = 2 \/ i = 3 \/ i = 4
    OBVIOUS
  <2>2. QED
    BY <1>1, <1>2, <2>1
<1>4. BoundedOut(parts, sum, 4)
  BY <1>1, <1>2, <1>3, WrittenParts
<1>5. ASSUME Len(bytes) + sum[4] <= room'
      PROVE  Written(parts).ok /\ Written(parts).out = bytes \o (((a \o b) \o c) \o d)
  <2>1. PICK stream \in [0..4 -> Seq(Octets)] :
                /\ stream[0] = bytes /\ Written(parts).out = stream[4]
                /\ \A i \in 1..4 : stream[i] = stream[i - 1] \o parts[i]
    BY <1>4, <1>5 DEF BoundedOut, Chained
  <2>2. /\ stream[1] = bytes \o a /\ stream[2] = stream[1] \o b /\ stream[3] = stream[2] \o c
        /\ stream[4] = stream[3] \o d
    <3>1. stream[1] = stream[1 - 1] \o parts[1] /\ stream[2] = stream[2 - 1] \o parts[2]
          /\ stream[3] = stream[3 - 1] \o parts[3] /\ stream[4] = stream[4 - 1] \o parts[4]
      <4>1. 1 \in 1..4 /\ 2 \in 1..4 /\ 3 \in 1..4 /\ 4 \in 1..4
        OBVIOUS
      <4>2. QED
        BY <2>1, <4>1, Zenon
    <3>2. 1 - 1 = 0 /\ 2 - 1 = 1 /\ 3 - 1 = 2 /\ 4 - 1 = 3
      OBVIOUS
    <3>3. QED
      BY <1>1, <2>1, <3>1, <3>2, Zenon
  <2>3. /\ a \o b \in Seq(Octets) /\ (a \o b) \o c \in Seq(Octets)
        /\ (bytes \o a) \o b = bytes \o (a \o b)
        /\ (bytes \o (a \o b)) \o c = bytes \o ((a \o b) \o c)
        /\ (bytes \o ((a \o b) \o c)) \o d = bytes \o (((a \o b) \o c) \o d)
    <3>1. FiveJoin(bytes, a, b, c, d)
      BY JoinedFive
    <3>2. QED
      BY <3>1, Zenon DEF FourJoin, FiveJoin
  <2>4. Written(parts).ok
    BY <1>4, <1>5 DEF BoundedOut, Chained
  <2>5. QED
    BY <2>1, <2>2, <2>3, <2>4
<1>6. QED
  BY <1>2, <1>4, <1>5 DEF WritesOut, BoundedOut, parts


-------------------------------------------------------------------------------
(* The inductive invariant: what a program p, built with the prefix w, the locations l    *)
(* of labels and the forward labels f, is as code.                                       *)

(* The instructions that a client can ask for. *)
Insns == [at : Nat, op : Octets, args : Seq(Int \cup Labels)]
Forwards == [label : Labels, location : Nat, origin : Nat]

Formed(insn) ==
  /\ insn.op \in {LPUSH, CALL, LOAD, INC, JMP}
  /\ insn.op \in {LPUSH, CALL} => insn.args = <<1>>
  /\ insn.op = LOAD => \E local \in Locals : insn.args = <<local>>
  /\ insn.op = INC => \E local \in Locals, by \in Increments : insn.args = <<local, by>>
  /\ insn.op = JMP => \E label \in Labels : insn.args = <<label>>

(* What is written for an instruction: all of it, but of a jump the opcode. *)
Shape(w, insn) ==
  CASE insn.op = LPUSH -> <<LPUSH>> \o Digits(1, 8)
    [] insn.op = CALL -> <<CALL>> \o Digits(1, 2)
    [] insn.op = LOAD -> IF insn.args[1] > Byte - 1
                         THEN (<<w>> \o <<LOAD>>) \o Digits(insn.args[1], 2)
                         ELSE <<LOAD>> \o Digits(insn.args[1], 1)
    [] insn.op = INC -> IF IncIsWide(insn.args[1], insn.args[2])
                        THEN ((<<WIDE>> \o <<INC>>) \o Digits(insn.args[1], 2))
                               \o Digits(insn.args[2], 2)
                        ELSE (<<INC>> \o Digits(insn.args[1], 1)) \o Digits(insn.args[2], 1)
    [] OTHER -> <<JMP>>

Extent(w, insn) == IF insn.op = JMP THEN 3 ELSE Len(Shape(w, insn))

Holds(w, code, insn) ==
  \A j \in 1..Len(Shape(w, insn)) : code[insn.at + j] = Shape(w, insn)[j]

(* One instruction begins where the last one ends, in a code of n bytes. *)
Laid(w, p, n) ==
  /\ p = <<>> => n = 0
  /\ p # <<>> => p[1].at = 0
  /\ \A k \in DOMAIN p :
       p[k].at + Extent(w, p[k]) = IF k < Len(p) THEN p[k + 1].at ELSE n
  /\ \A j, k \in DOMAIN p : j < k => p[j].at + Extent(w, p[j]) <= p[k].at

(* A label is where an instruction begins, or where the code ends. *)
Located(p, l, n) ==
  \A label \in Labels :
    \/ l[label] \in {Unset, n}
    \/ \E k \in DOMAIN p : p[k].at = l[label]

(* The operand of a jump leads to its label. *)
Leads(l, code, insn) ==
  LET to == l[insn.args[1]]
      digits == Digits(Displacement(insn.at + 3, to), 2)
  IN  to # Unset /\ code[insn.at + 2] = digits[1] /\ code[insn.at + 3] = digits[2]

Forward(insn) == [label |-> insn.args[1], location |-> insn.at + 1, origin |-> insn.at + 3]

(* A jump leads to its label, or it is one of the forward labels after the first m. *)
Pending(p, l, f, code, m) ==
  \A k \in DOMAIN p :
    p[k].op = JMP => \/ Leads(l, code, p[k])
                     \/ \E i \in DOMAIN f : i > m /\ f[i] = Forward(p[k])

Forwarded(p, f) ==
  \A i \in DOMAIN f : \E k \in DOMAIN p : p[k].op = JMP /\ f[i] = Forward(p[k])

(* The code holds the program, with the first m of the forward labels patched. *)
Built(w, p, l, f, code, m) ==
  /\ \A k \in DOMAIN p : Holds(w, code, p[k])
  /\ Laid(w, p, Len(code))
  /\ Located(p, l, Len(code))
  /\ Forwarded(p, f)
  /\ Pending(p, l, f, code, m)

(* The code so far, and how many of the forward labels have been patched in it. *)
TheCode == IF phase = "stored" THEN CodeOf(bytes) ELSE bytes
Patches == IF phase = "building" THEN 0 ELSE Len(forwards)

CodeOK(code, m) ==
  /\ code \in Seq(Octets)
  /\ Len(code) <= room
  /\ Len(code) <= 9 * Len(prog)
  /\ ~starved => Built(wideOpcode, prog, location, forwards, code, m)

Sizes ==
  /\ size \in Nat /\ size >= 9
  /\ room \in Nat /\ room <= size
  /\ ~starved => room = size

Programs == { p \in Seq(Insns) : Len(p) <= MaxInsns /\ \A k \in DOMAIN p : Formed(p[k]) }
Locations == [Labels -> Nat \cup {Unset}]

Variables ==
  /\ location \in Locations
  /\ wideOpcode \in {NOP, WIDE}
  /\ starved \in BOOLEAN /\ wide \in BOOLEAN
  /\ phase \in {"building", "stored", "running", "exited"}
  /\ phase \in {"building", "stored"} => pc = 0 /\ ~wide
  /\ forwards \in Seq(Forwards)
  /\ prog \in Programs

(* Where the executor is: behind a prefix if the flag is set. *)
Stands ==
  phase = "running" /\ ~starved /\ (\A k \in DOMAIN prog : Representable(prog[k])) =>
    IF wide THEN \E k \in DOMAIN prog : pc = prog[k].at + 1 /\ Prefixed(prog[k])
    ELSE pc \in Boundaries

CodeInv ==
  /\ Variables
  /\ Sizes
  /\ CodeOK(TheCode, Patches)
  /\ phase = "stored" => bytes = CodeAttribute(TheCode)
  /\ Stands

-------------------------------------------------------------------------------
(* The bytes of the instructions.                                          *)

LEMMA FormedFacts ==
  ASSUME NEW insn, Formed(insn)
  PROVE  /\ insn.op \in {LPUSH, CALL, LOAD, INC, JMP}
         /\ insn.op \in {LPUSH, CALL} => insn.args = <<1>>
         /\ insn.op \in {LOAD, INC} => insn.args[1] \in 0..(Shorts - 1)
         /\ insn.op = LOAD => insn.args = <<insn.args[1]>>
         /\ insn.op = INC => /\ insn.args[2] \in Int /\ FitsShort(insn.args[2])
                             /\ insn.args = <<insn.args[1], insn.args[2]>>
         /\ insn.op = JMP => insn.args[1] \in Labels /\ insn.args = <<insn.args[1]>>
<1>1. insn.op \in {LPUSH, CALL, LOAD, INC, JMP} /\ (insn.op \in {LPUSH, CALL} => insn.args = <<1>>)
  BY DEF Formed
<1>2. ASSUME insn.op = LOAD
      PROVE  insn.args[1] \in 0..(Shorts - 1) /\ insn.args = <<insn.args[1]>>
  <2>1. PICK local \in Locals : insn.args = <<local>>
    BY <1>2 DEF Formed
  <2>2. QED
    BY <2>1, ClientAssumption
<1>3. ASSUME insn.op = INC
      PROVE  /\ insn.args[1] \in 0..(Shorts - 1)
             /\ insn.args[2] \in Int /\ FitsShort(insn.args[2])
             /\ insn.args = <<insn.args[1], insn.args[2]>>
  <2>1. PICK local \in Locals, by \in Increments : insn.args = <<local, by>>
    BY <1>3 DEF Formed
  <2>2. insn.args[1] = local /\ insn.args[2] = by
    BY <2>1
  <2>3. QED
    BY <2>1, <2>2, ClientAssumption
<1>4. ASSUME insn.op = JMP
      PROVE  insn.args[1] \in Labels /\ insn.args = <<insn.args[1]>>
  <2>1. PICK label \in Labels : insn.args = <<label>>
    BY <1>4 DEF Formed
  <2>2. QED
    BY <2>1
<1>5. QED
  BY <1>1, <1>2, <1>3, <1>4

(* Digits of the sizes that instructions have. *)
LEMMA DigitsOf ==
  ASSUME NEW v \in Int
  PROVE  /\ Digits(v, 1) \in Seq(Octets) /\ Len(Digits(v, 1)) = 1
         /\ Digits(v, 2) \in Seq(Octets) /\ Len(Digits(v, 2)) = 2
         /\ Digits(v, 4) \in Seq(Octets) /\ Len(Digits(v, 4)) = 4
         /\ Digits(v, 8) \in Seq(Octets) /\ Len(Digits(v, 8)) = 8
BY DigitsType

LEMMA ShapeOfConstant ==
  ASSUME NEW w, NEW insn, insn.op \in {LPUSH, CALL}
  PROVE  LET s == Shape(w, insn)
             n == IF insn.op = LPUSH THEN 8 ELSE 2
         IN  /\ s \in Seq(Octets) /\ Len(s) = n + 1 /\ Extent(w, insn) = n + 1
             /\ s[1] = insn.op
             /\ \A j \in 1..n : s[1 + j] = Digits(1, n)[j]
<1> DEFINE n == IF insn.op = LPUSH THEN 8 ELSE 2
           d == Digits(1, n)
           s == <<insn.op>> \o d
<1>1. d \in Seq(Octets) /\ Len(d) = n /\ n \in Nat /\ insn.op \in Octets
  <2>1. n \in Nat /\ insn.op \in Octets
    BY OpcodeFacts
  <2> HIDE DEF n
  <2>2. d \in Seq(Octets) /\ Len(d) = n
    BY <2>1, DigitsType
  <2>3. QED
    BY <2>1, <2>2
<1>2. Shape(w, insn) = s
  BY OpcodeFacts DEF Shape
<1> HIDE DEF n, d
<1>3. s \in Seq(Octets) /\ Len(s) = 1 + n /\ s[1] = insn.op /\ \A j \in 1..n : s[1 + j] = d[j]
  BY <1>1, OneThen
<1> HIDE DEF s
<1>4. Extent(w, insn) = n + 1
  BY <1>1, <1>2, <1>3, OpcodeFacts DEF Extent
<1>5. Len(s) = n + 1
  BY <1>1, <1>3
<1>6. QED
  BY <1>2, <1>3, <1>4, <1>5 DEF n, d

LEMMA ShapeOfLoad ==
  ASSUME NEW w \in Octets, NEW insn, insn.op = LOAD, insn.args[1] \in Int
  PROVE  LET s == Shape(w, insn)
             v == insn.args[1]
         IN  /\ s \in Seq(Octets) /\ Extent(w, insn) = Len(s)
             /\ v > Byte - 1 => /\ Len(s) = 4 /\ s[1] = w /\ s[2] = LOAD
                                /\ \A j \in 1..2 : s[2 + j] = Digits(v, 2)[j]
             /\ ~ (v > Byte - 1) => /\ Len(s) = 2 /\ s[1] = LOAD
                                    /\ \A j \in 1..1 : s[1 + j] = Digits(v, 1)[j]
<1> DEFINE v == insn.args[1]
           d1 == Digits(v, 1)
           d2 == Digits(v, 2)
           a == <<w>> \o <<LOAD>>
<1>1. d1 \in Seq(Octets) /\ Len(d1) = 1 /\ d2 \in Seq(Octets) /\ Len(d2) = 2
  BY DigitsOf
<1>2. Shape(w, insn) = IF v > Byte - 1 THEN a \o d2 ELSE <<LOAD>> \o d1
  BY OpcodeFacts DEF Shape
<1>3. Extent(w, insn) = Len(Shape(w, insn))
  BY OpcodeFacts DEF Extent
<1>4. a \in Seq(Octets) /\ Len(a) = 2 /\ a[1] = w /\ a[2] = LOAD
  BY OpcodeFacts
<1> HIDE DEF v, d1, d2, a
<1>5. CASE v > Byte - 1
  <2> DEFINE b == a \o d2
  <2>5. IsJoined(b, a, 2, d2, 2)
    BY <1>1, <1>4, JoinedAt
  <2>2. Shape(w, insn) = b
    BY <1>2, <1>5
  <2> HIDE DEF b
  <2>1. /\ b \in Seq(Octets) /\ Len(b) = 2 + 2 /\ \A i \in 1..2 : b[i] = a[i]
        /\ \A j \in 1..2 : b[2 + j] = d2[j]
    BY <2>5 DEF IsJoined
  <2>3. Len(b) = 4 /\ b[1] = w /\ b[2] = LOAD
    BY <1>4, <2>1
  <2>4. QED
    BY <1>3, <1>5, <2>1, <2>2, <2>3 DEF v, d2
<1>6. CASE ~ (v > Byte - 1)
  <2> DEFINE a1 == <<LOAD>>
             b == a1 \o d1
  <2>4. a1 \in Seq(Octets) /\ Len(a1) = 1 /\ a1[1] = LOAD
    BY OpcodeFacts
  <2> HIDE DEF a1
  <2>5. IsJoined(b, a1, 1, d1, 1)
    BY <1>1, <2>4, JoinedAt
  <2>2. Shape(w, insn) = b
    BY <1>2, <1>6 DEF a1
  <2> HIDE DEF b
  <2>1. /\ b \in Seq(Octets) /\ Len(b) = 2 /\ b[1] = LOAD
        /\ \A j \in 1..1 : b[1 + j] = d1[j]
    BY <2>4, <2>5 DEF IsJoined
  <2>3. QED
    BY <1>3, <1>6, <2>1, <2>2 DEF v, d1
<1>7. QED
  BY <1>5, <1>6

LEMMA ShapeOfInc ==
  ASSUME NEW w, NEW insn, insn.op = INC, insn.args[1] \in Int, insn.args[2] \in Int
  PROVE  LET s == Shape(w, insn)
             v == insn.args[1]
             by == insn.args[2]
         IN  /\ s \in Seq(Octets) /\ Extent(w, insn) = Len(s)
             /\ IncIsWide(v, by) =>
                  /\ Len(s) = 6 /\ s[1] = WIDE /\ s[2] = INC
                  /\ \A j \in 1..2 : s[2 + j] = Digits(v, 2)[j]
                  /\ \A j \in 1..2 : s[4 + j] = Digits(by, 2)[j]
             /\ ~ IncIsWide(v, by) =>
                  /\ Len(s) = 3 /\ s[1] = INC
                  /\ \A j \in 1..1 : s[1 + j] = Digits(v, 1)[j]
                  /\ \A j \in 1..1 : s[2 + j] = Digits(by, 1)[j]
<1> DEFINE v == insn.args[1]
           by == insn.args[2]
           a == <<WIDE>> \o <<INC>>
           d1 == Digits(v, 1)
           d2 == Digits(v, 2)
           e1 == Digits(by, 1)
           e2 == Digits(by, 2)
<1>1. /\ d1 \in Seq(Octets) /\ Len(d1) = 1 /\ d2 \in Seq(Octets) /\ Len(d2) = 2
      /\ e1 \in Seq(Octets) /\ Len(e1) = 1 /\ e2 \in Seq(Octets) /\ Len(e2) = 2
  BY DigitsOf
<1>2. Shape(w, insn) = IF IncIsWide(v, by) THEN (a \o d2) \o e2 ELSE (<<INC>> \o d1) \o e1
  BY OpcodeFacts DEF Shape
<1>3. Extent(w, insn) = Len(Shape(w, insn))
  BY OpcodeFacts DEF Extent
<1>4. a \in Seq(Octets) /\ Len(a) = 2 /\ a[1] = WIDE /\ a[2] = INC
  BY OpcodeFacts
<1> HIDE DEF v, by, d1, d2, e1, e2, a
<1>5. CASE IncIsWide(v, by)
  <2> DEFINE b == a \o d2
             c == b \o e2
  <2>8. IsJoined(b, a, 2, d2, 2)
    BY <1>1, <1>4, JoinedAt
  <2> HIDE DEF b
  <2>1. /\ b \in Seq(Octets) /\ Len(b) = 4 /\ \A i \in 1..2 : b[i] = a[i]
        /\ \A j \in 1..2 : b[2 + j] = d2[j]
    BY <2>8 DEF IsJoined
  <2>9. IsJoined(c, b, 4, e2, 2)
    BY <1>1, <2>1, JoinedAt
  <2>4. Shape(w, insn) = c
    BY <1>2, <1>5 DEF b
  <2> HIDE DEF c
  <2>3. /\ c \in Seq(Octets) /\ Len(c) = 4 + 2 /\ \A i \in 1..4 : c[i] = b[i]
        /\ \A j \in 1..2 : c[4 + j] = e2[j]
    BY <2>9 DEF IsJoined
  <2>5. \A j \in 1..2 : 2 + j \in 1..4
    OBVIOUS
  <2>6. Len(c) = 6 /\ c[1] = WIDE /\ c[2] = INC /\ \A j \in 1..2 : c[2 + j] = d2[j]
    BY <1>4, <2>1, <2>3, <2>5
  <2>7. QED
    BY <1>3, <1>5, <2>3, <2>4, <2>6 DEF v, by, d2, e2
<1>6. CASE ~ IncIsWide(v, by)
  <2> DEFINE a1 == <<INC>>
             b == a1 \o d1
             c == b \o e1
  <2>2. a1 \in Seq(Octets) /\ Len(a1) = 1 /\ a1[1] = INC
    BY OpcodeFacts
  <2> HIDE DEF a1
  <2>8. IsJoined(b, a1, 1, d1, 1)
    BY <1>1, <2>2, JoinedAt
  <2> HIDE DEF b
  <2>1. /\ b \in Seq(Octets) /\ Len(b) = 2 /\ b[1] = INC
        /\ \A j \in 1..1 : b[1 + j] = d1[j]
    BY <2>2, <2>8 DEF IsJoined
  <2>9. IsJoined(c, b, 2, e1, 1)
    BY <1>1, <2>1, JoinedAt
  <2>4. Shape(w, insn) = c
    BY <1>2, <1>6 DEF a1, b
  <2> HIDE DEF c
  <2>3. /\ c \in Seq(Octets) /\ Len(c) = 2 + 1 /\ \A i \in 1..2 : c[i] = b[i]
        /\ \A j \in 1..1 : c[2 + j] = e1[j]
    BY <2>9 DEF IsJoined
  <2>5. \A j \in 1..1 : 1 + j \in 1..2
    OBVIOUS
  <2>6. Len(c) = 3 /\ c[1] = INC /\ \A j \in 1..1 : c[1 + j] = d1[j]
    BY <2>1, <2>3, <2>5
  <2>7. QED
    BY <1>3, <1>6, <2>3, <2>4, <2>6 DEF v, by, d1, e1
<1>7. QED
  BY <1>5, <1>6

LEMMA ShapeOfJump ==
  ASSUME NEW w, NEW insn, insn.op = JMP
  PROVE  Shape(w, insn) = <<JMP>> /\ Extent(w, insn) = 3
BY OpcodeFacts DEF Shape, Extent

(* An instruction is its first byte at least, and no longer than nine. *)
LEMMA ShapeType ==
  ASSUME NEW w \in Octets, NEW insn, Formed(insn)
  PROVE  /\ Shape(w, insn) \in Seq(Octets)
         /\ Len(Shape(w, insn)) \in Nat /\ Len(Shape(w, insn)) >= 1
         /\ Extent(w, insn) \in Nat /\ Len(Shape(w, insn)) <= Extent(w, insn)
         /\ Extent(w, insn) <= 9
<1>1. CASE insn.op \in {LPUSH, CALL}
  <2> DEFINE s == Shape(w, insn)
             n == IF insn.op = LPUSH THEN 8 ELSE 2
  <2>1. s \in Seq(Octets) /\ Extent(w, insn) = n + 1 /\ Len(s) = n + 1
    BY <1>1, ShapeOfConstant
  <2>2. QED
    BY <2>1
<1>2. CASE insn.op = LOAD
  <2>1. insn.args[1] \in Int
    BY <1>2, FormedFacts, OpcodeFacts DEF Shorts
  <2> DEFINE s == Shape(w, insn)
  <2>2. s \in Seq(Octets) /\ Extent(w, insn) = Len(s) /\ (Len(s) = 4 \/ Len(s) = 2)
    BY <1>2, <2>1, ShapeOfLoad
  <2>3. QED
    BY <2>2
<1>3. CASE insn.op = INC
  <2>1. insn.args[1] \in Int /\ insn.args[2] \in Int
    BY <1>3, FormedFacts, OpcodeFacts DEF Shorts
  <2> DEFINE s == Shape(w, insn)
  <2>2. s \in Seq(Octets) /\ Extent(w, insn) = Len(s) /\ (Len(s) = 6 \/ Len(s) = 3)
    BY <1>3, <2>1, ShapeOfInc
  <2>3. QED
    BY <2>2
<1>4. CASE insn.op = JMP
  <2>1. Shape(w, insn) = <<JMP>> /\ Extent(w, insn) = 3 /\ JMP \in Octets
    BY <1>4, ShapeOfJump, OpcodeFacts
  <2>2. <<JMP>> \in Seq(Octets) /\ Len(<<JMP>>) = 1
    BY <2>1
  <2>3. QED
    BY <2>1, <2>2
<1>5. QED
  BY <1>1, <1>2, <1>3, <1>4, FormedFacts


-------------------------------------------------------------------------------
(* What building does to the code.                                         *)

(* Every instruction is within the code. *)
LEMMA Within ==
  ASSUME NEW w \in Octets, NEW p \in Programs, NEW n \in Nat, Laid(w, p, n),
         NEW k \in DOMAIN p
  PROVE  /\ p[k].at \in Nat /\ Formed(p[k])
         /\ Extent(w, p[k]) \in Nat /\ Len(Shape(w, p[k])) \in Nat
         /\ 1 <= Len(Shape(w, p[k])) /\ Len(Shape(w, p[k])) <= Extent(w, p[k])
         /\ p[k].op = JMP => Extent(w, p[k]) = 3
         /\ p[k].at + Extent(w, p[k]) <= n
<1>1. p \in Seq(Insns) /\ DOMAIN p = 1..Len(p) /\ Len(p) \in Nat /\ \A i \in DOMAIN p : Formed(p[i])
  BY DEF Programs
<1>2. \A i \in DOMAIN p : p[i].at \in Nat
  <2>1. \A i \in DOMAIN p : p[i] \in Insns
    BY <1>1
  <2>2. \A insn \in Insns : insn.at \in Nat
    BY DEF Insns
  <2>3. QED
    BY <2>1, <2>2
<1>3. \A i \in DOMAIN p :
        /\ Extent(w, p[i]) \in Nat /\ Len(Shape(w, p[i])) \in Nat
        /\ 1 <= Len(Shape(w, p[i])) /\ Len(Shape(w, p[i])) <= Extent(w, p[i])
  BY <1>1, ShapeType
<1>4. p[k].op = JMP => Extent(w, p[k]) = 3
  BY ShapeOfJump
<1>5. p[k].at + Extent(w, p[k]) <= n
  <2> DEFINE e == Len(p)
  <2>1. e \in DOMAIN p /\ ~ (e < Len(p)) /\ (k = e \/ k < e)
    BY <1>1
  <2>2. p[e].at + Extent(w, p[e]) = n
    BY <2>1 DEF Laid
  <2>3. CASE k = e
    BY <1>2, <1>3, <2>2, <2>3
  <2>4. CASE k < e
    <3>1. p[k].at + Extent(w, p[k]) <= p[e].at
      BY <2>1, <2>4 DEF Laid
    <3>2. QED
      BY <1>2, <1>3, <2>1, <2>2, <3>1
  <2>5. QED
    BY <2>1, <2>3, <2>4
<1>6. QED
  BY <1>1, <1>2, <1>3, <1>4, <1>5

(* A program with one instruction more. *)
LEMMA Longer ==
  ASSUME NEW p \in Seq(Insns), NEW insn \in Insns
  PROVE  LET q == Append(p, insn)
         IN  /\ q \in Seq(Insns) /\ Len(q) = Len(p) + 1 /\ q # <<>> /\ Len(p) \in Nat
             /\ q[Len(p) + 1] = insn /\ Len(p) + 1 \in DOMAIN q
             /\ \A k \in DOMAIN p : k \in DOMAIN q /\ q[k] = p[k] /\ k < Len(q) /\ k \in 1..Len(p)
             /\ \A k \in DOMAIN q : k \in DOMAIN p \/ k = Len(p) + 1
OBVIOUS

LEMMA LaidAppend ==
  ASSUME NEW w \in Octets, NEW p \in Programs, NEW n \in Nat, Laid(w, p, n),
         NEW insn \in Insns, Formed(insn), insn.at = n
  PROVE  Laid(w, Append(p, insn), n + Extent(w, insn))
<1> DEFINE q == Append(p, insn)
           e == Len(p)
<1>1. /\ p \in Seq(Insns) /\ q \in Seq(Insns) /\ Len(q) = e + 1 /\ q # <<>> /\ e \in Nat
      /\ q[e + 1] = insn /\ e + 1 \in DOMAIN q
      /\ \A k \in DOMAIN p : k \in DOMAIN q /\ q[k] = p[k] /\ k < Len(q) /\ k \in 1..e
      /\ \A k \in DOMAIN q : k \in DOMAIN p \/ k = e + 1
  BY Longer DEF Programs
<1>2. DOMAIN p = 1..e
  BY <1>1
<1> HIDE DEF q, e
<1>3. Extent(w, insn) \in Nat
  BY ShapeType
<1>4. q[1].at = 0
  <2>1. CASE e = 0
    <3>1. p = <<>>
      BY <1>1, <2>1 DEF e
    <3>2. QED
      BY <1>1, <2>1, <3>1 DEF Laid
  <2>2. CASE e # 0
    <3>1. 1 \in DOMAIN p /\ p # <<>>
      BY <1>1, <1>2, <2>2
    <3>2. QED
      BY <1>1, <3>1 DEF Laid
  <2>3. QED
    BY <2>1, <2>2
<1>5. ASSUME NEW k \in DOMAIN q
      PROVE  q[k].at + Extent(w, q[k]) = IF k < Len(q) THEN q[k + 1].at ELSE n + Extent(w, insn)
  <2>1. CASE k = e + 1
    BY <1>1, <2>1
  <2>2. CASE k \in DOMAIN p
    <3>1. p[k].at + Extent(w, p[k]) = IF k < e THEN p[k + 1].at ELSE n
      BY <2>2 DEF Laid, e
    <3>2. k < e => q[k + 1] = p[k + 1]
      BY <1>1, <1>2, <2>2
    <3>3. ~ (k < e) => q[k + 1] = insn
      BY <1>1, <1>2, <2>2
    <3>4. QED
      BY <1>1, <2>2, <3>1, <3>2, <3>3
  <2>3. QED
    BY <1>1, <2>1, <2>2
<1>6. ASSUME NEW j \in DOMAIN q, NEW k \in DOMAIN q, j < k
      PROVE  q[j].at + Extent(w, q[j]) <= q[k].at
  <2>1. j \in DOMAIN p
    BY <1>1, <1>2, <1>6
  <2>2. CASE k \in DOMAIN p
    BY <1>1, <1>6, <2>1, <2>2 DEF Laid
  <2>3. CASE k = e + 1
    BY <1>1, <2>1, <2>3, Within
  <2>4. QED
    BY <1>1, <2>2, <2>3
<1>7. QED
  BY <1>1, <1>4, <1>5, <1>6 DEF Laid, q

(* The code goes on, and what was there is as it was. *)
LEMMA HoldsOn ==
  ASSUME NEW w \in Octets, NEW p \in Programs, NEW code \in Seq(Octets),
         Laid(w, p, Len(code)), NEW k \in DOMAIN p,
         NEW code2, \A i \in 1..Len(code) : code2[i] = code[i]
  PROVE  /\ Holds(w, code, p[k]) => Holds(w, code2, p[k])
         /\ \A l : p[k].op = JMP /\ Leads(l, code, p[k]) => Leads(l, code2, p[k])
<1>1. /\ p[k].at \in Nat /\ Extent(w, p[k]) \in Nat /\ Len(Shape(w, p[k])) \in Nat
      /\ Len(Shape(w, p[k])) <= Extent(w, p[k]) /\ Len(code) \in Nat
      /\ p[k].op = JMP => Extent(w, p[k]) = 3
      /\ p[k].at + Extent(w, p[k]) <= Len(code)
  BY Within
<1>2. \A j \in 1..Len(Shape(w, p[k])) : p[k].at + j \in 1..Len(code)
  BY <1>1
<1>3. Holds(w, code, p[k]) => Holds(w, code2, p[k])
  BY <1>2 DEF Holds
<1>4. p[k].op = JMP => p[k].at + 2 \in 1..Len(code) /\ p[k].at + 3 \in 1..Len(code)
  BY <1>1
<1>5. QED
  BY <1>3, <1>4 DEF Leads

LEMMA BuiltAppend ==
  ASSUME NEW w \in Octets, NEW p \in Programs, NEW l \in Locations, NEW f \in Seq(Forwards),
         NEW code \in Seq(Octets), Built(w, p, l, f, code, 0),
         NEW insn \in Insns, Formed(insn), insn.at = Len(code),
         NEW code2 \in Seq(Octets), Len(code2) = Len(code) + Extent(w, insn),
         \A i \in 1..Len(code) : code2[i] = code[i], Holds(w, code2, insn),
         NEW f2, f2 = f \/ (insn.op = JMP /\ f2 = Append(f, Forward(insn))),
         insn.op = JMP => Leads(l, code2, insn) \/ f2 = Append(f, Forward(insn)),
         Forward(insn) \in Forwards \/ insn.op # JMP
  PROVE  Built(w, Append(p, insn), l, f2, code2, 0)
<1> DEFINE q == Append(p, insn)
           e == Len(p)
<1>1. /\ p \in Seq(Insns) /\ q \in Seq(Insns) /\ Len(q) = e + 1 /\ q # <<>> /\ e \in Nat
      /\ q[e + 1] = insn /\ e + 1 \in DOMAIN q
      /\ \A k \in DOMAIN p : k \in DOMAIN q /\ q[k] = p[k] /\ k < Len(q) /\ k \in 1..e
      /\ \A k \in DOMAIN q : k \in DOMAIN p \/ k = e + 1
  BY Longer DEF Programs
<1>2. /\ \A k \in DOMAIN p : Holds(w, code, p[k])
      /\ Laid(w, p, Len(code)) /\ Located(p, l, Len(code))
      /\ Forwarded(p, f) /\ Pending(p, l, f, code, 0)
  BY DEF Built
<1>3. Laid(w, q, Len(code2))
  BY <1>2, LaidAppend
<1> HIDE DEF q, e
<1>4. \A k \in DOMAIN q : Holds(w, code2, q[k])
  <2>1. \A k \in DOMAIN p : Holds(w, code2, p[k])
    BY <1>2, HoldsOn
  <2>2. QED
    BY <1>1, <2>1
<1>5. Located(q, l, Len(code2))
  <2> SUFFICES ASSUME NEW label \in Labels
               PROVE  \/ l[label] \in {Unset, Len(code2)}
                      \/ \E k \in DOMAIN q : q[k].at = l[label]
    BY DEF Located
  <2>1. \/ l[label] = Unset \/ l[label] = Len(code)
        \/ \E k \in DOMAIN p : p[k].at = l[label]
    BY <1>2 DEF Located
  <2>2. l[label] = Len(code) => q[e + 1].at = l[label]
    BY <1>1
  <2>3. QED
    BY <1>1, <2>1, <2>2
<1>6. f2 = f \/ (/\ insn.op = JMP /\ Len(f2) = Len(f) + 1 /\ f2[Len(f) + 1] = Forward(insn)
                 /\ Len(f) + 1 \in DOMAIN f2 /\ Len(f) \in Nat
                 /\ \A i \in DOMAIN f : i \in DOMAIN f2 /\ f2[i] = f[i]
                 /\ \A i \in DOMAIN f2 : i \in DOMAIN f \/ i = Len(f) + 1)
  <2> DEFINE x == Forward(insn)
  <2>1. CASE f2 = f
    BY <2>1
  <2>2. CASE insn.op = JMP /\ f2 = Append(f, x)
    <3>1. x \in Forwards
      BY <2>2
    <3> HIDE DEF x
    <3>2. /\ Len(f2) = Len(f) + 1 /\ f2[Len(f) + 1] = x
          /\ Len(f) + 1 \in DOMAIN f2 /\ Len(f) \in Nat
          /\ \A i \in DOMAIN f : i \in DOMAIN f2 /\ f2[i] = f[i]
          /\ \A i \in DOMAIN f2 : i \in DOMAIN f \/ i = Len(f) + 1
      BY <2>2, <3>1
    <3>3. QED
      BY <2>2, <3>2 DEF x
  <2>3. QED
    BY <2>1, <2>2
<1>7. Forwarded(q, f2)
  <2>1. ASSUME NEW i \in DOMAIN f2
        PROVE  \E k \in DOMAIN q : q[k].op = JMP /\ f2[i] = Forward(q[k])
    <3>1. CASE i \in DOMAIN f /\ f2[i] = f[i]
      <4>1. PICK k \in DOMAIN p : p[k].op = JMP /\ f[i] = Forward(p[k])
        BY <1>2, <3>1 DEF Forwarded
      <4>2. k \in DOMAIN q /\ q[k] = p[k]
        BY <1>1
      <4>3. QED
        BY <3>1, <4>1, <4>2
    <3>2. CASE insn.op = JMP /\ f2[i] = Forward(insn)
      BY <1>1, <3>2
    <3>3. QED
      BY <1>6, <3>1, <3>2
  <2>2. QED
    BY <2>1 DEF Forwarded
<1>8. Pending(q, l, f2, code2, 0)
  <2>1. ASSUME NEW k \in DOMAIN q, q[k].op = JMP
        PROVE  \/ Leads(l, code2, q[k])
               \/ \E i \in DOMAIN f2 : i > 0 /\ f2[i] = Forward(q[k])
    <3>1. CASE k \in DOMAIN p
      <4>1. q[k] = p[k] /\ p[k].op = JMP
        BY <1>1, <2>1, <3>1
      <4>2. CASE Leads(l, code, p[k])
        BY <1>2, <3>1, <4>1, <4>2, HoldsOn
      <4>3. CASE \E i \in DOMAIN f : i > 0 /\ f[i] = Forward(p[k])
        <5>1. PICK i \in DOMAIN f : i > 0 /\ f[i] = Forward(p[k])
          BY <4>3
        <5>2. i \in DOMAIN f2 /\ f2[i] = f[i]
          BY <1>6
        <5>3. QED
          BY <4>1, <5>1, <5>2
      <4>4. QED
        BY <1>2, <3>1, <4>1, <4>2, <4>3 DEF Pending
    <3>2. CASE k = e + 1
      <4>1. q[k] = insn /\ insn.op = JMP
        BY <1>1, <2>1, <3>2
      <4>2. CASE Leads(l, code2, insn)
        BY <4>1, <4>2
      <4>3. CASE f2 = Append(f, Forward(insn))
        <5>1. f2[Len(f) + 1] = Forward(insn) /\ Len(f) + 1 \in DOMAIN f2 /\ Len(f) + 1 > 0
          BY <4>3
        <5>2. QED
          BY <4>1, <5>1
      <4>4. QED
        BY <4>1, <4>2, <4>3
    <3>3. QED
      BY <1>1, <3>1, <3>2
  <2>2. QED
    BY <2>1 DEF Pending
<1>9. QED
  BY <1>3, <1>4, <1>5, <1>7, <1>8 DEF Built, q

(* A label is added where the code ends. *)
LEMMA BuiltLabel ==
  ASSUME NEW w, NEW p \in Programs, NEW l \in Locations, NEW f,
         NEW code, Built(w, p, l, f, code, 0), NEW label \in Labels, l[label] = Unset
  PROVE  Built(w, p, [l EXCEPT ![label] = Len(code)], f, code, 0)
<1> DEFINE l2 == [l EXCEPT ![label] = Len(code)]
<1>1. \A x \in Labels : l2[x] = IF x = label THEN Len(code) ELSE l[x]
  BY DEF Locations
<1> HIDE DEF l2
<1>2. /\ \A k \in DOMAIN p : Holds(w, code, p[k])
      /\ Laid(w, p, Len(code)) /\ Located(p, l, Len(code))
      /\ Forwarded(p, f) /\ Pending(p, l, f, code, 0)
  BY DEF Built
<1>3. Located(p, l2, Len(code))
  BY <1>1, <1>2 DEF Located
<1>4. ASSUME NEW k \in DOMAIN p, p[k].op = JMP, Leads(l, code, p[k])
      PROVE  Leads(l2, code, p[k])
  <2>1. Formed(p[k])
    BY DEF Programs
  <2>2. p[k].args[1] \in Labels
    BY <1>4, <2>1, FormedFacts
  <2>3. l2[p[k].args[1]] = l[p[k].args[1]]
    BY <1>1, <1>4, <2>2 DEF Leads
  <2>4. QED
    BY <1>4, <2>3 DEF Leads
<1>5. Pending(p, l2, f, code, 0)
  BY <1>2, <1>4 DEF Pending
<1>6. QED
  BY <1>2, <1>3, <1>5 DEF Built, l2


(* The code c is the other with d at the place of a forward label. *)
IsPatched(c, code, at, d) ==
  /\ c \in Seq(Octets) /\ Len(c) = Len(code)
  /\ \A x \in 1..Len(code) :
       c[x] = IF x = at + 2 THEN d[2] ELSE IF x = at + 1 THEN d[1] ELSE code[x]

(* What patching one jump does, wherever it is. *)
LEMMA PatchedIs ==
  ASSUME location \in Locations, NEW code \in Seq(Octets), NEW forward \in Forwards,
         NEW d, d = Digits(Displacement(forward.origin, location[forward.label]), 2)
  PROVE  IsPatched(Patched(code, forward), code, forward.location, d)
<1>1. /\ forward.origin \in Nat /\ forward.location \in Nat /\ forward.label \in Labels
  BY DEF Forwards
<1>2. location[forward.label] \in Int
  BY <1>1 DEF Locations, Unset
<1>3. Displacement(forward.origin, location[forward.label]) \in Int
  BY <1>1, <1>2 DEF Displacement
<1>4. d \in Seq(Octets) /\ Len(d) = 2
  BY <1>3, DigitsOf
<1>5. d[1] \in Octets /\ d[2] \in Octets
  BY <1>4
<1>6. Patched(code, forward) = [code EXCEPT ![forward.location + 1] = d[1],
                                            ![forward.location + 2] = d[2]]
  BY DEF Patched
<1> DEFINE a == forward.location + 1
           b == forward.location + 2
           c == [code EXCEPT ![a] = d[1], ![b] = d[2]]
<1>7. a \in Int /\ b \in Int /\ a # b
  BY <1>1
<1> HIDE DEF a, b
<1>8. c \in Seq(Octets) /\ Len(c) = Len(code)
  <2>1. code \in [1..Len(code) -> Octets] /\ Len(code) \in Nat
    OBVIOUS
  <2>2. c \in [1..Len(code) -> Octets]
    BY <1>5, <2>1
  <2> HIDE DEF c
  <2>3. QED
    BY <2>1, <2>2
<1>9. \A x \in 1..Len(code) : c[x] = IF x = b THEN d[2] ELSE IF x = a THEN d[1] ELSE code[x]
  BY <1>5, <1>7
<1>10. Patched(code, forward) = c
  BY <1>6 DEF a, b
<1> HIDE DEF c
<1>11. QED
  BY <1>8, <1>9, <1>10 DEF IsPatched, a, b

LEMMA PatchedType ==
  ASSUME location \in Locations, NEW code \in Seq(Octets), NEW forward \in Forwards
  PROVE  Patched(code, forward) \in Seq(Octets) /\ Len(Patched(code, forward)) = Len(code)
BY PatchedIs DEF IsPatched

LEMMA BuiltPatched ==
  ASSUME NEW w \in Octets, NEW p \in Programs, location \in Locations,
         NEW f \in Seq(Forwards), NEW code \in Seq(Octets),
         \A i \in DOMAIN f : location[f[i].label] # Unset,
         NEW m \in DOMAIN f, Built(w, p, location, f, code, m - 1)
  PROVE  Built(w, p, location, f, Patched(code, f[m]), m)
<1> DEFINE l == location
           new == Patched(code, f[m])
<1>1. /\ \A k \in DOMAIN p : Holds(w, code, p[k])
      /\ Laid(w, p, Len(code)) /\ Located(p, l, Len(code))
      /\ Forwarded(p, f) /\ Pending(p, l, f, code, m - 1)
  BY DEF Built
<1>2. PICK j \in DOMAIN p : p[j].op = JMP /\ f[m] = Forward(p[j])
  BY <1>1 DEF Forwarded
<1> DEFINE x == p[j].at
           d == Digits(Displacement(x + 3, l[p[j].args[1]]), 2)
<1>3. \A k \in DOMAIN p :
        /\ p[k].at \in Nat /\ Extent(w, p[k]) \in Nat /\ Len(Shape(w, p[k])) \in Nat
        /\ 1 <= Len(Shape(w, p[k])) /\ Len(Shape(w, p[k])) <= Extent(w, p[k])
        /\ p[k].op = JMP => Extent(w, p[k]) = 3
        /\ p[k].at + Extent(w, p[k]) <= Len(code)
  BY <1>1, Within
<1>4. f[m] \in Forwards /\ m \in Nat /\ m \in 1..Len(f)
  OBVIOUS
<1>5. /\ f[m].label = p[j].args[1] /\ f[m].location = x + 1 /\ f[m].origin = x + 3
  BY <1>2 DEF Forward
<1>7. x \in Nat /\ Len(code) \in Nat /\ x + 3 <= Len(code)
  BY <1>2, <1>3
<1>16. d = Digits(Displacement(f[m].origin, location[f[m].label]), 2)
  BY <1>5
<1> HIDE DEF x, d
<1>6. /\ new \in Seq(Octets) /\ Len(new) = Len(code)
      /\ \A y \in 1..Len(code) : new[y] = IF y = x + 3 THEN d[2]
                                          ELSE IF y = x + 2 THEN d[1] ELSE code[y]
  <2>1. IsPatched(new, code, f[m].location, d)
    BY <1>4, <1>16, PatchedIs
  <2>2. f[m].location + 2 = x + 3 /\ f[m].location + 1 = x + 2
    BY <1>5, <1>7
  <2> HIDE DEF new
  <2>3. QED
    BY <2>1, <2>2 DEF IsPatched
<1> HIDE DEF new
<1>8. new[x + 2] = d[1] /\ new[x + 3] = d[2]
  <2>1. x + 2 \in 1..Len(code) /\ x + 3 \in 1..Len(code) /\ x + 2 # x + 3
    BY <1>7
  <2>2. QED
    BY <1>6, <2>1
<1>9. \A y \in 1..Len(code) : y # x + 2 /\ y # x + 3 => new[y] = code[y]
  BY <1>6, <1>7
<1>10. l[p[j].args[1]] # Unset
  BY <1>4, <1>5
<1>11. Leads(l, new, p[j])
  BY <1>8, <1>10 DEF Leads, d, x
<1>12. ASSUME NEW k \in DOMAIN p, k # j
       PROVE  \A i \in 1..Extent(w, p[k]) :
                /\ p[k].at + i \in 1..Len(code)
                /\ p[k].at + i # x + 2 /\ p[k].at + i # x + 3
  <2>1. Extent(w, p[j]) = 3
    BY <1>2, <1>3
  <2>2. k < j \/ j < k
    BY <1>12 DEF Programs
  <2>3. k < j => p[k].at + Extent(w, p[k]) <= x
    BY <1>1 DEF Laid, x
  <2>4. j < k => x + 3 <= p[k].at
    BY <1>1, <2>1 DEF Laid, x
  <2> DEFINE y == p[k].at
             e == Extent(w, p[k])
  <2>5. y \in Nat /\ e \in Nat /\ y + e <= Len(code) /\ (y + e <= x \/ x + 3 <= y)
    BY <1>3, <2>2, <2>3, <2>4
  <2> HIDE DEF y, e
  <2>6. \A i \in 1..e : y + i \in 1..Len(code) /\ y + i # x + 2 /\ y + i # x + 3
    BY <1>7, <2>5
  <2>7. QED
    BY <2>6 DEF y, e
<1>13. ASSUME NEW k \in DOMAIN p
       PROVE  Holds(w, new, p[k])
  <2>1. CASE k = j
    <3>1. Shape(w, p[j]) = <<JMP>> /\ Len(<<JMP>>) = 1
      BY <1>2, ShapeOfJump
    <3>2. \A i \in 1..1 : x + i \in 1..Len(code) /\ x + i # x + 2 /\ x + i # x + 3
      BY <1>7
    <3>3. Holds(w, code, p[j])
      BY <1>1
    <3>4. QED
      BY <1>9, <2>1, <3>1, <3>2, <3>3 DEF Holds, x
  <2>2. CASE k # j
    <3>1. \A i \in 1..Len(Shape(w, p[k])) : i \in 1..Extent(w, p[k])
      BY <1>3
    <3>2. Holds(w, code, p[k])
      BY <1>1
    <3>3. QED
      BY <1>9, <1>12, <2>2, <3>1, <3>2 DEF Holds
  <2>3. QED
    BY <2>1, <2>2
<1>14. ASSUME NEW k \in DOMAIN p, p[k].op = JMP
       PROVE  \/ Leads(l, new, p[k])
              \/ \E i \in DOMAIN f : i > m /\ f[i] = Forward(p[k])
  <2>1. CASE k = j
    BY <1>11, <2>1
  <2>2. CASE k # j
    <3>1. CASE Leads(l, code, p[k])
      <4>1. 2 \in 1..Extent(w, p[k]) /\ 3 \in 1..Extent(w, p[k])
        BY <1>3, <1>14
      <4>2. new[p[k].at + 2] = code[p[k].at + 2] /\ new[p[k].at + 3] = code[p[k].at + 3]
        BY <1>9, <1>12, <2>2, <4>1
      <4>3. QED
        BY <3>1, <4>2 DEF Leads
    <3>2. CASE \E i \in DOMAIN f : i > m - 1 /\ f[i] = Forward(p[k])
      <4>1. PICK i \in DOMAIN f : i > m - 1 /\ f[i] = Forward(p[k])
        BY <3>2
      <4>2. i # m
        <5>1. i = m => f[m].location = p[k].at + 1
          BY <4>1 DEF Forward
        <5>2. 2 \in 1..Extent(w, p[k]) /\ 3 \in 1..Extent(w, p[k])
          BY <1>3, <1>14
        <5>3. p[k].at + 2 # x + 2
          BY <1>12, <2>2, <5>2
        <5>4. p[k].at \in Nat
          BY <1>3
        <5>5. QED
          BY <1>5, <1>7, <5>1, <5>3, <5>4
      <4>3. i > m
        BY <1>4, <4>1, <4>2
      <4>4. QED
        BY <4>1, <4>3
    <3>3. QED
      BY <1>1, <1>14, <3>1, <3>2 DEF Pending
  <2>3. QED
    BY <2>1, <2>2
<1>15. QED
  BY <1>1, <1>6, <1>13, <1>14 DEF Built, Pending, new

(* The code with the first i of the forward labels patched, for each i. *)
LEMMA PatchedAllIs ==
  ASSUME location \in Locations, bytes \in Seq(Octets), forwards \in Seq(Forwards)
  PROVE  \E code : /\ code \in [0..Len(forwards) -> Seq(Octets)] /\ code[0] = bytes
                   /\ \A i \in 1..Len(forwards) : code[i] = Patched(code[i - 1], forwards[i])
                   /\ PatchedAll = code[Len(forwards)]
<1> DEFINE n == Len(forwards)
           Is(f) == f = [i \in 0..Len(forwards) |->
                           IF i = 0 THEN bytes ELSE Patched(f[i - 1], forwards[i])]
           step == [k \in 1..n |-> [c \in Seq(Octets) |-> Patched(c, forwards[k])]]
<1>1. ASSUME NEW c \in Seq(Octets), NEW k \in 1..n
      PROVE  Patched(c, forwards[k]) \in Seq(Octets)
  BY PatchedType
<1>2. n \in Nat /\ step \in [1..n -> [Seq(Octets) -> Seq(Octets)]]
  BY <1>1
<1>3. PICK f : Goes(f, Seq(Octets), bytes, n, step)
  <2> HIDE DEF step, n
  <2>1. QED
    BY <1>2, Recursion
<1>4. f \in [0..n -> Seq(Octets)] /\ f[0] = bytes
      /\ \A i \in 1..n : f[i] = Patched(f[i - 1], forwards[i])
  <2>1. \A k \in 1..n : k - 1 \in 0..n
    OBVIOUS
  <2>2. QED
    BY <1>3, <2>1 DEF Goes
<1>5. Is(f)
  <2> DEFINE g == [i \in 0..Len(forwards) |->
                     IF i = 0 THEN bytes ELSE Patched(f[i - 1], forwards[i])]
  <2>1. \A k \in 0..n : k = 0 \/ k \in 1..n
    OBVIOUS
  <2>2. \A k \in 0..n : f[k] = g[k]
    BY <1>4, <2>1
  <2>3. g = [k \in 0..n |-> g[k]] /\ f = [k \in 0..n |-> f[k]]
    BY <1>4
  <2> HIDE DEF g
  <2>4. f = g
    BY <2>2, <2>3
  <2>5. QED
    BY <2>4 DEF g
<1> DEFINE W == CHOOSE code : Is(code)
<1>6. Is(W)
  <2> HIDE DEF Is
  <2>1. QED
    BY <1>5
<1>7. PatchedAll = W[n]
  BY DEF PatchedAll
<1>8. ASSUME NEW i \in 0..n
      PROVE  W[i] = IF i = 0 THEN bytes ELSE Patched(W[i - 1], forwards[i])
  BY <1>6
<1>9. W = [i \in 0..n |-> W[i]]
  BY <1>6
<1> HIDE DEF W, Is
<1>10. \A m \in 0..n : W[m] \in Seq(Octets)
  <2> DEFINE P == {m \in 0..n : W[m] \in Seq(Octets)}
  <2>1. 0 \in P
    BY <1>2, <1>8
  <2>2. ASSUME NEW m \in 1..n, m - 1 \in P
        PROVE  m \in P
    <3>1. W[m - 1] \in Seq(Octets) /\ m \in 0..n /\ m # 0
      BY <1>2, <2>2
    <3>2. W[m] = Patched(W[m - 1], forwards[m])
      BY <1>8, <3>1
    <3>3. QED
      BY <1>1, <3>1, <3>2
  <2> HIDE DEF P
  <2>3. \A m \in 0..n : m \in P
    BY <1>2, <2>1, <2>2, Induction
  <2>4. QED
    BY <2>3 DEF P
<1>11. W \in [0..n -> Seq(Octets)]
  BY <1>9, <1>10
<1>12. W[0] = bytes /\ \A i \in 1..n : W[i] = Patched(W[i - 1], forwards[i])
  <2>1. 0 \in 0..n /\ \A i \in 1..n : i \in 0..n /\ i # 0
    BY <1>2
  <2>2. QED
    BY <1>8, <2>1
<1>13. QED
  BY <1>7, <1>11, <1>12

(* Patching keeps the length, and leaves no jump behind. *)
LEMMA AllPatched ==
  ASSUME location \in Locations, bytes \in Seq(Octets), forwards \in Seq(Forwards),
         \A i \in DOMAIN forwards : location[forwards[i].label] # Unset,
         NEW w \in Octets, NEW p \in Programs
  PROVE  /\ PatchedAll \in Seq(Octets) /\ Len(PatchedAll) = Len(bytes)
         /\ Built(w, p, location, forwards, bytes, 0) =>
              Built(w, p, location, forwards, PatchedAll, Len(forwards))
<1> DEFINE n == Len(forwards)
           f == forwards
<1>1. PICK code : /\ code \in [0..n -> Seq(Octets)] /\ code[0] = bytes
                  /\ \A i \in 1..n : code[i] = Patched(code[i - 1], f[i])
                  /\ PatchedAll = code[n]
  BY PatchedAllIs
<1>2. n \in Nat /\ n \in 0..n /\ DOMAIN f = 1..n /\ \A i \in 1..n : i - 1 \in 0..n /\ f[i] \in Forwards
  OBVIOUS
<1>3. \A i \in 1..n : Patched(code[i - 1], f[i]) = code[i] /\ code[i - 1] \in Seq(Octets)
  BY <1>1, <1>2
<1> HIDE DEF n, f
<1>4. \A m \in 0..n : Len(code[m]) = Len(bytes)
  <2> DEFINE P == {m \in 0..n : Len(code[m]) = Len(bytes)}
  <2>1. 0 \in P
    BY <1>1, <1>2
  <2>2. ASSUME NEW m \in 1..n, m - 1 \in P
        PROVE  m \in P
    <3>1. Len(Patched(code[m - 1], f[m])) = Len(code[m - 1])
      BY <1>2, <1>3, PatchedType
    <3>2. m \in 0..n
      BY <1>2
    <3>3. QED
      BY <1>3, <2>2, <3>1, <3>2
  <2> HIDE DEF P
  <2>3. \A m \in 0..n : m \in P
    BY <1>2, <2>1, <2>2, Induction
  <2>4. QED
    BY <2>3 DEF P
<1>5. ASSUME Built(w, p, location, f, bytes, 0)
      PROVE  \A m \in 0..n : Built(w, p, location, f, code[m], m)
  <2> DEFINE P == {m \in 0..n : Built(w, p, location, f, code[m], m)}
  <2>1. 0 \in P
    BY <1>1, <1>2, <1>5
  <2>2. ASSUME NEW m \in 1..n, m - 1 \in P
        PROVE  m \in P
    <3>1. Built(w, p, location, f, code[m - 1], m - 1)
      BY <2>2
    <3>2. f \in Seq(Forwards) /\ m \in DOMAIN f /\ \A i \in DOMAIN f : location[f[i].label] # Unset
      BY <1>2 DEF f
    <3>3. Built(w, p, location, f, Patched(code[m - 1], f[m]), m)
      BY <1>3, <3>1, <3>2, BuiltPatched
    <3>4. m \in 0..n
      BY <1>2
    <3>5. QED
      BY <1>3, <3>3, <3>4
  <2> HIDE DEF P
  <2>3. \A m \in 0..n : m \in P
    BY <1>2, <2>1, <2>2, Induction
  <2>4. QED
    BY <2>3 DEF P
<1>6. QED
  BY <1>1, <1>2, <1>4, <1>5 DEF n, f


-------------------------------------------------------------------------------
(* The attribute.                                                          *)

LEMMA SubSeqIs ==
  ASSUME NEW s \in Seq(Octets), NEW m \in Nat, NEW n \in Nat, m + n <= Len(s),
         NEW d \in Seq(Octets), Len(d) = n, \A i \in 1..n : s[m + i] = d[i]
  PROVE  SubSeq(s, m + 1, m + n) = d
<1> DEFINE t == SubSeq(s, m + 1, m + n)
<1>1. t \in Seq(Octets) /\ Len(t) = n /\ \A i \in 1..n : t[i] = s[m + i]
  <2>1. t = [i \in 1..n |-> s[m + i]]
    <3>1. (m + n) - (m + 1) + 1 = n
      BY SMTT(30)
    <3>2. \A i \in Int : i + (m + 1) - 1 = m + i
      BY SMTT(30)
    <3>3. QED
      BY <3>1, <3>2, SMTT(30)
  <2>2. \A i \in 1..n : s[m + i] \in Octets
    OBVIOUS
  <2> HIDE DEF t
  <2>3. t \in [1..n -> Octets] /\ \A i \in 1..n : t[i] = s[m + i]
    BY <2>1, <2>2
  <2>4. t \in Seq(Octets) /\ Len(t) = n
    BY <2>3
  <2>5. QED
    BY <2>3, <2>4
<1> HIDE DEF t
<1>2. t = d
  BY <1>1, SeqEqual
<1>3. QED
  BY <1>2 DEF t

(* The code is read back from its attribute. *)
LEMMA AttributeRead ==
  ASSUME NEW code \in Seq(Octets), Len(code) < Shorts * Shorts
  PROVE  CodeAttribute(code) \in Seq(Octets) /\ CodeOf(CodeAttribute(code)) = code
<1> DEFINE a == Digits(LocalSlots, 2)
           b == Digits(StackDepth, 2)
           c == Digits(Len(code), 4)
           ab == a \o b
           abc == ab \o c
           info == abc \o code
           n == Len(code)
<1>1. /\ a \in Seq(Octets) /\ Len(a) = 2 /\ b \in Seq(Octets) /\ Len(b) = 2
      /\ c \in Seq(Octets) /\ Len(c) = 4 /\ n \in Nat
  BY DigitsOf, ClientAssumption
<1>2. Number(c) = n
  BY IntReadBack
<1>3. CodeAttribute(code) = info
  BY DEF CodeAttribute
<1> HIDE DEF a, b, c
<1>4. IsJoined(ab, a, 2, b, 2)
  BY <1>1, JoinedAt
<1> HIDE DEF ab
<1>5. ab \in Seq(Octets) /\ Len(ab) = 4
  BY <1>4 DEF IsJoined
<1>6. IsJoined(abc, ab, 4, c, 4)
  BY <1>1, <1>5, JoinedAt
<1> HIDE DEF abc
<1>7. abc \in Seq(Octets) /\ Len(abc) = 8 /\ \A i \in 1..4 : abc[4 + i] = c[i]
  BY <1>6 DEF IsJoined
<1>8. IsJoined(info, abc, 8, code, n)
  BY <1>1, <1>7, JoinedAt
<1> HIDE DEF info, n
<1>9. /\ info \in Seq(Octets) /\ Len(info) = 8 + n /\ \A i \in 1..8 : info[i] = abc[i]
      /\ \A i \in 1..n : info[8 + i] = code[i]
  BY <1>8 DEF IsJoined
<1>10. \A i \in 1..4 : info[4 + i] = c[i]
  <2>1. \A i \in 1..4 : 4 + i \in 1..8
    OBVIOUS
  <2>2. QED
    BY <1>7, <1>9, <2>1
<1>11. SubSeq(info, 4 + 1, 4 + 4) = c
  BY <1>1, <1>9, <1>10, SubSeqIs
<1>12. SubSeq(info, 8 + 1, 8 + n) = code
  BY <1>1, <1>9, SubSeqIs DEF n
<1>13. 4 + 1 = 5 /\ 4 + 4 = 8 /\ 8 + 1 = 9
  OBVIOUS
<1>14. SubSeq(info, 5, 8) = c /\ SubSeq(info, 9, 8 + n) = code
  BY <1>11, <1>12, <1>13
<1>15. CodeOf(info) = code
  BY <1>2, <1>14 DEF CodeOf
<1>16. QED
  BY <1>3, <1>9, <1>15

(* A program's code is not longer than its attribute can say. *)
LEMMA ShortEnough ==
  ASSUME NEW p \in Programs, NEW n \in Nat, n <= 9 * Len(p)
  PROVE  n < Shorts * Shorts
<1>1. Len(p) \in Nat /\ Len(p) <= MaxInsns /\ MaxInsns \in Nat
  BY SizeAssumption DEF Programs
<1>2. n <= 9 * MaxInsns
  BY <1>1
<1>3. Shorts * Shorts \in Int
  BY OpcodeFacts DEF Shorts
<1>4. QED
  BY <1>1, <1>2, <1>3, SizeAssumption

-------------------------------------------------------------------------------
(* The steps of the builder.                                               *)

LEMMA PrepareFacts ==
  ASSUME Sizes, starved \in BOOLEAN, bytes \in Seq(Octets), Len(bytes) <= room,
         NEW n \in Nat, n <= 9, NEW allocated \in BOOLEAN, Prepare(n, allocated)
  PROVE  /\ Sizes' /\ starved' \in BOOLEAN
         /\ room' \in Nat /\ Len(bytes) <= room'
         /\ ~ starved' => /\ ~ starved /\ ~ (Full(n) /\ ~ allocated)
                          /\ \A t \in Nat : t <= n + 1 /\ t <= 9 => Len(bytes) + t <= room'
<1>1. /\ size \in Nat /\ size >= 9 /\ room \in Nat /\ room <= size /\ (~starved => room = size)
      /\ Len(bytes) \in Nat
  BY DEF Sizes
<1>2. /\ size' = IF Full(n) THEN 2 * size ELSE size
      /\ room' = IF Full(n) /\ allocated THEN 2 * size ELSE room
      /\ starved' = (starved \/ (Full(n) /\ ~allocated))
  BY DEF Prepare
<1>3. CASE Full(n) /\ allocated
  <2>1. size' = 2 * size /\ room' = 2 * size /\ starved' = starved
    BY <1>2, <1>3
  <2>2. QED
    BY <1>1, <1>3, <2>1 DEF Sizes
<1>4. CASE Full(n) /\ ~ allocated
  <2>1. size' = 2 * size /\ room' = room /\ starved' = TRUE
    BY <1>2, <1>4
  <2>2. QED
    BY <1>1, <2>1 DEF Sizes
<1>5. CASE ~ Full(n)
  <2>1. size' = size /\ room' = room /\ starved' = starved
    BY <1>2, <1>5
  <2>2. Len(bytes) + n < size
    BY <1>1, <1>5 DEF Full
  <2>3. QED
    BY <1>1, <1>5, <2>1, <2>2 DEF Sizes
<1>6. QED
  BY <1>3, <1>4, <1>5

(* What the invariant says while the list is built. *)
LEMMA BuildingFacts ==
  ASSUME CodeInv, phase = "building"
  PROVE  /\ Variables /\ Sizes
         /\ bytes \in Seq(Octets) /\ Len(bytes) <= room /\ Len(bytes) <= 9 * Len(prog)
         /\ ~starved => Built(wideOpcode, prog, location, forwards, bytes, 0)
         /\ wideOpcode \in Octets /\ Len(bytes) \in Nat
BY OpcodeFacts DEF CodeInv, CodeOK, TheCode, Patches, Variables

LEMMA BuildingThen ==
  ASSUME Variables', Sizes', phase' = "building",
         bytes' \in Seq(Octets), Len(bytes') <= room', Len(bytes') <= 9 * Len(prog'),
         ~starved' => Built(wideOpcode', prog', location', forwards', bytes', 0)
  PROVE  CodeInv'
BY DEF CodeInv, CodeOK, TheCode, Patches, Stands

(* The instruction that a step of the builder emits: its bytes are all, of which it asks  *)
(* room for n.                                                                            *)
Emits(n, parts, insn, all) ==
  /\ n \in Nat /\ n <= 9 /\ all \in Seq(Octets)
  /\ insn \in Insns /\ insn.at = Len(bytes) /\ Formed(insn)
  /\ Len(all) = Extent(wideOpcode, insn) /\ Len(all) <= n + 1
  /\ \A j \in 1..Len(Shape(wideOpcode, insn)) : all[j] = Shape(wideOpcode, insn)[j]
  /\ room' \in Nat /\ Len(bytes) <= room' => WritesOut(parts, all)

(* What it does to the forward labels. *)
Remembers(insn) ==
  /\ forwards' \in Seq(Forwards)
  /\ forwards' = forwards \/ (insn.op = JMP /\ forwards' = Append(forwards, Forward(insn)))
  /\ insn.op = JMP => Forward(insn) \in Forwards
  /\ insn.op = JMP /\ ~starved' =>
       Leads(location, bytes', insn) \/ forwards' = Append(forwards, Forward(insn))

LEMMA EmitStep ==
  ASSUME CodeInv, phase = "building", UNCHANGED <<wideOpcode, phase, pc, wide, location>>,
         NEW n, NEW parts, NEW insn, NEW all, Emits(n, parts, insn, all),
         NEW allocated \in BOOLEAN, Emit(n, parts, insn.op, insn.args, allocated),
         insn = [at |-> Len(bytes), op |-> insn.op, args |-> insn.args],
         Full(n) /\ ~allocated => forwards' = forwards,
         (Full(n) /\ ~allocated) \/ Remembers(insn)
  PROVE  CodeInv'
<1>1. /\ Variables /\ Sizes
      /\ bytes \in Seq(Octets) /\ Len(bytes) <= room /\ Len(bytes) <= 9 * Len(prog)
      /\ ~starved => Built(wideOpcode, prog, location, forwards, bytes, 0)
      /\ wideOpcode \in Octets /\ Len(bytes) \in Nat
  BY BuildingFacts
<1>2. n \in Nat /\ n <= 9 /\ Prepare(n, allocated) /\ Len(prog) < MaxInsns
  BY DEF Emits, Emit
<1>3. /\ Sizes' /\ starved' \in BOOLEAN
      /\ room' \in Nat /\ Len(bytes) <= room'
      /\ ~ starved' => /\ ~ starved /\ ~ (Full(n) /\ ~ allocated)
                       /\ \A t \in Nat : t <= n + 1 /\ t <= 9 => Len(bytes) + t <= room'
  BY <1>1, <1>2, PrepareFacts DEF Variables
<1>4. /\ location \in Locations /\ wideOpcode \in {NOP, WIDE} /\ wide \in BOOLEAN
      /\ forwards \in Seq(Forwards) /\ prog \in Programs
      /\ pc' = 0 /\ ~ wide' /\ phase' = "building"
  BY <1>1 DEF Variables
<1>5. CASE Full(n) /\ ~ allocated
  <2>1. bytes' = bytes /\ prog' = prog /\ forwards' = forwards
    BY <1>5 DEF Emit
  <2>2. starved'
    BY <1>3, <1>5
  <2>3. Len(bytes') <= room' /\ Len(bytes') <= 9 * Len(prog') /\ bytes' \in Seq(Octets)
    BY <1>1, <1>3, <2>1
  <2>4. Variables'
    BY <1>3, <1>4, <2>1 DEF Variables
  <2>5. QED
    BY <1>3, <2>2, <2>3, <2>4, BuildingThen
<1>6. CASE ~ (Full(n) /\ ~ allocated)
  <2>1. bytes' = Written(parts).out /\ prog' = Append(prog, insn)
    BY <1>6 DEF Emit
  <2>2. WritesOut(parts, all) /\ all \in Seq(Octets) /\ Len(all) = Extent(wideOpcode, insn)
        /\ Len(all) <= n + 1 /\ insn \in Insns /\ Formed(insn) /\ insn.at = Len(bytes)
    BY <1>3 DEF Emits
  <2>3. Len(all) \in Nat /\ Len(all) <= 9
    BY <1>1, <2>2, ShapeType
  <2>4. /\ bytes' \in Seq(Octets) /\ Len(bytes') <= room' /\ Len(bytes') \in Nat
        /\ Len(bytes') <= Len(bytes) + Len(all)
    BY <2>1, <2>2 DEF WritesOut
  <2>5. prog' \in Programs /\ Len(prog') = Len(prog) + 1 /\ Len(prog) \in Nat
    <3>1. prog \in Seq(Insns) /\ Len(prog) \in Nat /\ \A k \in DOMAIN prog : Formed(prog[k])
      BY <1>4 DEF Programs
    <3>2. /\ prog' \in Seq(Insns) /\ Len(prog') = Len(prog) + 1
          /\ prog'[Len(prog) + 1] = insn
          /\ \A k \in DOMAIN prog : prog'[k] = prog[k]
          /\ \A k \in DOMAIN prog' : k \in DOMAIN prog \/ k = Len(prog) + 1
      BY <2>1, <2>2, <3>1, Longer
    <3>3. Len(prog') <= MaxInsns
      BY <1>2, <3>1, <3>2, SizeAssumption
    <3>4. \A k \in DOMAIN prog' : Formed(prog'[k])
      BY <2>2, <3>1, <3>2
    <3>5. QED
      BY <3>1, <3>2, <3>3, <3>4 DEF Programs
  <2>6. Len(bytes') <= 9 * Len(prog')
    BY <1>1, <2>3, <2>4, <2>5
  <2>7. Remembers(insn)
    BY <1>6
  <2>8. Variables'
    BY <1>3, <1>4, <2>5, <2>7 DEF Variables, Remembers
  <2>9. ASSUME ~ starved'
        PROVE  Built(wideOpcode', prog', location', forwards', bytes', 0)
    <3>1. ~ starved /\ Len(bytes) + Len(all) <= room'
      BY <1>3, <2>2, <2>3, <2>9
    <3>2. bytes' = bytes \o all
      BY <2>1, <2>2, <3>1 DEF WritesOut
    <3>3. /\ Len(bytes') = Len(bytes) + Len(all)
          /\ \A i \in 1..Len(bytes) : bytes'[i] = bytes[i]
          /\ \A i \in 1..Len(all) : bytes'[Len(bytes) + i] = all[i]
      BY <1>1, <2>2, <3>2, Joined
    <3>4. Holds(wideOpcode, bytes', insn)
      <4>1. /\ Len(Shape(wideOpcode, insn)) \in Nat
            /\ Len(Shape(wideOpcode, insn)) <= Extent(wideOpcode, insn)
        BY <1>1, <2>2, ShapeType
      <4>2. \A j \in 1..Len(Shape(wideOpcode, insn)) :
              j \in 1..Len(all) /\ all[j] = Shape(wideOpcode, insn)[j]
        BY <2>2, <2>3, <4>1 DEF Emits
      <4>3. QED
        BY <2>2, <3>3, <4>2 DEF Holds
    <3>5. Built(wideOpcode, prog, location, forwards, bytes, 0)
      BY <1>1, <3>1
    <3>6. /\ forwards' = forwards \/ (insn.op = JMP /\ forwards' = Append(forwards, Forward(insn)))
          /\ insn.op = JMP => Leads(location, bytes', insn)
                              \/ forwards' = Append(forwards, Forward(insn))
          /\ Forward(insn) \in Forwards \/ insn.op # JMP
      BY <2>7, <2>9 DEF Remembers
    <3>7. Len(bytes') = Len(bytes) + Extent(wideOpcode, insn)
      BY <2>2, <3>3
    <3>8. Built(wideOpcode, Append(prog, insn), location, forwards', bytes', 0)
      BY <1>1, <1>4, <2>2, <2>4, <3>3, <3>4, <3>5, <3>6, <3>7, BuiltAppend
    <3>9. QED
      BY <2>1, <3>8
  <2>10. QED
    BY <1>3, <2>4, <2>6, <2>8, <2>9, BuildingThen
<1>7. QED
  BY <1>5, <1>6

Sized(code, n) == code \in Seq(Octets) /\ Len(code) = n

LEMMA JoinedLength ==
  ASSUME NEW a, NEW b, NEW n \in Nat, NEW m \in Nat, Sized(a, n), Sized(b, m),
         NEW k, k = n + m
  PROVE  Sized(a \o b, k)
BY Joined DEF Sized

(* An instruction of the list. *)
Insn(op, args) == [at |-> Len(bytes), op |-> op, args |-> args]

LEMMA InsnType ==
  ASSUME NEW op \in Octets, NEW args \in Seq(Int \cup Labels), Len(bytes) \in Nat
  PROVE  /\ Insn(op, args) \in Insns
         /\ Insn(op, args).at = Len(bytes) /\ Insn(op, args).op = op
         /\ Insn(op, args).args = args
         /\ Insn(op, args) = [at |-> Len(bytes), op |-> Insn(op, args).op,
                              args |-> Insn(op, args).args]
BY DEF Insn, Insns

(* An instruction that is no jump: its shape is all of it. *)
LEMMA PlainStep ==
  ASSUME CodeInv, phase = "building", UNCHANGED <<wideOpcode, phase, pc, wide, location>>,
         NEW n \in Nat, n <= 9, NEW parts, NEW op \in Octets, op # JMP,
         NEW args \in Seq(Int \cup Labels), Formed(Insn(op, args)),
         Len(Shape(wideOpcode, Insn(op, args))) <= n + 1,
         room' \in Nat /\ Len(bytes) <= room' =>
           WritesOut(parts, Shape(wideOpcode, Insn(op, args))),
         NEW allocated \in BOOLEAN, Emit(n, parts, op, args, allocated),
         forwards' = forwards
  PROVE  CodeInv'
<1> DEFINE insn == Insn(op, args)
           all == Shape(wideOpcode, insn)
<1>1. /\ wideOpcode \in Octets /\ Len(bytes) \in Nat /\ forwards \in Seq(Forwards)
  BY BuildingFacts DEF Variables
<1>2. /\ insn \in Insns /\ insn.at = Len(bytes) /\ insn.op = op /\ insn.args = args
      /\ insn = [at |-> Len(bytes), op |-> insn.op, args |-> insn.args]
  BY <1>1, InsnType
<1> HIDE DEF insn
<1>3. all \in Seq(Octets) /\ Len(all) = Extent(wideOpcode, insn)
  BY <1>1, <1>2, ShapeType DEF Extent, insn
<1>4. Emits(n, parts, insn, all)
  BY <1>2, <1>3 DEF Emits, insn
<1>5. Remembers(insn)
  BY <1>1, <1>2 DEF Remembers
<1>6. Emit(n, parts, insn.op, insn.args, allocated)
  BY <1>2
<1>7. QED
  BY <1>2, <1>4, <1>5, <1>6, EmitStep

LEMMA PushStep ==
  ASSUME CodeInv, phase = "building", UNCHANGED <<wideOpcode, phase, pc, wide>>,
         NEW allocated \in BOOLEAN, Push(allocated)
  PROVE  CodeInv'
<1> DEFINE insn == Insn(LPUSH, <<1>>)
           d == Digits(1, 8)
           o == <<LPUSH>>
<1>1. /\ bytes \in Seq(Octets) /\ Len(bytes) \in Nat
  BY BuildingFacts
<1>2. LPUSH \in Octets /\ LPUSH # JMP /\ <<1>> \in Seq(Int \cup Labels)
  BY OpcodeFacts
<1>3. insn.op = LPUSH /\ insn.args = <<1>>
  BY <1>1, <1>2, InsnType
<1> HIDE DEF insn
<1>4. Formed(insn)
  BY <1>3, OpcodeFacts DEF Formed
<1>5. Sized(d, 8) /\ Sized(o, 1)
  BY <1>2, DigitsOf DEF Sized
<1>6. Shape(wideOpcode, insn) = o \o d
  BY <1>3, OpcodeFacts DEF Shape
<1> HIDE DEF d, o
<1>7. Len(Shape(wideOpcode, insn)) <= 9 + 1
  <2>1. Sized(o \o d, 9)
    BY <1>5, JoinedLength
  <2>2. QED
    BY <1>6, <2>1 DEF Sized
<1>8. room' \in Nat /\ Len(bytes) <= room' => WritesOut(<<o, d>>, Shape(wideOpcode, insn))
  BY <1>1, <1>5, <1>6, WrittenTwo DEF Sized
<1>9. /\ Emit(9, <<o, d>>, LPUSH, <<1>>, allocated)
      /\ forwards' = forwards /\ location' = location
  BY DEF Push, o, d
<1>10. QED
  BY <1>2, <1>4, <1>7, <1>8, <1>9, PlainStep DEF insn

LEMMA ConstantStep ==
  ASSUME CodeInv, phase = "building", UNCHANGED <<wideOpcode, phase, pc, wide>>,
         NEW allocated \in BOOLEAN, ConstantInsn(1, allocated)
  PROVE  CodeInv'
<1> DEFINE insn == Insn(CALL, <<1>>)
           d == Digits(1, 2)
           o == <<CALL>>
<1>1. /\ bytes \in Seq(Octets) /\ Len(bytes) \in Nat
  BY BuildingFacts
<1>2. CALL \in Octets /\ CALL # JMP /\ CALL # LPUSH /\ <<1>> \in Seq(Int \cup Labels)
  BY OpcodeFacts
<1>3. insn.op = CALL /\ insn.args = <<1>>
  BY <1>1, <1>2, InsnType
<1> HIDE DEF insn
<1>4. Formed(insn)
  BY <1>3, OpcodeFacts DEF Formed
<1>5. Sized(d, 2) /\ Sized(o, 1)
  BY <1>2, DigitsOf DEF Sized
<1>6. Shape(wideOpcode, insn) = o \o d
  BY <1>2, <1>3, OpcodeFacts DEF Shape
<1> HIDE DEF d, o
<1>7. Len(Shape(wideOpcode, insn)) <= 3 + 1
  <2>1. Sized(o \o d, 3)
    BY <1>5, JoinedLength
  <2>2. QED
    BY <1>6, <2>1 DEF Sized
<1>8. room' \in Nat /\ Len(bytes) <= room' => WritesOut(<<o, d>>, Shape(wideOpcode, insn))
  BY <1>1, <1>5, <1>6, WrittenTwo DEF Sized
<1>9. /\ Emit(3, <<o, d>>, CALL, <<1>>, allocated)
      /\ forwards' = forwards /\ location' = location
  BY DEF ConstantInsn, o, d
<1>10. QED
  BY <1>2, <1>4, <1>7, <1>8, <1>9, PlainStep DEF insn

LEMMA VarStep ==
  ASSUME CodeInv, phase = "building", UNCHANGED <<wideOpcode, phase, pc, wide>>,
         NEW local \in Locals, NEW allocated \in BOOLEAN, Var(local, allocated)
  PROVE  CodeInv'
<1> DEFINE args == <<local>>
           insn == Insn(LOAD, args)
           d1 == Digits(local, 1)
           d2 == Digits(local, 2)
           o == <<LOAD>>
           w == <<wideOpcode>>
<1>1. /\ bytes \in Seq(Octets) /\ Len(bytes) \in Nat /\ wideOpcode \in Octets
      /\ local \in Int /\ forwards' = forwards /\ location' = location
  BY BuildingFacts, ClientAssumption DEF Var
<1>2. LOAD \in Octets /\ LOAD # JMP /\ LOAD # LPUSH /\ LOAD # CALL
      /\ args \in Seq(Int \cup Labels)
  BY <1>1, OpcodeFacts
<1>3. insn.op = LOAD /\ insn.args = args /\ args[1] = local
  <2>1. insn.op = LOAD /\ insn.args = args
    BY <1>1, <1>2, InsnType
  <2>2. QED
    BY <2>1
<1> HIDE DEF insn
<1>4. Formed(insn)
  BY <1>3, OpcodeFacts DEF Formed
<1> HIDE DEF args
<1>5. /\ Sized(d1, 1) /\ Sized(d2, 2)
      /\ Sized(o, 1) /\ Sized(w, 1)
  BY <1>1, <1>2, DigitsOf DEF Sized
<1>6. Shape(wideOpcode, insn) = IF local > Byte - 1 THEN (w \o o) \o d2 ELSE o \o d1
  BY <1>2, <1>3, OpcodeFacts DEF Shape
<1>7. CASE local > Byte - 1
  <2> DEFINE wo == w \o o
  <2>1. Shape(wideOpcode, insn) = wo \o d2
    BY <1>6, <1>7
  <2>2. Emit(4, <<w, o, d2>>, LOAD, args, allocated)
    BY <1>7 DEF Var, args
  <2> HIDE DEF d1, d2, o, w
  <2>3. Sized(wo, 2)
    BY <1>5, JoinedLength
  <2>4. room' \in Nat /\ Len(bytes) <= room' =>
          WritesOut(<<w, o, d2>>, Shape(wideOpcode, insn))
    BY <1>1, <1>5, <2>1, WrittenThree DEF Sized
  <2> HIDE DEF wo
  <2>5. Sized(Shape(wideOpcode, insn), 4)
    BY <1>5, <2>1, <2>3, JoinedLength
  <2>6. Len(Shape(wideOpcode, insn)) <= 4 + 1
    BY <2>5 DEF Sized
  <2>7. UNCHANGED <<wideOpcode, phase, pc, wide, location>> /\ forwards' = forwards
    BY <1>1
  <2>8. QED
    BY <1>2, <1>4, <2>2, <2>4, <2>6, <2>7, PlainStep DEF insn
<1>8. CASE ~ (local > Byte - 1)
  <2>1. Shape(wideOpcode, insn) = o \o d1
    BY <1>6, <1>8
  <2>2. Emit(2, <<o, d1>>, LOAD, args, allocated)
    BY <1>8 DEF Var, args
  <2> HIDE DEF d1, d2, o, w
  <2>3. room' \in Nat /\ Len(bytes) <= room' => WritesOut(<<o, d1>>, Shape(wideOpcode, insn))
    BY <1>1, <1>5, <2>1, WrittenTwo DEF Sized
  <2>4. Sized(Shape(wideOpcode, insn), 2)
    BY <1>5, <2>1, JoinedLength
  <2>5. Len(Shape(wideOpcode, insn)) <= 2 + 1
    BY <2>4 DEF Sized
  <2>6. UNCHANGED <<wideOpcode, phase, pc, wide, location>> /\ forwards' = forwards
    BY <1>1
  <2>7. QED
    BY <1>2, <1>4, <2>2, <2>3, <2>5, <2>6, PlainStep DEF insn
<1>9. QED
  BY <1>7, <1>8

LEMMA IncStep ==
  ASSUME CodeInv, phase = "building", UNCHANGED <<wideOpcode, phase, pc, wide>>,
         NEW local \in Locals, NEW by \in Increments, NEW allocated \in BOOLEAN,
         IncInsn(local, by, allocated)
  PROVE  CodeInv'
<1> DEFINE args == <<local, by>>
           insn == Insn(INC, args)
           d1 == Digits(local, 1)
           d2 == Digits(local, 2)
           e1 == Digits(by, 1)
           e2 == Digits(by, 2)
           o == <<INC>>
           w == <<WIDE>>
<1>1. /\ bytes \in Seq(Octets) /\ Len(bytes) \in Nat
      /\ local \in Int /\ by \in Int /\ forwards' = forwards /\ location' = location
  BY BuildingFacts, ClientAssumption DEF IncInsn
<1>2. INC \in Octets /\ WIDE \in Octets /\ INC # JMP /\ INC # LPUSH /\ INC # CALL /\ INC # LOAD
      /\ args \in Seq(Int \cup Labels)
  BY <1>1, OpcodeFacts
<1>3. insn.op = INC /\ insn.args = args
      /\ args[1] = local /\ args[2] = by
  <2>1. insn.op = INC /\ insn.args = args
    BY <1>1, <1>2, InsnType
  <2>2. args[1] = local /\ args[2] = by
    OBVIOUS
  <2>3. QED
    BY <2>1, <2>2
<1> HIDE DEF insn
<1>4. Formed(insn)
  BY <1>3, OpcodeFacts DEF Formed
<1> HIDE DEF args
<1>5. /\ Sized(d1, 1) /\ Sized(d2, 2)
      /\ Sized(e1, 1) /\ Sized(e2, 2)
      /\ Sized(o, 1) /\ Sized(w, 1)
  BY <1>1, <1>2, DigitsOf DEF Sized
<1>6. Shape(wideOpcode, insn) = IF IncIsWide(local, by) THEN ((w \o o) \o d2) \o e2
                                ELSE (o \o d1) \o e1
  BY <1>2, <1>3, OpcodeFacts DEF Shape
<1>7. CASE IncIsWide(local, by)
  <2> DEFINE wo == w \o o
             wod == wo \o d2
  <2>1. Shape(wideOpcode, insn) = wod \o e2
    BY <1>6, <1>7
  <2>2. Emit(5, <<w, o, d2, e2>>, INC, args, allocated)
    BY <1>7 DEF IncInsn, args
  <2> HIDE DEF d1, d2, e1, e2, o, w
  <2>3. Sized(wo, 2)
    BY <1>5, JoinedLength
  <2>4. room' \in Nat /\ Len(bytes) <= room' =>
          WritesOut(<<w, o, d2, e2>>, Shape(wideOpcode, insn))
    BY <1>1, <1>5, <2>1, WrittenFour DEF Sized
  <2> HIDE DEF wo
  <2>5. Sized(wod, 4)
    BY <1>5, <2>3, JoinedLength
  <2> HIDE DEF wod
  <2>6. Sized(Shape(wideOpcode, insn), 6)
    BY <1>5, <2>1, <2>5, JoinedLength
  <2>7. Len(Shape(wideOpcode, insn)) <= 5 + 1
    BY <2>6 DEF Sized
  <2>8. UNCHANGED <<wideOpcode, phase, pc, wide, location>> /\ forwards' = forwards
    BY <1>1
  <2>9. QED
    BY <1>2, <1>4, <2>2, <2>4, <2>7, <2>8, PlainStep DEF insn
<1>8. CASE ~ IncIsWide(local, by)
  <2> DEFINE od == o \o d1
  <2>1. Shape(wideOpcode, insn) = od \o e1
    BY <1>6, <1>8
  <2>2. Emit(3, <<o, d1, e1>>, INC, args, allocated)
    BY <1>8 DEF IncInsn, args
  <2> HIDE DEF d1, d2, e1, e2, o, w
  <2>3. Sized(od, 2)
    BY <1>5, JoinedLength
  <2>4. room' \in Nat /\ Len(bytes) <= room' =>
          WritesOut(<<o, d1, e1>>, Shape(wideOpcode, insn))
    BY <1>1, <1>5, <2>1, WrittenThree DEF Sized
  <2> HIDE DEF od
  <2>5. Sized(Shape(wideOpcode, insn), 3)
    BY <1>5, <2>1, <2>3, JoinedLength
  <2>6. Len(Shape(wideOpcode, insn)) <= 3 + 1
    BY <2>5 DEF Sized
  <2>7. UNCHANGED <<wideOpcode, phase, pc, wide, location>> /\ forwards' = forwards
    BY <1>1
  <2>8. QED
    BY <1>2, <1>4, <2>2, <2>4, <2>6, <2>7, PlainStep DEF insn
<1>9. QED
  BY <1>7, <1>8

LEMMA JumpStep ==
  ASSUME CodeInv, phase = "building", UNCHANGED <<wideOpcode, phase, pc, wide>>,
         NEW label \in Labels, NEW garbage \in {0, Byte}, NEW allocated \in BOOLEAN,
         Jump(label, garbage, allocated)
  PROVE  CodeInv'
<1> DEFINE args == <<label>>
           insn == Insn(JMP, args)
           end == Len(bytes) + 3
           here == IF location[label] = Unset THEN garbage ELSE location[label]
           d == Digits(Displacement(end, here), 2)
           o == <<JMP>>
           all == o \o d
           zeros == <<0, 0>>
           forward == [label |-> label, location |-> end - 2, origin |-> end]
<1>1. /\ bytes \in Seq(Octets) /\ Len(bytes) \in Nat /\ wideOpcode \in Octets
      /\ Sizes /\ Len(bytes) <= room /\ starved \in BOOLEAN
      /\ location \in Locations /\ forwards \in Seq(Forwards) /\ location' = location
  BY BuildingFacts DEF Jump, Variables
<1>2. JMP \in Octets /\ args \in Seq(Int \cup Labels) /\ args[1] = label
  BY OpcodeFacts
<1>3. /\ insn \in Insns /\ insn.at = Len(bytes) /\ insn.op = JMP /\ insn.args = args
      /\ insn = [at |-> Len(bytes), op |-> insn.op, args |-> insn.args]
  <2> HIDE DEF args
  <2>1. QED
    BY <1>1, <1>2, InsnType
<1> HIDE DEF insn
<1>4. Formed(insn)
  BY <1>3, OpcodeFacts DEF Formed
<1>5. Forward(insn) = forward /\ forward \in Forwards
  BY <1>1, <1>2, <1>3 DEF Forward, Forwards
<1>6. Displacement(end, here) \in Int
  <2>1. location[label] \in Nat \cup {Unset} /\ garbage \in Int
    BY <1>1, OpcodeFacts DEF Locations
  <2>2. QED
    BY <1>1, <2>1 DEF Displacement, Unset
<1>7. Emit(3, <<o, d>>, JMP, args, allocated)
  BY DEF Jump
<1>8. forwards' = IF location[label] # Unset \/ (Full(3) /\ ~allocated)
                     \/ ~Written(<<o, zeros>>).ok
                  THEN forwards ELSE Append(forwards, forward)
  BY DEF Jump
<1> HIDE DEF args, forward
<1>9. Sized(o, 1) /\ o[1] = JMP /\ Sized(d, 2) /\ Sized(zeros, 2)
  BY <1>2, <1>6, DigitsOf, OpcodeFacts DEF Sized, Octets
<1> DEFINE to == location[label]
<1>10. insn.args[1] = label /\ (to # Unset => d = Digits(Displacement(insn.at + 3, to), 2))
  BY <1>2, <1>3
<1> HIDE DEF d, o, zeros
<1>11. /\ all \in Seq(Octets) /\ Len(all) = 3 /\ all[1] = JMP
       /\ all[1 + 1] = d[1] /\ all[1 + 2] = d[2]
  <2>1. IsJoined(all, o, 1, d, 2)
    BY <1>9, JoinedAt DEF Sized
  <2> HIDE DEF all
  <2>2. /\ all \in Seq(Octets) /\ Len(all) = 3
        /\ \A i \in 1..1 : all[i] = o[i]
        /\ \A i \in 1..2 : all[1 + i] = d[i]
    BY <2>1 DEF IsJoined
  <2>3. 1 \in 1..1 /\ 1 \in 1..2 /\ 2 \in 1..2
    OBVIOUS
  <2>4. QED
    BY <1>9, <2>2, <2>3
<1>12. room' \in Nat /\ Len(bytes) <= room' =>
         WritesOut(<<o, d>>, all) /\ WritesOut(<<o, zeros>>, o \o zeros)
  BY <1>1, <1>9, WrittenTwo DEF Sized
<1>13. Len(o \o zeros) = 3
  <2>1. Sized(o \o zeros, 3)
    BY <1>9, JoinedLength
  <2>2. QED
    BY <2>1 DEF Sized
<1> HIDE DEF all
<1>14. Emits(3, <<o, d>>, insn, all)
  <2>1. Shape(wideOpcode, insn) = o /\ Extent(wideOpcode, insn) = 3
    BY <1>3, ShapeOfJump DEF o
  <2>5. \A j \in 1..Len(o) : all[j] = o[j]
    <3>1. Len(o) = 1 /\ all[1] = o[1] /\ \A j \in 1..1 : j = 1
      BY <1>9, <1>11 DEF Sized
    <3>2. QED
      BY <3>1
  <2>2. /\ Len(all) = Extent(wideOpcode, insn) /\ Len(all) <= 3 + 1
        /\ \A j \in 1..Len(Shape(wideOpcode, insn)) : all[j] = Shape(wideOpcode, insn)[j]
    BY <1>11, <2>1, <2>5
  <2> DEFINE parts == <<o, d>>
  <2>3. room' \in Nat /\ Len(bytes) <= room' => WritesOut(parts, all)
    BY <1>12
  <2> HIDE DEF parts
  <2>4. Emits(3, parts, insn, all)
    BY <1>3, <1>4, <1>11, <2>2, <2>3 DEF Emits
  <2>6. QED
    BY <2>4 DEF parts
<1>15. Prepare(3, allocated)
  BY <1>7 DEF Emit
<1>16. /\ room' \in Nat /\ Len(bytes) <= room'
       /\ ~ starved' => /\ ~ (Full(3) /\ ~ allocated)
                        /\ \A t \in Nat : t <= 3 + 1 /\ t <= 9 => Len(bytes) + t <= room'
  <2>1. PICK n \in Nat : n = 3
    OBVIOUS
  <2>2. Prepare(n, allocated) /\ n <= 9
    BY <1>15, <2>1
  <2>3. /\ room' \in Nat /\ Len(bytes) <= room'
        /\ ~ starved' => /\ ~ (Full(n) /\ ~ allocated)
                         /\ \A t \in Nat : t <= n + 1 /\ t <= 9 => Len(bytes) + t <= room'
    BY <1>1, <2>2, PrepareFacts
  <2>4. QED
    BY <2>1, <2>3
<1>17. forwards' = forwards \/ forwards' = Append(forwards, forward)
  BY <1>8
<1>18. forwards' \in Seq(Forwards)
  <2>1. forward \in Forwards
    BY <1>5
  <2>2. QED
    BY <1>1, <1>17, <2>1
<1>19. ASSUME ~ starved'
       PROVE  Leads(location, bytes', insn) \/ forwards' = Append(forwards, forward)
  <2>1. ~ (Full(3) /\ ~ allocated) /\ Len(bytes) + 3 <= room'
    BY <1>16, <1>19
  <2>2. CASE to # Unset
    <3>1. bytes' = Written(<<o, d>>).out
      BY <1>7, <2>1 DEF Emit
    <3>2. bytes' = bytes \o all
      BY <1>11, <1>12, <1>16, <2>1, <3>1 DEF WritesOut
    <3>3. /\ bytes'[Len(bytes) + (1 + 1)] = all[1 + 1]
          /\ bytes'[Len(bytes) + (1 + 2)] = all[1 + 2]
      <4>1. \A i \in 1..Len(all) : bytes'[Len(bytes) + i] = all[i]
        BY <1>1, <1>11, <3>2, Joined
      <4>2. 1 + 1 \in 1..Len(all) /\ 1 + 2 \in 1..Len(all)
        BY <1>11
      <4>3. QED
        BY <4>1, <4>2, Zenon
    <3>4. bytes'[insn.at + 2] = d[1] /\ bytes'[insn.at + 3] = d[2]
      <4>1. Len(bytes) + (1 + 1) = insn.at + 2 /\ Len(bytes) + (1 + 2) = insn.at + 3
        BY <1>1, <1>3
      <4>2. QED
        BY <1>11, <3>3, <4>1
    <3>5. Leads(location, bytes', insn)
      BY <1>10, <2>2, <3>4 DEF Leads
    <3>6. QED
      BY <3>5
  <2>3. CASE to = Unset
    <3>1. Written(<<o, zeros>>).ok
      BY <1>12, <1>13, <1>16, <2>1 DEF WritesOut
    <3>2. forwards' = Append(forwards, forward)
      BY <1>8, <2>1, <2>3, <3>1
    <3>3. QED
      BY <3>2
  <2>4. QED
    BY <2>2, <2>3
<1>20. Remembers(insn)
  BY <1>3, <1>5, <1>17, <1>18, <1>19 DEF Remembers
<1>21. Full(3) /\ ~allocated => forwards' = forwards
  BY <1>8
<1>22. UNCHANGED <<wideOpcode, phase, pc, wide, location>>
  BY <1>1
<1>23. Emit(3, <<o, d>>, insn.op, insn.args, allocated)
  BY <1>3, <1>7
<1>24. QED
  BY <1>3, <1>14, <1>20, <1>21, <1>22, <1>23, EmitStep

LEMMA AddLabelStep ==
  ASSUME CodeInv, phase = "building", UNCHANGED <<wideOpcode, phase, pc, wide>>,
         NEW label \in Labels, AddLabel(label)
  PROVE  CodeInv'
<1>1. /\ Variables /\ Sizes
      /\ bytes \in Seq(Octets) /\ Len(bytes) <= room /\ Len(bytes) <= 9 * Len(prog)
      /\ ~starved => Built(wideOpcode, prog, location, forwards, bytes, 0)
      /\ wideOpcode \in Octets /\ Len(bytes) \in Nat
  BY BuildingFacts
<1>2. /\ location[label] = Unset
      /\ location' = [location EXCEPT ![label] = Len(bytes)]
      /\ UNCHANGED <<bytes, size, room, forwards, prog, starved>>
  BY DEF AddLabel
<1>3. Sizes'
  BY <1>1, <1>2 DEF Sizes
<1>4. Variables'
  <2>1. location' \in Locations
    BY <1>1, <1>2 DEF Variables, Locations
  <2>2. QED
    BY <1>1, <1>2, <2>1 DEF Variables
<1>5. ~starved' => Built(wideOpcode', prog', location', forwards', bytes', 0)
  <2>1. prog \in Programs /\ location \in Locations
    BY <1>1 DEF Variables
  <2>2. ~starved => Built(wideOpcode, prog, [location EXCEPT ![label] = Len(bytes)],
                          forwards, bytes, 0)
    BY <1>1, <1>2, <2>1, BuiltLabel
  <2>3. QED
    BY <1>2, <2>2
<1>6. QED
  BY <1>1, <1>2, <1>3, <1>4, <1>5, BuildingThen

LEMMA BuildStep ==
  ASSUME CodeInv, Build
  PROVE  CodeInv'
<1>1. phase = "building" /\ UNCHANGED <<wideOpcode, phase, pc, wide>>
  BY DEF Build
<1>2. ASSUME NEW allocated \in BOOLEAN, Push(allocated)
      PROVE  CodeInv'
  BY <1>1, <1>2, PushStep
<1>3. ASSUME NEW allocated \in BOOLEAN, ConstantInsn(1, allocated)
      PROVE  CodeInv'
  BY <1>1, <1>3, ConstantStep
<1>4. ASSUME NEW allocated \in BOOLEAN, NEW local \in Locals, Var(local, allocated)
      PROVE  CodeInv'
  BY <1>1, <1>4, VarStep
<1>5. ASSUME NEW allocated \in BOOLEAN, NEW local \in Locals, NEW by \in Increments,
             IncInsn(local, by, allocated)
      PROVE  CodeInv'
  BY <1>1, <1>5, IncStep
<1>6. ASSUME NEW allocated \in BOOLEAN, NEW label \in Labels, NEW garbage \in {0, Byte},
             Jump(label, garbage, allocated)
      PROVE  CodeInv'
  BY <1>1, <1>6, JumpStep
<1>7. ASSUME NEW label \in Labels, AddLabel(label)
      PROVE  CodeInv'
  BY <1>1, <1>7, AddLabelStep
<1>8. QED
  BY <1>2, <1>3, <1>4, <1>5, <1>6, <1>7 DEF Build

-------------------------------------------------------------------------------
(* What the executor reads of an instruction.                              *)

(* The n bytes of d are in the code behind a place. *)
IsAt(at, n, d) ==
  /\ bytes \in Seq(Octets) /\ at \in Nat /\ n \in Nat /\ at + n <= Len(bytes)
  /\ d \in Seq(Octets) /\ Len(d) = n /\ \A i \in 1..n : bytes[at + i] = d[i]

LEMMA FetchedIs ==
  ASSUME NEW at, NEW n, NEW d, IsAt(at, n, d)
  PROVE  Fetched(at, n) = Number(d)
BY SubSeqIs DEF Fetched, IsAt

(* The instruction is in the code as it was emitted, and a jump leads to its label. *)
Lies(insn) ==
  /\ bytes \in Seq(Octets) /\ wideOpcode \in Octets
  /\ insn.at \in Nat /\ insn.at + Extent(wideOpcode, insn) <= Len(bytes)
  /\ Holds(wideOpcode, bytes, insn) /\ Formed(insn) /\ Representable(insn)
  /\ insn.op = JMP => Leads(location, bytes, insn) /\ location[insn.args[1]] \in Int

(* The executor finds it, behind a prefix or not, and its operands. *)
Read(insn, isWide) ==
  LET at == IF isWide THEN insn.at + 1 ELSE insn.at
  IN  /\ Prefixed(insn) <=> isWide
      /\ at + Length(insn.op, isWide) = insn.at + Extent(wideOpcode, insn)
      /\ bytes[at + 1] = insn.op
      /\ Operands(at, isWide) = Asked(insn)

LEMMA LengthIs ==
  /\ Width(LPUSH, FALSE) = 8 /\ Length(LPUSH, FALSE) = 9
  /\ Width(JMP, FALSE) = 2 /\ Length(JMP, FALSE) = 3
  /\ Length(WIDE, FALSE) = 1
  /\ Width(CALL, FALSE) = 2 /\ Length(CALL, FALSE) = 3
  /\ Width(LOAD, FALSE) = 1 /\ Length(LOAD, FALSE) = 2
  /\ Width(LOAD, TRUE) = 2 /\ Length(LOAD, TRUE) = 3
  /\ Width(INC, FALSE) = 1 /\ Length(INC, FALSE) = 3
  /\ Width(INC, TRUE) = 2 /\ Length(INC, TRUE) = 5
<1>1. /\ Width(LPUSH, FALSE) = 8 /\ Width(JMP, FALSE) = 2 /\ Width(WIDE, FALSE) = 0
      /\ Width(CALL, FALSE) = 2 /\ Width(LOAD, FALSE) = 1 /\ Width(LOAD, TRUE) = 2
      /\ Width(INC, FALSE) = 1 /\ Width(INC, TRUE) = 2
  BY OpcodeFacts DEF Width
<1>2. LPUSH # INC /\ JMP # INC /\ WIDE # INC /\ CALL # INC /\ LOAD # INC
  BY OpcodeFacts
<1>3. /\ Length(LPUSH, FALSE) = 1 + 1 * Width(LPUSH, FALSE)
      /\ Length(JMP, FALSE) = 1 + 1 * Width(JMP, FALSE)
      /\ Length(WIDE, FALSE) = 1 + 1 * Width(WIDE, FALSE)
      /\ Length(CALL, FALSE) = 1 + 1 * Width(CALL, FALSE)
      /\ Length(LOAD, FALSE) = 1 + 1 * Width(LOAD, FALSE)
      /\ Length(LOAD, TRUE) = 1 + 1 * Width(LOAD, TRUE)
      /\ Length(INC, FALSE) = 1 + 2 * Width(INC, FALSE)
      /\ Length(INC, TRUE) = 1 + 2 * Width(INC, TRUE)
  BY <1>2 DEF Length
<1>4. /\ 1 + 1 * 8 = 9 /\ 1 + 1 * 2 = 3 /\ 1 + 1 * 0 = 1 /\ 1 + 1 * 1 = 2
      /\ 1 + 2 * 1 = 3 /\ 1 + 2 * 2 = 5
  OBVIOUS
<1>5. QED
  BY <1>1, <1>3, <1>4, Zenon

LEMMA ReadConstant ==
  ASSUME NEW insn, Lies(insn), insn.op \in {LPUSH, CALL}
  PROVE  Read(insn, FALSE)
<1> DEFINE x == insn.at
           n == IF insn.op = LPUSH THEN 8 ELSE 2
           s == Shape(wideOpcode, insn)
           d == Digits(1, n)
<1>1. /\ bytes \in Seq(Octets) /\ wideOpcode \in Octets /\ x \in Nat
      /\ x + Extent(wideOpcode, insn) <= Len(bytes)
      /\ \A j \in 1..Len(s) : bytes[x + j] = s[j]
      /\ Formed(insn)
  BY DEF Lies, Holds
<1>2. /\ s \in Seq(Octets) /\ Len(s) = n + 1 /\ Extent(wideOpcode, insn) = n + 1
      /\ s[1] = insn.op /\ \A j \in 1..n : s[1 + j] = d[j]
  BY ShapeOfConstant
<1>3. n \in Nat /\ insn.args = <<1>> /\ Number(d) = 1 /\ insn.op \notin {JMP, INC, WIDE}
  <2>1. CASE insn.op = LPUSH
    BY <1>1, <2>1, OneReadBack, FormedFacts, OpcodeFacts
  <2>2. CASE insn.op = CALL
    <3>1. 1 < Shorts
      BY OpcodeFacts DEF Shorts
    <3>2. insn.op # LPUSH
      BY <2>2, OpcodeFacts
    <3>3. QED
      BY <1>1, <2>2, <3>1, <3>2, ShortReadBack, FormedFacts, OpcodeFacts
  <2>3. QED
    BY <2>1, <2>2
<1>4. d \in Seq(Octets) /\ Len(d) = n
  BY <1>3, DigitsType
<1>5. Width(insn.op, FALSE) = n /\ Length(insn.op, FALSE) = n + 1
  <2>1. 8 + 1 = 9 /\ 2 + 1 = 3 /\ CALL # LPUSH
    BY OpcodeFacts
  <2>2. CASE insn.op = LPUSH
    BY <2>1, <2>2, LengthIs, Zenon
  <2>3. CASE insn.op = CALL
    BY <2>1, <2>3, LengthIs, Zenon
  <2>4. QED
    BY <2>2, <2>3
<1> HIDE DEF s, d, n, x
<1>6. /\ bytes[x + 1] = insn.op
      /\ \A j \in 1..n : bytes[(x + 1) + j] = d[j]
  <2>1. 1 \in 1..Len(s) /\ \A j \in 1..n : 1 + j \in 1..Len(s) /\ x + (1 + j) = (x + 1) + j
    BY <1>1, <1>2, <1>3
  <2>2. QED
    BY <1>1, <1>2, <2>1
<1>7. Fetched(x + 1, n) = 1
  <2>1. x + 1 \in Nat /\ (x + 1) + n <= Len(bytes)
    BY <1>1, <1>2, <1>3
  <2>2. IsAt(x + 1, n, d)
    BY <1>1, <1>3, <1>4, <1>6, <2>1 DEF IsAt
  <2>3. QED
    BY <1>3, <2>2, FetchedIs
<1>8. Operands(x, FALSE) = <<1>>
  BY <1>3, <1>5, <1>6, <1>7, OpcodeFacts DEF Operands
<1>9. Asked(insn) = <<1>>
  BY <1>3 DEF Asked
<1>10. ~ Prefixed(insn)
  BY <1>3, <1>6 DEF Prefixed, x
<1>11. x + Length(insn.op, FALSE) = x + Extent(wideOpcode, insn)
  BY <1>2, <1>5
<1>12. QED
  BY <1>6, <1>8, <1>9, <1>10, <1>11 DEF Read, x

LEMMA ReadLoad ==
  ASSUME NEW insn, Lies(insn), insn.op = LOAD
  PROVE  Read(insn, TRUE) \/ Read(insn, FALSE)
<1> DEFINE x == insn.at
           s == Shape(wideOpcode, insn)
           v == insn.args[1]
           d1 == Digits(v, 1)
           d2 == Digits(v, 2)
<1>1. /\ bytes \in Seq(Octets) /\ wideOpcode \in Octets /\ x \in Nat
      /\ x + Extent(wideOpcode, insn) <= Len(bytes)
      /\ \A j \in 1..Len(s) : bytes[x + j] = s[j]
      /\ Formed(insn) /\ Representable(insn)
  BY DEF Lies, Holds
<1>2. v \in Int /\ 0 <= v /\ v < Shorts /\ insn.args = <<v>>
  BY <1>1, FormedFacts, OpcodeFacts DEF Shorts
<1>3. /\ s \in Seq(Octets) /\ Extent(wideOpcode, insn) = Len(s)
      /\ v > Byte - 1 => /\ Len(s) = 4 /\ s[1] = wideOpcode /\ s[2] = LOAD
                         /\ \A j \in 1..2 : s[2 + j] = d2[j]
      /\ ~ (v > Byte - 1) => /\ Len(s) = 2 /\ s[1] = LOAD
                             /\ \A j \in 1..1 : s[1 + j] = d1[j]
  <2>1. insn.args[1] \in Int
    BY <1>2
  <2>2. QED
    BY <1>1, <2>1, ShapeOfLoad, SMTT(30)
<1>4. /\ d1 \in Seq(Octets) /\ Len(d1) = 1 /\ d2 \in Seq(Octets) /\ Len(d2) = 2
      /\ Number(d2) = v
  BY <1>2, DigitsOf, ShortReadBack
<1>5. Asked(insn) = <<v>> /\ LOAD # JMP /\ LOAD # INC /\ LOAD # WIDE
  BY <1>2, OpcodeFacts DEF Asked
<1>6. CASE v > Byte - 1
  <2>1. wideOpcode = WIDE
    <3>1. v < Byte \/ wideOpcode = WIDE
      BY <1>1, <1>5 DEF Representable
    <3>2. QED
      BY <1>2, <1>6, <3>1, OpcodeFacts
  <2> HIDE DEF s, d1, d2, x, v
  <2>2. /\ bytes[x + 1] = WIDE /\ bytes[x + 2] = LOAD
        /\ \A j \in 1..2 : bytes[(x + 2) + j] = d2[j]
    <3>1. 1 \in 1..Len(s) /\ 2 \in 1..Len(s)
          /\ \A j \in 1..2 : 2 + j \in 1..Len(s) /\ x + (2 + j) = (x + 2) + j
      BY <1>1, <1>3, <1>6
    <3>2. QED
      BY <1>1, <1>3, <1>6, <2>1, <3>1
  <2>3. (x + 1) + 1 = x + 2 /\ x + 2 \in Nat /\ x < Len(bytes) /\ (x + 2) + 2 <= Len(bytes)
    BY <1>1, <1>3, <1>6
  <2>4. Fetched(x + 2, 2) = v
    <3>1. IsAt(x + 2, 2, d2)
      BY <1>1, <1>4, <2>2, <2>3 DEF IsAt
    <3>2. QED
      BY <1>4, <3>1, FetchedIs
  <2>5. Operands(x + 1, TRUE) = <<v>>
    BY <1>5, <2>2, <2>3, <2>4, LengthIs DEF Operands
  <2>6. Prefixed(insn)
    BY <2>2, <2>3 DEF Prefixed, x
  <2>7. (x + 1) + Length(LOAD, TRUE) = x + Extent(wideOpcode, insn)
    <3>3. Extent(wideOpcode, insn) = 4
      BY <1>3, <1>6
    <3>1. (x + 1) + 3 = x + Extent(wideOpcode, insn)
      BY <1>1, <3>3
    <3>2. QED
      BY <3>1, LengthIs, Zenon
  <2>8. QED
    BY <1>5, <2>2, <2>3, <2>5, <2>6, <2>7 DEF Read, x
<1>7. CASE ~ (v > Byte - 1)
  <2>1. v \in Octets /\ Number(d1) = v
    <3>1. v \in Octets
      BY <1>2, <1>7, OpcodeFacts DEF Octets
    <3>2. QED
      BY <3>1, ByteReadBack
  <2> HIDE DEF s, d1, d2, x, v
  <2>2. bytes[x + 1] = LOAD /\ \A j \in 1..1 : bytes[(x + 1) + j] = d1[j]
    <3>1. 1 \in 1..Len(s) /\ \A j \in 1..1 : 1 + j \in 1..Len(s) /\ x + (1 + j) = (x + 1) + j
      BY <1>1, <1>3, <1>7
    <3>2. QED
      BY <1>1, <1>3, <1>7, <3>1
  <2>3. x + 1 \in Nat /\ (x + 1) + 1 <= Len(bytes)
    BY <1>1, <1>3, <1>7
  <2>4. Fetched(x + 1, 1) = v
    <3>1. IsAt(x + 1, 1, d1)
      BY <1>1, <1>4, <2>2, <2>3 DEF IsAt
    <3>2. QED
      BY <2>1, <3>1, FetchedIs
  <2>5. Operands(x, FALSE) = <<v>>
    BY <1>5, <2>2, <2>4, LengthIs DEF Operands
  <2>6. ~ Prefixed(insn)
    BY <1>5, <2>2 DEF Prefixed, x
  <2>7. x + Length(LOAD, FALSE) = x + Extent(wideOpcode, insn)
    BY <1>1, <1>3, <1>7, LengthIs
  <2>8. QED
    BY <1>5, <2>2, <2>5, <2>6, <2>7 DEF Read, x
<1>8. QED
  BY <1>6, <1>7

LEMMA OperandsOfInc ==
  ASSUME NEW at, NEW isWide, bytes[at + 1] = INC
  PROVE  Operands(at, isWide)
           = <<Fetched(at + 1, Width(INC, isWide)), Increment(at, isWide)>>
BY OpcodeFacts DEF Operands

LEMMA ReadInc ==
  ASSUME NEW insn, Lies(insn), insn.op = INC
  PROVE  Read(insn, TRUE) \/ Read(insn, FALSE)
<1> DEFINE x == insn.at
           s == Shape(wideOpcode, insn)
           v == insn.args[1]
           by == insn.args[2]
           d1 == Digits(v, 1)
           d2 == Digits(v, 2)
           e1 == Digits(by, 1)
           e2 == Digits(by, 2)
<1>1. /\ bytes \in Seq(Octets) /\ wideOpcode \in Octets /\ x \in Nat
      /\ x + Extent(wideOpcode, insn) <= Len(bytes)
      /\ \A j \in 1..Len(s) : bytes[x + j] = s[j]
      /\ Formed(insn) /\ Representable(insn)
  BY DEF Lies, Holds
<1>2. v \in Int /\ 0 <= v /\ v < Shorts /\ by \in Int /\ FitsShort(by) /\ insn.args = <<v, by>>
  BY <1>1, FormedFacts, OpcodeFacts DEF Shorts
<1>3. /\ s \in Seq(Octets) /\ Extent(wideOpcode, insn) = Len(s)
      /\ IncIsWide(v, by) => /\ Len(s) = 6 /\ s[1] = WIDE /\ s[2] = INC
                             /\ \A j \in 1..2 : s[2 + j] = d2[j]
                             /\ \A j \in 1..2 : s[4 + j] = e2[j]
      /\ ~ IncIsWide(v, by) => /\ Len(s) = 3 /\ s[1] = INC
                               /\ \A j \in 1..1 : s[1 + j] = d1[j]
                               /\ \A j \in 1..1 : s[2 + j] = e1[j]
  <2>1. insn.args[1] \in Int /\ insn.args[2] \in Int
    BY <1>2
  <2>2. QED
    BY <1>1, <2>1, ShapeOfInc, SMTT(30)
<1>4. /\ d1 \in Seq(Octets) /\ Len(d1) = 1 /\ d2 \in Seq(Octets) /\ Len(d2) = 2
      /\ e1 \in Seq(Octets) /\ Len(e1) = 1 /\ e2 \in Seq(Octets) /\ Len(e2) = 2
      /\ Number(d2) = v /\ Signed(Number(e2)) = by
  BY <1>2, DigitsOf, ShortReadBack, SignedReadBack
<1>5. Asked(insn) = <<v, by>> /\ INC # JMP /\ INC # WIDE
  BY <1>2, OpcodeFacts DEF Asked
<1>6. CASE IncIsWide(v, by)
  <2> HIDE DEF s, d1, d2, e1, e2, x, v, by
  <2>2. /\ bytes[x + 1] = WIDE /\ bytes[x + 2] = INC
        /\ \A j \in 1..2 : bytes[(x + 2) + j] = d2[j]
        /\ \A j \in 1..2 : bytes[(x + 4) + j] = e2[j]
    <3>1. 1 \in 1..Len(s) /\ 2 \in 1..Len(s)
          /\ \A j \in 1..2 : /\ 2 + j \in 1..Len(s) /\ x + (2 + j) = (x + 2) + j
                             /\ 4 + j \in 1..Len(s) /\ x + (4 + j) = (x + 4) + j
      BY <1>1, <1>3, <1>6
    <3>2. /\ s[1] = WIDE /\ s[2] = INC
          /\ \A j \in 1..2 : s[2 + j] = d2[j] /\ s[4 + j] = e2[j]
      BY <1>3, <1>6
    <3>3. bytes[x + 1] = WIDE /\ bytes[x + 2] = INC
      BY <1>1, <3>1, <3>2, Zenon
    <3>4. ASSUME NEW j \in 1..2
          PROVE  bytes[(x + 2) + j] = d2[j] /\ bytes[(x + 4) + j] = e2[j]
      BY <1>1, <3>1, <3>2, Zenon
    <3>5. QED
      BY <3>3, <3>4
  <2>3. /\ (x + 1) + 1 = x + 2 /\ x + 2 \in Nat /\ x < Len(bytes) /\ (x + 2) + 2 <= Len(bytes)
        /\ (x + 1) + 3 = x + 4 /\ x + 4 \in Nat /\ (x + 4) + 2 <= Len(bytes)
    BY <1>1, <1>3, <1>6
  <2>4. Fetched(x + 2, 2) = v /\ Fetched(x + 4, 2) = Number(e2)
    <3>1. IsAt(x + 2, 2, d2)
      BY <1>1, <1>4, <2>2, <2>3 DEF IsAt
    <3>2. IsAt(x + 4, 2, e2)
      BY <1>1, <1>4, <2>2, <2>3 DEF IsAt
    <3>3. QED
      BY <1>4, <3>1, <3>2, FetchedIs
  <2>9. Increment(x + 1, TRUE) = by
    BY <1>4, <2>3, <2>4 DEF Increment
  <2>5. Operands(x + 1, TRUE) = <<v, by>>
    <3> DEFINE y == x + 1
    <3>1. bytes[y + 1] = INC /\ Width(INC, TRUE) = 2
      BY <2>2, <2>3, LengthIs
    <3> HIDE DEF y
    <3>4. Operands(y, TRUE) = <<Fetched(y + 1, Width(INC, TRUE)), Increment(y, TRUE)>>
      BY <3>1, OperandsOfInc
    <3>2. Operands(x + 1, TRUE)
            = <<Fetched((x + 1) + 1, Width(INC, TRUE)), Increment(x + 1, TRUE)>>
      BY <3>4 DEF y
    <3>3. QED
      BY <2>3, <2>4, <2>9, <3>1, <3>2
  <2>6. Prefixed(insn)
    BY <2>2, <2>3 DEF Prefixed, x
  <2>7. (x + 1) + Length(INC, TRUE) = x + Extent(wideOpcode, insn)
    <3>3. Extent(wideOpcode, insn) = 6
      BY <1>3, <1>6
    <3>1. (x + 1) + 5 = x + Extent(wideOpcode, insn)
      BY <1>1, <3>3
    <3>2. QED
      BY <3>1, LengthIs, Zenon
  <2>8. QED
    BY <1>5, <2>2, <2>3, <2>5, <2>6, <2>7 DEF Read, x
<1>7. CASE ~ IncIsWide(v, by)
  <2>1. v \in Octets /\ Number(d1) = v /\ by \in Octets /\ Number(e1) = by
    <3>1. by >= 0
      BY <1>1, <1>7, OpcodeFacts DEF Representable
    <3>2. v \in Octets /\ by \in Octets
      BY <1>2, <1>7, <3>1, OpcodeFacts DEF IncIsWide, FitsByte, Octets
    <3>3. QED
      BY <3>2, ByteReadBack
  <2> HIDE DEF s, d1, d2, e1, e2, x, v, by
  <2>2. /\ bytes[x + 1] = INC
        /\ \A j \in 1..1 : bytes[(x + 1) + j] = d1[j]
        /\ \A j \in 1..1 : bytes[(x + 2) + j] = e1[j]
    <3>1. 1 \in 1..Len(s) /\ \A j \in 1..1 : /\ 1 + j \in 1..Len(s) /\ x + (1 + j) = (x + 1) + j
                                             /\ 2 + j \in 1..Len(s) /\ x + (2 + j) = (x + 2) + j
      BY <1>1, <1>3, <1>7
    <3>2. QED
      BY <1>1, <1>3, <1>7, <3>1
  <2>3. /\ x + 1 \in Nat /\ (x + 1) + 1 <= Len(bytes)
        /\ x + 2 \in Nat /\ (x + 2) + 1 <= Len(bytes)
    BY <1>1, <1>3, <1>7
  <2>4. Fetched(x + 1, 1) = v /\ Fetched(x + 2, 1) = by
    <3>1. IsAt(x + 1, 1, d1)
      BY <1>1, <1>4, <2>2, <2>3 DEF IsAt
    <3>2. IsAt(x + 2, 1, e1)
      BY <1>1, <1>4, <2>2, <2>3 DEF IsAt
    <3>3. QED
      BY <2>1, <3>1, <3>2, FetchedIs
  <2>5. Operands(x, FALSE) = <<v, by>>
    <3>1. Width(INC, FALSE) = 1 /\ Increment(x, FALSE) = Fetched(x + 2, 1)
      BY LengthIs DEF Increment
    <3>2. Operands(x, FALSE) = <<Fetched(x + 1, Width(INC, FALSE)), Increment(x, FALSE)>>
      BY <2>2, OperandsOfInc
    <3>3. QED
      BY <2>4, <3>1, <3>2
  <2>6. ~ Prefixed(insn)
    BY <1>5, <2>2 DEF Prefixed, x
  <2>7. x + Length(INC, FALSE) = x + Extent(wideOpcode, insn)
    BY <1>1, <1>3, <1>7, LengthIs
  <2>8. QED
    BY <1>5, <2>2, <2>5, <2>6, <2>7 DEF Read, x
<1>8. QED
  BY <1>6, <1>7

LEMMA ReadJump ==
  ASSUME NEW insn, Lies(insn), insn.op = JMP
  PROVE  Read(insn, FALSE)
<1> DEFINE x == insn.at
           to == location[insn.args[1]]
           d == Digits(Displacement(x + 3, to), 2)
<1>1. /\ bytes \in Seq(Octets) /\ wideOpcode \in Octets /\ x \in Nat
      /\ Extent(wideOpcode, insn) = 3 /\ x + 3 <= Len(bytes)
      /\ Holds(wideOpcode, bytes, insn)
      /\ Representable(insn) /\ to \in Int
      /\ bytes[x + 2] = d[1] /\ bytes[x + 3] = d[2]
  BY ShapeOfJump DEF Lies, Leads
<1>2. bytes[x + 1] = JMP /\ JMP # WIDE
  <2>1. Shape(wideOpcode, insn) = <<JMP>> /\ Len(<<JMP>>) = 1 /\ <<JMP>>[1] = JMP /\ 1 \in 1..1
    BY ShapeOfJump
  <2>2. QED
    BY <1>1, <2>1, OpcodeFacts DEF Holds
<1>3. FitsShort(to - (x + 3)) /\ to - (x + 3) \in Int /\ Displacement(x + 3, to) = to - (x + 3)
  BY <1>1, OpcodeFacts DEF Representable, Displacement
<1>4. d \in Seq(Octets) /\ Len(d) = 2 /\ Signed(Number(d)) = to - (x + 3)
  BY <1>3, DigitsOf, SignedReadBack
<1>5. Asked(insn) = <<to>>
  BY DEF Asked
<1> HIDE DEF d, to, x
<1>6. Fetched(x + 1, 2) = Number(d)
  <2>1. \A j \in 1..2 : bytes[(x + 1) + j] = d[j]
    <3>1. (x + 1) + 1 = x + 2 /\ (x + 1) + 2 = x + 3 /\ \A j \in 1..2 : j = 1 \/ j = 2
      BY <1>1
    <3>2. QED
      BY <1>1, <3>1
  <2>2. x + 1 \in Nat /\ (x + 1) + 2 <= Len(bytes)
    BY <1>1
  <2>3. IsAt(x + 1, 2, d)
    BY <1>1, <1>4, <2>1, <2>2 DEF IsAt
  <2>4. QED
    BY <2>3, FetchedIs
<1>7. x + 3 + Signed(Fetched(x + 1, 2)) = to
  BY <1>1, <1>4, <1>6
<1>8. Operands(x, FALSE) = <<to>>
  BY <1>2, <1>7, OpcodeFacts DEF Operands
<1>9. ~ Prefixed(insn)
  BY <1>2 DEF Prefixed, x
<1>10. QED
  BY <1>1, <1>2, <1>5, <1>8, <1>9, LengthIs DEF Read, x

(* What the invariant says once the code is read. *)
Stored ==
  /\ Variables /\ bytes \in Seq(Octets)
  /\ Built(wideOpcode, prog, location, forwards, bytes, Len(forwards))

LEMMA AllRead ==
  ASSUME Stored, NEW k \in DOMAIN prog, Representable(prog[k])
  PROVE  /\ prog[k].op \in {LPUSH, CALL, LOAD, INC, JMP} /\ prog[k].at \in Nat
         /\ prog[k].at + Extent(wideOpcode, prog[k]) = EndOf(k) /\ EndOf(k) \in Boundaries
         /\ Read(prog[k], FALSE) \/ (prog[k].op \in {LOAD, INC} /\ Read(prog[k], TRUE))
         /\ prog[k].op = JMP => location[prog[k].args[1]] \in Boundaries
<1> DEFINE insn == prog[k]
<1>1. /\ wideOpcode \in Octets /\ prog \in Programs /\ bytes \in Seq(Octets)
      /\ forwards \in Seq(Forwards) /\ location \in Locations
      /\ Holds(wideOpcode, bytes, insn) /\ Laid(wideOpcode, prog, Len(bytes))
      /\ Located(prog, location, Len(bytes))
      /\ Pending(prog, location, forwards, bytes, Len(forwards))
  BY OpcodeFacts DEF Stored, Variables, Built
<1>2. /\ insn.at \in Nat /\ Formed(insn)
      /\ insn.at + Extent(wideOpcode, insn) <= Len(bytes)
  BY <1>1, Within
<1>3. /\ insn.op \in {LPUSH, CALL, LOAD, INC, JMP}
      /\ insn.op = JMP => insn.args[1] \in Labels
  BY <1>2, FormedFacts
<1>4. ASSUME insn.op = JMP
      PROVE  /\ Leads(location, bytes, insn) /\ location[insn.args[1]] \in Int
             /\ location[insn.args[1]] \in Boundaries
  <2> DEFINE label == insn.args[1]
  <2>1. Leads(location, bytes, insn)
    <3>1. ~ \E i \in DOMAIN forwards : i > Len(forwards)
      BY <1>1
    <3>2. QED
      BY <1>1, <1>4, <3>1 DEF Pending
  <2>2. label \in Labels /\ location[label] # Unset /\ location[label] \in Int
    BY <1>1, <1>3, <1>4, <2>1 DEF Leads, Locations, Unset
  <2>3. \/ location[label] = Len(bytes)
        \/ \E j \in DOMAIN prog : prog[j].at = location[label]
    BY <1>1, <2>2 DEF Located
  <2>4. location[label] \in Boundaries
    BY <2>3 DEF Boundaries
  <2>5. QED
    BY <2>1, <2>2, <2>4
<1>5. Lies(insn)
  BY <1>1, <1>2, <1>4 DEF Lies
<1>6. insn.at + Extent(wideOpcode, insn) = EndOf(k)
  BY <1>1 DEF Laid, EndOf
<1>7. EndOf(k) \in Boundaries
  <2>1. k < Len(prog) => k + 1 \in DOMAIN prog
    BY <1>1 DEF Programs
  <2>2. QED
    BY <2>1 DEF EndOf, Boundaries
<1>8. Read(insn, FALSE) \/ (insn.op \in {LOAD, INC} /\ Read(insn, TRUE))
  BY <1>3, <1>5, ReadConstant, ReadLoad, ReadInc, ReadJump
<1>9. QED
  BY <1>2, <1>3, <1>4, <1>6, <1>7, <1>8

LEMMA Decoded ==
  ASSUME CodeInv
  PROVE  DecodesAsEmitted
<1> SUFFICES ASSUME phase \in {"running", "exited"}, ~starved,
                    NEW k \in DOMAIN prog, Representable(prog[k])
             PROVE  LET at == Opcode(prog[k])
                        isWide == Prefixed(prog[k])
                    IN  /\ at + Length(prog[k].op, isWide) = EndOf(k)
                        /\ bytes[at + 1] = prog[k].op
                        /\ Operands(at, isWide) = Asked(prog[k])
  BY DEF DecodesAsEmitted
<1>1. Stored
  BY DEF CodeInv, CodeOK, TheCode, Patches, Stored
<1>2. /\ prog[k].at + Extent(wideOpcode, prog[k]) = EndOf(k) /\ prog[k].at \in Nat
      /\ Read(prog[k], FALSE) \/ Read(prog[k], TRUE)
  BY <1>1, AllRead
<1>3. CASE Read(prog[k], FALSE)
  <2>1. Prefixed(prog[k]) = FALSE
    BY <1>3 DEF Read, Prefixed
  <2>2. Opcode(prog[k]) = prog[k].at
    BY <1>2, <2>1 DEF Opcode
  <2>3. QED
    BY <1>2, <1>3, <2>1, <2>2, Zenon DEF Read
<1>4. CASE Read(prog[k], TRUE)
  <2>1. Prefixed(prog[k]) = TRUE
    BY <1>4 DEF Read, Prefixed
  <2>2. Opcode(prog[k]) = prog[k].at + 1
    BY <1>2, <2>1 DEF Opcode
  <2>3. QED
    BY <1>2, <1>4, <2>1, <2>2, Zenon DEF Read
<1>5. QED
  BY <1>2, <1>3, <1>4

LEMMA FinishStep ==
  ASSUME CodeInv, Finish
  PROVE  CodeInv'
<1>1. /\ Variables /\ Sizes
      /\ bytes \in Seq(Octets) /\ Len(bytes) <= room /\ Len(bytes) <= 9 * Len(prog)
      /\ ~starved => Built(wideOpcode, prog, location, forwards, bytes, 0)
      /\ wideOpcode \in Octets /\ Len(bytes) \in Nat
  BY BuildingFacts DEF Finish
<1>2. /\ \A i \in DOMAIN forwards : location[forwards[i].label] # Unset
      /\ bytes' = CodeAttribute(PatchedAll) /\ phase' = "stored" /\ phase = "building"
      /\ UNCHANGED <<size, room, wideOpcode, location, forwards, prog, starved, pc, wide>>
  BY DEF Finish
<1>3. prog \in Programs /\ location \in Locations /\ forwards \in Seq(Forwards)
  BY <1>1 DEF Variables
<1>4. /\ PatchedAll \in Seq(Octets) /\ Len(PatchedAll) = Len(bytes)
      /\ ~starved => Built(wideOpcode, prog, location, forwards, PatchedAll, Len(forwards))
  BY <1>1, <1>2, <1>3, AllPatched
<1>5. Len(PatchedAll) < Shorts * Shorts
  BY <1>1, <1>3, <1>4, ShortEnough
<1>6. CodeOf(CodeAttribute(PatchedAll)) = PatchedAll
  BY <1>4, <1>5, AttributeRead
<1>7. TheCode' = PatchedAll /\ Patches' = Len(forwards)
  BY <1>2, <1>6 DEF TheCode, Patches
<1>8. CodeOK(TheCode, Patches)'
  BY <1>1, <1>2, <1>4, <1>7 DEF CodeOK
<1>9. Variables' /\ Sizes'
  BY <1>1, <1>2 DEF Variables, Sizes
<1>10. QED
  BY <1>2, <1>7, <1>8, <1>9 DEF CodeInv, Stands

LEMMA LoadStep ==
  ASSUME CodeInv, LoadFunction
  PROVE  CodeInv'
<1>1. /\ phase = "stored" /\ bytes' = CodeOf(bytes) /\ phase' = "running"
      /\ UNCHANGED <<size, room, wideOpcode, location, forwards, prog, starved, pc, wide>>
  BY DEF LoadFunction
<1>2. /\ Variables /\ Sizes /\ CodeOK(TheCode, Patches)
      /\ TheCode = CodeOf(bytes) /\ Patches = Len(forwards)
  BY <1>1 DEF CodeInv, TheCode, Patches
<1>3. bytes' = TheCode /\ TheCode' = TheCode /\ Patches' = Patches
  BY <1>1, <1>2 DEF TheCode, Patches
<1>4. CodeOK(TheCode, Patches)'
  BY <1>1, <1>2, <1>3 DEF CodeOK
<1>5. Variables' /\ Sizes'
  BY <1>1, <1>2 DEF Variables, Sizes
<1>6. pc' = 0 /\ ~ wide' /\ prog \in Programs
  BY <1>1, <1>2 DEF Variables
<1>7. ASSUME ~ starved'
      PROVE  pc' \in Boundaries'
  <2>1. Laid(wideOpcode, prog, Len(bytes'))
    BY <1>1, <1>2, <1>3, <1>7 DEF CodeOK, Built
  <2>2. CASE prog = <<>>
    <3>1. pc' = Len(bytes')
      BY <1>6, <2>1, <2>2 DEF Laid
    <3>2. QED
      BY <3>1 DEF Boundaries
  <2>3. CASE prog # <<>>
    <3>1. 1 \in DOMAIN prog /\ prog[1].at = 0
      BY <1>6, <2>1, <2>3 DEF Laid, Programs
    <3>2. QED
      BY <1>1, <1>6, <3>1 DEF Boundaries
  <2>4. QED
    BY <2>2, <2>3
<1>8. Stands'
  BY <1>6, <1>7 DEF Stands
<1>9. QED
  BY <1>1, <1>4, <1>5, <1>8 DEF CodeInv

LEMMA ExecuteStep ==
  ASSUME CodeInv, ExecuteInstruction
  PROVE  CodeInv'
<1> DEFINE op == bytes[pc + 1]
<1>1. /\ phase = "running" /\ UNCHANGED building
      /\ \/ phase' = "exited" /\ pc' = pc /\ wide' = wide
         \/ /\ phase' = phase /\ InCode(1)
            /\ \/ pc' = pc + Length(op, wide)
               \/ op = JMP /\ pc' = Operands(pc, wide)[1]
            /\ wide' = (op = WIDE \/ (op \in Unguarded /\ wide))
  BY DEF ExecuteInstruction, FetchFails
<1>2. /\ Variables /\ Sizes /\ CodeOK(bytes, Len(forwards)) /\ Stands
  BY <1>1 DEF CodeInv, TheCode, Patches
<1>3. Sizes'
  BY <1>1, <1>2 DEF Sizes, building
<1>4. Variables'
  <2>1. wide' \in BOOLEAN
    BY <1>1, <1>2 DEF Variables
  <2>2. phase' \in {"running", "exited"}
    BY <1>1
  <2>3. QED
    BY <1>1, <1>2, <2>1, <2>2 DEF Variables, building
<1>5. CodeOK(TheCode, Patches)'
  <2>1. TheCode' = bytes /\ Patches' = Len(forwards)
    BY <1>1 DEF TheCode, Patches, building
  <2>2. QED
    BY <1>1, <1>2, <2>1 DEF CodeOK, building
<1>6. Stands'
  <2> SUFFICES ASSUME phase' = "running", ~starved,
                      \A k \in DOMAIN prog : Representable(prog[k])
               PROVE  IF wide' THEN \E k \in DOMAIN prog : /\ pc' = prog[k].at + 1
                                                           /\ Prefixed(prog[k])
                      ELSE pc' \in Boundaries
    BY <1>1 DEF Stands, Representable, Prefixed, Boundaries, building
  <2>1. /\ InCode(1)
        /\ \/ pc' = pc + Length(op, wide)
           \/ op = JMP /\ pc' = Operands(pc, wide)[1]
        /\ wide' = (op = WIDE \/ (op \in Unguarded /\ wide))
    BY <1>1
  <2>2. Stored
    BY <1>2 DEF CodeOK, Stored
  <2>3. IF wide THEN \E k \in DOMAIN prog : pc = prog[k].at + 1 /\ Prefixed(prog[k])
        ELSE pc \in Boundaries
    BY <1>1, <1>2 DEF Stands
  <2>4. ASSUME NEW k \in DOMAIN prog
        PROVE  /\ prog[k].op \in {LPUSH, CALL, LOAD, INC, JMP} /\ prog[k].at \in Nat
               /\ prog[k].at + Extent(wideOpcode, prog[k]) = EndOf(k)
               /\ EndOf(k) \in Boundaries
               /\ Read(prog[k], FALSE) \/ (prog[k].op \in {LOAD, INC} /\ Read(prog[k], TRUE))
               /\ prog[k].op = JMP => location[prog[k].args[1]] \in Boundaries
    BY <2>2, AllRead
  <2>5. CASE wide
    <3>1. PICK k \in DOMAIN prog : pc = prog[k].at + 1 /\ Prefixed(prog[k])
      BY <2>3, <2>5
    <3>2. prog[k].op \in {LOAD, INC} /\ Read(prog[k], TRUE) /\ EndOf(k) \in Boundaries
          /\ prog[k].at + Extent(wideOpcode, prog[k]) = EndOf(k)
      BY <2>4, <3>1 DEF Read
    <3>3. op = prog[k].op /\ pc + Length(op, TRUE) = EndOf(k)
      BY <3>1, <3>2, Zenon DEF Read
    <3>4. op \notin {JMP, WIDE} /\ op \notin Unguarded
      BY <3>2, <3>3, OpcodeFacts DEF Unguarded
    <3>5. ~ wide' /\ pc' = pc + Length(op, wide)
      BY <2>1, <3>4
    <3>6. wide = TRUE
      BY <1>2, <2>5 DEF Variables
    <3>7. pc' = EndOf(k)
      BY <3>3, <3>5, <3>6, Zenon
    <3>8. QED
      BY <3>2, <3>5, <3>7
  <2>6. CASE ~ wide
    <3>1. PICK k \in DOMAIN prog : pc = prog[k].at
      <4>1. pc # Len(bytes)
        BY <1>2, <2>1 DEF InCode, CodeOK
      <4>2. QED
        BY <2>3, <2>6, <4>1 DEF Boundaries
    <3>2. wide = FALSE
      BY <1>2, <2>6 DEF Variables
    <3>3. CASE Read(prog[k], TRUE)
      <4>1. op = WIDE /\ Prefixed(prog[k])
        BY <3>1, <3>3 DEF Read, Prefixed
      <4>2. wide' /\ op # JMP
        BY <2>1, <4>1, OpcodeFacts
      <4>3. pc' = pc + Length(WIDE, FALSE)
        BY <2>1, <3>2, <4>1, <4>2, Zenon
      <4>4. pc' = pc + 1
        BY <4>3, LengthIs, Zenon
      <4>5. QED
        BY <3>1, <4>1, <4>2, <4>4
    <3>4. CASE Read(prog[k], FALSE)
      <4>1. /\ op = prog[k].op /\ pc + Length(op, FALSE) = EndOf(k)
            /\ Operands(pc, FALSE) = Asked(prog[k])
        BY <2>4, <3>1, <3>4, Zenon DEF Read
      <4>2. op # WIDE /\ ~ wide'
        BY <2>1, <2>4, <2>6, <4>1, OpcodeFacts
      <4>3. CASE pc' = pc + Length(op, wide)
        <5>1. pc' = EndOf(k)
          BY <3>2, <4>1, <4>3, Zenon
        <5>2. QED
          BY <2>4, <4>2, <5>1
      <4>4. CASE op = JMP /\ pc' = Operands(pc, wide)[1]
        <5>1. pc' = Asked(prog[k])[1]
          BY <3>2, <4>1, <4>4, Zenon
        <5>2. Asked(prog[k]) = <<location[prog[k].args[1]]>>
          BY <4>1, <4>4 DEF Asked
        <5>3. pc' = location[prog[k].args[1]]
          BY <5>1, <5>2
        <5>4. QED
          BY <2>4, <4>1, <4>2, <4>4, <5>3
      <4>5. QED
        BY <2>1, <4>3, <4>4
    <3>5. QED
      BY <2>4, <3>3, <3>4
  <2>7. QED
    BY <2>5, <2>6
<1>7. phase' # "stored"
  BY <1>1
<1>8. QED
  BY <1>3, <1>4, <1>5, <1>6, <1>7 DEF CodeInv

LEMMA CodeStarts == CodeInit => CodeInv
<1> SUFFICES ASSUME CodeInit
             PROVE  CodeInv
  OBVIOUS
<1>1. /\ bytes = <<>> /\ size = InitialSize /\ room = InitialSize
      /\ wideOpcode \in {NOP, WIDE} /\ location = [l \in Labels |-> Unset]
      /\ forwards = <<>> /\ prog = <<>> /\ starved = FALSE
      /\ phase = "building" /\ pc = 0 /\ wide = FALSE
  BY DEF CodeInit
<1>2. Variables
  <2>1. prog \in Programs
    <3>1. prog \in Seq(Insns) /\ Len(prog) = 0 /\ DOMAIN prog = {}
      BY <1>1
    <3>2. QED
      BY <3>1, SizeAssumption DEF Programs
  <2>2. location \in Locations
    BY <1>1 DEF Locations
  <2>3. forwards \in Seq(Forwards)
    BY <1>1
  <2>4. QED
    BY <1>1, <2>1, <2>2, <2>3 DEF Variables
<1>3. Sizes
  BY <1>1, SizeAssumption DEF Sizes
<1>4. Built(wideOpcode, prog, location, forwards, bytes, 0)
  <2>1. DOMAIN prog = {} /\ DOMAIN forwards = {} /\ Len(bytes) = 0
    BY <1>1
  <2>2. Laid(wideOpcode, prog, Len(bytes))
    BY <1>1, <2>1 DEF Laid
  <2>3. Located(prog, location, Len(bytes))
    BY <1>1 DEF Located
  <2>4. Forwarded(prog, forwards) /\ Pending(prog, location, forwards, bytes, 0)
    BY <2>1 DEF Forwarded, Pending
  <2>5. QED
    BY <2>1, <2>2, <2>3, <2>4 DEF Built
<1>5. CodeOK(bytes, 0)
  BY <1>1, <1>4, SizeAssumption DEF CodeOK
<1>6. TheCode = bytes /\ Patches = 0
  BY <1>1 DEF TheCode, Patches
<1>7. QED
  BY <1>1, <1>2, <1>3, <1>5, <1>6 DEF CodeInv, Stands

LEMMA CodeStep ==
  ASSUME CodeInv, [CodeNext]_codeVars
  PROVE  CodeInv'
<1>1. CASE Build
  BY <1>1, BuildStep
<1>2. CASE Finish
  BY <1>2, FinishStep
<1>3. CASE LoadFunction
  BY <1>3, LoadStep
<1>4. CASE ExecuteInstruction
  BY <1>4, ExecuteStep
<1>5. CASE UNCHANGED codeVars
  BY <1>5 DEF codeVars, CodeInv, Variables, Sizes, CodeOK, TheCode, Patches, Stands,
              Representable, Prefixed, Boundaries
<1>6. QED
  BY <1>1, <1>2, <1>3, <1>4, <1>5 DEF CodeNext

LEMMA Sound ==
  ASSUME CodeInv
  PROVE  ExecutionSound
<1>1. /\ Variables /\ Sizes /\ CodeOK(TheCode, Patches) /\ Stands
      /\ phase = "stored" => bytes = CodeAttribute(TheCode)
  BY DEF CodeInv
<1>2. TheCode \in Seq(Octets) /\ Len(TheCode) <= room
  BY <1>1 DEF CodeOK
<1>3. bytes \in Seq(Octets)
  <2>1. CASE phase = "stored"
    <3>1. Len(TheCode) < Shorts * Shorts
      BY <1>1, ShortEnough DEF CodeOK, Variables
    <3>2. QED
      BY <1>1, <1>2, <2>1, <3>1, AttributeRead
  <2>2. CASE phase # "stored"
    BY <1>2, <2>2 DEF TheCode
  <2>3. QED
    BY <2>1, <2>2
<1>4. phase # "stored" => Len(bytes) <= room
  BY <1>2 DEF TheCode
<1>5. CodeTypeOK
  BY <1>1, <1>3, <1>4 DEF CodeTypeOK, Variables, Sizes, Octets, Locations
<1>6. RunsOnBoundaries
  <2> SUFFICES ASSUME phase = "running", ~starved,
                      \A k \in DOMAIN prog : Representable(prog[k])
               PROVE  IF wide THEN pc - 1 \in Boundaries /\ bytes[pc] = WIDE
                      ELSE pc \in Boundaries
    BY DEF RunsOnBoundaries
  <2>1. IF wide THEN \E k \in DOMAIN prog : pc = prog[k].at + 1 /\ Prefixed(prog[k])
        ELSE pc \in Boundaries
    BY <1>1 DEF Stands
  <2>2. CASE wide
    <3>1. PICK k \in DOMAIN prog : pc = prog[k].at + 1 /\ Prefixed(prog[k])
      BY <2>1, <2>2
    <3>2. prog[k].at \in Nat
      <4>1. prog \in Seq(Insns)
        BY <1>1 DEF Variables, Programs
      <4>2. prog[k] \in Insns
        BY <4>1
      <4>3. QED
        BY <4>2 DEF Insns
    <3>3. pc - 1 = prog[k].at /\ bytes[pc] = WIDE
      BY <3>1, <3>2 DEF Prefixed
    <3>4. QED
      BY <2>2, <3>3 DEF Boundaries
  <2>3. CASE ~ wide
    BY <2>1, <2>3
  <2>4. QED
    BY <2>2, <2>3
<1>7. QED
  BY <1>5, <1>6 DEF ExecutionSound

(* However the list grew and wherever labels were added, the executor finds    *)
(* each instruction that can be represented where the builder put it, with the *)
(* operands it was given and the next instruction right behind it, as long as  *)
(* no allocation failed.                                                       *)
THEOREM DecodesAsEmittedCorrect == CodeSpec => []DecodesAsEmitted
<1>1. CodeInv /\ [CodeNext]_codeVars => CodeInv'
  BY CodeStep
<1>2. CodeInv => DecodesAsEmitted
  BY Decoded
<1>3. QED
  BY CodeStarts, <1>1, <1>2, PTL DEF CodeSpec

(* No byte is written behind the buffer, and whatever jumps are taken, the     *)
(* executor is at the beginning of an instruction that was emitted or behind   *)
(* its prefix.                                                                 *)
THEOREM ExecutionSoundCorrect == CodeSpec => []ExecutionSound
<1>1. CodeInv /\ [CodeNext]_codeVars => CodeInv'
  BY CodeStep
<1>2. CodeInv => ExecutionSound
  BY Sound
<1>3. QED
  BY CodeStarts, <1>1, <1>2, PTL DEF CodeSpec

================================================================================
