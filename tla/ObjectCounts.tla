----------------------------- MODULE ObjectCounts -----------------------------
(***************************************************************************)
(* What the Object operations do to the heap                               *)
(* (framework/src/heap/Object.cpp): the reference count and the cyclic     *)
(* count, the color and the buffered flag, and the recursion over the      *)
(* object's children.  The recursion is a stack of the calls that are      *)
(* still to be made: a call takes itself from the top of `work` and        *)
(* leaves there the calls that it makes.                                   *)
(***************************************************************************)
EXTENDS Integers, Sequences, FiniteSets, Functions

CONSTANTS
  Objects,    \* the objects that are ever allocated
  Null,       \* a field that holds nothing
  NumFields   \* reference fields of an object

ASSUME ObjectsAssumption ==
  /\ IsFiniteSet(Objects)
  /\ Null \notin Objects
  /\ NumFields \in Nat

VARIABLES
  field,       \* the reference fields of an object, in forEachChild's order
  rc,          \* mRefCount
  crc,         \* mCyclicRefCount
  color,       \* mColor
  buffered,    \* mBuffered
  roots,       \* cycleRoots
  cycles,      \* cycleBuffer
  freed,       \* objects whose memory has been given back
  discounted,  \* objects whose references to others have been taken back
  work         \* calls <<function, object>> still to be made, the next one first

objects == <<field, rc, crc, color, buffered, roots, cycles, freed, discounted>>

Fields == 1..NumFields

Colors == {"BLACK", "GRAY", "WHITE", "PURPLE", "RED", "ORANGE"}

Calls == {"removeReferenceReal", "released", "cyclicDecrement", "markChild",
          "scanRoot", "collectWhite"}

\* Fields of the objects of S that refer to an object.
PointersFrom(S, o) == Cardinality({ at \in S \X Fields : field[at[1]][at[2]] = o })

\* forEachChild; a call on a field that holds nothing is no call.
ForEachChild(call, o) == [i \in Fields |-> <<call, field[o][i]>>]

\* The objects of T that are reached from those of S through objects of T.
Spread(S, T) ==
  { o \in Objects :
      \A U \in SUBSET Objects :
        /\ S \cap T \subseteq U
        /\ \A p \in U, i \in Fields : field[p][i] \in T => field[p][i] \in U
        => o \in U }

-------------------------------------------------------------------------------

\* Object::scanBlack, and then the object's new color.
ScanBlack(o, painted) ==
  color' = [ p \in Objects |->
               IF p = o THEN painted
               ELSE IF p \in Spread({o}, { q \in Objects : color[q] # "BLACK" })
               THEN "BLACK"
               ELSE color[p] ]

AddReferenceReal(o) ==
  /\ rc' = [rc EXCEPT ![o] = @ + 1]
  /\ ScanBlack(o, "BLACK")
  /\ UNCHANGED <<field, crc, buffered, roots, cycles, freed, discounted, work>>

\* GC::AddPossibleCycleRoot.
AddPossibleCycleRoot(o) ==
  /\ ScanBlack(o, "PURPLE")
  /\ buffered' = [buffered EXCEPT ![o] = TRUE]
  /\ roots' = IF buffered[o] THEN roots ELSE Append(roots, o)

\* Object::removeReferenceReal; release() begins with the children.
RemoveReferenceReal(o, rest) ==
  /\ rc' = [rc EXCEPT ![o] = @ - 1]
  /\ \/ /\ rc[o] - 1 <= 0
        /\ discounted' = discounted \cup {o}
        /\ work' = ForEachChild("removeReferenceReal", o) \o <<<<"released", o>>>> \o rest
        /\ UNCHANGED <<color, buffered, roots>>
     \/ /\ rc[o] - 1 > 0
        /\ AddPossibleCycleRoot(o)
        /\ work' = rest
        /\ UNCHANGED discounted
  /\ UNCHANGED <<field, crc, cycles, freed>>

\* The end of Object::release: an object that the collector has buffered is
\* left to it.
Released(o, rest) ==
  /\ color' = [color EXCEPT ![o] = "BLACK"]
  /\ freed' = IF buffered[o] THEN freed ELSE freed \cup {o}
  /\ work' = rest
  /\ UNCHANGED <<field, rc, crc, buffered, roots, cycles, discounted>>

CyclicDecrement(o, rest) ==
  \/ /\ color[o] = "RED"
     /\ work' = rest
     /\ UNCHANGED objects
  \/ /\ color[o] = "ORANGE"
     /\ rc' = [rc EXCEPT ![o] = @ - 1]
     /\ crc' = [crc EXCEPT ![o] = @ - 1]
     /\ work' = rest
     /\ UNCHANGED <<field, color, buffered, roots, cycles, freed, discounted>>
  \/ /\ color[o] \notin {"RED", "ORANGE"}
     /\ work' = <<<<"removeReferenceReal", o>>>> \o rest
     /\ UNCHANGED objects

\* Object::markGray of an object whose cyclic count is now `count`.
MarkGray(o, count, rest) ==
  /\ IF color[o] # "GRAY"
     THEN /\ color' = [color EXCEPT ![o] = "GRAY"]
          /\ crc' = [crc EXCEPT ![o] = rc[o]]
          /\ work' = ForEachChild("markChild", o) \o rest
     ELSE /\ crc' = [crc EXCEPT ![o] = IF count > 0 THEN count - 1 ELSE count]
          /\ work' = rest
          /\ UNCHANGED color
  /\ UNCHANGED <<field, rc, buffered, cycles, freed, discounted>>

\* What markGray does for a child: the count that it loses is set anew if the
\* child was not GRAY.
MarkChild(o, rest) ==
  /\ MarkGray(o, crc[o] - 1, rest)
  /\ UNCHANGED roots

ScanRoot(o, rest) ==
  /\ color' = IF color[o] # "GRAY" THEN color
              ELSE [color EXCEPT ![o] = IF crc[o] = 0 THEN "WHITE" ELSE "BLACK"]
  /\ work' = IF color[o] = "GRAY" /\ crc[o] = 0
             THEN ForEachChild("scanRoot", o) \o rest
             ELSE rest
  /\ UNCHANGED <<field, rc, crc, buffered, roots, cycles, freed, discounted>>

\* Object::collectWhite of a WHITE object; the cycle being collected is the last
\* of the buffer.
Collect(o, buffer, rest) ==
  /\ color' = [color EXCEPT ![o] = "ORANGE"]
  /\ buffered' = [buffered EXCEPT ![o] = TRUE]
  /\ cycles' = [buffer EXCEPT ![Len(buffer)] = Append(@, o)]
  /\ work' = ForEachChild("collectWhite", o) \o rest
  /\ UNCHANGED <<field, rc, crc, freed, discounted>>

CollectWhite(o, rest) ==
  \/ /\ color[o] = "WHITE"
     /\ Collect(o, cycles, rest)
     /\ UNCHANGED roots
  \/ /\ color[o] # "WHITE"
     /\ work' = rest
     /\ UNCHANGED objects

\* Makes the next call.
Call ==
  LET call == Head(work)[1]
      o == Head(work)[2]
      rest == Tail(work)
  IN  \/ /\ o = Null
         /\ work' = rest
         /\ UNCHANGED objects
      \/ /\ o # Null
         /\ \/ call = "removeReferenceReal" /\ RemoveReferenceReal(o, rest)
            \/ call = "released" /\ Released(o, rest)
            \/ call = "cyclicDecrement" /\ CyclicDecrement(o, rest)
            \/ call = "markChild" /\ MarkChild(o, rest)
            \/ call = "scanRoot" /\ ScanRoot(o, rest)
            \/ call = "collectWhite" /\ CollectWhite(o, rest)

===============================================================================
