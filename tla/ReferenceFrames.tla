---------------------------- MODULE ReferenceFrames ----------------------------
(***************************************************************************)
(* A ReferenceFrame (framework/src/heap/gc/References.cpp): the objects    *)
(* and the modules that native code holds, each behind a handle.           *)
(*                                                                         *)
(* Neither a frame nor a special object can be moved: each has a           *)
(* destructor and so no move constructor.  A std::vector that has to grow  *)
(* copies its elements and then destroys the old ones; for a frame that    *)
(* removes the references, for a special object it deletes the module.     *)
(* Only what the code uses is here: no special is ever removed by handle,  *)
(* and the weak frame has no caller.                                       *)
(***************************************************************************)
EXTENDS Integers, Sequences, FiniteSets

CONSTANTS
  Objects,
  Modules,
  Null

ASSUME FramesAssumption ==
  /\ IsFiniteSet(Objects) /\ IsFiniteSet(Modules)
  /\ Null \notin Objects \cup Modules

\* capacity is that of the vector of specials.
EmptyFrame == [objects |-> <<>>, freeList |-> <<>>, specials |-> <<>>, capacity |-> 0]

\* A frame that holds the given objects.
FrameOf(objects) == [EmptyFrame EXCEPT !.objects = objects]

\* What push_back makes of a full vector's capacity.
Grown(capacity) == IF capacity = 0 THEN 1 ELSE 2 * capacity

Last(s) == s[Len(s)]
Front(s) == SubSeq(s, 1, Len(s) - 1)

\* How often frames hold o.
Held(frames, o) ==
  Cardinality({ slot \in UNION { {i} \X DOMAIN frames[i].objects : i \in DOMAIN frames } :
                  frames[slot[1]].objects[slot[2]] = o })

\* The modules among their specials.
Specials(frames) ==
  UNION { { frames[i].specials[k] : k \in DOMAIN frames[i].specials } : i \in DOMAIN frames }

\* createReference: a freed slot before a new one.
CreateReference(f, o) ==
  IF f.freeList = <<>>
  THEN [f EXCEPT !.objects = Append(@, o)]
  ELSE [f EXCEPT !.objects[Last(f.freeList)] = o, !.freeList = Front(@)]

\* Whether the handle h refers to an object.  The catcher of removeReference.
Refers(f, h) == h \in DOMAIN f.objects /\ f.objects[h] # Null

\* removeReference.
RemoveReference(f, h) ==
  IF Refers(f, h)
  THEN [f EXCEPT !.objects[h] = Null, !.freeList = Append(@, h)]
  ELSE f

\* The modules that the vector of specials deletes as it grows for one more.
LostToGrowth(f) ==
  IF Len(f.specials) = f.capacity THEN Specials(<<f>>) ELSE {}

\* createSpecial.
CreateSpecial(f, m) ==
  [f EXCEPT !.specials = Append(@, m),
            !.capacity = IF Len(f.specials) = @ THEN Grown(@) ELSE @]

\* A copy of the frame: a vector is copied without its spare capacity.
CopyOf(f) == [f EXCEPT !.capacity = Len(f.specials)]

================================================================================
