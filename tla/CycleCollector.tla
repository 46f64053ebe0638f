---------------------------- MODULE CycleCollector ----------------------------
(***************************************************************************)
(* The cycle collector (framework/src/heap/gc/CycleCollector.cpp) of a     *)
(* program with one mutator.  The mutator logs its reference changes       *)
(* (MutationBuffer, framework/src/executors/Threading.cpp); when a         *)
(* function returns, Stack::leaveFrame advances its epoch, and because no  *)
(* other mutator is there the global epoch follows: the log is applied,    *)
(* increments before decrements, and ProcessCycles runs.                   *)
(*                                                                         *)
(* The mutator holds its references in ObjectRefs and changes fields with  *)
(* Object::setObject.                                                      *)
(***************************************************************************)
EXTENDS ObjectCounts

CONSTANTS
  MaxRefs,     \* bound on the ObjectRefs to one object
  MaxLog,      \* bound on the mutations of one epoch
  MaxLeaves    \* bound on the mutator's epochs (the code's are u64)

ASSUME BoundsAssumption ==
  /\ MaxRefs \in Nat \ {0}
  /\ MaxLog \in Nat
  /\ MaxLeaves \in Nat

VARIABLES
  refs,        \* how many ObjectRefs the mutator holds to each object
  fresh,       \* objects not allocated yet
  epoch,       \* the mutator's epoch; globalEpoch follows it at every boundary
  increments,  \* incrementMutations
  decrements,  \* decrementMutations
  phase,       \* "run", or the phase the epoch boundary is in
  index,       \* the loop over cycleBuffer or cycleRoots
  member,      \* the loop over a cycle
  misused      \* the VM has gone to memory that was given back

mutator == <<refs, fresh, epoch, increments, decrements>>
loops == <<phase, index, member>>
collectorVars == <<objects, work, mutator, loops, misused>>

Phases == {"run", "flush", "judge", "unlink", "refurbish", "mark", "scan", "collect", "prepare"}

CollectorInit ==
  /\ field = [o \in Objects |-> [i \in Fields |-> Null]]
  /\ rc = [o \in Objects |-> 0]
  /\ crc = [o \in Objects |-> 0]
  /\ color = [o \in Objects |-> "BLACK"]
  /\ buffered = [o \in Objects |-> FALSE]
  /\ roots = <<>>
  /\ cycles = <<>>
  /\ freed = {}
  /\ discounted = {}
  /\ work = <<>>
  /\ refs = [o \in Objects |-> 0]
  /\ fresh = Objects
  /\ epoch = 0
  /\ increments = <<>>
  /\ decrements = <<>>
  /\ phase = "run"
  /\ index = 0
  /\ member = 0
  /\ misused = FALSE

-------------------------------------------------------------------------------
(* The mutator.                                                            *)

LogFits == Len(increments') + Len(decrements') <= MaxLog

\* AllocObject: the count starts at one and the reference is handed over.
AllocObject(o) ==
  /\ phase = "run"
  /\ o \in fresh
  /\ fresh' = fresh \ {o}
  /\ rc' = [rc EXCEPT ![o] = 1]
  /\ refs' = [refs EXCEPT ![o] = 1]
  /\ UNCHANGED <<field, crc, color, buffered, roots, cycles, freed, discounted, work,
                 epoch, increments, decrements, loops, misused>>

\* An ObjectRef is made from a pointer the mutator can read: another ObjectRef
\* or a field of an object it holds.
Readable(o) ==
  \/ refs[o] > 0
  \/ \E p \in Objects, i \in Fields : refs[p] > 0 /\ field[p][i] = o

CopyRef(o) ==
  /\ phase = "run"
  /\ Readable(o)
  /\ refs[o] < MaxRefs
  /\ refs' = [refs EXCEPT ![o] = @ + 1]
  /\ increments' = Append(increments, o)
  /\ UNCHANGED <<objects, work, fresh, epoch, decrements, loops, misused>>
  /\ LogFits

\* ~ObjectRef.
DropRef(o) ==
  /\ phase = "run"
  /\ refs[o] > 0
  /\ refs' = [refs EXCEPT ![o] = @ - 1]
  /\ decrements' = Append(decrements, o)
  /\ UNCHANGED <<objects, work, fresh, epoch, increments, loops, misused>>
  /\ LogFits

\* Object::setObject.
SetObject(o, i, value) ==
  LET old == field[o][i]
  IN  /\ phase = "run"
      /\ refs[o] > 0
      /\ value # Null => refs[value] > 0
      /\ decrements' = IF old = Null THEN decrements ELSE Append(decrements, old)
      /\ increments' = IF value = Null THEN increments ELSE Append(increments, value)
      /\ field' = [field EXCEPT ![o][i] = value]
      /\ UNCHANGED <<rc, crc, color, buffered, roots, cycles, freed, discounted, work,
                     refs, fresh, epoch, loops, misused>>
      /\ LogFits

\* Stack::leaveFrame, advanceEpoch and the compare-and-swap of TryAdvanceGlobal.
LeaveFrame ==
  /\ phase = "run"
  /\ epoch < MaxLeaves
  /\ epoch' = epoch + 1
  /\ phase' = "flush"
  /\ UNCHANGED <<objects, work, refs, fresh, increments, decrements, index, member, misused>>

-------------------------------------------------------------------------------
(* The epoch boundary.                                                     *)

\* A step that goes to the objects S.  After one that has gone to freed memory
\* nothing means anything.
Touching(S, Step) ==
  IF S \cap freed = {}
  THEN Step /\ UNCHANGED misused
  ELSE misused' = TRUE /\ UNCHANGED <<objects, work, mutator, loops>>

\* A loop goes on in `p` when no call is left to be made.
In(p) == phase = p /\ work = <<>>

Loop(p, i, m) == phase' = p /\ index' = i /\ member' = m

\* MutationBuffer::flush: every mutation belongs to the epoch just closed.
ApplyIncrement ==
  /\ In("flush")
  /\ increments # <<>>
  /\ increments' = Tail(increments)
  /\ AddReferenceReal(Head(increments))
  /\ UNCHANGED <<refs, fresh, epoch, decrements, loops>>

\* Mutant of ApplyDecrement: decrements do not wait for the increments.
ApplyDecrementAtOnce ==
  /\ In("flush")
  /\ decrements # <<>>
  /\ decrements' = Tail(decrements)
  /\ work' = <<<<"removeReferenceReal", Head(decrements)>>>>
  /\ UNCHANGED <<objects, refs, fresh, epoch, increments, loops>>

ApplyDecrement ==
  /\ In("flush")
  /\ increments = <<>>
  /\ decrements # <<>>
  /\ decrements' = Tail(decrements)
  /\ work' = <<<<"removeReferenceReal", Head(decrements)>>>>
  /\ UNCHANGED <<objects, refs, fresh, epoch, increments, loops>>

Flushed ==
  /\ In("flush")
  /\ increments = <<>>
  /\ decrements = <<>>
  /\ Loop("judge", Len(cycles), 0)
  /\ UNCHANGED <<objects, work, mutator>>

\* The tests that a candidate must pass: nothing was changed in it since, and
\* nothing outside refers to it.
DeltaTest(cycle) == \A i \in DOMAIN cycle : color[cycle[i]] = "ORANGE"

ExternRefCount(cycle) ==
  LET sum[n \in 0..Len(cycle)] == IF n = 0 THEN 0 ELSE sum[n - 1] + crc[cycle[n]]
  IN  sum[Len(cycle)]

SigmaTest(cycle) == ExternRefCount(cycle) = 0

\* FreeCycles: the candidates are judged from the last to the first; freeCycle
\* begins with painting its objects.
Judge ==
  /\ In("judge")
  /\ index > 0
  /\ LET cycle == cycles[index]
     IN  IF DeltaTest(cycle) /\ SigmaTest(cycle)
         THEN /\ color' = [o \in Objects |-> IF o \in Range(cycle) THEN "RED" ELSE color[o]]
              /\ Loop("unlink", index, 1)
         ELSE /\ Loop("refurbish", index, 1)
              /\ UNCHANGED color
  /\ UNCHANGED <<field, rc, crc, buffered, roots, cycles, freed, discounted, work, mutator>>

\* Mutant of UnlinkMember: what the cycle refers to is not discounted.
UnlinkMemberOnly ==
  LET o == cycles[index][member]
  IN  /\ In("unlink")
      /\ member <= Len(cycles[index])
      /\ discounted' = discounted \cup {o}
      /\ Loop("unlink", index, member + 1)
      /\ UNCHANGED <<field, rc, crc, color, buffered, roots, cycles, freed, work, mutator>>

\* Cycle::freeCycle: what the cycle refers to is discounted.
UnlinkMember ==
  LET o == cycles[index][member]
  IN  /\ In("unlink")
      /\ member <= Len(cycles[index])
      /\ discounted' = discounted \cup {o}
      /\ work' = ForEachChild("cyclicDecrement", o)
      /\ Loop("unlink", index, member + 1)
      /\ UNCHANGED <<field, rc, crc, color, buffered, roots, cycles, freed, mutator>>

FreeMembers ==
  /\ In("unlink")
  /\ member > Len(cycles[index])
  /\ freed' = freed \cup Range(cycles[index])
  /\ Loop("judge", index - 1, 0)
  /\ UNCHANGED <<field, rc, crc, color, buffered, roots, cycles, discounted, work, mutator>>

\* Cycle::refurbish, of a candidate that failed: its first object, and those that
\* were decremented since, are roots again.
RefurbishMember ==
  LET o == cycles[index][member]
  IN  /\ In("refurbish")
      /\ member <= Len(cycles[index])
      /\ IF color[o] = "PURPLE" \/ (member = 1 /\ color[o] = "ORANGE")
         THEN /\ color' = [color EXCEPT ![o] = "PURPLE"]
              /\ roots' = Append(roots, o)
              /\ UNCHANGED buffered
         ELSE /\ color' = [color EXCEPT ![o] = "BLACK"]
              /\ buffered' = [buffered EXCEPT ![o] = FALSE]
              /\ UNCHANGED roots
      /\ Loop("refurbish", index, member + 1)
      /\ UNCHANGED <<field, rc, crc, cycles, freed, discounted, work, mutator>>

Refurbished ==
  /\ In("refurbish")
  /\ member > Len(cycles[index])
  /\ Loop("judge", index - 1, 0)
  /\ UNCHANGED <<objects, work, mutator>>

\* Mutant of ClearCycles: the cycle buffer is not cleared.
ClearCyclesNot ==
  /\ In("judge")
  /\ index = 0
  /\ Loop("mark", 1, 0)
  /\ UNCHANGED <<objects, work, mutator>>

ClearCycles ==
  /\ In("judge")
  /\ index = 0
  /\ cycles' = <<>>
  /\ Loop("mark", 1, 0)
  /\ UNCHANGED <<field, rc, crc, color, buffered, roots, freed, discounted, work, mutator>>

\* MarkRoots: a root that is no longer a candidate leaves the vector, and is
\* freed if it was released while it was buffered.
MarkRoot ==
  LET o == roots[index]
  IN  /\ In("mark")
      /\ index <= Len(roots)
      /\ IF color[o] = "GRAY" \/ (color[o] = "PURPLE" /\ rc[o] > 0)
         THEN /\ MarkGray(o, crc[o], <<>>)
              /\ Loop("mark", index + 1, 0)
              /\ UNCHANGED roots
         ELSE /\ roots' = SubSeq(roots, 1, index - 1) \o SubSeq(roots, index + 1, Len(roots))
              /\ buffered' = [buffered EXCEPT ![o] = FALSE]
              /\ freed' = IF rc[o] <= 0 THEN freed \cup {o} ELSE freed
              /\ UNCHANGED <<field, rc, crc, color, cycles, discounted, work, loops>>
      /\ UNCHANGED mutator

Marked ==
  /\ In("mark")
  /\ index > Len(roots)
  /\ Loop("scan", 1, 0)
  /\ UNCHANGED <<objects, work, mutator>>

ScanNextRoot ==
  /\ In("scan")
  /\ index <= Len(roots)
  /\ ScanRoot(roots[index], <<>>)
  /\ Loop("scan", index + 1, 0)
  /\ UNCHANGED mutator

Scanned ==
  /\ In("scan")
  /\ index > Len(roots)
  /\ Loop("collect", 0, 0)
  /\ UNCHANGED <<objects, work, mutator>>

\* CollectRoots: every WHITE root begins a candidate cycle.
CollectRoot ==
  LET o == Head(roots)
  IN  /\ In("collect")
      /\ roots # <<>>
      /\ roots' = Tail(roots)
      /\ IF color[o] = "WHITE"
         THEN Collect(o, Append(cycles, <<>>), <<>>)
         ELSE /\ buffered' = [buffered EXCEPT ![o] = FALSE]
              /\ UNCHANGED <<field, rc, crc, color, cycles, freed, discounted, work>>
      /\ UNCHANGED <<mutator, loops>>

Collected ==
  /\ In("collect")
  /\ roots = <<>>
  /\ Loop("prepare", 1, 0)
  /\ UNCHANGED <<objects, work, mutator>>

\* Fields of members of a cycle that refer to an object.
Inside(cycle, o) == PointersFrom(Range(cycle), o)

\* SigmaPreparation: in a candidate cycle, the references from outside; the
\* cyclic count is lowered for each reference from inside while it is positive.
PrepareCycle ==
  LET cycle == cycles[index]
  IN  /\ In("prepare")
      /\ index <= Len(cycles)
      /\ crc' = [ o \in Objects |->
                    IF o \notin Range(cycle) THEN crc[o]
                    ELSE IF rc[o] >= Inside(cycle, o) THEN rc[o] - Inside(cycle, o)
                    ELSE IF rc[o] > 0 THEN 0
                    ELSE rc[o] ]
      /\ color' = [o \in Objects |-> IF o \in Range(cycle) THEN "ORANGE" ELSE color[o]]
      /\ Loop("prepare", index + 1, 0)
      /\ UNCHANGED <<field, rc, buffered, roots, cycles, freed, discounted, work, mutator>>

Prepared ==
  /\ In("prepare")
  /\ index > Len(cycles)
  /\ Loop("run", 0, 0)
  /\ UNCHANGED <<objects, work, mutator>>

-------------------------------------------------------------------------------

Mutating ==
  \/ \E o \in Objects : AllocObject(o) \/ CopyRef(o) \/ DropRef(o)
  \/ \E o \in Objects, i \in Fields, v \in Objects \cup {Null} : SetObject(o, i, v)
  \/ LeaveFrame

\* The objects that the next step goes to.
NextTouched ==
  IF work # <<>> THEN {Head(work)[2]}
  ELSE CASE phase = "flush" /\ increments # <<>> -> {Head(increments)}
         [] phase \in {"judge", "unlink", "refurbish"} /\ index > 0 -> Range(cycles[index])
         [] phase \in {"mark", "scan"} /\ index <= Len(roots) -> {roots[index]}
         [] phase = "collect" /\ roots # <<>> -> {Head(roots)}
         [] phase = "prepare" /\ index <= Len(cycles) -> Range(cycles[index])
         [] OTHER -> {}

FreeCycles ==
  \/ Judge
  \/ UnlinkMember
  \/ FreeMembers
  \/ RefurbishMember
  \/ Refurbished
  \/ ClearCycles

CollectCycles ==
  \/ MarkRoot
  \/ Marked
  \/ ScanNextRoot
  \/ Scanned
  \/ CollectRoot
  \/ Collected

EpochBoundary ==
  \/ /\ work # <<>>
     /\ Call
     /\ UNCHANGED <<mutator, loops>>
  \/ ApplyIncrement
  \/ ApplyDecrement
  \/ Flushed
  \/ FreeCycles
  \/ CollectCycles
  \/ PrepareCycle
  \/ Prepared

CollectorNext ==
  /\ ~misused
  /\ \/ Mutating
     \/ phase # "run" /\ Touching(NextTouched, EpochBoundary)

CollectorSpec == CollectorInit /\ [][CollectorNext]_collectorVars

-------------------------------------------------------------------------------

Allocated == Objects \ fresh

\* The type invariant.
CollectorTypeOK ==
  /\ field \in [Objects -> [Fields -> Objects \cup {Null}]]
  /\ rc \in [Objects -> Int]
  /\ crc \in [Objects -> Int]
  /\ color \in [Objects -> Colors]
  /\ buffered \in [Objects -> BOOLEAN]
  /\ roots \in Seq(Objects)
  /\ cycles \in Seq(Seq(Objects))
  /\ freed \subseteq Allocated
  /\ discounted \subseteq Allocated
  /\ work \in Seq(Calls \X (Objects \cup {Null}))
  /\ refs \in [Objects -> 0..MaxRefs]
  /\ fresh \subseteq Objects
  /\ epoch \in 0..MaxLeaves
  /\ increments \in Seq(Objects)
  /\ decrements \in Seq(Objects)
  /\ phase \in Phases
  /\ index \in Nat
  /\ member \in Nat
  /\ misused \in BOOLEAN

Times(s, e) == Cardinality({ i \in DOMAIN s : s[i] = e })

\* Fields that refer to an object, of objects whose references have not been
\* taken back.
Pointers(o) == PointersFrom(Objects \ discounted, o)

\* Deferral loses nothing: while the mutator runs, an object's count with what
\* the log still holds is the number of ObjectRefs and fields that refer to it,
\* through releases, freed cycles and failed candidates.
CountsExact ==
  phase = "run" =>
    \A o \in Allocated \ freed :
      rc[o] + Times(increments, o) - Times(decrements, o) = refs[o] + Pointers(o)

\* What the mutator can still get at.
Live == Spread({ o \in Objects : refs[o] > 0 }, Objects)

\* No object that the mutator can reach is ever freed, neither by its count nor
\* as a member of a candidate cycle that passed both tests.
NoLiveFreed == Live \cap freed = {}

Candidates == UNION { Range(cycles[i]) : i \in DOMAIN cycles }

\* Every ORANGE object waits in exactly one candidate cycle, where the next
\* boundary frees or repaints it.
CandidatesOwned ==
  phase = "run" =>
    \A o \in Objects : color[o] = "ORANGE" =>
      Cardinality({ i \in DOMAIN cycles : o \in Range(cycles[i]) }) = 1

\* The buffered flag is never left behind: a live object that carries it, and a
\* PURPLE object, will be seen by the next boundary.  (An object with the flag
\* set and in no buffer could never be a root again.)
BufferedSeen ==
  phase = "run" =>
    \A o \in Objects \ freed :
      buffered[o] \/ color[o] = "PURPLE" => o \in Candidates \cup Range(roots)

\* The collector never loses sight of an object that may be garbage: flags, colors,
\* roots and candidate cycles agree whenever the mutator goes on, whatever the last
\* boundary did to its candidates.
CandidatesKept == CollectorTypeOK /\ CandidatesOwned /\ BufferedSeen

===============================================================================
