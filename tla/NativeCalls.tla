------------------------------ MODULE NativeCalls ------------------------------
(***************************************************************************)
(* Calls between bytecode and native code in one thread: the executor's    *)
(* frames and its run() (framework/src/bytecode/Executor.cpp), a call of a *)
(* native function (framework/src/Function.cpp), the calls that native     *)
(* code makes (framework/src/native_interface/ProvidedFunctions.cpp), and  *)
(* the references it holds meanwhile.                                      *)
(*                                                                         *)
(* A bytecode function that is called from bytecode has only a frame.  A   *)
(* native function is also an activation of C++ code, and so is a run()    *)
(* that it starts: the two stacks, frames and natives, have to agree.  Of  *)
(* a frame's operands only the number is kept: OperandFrame has the rest.  *)
(* Native code is assumed to pop the local frames it pushed, and no more,  *)
(* and bytecode to return what its function's type says.                   *)
(***************************************************************************)
EXTENDS ReferenceFrames

CONSTANTS
  StackSize,   \* of every function
  MaxFrames,   \* bound on the frames
  MaxNatives,  \* bound on the native functions in progress
  MaxSlots,    \* bound on the slots of all frames of references
  MaxPushed,   \* bound on the local frames a native function pushes
  MaxLost      \* bound on the references of an object that growth drops

ASSUME CallsAssumption ==
  {StackSize, MaxFrames, MaxNatives, MaxSlots, MaxPushed, MaxLost} \subseteq Nat

VARIABLES
  frames,               \* Stack: of each frame the number of its operands
  mReturnDepth,
  natives,              \* the native functions in progress, innermost last
  localReferenceStack,
  stackCapacity,        \* of the vector localReferenceStack
  globalReferences,
  counted,              \* of each object, the increments less the decrements logged
  lost,                 \* history: the decrements logged because a vector grew
  modules,              \* of each module: "none", "linking", "made", "deleted"
  state                 \* "run", "exited", "faulted"

control == <<frames, mReturnDepth, natives>>
references == <<localReferenceStack, stackCapacity, globalReferences, counted, lost, modules>>
vars == <<control, references, state>>

Results == {"void", "value", "object"}

\* The call that a native function is making and what it will do then: keep an
\* object, or the module whose #LinkInit this is.
Call(result) == [result |-> result, module |-> Null, mode |-> "none"]
LinkInit(m, mode) == [result |-> "void", module |-> m, mode |-> mode]
NoCall == Call("none")

Current == natives[Len(natives)]

\* savedDepth of the innermost run(): the thread's own, or the native function's.
SavedDepth == IF natives = <<>> THEN 0 ELSE Current.savedDepth

InRun == natives # <<>> => Current.call # NoCall

\* The loop of run() goes on.
InBytecode == state = "run" /\ InRun /\ SavedDepth < mReturnDepth

InNative == state = "run" /\ ~InRun

\* The thread has entered its function.
Init ==
  /\ frames = <<0>>
  /\ mReturnDepth = 1
  /\ natives = <<>>
  /\ localReferenceStack = <<>>
  /\ stackCapacity = 0
  /\ globalReferences = EmptyFrame
  /\ counted = [o \in Objects |-> 0]
  /\ lost = [o \in Objects |-> 0]
  /\ modules = [m \in Modules |-> "none"]
  /\ state = "run"

-------------------------------------------------------------------------------

End(how) ==
  /\ state' = how
  /\ UNCHANGED <<control, references>>

\* enterFunction.
EnterFunction(operands) ==
  /\ Len(frames) < MaxFrames
  /\ frames' = Append(operands, 0)
  /\ mReturnDepth' = mReturnDepth + 1

\* Modules are deleted by the destructors of specials; twice is a fault.
Delete(gone, others) ==
  /\ modules' = [m \in Modules |-> IF m \in gone THEN "deleted" ELSE others[m]]
  /\ state' = IF \E m \in gone : modules[m] = "deleted" THEN "faulted" ELSE "run"

\* PushLocalFrame: emplace_back, and a growing stack destroys the frames it had.
PushFrame(f) ==
  LET grows == Len(localReferenceStack) = stackCapacity
      old == IF grows THEN localReferenceStack ELSE <<>>
      kept == IF grows THEN [i \in DOMAIN old |-> CopyOf(old[i])] ELSE localReferenceStack
  IN  /\ \A o \in Objects : lost[o] + Held(old, o) <= MaxLost
      /\ localReferenceStack' = Append(kept, f)
      /\ stackCapacity' = IF grows THEN Grown(stackCapacity) ELSE stackCapacity
      /\ counted' = [o \in Objects |-> counted[o] - Held(old, o) + Held(<<f>>, o)]
      /\ lost' = [o \in Objects |-> lost[o] + Held(old, o)]
      /\ Delete(Specials(old), modules)
      /\ UNCHANGED globalReferences

\* PopLocalFrame: the frame is destroyed with what it holds.
PopFrame ==
  LET f == Last(localReferenceStack)
  IN  /\ localReferenceStack' = Front(localReferenceStack)
      /\ counted' = [o \in Objects |-> counted[o] - Held(<<f>>, o)]
      /\ Delete(Specials(<<f>>), modules)
      /\ UNCHANGED <<stackCapacity, globalReferences, lost>>

ChangeLocal(f) ==
  localReferenceStack' = [localReferenceStack EXCEPT ![Len(localReferenceStack)] = f]

Slots ==
  Cardinality(UNION { {i} \X DOMAIN localReferenceStack[i].objects : i \in DOMAIN localReferenceStack })
    + Len(globalReferences.objects)

\* The bound on slots leaves room for one more reference in f.
Room(f) == f.freeList # <<>> \/ Slots < MaxSlots

\* CreateLocalReference.  A reference to null logs a mutation of the null object, whose
\* application will fault: the model ends there.
CreateLocal(o) ==
  IF o = Null THEN state' = "faulted" /\ UNCHANGED references
  ELSE /\ Room(Last(localReferenceStack))
       /\ ChangeLocal(CreateReference(Last(localReferenceStack), o))
       /\ counted' = [counted EXCEPT ![o] = @ + 1]
       /\ UNCHANGED <<stackCapacity, globalReferences, lost, modules, state>>

\* CreateModuleFromStream, after LinkModule: the module is kept as mode says.
KeepModule(m, mode) ==
  LET f == IF mode = "local" THEN Last(localReferenceStack) ELSE globalReferences
  IN  /\ Delete(LostToGrowth(f), [modules EXCEPT ![m] = "made"])
      /\ IF mode = "local"
         THEN ChangeLocal(CreateSpecial(f, m)) /\ UNCHANGED globalReferences
         ELSE globalReferences' = CreateSpecial(f, m) /\ UNCHANGED localReferenceStack
      /\ UNCHANGED <<stackCapacity, counted, lost>>

-------------------------------------------------------------------------------
(* Bytecode.                                                               *)

TopOperands == Last(frames)

\* An instruction that pushes or pops one operand.
Operate(change) ==
  /\ InBytecode
  /\ IF TopOperands + change \in 0..StackSize
     THEN /\ frames' = [frames EXCEPT ![Len(frames)] = @ + change]
          /\ UNCHANGED <<mReturnDepth, natives, references, state>>
     ELSE End("exited")

Popped(arguments) == [frames EXCEPT ![Len(frames)] = @ - arguments]

\* Call and CallVirtual of a bytecode function.
CallBytecode(arguments) ==
  /\ InBytecode
  /\ IF arguments > TopOperands THEN End("exited")
     ELSE EnterFunction(Popped(arguments)) /\ UNCHANGED <<natives, references, state>>

\* Call and CallVirtual of a native function with the objects among its arguments:
\* they become local references; a null one is as in CreateLocal.
CallNative(arguments, objects) ==
  /\ InBytecode
  /\ Len(natives) < MaxNatives
  /\ Slots + Len(objects) <= MaxSlots
  /\ IF arguments > TopOperands THEN End("exited")
     ELSE IF \E i \in DOMAIN objects : objects[i] = Null THEN End("faulted")
     ELSE /\ frames' = Popped(arguments)
          /\ natives' = Append(natives,
               [frame |-> Len(frames), pushed |-> 0, savedDepth |-> 0, call |-> NoCall])
          /\ PushFrame(FrameOf(objects))
          /\ UNCHANGED mReturnDepth

\* A result is pushed to the frame on top, if there is one.
PushedTo(operands, i, result) ==
  IF result # "void" /\ i > 0 THEN [operands EXCEPT ![i] = @ + 1] ELSE operands

Overflows(i, result) == result # "void" /\ i > 0 /\ frames[i] = StackSize

\* Return, LReturn, HReturn, RReturn.  The result is pushed to the frame below even
\* if the function was called by native code, which takes mReturnValue.
Return(result) ==
  LET below == Len(frames) - 1
  IN  /\ InBytecode
      /\ (natives # <<>> /\ SavedDepth = mReturnDepth - 1) => result = Current.call.result
      /\ IF (result # "void" /\ TopOperands = 0) \/ Overflows(below, result)
         THEN End("exited")
         ELSE /\ frames' = PushedTo(Front(frames), below, result)
              /\ mReturnDepth' = mReturnDepth - 1
              /\ UNCHANGED <<natives, references, state>>

-------------------------------------------------------------------------------
(* Native code.                                                            *)

ChangeCurrent(activation) == natives' = [natives EXCEPT ![Len(natives)] = activation]

\* Mutant of Run: the depth is taken as it is after enterFunction.
RunToDepth(call) ==
  ChangeCurrent([Current EXCEPT !.call = call, !.savedDepth = mReturnDepth'])

\* run(): it will go on until the depth is what it was before enterFunction.
Run(call) ==
  ChangeCurrent([Current EXCEPT !.call = call, !.savedDepth = mReturnDepth' - 1])

\* CallTFunctionA and CallTFunctionV, for Call<T>Function.
CallFunction(result) ==
  /\ InNative
  /\ EnterFunction(frames)
  /\ Run(Call(result))
  /\ UNCHANGED <<references, state>>

\* Call<T>Method: the class of the object is read, to dispatch on.
CallMethod(o, result) ==
  IF o = Null THEN InNative /\ End("faulted") ELSE CallFunction(result)

\* NewObject, A and V: a local reference to the object, which the constructor may lose.
NewObject(o) ==
  /\ InNative
  /\ CreateLocal(o)
  /\ EnterFunction(frames)
  /\ Run(Call("void"))

\* CallTFunctionA and CallTFunctionV with a native function: there is no code to fetch.
CallFunctionNatively ==
  /\ InNative
  /\ End("exited")

\* Back in native code when run() returns.
RunEnds ==
  LET call == Current.call
  IN  /\ state = "run" /\ natives # <<>> /\ InRun
      /\ SavedDepth >= mReturnDepth
      /\ ChangeCurrent([Current EXCEPT !.call = NoCall, !.savedDepth = 0])
      /\ UNCHANGED <<frames, mReturnDepth>>
      /\ IF call.result = "object" THEN \E o \in Objects \cup {Null} : CreateLocal(o)
         ELSE IF call.module # Null THEN KeepModule(call.module, call.mode)
         ELSE UNCHANGED <<references, state>>

\* CreateLocalRef, and AllocObject alone, GetObjectField, SetObjectField, NewString, the
\* arrays: each gets an object and makes a local reference to it.
CreateLocalRef(o) ==
  /\ InNative
  /\ CreateLocal(o)
  /\ UNCHANGED control

\* Mutant of DeleteLocalRef: the count is changed before the catcher.
DeleteLocalRefUncaught(h) ==
  LET f == Last(localReferenceStack)
  IN  /\ InNative
      /\ ChangeLocal(RemoveReference(f, h))
      /\ counted' = [o \in Objects |-> IF h \in DOMAIN f.objects THEN counted[o] - 1 ELSE counted[o]]
      /\ UNCHANGED <<control, stackCapacity, globalReferences, lost, modules, state>>

\* counted without what the handle h of f refers to.
CountedWithout(f, h) ==
  IF Refers(f, h) THEN [counted EXCEPT ![f.objects[h]] = @ - 1] ELSE counted

\* DeleteLocalRef of any handle, an old one too.
DeleteLocalRef(h) ==
  LET f == Last(localReferenceStack)
  IN  /\ InNative
      /\ ChangeLocal(RemoveReference(f, h))
      /\ counted' = CountedWithout(f, h)
      /\ UNCHANGED <<control, stackCapacity, globalReferences, lost, modules, state>>

CreateGlobalRef(o) ==
  /\ InNative
  /\ Room(globalReferences)
  /\ globalReferences' = CreateReference(globalReferences, o)
  /\ counted' = [counted EXCEPT ![o] = @ + 1]
  /\ UNCHANGED <<control, localReferenceStack, stackCapacity, lost, modules, state>>

DeleteGlobalRef(h) ==
  /\ InNative
  /\ globalReferences' = RemoveReference(globalReferences, h)
  /\ counted' = CountedWithout(globalReferences, h)
  /\ UNCHANGED <<control, localReferenceStack, stackCapacity, lost, modules, state>>

ChangePushed(n) == ChangeCurrent([Current EXCEPT !.pushed = @ + n])

PushLocalFrame ==
  /\ InNative
  /\ Current.pushed < MaxPushed
  /\ ChangePushed(1)
  /\ PushFrame(EmptyFrame)
  /\ UNCHANGED <<frames, mReturnDepth>>

PopLocalFrame ==
  /\ InNative
  /\ Current.pushed > 0
  /\ ChangePushed(-1)
  /\ PopFrame
  /\ UNCHANGED <<frames, mReturnDepth>>

\* CreateModuleA, U and Mem: a module without #LinkInit is kept at once, the other
\* when that has returned.  Mode VM_LINK_GLOBAL is ModuleLoader's.
CreateModule(m, mode) ==
  /\ InNative
  /\ modules[m] = "none"
  /\ \/ KeepModule(m, mode) /\ UNCHANGED control
     \/ /\ EnterFunction(frames)
        /\ Run(LinkInit(m, mode))
        /\ modules' = [modules EXCEPT ![m] = "linking"]
        /\ UNCHANGED <<localReferenceStack, stackCapacity, globalReferences, counted, lost, state>>

\* The native function returns to Function::call, which pushes the result to the
\* frame it was called from and pops the local frame.
NativeReturn(result) ==
  /\ InNative
  /\ Current.pushed = 0
  /\ IF Overflows(Current.frame, result) THEN End("exited")
     ELSE /\ frames' = PushedTo(frames, Current.frame, result)
          /\ natives' = Front(natives)
          /\ PopFrame
          /\ UNCHANGED mReturnDepth

-------------------------------------------------------------------------------

\* One argument at most: a long, or an object.
Bytecode ==
  \/ \E change \in {-1, 1} : Operate(change)
  \/ \E arguments \in 0..1 : CallBytecode(arguments)
  \/ \E arguments \in 0..1 : CallNative(arguments, <<>>)
  \/ \E o \in Objects \cup {Null} : CallNative(1, <<o>>)
  \/ \E result \in Results : Return(result)

Native ==
  \/ \E result \in Results : CallFunction(result)
  \/ \E o \in Objects \cup {Null}, result \in Results : CallMethod(o, result)
  \/ \E o \in Objects : NewObject(o)
  \/ CallFunctionNatively
  \/ RunEnds
  \/ \E o \in Objects \cup {Null} : CreateLocalRef(o)
  \/ \E o \in Objects : CreateGlobalRef(o)
  \/ \E h \in 1..MaxSlots : DeleteLocalRef(h) \/ DeleteGlobalRef(h)
  \/ PushLocalFrame
  \/ PopLocalFrame
  \/ \E m \in Modules, mode \in {"local", "global"} : CreateModule(m, mode)
  \/ \E result \in Results : NativeReturn(result)

Next == Bytecode \/ Native

Spec == Init /\ [][Next]_vars

-------------------------------------------------------------------------------

ReferenceFrame ==
  [objects : Seq(Objects \cup {Null}), freeList : Seq(Nat), specials : Seq(Modules),
   capacity : Nat]

Calls ==
  [result : Results \cup {"none"}, module : Modules \cup {Null},
   mode : {"none", "local", "global"}]

Activations == [frame : Nat, pushed : Nat, savedDepth : Nat, call : Calls]

\* The type invariant.
TypeOK ==
  /\ frames \in Seq(0..StackSize)
  /\ mReturnDepth \in Nat
  /\ natives \in Seq(Activations)
  /\ localReferenceStack \in Seq(ReferenceFrame)
  /\ stackCapacity \in Nat
  /\ globalReferences \in ReferenceFrame
  /\ counted \in [Objects -> Int]
  /\ lost \in [Objects -> Nat]
  /\ modules \in [Modules -> {"none", "linking", "made", "deleted"}]
  /\ state \in {"run", "exited", "faulted"}

\* However bytecode and native code call one another, a run() returns when the
\* function that its native function called has returned, no sooner and no later:
\* whenever native code is at work, the frame on top is the one it was called from,
\* and while it waits that frame is still there.
NativeOnTop ==
  /\ \A k \in DOMAIN natives : natives[k].frame \in DOMAIN frames
  /\ InNative => Current.frame = Len(frames)

\* The free list of f names each empty slot of f once and no other.
FreeListSound(f) ==
  /\ \A h \in DOMAIN f.objects :
       f.objects[h] = Null <=> \E i \in DOMAIN f.freeList : f.freeList[i] = h
  /\ \A i \in DOMAIN f.freeList : f.freeList[i] \in DOMAIN f.objects
  /\ \A i, j \in DOMAIN f.freeList : f.freeList[i] = f.freeList[j] => i = j

\* No handle is given out twice: the free list of a frame names each empty slot once
\* and no other, whatever old handles native code deletes.
FreeSlotsEmpty ==
  /\ FreeListSound(globalReferences)
  /\ \A i \in DOMAIN localReferenceStack : FreeListSound(localReferenceStack[i])

\* Every reference that native code holds, and no other, is counted, through nested
\* calls, frames and deletions, but for those that were lost as the stack grew.
RefsCounted ==
  \A o \in Objects :
    counted[o] + lost[o] = Held(Append(localReferenceStack, globalReferences), o)

\* A module that native code made is in the specials of one frame, which will
\* delete it, until it is deleted.
ModulesOwned ==
  LET all == Append(localReferenceStack, globalReferences)
  IN  \A m \in Modules :
        modules[m] = "made" =>
          Cardinality({ i \in DOMAIN all : m \in Specials(<<all[i]>>) }) = 1

\* What native code holds stays sound through nested calls and frames, and handles
\* that are deleted in any order: each handle is given out once, each reference counted
\* once, each module owned by one frame.
HandlesSound == TypeOK /\ FreeSlotsEmpty /\ RefsCounted /\ ModulesOwned

===============================================================================
