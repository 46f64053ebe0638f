--------------------------- MODULE NativeCalls_proofs ---------------------------
(***************************************************************************)
(* TLAPS proofs about NativeCalls, for any bounds, objects and modules.    *)
(***************************************************************************)
EXTENDS NativeCalls, FunctionTheorems, FiniteSetTheorems, SequenceTheorems, TLAPS

(* What is known of a native function in progress. *)
Activation == [frame : Nat, pushed : Int, savedDepth : Nat, call : Calls]

(* The types of what the argument is about: the references have no part in it. *)
ControlOK ==
  /\ frames \in Seq(Int)
  /\ mReturnDepth \in Nat
  /\ natives \in Seq(Activation)

(* mReturnDepth counts the frames. *)
DepthIsFrames == mReturnDepth = Len(frames)

(* The native functions in progress were called from frames that are still there, *)
(* each from a higher one than the one before, and all but the innermost are in   *)
(* a run() that ends when the frame it was called from is on top.                 *)
Nested ==
  /\ \A k \in 1..Len(natives) :
       /\ natives[k].frame \in 1..Len(frames)
       /\ natives[k].call # NoCall => natives[k].savedDepth = natives[k].frame
       /\ k < Len(natives) => natives[k].call # NoCall
  /\ \A j, k \in 1..Len(natives) : j < k => natives[j].frame < natives[k].frame

(* Native code at work has its frame on top. *)
OnTop ==
  (natives # <<>> /\ Current.call = NoCall) => Current.frame = Len(frames)

IInv == ControlOK /\ DepthIsFrames /\ Nested /\ OnTop

-------------------------------------------------------------------------------

(* The innermost native function is the last of a sequence that is not empty. *)
LEMMA Innermost ==
  ASSUME ControlOK, natives # <<>>
  PROVE  /\ Len(natives) \in Nat \ {0}
         /\ Len(natives) \in 1..Len(natives)
         /\ Current = natives[Len(natives)]
         /\ Current \in Activation
         /\ Current.frame \in Nat /\ Current.savedDepth \in Nat
<1>1. /\ Len(natives) \in Nat \ {0} /\ Len(natives) \in 1..Len(natives)
      /\ Current = natives[Len(natives)] /\ Current \in Activation
  BY DEF ControlOK, Current
<1>2. Current.frame \in Nat /\ Current.savedDepth \in Nat
  BY <1>1 DEF Activation
<1>3. QED
  BY <1>1, <1>2

(* A change of the innermost native function leaves the others as they are. *)
LEMMA CurrentChanged ==
  ASSUME ControlOK, natives # <<>>, NEW a \in Activation, ChangeCurrent(a)
  PROVE  /\ natives' \in Seq(Activation)
         /\ Len(natives') = Len(natives)
         /\ natives'[Len(natives)] = a
         /\ \A k \in 1..Len(natives) : k # Len(natives) => natives'[k] = natives[k]
BY DEF ControlOK, ChangeCurrent

(* The call that a native function makes is never taken for none. *)
LEMMA CallMade ==
  /\ \A result \in Results : Call(result) \in Calls /\ Call(result) # NoCall
  /\ \A m \in Modules, mode \in {"local", "global"} :
       LinkInit(m, mode) \in Calls /\ LinkInit(m, mode) # NoCall
  /\ NoCall \in Calls
<1>1. \A result \in Results : Call(result).result # NoCall.result
  BY DEF Call, NoCall, Results
<1>2. \A m \in Modules, mode \in {"local", "global"} : LinkInit(m, mode).result # NoCall.result
  BY DEF Call, LinkInit, NoCall
<1>3. QED
  BY <1>1, <1>2 DEF Call, LinkInit, NoCall, Calls, Results

(* An instruction changes the number of operands of the frame on top. *)
LEMMA SameFrames ==
  ASSUME IInv, Len(frames') = Len(frames), frames' \in Seq(Int),
         UNCHANGED <<mReturnDepth, natives>>
  PROVE  IInv'
BY DEF IInv, ControlOK, DepthIsFrames, Nested, OnTop, Current

(* Bytecode runs above the frame of the innermost native function. *)
LEMMA RunsAbove ==
  ASSUME IInv, InBytecode
  PROVE  /\ frames # <<>>
         /\ natives # <<>> => Current.call # NoCall /\ Current.frame < Len(frames)
BY DEF IInv, ControlOK, DepthIsFrames, Nested, InBytecode, InRun, SavedDepth, Current

(* enterFunction from bytecode. *)
LEMMA EnterStep ==
  ASSUME IInv, InBytecode, NEW operands \in Seq(Int), Len(operands) = Len(frames),
         EnterFunction(operands), UNCHANGED natives
  PROVE  IInv'
<1> USE DEF IInv
<1>1. Len(frames') = Len(frames) + 1 /\ frames' \in Seq(Int)
  BY DEF EnterFunction, ControlOK
<1>2. natives # <<>> => Current.call # NoCall
  BY RunsAbove
<1>3. QED
  BY <1>1, <1>2 DEF EnterFunction, ControlOK, DepthIsFrames, Nested, OnTop, Current

(* A native function starts a run() for the function that it calls. *)
LEMMA RunStep ==
  ASSUME IInv, InNative, NEW c \in Calls, c # NoCall, EnterFunction(frames), Run(c)
  PROVE  IInv'
<1> USE DEF IInv
<1>1. natives # <<>> /\ Current.call = NoCall /\ Current.frame = Len(frames)
  BY DEF InNative, InRun, OnTop
<1>2. Len(frames') = Len(frames) + 1 /\ frames' \in Seq(Int) /\ mReturnDepth' = Len(frames')
  BY DEF EnterFunction, ControlOK, DepthIsFrames
<1> DEFINE n == Len(natives)
<1>3. /\ natives' \in Seq(Activation)
      /\ Len(natives') = n /\ n \in 1..Len(natives)
      /\ \A k \in 1..n : natives'[k].frame = natives[k].frame
      /\ \A k \in 1..n : k # n => natives'[k] = natives[k]
      /\ natives'[n].call = c /\ natives'[n].savedDepth = Len(frames)
  <2> DEFINE d == mReturnDepth' - 1
  <2> DEFINE a == [Current EXCEPT !.call = c, !.savedDepth = d]
  <2>0. d \in Nat /\ d = Len(frames)
    BY <1>2 DEF ControlOK
  <2> HIDE DEF d
  <2>1. /\ a \in Activation /\ a.frame = Current.frame
        /\ a.call = c /\ a.savedDepth = Len(frames)
    BY <1>1, <2>0, Innermost DEF Activation
  <2>2. ChangeCurrent(a)
    BY DEF Run, d
  <2> HIDE DEF a
  <2>3. QED
    BY <1>1, <2>1, <2>2, Innermost, CurrentChanged
<1>4. ControlOK' /\ DepthIsFrames'
  BY <1>2, <1>3 DEF ControlOK, DepthIsFrames
<1>5. Nested'
  <2>1. natives[n].frame = Len(frames) /\ Len(frames) \in Nat
    BY <1>1 DEF Current, ControlOK
  <2>2. \A k \in 1..n : natives[k].frame \in 1..Len(frames')
    BY <1>2, <2>1 DEF Nested
  <2>3. \A k \in 1..n :
          /\ natives'[k].call # NoCall => natives'[k].savedDepth = natives'[k].frame
          /\ k < n => natives'[k].call # NoCall
    BY <1>3, <2>1 DEF Nested
  <2>4. \A j, k \in 1..n : j < k => natives'[j].frame < natives'[k].frame
    BY <1>3 DEF Nested
  <2>5. QED
    BY <1>3, <2>2, <2>3, <2>4 DEF Nested
<1>6. OnTop'
  BY <1>3 DEF OnTop, Current
<1>7. QED
  BY <1>4, <1>5, <1>6

(* A native function is called from the frame on top. *)
LEMMA CallNativeStep ==
  ASSUME IInv, InBytecode, Len(frames') = Len(frames), frames' \in Seq(Int),
         UNCHANGED mReturnDepth,
         natives' = Append(natives,
           [frame |-> Len(frames), pushed |-> 0, savedDepth |-> 0, call |-> NoCall])
  PROVE  IInv'
<1> USE DEF IInv
<1> DEFINE n == Len(natives)
<1>1. /\ natives' \in Seq(Activation)
      /\ Len(natives') = n + 1 /\ n \in Nat
      /\ \A k \in 1..n : natives'[k] = natives[k]
      /\ natives'[n + 1].frame = Len(frames) /\ natives'[n + 1].call = NoCall
  <2> DEFINE a == [frame |-> Len(frames), pushed |-> 0, savedDepth |-> 0, call |-> NoCall]
  <2>1. a \in Activation /\ a.frame = Len(frames) /\ a.call = NoCall
    BY CallMade DEF Activation, ControlOK
  <2>2. natives' = Append(natives, a)
    OBVIOUS
  <2> HIDE DEF a
  <2>3. QED
    BY <2>1, <2>2 DEF ControlOK
<1>2. \A k \in 1..n : natives[k].frame < Len(frames) /\ natives[k].call # NoCall
  <2>1. n # 0 => n \in 1..n /\ natives[n].frame < Len(frames) /\ natives[n].call # NoCall
    BY RunsAbove DEF ControlOK, Current
  <2>2. QED
    BY <2>1 DEF ControlOK, Nested
<1>3. Len(frames) \in 1..Len(frames)
  BY RunsAbove DEF ControlOK
<1>4. Nested'
  BY <1>1, <1>2, <1>3 DEF Nested, ControlOK
<1>5. QED
  BY <1>1, <1>4 DEF ControlOK, DepthIsFrames, OnTop, Current

(* The frame on top is left, which no native function was called from. *)
LEMMA ReturnStep ==
  ASSUME IInv, InBytecode, frames' \in Seq(Int), Len(frames') = Len(frames) - 1,
         mReturnDepth' = mReturnDepth - 1, UNCHANGED natives
  PROVE  IInv'
<1> USE DEF IInv
<1>1. /\ frames # <<>>
      /\ natives # <<>> => Current.call # NoCall /\ Current.frame < Len(frames)
  BY RunsAbove
<1>2. ASSUME NEW k \in 1..Len(natives)
      PROVE  natives[k].frame \in 1..Len(frames')
  <2>1. /\ Len(natives) \in 1..Len(natives)
        /\ natives[Len(natives)].frame < Len(frames) /\ Len(frames) \in Nat
    BY <1>1 DEF ControlOK, Current
  <2>2. k < Len(natives) => natives[k].frame < natives[Len(natives)].frame
    BY <2>1 DEF Nested
  <2>3. natives[k].frame \in 1..Len(frames) /\ natives[Len(natives)].frame \in 1..Len(frames)
    BY <2>1 DEF Nested
  <2>4. k = Len(natives) \/ k < Len(natives)
    BY <2>1
  <2>5. QED
    BY <2>1, <2>2, <2>3, <2>4
<1>3. ControlOK' /\ DepthIsFrames'
  BY <1>1 DEF ControlOK, DepthIsFrames
<1>4. Nested'
  BY <1>2 DEF Nested
<1>5. OnTop'
  BY <1>1 DEF OnTop, Current
<1>6. QED
  BY <1>3, <1>4, <1>5

(* run() returns just when the frame it was called from is on top. *)
LEMMA RunEndsStep ==
  ASSUME IInv, natives # <<>>, InRun, SavedDepth >= mReturnDepth,
         ChangeCurrent([Current EXCEPT !.call = NoCall, !.savedDepth = 0]),
         UNCHANGED <<frames, mReturnDepth>>
  PROVE  IInv'
<1> USE DEF IInv
<1> DEFINE n == Len(natives)
<1>1. n \in 1..Len(natives) /\ natives[n].call # NoCall /\ natives[n].savedDepth = natives[n].frame
  BY DEF InRun, Current, ControlOK, Nested
<1>2. natives[n].frame = Len(frames)
  BY <1>1 DEF SavedDepth, Current, ControlOK, DepthIsFrames, Nested
<1>3. /\ natives' \in Seq(Activation)
      /\ Len(natives') = n
      /\ \A k \in 1..n : natives'[k].frame = natives[k].frame
      /\ \A k \in 1..n : k # n => natives'[k] = natives[k]
      /\ natives'[n].call = NoCall
  <2> DEFINE a == [Current EXCEPT !.call = NoCall, !.savedDepth = 0]
  <2>1. a \in Activation /\ a.frame = Current.frame /\ a.call = NoCall
    BY CallMade, Innermost DEF Activation
  <2>2. ChangeCurrent(a)
    OBVIOUS
  <2> HIDE DEF a
  <2>3. QED
    BY <2>1, <2>2, Innermost, CurrentChanged
<1>4. ControlOK' /\ DepthIsFrames'
  BY <1>3 DEF ControlOK, DepthIsFrames
<1>5. Nested'
  BY <1>1, <1>3 DEF Nested, ControlOK
<1>6. OnTop'
  BY <1>2, <1>3 DEF OnTop, Current
<1>7. QED
  BY <1>4, <1>5, <1>6

(* Native code pushes or pops a local frame. *)
LEMMA PushedStep ==
  ASSUME IInv, InNative, NEW n \in Int, ChangePushed(n), UNCHANGED <<frames, mReturnDepth>>
  PROVE  IInv'
<1> USE DEF IInv
<1>1. natives # <<>> BY DEF InNative, InRun
<1>2. /\ natives' \in Seq(Activation)
      /\ Len(natives') = Len(natives)
      /\ \A k \in 1..Len(natives) :
           /\ natives'[k].frame = natives[k].frame
           /\ natives'[k].call = natives[k].call
           /\ natives'[k].savedDepth = natives[k].savedDepth
  <2> DEFINE a == [Current EXCEPT !.pushed = @ + n]
  <2>1. /\ a \in Activation /\ a.frame = Current.frame
        /\ a.call = Current.call /\ a.savedDepth = Current.savedDepth
    BY <1>1, Innermost DEF Activation
  <2>2. ChangeCurrent(a)
    BY DEF ChangePushed
  <2> HIDE DEF a
  <2>3. QED
    BY <1>1, <2>1, <2>2, Innermost, CurrentChanged
<1>3. Len(natives) \in 1..Len(natives)
  BY <1>1 DEF ControlOK
<1>4. QED
  BY <1>2, <1>3 DEF ControlOK, DepthIsFrames, Nested, OnTop, Current

(* Front leaves all but the last element. *)
LEMMA FrontOf ==
  ASSUME NEW S, NEW s \in Seq(S), Len(s) > 0
  PROVE  /\ Front(s) \in Seq(S)
         /\ Len(Front(s)) = Len(s) - 1
         /\ \A k \in 1..(Len(s) - 1) : Front(s)[k] = s[k]
<1>1. Len(s) \in Nat /\ \A i \in 1..(Len(s) - 1) : s[i] \in S
  OBVIOUS
<1> DEFINE n == Len(s) - 1
<1>2. n \in Nat
  BY <1>1
<1>3. \A i \in 1..n : s[i] \in S
  BY <1>1
<1> HIDE DEF n
<1>4. /\ SubSeq(s, 1, n) \in Seq(S)
      /\ Len(SubSeq(s, 1, n)) = IF 1 <= n THEN n - 1 + 1 ELSE 0
      /\ \A i \in 1..(n - 1 + 1) : SubSeq(s, 1, n)[i] = s[1 + i - 1]
  BY <1>2, <1>3, 1 \in Int, n \in Int, SubSeqProperties
<1>5. /\ SubSeq(s, 1, n) \in Seq(S)
      /\ Len(SubSeq(s, 1, n)) = n
      /\ \A i \in 1..n : SubSeq(s, 1, n)[i] = s[i]
  BY <1>2, <1>4
<1>6. QED
  BY <1>5 DEF Front, n

(* A native function returns into the run() or the thread that called it. *)
LEMMA NativeReturnStep ==
  ASSUME IInv, InNative, Len(frames') = Len(frames), frames' \in Seq(Int),
         natives' = Front(natives), UNCHANGED mReturnDepth
  PROVE  IInv'
<1> USE DEF IInv
<1> DEFINE n == Len(natives)
<1>1. n \in Nat \ {0} BY DEF InNative, InRun, ControlOK
<1>2. /\ natives' \in Seq(Activation)
      /\ Len(natives') = n - 1
      /\ \A k \in 1..(n - 1) : natives'[k] = natives[k]
  BY <1>1, FrontOf DEF ControlOK
<1>3. natives' # <<>> => n - 1 \in 1..(n - 1) /\ natives[n - 1].call # NoCall
  BY <1>1, <1>2 DEF Nested
<1>4. ControlOK' /\ DepthIsFrames'
  BY <1>2 DEF ControlOK, DepthIsFrames
<1>5. Nested'
  <2>1. \A k \in 1..(n - 1) : k \in 1..n /\ k < n
    BY <1>1
  <2>2. \A k \in 1..(n - 1) :
          /\ natives[k].frame \in 1..Len(frames)
          /\ natives[k].call # NoCall /\ natives[k].savedDepth = natives[k].frame
    BY <2>1 DEF Nested
  <2>3. \A j, k \in 1..(n - 1) : j < k => natives[j].frame < natives[k].frame
    BY <2>1 DEF Nested
  <2>4. QED
    BY <1>2, <2>2, <2>3 DEF Nested
<1>6. OnTop'
  BY <1>2, <1>3 DEF OnTop, Current
<1>7. QED
  BY <1>4, <1>5, <1>6

-------------------------------------------------------------------------------

(* One frame's operands change: the frames stay. *)
LEMMA OperandsChanged ==
  ASSUME NEW s \in Seq(Int), NEW i \in 1..Len(s), NEW d \in Int
  PROVE  /\ [s EXCEPT ![i] = @ + d] \in Seq(Int)
         /\ Len([s EXCEPT ![i] = @ + d]) = Len(s)
OBVIOUS

LEMMA PoppedFrames ==
  ASSUME ControlOK, frames # <<>>, NEW arguments \in Int
  PROVE  Popped(arguments) \in Seq(Int) /\ Len(Popped(arguments)) = Len(frames)
BY DEF Popped, ControlOK

LEMMA PushedFrames ==
  ASSUME NEW s \in Seq(Int), NEW i \in 0..Len(s), NEW result
  PROVE  PushedTo(s, i, result) \in Seq(Int) /\ Len(PushedTo(s, i, result)) = Len(s)
<1>1. CASE result # "void" /\ i > 0
  BY <1>1, OperandsChanged DEF PushedTo
<1>2. CASE ~(result # "void" /\ i > 0)
  BY <1>2 DEF PushedTo
<1>3. QED
  BY <1>1, <1>2

(* What leaves the two stacks alone. *)
LEMMA SameControl ==
  ASSUME IInv, UNCHANGED control
  PROVE  IInv'
BY SameFrames DEF control, IInv, ControlOK

LEMMA BytecodeStep ==
  ASSUME IInv, Bytecode
  PROVE  IInv'
<1> USE DEF IInv
<1>1. ASSUME NEW change \in {-1, 1}, Operate(change)
      PROVE  IInv'
  <2>1. CASE End("exited")
    BY <2>1, SameControl DEF End
  <2>2. CASE /\ frames' = [frames EXCEPT ![Len(frames)] = @ + change]
             /\ UNCHANGED <<mReturnDepth, natives>>
    <3>1. Len(frames) \in 1..Len(frames) /\ change \in Int
      BY <1>1, RunsAbove DEF Operate, ControlOK
    <3>2. frames' \in Seq(Int) /\ Len(frames') = Len(frames)
      BY <2>2, <3>1, OperandsChanged DEF ControlOK
    <3>3. QED
      BY <2>2, <3>2, SameFrames
  <2>3. QED
    BY <1>1, <2>1, <2>2 DEF Operate
<1>2. ASSUME NEW arguments \in 0..1, CallBytecode(arguments)
      PROVE  IInv'
  <2>1. InBytecode /\ (End("exited") \/ (EnterFunction(Popped(arguments)) /\ UNCHANGED natives))
    BY <1>2 DEF CallBytecode
  <2>2. Popped(arguments) \in Seq(Int) /\ Len(Popped(arguments)) = Len(frames)
    BY <2>1, RunsAbove, PoppedFrames
  <2>3. QED
    BY <2>1, <2>2, EnterStep, SameControl DEF End
<1>3. ASSUME NEW arguments \in 0..1, NEW objects, CallNative(arguments, objects)
      PROVE  IInv'
  <2>0. InBytecode
    BY <1>3 DEF CallNative
  <2>1. Popped(arguments) \in Seq(Int) /\ Len(Popped(arguments)) = Len(frames)
    BY <2>0, RunsAbove, PoppedFrames
  <2>2. CASE \E how \in {"exited", "faulted"} : End(how)
    BY <2>2, SameControl DEF End
  <2>3. CASE ~ \E how \in {"exited", "faulted"} : End(how)
    <3>1. /\ InBytecode /\ frames' = Popped(arguments) /\ UNCHANGED mReturnDepth
          /\ natives' = Append(natives,
               [frame |-> Len(frames), pushed |-> 0, savedDepth |-> 0, call |-> NoCall])
      BY <1>3, <2>3 DEF CallNative
    <3>2. QED
      BY <2>1, <3>1, CallNativeStep
  <2>4. QED
    BY <2>2, <2>3
<1>4. ASSUME NEW result \in Results, Return(result)
      PROVE  IInv'
  <2>1. CASE End("exited")
    BY <2>1, SameControl DEF End
  <2>2. CASE ~ End("exited")
    <3>1. /\ InBytecode
          /\ frames' = PushedTo(Front(frames), Len(frames) - 1, result)
          /\ mReturnDepth' = mReturnDepth - 1
          /\ UNCHANGED natives
      BY <1>4, <2>2 DEF Return
    <3>2. Len(frames) > 0 /\ Len(frames) \in Nat
      BY <3>1, RunsAbove DEF ControlOK
    <3>3. /\ Front(frames) \in Seq(Int)
          /\ Len(Front(frames)) = Len(frames) - 1
          /\ Len(frames) - 1 \in 0..Len(Front(frames))
      BY <3>2, FrontOf DEF ControlOK
    <3>4. frames' \in Seq(Int) /\ Len(frames') = Len(frames) - 1
      BY <3>1, <3>3, PushedFrames
    <3>5. QED
      BY <3>1, <3>4, ReturnStep
  <2>3. QED
    BY <2>1, <2>2
<1>5. CASE \/ \E arguments \in 0..1 : CallNative(arguments, <<>>)
           \/ \E o \in Objects \cup {Null} : CallNative(1, <<o>>)
  <2>1. 1 \in 0..1
    OBVIOUS
  <2>2. QED
    BY <1>3, <1>5, <2>1
<1>6. QED
  BY <1>1, <1>2, <1>4, <1>5 DEF Bytecode

LEMMA NativeStep ==
  ASSUME IInv, Native
  PROVE  IInv'
<1> USE DEF IInv
<1>1. ASSUME NEW result \in Results, CallFunction(result)
      PROVE  IInv'
  BY <1>1, RunStep, CallMade DEF CallFunction
<1>2. ASSUME CallFunctionNatively
      PROVE  IInv'
  BY <1>2, SameControl DEF CallFunctionNatively, End
<1>3. ASSUME RunEnds
      PROVE  IInv'
  BY <1>3, RunEndsStep DEF RunEnds
<1>4. ASSUME NEW o \in Objects \cup {Null}, CreateLocalRef(o)
      PROVE  IInv'
  BY <1>4, SameControl DEF CreateLocalRef
<1>5. ASSUME NEW o \in Objects, CreateGlobalRef(o)
      PROVE  IInv'
  BY <1>5, SameControl DEF CreateGlobalRef
<1>6. ASSUME NEW h \in 1..MaxSlots, DeleteLocalRef(h) \/ DeleteGlobalRef(h)
      PROVE  IInv'
  BY <1>6, SameControl DEF DeleteLocalRef, DeleteGlobalRef
<1>7. ASSUME PushLocalFrame
      PROVE  IInv'
  BY <1>7, PushedStep DEF PushLocalFrame
<1>8. ASSUME PopLocalFrame
      PROVE  IInv'
  BY <1>8, PushedStep DEF PopLocalFrame
<1>9. ASSUME NEW m \in Modules, NEW mode \in {"local", "global"}, CreateModule(m, mode)
      PROVE  IInv'
  <2>1. CASE UNCHANGED control
    BY <2>1, SameControl
  <2>2. CASE InNative /\ EnterFunction(frames) /\ Run(LinkInit(m, mode))
    BY <2>2, RunStep, CallMade
  <2>3. QED
    BY <1>9, <2>1, <2>2 DEF CreateModule
<1>10. ASSUME NEW result \in Results, NativeReturn(result)
       PROVE  IInv'
  <2>1. CASE End("exited")
    BY <2>1, SameControl DEF End
  <2>2. CASE ~ End("exited")
    <3>1. /\ InNative /\ natives' = Front(natives) /\ UNCHANGED mReturnDepth
          /\ frames' = PushedTo(frames, Current.frame, result)
      BY <1>10, <2>2 DEF NativeReturn
    <3>2. Current.frame \in 0..Len(frames)
      BY <3>1 DEF InNative, InRun, OnTop, ControlOK
    <3>3. frames' \in Seq(Int) /\ Len(frames') = Len(frames)
      BY <3>1, <3>2, PushedFrames DEF ControlOK
    <3>4. QED
      BY <3>1, <3>3, NativeReturnStep
  <2>3. QED
    BY <2>1, <2>2
<1>11. ASSUME NEW o \in Objects \cup {Null}, NEW result \in Results, CallMethod(o, result)
       PROVE  IInv'
  <2>1. CASE End("faulted")
    BY <2>1, SameControl DEF End
  <2>2. CASE CallFunction(result)
    BY <1>1, <2>2
  <2>3. QED
    BY <1>11, <2>1, <2>2 DEF CallMethod
<1>12. ASSUME NEW o \in Objects, NewObject(o)
       PROVE  IInv'
  <2>1. "void" \in Results
    BY DEF Results
  <2>2. QED
    BY <1>12, <2>1, RunStep, CallMade DEF NewObject
<1>13. QED
  BY <1>1, <1>2, <1>3, <1>4, <1>5, <1>6, <1>7, <1>8, <1>9, <1>10, <1>11, <1>12 DEF Native

-------------------------------------------------------------------------------

LEMMA Invariance == Spec => []IInv
<1>1. Init => IInv
  BY DEF Init, IInv, ControlOK, DepthIsFrames, Nested, OnTop
<1>2. IInv /\ [Next]_vars => IInv'
  BY BytecodeStep, NativeStep, SameControl DEF Next, vars
<1>3. QED
  BY <1>1, <1>2, PTL DEF Spec

(* However bytecode and native code nest, a run() that native code starts ends *)
(* exactly when the function it was started for has returned: native code      *)
(* at work always has the frame that it was called from on top.                *)
THEOREM NativeOnTopCorrect == Spec => []NativeOnTop
<1>1. IInv => NativeOnTop
  BY DEF IInv, ControlOK, Nested, OnTop, NativeOnTop, InNative, InRun
<1>2. QED
  BY <1>1, Invariance, PTL

(* mReturnDepth, by which run() decides when to stop, always counts the frames. *)
THEOREM ReturnDepthCorrect == Spec => [](mReturnDepth = Len(frames))
<1>1. IInv => mReturnDepth = Len(frames)
  BY DEF IInv, DepthIsFrames
<1>2. QED
  BY <1>1, Invariance, PTL

-------------------------------------------------------------------------------
(* What sequences and frames hold.                                         *)

(* How often p is among the elements of q. *)
Times(q, p) == Cardinality({ i \in DOMAIN q : q[i] = p })

(* How often one frame holds o. *)
HeldBy(f, o) == Times(f.objects, o)

(* 1 if the two are the same. *)
Same(o, p) == IF o = p THEN 1 ELSE 0

LEMMA TimesType ==
  ASSUME NEW S, NEW q \in Seq(S), NEW p
  PROVE  /\ IsFiniteSet({ i \in DOMAIN q : q[i] = p })
         /\ Times(q, p) \in Nat
<1> DEFINE n == Len(q)
<1>1. DOMAIN q = 1..n /\ n \in Int /\ 1 \in Int
  OBVIOUS
<1> HIDE DEF n
<1>2. IsFiniteSet(DOMAIN q)
  BY <1>1, FS_Interval, Zenon
<1>3. { i \in DOMAIN q : q[i] = p } \in SUBSET (DOMAIN q)
  OBVIOUS
<1>4. QED
  BY <1>2, <1>3, FS_Subset, FS_CardinalityType DEF Times

(* One element is written over. *)
LEMMA TimesExcept ==
  ASSUME NEW S, NEW q \in Seq(S), NEW k \in DOMAIN q, NEW x \in S, NEW p
  PROVE  Times([q EXCEPT ![k] = x], p) = Times(q, p) - Same(p, q[k]) + Same(p, x)
<1> DEFINE r == [q EXCEPT ![k] = x]
           A == { i \in DOMAIN q : q[i] = p }
           B == { i \in DOMAIN r : r[i] = p }
<1>1. IsFiniteSet(A) /\ Times(q, p) = Cardinality(A) /\ Cardinality(A) \in Nat
  BY TimesType DEF Times
<1>2. B = IF p = x THEN A \cup {k} ELSE A \ {k}
  OBVIOUS
<1>3. k \in A <=> p = q[k]
  OBVIOUS
<1>4. Times(r, p) = Cardinality(B)
  BY DEF Times
<1> HIDE DEF A, B, r
<1>5. CASE p = x
  <2>1. Cardinality(B) = IF k \in A THEN Cardinality(A) ELSE Cardinality(A) + 1
    BY <1>1, <1>2, <1>5, FS_AddElement
  <2>2. QED
    BY <1>1, <1>3, <1>4, <1>5, <2>1 DEF Same, r
<1>6. CASE p # x
  <2>1. Cardinality(B) = IF k \in A THEN Cardinality(A) - 1 ELSE Cardinality(A)
    BY <1>1, <1>2, <1>6, FS_RemoveElement
  <2>2. QED
    BY <1>1, <1>3, <1>4, <1>6, <2>1 DEF Same, r
<1>7. QED
  BY <1>5, <1>6

(* One element is added. *)
LEMMA TimesAppend ==
  ASSUME NEW S, NEW q \in Seq(S), NEW x \in S, NEW p
  PROVE  Times(Append(q, x), p) = Times(q, p) + Same(p, x)
<1> DEFINE r == Append(q, x)
           n == Len(q) + 1
           A == { i \in DOMAIN q : q[i] = p }
           B == { i \in DOMAIN r : r[i] = p }
<1>1. IsFiniteSet(A) /\ Times(q, p) = Cardinality(A) /\ Cardinality(A) \in Nat
  BY TimesType DEF Times
<1>2. /\ DOMAIN r = 1..n /\ DOMAIN q = 1..(n - 1) /\ n \in Nat /\ r[n] = x
      /\ \A i \in 1..(n - 1) : r[i] = q[i]
  OBVIOUS
<1>3. B = IF p = x THEN A \cup {n} ELSE A
  BY <1>2
<1>4. n \notin A
  BY <1>2
<1>5. Times(r, p) = Cardinality(B)
  BY DEF Times
<1> HIDE DEF A, B, r, n
<1>6. CASE p = x
  <2>1. Cardinality(B) = Cardinality(A) + 1
    BY <1>1, <1>3, <1>4, <1>6, FS_AddElement
  <2>2. QED
    BY <1>1, <1>5, <1>6, <2>1 DEF Same, r
<1>7. CASE p # x
  BY <1>1, <1>3, <1>5, <1>7 DEF Same, r
<1>8. QED
  BY <1>6, <1>7

(* The slots of frames that hold o. *)
HeldSlots(s, o) ==
  { slot \in UNION { {i} \X DOMAIN s[i].objects : i \in DOMAIN s } :
      s[slot[1]].objects[slot[2]] = o }

(* They are pairs of a frame and a handle. *)
LEMMA HeldSlotsAre ==
  ASSUME NEW s, NEW o
  PROVE  /\ \A i, h : <<i, h>> \in HeldSlots(s, o)
                        <=> i \in DOMAIN s /\ h \in DOMAIN s[i].objects /\ s[i].objects[h] = o
         /\ \A slot \in HeldSlots(s, o) : slot = <<slot[1], slot[2]>>
BY DEF HeldSlots

LEMMA HeldFinite ==
  ASSUME NEW s \in Seq(ReferenceFrame), NEW o
  PROVE  /\ IsFiniteSet(HeldSlots(s, o))
         /\ Held(s, o) = Cardinality(HeldSlots(s, o))
         /\ Held(s, o) \in Nat
<1> DEFINE n == Len(s)
           F == [i \in 1..n |-> {i} \X DOMAIN s[i].objects]
           R == { F[i] : i \in 1..n }
<1>1. DOMAIN s = 1..n /\ n \in Int
  OBVIOUS
<1>2. IsFiniteSet(1..n)
  <2>1. 1 \in Int
    OBVIOUS
  <2> HIDE DEF n
  <2>2. QED
    BY <1>1, <2>1, FS_Interval, Zenon
<1>3. ASSUME NEW i \in 1..n PROVE IsFiniteSet(F[i])
  <2> DEFINE l == Len(s[i].objects)
  <2>0. s[i] \in ReferenceFrame
    OBVIOUS
  <2>1. s[i].objects \in Seq(Objects \cup {Null})
    BY <2>0 DEF ReferenceFrame
  <2>2. DOMAIN s[i].objects = 1..l /\ l \in Int /\ 1 \in Int
    BY <2>1
  <2> HIDE DEF l
  <2>3. IsFiniteSet(DOMAIN s[i].objects)
    BY <2>2, FS_Interval, Zenon
  <2>4. QED
    BY <2>3, FS_Singleton, FS_Product
<1>4. IsFiniteSet(R)
  <2>1. F \in Surjection(1..n, R)
    <3>1. F \in [1..n -> R] /\ \A t \in R : \E i \in 1..n : F[i] = t
      OBVIOUS
    <3> HIDE DEF F, R
    <3>2. QED
      BY <3>1, Fun_IsSurj
  <2> HIDE DEF F, R
  <2>2. QED
    BY <1>2, <2>1, FS_Surjection
<1>5. IsFiniteSet(UNION R)
  <2>1. \A t \in R : IsFiniteSet(t)
    BY <1>3
  <2> HIDE DEF R
  <2>2. QED
    BY <1>4, <2>1, FS_UNION
<1>6. HeldSlots(s, o) \in SUBSET (UNION R)
  BY <1>1 DEF HeldSlots
<1> HIDE DEF R
<1>7. IsFiniteSet(HeldSlots(s, o))
  BY <1>5, <1>6, FS_Subset
<1>8. Held(s, o) = Cardinality(HeldSlots(s, o))
  BY DEF Held, HeldSlots
<1>9. QED
  BY <1>7, <1>8, FS_CardinalityType

(* No frames. *)
LEMMA HeldNone == \A o : Held(<<>>, o) = 0
<1> SUFFICES ASSUME NEW o PROVE Held(<<>>, o) = 0
  OBVIOUS
<1>1. HeldSlots(<<>>, o) = {}
  BY DEF HeldSlots
<1>2. Held(<<>>, o) = Cardinality(HeldSlots(<<>>, o))
  BY DEF Held, HeldSlots
<1>3. QED
  BY <1>1, <1>2, FS_EmptySet

(* One frame more. *)
LEMMA HeldAppend ==
  ASSUME NEW s \in Seq(ReferenceFrame), NEW f \in ReferenceFrame, NEW o
  PROVE  /\ HeldBy(f, o) \in Nat
         /\ Held(Append(s, f), o) = Held(s, o) + HeldBy(f, o)
<1> DEFINE t == Append(s, f)
           n == Len(s) + 1
           C == { h \in DOMAIN f.objects : f.objects[h] = o }
           B == { <<n, h>> : h \in C }
           b == [h \in C |-> <<n, h>>]
<1>1. /\ t \in Seq(ReferenceFrame) /\ DOMAIN t = 1..n /\ DOMAIN s = 1..(n - 1) /\ n \in Nat
      /\ t[n] = f /\ \A i \in 1..(n - 1) : t[i] = s[i]
  OBVIOUS
<1>2. IsFiniteSet(C) /\ HeldBy(f, o) = Cardinality(C) /\ HeldBy(f, o) \in Nat
  BY TimesType DEF HeldBy, Times, ReferenceFrame
<1>3. IsFiniteSet(B) /\ Cardinality(B) = Cardinality(C)
  <2>1. b \in [C -> B] /\ \A x \in B : \E h \in C : b[h] = x
    OBVIOUS
  <2>2. \A x, y \in C : b[x] = b[y] => x = y
    OBVIOUS
  <2> HIDE DEF b, B, C
  <2>3. b \in Bijection(C, B)
    BY <2>1, <2>2, Fun_IsBij
  <2>4. ExistsBijection(C, B)
    BY <2>3 DEF ExistsBijection
  <2>5. QED
    BY <1>2, <2>4, FS_Bijection
<1>4. HeldSlots(t, o) = HeldSlots(s, o) \cup B
  <2> HIDE DEF t
  <2>1. ASSUME NEW i, NEW h
        PROVE  <<i, h>> \in HeldSlots(t, o) <=> <<i, h>> \in HeldSlots(s, o) \cup B
    <3>1. <<i, h>> \in B <=> i = n /\ h \in C
      OBVIOUS
    <3>2. i \in DOMAIN t <=> i \in DOMAIN s \/ i = n
      BY <1>1
    <3>3. n \notin DOMAIN s
      BY <1>1
    <3> HIDE DEF n, B
    <3>4. QED
      BY <1>1, <3>1, <3>2, <3>3, HeldSlotsAre
  <2>2. /\ \A slot \in HeldSlots(t, o) : slot = <<slot[1], slot[2]>>
        /\ \A slot \in HeldSlots(s, o) \cup B : slot = <<slot[1], slot[2]>>
    BY HeldSlotsAre
  <2> HIDE DEF B
  <2>3. QED
    BY <2>1, <2>2
<1>5. HeldSlots(s, o) \cap B = {}
  <2>1. ASSUME NEW h PROVE <<n, h>> \notin HeldSlots(s, o)
    BY <1>1, HeldSlotsAre
  <2>2. QED
    BY <2>1
<1> HIDE DEF t, B, C
<1>6. Held(t, o) = Held(s, o) + Cardinality(B)
  <2>1. /\ IsFiniteSet(HeldSlots(s, o)) /\ Held(s, o) = Cardinality(HeldSlots(s, o))
        /\ Held(s, o) \in Nat /\ Held(t, o) = Cardinality(HeldSlots(t, o))
    BY <1>1, HeldFinite
  <2>2. Cardinality(HeldSlots(s, o) \cup B)
          = Cardinality(HeldSlots(s, o)) + Cardinality(B) - Cardinality(HeldSlots(s, o) \cap B)
    BY <1>3, <2>1, FS_Union
  <2>3. Cardinality(B) \in Nat
    BY <1>2, <1>3
  <2>4. Cardinality(HeldSlots(s, o) \cap B) = 0
    BY <1>5, FS_EmptySet
  <2>5. QED
    BY <1>4, <2>1, <2>2, <2>3, <2>4
<1>7. QED
  BY <1>2, <1>3, <1>6 DEF t

(* Frames with the same objects hold the same. *)
LEMMA HeldSame ==
  ASSUME NEW s, NEW t, DOMAIN s = DOMAIN t,
         \A i \in DOMAIN s : s[i].objects = t[i].objects, NEW o
  PROVE  Held(s, o) = Held(t, o)
<1>1. HeldSlots(s, o) = HeldSlots(t, o)
  <2>1. ASSUME NEW i, NEW h
        PROVE  <<i, h>> \in HeldSlots(s, o) <=> <<i, h>> \in HeldSlots(t, o)
    <3>1. <<i, h>> \in HeldSlots(s, o)
            <=> i \in DOMAIN s /\ h \in DOMAIN s[i].objects /\ s[i].objects[h] = o
      BY DEF HeldSlots
    <3>2. <<i, h>> \in HeldSlots(t, o)
            <=> i \in DOMAIN t /\ h \in DOMAIN t[i].objects /\ t[i].objects[h] = o
      BY DEF HeldSlots
    <3>3. QED
      BY <3>1, <3>2
  <2>2. QED
    BY <2>1, HeldSlotsAre
<1>2. QED
  BY <1>1 DEF Held, HeldSlots

(* A sequence is its last element after the others. *)
LEMMA FrontAndLast ==
  ASSUME NEW S, NEW s \in Seq(S), Len(s) > 0
  PROVE  /\ Front(s) \in Seq(S) /\ Last(s) \in S
         /\ s = Append(Front(s), Last(s))
         /\ \A x \in S : [s EXCEPT ![Len(s)] = x] = Append(Front(s), x)
<1> DEFINE n == Len(s)
<1>1. /\ Front(s) \in Seq(S) /\ Len(Front(s)) = n - 1 /\ n \in Nat \ {0}
      /\ \A k \in 1..(n - 1) : Front(s)[k] = s[k]
  BY FrontOf
<1>2. Last(s) \in S /\ Last(s) = s[n]
  BY <1>1 DEF Last
<1>3. ASSUME NEW x \in S, NEW t \in Seq(S), Len(t) = n, t[n] = x,
             \A k \in 1..(n - 1) : t[k] = s[k]
      PROVE  t = Append(Front(s), x)
  <2> DEFINE u == Append(Front(s), x)
  <2>1. /\ u \in Seq(S) /\ Len(u) = n /\ u[n] = x
        /\ \A k \in 1..(n - 1) : u[k] = s[k]
    BY <1>1
  <2> HIDE DEF u
  <2>2. \A k \in 1..Len(t) : t[k] = u[k]
    BY <1>1, <1>3, <2>1
  <2>3. t = u
    BY <1>3, <2>1, <2>2, SeqEqual
  <2>4. QED
    BY <2>3 DEF u
<1>4. s = Append(Front(s), Last(s))
  BY <1>2, <1>3
<1>5. ASSUME NEW x \in S PROVE [s EXCEPT ![n] = x] = Append(Front(s), x)
  <2> DEFINE t == [s EXCEPT ![n] = x]
  <2>1. /\ t \in Seq(S) /\ Len(t) = n /\ t[n] = x
        /\ \A k \in 1..(n - 1) : t[k] = s[k]
    BY <1>1
  <2> HIDE DEF t
  <2>2. t = Append(Front(s), x)
    BY <1>3, <2>1
  <2>3. QED
    BY <2>2 DEF t
<1>6. QED
  BY <1>1, <1>2, <1>4, <1>5

(* The fields of a frame. *)
LEMMA FrameFields ==
  ASSUME NEW f \in ReferenceFrame
  PROVE  /\ f.objects \in Seq(Objects \cup {Null}) /\ DOMAIN f.objects = 1..Len(f.objects)
         /\ f.freeList \in Seq(Nat) /\ DOMAIN f.freeList = 1..Len(f.freeList)
         /\ f.specials \in Seq(Modules) /\ DOMAIN f.specials = 1..Len(f.specials)
         /\ f.capacity \in Nat
         /\ Len(f.objects) \in Nat /\ Len(f.freeList) \in Nat /\ Len(f.specials) \in Nat
BY DEF ReferenceFrame

(* A frame that holds the given objects has no free slot and no special. *)
LEMMA FrameBuilt ==
  ASSUME NEW objects \in Seq(Objects)
  PROVE  /\ FrameOf(objects) \in ReferenceFrame
         /\ FreeListSound(FrameOf(objects))
         /\ FrameOf(objects).specials = <<>>
<1>1. objects \in Seq(Objects \cup {Null}) /\ \A h \in DOMAIN objects : objects[h] # Null
  BY FramesAssumption
<1>2. FrameOf(objects) = [objects |-> objects, freeList |-> <<>>, specials |-> <<>>, capacity |-> 0]
  BY DEF FrameOf, EmptyFrame
<1>3. QED
  BY <1>1, <1>2 DEF ReferenceFrame, FreeListSound

LEMMA EmptyFrameBuilt ==
  /\ EmptyFrame \in ReferenceFrame
  /\ FreeListSound(EmptyFrame)
  /\ EmptyFrame.specials = <<>>
  /\ \A o : HeldBy(EmptyFrame, o) = 0
<1>1. EmptyFrame.objects = <<>> /\ EmptyFrame.freeList = <<>> /\ EmptyFrame.specials = <<>>
  BY DEF EmptyFrame
<1>2. EmptyFrame \in ReferenceFrame
  BY DEF EmptyFrame, ReferenceFrame
<1>3. ASSUME NEW o PROVE HeldBy(EmptyFrame, o) = 0
  <2>1. { h \in DOMAIN EmptyFrame.objects : EmptyFrame.objects[h] = o } = {}
    BY <1>1
  <2>2. QED
    BY <2>1, FS_EmptySet DEF HeldBy, Times
<1>4. QED
  BY <1>1, <1>2, <1>3 DEF FreeListSound

(* createReference gives out an empty slot or a new one. *)
LEMMA ReferenceCreated ==
  ASSUME NEW f \in ReferenceFrame, FreeListSound(f), NEW o \in Objects
  PROVE  /\ CreateReference(f, o) \in ReferenceFrame
         /\ FreeListSound(CreateReference(f, o))
         /\ CreateReference(f, o).specials = f.specials
         /\ \A p \in Objects : HeldBy(CreateReference(f, o), p) = HeldBy(f, p) + Same(p, o)
<1> DEFINE g == CreateReference(f, o)
           n == Len(f.freeList)
<1>0. o # Null /\ o \in Objects \cup {Null} /\ \A p \in Objects : p # Null
  BY FramesAssumption
<1>1. CASE f.freeList = <<>>
  <2>1. /\ g.objects = Append(f.objects, o) /\ g.freeList = f.freeList
        /\ g.specials = f.specials /\ g.capacity = f.capacity
        /\ g = [objects |-> g.objects, freeList |-> g.freeList, specials |-> g.specials,
                capacity |-> g.capacity]
    BY <1>1 DEF CreateReference, ReferenceFrame
  <2> HIDE DEF g
  <2>2. g \in ReferenceFrame
    <3>1. g.objects \in Seq(Objects \cup {Null})
      BY <1>0, <2>1, FrameFields
    <3>2. QED
      BY <2>1, <3>1, FrameFields DEF ReferenceFrame
  <2>3. FreeListSound(g)
    <3>1. \A h \in DOMAIN g.objects : g.objects[h] # Null
      <4>1. \A h \in DOMAIN f.objects : f.objects[h] # Null
        BY <1>1 DEF FreeListSound
      <4>2. QED
        BY <1>0, <2>1, <4>1, FrameFields
    <3>2. DOMAIN g.freeList = {}
      BY <1>1, <2>1
    <3>3. QED
      BY <3>1, <3>2 DEF FreeListSound
  <2>4. ASSUME NEW p \in Objects PROVE HeldBy(g, p) = HeldBy(f, p) + Same(p, o)
    <3>1. f.objects \in Seq(Objects \cup {Null})
      BY FrameFields
    <3>2. Times(Append(f.objects, o), p) = Times(f.objects, p) + Same(p, o)
      BY <1>0, <3>1, TimesAppend
    <3>3. QED
      BY <2>1, <3>2 DEF HeldBy
  <2>5. QED
    BY <2>1, <2>2, <2>3, <2>4 DEF g
<1>2. CASE f.freeList # <<>>
  <2> DEFINE k == Last(f.freeList)
             l == Front(f.freeList)
  <2>1. /\ n \in Nat \ {0} /\ k = f.freeList[n] /\ n \in DOMAIN f.freeList
        /\ DOMAIN f.freeList = 1..n /\ f.freeList \in Seq(Nat)
    BY <1>2, FrameFields DEF Last
  <2>2. /\ l \in Seq(Nat) /\ Len(l) = n - 1 /\ DOMAIN l = 1..(n - 1)
        /\ \A i \in 1..(n - 1) : l[i] = f.freeList[i]
    <3> DEFINE q == f.freeList
    <3>1. q \in Seq(Nat) /\ Len(q) > 0
      BY <2>1
    <3> HIDE DEF q
    <3>2. /\ Front(q) \in Seq(Nat) /\ Len(Front(q)) = Len(q) - 1
          /\ \A i \in 1..(Len(q) - 1) : Front(q)[i] = q[i]
      BY <3>1, FrontOf
    <3>3. DOMAIN Front(q) = 1..(Len(q) - 1)
      BY <3>2
    <3>4. QED
      BY <3>2, <3>3 DEF q
  <2>3. k \in DOMAIN f.objects /\ f.objects[k] = Null
    BY <2>1 DEF FreeListSound
  <2>4. /\ g.objects = [f.objects EXCEPT ![k] = o] /\ g.freeList = l
        /\ g.specials = f.specials /\ g.capacity = f.capacity
        /\ g = [objects |-> g.objects, freeList |-> g.freeList, specials |-> g.specials,
                capacity |-> g.capacity]
    BY <1>2 DEF CreateReference, ReferenceFrame
  <2> HIDE DEF g, l, k
  <2>5. /\ g.objects \in Seq(Objects \cup {Null}) /\ DOMAIN g.objects = DOMAIN f.objects
        /\ \A h \in DOMAIN f.objects : g.objects[h] = IF h = k THEN o ELSE f.objects[h]
    BY <1>0, <2>3, <2>4, FrameFields
  <2>6. g \in ReferenceFrame
    BY <2>2, <2>4, <2>5, FrameFields DEF ReferenceFrame
  <2>7. FreeListSound(g)
    <3>1. ASSUME NEW h \in DOMAIN f.objects
          PROVE  g.objects[h] = Null <=> \E i \in 1..(n - 1) : l[i] = h
      <4>1. f.objects[h] = Null <=> \E i \in 1..n : f.freeList[i] = h
        BY <2>1 DEF FreeListSound
      <4>2. CASE h = k
        <5>1. \A i \in 1..(n - 1) : i \in DOMAIN f.freeList /\ i # n
          BY <2>1
        <5>2. \A i \in 1..(n - 1) : l[i] # k
          BY <2>1, <2>2, <5>1 DEF FreeListSound
        <5>3. QED
          BY <1>0, <2>5, <4>2, <5>2
      <4>3. CASE h # k
        <5>1. \A i \in 1..n : i \in 1..(n - 1) \/ i = n
          BY <2>1
        <5>2. \A i \in 1..(n - 1) : i \in 1..n
          BY <2>1
        <5>3. (\E i \in 1..n : f.freeList[i] = h) <=> \E i \in 1..(n - 1) : l[i] = h
          BY <2>1, <2>2, <4>3, <5>1, <5>2
        <5>4. QED
          BY <2>5, <4>1, <4>3, <5>3
      <4>4. QED
        BY <4>2, <4>3
    <3>2. \A i \in 1..(n - 1) : i \in DOMAIN f.freeList
      BY <2>1
    <3>3. QED
      BY <2>2, <2>4, <2>5, <3>1, <3>2 DEF FreeListSound
  <2>8. ASSUME NEW p \in Objects PROVE HeldBy(g, p) = HeldBy(f, p) + Same(p, o)
    <3>1. f.objects \in Seq(Objects \cup {Null})
      BY FrameFields
    <3>2. Times([f.objects EXCEPT ![k] = o], p)
            = Times(f.objects, p) - Same(p, f.objects[k]) + Same(p, o)
      BY <1>0, <2>3, <3>1, TimesExcept
    <3>3. Same(p, f.objects[k]) = 0
      BY <1>0, <2>3 DEF Same
    <3>4. Times(f.objects, p) \in Nat
      BY <3>1, TimesType
    <3>5. QED
      BY <2>4, <3>2, <3>3, <3>4 DEF HeldBy
  <2>9. QED
    BY <2>4, <2>6, <2>7, <2>8 DEF g
<1>3. QED
  BY <1>1, <1>2

(* removeReference frees the slot of a handle that refers to an object. *)
LEMMA ReferenceRemoved ==
  ASSUME NEW f \in ReferenceFrame, FreeListSound(f), NEW h \in Nat
  PROVE  /\ RemoveReference(f, h) \in ReferenceFrame
         /\ FreeListSound(RemoveReference(f, h))
         /\ RemoveReference(f, h).specials = f.specials
         /\ Refers(f, h) =>
              /\ f.objects[h] \in Objects
              /\ \A p \in Objects :
                   HeldBy(RemoveReference(f, h), p) = HeldBy(f, p) - Same(p, f.objects[h])
         /\ ~Refers(f, h) => RemoveReference(f, h) = f
<1> DEFINE g == RemoveReference(f, h)
           n == Len(f.freeList)
<1>1. CASE ~Refers(f, h)
  BY <1>1 DEF RemoveReference
<1>2. CASE Refers(f, h)
  <2>1. h \in DOMAIN f.objects /\ f.objects[h] # Null /\ f.objects[h] \in Objects
    BY <1>2, FrameFields DEF Refers
  <2>2. /\ g.objects = [f.objects EXCEPT ![h] = Null] /\ g.freeList = Append(f.freeList, h)
        /\ g.specials = f.specials /\ g.capacity = f.capacity
        /\ g = [objects |-> g.objects, freeList |-> g.freeList, specials |-> g.specials,
                capacity |-> g.capacity]
    BY <1>2 DEF RemoveReference, ReferenceFrame
  <2> HIDE DEF g
  <2>3. /\ g.objects \in Seq(Objects \cup {Null}) /\ DOMAIN g.objects = DOMAIN f.objects
        /\ \A i \in DOMAIN f.objects : g.objects[i] = IF i = h THEN Null ELSE f.objects[i]
    BY <2>1, <2>2, FrameFields
  <2>4. /\ g.freeList \in Seq(Nat) /\ DOMAIN g.freeList = 1..(n + 1) /\ n \in Nat
        /\ g.freeList[n + 1] = h /\ \A i \in 1..n : g.freeList[i] = f.freeList[i]
    BY <2>2, FrameFields
  <2>5. g \in ReferenceFrame
    BY <2>2, <2>3, <2>4, FrameFields DEF ReferenceFrame
  <2>6. FreeListSound(g)
    <3>0. DOMAIN f.freeList = 1..n
      BY FrameFields
    <3>1. \A i \in 1..(n + 1) : i \in 1..n \/ i = n + 1
      BY <2>4
    <3>2. \A i \in 1..n : i \in 1..(n + 1) /\ f.freeList[i] # h
      <4>1. \A i \in DOMAIN f.freeList : f.freeList[i] # h
        BY <2>1 DEF FreeListSound
      <4>2. QED
        BY <2>4, <3>0, <4>1
    <3>3. n + 1 \in 1..(n + 1)
      BY <2>4
    <3>4. ASSUME NEW i \in DOMAIN f.objects
          PROVE  g.objects[i] = Null <=> \E j \in 1..(n + 1) : g.freeList[j] = i
      <4>1. f.objects[i] = Null <=> \E j \in 1..n : f.freeList[j] = i
        BY <3>0 DEF FreeListSound
      <4> DEFINE l == n + 1
      <4>2. (\E j \in 1..l : g.freeList[j] = i)
              <=> (\E j \in 1..n : f.freeList[j] = i) \/ i = h
        BY <2>4, <3>1, <3>2, <3>3
      <4>3. QED
        BY <2>3, <4>1, <4>2
    <3>5. \A j \in 1..(n + 1) : g.freeList[j] \in DOMAIN f.objects
      BY <2>1, <2>4, <3>0, <3>1 DEF FreeListSound
    <3>6. \A i, j \in 1..(n + 1) : g.freeList[i] = g.freeList[j] => i = j
      BY <2>4, <3>0, <3>1, <3>2 DEF FreeListSound
    <3>7. QED
      BY <2>3, <2>4, <3>4, <3>5, <3>6 DEF FreeListSound
  <2>7. ASSUME NEW p \in Objects
        PROVE  HeldBy(g, p) = HeldBy(f, p) - Same(p, f.objects[h])
    <3>1. f.objects \in Seq(Objects \cup {Null}) /\ Null \in Objects \cup {Null}
      BY FrameFields
    <3>2. Times([f.objects EXCEPT ![h] = Null], p)
            = Times(f.objects, p) - Same(p, f.objects[h]) + Same(p, Null)
      BY <2>1, <3>1, TimesExcept
    <3>3. Same(p, Null) = 0 /\ Same(p, f.objects[h]) \in Nat
      BY FramesAssumption DEF Same
    <3>4. Times(f.objects, p) \in Nat
      BY <3>1, TimesType
    <3>5. QED
      BY <2>2, <3>2, <3>3, <3>4 DEF HeldBy
  <2>8. QED
    BY <1>2, <2>1, <2>2, <2>5, <2>6, <2>7 DEF g
<1>3. QED
  BY <1>1, <1>2

(* m is among the specials of one frame. *)
Keeps(f, m) == \E k \in DOMAIN f.specials : f.specials[k] = m

LEMMA SpecialsAre ==
  /\ \A f, m : m \in Specials(<<f>>) <=> Keeps(f, m)
  /\ \A s, m : m \in Specials(s) <=> \E i \in DOMAIN s : Keeps(s[i], m)
BY DEF Specials, Keeps

(* createSpecial adds one special, and a vector that grows deletes those it had. *)
LEMMA SpecialCreated ==
  ASSUME NEW f \in ReferenceFrame, NEW m \in Modules
  PROVE  /\ CreateSpecial(f, m) \in ReferenceFrame
         /\ CreateSpecial(f, m).objects = f.objects
         /\ CreateSpecial(f, m).freeList = f.freeList
         /\ \A x : Keeps(CreateSpecial(f, m), x) <=> Keeps(f, x) \/ x = m
         /\ \A x \in LostToGrowth(f) : Keeps(f, x)
<1> DEFINE g == CreateSpecial(f, m)
           n == Len(f.specials)
<1>1. /\ g.objects = f.objects /\ g.freeList = f.freeList
      /\ g.specials = Append(f.specials, m)
      /\ g.capacity = IF n = f.capacity THEN Grown(f.capacity) ELSE f.capacity
      /\ g = [objects |-> g.objects, freeList |-> g.freeList, specials |-> g.specials,
              capacity |-> g.capacity]
  <2>1. g.objects = f.objects /\ g.freeList = f.freeList /\ g.specials = Append(f.specials, m)
    BY DEF CreateSpecial, ReferenceFrame
  <2>2. g.capacity = IF n = f.capacity THEN Grown(f.capacity) ELSE f.capacity
    BY DEF CreateSpecial, ReferenceFrame
  <2>3. g = [objects |-> g.objects, freeList |-> g.freeList, specials |-> g.specials,
             capacity |-> g.capacity]
    <3> DEFINE a == Append(f.specials, m)
               b == IF n = f.capacity THEN Grown(f.capacity) ELSE f.capacity
    <3>1. g = [f EXCEPT !.specials = a, !.capacity = b]
      BY DEF CreateSpecial
    <3> HIDE DEF a, b, g
    <3>2. g = [objects |-> f.objects, freeList |-> f.freeList, specials |-> a, capacity |-> b]
      BY <3>1 DEF ReferenceFrame
    <3>3. QED
      BY <3>2
  <2>4. QED
    BY <2>1, <2>2, <2>3
<1>2. Grown(f.capacity) \in Nat
  BY FrameFields DEF Grown
<1> HIDE DEF g
<1>3. /\ g.specials \in Seq(Modules) /\ DOMAIN g.specials = 1..(n + 1) /\ n \in Nat
      /\ DOMAIN f.specials = 1..n
      /\ g.specials[n + 1] = m /\ \A k \in 1..n : g.specials[k] = f.specials[k]
  BY <1>1, FrameFields
<1>4. g.capacity \in Nat
  BY <1>1, <1>2, FrameFields
<1>5. g \in ReferenceFrame
  BY <1>1, <1>3, <1>4, FrameFields DEF ReferenceFrame
<1>6. ASSUME NEW x PROVE Keeps(g, x) <=> Keeps(f, x) \/ x = m
  <2>1. \A k \in 1..(n + 1) : k \in 1..n \/ k = n + 1
    BY <1>3
  <2>2. n + 1 \in 1..(n + 1) /\ \A k \in 1..n : k \in 1..(n + 1)
    BY <1>3
  <2> DEFINE l == n + 1
  <2> HIDE DEF l
  <2>3. QED
    BY <1>3, <2>1, <2>2 DEF Keeps, l
<1>7. \A x \in LostToGrowth(f) : Keeps(f, x)
  BY SpecialsAre DEF LostToGrowth
<1>8. QED
  BY <1>1, <1>5, <1>6, <1>7 DEF g

(* A copied frame differs in its spare capacity alone. *)
LEMMA FrameCopied ==
  ASSUME NEW f \in ReferenceFrame
  PROVE  /\ CopyOf(f) \in ReferenceFrame
         /\ CopyOf(f).objects = f.objects
         /\ CopyOf(f).freeList = f.freeList
         /\ CopyOf(f).specials = f.specials
BY FrameFields DEF CopyOf, ReferenceFrame

-------------------------------------------------------------------------------
(* The references and the modules: their part of the invariant.            *)

RefsType ==
  /\ localReferenceStack \in Seq(ReferenceFrame)
  /\ stackCapacity \in Nat
  /\ globalReferences \in ReferenceFrame
  /\ counted \in [Objects -> Int]
  /\ lost \in [Objects -> Nat]
  /\ modules \in [Modules -> {"none", "linking", "made", "deleted"}]

Counted ==
  \A o \in Objects :
    counted[o] + lost[o] = Held(localReferenceStack, o) + HeldBy(globalReferences, o)

(* Exactly one frame of s, or g, keeps m; or none does. *)
OneOwner(s, g, m) ==
  \/ Keeps(g, m) /\ \A i \in DOMAIN s : ~Keeps(s[i], m)
  \/ ~Keeps(g, m) /\ \E i \in DOMAIN s : \A j \in DOMAIN s : Keeps(s[j], m) <=> i = j

NoOwner(s, g, m) == ~Keeps(g, m) /\ \A i \in DOMAIN s : ~Keeps(s[i], m)

(* A module is kept once it is made and not before. *)
Owned ==
  \A m \in Modules :
    /\ modules[m] \in {"none", "linking"} => NoOwner(localReferenceStack, globalReferences, m)
    /\ modules[m] = "made" => OneOwner(localReferenceStack, globalReferences, m)

RInv == RefsType /\ FreeSlotsEmpty /\ Counted /\ Owned

(* What an operation on the references leaves to the rest: the process runs or has *)
(* faulted, and a module that is linking stays so.                                 *)
Aside ==
  /\ state' \in {"run", "faulted"}
  /\ \A m \in Modules : modules[m] = "linking" => modules'[m] = "linking"

LEMMA OwnersSame ==
  ASSUME NEW s, NEW t, NEW g, NEW h, NEW m, DOMAIN s = DOMAIN t,
         \A i \in DOMAIN s : Keeps(s[i], m) <=> Keeps(t[i], m),
         Keeps(g, m) <=> Keeps(h, m)
  PROVE  /\ OneOwner(s, g, m) <=> OneOwner(t, h, m)
         /\ NoOwner(s, g, m) <=> NoOwner(t, h, m)
BY DEF OneOwner, NoOwner

(* What held the same before holds the same after. *)
LEMMA SameReferences ==
  ASSUME RInv, UNCHANGED references
  PROVE  RInv'
BY DEF RInv, RefsType, FreeSlotsEmpty, Counted, Owned, references

(* The frame on top is replaced. *)
LEMMA LocalChanged ==
  ASSUME RInv, Len(localReferenceStack) > 0, NEW f \in ReferenceFrame, FreeListSound(f),
         ChangeLocal(f)
  PROVE  LET n == Len(localReferenceStack)
         IN  /\ n \in DOMAIN localReferenceStack
             /\ Last(localReferenceStack) = localReferenceStack[n]
             /\ localReferenceStack' \in Seq(ReferenceFrame)
             /\ Len(localReferenceStack') = n
             /\ DOMAIN localReferenceStack' = DOMAIN localReferenceStack
             /\ localReferenceStack'[n] = f
             /\ \A i \in DOMAIN localReferenceStack :
                  /\ i # n => localReferenceStack'[i] = localReferenceStack[i]
                  /\ FreeListSound(localReferenceStack'[i])
             /\ \A o : /\ Held(localReferenceStack, o) \in Nat
                       /\ HeldBy(Last(localReferenceStack), o) \in Nat
                       /\ HeldBy(f, o) \in Nat
                       /\ Held(localReferenceStack', o)
                            = Held(localReferenceStack, o)
                              - HeldBy(Last(localReferenceStack), o) + HeldBy(f, o)
<1> DEFINE s == localReferenceStack
           t == localReferenceStack'
           n == Len(localReferenceStack)
<1>1. s \in Seq(ReferenceFrame) /\ \A i \in DOMAIN s : FreeListSound(s[i])
  BY DEF RInv, RefsType, FreeSlotsEmpty
<1>2. t = [s EXCEPT ![n] = f]
  BY DEF ChangeLocal
<1>3. /\ n \in DOMAIN s /\ t \in Seq(ReferenceFrame) /\ Len(t) = n /\ DOMAIN t = DOMAIN s
      /\ t[n] = f /\ \A i \in DOMAIN s : i # n => t[i] = s[i]
      /\ Last(s) = s[n]
  BY <1>1, <1>2 DEF Last
<1>4. \A i \in DOMAIN s : FreeListSound(t[i])
  BY <1>1, <1>3
<1>5. ASSUME NEW o
      PROVE  /\ Held(s, o) \in Nat /\ HeldBy(Last(s), o) \in Nat /\ HeldBy(f, o) \in Nat
             /\ Held(t, o) = Held(s, o) - HeldBy(Last(s), o) + HeldBy(f, o)
  <2> HIDE DEF s, t
  <2>1. /\ Front(s) \in Seq(ReferenceFrame) /\ Last(s) \in ReferenceFrame
        /\ s = Append(Front(s), Last(s)) /\ t = Append(Front(s), f)
    <3>1. Len(s) > 0 /\ Len(s) = n
      BY DEF s
    <3>2. QED
      BY <1>1, <1>2, <3>1, FrontAndLast
  <2> DEFINE r == Front(s)
             l == Last(s)
  <2> HIDE DEF r, l
  <2>2. r \in Seq(ReferenceFrame) /\ l \in ReferenceFrame /\ s = Append(r, l) /\ t = Append(r, f)
    BY <2>1 DEF r, l
  <2>3. /\ Held(s, o) = Held(r, o) + HeldBy(l, o) /\ HeldBy(l, o) \in Nat
    BY <2>2, HeldAppend, Zenon
  <2>4. /\ Held(t, o) = Held(r, o) + HeldBy(f, o) /\ HeldBy(f, o) \in Nat
    BY <2>2, HeldAppend, Zenon
  <2>5. Held(r, o) \in Nat
    BY <2>2, HeldFinite
  <2>6. QED
    BY <2>3, <2>4, <2>5 DEF l
<1>6. QED
  BY <1>3, <1>4, <1>5

(* An operation on the frame on top changes counts as it changes what that holds. *)
LEMMA LocalCounted ==
  ASSUME RInv, Len(localReferenceStack) > 0, NEW g \in ReferenceFrame, FreeListSound(g),
         g.specials = Last(localReferenceStack).specials, ChangeLocal(g),
         counted' \in [Objects -> Int],
         \A p \in Objects :
           counted'[p] = counted[p] + HeldBy(g, p) - HeldBy(Last(localReferenceStack), p),
         UNCHANGED <<stackCapacity, globalReferences, lost, modules>>
  PROVE  RInv' /\ Len(localReferenceStack') = Len(localReferenceStack)
<1> DEFINE f == Last(localReferenceStack)
           n == Len(localReferenceStack)
<1> HIDE DEF f, n
<1>1. /\ n \in DOMAIN localReferenceStack /\ f = localReferenceStack[n]
      /\ localReferenceStack' \in Seq(ReferenceFrame) /\ Len(localReferenceStack') = n
      /\ DOMAIN localReferenceStack' = DOMAIN localReferenceStack
      /\ localReferenceStack'[n] = g
      /\ \A i \in DOMAIN localReferenceStack :
           /\ i # n => localReferenceStack'[i] = localReferenceStack[i]
           /\ FreeListSound(localReferenceStack'[i])
      /\ \A p : /\ Held(localReferenceStack, p) \in Nat /\ HeldBy(f, p) \in Nat
                /\ HeldBy(g, p) \in Nat
                /\ Held(localReferenceStack', p)
                     = Held(localReferenceStack, p) - HeldBy(f, p) + HeldBy(g, p)
  BY LocalChanged DEF n, f
<1>2. RefsType'
  BY <1>1 DEF RInv, RefsType
<1>3. FreeSlotsEmpty'
  BY <1>1 DEF RInv, FreeSlotsEmpty
<1>4. Counted'
  <2> SUFFICES ASSUME NEW p \in Objects
               PROVE  counted'[p] + lost'[p]
                        = Held(localReferenceStack', p) + HeldBy(globalReferences', p)
    BY DEF Counted
  <2>1. counted'[p] = counted[p] + HeldBy(g, p) - HeldBy(f, p) /\ lost'[p] = lost[p]
    BY DEF f
  <2>2. counted[p] + lost[p] = Held(localReferenceStack, p) + HeldBy(globalReferences, p)
    BY DEF RInv, Counted
  <2>3. counted[p] \in Int /\ lost[p] \in Nat
    BY DEF RInv, RefsType
  <2>4. HeldBy(globalReferences', p) = HeldBy(globalReferences, p)
        /\ HeldBy(globalReferences, p) \in Nat
    BY FrameFields, TimesType DEF RInv, RefsType, HeldBy
  <2>5. QED
    BY <1>1, <2>1, <2>2, <2>3, <2>4
<1>5. Owned'
  <2>1. \A m : \A i \in DOMAIN localReferenceStack :
          Keeps(localReferenceStack[i], m) <=> Keeps(localReferenceStack'[i], m)
    BY <1>1 DEF Keeps, f
  <2>2. \A m : /\ OneOwner(localReferenceStack, globalReferences, m)
                    => OneOwner(localReferenceStack', globalReferences', m)
               /\ NoOwner(localReferenceStack, globalReferences, m)
                    => NoOwner(localReferenceStack', globalReferences', m)
    BY <1>1, <2>1, OwnersSame
  <2>3. QED
    BY <2>2 DEF RInv, Owned
<1>6. QED
  BY <1>1, <1>2, <1>3, <1>4, <1>5 DEF RInv, n

(* The same of the frame of global references. *)
LEMMA GlobalCounted ==
  ASSUME RInv, globalReferences' \in ReferenceFrame, FreeListSound(globalReferences'),
         globalReferences'.specials = globalReferences.specials,
         counted' \in [Objects -> Int],
         \A p \in Objects :
           counted'[p] = counted[p] + HeldBy(globalReferences', p) - HeldBy(globalReferences, p),
         UNCHANGED <<localReferenceStack, stackCapacity, lost, modules>>
  PROVE  RInv'
<1>1. RefsType' /\ FreeSlotsEmpty'
  BY DEF RInv, RefsType, FreeSlotsEmpty
<1>2. Counted'
  <2> SUFFICES ASSUME NEW p \in Objects
               PROVE  counted'[p] + lost'[p]
                        = Held(localReferenceStack', p) + HeldBy(globalReferences', p)
    BY DEF Counted
  <2>1. counted'[p] = counted[p] + HeldBy(globalReferences', p) - HeldBy(globalReferences, p)
        /\ lost'[p] = lost[p] /\ Held(localReferenceStack', p) = Held(localReferenceStack, p)
    OBVIOUS
  <2>2. counted[p] + lost[p] = Held(localReferenceStack, p) + HeldBy(globalReferences, p)
    BY DEF RInv, Counted
  <2>3. counted[p] \in Int /\ lost[p] \in Nat
    BY DEF RInv, RefsType
  <2>4. HeldBy(globalReferences', p) \in Nat /\ HeldBy(globalReferences, p) \in Nat
    BY FrameFields, TimesType DEF RInv, RefsType, HeldBy
  <2>5. Held(localReferenceStack, p) \in Nat
    BY HeldFinite DEF RInv, RefsType
  <2>6. QED
    BY <2>1, <2>2, <2>3, <2>4, <2>5
<1>3. Owned'
  <2>1. \A m : Keeps(globalReferences, m) <=> Keeps(globalReferences', m)
    BY DEF Keeps
  <2>2. \A m : /\ OneOwner(localReferenceStack, globalReferences, m)
                    => OneOwner(localReferenceStack', globalReferences', m)
               /\ NoOwner(localReferenceStack, globalReferences, m)
                    => NoOwner(localReferenceStack', globalReferences', m)
    BY <2>1 DEF OneOwner, NoOwner
  <2>3. QED
    BY <2>2 DEF RInv, Owned
<1>4. QED
  BY <1>1, <1>2, <1>3 DEF RInv

(* The frame on top is one of the frames. *)
LEMMA TopFrame ==
  ASSUME RInv, Len(localReferenceStack) > 0
  PROVE  /\ Last(localReferenceStack) = localReferenceStack[Len(localReferenceStack)]
         /\ Len(localReferenceStack) \in DOMAIN localReferenceStack
         /\ Last(localReferenceStack) \in ReferenceFrame
         /\ FreeListSound(Last(localReferenceStack))
         /\ \A p : HeldBy(Last(localReferenceStack), p) \in Nat
<1>1. /\ Last(localReferenceStack) = localReferenceStack[Len(localReferenceStack)]
      /\ Len(localReferenceStack) \in DOMAIN localReferenceStack
      /\ Last(localReferenceStack) \in ReferenceFrame
      /\ FreeListSound(Last(localReferenceStack))
  BY DEF RInv, RefsType, FreeSlotsEmpty, Last
<1>2. QED
  BY <1>1, FrameFields, TimesType DEF HeldBy

(* A local reference is created. *)
LEMMA CreateLocalStep ==
  ASSUME RInv, state = "run", Len(localReferenceStack) > 0, NEW o \in Objects \cup {Null},
         CreateLocal(o)
  PROVE  RInv' /\ Aside /\ Len(localReferenceStack') = Len(localReferenceStack)
<1>1. CASE o = Null
  BY <1>1, SameReferences DEF CreateLocal, Aside, references
<1>2. CASE o # Null
  <2> DEFINE f == Last(localReferenceStack)
             g == CreateReference(f, o)
  <2>1. /\ o \in Objects /\ ChangeLocal(g) /\ counted' = [counted EXCEPT ![o] = @ + 1]
        /\ UNCHANGED <<stackCapacity, globalReferences, lost, modules, state>>
    BY <1>2 DEF CreateLocal
  <2>2. /\ g \in ReferenceFrame /\ FreeListSound(g) /\ g.specials = f.specials
        /\ \A p \in Objects : HeldBy(g, p) = HeldBy(f, p) + Same(p, o) /\ HeldBy(f, p) \in Nat
    BY <2>1, TopFrame, ReferenceCreated
  <2>3. counted' \in [Objects -> Int]
    BY <2>1 DEF RInv, RefsType
  <2> HIDE DEF g
  <2>4. \A p \in Objects : counted'[p] = counted[p] + HeldBy(g, p) - HeldBy(f, p)
    <3> SUFFICES ASSUME NEW p \in Objects
                 PROVE  counted'[p] = counted[p] + HeldBy(g, p) - HeldBy(f, p)
      OBVIOUS
    <3>1. counted'[p] = counted[p] + Same(p, o) /\ counted[p] \in Int /\ Same(p, o) \in Nat
      BY <2>1 DEF RInv, RefsType, Same
    <3>2. QED
      BY <2>2, <3>1
  <2>5. QED
    BY <2>1, <2>2, <2>3, <2>4, LocalCounted DEF Aside
<1>3. QED
  BY <1>1, <1>2

(* The count of what a handle refers to is taken back, if it refers to anything. *)
LEMMA CountTakenBack ==
  ASSUME RInv, NEW f \in ReferenceFrame, FreeListSound(f), NEW h \in Nat,
         counted' = CountedWithout(f, h)
  PROVE  LET g == RemoveReference(f, h)
         IN  /\ g \in ReferenceFrame /\ FreeListSound(g) /\ g.specials = f.specials
             /\ counted' \in [Objects -> Int]
             /\ \A p \in Objects : counted'[p] = counted[p] + HeldBy(g, p) - HeldBy(f, p)
<1> DEFINE g == RemoveReference(f, h)
<1>1. /\ g \in ReferenceFrame /\ FreeListSound(g) /\ g.specials = f.specials
      /\ Refers(f, h) =>
           /\ f.objects[h] \in Objects
           /\ \A p \in Objects : HeldBy(g, p) = HeldBy(f, p) - Same(p, f.objects[h])
      /\ ~Refers(f, h) => g = f
  BY ReferenceRemoved
<1>2. \A p \in Objects : HeldBy(f, p) \in Nat
  BY FrameFields, TimesType DEF HeldBy
<1>3. counted \in [Objects -> Int]
  BY DEF RInv, RefsType
<1> HIDE DEF g
<1>4. CASE Refers(f, h)
  <2>1. counted' = [counted EXCEPT ![f.objects[h]] = @ - 1]
    BY <1>4 DEF CountedWithout
  <2>2. counted' \in [Objects -> Int]
    BY <1>1, <1>3, <1>4, <2>1
  <2>3. ASSUME NEW p \in Objects
        PROVE  counted'[p] = counted[p] + HeldBy(g, p) - HeldBy(f, p)
    <3>1. counted'[p] = counted[p] - Same(p, f.objects[h]) /\ counted[p] \in Int
          /\ Same(p, f.objects[h]) \in Nat
      BY <1>1, <1>3, <1>4, <2>1 DEF Same
    <3>2. QED
      BY <1>1, <1>2, <1>4, <3>1
  <2>4. QED
    BY <1>1, <2>2, <2>3 DEF g
<1>5. CASE ~Refers(f, h)
  <2>1. counted' = counted /\ g = f
    BY <1>1, <1>5 DEF CountedWithout
  <2>2. QED
    BY <1>1, <1>2, <1>3, <2>1 DEF g
<1>6. QED
  BY <1>4, <1>5

LEMMA DeleteLocalStep ==
  ASSUME RInv, state = "run", Len(localReferenceStack) > 0, NEW h \in Nat, DeleteLocalRef(h)
  PROVE  RInv' /\ Aside /\ Len(localReferenceStack') = Len(localReferenceStack)
<1> DEFINE f == Last(localReferenceStack)
           g == RemoveReference(f, h)
<1>1. /\ ChangeLocal(g) /\ counted' = CountedWithout(f, h)
      /\ UNCHANGED <<stackCapacity, globalReferences, lost, modules, state>>
  BY DEF DeleteLocalRef
<1>2. /\ g \in ReferenceFrame /\ FreeListSound(g) /\ g.specials = f.specials
      /\ counted' \in [Objects -> Int]
      /\ \A p \in Objects : counted'[p] = counted[p] + HeldBy(g, p) - HeldBy(f, p)
  BY <1>1, TopFrame, CountTakenBack
<1> HIDE DEF g
<1>3. QED
  BY <1>1, <1>2, LocalCounted DEF Aside

LEMMA CreateGlobalStep ==
  ASSUME RInv, state = "run", NEW o \in Objects, CreateGlobalRef(o)
  PROVE  RInv' /\ Aside /\ UNCHANGED localReferenceStack
<1> DEFINE f == globalReferences
           g == CreateReference(f, o)
<1>1. /\ globalReferences' = g /\ counted' = [counted EXCEPT ![o] = @ + 1]
      /\ UNCHANGED <<localReferenceStack, stackCapacity, lost, modules, state>>
  BY DEF CreateGlobalRef
<1>2. f \in ReferenceFrame /\ FreeListSound(f)
  BY DEF RInv, RefsType, FreeSlotsEmpty
<1>3. /\ g \in ReferenceFrame /\ FreeListSound(g) /\ g.specials = f.specials
      /\ \A p \in Objects : HeldBy(g, p) = HeldBy(f, p) + Same(p, o) /\ HeldBy(f, p) \in Nat
  BY <1>2, ReferenceCreated, FrameFields, TimesType DEF HeldBy
<1>4. counted' \in [Objects -> Int]
  BY <1>1 DEF RInv, RefsType
<1> HIDE DEF g
<1>5. \A p \in Objects : counted'[p] = counted[p] + HeldBy(g, p) - HeldBy(f, p)
  <2> SUFFICES ASSUME NEW p \in Objects
               PROVE  counted'[p] = counted[p] + HeldBy(g, p) - HeldBy(f, p)
    OBVIOUS
  <2>1. counted'[p] = counted[p] + Same(p, o) /\ counted[p] \in Int /\ Same(p, o) \in Nat
    BY <1>1 DEF RInv, RefsType, Same
  <2>2. QED
    BY <1>3, <2>1
<1>6. QED
  BY <1>1, <1>3, <1>4, <1>5, GlobalCounted DEF Aside

LEMMA DeleteGlobalStep ==
  ASSUME RInv, state = "run", NEW h \in Nat, DeleteGlobalRef(h)
  PROVE  RInv' /\ Aside /\ UNCHANGED localReferenceStack
<1> DEFINE f == globalReferences
           g == RemoveReference(f, h)
<1>1. /\ globalReferences' = g /\ counted' = CountedWithout(f, h)
      /\ UNCHANGED <<localReferenceStack, stackCapacity, lost, modules, state>>
  BY DEF DeleteGlobalRef
<1>2. f \in ReferenceFrame /\ FreeListSound(f)
  BY DEF RInv, RefsType, FreeSlotsEmpty
<1>3. /\ g \in ReferenceFrame /\ FreeListSound(g) /\ g.specials = f.specials
      /\ counted' \in [Objects -> Int]
      /\ \A p \in Objects : counted'[p] = counted[p] + HeldBy(g, p) - HeldBy(f, p)
  BY <1>1, <1>2, CountTakenBack
<1> HIDE DEF g
<1>4. QED
  BY <1>1, <1>3, GlobalCounted DEF Aside

(* A frame is pushed; a stack that grows destroys the frames it had. *)
LEMMA PushFrameStep ==
  ASSUME RInv, NEW f \in ReferenceFrame, FreeListSound(f), f.specials = <<>>, PushFrame(f)
  PROVE  RInv' /\ Aside /\ Len(localReferenceStack') = Len(localReferenceStack) + 1
<1> DEFINE s == localReferenceStack
           grows == Len(s) = stackCapacity
           old == IF grows THEN s ELSE <<>>
           kept == IF grows THEN [i \in DOMAIN old |-> CopyOf(old[i])] ELSE s
           t == Append(kept, f)
           n == Len(s)
<1>1. /\ localReferenceStack' = t
      /\ stackCapacity' = IF grows THEN Grown(stackCapacity) ELSE stackCapacity
      /\ counted' = [o \in Objects |-> counted[o] - Held(old, o) + Held(<<f>>, o)]
      /\ lost' = [o \in Objects |-> lost[o] + Held(old, o)]
      /\ Delete(Specials(old), modules)
      /\ UNCHANGED globalReferences
  BY DEF PushFrame
<1>2. /\ s \in Seq(ReferenceFrame) /\ DOMAIN s = 1..n /\ n \in Nat
      /\ \A i \in DOMAIN s : FreeListSound(s[i])
  BY DEF RInv, RefsType, FreeSlotsEmpty
<1>3. /\ kept \in Seq(ReferenceFrame) /\ Len(kept) = n /\ DOMAIN kept = DOMAIN s
      /\ \A i \in DOMAIN s : /\ kept[i].objects = s[i].objects
                             /\ kept[i].freeList = s[i].freeList
                             /\ kept[i].specials = s[i].specials
  <2>1. CASE grows
    <3>1. kept = [i \in 1..n |-> CopyOf(s[i])]
      BY <1>2, <2>1
    <3>2. \A i \in 1..n : s[i] \in ReferenceFrame
      BY <1>2
    <3>3. \A i \in 1..n : /\ CopyOf(s[i]) \in ReferenceFrame
                          /\ CopyOf(s[i]).objects = s[i].objects
                          /\ CopyOf(s[i]).freeList = s[i].freeList
                          /\ CopyOf(s[i]).specials = s[i].specials
      BY <3>2, FrameCopied
    <3> HIDE DEF kept
    <3>4. QED
      BY <1>2, <3>1, <3>3
  <2>2. CASE ~grows
    BY <1>2, <2>2
  <2>3. QED
    BY <2>1, <2>2
<1>4. old \in Seq(ReferenceFrame) /\ \A i \in DOMAIN old : i \in DOMAIN s /\ old[i] = s[i]
  BY <1>2
<1>5. ~grows => old = <<>>
  OBVIOUS
<1>6. grows => old = s
  OBVIOUS
<1> HIDE DEF old, kept, s, grows
<1>7. /\ t \in Seq(ReferenceFrame) /\ Len(t) = n + 1 /\ DOMAIN t = 1..(n + 1) /\ t[n + 1] = f
      /\ \A i \in 1..n : t[i] = kept[i]
  BY <1>2, <1>3
<1> HIDE DEF t
<1>8. \A i \in 1..(n + 1) : i \in 1..n \/ i = n + 1
  BY <1>2
<1>9. ASSUME NEW o
      PROVE  /\ Held(old, o) \in Nat /\ Held(s, o) \in Nat /\ HeldBy(f, o) \in Nat
             /\ Held(<<f>>, o) = HeldBy(f, o)
             /\ Held(t, o) = Held(s, o) + HeldBy(f, o)
  <2>1. Held(old, o) \in Nat /\ Held(s, o) \in Nat
    BY <1>2, <1>4, HeldFinite
  <2>2. Held(kept, o) = Held(s, o)
    BY <1>3, HeldSame
  <2>3. /\ HeldBy(f, o) \in Nat
        /\ Held(t, o) = Held(kept, o) + HeldBy(f, o)
    BY <1>3, HeldAppend DEF t
  <2>4. Held(<<f>>, o) = HeldBy(f, o)
    <3>1. <<f>> = Append(<<>>, f) /\ <<>> \in Seq(ReferenceFrame)
      OBVIOUS
    <3>2. Held(Append(<<>>, f), o) = Held(<<>>, o) + HeldBy(f, o)
      BY <3>1, HeldAppend
    <3>3. QED
      BY <2>3, <3>1, <3>2, HeldNone
  <2>5. QED
    BY <2>1, <2>2, <2>3, <2>4
<1>10. RefsType'
  <2>1. Grown(stackCapacity) \in Nat
    BY DEF RInv, RefsType, Grown
  <2>2. counted' \in [Objects -> Int] /\ lost' \in [Objects -> Nat]
    <3>1. ASSUME NEW o \in Objects
          PROVE  /\ counted[o] - Held(old, o) + Held(<<f>>, o) \in Int
                 /\ lost[o] + Held(old, o) \in Nat
      <4>1. Held(old, o) \in Nat /\ Held(<<f>>, o) \in Nat
        BY <1>9
      <4>2. QED
        BY <4>1 DEF RInv, RefsType
    <3>2. QED
      BY <1>1, <3>1
  <2>3. modules' \in [Modules -> {"none", "linking", "made", "deleted"}]
    BY <1>1 DEF Delete, RInv, RefsType
  <2>4. QED
    BY <1>1, <1>7, <2>1, <2>2, <2>3 DEF RInv, RefsType
<1>11. FreeSlotsEmpty'
  <2>1. ASSUME NEW i \in 1..n PROVE FreeListSound(t[i])
    <3>1. FreeListSound(s[i]) /\ t[i].objects = s[i].objects /\ t[i].freeList = s[i].freeList
      BY <1>2, <1>3, <1>7
    <3>2. QED
      BY <3>1 DEF FreeListSound
  <2>2. QED
    BY <1>1, <1>7, <1>8, <2>1 DEF RInv, FreeSlotsEmpty
<1>12. Counted'
  <2> SUFFICES ASSUME NEW o \in Objects
               PROVE  counted'[o] + lost'[o]
                        = Held(localReferenceStack', o) + HeldBy(globalReferences', o)
    BY DEF Counted
  <2>1. counted'[o] = counted[o] - Held(old, o) + HeldBy(f, o)
        /\ lost'[o] = lost[o] + Held(old, o)
    BY <1>1, <1>9
  <2>2. counted[o] + lost[o] = Held(s, o) + HeldBy(globalReferences, o)
    BY DEF RInv, Counted, s
  <2>3. counted[o] \in Int /\ lost[o] \in Nat
    BY DEF RInv, RefsType
  <2>4. HeldBy(globalReferences', o) = HeldBy(globalReferences, o)
        /\ HeldBy(globalReferences, o) \in Nat
    BY <1>1, FrameFields, TimesType DEF RInv, RefsType, HeldBy
  <2>5. /\ Held(old, o) \in Nat /\ Held(s, o) \in Nat /\ HeldBy(f, o) \in Nat
        /\ Held(localReferenceStack', o) = Held(s, o) + HeldBy(f, o)
    BY <1>1, <1>9
  <2>6. counted'[o] + lost'[o] = counted[o] + lost[o] + HeldBy(f, o)
    BY <2>1, <2>3, <2>5
  <2>7. QED
    BY <2>2, <2>4, <2>5, <2>6
<1>13. ~ \E m : Keeps(f, m)
  BY DEF Keeps
<1>14. ASSUME NEW m \in Modules
       PROVE  modules'[m] = modules[m]
                \/ (modules'[m] = "deleted" /\ \E i \in DOMAIN s : Keeps(s[i], m))
  BY <1>1, <1>4, SpecialsAre DEF Delete, RInv, RefsType
<1>15. Owned'
  <2> SUFFICES ASSUME NEW m \in Modules
               PROVE  /\ modules'[m] \in {"none", "linking"} => NoOwner(t, globalReferences, m)
                      /\ modules'[m] = "made" => OneOwner(t, globalReferences, m)
    BY <1>1 DEF Owned
  <2>1. \A i \in 1..n : Keeps(t[i], m) <=> Keeps(s[i], m)
    BY <1>2, <1>3, <1>7 DEF Keeps
  <2>2. ~Keeps(t[n + 1], m)
    BY <1>7, <1>13
  <2>3. n + 1 \notin 1..n
    BY <1>2
  <2> DEFINE l == n + 1
  <2> HIDE DEF l, n
  <2>4. \A i \in DOMAIN t : i \in DOMAIN s \/ (i = l /\ ~Keeps(t[i], m))
    BY <1>2, <1>7, <1>8, <2>2 DEF l
  <2>5. \A i \in DOMAIN s : i \in DOMAIN t /\ i # l /\ (Keeps(t[i], m) <=> Keeps(s[i], m))
    <3>1. 1..n \subseteq 1..(n + 1)
      BY <1>2 DEF n
    <3>2. QED
      BY <1>2, <1>7, <2>1, <2>3, <3>1 DEF l
  <2>6. NoOwner(s, globalReferences, m) => NoOwner(t, globalReferences, m)
    BY <2>4, <2>5 DEF NoOwner
  <2>7. OneOwner(s, globalReferences, m) => OneOwner(t, globalReferences, m)
    BY <2>4, <2>5 DEF OneOwner
  <2>8. QED
    BY <1>14, <2>6, <2>7 DEF RInv, Owned, s
<1>16. Aside
  <2>1. state' \in {"run", "faulted"}
    BY <1>1 DEF Delete
  <2>2. ASSUME NEW m \in Modules, modules[m] = "linking" PROVE modules'[m] = "linking"
    BY <1>14, <2>2 DEF RInv, Owned, NoOwner, s
  <2>3. QED
    BY <2>1, <2>2 DEF Aside
<1>17. QED
  BY <1>1, <1>7, <1>10, <1>11, <1>12, <1>15, <1>16 DEF RInv, s

(* The frame on top is destroyed. *)
LEMMA PopFrameStep ==
  ASSUME RInv, Len(localReferenceStack) > 0, PopFrame
  PROVE  RInv' /\ Aside /\ Len(localReferenceStack') = Len(localReferenceStack) - 1
<1> DEFINE s == localReferenceStack
           f == Last(s)
           t == Front(s)
           n == Len(s)
<1>1. /\ localReferenceStack' = t
      /\ counted' = [o \in Objects |-> counted[o] - Held(<<f>>, o)]
      /\ Delete(Specials(<<f>>), modules)
      /\ UNCHANGED <<stackCapacity, globalReferences, lost>>
  BY DEF PopFrame
<1>2. /\ s \in Seq(ReferenceFrame) /\ DOMAIN s = 1..n /\ n \in Nat \ {0}
      /\ \A i \in DOMAIN s : FreeListSound(s[i])
  BY DEF RInv, RefsType, FreeSlotsEmpty
<1>3. f = s[n] /\ n \in DOMAIN s /\ f \in ReferenceFrame
  BY TopFrame
<1>4. /\ t \in Seq(ReferenceFrame) /\ Len(t) = n - 1 /\ DOMAIN t = 1..(n - 1)
      /\ \A i \in 1..(n - 1) : t[i] = s[i]
  <2> HIDE DEF s
  <2>1. n > 0
    BY <1>2
  <2>2. /\ t \in Seq(ReferenceFrame) /\ Len(t) = n - 1
        /\ \A i \in 1..(n - 1) : t[i] = s[i]
    BY <1>2, <2>1, FrontOf
  <2> HIDE DEF t, n
  <2>3. QED
    BY <2>2
<1>5. s = Append(t, f)
  BY <1>2, FrontAndLast
<1> HIDE DEF s, f, t, n
<1>6. ASSUME NEW o
      PROVE  /\ Held(t, o) \in Nat /\ HeldBy(f, o) \in Nat
             /\ Held(<<f>>, o) = HeldBy(f, o)
             /\ Held(s, o) = Held(t, o) + HeldBy(f, o)
  <2>1. Held(t, o) \in Nat
    BY <1>4, HeldFinite
  <2>2. HeldBy(f, o) \in Nat /\ Held(s, o) = Held(t, o) + HeldBy(f, o)
    BY <1>3, <1>4, <1>5, HeldAppend
  <2>3. Held(<<f>>, o) = HeldBy(f, o)
    <3>1. <<f>> = Append(<<>>, f) /\ <<>> \in Seq(ReferenceFrame)
      OBVIOUS
    <3>2. Held(Append(<<>>, f), o) = Held(<<>>, o) + HeldBy(f, o)
      BY <1>3, <3>1, HeldAppend
    <3>3. QED
      BY <2>2, <3>1, <3>2, HeldNone
  <2>4. QED
    BY <2>1, <2>2, <2>3
<1>7. RefsType'
  <2>1. counted' \in [Objects -> Int]
    <3>1. ASSUME NEW o \in Objects PROVE counted[o] - Held(<<f>>, o) \in Int
      <4>1. Held(<<f>>, o) \in Nat
        BY <1>6
      <4>2. QED
        BY <4>1 DEF RInv, RefsType
    <3>2. QED
      BY <1>1, <3>1
  <2>2. modules' \in [Modules -> {"none", "linking", "made", "deleted"}]
    BY <1>1 DEF Delete, RInv, RefsType
  <2>3. QED
    BY <1>1, <1>4, <2>1, <2>2 DEF RInv, RefsType
<1>8. \A i \in 1..(n - 1) : i \in 1..n /\ i # n
  BY <1>2
<1>9. \A i \in 1..n : i \in 1..(n - 1) \/ i = n
  BY <1>2
<1>10. FreeSlotsEmpty'
  BY <1>1, <1>2, <1>4, <1>8 DEF RInv, FreeSlotsEmpty
<1>11. Counted'
  <2> SUFFICES ASSUME NEW o \in Objects
               PROVE  counted'[o] + lost'[o]
                        = Held(localReferenceStack', o) + HeldBy(globalReferences', o)
    BY DEF Counted
  <2>1. counted'[o] = counted[o] - HeldBy(f, o) /\ lost'[o] = lost[o]
    BY <1>1, <1>6
  <2>2. counted[o] + lost[o] = Held(s, o) + HeldBy(globalReferences, o)
    BY DEF RInv, Counted, s
  <2>3. counted[o] \in Int /\ lost[o] \in Nat
    BY DEF RInv, RefsType
  <2>4. HeldBy(globalReferences', o) = HeldBy(globalReferences, o)
        /\ HeldBy(globalReferences, o) \in Nat
    BY <1>1, FrameFields, TimesType DEF RInv, RefsType, HeldBy
  <2>5. QED
    BY <1>1, <1>6, <2>1, <2>2, <2>3, <2>4, SMTT(60)
<1>12. ASSUME NEW m \in Modules
       PROVE  IF Keeps(f, m) THEN modules'[m] = "deleted" ELSE modules'[m] = modules[m]
  BY <1>1, SpecialsAre DEF Delete, RInv, RefsType
<1>13. Owned'
  <2> SUFFICES ASSUME NEW m \in Modules
               PROVE  /\ modules'[m] \in {"none", "linking"} => NoOwner(t, globalReferences, m)
                      /\ modules'[m] = "made" => OneOwner(t, globalReferences, m)
    BY <1>1 DEF Owned
  <2>1. CASE Keeps(f, m)
    BY <1>12, <2>1
  <2>2. CASE ~Keeps(f, m)
    <3>1. modules'[m] = modules[m]
      BY <1>12, <2>2
    <3>2. \A i \in DOMAIN s : i \in DOMAIN t \/ ~Keeps(s[i], m)
      BY <1>2, <1>3, <1>4, <1>9, <2>2
    <3>3. \A i \in DOMAIN t : i \in DOMAIN s /\ t[i] = s[i]
      BY <1>2, <1>4, <1>8
    <3>4. NoOwner(s, globalReferences, m) => NoOwner(t, globalReferences, m)
      BY <3>3 DEF NoOwner
    <3>5. OneOwner(s, globalReferences, m) => OneOwner(t, globalReferences, m)
      BY <3>2, <3>3 DEF OneOwner
    <3>6. QED
      BY <3>1, <3>4, <3>5 DEF RInv, Owned, s
  <2>3. QED
    BY <2>1, <2>2
<1>14. Aside
  <2>1. state' \in {"run", "faulted"}
    BY <1>1 DEF Delete
  <2>2. ASSUME NEW m \in Modules, modules[m] = "linking" PROVE modules'[m] = "linking"
    <3>1. ~Keeps(f, m)
      BY <1>3, <2>2 DEF RInv, Owned, NoOwner, s
    <3>2. QED
      BY <1>12, <2>2, <3>1
  <2>3. QED
    BY <2>1, <2>2 DEF Aside
<1>15. QED
  BY <1>1, <1>4, <1>7, <1>10, <1>11, <1>13, <1>14 DEF RInv, s, n

(* A module is kept in a frame, which may delete others as its specials grow. *)
LEMMA KeepModuleStep ==
  ASSUME RInv, Len(localReferenceStack) > 0, NEW m \in Modules,
         modules[m] \in {"none", "linking"}, NEW mode, KeepModule(m, mode)
  PROVE  /\ RInv'
         /\ Len(localReferenceStack') = Len(localReferenceStack)
         /\ state' \in {"run", "faulted"}
         /\ \A x \in Modules \ {m} : modules[x] = "linking" => modules'[x] = "linking"
<1> DEFINE s == localReferenceStack
           g == globalReferences
           f == IF mode = "local" THEN Last(s) ELSE g
           c == CreateSpecial(f, m)
           n == Len(s)
<1>1. /\ Delete(LostToGrowth(f), [modules EXCEPT ![m] = "made"])
      /\ IF mode = "local" THEN ChangeLocal(c) /\ UNCHANGED globalReferences
                           ELSE globalReferences' = c /\ UNCHANGED localReferenceStack
      /\ UNCHANGED <<stackCapacity, counted, lost>>
  BY DEF KeepModule
<1>2. /\ s \in Seq(ReferenceFrame) /\ g \in ReferenceFrame
      /\ FreeListSound(g) /\ \A i \in DOMAIN s : FreeListSound(s[i])
      /\ Last(s) = s[n] /\ n \in DOMAIN s /\ Last(s) \in ReferenceFrame
      /\ FreeListSound(Last(s))
  BY TopFrame DEF RInv, RefsType, FreeSlotsEmpty
<1>3. f \in ReferenceFrame /\ FreeListSound(f)
  BY <1>2
<1>4. /\ c \in ReferenceFrame /\ c.objects = f.objects /\ c.freeList = f.freeList
      /\ \A x : Keeps(c, x) <=> Keeps(f, x) \/ x = m
      /\ \A x \in LostToGrowth(f) : Keeps(f, x)
  BY <1>3, SpecialCreated
<1>5. FreeListSound(c)
  BY <1>3, <1>4 DEF FreeListSound
<1>6. \A o : HeldBy(c, o) = HeldBy(f, o)
  BY <1>4 DEF HeldBy
<1> HIDE DEF c
<1>7. CASE mode = "local"
  <2>1. f = Last(s) /\ ChangeLocal(c) /\ globalReferences' = g
    BY <1>1, <1>7
  <2> HIDE DEF f
  <2>2. /\ s' \in Seq(ReferenceFrame) /\ Len(s') = n /\ DOMAIN s' = DOMAIN s /\ s'[n] = c
        /\ \A i \in DOMAIN s : /\ i # n => s'[i] = s[i]
                               /\ FreeListSound(s'[i])
        /\ \A o : /\ Held(s, o) \in Nat /\ HeldBy(Last(s), o) \in Nat
                  /\ Held(s', o) = Held(s, o) - HeldBy(Last(s), o) + HeldBy(c, o)
    BY <1>4, <1>5, <2>1, LocalChanged
  <2>3. \A o : Held(s', o) = Held(s, o)
    BY <1>6, <2>1, <2>2
  <2>4. RefsType'
    BY <1>1, <2>1, <2>2 DEF RInv, RefsType, Delete
  <2>5. FreeSlotsEmpty'
    BY <1>2, <2>1, <2>2 DEF FreeSlotsEmpty
  <2>6. Counted'
    <3>1. \A o \in Objects : counted'[o] = counted[o] /\ lost'[o] = lost[o]
      BY <1>1
    <3>2. QED
      BY <2>1, <2>3, <3>1 DEF RInv, Counted
  <2>7. ASSUME NEW x \in Modules, x # m
        PROVE  modules'[x] = modules[x]
                 \/ (modules'[x] = "deleted" /\ Keeps(f, x))
    BY <1>1, <1>4, <2>7 DEF Delete, RInv, RefsType
  <2>8. NoOwner(s, g, m)
    BY DEF RInv, Owned
  <2>9. modules'[m] \in {"made", "deleted"}
    BY <1>1 DEF Delete, RInv, RefsType
  <2>10. ASSUME NEW x \in Modules
         PROVE  /\ modules'[x] \in {"none", "linking"} => NoOwner(s', g, x)
                /\ modules'[x] = "made" => OneOwner(s', g, x)
    <3>1. CASE x = m
      <4>1. \A i \in DOMAIN s : i # n => ~Keeps(s'[i], m)
        BY <2>2, <2>8 DEF NoOwner
      <4>2. Keeps(s'[n], m)
        BY <1>4, <2>2
      <4>3. ~Keeps(g, m)
        BY <2>8 DEF NoOwner
      <4>4. OneOwner(s', g, m)
        BY <1>2, <2>2, <4>1, <4>2, <4>3 DEF OneOwner
      <4>5. QED
        BY <2>9, <3>1, <4>4
    <3>2. CASE x # m
      <4>1. \A i \in DOMAIN s : Keeps(s[i], x) <=> Keeps(s'[i], x)
        <5>1. Keeps(s[n], x) <=> Keeps(s'[n], x)
          BY <1>2, <1>4, <2>1, <2>2, <3>2
        <5>2. QED
          BY <2>2, <5>1
      <4>2. /\ OneOwner(s, g, x) <=> OneOwner(s', g, x)
            /\ NoOwner(s, g, x) <=> NoOwner(s', g, x)
        BY <2>2, <4>1, OwnersSame
      <4>3. QED
        BY <2>7, <3>2, <4>2 DEF RInv, Owned
    <3>3. QED
      BY <3>1, <3>2
  <2>11. Owned'
    BY <2>1, <2>10 DEF Owned
  <2>12. ASSUME NEW x \in Modules \ {m}, modules[x] = "linking" PROVE modules'[x] = "linking"
    <3>1. ~Keeps(f, x)
      BY <1>2, <2>1, <2>12 DEF RInv, Owned, NoOwner
    <3>2. QED
      BY <2>7, <2>12, <3>1
  <2>13. state' \in {"run", "faulted"}
    BY <1>1 DEF Delete
  <2>14. QED
    BY <2>2, <2>4, <2>5, <2>6, <2>11, <2>12, <2>13 DEF RInv
<1>8. CASE mode # "local"
  <2>1. f = g /\ globalReferences' = c /\ s' = s
    BY <1>1, <1>8
  <2> HIDE DEF f
  <2>2. RefsType'
    BY <1>1, <1>2, <1>4, <2>1 DEF RInv, RefsType, Delete
  <2>3. FreeSlotsEmpty'
    BY <1>2, <1>5, <2>1 DEF FreeSlotsEmpty
  <2>4. Counted'
    <3>1. \A o \in Objects : counted'[o] = counted[o] /\ lost'[o] = lost[o]
      BY <1>1
    <3>2. \A o : HeldBy(globalReferences', o) = HeldBy(globalReferences, o)
      BY <1>6, <2>1
    <3>3. QED
      BY <2>1, <3>1, <3>2 DEF RInv, Counted
  <2>5. ASSUME NEW x \in Modules, x # m
        PROVE  modules'[x] = modules[x]
                 \/ (modules'[x] = "deleted" /\ Keeps(g, x))
    BY <1>1, <1>4, <2>1, <2>5 DEF Delete, RInv, RefsType
  <2>6. NoOwner(s, g, m)
    BY DEF RInv, Owned
  <2>7. modules'[m] \in {"made", "deleted"}
    BY <1>1 DEF Delete, RInv, RefsType
  <2>8. ASSUME NEW x \in Modules
        PROVE  /\ modules'[x] \in {"none", "linking"} => NoOwner(s, c, x)
               /\ modules'[x] = "made" => OneOwner(s, c, x)
    <3>1. CASE x = m
      <4>1. OneOwner(s, c, m)
        BY <1>4, <2>6 DEF OneOwner, NoOwner
      <4>2. QED
        BY <2>7, <3>1, <4>1
    <3>2. CASE x # m
      <4>1. Keeps(g, x) <=> Keeps(c, x)
        BY <1>4, <2>1, <3>2
      <4>2. /\ OneOwner(s, g, x) <=> OneOwner(s, c, x)
            /\ NoOwner(s, g, x) <=> NoOwner(s, c, x)
        BY <4>1 DEF OneOwner, NoOwner
      <4>3. QED
        BY <2>5, <3>2, <4>2 DEF RInv, Owned
    <3>3. QED
      BY <3>1, <3>2
  <2>9. Owned'
    BY <2>1, <2>8 DEF Owned
  <2>10. ASSUME NEW x \in Modules \ {m}, modules[x] = "linking" PROVE modules'[x] = "linking"
    <3>1. ~Keeps(g, x)
      BY <2>10 DEF RInv, Owned, NoOwner
    <3>2. QED
      BY <2>5, <2>10, <3>1
  <2>11. state' \in {"run", "faulted"}
    BY <1>1 DEF Delete
  <2>12. QED
    BY <2>1, <2>2, <2>3, <2>4, <2>9, <2>10, <2>11 DEF RInv
<1>9. QED
  BY <1>7, <1>8

(* The #LinkInit of a module is called: nothing keeps it yet. *)
LEMMA LinkingStep ==
  ASSUME RInv, NEW m \in Modules, modules[m] = "none",
         modules' = [modules EXCEPT ![m] = "linking"],
         UNCHANGED <<localReferenceStack, stackCapacity, globalReferences, counted, lost>>
  PROVE  RInv'
<1>1. RefsType' /\ FreeSlotsEmpty' /\ Counted'
  BY DEF RInv, RefsType, FreeSlotsEmpty, Counted
<1>2. Owned'
  BY DEF RInv, RefsType, Owned
<1>3. QED
  BY <1>1, <1>2 DEF RInv

-------------------------------------------------------------------------------
(* The local frames that the native functions in progress own, and the modules *)
(* whose #LinkInit they wait for.                                              *)

CallsType ==
  /\ frames \in Seq(0..StackSize)
  /\ natives \in Seq(Activations)
  /\ state \in {"run", "exited", "faulted"}

(* A native function owns the frame it was called with and those it pushed. *)
OwedBy(s) == { slot \in (DOMAIN s) \X Nat : slot[2] <= s[slot[1]].pushed }

FramesOwed ==
  /\ IsFiniteSet(OwedBy(natives))
  /\ Len(localReferenceStack) = Cardinality(OwedBy(natives))

(* Each #LinkInit that is waited for is that of a module that is linking, and *)
(* nobody else waits for it.                                                  *)
Linking ==
  /\ \A k \in 1..Len(natives) :
       natives[k].call.module # Null => modules[natives[k].call.module] = "linking"
  /\ \A j, k \in 1..Len(natives) :
       natives[j].call.module # Null /\ natives[j].call.module = natives[k].call.module => j = k

HInv == IInv /\ RInv /\ CallsType /\ FramesOwed /\ Linking

LEMMA OwedAre ==
  ASSUME NEW s
  PROVE  /\ \A k, j : <<k, j>> \in OwedBy(s) <=> k \in DOMAIN s /\ j \in Nat /\ j <= s[k].pushed
         /\ \A slot \in OwedBy(s) : slot = <<slot[1], slot[2]>>
BY DEF OwedBy

(* t owns one frame more than s. *)
OwesMore(s, t, x, y) ==
  /\ <<x, y>> \notin OwedBy(s)
  /\ \A k, j : <<k, j>> \in OwedBy(t) <=> <<k, j>> \in OwedBy(s) \/ (k = x /\ j = y)

LEMMA OwedExtended ==
  ASSUME NEW s, NEW t, NEW x, NEW y, OwesMore(s, t, x, y)
  PROVE  /\ <<x, y>> \in OwedBy(t) /\ <<x, y>> \notin OwedBy(s)
         /\ OwedBy(t) = OwedBy(s) \cup {<<x, y>>} /\ OwedBy(s) = OwedBy(t) \ {<<x, y>>}
<1> USE DEF OwesMore
<1>1. \A slot \in OwedBy(t) : slot = <<slot[1], slot[2]>>
  BY OwedAre
<1>2. \A slot \in OwedBy(s) : slot = <<slot[1], slot[2]>>
  BY OwedAre
<1>3. <<x, y>> \in OwedBy(t)
  OBVIOUS
<1>4. OwedBy(t) \subseteq OwedBy(s) \cup {<<x, y>>}
  <2>1. SUFFICES ASSUME NEW slot \in OwedBy(t)
                 PROVE  slot \in OwedBy(s) \/ slot = <<x, y>>
    OBVIOUS
  <2>2. slot = <<slot[1], slot[2]>>
    BY <1>1
  <2>3. <<slot[1], slot[2]>> \in OwedBy(s) \/ (slot[1] = x /\ slot[2] = y)
    BY <2>1, <2>2
  <2>4. QED
    BY <2>2, <2>3
<1>5. OwedBy(s) \subseteq OwedBy(t)
  <2>1. SUFFICES ASSUME NEW slot \in OwedBy(s)
                 PROVE  slot \in OwedBy(t)
    OBVIOUS
  <2>2. slot = <<slot[1], slot[2]>>
    BY <1>2
  <2>3. QED
    BY <2>1, <2>2
<1>6. QED
  BY <1>3, <1>4, <1>5

(* One more frame is owed, and there is one more. *)
LEMMA OneMoreOwed ==
  ASSUME FramesOwed, NEW x, NEW y, OwesMore(natives, natives', x, y),
         Len(localReferenceStack') = Len(localReferenceStack) + 1
  PROVE  FramesOwed'
<1>1. OwedBy(natives') = OwedBy(natives) \cup {<<x, y>>} /\ <<x, y>> \notin OwedBy(natives)
  BY OwedExtended
<1> DEFINE A == OwedBy(natives)
           e == <<x, y>>
<1>2. IsFiniteSet(A) /\ e \notin A
  BY <1>1 DEF FramesOwed
<1> HIDE DEF A, e
<1>3. IsFiniteSet(A \cup {e}) /\ Cardinality(A \cup {e}) = Cardinality(A) + 1
  BY <1>2, FS_AddElement
<1>4. QED
  BY <1>1, <1>3 DEF FramesOwed, A, e

(* One frame less is owed, and there is one less. *)
LEMMA OneLessOwed ==
  ASSUME FramesOwed, NEW x, NEW y, OwesMore(natives', natives, x, y),
         Len(localReferenceStack') = Len(localReferenceStack) - 1
  PROVE  FramesOwed'
<1>1. OwedBy(natives') = OwedBy(natives) \ {<<x, y>>} /\ <<x, y>> \in OwedBy(natives)
  BY OwedExtended
<1> DEFINE A == OwedBy(natives)
           e == <<x, y>>
<1>2. IsFiniteSet(A) /\ e \in A
  BY <1>1 DEF FramesOwed
<1> HIDE DEF A, e
<1>3. IsFiniteSet(A \ {e}) /\ Cardinality(A \ {e}) = Cardinality(A) - 1
  BY <1>2, FS_RemoveElement
<1>4. QED
  BY <1>1, <1>3 DEF FramesOwed, A, e

LEMMA SameOwed ==
  ASSUME FramesOwed, DOMAIN natives' = DOMAIN natives,
         \A k \in DOMAIN natives : natives'[k].pushed = natives[k].pushed,
         Len(localReferenceStack') = Len(localReferenceStack)
  PROVE  FramesOwed'
<1>1. OwedBy(natives') = OwedBy(natives)
  BY DEF OwedBy
<1>2. QED
  BY <1>1 DEF FramesOwed

(* A native function in progress has a frame. *)
LEMMA HasFrame ==
  ASSUME CallsType, FramesOwed, natives # <<>>
  PROVE  Len(localReferenceStack) > 0
<1> DEFINE n == Len(natives)
           A == OwedBy(natives)
<1>1. n \in DOMAIN natives /\ natives[n] \in Activations
  BY DEF CallsType
<1>2. natives[n].pushed \in Nat
  BY <1>1 DEF Activations
<1>3. <<n, 0>> \in A
  BY <1>1, <1>2, OwedAre
<1>4. IsFiniteSet(A)
  BY DEF FramesOwed
<1> HIDE DEF A
<1>5. Cardinality(A) # 0 /\ Cardinality(A) \in Nat
  BY <1>3, <1>4, FS_EmptySet, FS_CardinalityType
<1>6. QED
  BY <1>5 DEF FramesOwed, A

(* What is waited for before is waited for after, if it is waited for at all. *)
LEMMA LinkingKept ==
  ASSUME Linking, Len(natives) \in Nat, Len(natives') \in Nat, Len(natives') <= Len(natives),
         \A k \in 1..Len(natives') :
           /\ natives'[k].call.module \in {natives[k].call.module, Null}
           /\ natives'[k].call.module # Null => modules'[natives'[k].call.module] = "linking"
  PROVE  Linking'
<1>1. \A k \in 1..Len(natives') : k \in 1..Len(natives)
  OBVIOUS
<1>2. ASSUME NEW j \in 1..Len(natives'), NEW k \in 1..Len(natives'),
             natives'[j].call.module # Null, natives'[j].call.module = natives'[k].call.module
      PROVE  j = k
  <2>1. natives'[j].call.module = natives[j].call.module
        /\ natives'[k].call.module = natives[k].call.module
    BY <1>2
  <2>2. QED
    BY <1>1, <1>2, <2>1 DEF Linking
<1>3. QED
  BY <1>2 DEF Linking

(* A step that leaves the native functions alone, or shortens their list, and leaves *)
(* linking modules linking.                                                          *)
LEMMA LinkingAside ==
  ASSUME CallsType, RefsType, Linking, Len(natives') \in Nat, Len(natives') <= Len(natives),
         \A k \in 1..Len(natives') : natives'[k].call.module \in {natives[k].call.module, Null},
         \A m \in Modules : modules[m] = "linking" => modules'[m] = "linking"
  PROVE  Linking'
<1>1. Len(natives) \in Nat /\ \A k \in 1..Len(natives') : k \in 1..Len(natives)
  BY DEF CallsType
<1>2. \A k \in 1..Len(natives) :
        natives[k].call.module # Null =>
          natives[k].call.module \in Modules /\ modules[natives[k].call.module] = "linking"
  <2>1. \A k \in 1..Len(natives) : natives[k] \in Activations
    BY DEF CallsType
  <2>2. \A a \in Activations : a.call \in Calls
    BY DEF Activations
  <2>3. \A c \in Calls : c.module \in Modules \cup {Null}
    BY DEF Calls
  <2>4. QED
    BY <2>1, <2>2, <2>3 DEF Linking
<1>3. QED
  BY <1>1, <1>2, LinkingKept

(* One activation differs, by one pushed frame or by being there. *)
LEMMA OwesMoreAt ==
  ASSUME NEW s, NEW t, NEW x, NEW y \in Nat, x \in DOMAIN t, t[x].pushed = y,
         \A k : k # x => (k \in DOMAIN s <=> k \in DOMAIN t),
         \A k \in DOMAIN s : k # x => s[k].pushed = t[k].pushed,
         x \in DOMAIN s => s[x].pushed = y - 1,
         x \notin DOMAIN s => y = 0
  PROVE  OwesMore(s, t, x, y)
<1>1. <<x, y>> \notin OwedBy(s)
  BY OwedAre
<1>2. ASSUME NEW k, NEW j
      PROVE  <<k, j>> \in OwedBy(t) <=> <<k, j>> \in OwedBy(s) \/ (k = x /\ j = y)
  <2>1. /\ <<k, j>> \in OwedBy(t) <=> k \in DOMAIN t /\ j \in Nat /\ j <= t[k].pushed
        /\ <<k, j>> \in OwedBy(s) <=> k \in DOMAIN s /\ j \in Nat /\ j <= s[k].pushed
    BY OwedAre
  <2>2. CASE k # x
    BY <2>1, <2>2
  <2>3. CASE k = x /\ x \in DOMAIN s
    BY <2>1, <2>3
  <2>4. CASE k = x /\ x \notin DOMAIN s
    BY <2>1, <2>4
  <2>5. QED
    BY <2>2, <2>3, <2>4
<1>3. QED
  BY <1>1, <1>2 DEF OwesMore

LEMMA ActivationChanged ==
  ASSUME CallsType, natives # <<>>, NEW a \in Activations, ChangeCurrent(a)
  PROVE  /\ natives' \in Seq(Activations)
         /\ Len(natives') = Len(natives) /\ DOMAIN natives' = DOMAIN natives
         /\ DOMAIN natives = 1..Len(natives) /\ Len(natives) \in DOMAIN natives
         /\ natives'[Len(natives)] = a
         /\ \A k \in DOMAIN natives : k # Len(natives) => natives'[k] = natives[k]
         /\ Current = natives[Len(natives)] /\ Current \in Activations
BY DEF CallsType, ChangeCurrent, Current

LEMMA PushedMore ==
  ASSUME CallsType, FramesOwed, natives # <<>>, NEW a \in Activations, ChangeCurrent(a),
         a.pushed = Current.pushed + 1, Len(localReferenceStack') = Len(localReferenceStack) + 1
  PROVE  FramesOwed'
<1> DEFINE n == Len(natives)
<1>1. /\ DOMAIN natives' = DOMAIN natives /\ n \in DOMAIN natives
      /\ natives'[n] = a /\ Current = natives[n] /\ Current \in Activations
      /\ \A k \in DOMAIN natives : k # n => natives'[k] = natives[k]
  BY ActivationChanged
<1>2. Current.pushed \in Nat /\ a.pushed \in Nat
  BY <1>1 DEF Activations
<1>3. OwesMore(natives, natives', n, a.pushed)
  BY <1>1, <1>2, OwesMoreAt
<1>4. QED
  BY <1>3, OneMoreOwed

LEMMA PushedLess ==
  ASSUME CallsType, FramesOwed, natives # <<>>, NEW a \in Activations, ChangeCurrent(a),
         a.pushed = Current.pushed - 1, Len(localReferenceStack') = Len(localReferenceStack) - 1
  PROVE  FramesOwed'
<1> DEFINE n == Len(natives)
<1>1. /\ DOMAIN natives' = DOMAIN natives /\ n \in DOMAIN natives
      /\ natives'[n] = a /\ Current = natives[n] /\ Current \in Activations
      /\ \A k \in DOMAIN natives : k # n => natives'[k] = natives[k]
  BY ActivationChanged
<1>2. Current.pushed \in Nat /\ a.pushed \in Nat
  BY <1>1 DEF Activations
<1>3. OwesMore(natives', natives, n, Current.pushed)
  BY <1>1, <1>2, OwesMoreAt
<1>4. QED
  BY <1>3, OneLessOwed

(* The innermost native function changes in something else. *)
LEMMA PushedSame ==
  ASSUME CallsType, FramesOwed, natives # <<>>, NEW a \in Activations, ChangeCurrent(a),
         a.pushed = Current.pushed, Len(localReferenceStack') = Len(localReferenceStack)
  PROVE  FramesOwed'
<1>1. /\ DOMAIN natives' = DOMAIN natives
      /\ \A k \in DOMAIN natives : natives'[k].pushed = natives[k].pushed
  BY ActivationChanged
<1>2. QED
  BY <1>1, SameOwed

(* A native function is called: nobody's #LinkInit, and with one frame. *)
LEMMA ActivationAdded ==
  ASSUME CallsType, RefsType, FramesOwed, Linking, NEW a \in Activations,
         a.pushed = 0, a.call = NoCall, natives' = Append(natives, a), Aside,
         Len(localReferenceStack') = Len(localReferenceStack) + 1
  PROVE  natives' \in Seq(Activations) /\ FramesOwed' /\ Linking'
<1> DEFINE n == Len(natives) + 1
<1>1. /\ natives' \in Seq(Activations) /\ DOMAIN natives' = 1..n /\ DOMAIN natives = 1..(n - 1)
      /\ n \in Nat /\ Len(natives') = n /\ natives'[n] = a
      /\ \A k \in 1..(n - 1) : natives'[k] = natives[k]
  BY DEF CallsType
<1>2. FramesOwed'
  <2>1. OwesMore(natives, natives', n, 0)
    <3>1. /\ 0 \in Nat /\ n \in DOMAIN natives' /\ n \notin DOMAIN natives
          /\ \A k : k # n => (k \in DOMAIN natives <=> k \in DOMAIN natives')
          /\ \A k \in DOMAIN natives : k # n => natives[k].pushed = natives'[k].pushed
      BY <1>1
    <3> HIDE DEF n
    <3>2. natives'[n].pushed = 0
      BY <1>1
    <3>3. QED
      BY <3>1, <3>2, OwesMoreAt
  <2>2. QED
    BY <2>1, OneMoreOwed
<1>3. Linking'
  <2>1. natives'[n].call.module = Null
    BY <1>1 DEF NoCall, Call
  <2>2. \A k \in 1..n : k \in 1..(n - 1) \/ k = n
    BY <1>1
  <2>3. \A k \in 1..(n - 1) :
          /\ natives'[k].call.module = natives[k].call.module
          /\ natives[k].call.module # Null =>
               natives[k].call.module \in Modules /\ modules[natives[k].call.module] = "linking"
    <3>1. \A k \in 1..(n - 1) : natives[k] \in Activations
      BY <1>1 DEF CallsType
    <3>2. \A b \in Activations : b.call.module \in Modules \cup {Null}
      BY DEF Activations, Calls
    <3>3. QED
      BY <1>1, <3>1, <3>2 DEF Linking
  <2>4. ASSUME NEW k \in 1..n, natives'[k].call.module # Null
        PROVE  modules'[natives'[k].call.module] = "linking"
    BY <2>1, <2>2, <2>3, <2>4 DEF Aside
  <2>5. ASSUME NEW j \in 1..n, NEW k \in 1..n,
               natives'[j].call.module # Null, natives'[j].call.module = natives'[k].call.module
        PROVE  j = k
    <3>1. j \in 1..(n - 1) /\ k \in 1..(n - 1)
      BY <2>1, <2>2, <2>5
    <3>2. QED
      BY <1>1, <2>3, <2>5, <3>1 DEF Linking
  <2>6. QED
    BY <1>1, <2>4, <2>5 DEF Linking
<1>4. QED
  BY <1>1, <1>2, <1>3

(* A native function returns, with one frame. *)
LEMMA ActivationLeft ==
  ASSUME CallsType, RefsType, FramesOwed, Linking, natives # <<>>, Current.pushed = 0,
         natives' = Front(natives), Aside,
         Len(localReferenceStack') = Len(localReferenceStack) - 1
  PROVE  natives' \in Seq(Activations) /\ FramesOwed' /\ Linking'
<1> DEFINE n == Len(natives)
<1>1. n \in Nat /\ n > 0
  BY DEF CallsType
<1>2. /\ natives' \in Seq(Activations) /\ Len(natives') = n - 1
      /\ \A k \in 1..(n - 1) : natives'[k] = natives[k]
  BY <1>1, FrontOf DEF CallsType
<1>3. /\ DOMAIN natives' = 1..(n - 1) /\ DOMAIN natives = 1..n /\ n \in DOMAIN natives
      /\ n \notin DOMAIN natives'
  BY <1>1, <1>2 DEF CallsType
<1>4. FramesOwed'
  <2>1. /\ 0 \in Nat /\ natives[n].pushed = 0
        /\ \A k : k # n => (k \in DOMAIN natives' <=> k \in DOMAIN natives)
        /\ \A k \in DOMAIN natives' : k # n => natives'[k].pushed = natives[k].pushed
    BY <1>1, <1>2, <1>3 DEF Current
  <2> HIDE DEF n
  <2>2. OwesMore(natives', natives, n, 0)
    BY <1>3, <2>1, OwesMoreAt
  <2>3. QED
    BY <2>2, OneLessOwed
<1>5. Linking'
  BY <1>1, <1>2, LinkingAside DEF Aside
<1>6. QED
  BY <1>2, <1>4, <1>5

-------------------------------------------------------------------------------
(* The numbers of operands.                                                *)

(* Frames are changed by writing one of them, adding one or leaving one. *)
LEMMA OperandsKept ==
  ASSUME NEW s \in Seq(0..StackSize), NEW i \in 1..Len(s), NEW d \in Int,
         s[i] + d \in 0..StackSize
  PROVE  [s EXCEPT ![i] = @ + d] \in Seq(0..StackSize)
OBVIOUS

LEMMA ResultKept ==
  ASSUME NEW s \in Seq(0..StackSize), NEW i \in 0..Len(s), NEW result,
         result # "void" /\ i > 0 => s[i] # StackSize
  PROVE  PushedTo(s, i, result) \in Seq(0..StackSize)
<1>1. CASE result # "void" /\ i > 0
  <2>1. i \in 1..Len(s) /\ s[i] \in 0..StackSize /\ s[i] # StackSize /\ StackSize \in Int
    BY <1>1, CallsAssumption
  <2>2. s[i] + 1 \in 0..StackSize /\ 1 \in Int
    BY <2>1
  <2>3. QED
    BY <1>1, <2>1, <2>2, OperandsKept DEF PushedTo
<1>2. CASE ~(result # "void" /\ i > 0)
  BY <1>2 DEF PushedTo
<1>3. QED
  BY <1>1, <1>2

LEMMA ArgumentsPopped ==
  ASSUME CallsType, IInv, frames # <<>>, NEW arguments \in 0..1, ~(arguments > TopOperands)
  PROVE  Popped(arguments) \in Seq(0..StackSize)
<1> DEFINE n == Len(frames)
<1>1. n \in 1..Len(frames) /\ frames[n] \in 0..StackSize /\ StackSize \in Int
  BY CallsAssumption DEF CallsType
<1>2. arguments <= frames[n]
  BY <1>1 DEF TopOperands, Last
<1>3. frames[n] + (-arguments) \in 0..StackSize /\ -arguments \in Int
  BY <1>1, <1>2
<1>4. Popped(arguments) = [frames EXCEPT ![n] = @ + (-arguments)]
  BY <1>1 DEF Popped
<1>5. QED
  BY <1>1, <1>3, <1>4, OperandsKept DEF CallsType

(* enterFunction adds a frame without operands. *)
LEMMA Entered ==
  ASSUME NEW operands \in Seq(0..StackSize), EnterFunction(operands)
  PROVE  frames' \in Seq(0..StackSize)
<1>1. 0 \in 0..StackSize
  BY CallsAssumption
<1>2. QED
  BY <1>1 DEF EnterFunction

-------------------------------------------------------------------------------
(* The steps.                                                              *)

(* What is to be shown beside IInv, which is known. *)
HandlesPart == RInv /\ CallsType /\ FramesOwed /\ Linking

(* A step of bytecode, or the end of the process, that leaves all but the frames. *)
LEMMA OnlyFrames ==
  ASSUME HInv, frames' \in Seq(0..StackSize), state' \in {"run", "exited", "faulted"},
         UNCHANGED <<natives, references>>
  PROVE  HandlesPart'
<1>1. RInv'
  BY SameReferences DEF HInv
<1>2. CallsType' /\ FramesOwed' /\ Linking'
  BY DEF HInv, CallsType, FramesOwed, Linking, references
<1>3. QED
  BY <1>1, <1>2 DEF HandlesPart

LEMMA Ended ==
  ASSUME HInv, NEW how \in {"exited", "faulted"}, End(how)
  PROVE  HandlesPart'
BY OnlyFrames DEF End, control, HInv, CallsType

(* Native code creates or deletes references, or its call goes on, the frames and the *)
(* list of native functions keeping their shape.                                      *)
LEMMA SameActivations ==
  ASSUME HInv, RInv', Aside, UNCHANGED control,
         Len(localReferenceStack') = Len(localReferenceStack)
  PROVE  HandlesPart'
<1>1. CallsType'
  BY DEF HInv, CallsType, control, Aside
<1>2. FramesOwed'
  BY SameOwed DEF HInv, control
<1>3. Len(natives) \in Nat /\ natives' = natives
  BY DEF HInv, CallsType, control
<1>4. Linking'
  BY <1>3, LinkingAside DEF HInv, RInv, Aside
<1>5. QED
  BY <1>1, <1>2, <1>4 DEF HandlesPart

(* The innermost native function changes and owns as many frames as before. *)
LEMMA ActivationStep ==
  ASSUME HInv, RInv', natives # <<>>, NEW a \in Activations, ChangeCurrent(a),
         a.pushed = Current.pushed, frames' \in Seq(0..StackSize),
         state' \in {"run", "exited", "faulted"},
         Len(localReferenceStack') = Len(localReferenceStack), Linking'
  PROVE  HandlesPart'
<1>1. FramesOwed'
  BY PushedSame DEF HInv
<1>2. CallsType'
  BY ActivationChanged DEF HInv, CallsType
<1>3. QED
  BY <1>1, <1>2 DEF HandlesPart

(* The innermost native function calls nothing, or no #LinkInit: nobody waits for more. *)
LEMMA CallLinking ==
  ASSUME HInv, natives # <<>>, NEW a \in Activations, ChangeCurrent(a),
         a.call.module \in {Current.call.module, Null}, Aside
  PROVE  Linking'
<1> DEFINE n == Len(natives)
<1>1. /\ Len(natives') = n /\ n \in Nat /\ DOMAIN natives = 1..n
      /\ natives'[n] = a /\ Current = natives[n]
      /\ \A k \in DOMAIN natives : k # n => natives'[k] = natives[k]
  BY ActivationChanged DEF HInv, CallsType
<1>2. \A k \in 1..n : natives'[k].call.module \in {natives[k].call.module, Null}
  BY <1>1
<1>3. QED
  BY <1>1, <1>2, LinkingAside DEF HInv, RInv, Aside

(* A native function is called with the objects among its arguments. *)
LEMMA CallNativeHandles ==
  ASSUME HInv, NEW arguments \in 0..1, NEW objects \in Seq(Objects \cup {Null}),
         CallNative(arguments, objects)
  PROVE  HandlesPart'
<1> DEFINE a == [frame |-> Len(frames), pushed |-> 0, savedDepth |-> 0, call |-> NoCall]
<1>1. CASE \E how \in {"exited", "faulted"} : End(how)
  BY <1>1, Ended
<1>2. CASE ~ \E how \in {"exited", "faulted"} : End(how)
  <2>1. /\ InBytecode /\ ~(arguments > TopOperands)
        /\ \A i \in DOMAIN objects : objects[i] # Null
        /\ frames' = Popped(arguments) /\ natives' = Append(natives, a)
        /\ PushFrame(FrameOf(objects))
    BY <1>2 DEF CallNative
  <2>2. objects \in Seq(Objects)
    BY <2>1
  <2>3. RInv' /\ Aside /\ Len(localReferenceStack') = Len(localReferenceStack) + 1
    BY <2>1, <2>2, FrameBuilt, PushFrameStep DEF HInv
  <2>4. frames' \in Seq(0..StackSize)
    BY <2>1, RunsAbove, ArgumentsPopped DEF HInv
  <2>5. a \in Activations /\ a.pushed = 0 /\ a.call = NoCall
    BY CallMade DEF Activations, HInv, CallsType
  <2> HIDE DEF a
  <2>6. natives' \in Seq(Activations) /\ FramesOwed' /\ Linking'
    BY <2>1, <2>3, <2>5, ActivationAdded DEF HInv, RInv
  <2>7. QED
    BY <2>3, <2>4, <2>6 DEF HandlesPart, CallsType, Aside
<1>3. QED
  BY <1>1, <1>2

LEMMA BytecodeHandles ==
  ASSUME HInv, Bytecode
  PROVE  HandlesPart'
<1>1. ASSUME NEW change \in {-1, 1}, Operate(change)
      PROVE  HandlesPart'
  <2>1. CASE End("exited")
    BY <2>1, Ended
  <2>2. CASE ~End("exited")
    <3> DEFINE n == Len(frames)
    <3>1. /\ InBytecode /\ TopOperands + change \in 0..StackSize
          /\ frames' = [frames EXCEPT ![n] = @ + change]
          /\ UNCHANGED <<natives, references, state>>
      BY <1>1, <2>2 DEF Operate
    <3>2. n \in 1..Len(frames) /\ TopOperands = frames[n] /\ change \in Int
      BY <3>1, RunsAbove DEF TopOperands, Last, HInv, CallsType
    <3>3. frames' \in Seq(0..StackSize)
      BY <3>1, <3>2, OperandsKept DEF HInv, CallsType
    <3>4. QED
      BY <3>1, <3>3, OnlyFrames DEF HInv, CallsType
  <2>3. QED
    BY <2>1, <2>2
<1>2. ASSUME NEW arguments \in 0..1, CallBytecode(arguments)
      PROVE  HandlesPart'
  <2>1. CASE End("exited")
    BY <2>1, Ended
  <2>2. CASE ~End("exited")
    <3>1. /\ InBytecode /\ ~(arguments > TopOperands) /\ EnterFunction(Popped(arguments))
          /\ UNCHANGED <<natives, references, state>>
      BY <1>2, <2>2 DEF CallBytecode
    <3>2. Popped(arguments) \in Seq(0..StackSize)
      BY <3>1, RunsAbove, ArgumentsPopped DEF HInv
    <3>3. frames' \in Seq(0..StackSize)
      BY <3>1, <3>2, Entered
    <3>4. QED
      BY <3>1, <3>3, OnlyFrames DEF HInv, CallsType
  <2>3. QED
    BY <2>1, <2>2
<1>3. ASSUME NEW result \in Results, Return(result)
      PROVE  HandlesPart'
  <2>1. CASE End("exited")
    BY <2>1, Ended
  <2>2. CASE ~End("exited")
    <3> DEFINE below == Len(frames) - 1
    <3>1. /\ InBytecode /\ ~Overflows(below, result)
          /\ frames' = PushedTo(Front(frames), below, result)
          /\ UNCHANGED <<natives, references, state>>
      BY <1>3, <2>2 DEF Return
    <3>2. Len(frames) > 0 /\ Len(frames) \in Nat
      BY <3>1, RunsAbove DEF HInv, CallsType
    <3>3. /\ Front(frames) \in Seq(0..StackSize) /\ Len(Front(frames)) = below
          /\ \A k \in 1..below : Front(frames)[k] = frames[k]
      BY <3>2, FrontOf DEF HInv, CallsType
    <3>4. /\ below \in 0..Len(Front(frames))
          /\ result # "void" /\ below > 0 => Front(frames)[below] # StackSize
      BY <3>1, <3>2, <3>3 DEF Overflows
    <3> HIDE DEF below
    <3>5. frames' \in Seq(0..StackSize)
      BY <3>1, <3>3, <3>4, ResultKept
    <3>6. QED
      BY <3>1, <3>5, OnlyFrames DEF HInv, CallsType
  <2>3. QED
    BY <2>1, <2>2
<1>4. CASE \E arguments \in 0..1 : CallNative(arguments, <<>>)
  <2>1. <<>> \in Seq(Objects \cup {Null})
    OBVIOUS
  <2>2. QED
    BY <1>4, <2>1, CallNativeHandles
<1>5. CASE \E o \in Objects \cup {Null} : CallNative(1, <<o>>)
  <2>1. 1 \in 0..1 /\ \A o \in Objects \cup {Null} : <<o>> \in Seq(Objects \cup {Null})
    OBVIOUS
  <2>2. QED
    BY <1>5, <2>1, CallNativeHandles
<1>6. QED
  BY <1>1, <1>2, <1>3, <1>4, <1>5 DEF Bytecode

(* Native code is at work: it has a frame. *)
LEMMA AtWork ==
  ASSUME HInv, InNative
  PROVE  /\ state = "run" /\ natives # <<>> /\ Len(localReferenceStack) > 0
         /\ Current \in Activations /\ Current.call = NoCall
         /\ mReturnDepth \in Nat
<1>1. state = "run" /\ natives # <<>> /\ Current.call = NoCall
  BY DEF InNative, InRun
<1>2. Len(localReferenceStack) > 0
  BY <1>1, HasFrame DEF HInv
<1>3. Current \in Activations
  BY <1>1 DEF HInv, CallsType, Current
<1>4. QED
  BY <1>1, <1>2, <1>3 DEF HInv, IInv, ControlOK

(* What the innermost native function is after Run. *)
LEMMA RunActivation ==
  ASSUME HInv, InNative, NEW c \in Calls, EnterFunction(frames), Run(c)
  PROVE  \E a \in Activations :
           ChangeCurrent(a) /\ a.pushed = Current.pushed /\ a.call = c
<1> DEFINE d == mReturnDepth' - 1
           a == [Current EXCEPT !.call = c, !.savedDepth = d]
<1>1. d \in Nat
  BY AtWork DEF EnterFunction
<1>2. ChangeCurrent(a)
  BY DEF Run
<1> HIDE DEF d
<1>3. a \in Activations /\ a.pushed = Current.pushed /\ a.call = c
  BY <1>1, AtWork DEF Activations
<1>4. QED
  BY <1>2, <1>3

(* A function is called that is no #LinkInit. *)
LEMMA RunHandles ==
  ASSUME HInv, InNative, NEW c \in Calls, c.module = Null, EnterFunction(frames), Run(c),
         RInv', Aside, Len(localReferenceStack') = Len(localReferenceStack)
  PROVE  HandlesPart'
<1>1. PICK a \in Activations : ChangeCurrent(a) /\ a.pushed = Current.pushed /\ a.call = c
  BY RunActivation
<1>2. natives # <<>>
  BY AtWork
<1>3. frames' \in Seq(0..StackSize)
  BY Entered DEF HInv, CallsType
<1>4. Linking'
  BY <1>1, <1>2, CallLinking
<1>5. QED
  BY <1>1, <1>2, <1>3, <1>4, ActivationStep DEF Aside

(* run() returns to native code, which keeps an object or the module that is linked now. *)
LEMMA RunEndsHandles ==
  ASSUME HInv, RunEnds
  PROVE  HandlesPart'
<1> DEFINE a == [Current EXCEPT !.call = NoCall, !.savedDepth = 0]
           n == Len(natives)
           m == Current.call.module
<1>1. /\ state = "run" /\ natives # <<>> /\ ChangeCurrent(a)
      /\ UNCHANGED <<frames, mReturnDepth>>
  BY DEF RunEnds
<1>2. /\ Current = natives[n] /\ Current \in Activations
      /\ DOMAIN natives = 1..n /\ n \in DOMAIN natives /\ n \in Nat
  BY <1>1 DEF HInv, CallsType, Current
<1>3. a \in Activations /\ a.pushed = Current.pushed /\ a.call = NoCall
  BY <1>2, CallMade DEF Activations
<1> HIDE DEF a
<1>4. a.call.module = Null
  BY <1>3 DEF NoCall, Call
<1>5. Len(localReferenceStack) > 0
  BY <1>1, HasFrame DEF HInv
<1>6. frames' \in Seq(0..StackSize)
  BY <1>1 DEF HInv, CallsType
<1>7. ASSUME RInv', Aside, Len(localReferenceStack') = Len(localReferenceStack)
      PROVE  HandlesPart'
  <2>1. Linking'
    BY <1>1, <1>3, <1>4, <1>7, CallLinking
  <2>2. QED
    BY <1>1, <1>3, <1>6, <1>7, <2>1, ActivationStep DEF Aside
<1>8. CASE \E o \in Objects \cup {Null} : CreateLocal(o)
  BY <1>1, <1>5, <1>7, <1>8, CreateLocalStep DEF HInv
<1>9. CASE UNCHANGED <<references, state>>
  <2>1. RInv'
    BY <1>9, SameReferences DEF HInv
  <2>2. Aside
    BY <1>1, <1>9 DEF Aside, references
  <2>3. Len(localReferenceStack') = Len(localReferenceStack)
    BY <1>9 DEF references
  <2>4. QED
    BY <1>7, <2>1, <2>2, <2>3
<1>10. CASE m # Null /\ KeepModule(m, Current.call.mode)
  <2>1. m \in Modules
    <3>1. \A b \in Activations : b.call \in Calls
      BY DEF Activations
    <3>2. \A c \in Calls : c.module \in Modules \cup {Null}
      BY DEF Calls
    <3>3. QED
      BY <1>2, <1>10, <3>1, <3>2
  <2>2. modules[m] = "linking"
    BY <1>2, <1>10 DEF HInv, Linking
  <2>3. /\ RInv'
        /\ Len(localReferenceStack') = Len(localReferenceStack)
        /\ state' \in {"run", "faulted"}
        /\ \A x \in Modules \ {m} : modules[x] = "linking" => modules'[x] = "linking"
    <3> DEFINE mode == Current.call.mode
    <3>1. KeepModule(m, mode)
      BY <1>10
    <3> HIDE DEF m, mode
    <3>2. QED
      BY <1>5, <2>1, <2>2, <3>1, KeepModuleStep DEF HInv
  <2>4. /\ Len(natives') = n /\ natives'[n] = a
        /\ \A k \in DOMAIN natives : k # n => natives'[k] = natives[k]
    BY <1>1, <1>3, ActivationChanged DEF HInv
  <2>5. ASSUME NEW k \in 1..n
        PROVE  /\ natives'[k].call.module \in {natives[k].call.module, Null}
               /\ natives'[k].call.module # Null => modules'[natives'[k].call.module] = "linking"
    <3>1. CASE k = n
      BY <1>4, <2>4, <3>1
    <3>2. CASE k # n /\ natives[k].call.module = Null
      BY <1>2, <2>4, <3>2
    <3>3. CASE k # n /\ natives[k].call.module # Null
      <4>1. natives'[k] = natives[k] /\ natives[k].call.module # m
        BY <1>2, <2>4, <3>3 DEF HInv, Linking
      <4>2. natives[k].call.module \in Modules /\ modules[natives[k].call.module] = "linking"
        <5>1. natives[k] \in Activations
          BY <1>2 DEF HInv, CallsType
        <5>2. natives[k].call.module \in Modules \cup {Null}
          BY <5>1 DEF Activations, Calls
        <5>3. QED
          BY <3>3, <5>2 DEF HInv, Linking
      <4>3. QED
        BY <2>3, <4>1, <4>2
    <3>4. QED
      BY <3>1, <3>2, <3>3
  <2>6. Linking'
    BY <1>2, <2>4, <2>5, LinkingKept DEF HInv
  <2>7. QED
    BY <1>1, <1>3, <1>6, <2>3, <2>6, ActivationStep
<1>11. QED
  BY <1>8, <1>9, <1>10 DEF RunEnds

(* CreateModule, with the call of #LinkInit or without. *)
LEMMA CreateModuleHandles ==
  ASSUME HInv, NEW m \in Modules, NEW mode \in {"local", "global"}, CreateModule(m, mode)
  PROVE  HandlesPart'
<1>1. InNative /\ modules[m] = "none"
  BY DEF CreateModule
<1>2. CASE KeepModule(m, mode) /\ UNCHANGED control
  <2>1. /\ RInv'
        /\ Len(localReferenceStack') = Len(localReferenceStack)
        /\ state' \in {"run", "faulted"}
        /\ \A x \in Modules \ {m} : modules[x] = "linking" => modules'[x] = "linking"
    BY <1>1, <1>2, AtWork, KeepModuleStep DEF HInv
  <2>2. Aside
    BY <1>1, <2>1 DEF Aside
  <2>3. QED
    BY <1>2, <2>1, <2>2, SameActivations
<1>3. CASE /\ EnterFunction(frames) /\ Run(LinkInit(m, mode))
           /\ modules' = [modules EXCEPT ![m] = "linking"]
           /\ UNCHANGED <<localReferenceStack, stackCapacity, globalReferences, counted, lost, state>>
  <2> DEFINE n == Len(natives)
  <2>1. RInv'
    BY <1>1, <1>3, LinkingStep DEF HInv
  <2>2. LinkInit(m, mode) \in Calls
    BY CallMade
  <2>3. PICK a \in Activations :
          ChangeCurrent(a) /\ a.pushed = Current.pushed /\ a.call = LinkInit(m, mode)
    BY <1>1, <1>3, <2>2, RunActivation
  <2>4. a.call.module = m /\ m # Null
    BY <2>3, FramesAssumption DEF LinkInit
  <2>5. natives # <<>>
    BY <1>1, AtWork
  <2>6. /\ Len(natives') = n /\ natives'[n] = a /\ DOMAIN natives = 1..n /\ n \in DOMAIN natives
        /\ \A k \in DOMAIN natives : k # n => natives'[k] = natives[k]
    BY <2>3, <2>5, ActivationChanged DEF HInv
  <2>7. ASSUME NEW k \in 1..n, k # n, natives'[k].call.module # Null
        PROVE  /\ natives'[k] = natives[k] /\ natives[k].call.module \in Modules \ {m}
               /\ modules[natives[k].call.module] = "linking"
    <3>1. natives'[k] = natives[k] /\ natives[k] \in Activations
      BY <2>6, <2>7 DEF HInv, CallsType
    <3>2. natives[k].call.module \in Modules
      BY <2>7, <3>1 DEF Activations, Calls
    <3>3. modules[natives[k].call.module] = "linking"
      BY <2>7, <3>1 DEF HInv, Linking
    <3>4. QED
      BY <1>1, <3>1, <3>2, <3>3
  <2>8. \A x \in Modules : modules'[x] = IF x = m THEN "linking" ELSE modules[x]
    BY <1>3 DEF HInv, RInv, RefsType
  <2>9. Linking'
    <3>1. ASSUME NEW k \in 1..n, natives'[k].call.module # Null
          PROVE  modules'[natives'[k].call.module] = "linking"
      BY <2>4, <2>6, <2>7, <2>8, <3>1
    <3>2. ASSUME NEW j \in 1..n, NEW k \in 1..n,
                 natives'[j].call.module # Null, natives'[j].call.module = natives'[k].call.module
          PROVE  j = k
      BY <2>4, <2>6, <2>7, <3>2 DEF HInv, Linking
    <3>3. QED
      BY <2>6, <3>1, <3>2 DEF Linking
  <2>10. frames' \in Seq(0..StackSize)
    BY <1>3, Entered DEF HInv, CallsType
  <2>11. state' \in {"run", "exited", "faulted"}
    BY <1>3 DEF HInv, CallsType
  <2>12. QED
    BY <1>3, <2>1, <2>3, <2>5, <2>9, <2>10, <2>11, ActivationStep
<1>4. QED
  BY <1>2, <1>3 DEF CreateModule

(* A native function calls another, which is bytecode. *)
LEMMA CallFunctionHandles ==
  ASSUME HInv, NEW result \in Results, CallFunction(result)
  PROVE  HandlesPart'
<1>1. InNative /\ EnterFunction(frames) /\ Run(Call(result)) /\ UNCHANGED <<references, state>>
  BY DEF CallFunction
<1>2. Call(result) \in Calls /\ Call(result).module = Null
  BY CallMade DEF Call
<1>3. RInv'
  BY <1>1, SameReferences DEF HInv
<1>4. Aside /\ Len(localReferenceStack') = Len(localReferenceStack)
  BY <1>1, AtWork DEF Aside, references
<1>5. QED
  BY <1>1, <1>2, <1>3, <1>4, RunHandles

(* Native code pushes or pops a local frame. *)
LEMMA PushedHandles ==
  ASSUME HInv, PushLocalFrame \/ PopLocalFrame
  PROVE  HandlesPart'
<1>1. InNative /\ frames' = frames
  BY DEF PushLocalFrame, PopLocalFrame
<1>2. natives # <<>> /\ Current \in Activations /\ Current.pushed \in Nat
  BY <1>1, AtWork DEF Activations
<1>3. ASSUME NEW n \in {-1, 1}, Current.pushed + n \in Nat, ChangePushed(n),
             RInv', Aside, Len(localReferenceStack') = Len(localReferenceStack) + n
      PROVE  HandlesPart'
  <2> DEFINE p == Current.pushed + n
             a == [Current EXCEPT !.pushed = p]
  <2>1. ChangeCurrent(a)
    BY <1>3 DEF ChangePushed
  <2>2. p \in Nat
    BY <1>3
  <2> HIDE DEF p
  <2>3. a \in Activations /\ a.pushed = p /\ a.call.module \in {Current.call.module, Null}
    BY <1>2, <2>2 DEF Activations
  <2> HIDE DEF a
  <2>4. a.pushed = Current.pushed + n
    BY <2>3 DEF p
  <2>5. FramesOwed'
    <3>1. CASE n = 1
      BY <1>2, <1>3, <2>1, <2>3, <2>4, <3>1, PushedMore DEF HInv
    <3>2. CASE n = -1
      <4>1. a.pushed = Current.pushed - 1
            /\ Len(localReferenceStack') = Len(localReferenceStack) - 1
        BY <1>2, <1>3, <2>4, <3>2 DEF HInv, RInv, RefsType
      <4>2. QED
        BY <1>2, <2>1, <2>3, <4>1, PushedLess DEF HInv
    <3>3. QED
      BY <3>1, <3>2
  <2>6. Linking'
    BY <1>2, <1>3, <2>1, <2>3, CallLinking
  <2>7. natives' \in Seq(Activations)
    BY <1>2, <2>1, <2>3, ActivationChanged DEF HInv
  <2>8. QED
    BY <1>1, <1>3, <2>5, <2>6, <2>7 DEF HandlesPart, HInv, CallsType, Aside
<1>4. CASE PushLocalFrame
  <2>1. RInv' /\ Aside /\ Len(localReferenceStack') = Len(localReferenceStack) + 1
    BY <1>4, EmptyFrameBuilt, PushFrameStep DEF PushLocalFrame, HInv
  <2>2. QED
    BY <1>2, <1>3, <1>4, <2>1 DEF PushLocalFrame
<1>5. CASE PopLocalFrame
  <2>1. RInv' /\ Aside /\ Len(localReferenceStack') = Len(localReferenceStack) - 1
    BY <1>1, <1>5, AtWork, PopFrameStep DEF PopLocalFrame, HInv
  <2>2. Len(localReferenceStack') = Len(localReferenceStack) + (-1) /\ Current.pushed + (-1) \in Nat
    BY <1>2, <1>5, <2>1 DEF PopLocalFrame, HInv, RInv, RefsType
  <2>3. QED
    BY <1>3, <1>5, <2>1, <2>2 DEF PopLocalFrame
<1>6. QED
  BY <1>4, <1>5

LEMMA NativeHandles ==
  ASSUME HInv, Native
  PROVE  HandlesPart'
<1>1. ASSUME NEW o \in Objects \cup {Null}, NEW result \in Results, CallMethod(o, result)
      PROVE  HandlesPart'
  <2>1. CASE End("faulted")
    BY <2>1, Ended
  <2>2. CASE CallFunction(result)
    BY <2>2, CallFunctionHandles
  <2>3. QED
    BY <1>1, <2>1, <2>2 DEF CallMethod
<1>2. ASSUME NEW o \in Objects, NewObject(o)
      PROVE  HandlesPart'
  <2>1. InNative /\ CreateLocal(o) /\ EnterFunction(frames) /\ Run(Call("void"))
    BY <1>2 DEF NewObject
  <2>2. Call("void") \in Calls /\ Call("void").module = Null
    BY CallMade DEF Call, Results
  <2>3. RInv' /\ Aside /\ Len(localReferenceStack') = Len(localReferenceStack)
    BY <2>1, AtWork, CreateLocalStep DEF HInv
  <2>4. QED
    BY <2>1, <2>2, <2>3, RunHandles
<1>3. ASSUME CallFunctionNatively
      PROVE  HandlesPart'
  BY <1>3, Ended DEF CallFunctionNatively
<1>4. ASSUME NEW o \in Objects \cup {Null}, CreateLocalRef(o)
      PROVE  HandlesPart'
  BY <1>4, AtWork, CreateLocalStep, SameActivations DEF CreateLocalRef, HInv
<1>5. ASSUME NEW o \in Objects, CreateGlobalRef(o)
      PROVE  HandlesPart'
  <2>1. RInv' /\ Aside /\ UNCHANGED localReferenceStack
    BY <1>5, AtWork, CreateGlobalStep DEF CreateGlobalRef, HInv
  <2>2. QED
    BY <1>5, <2>1, SameActivations DEF CreateGlobalRef
<1>6. ASSUME NEW h \in 1..MaxSlots, DeleteLocalRef(h) \/ DeleteGlobalRef(h)
      PROVE  HandlesPart'
  <2>0. h \in Nat
    BY CallsAssumption
  <2>1. CASE DeleteLocalRef(h)
    <3>1. RInv' /\ Aside /\ Len(localReferenceStack') = Len(localReferenceStack)
      BY <2>0, <2>1, AtWork, DeleteLocalStep DEF DeleteLocalRef, HInv
    <3>2. QED
      BY <2>1, <3>1, SameActivations DEF DeleteLocalRef
  <2>2. CASE DeleteGlobalRef(h)
    <3>1. RInv' /\ Aside /\ UNCHANGED localReferenceStack
      BY <2>0, <2>2, AtWork, DeleteGlobalStep DEF DeleteGlobalRef, HInv
    <3>2. QED
      BY <2>2, <3>1, SameActivations DEF DeleteGlobalRef
  <2>3. QED
    BY <1>6, <2>1, <2>2
<1>7. ASSUME NEW result \in Results, NativeReturn(result)
      PROVE  HandlesPart'
  <2>1. CASE End("exited")
    BY <2>1, Ended
  <2>2. CASE ~End("exited")
    <3>1. /\ InNative /\ Current.pushed = 0 /\ ~Overflows(Current.frame, result)
          /\ frames' = PushedTo(frames, Current.frame, result)
          /\ natives' = Front(natives) /\ PopFrame
      BY <1>7, <2>2 DEF NativeReturn
    <3>2. natives # <<>> /\ Len(localReferenceStack) > 0
      BY <3>1, AtWork
    <3>3. RInv' /\ Aside /\ Len(localReferenceStack') = Len(localReferenceStack) - 1
      BY <3>1, <3>2, PopFrameStep DEF HInv
    <3>4. natives' \in Seq(Activations) /\ FramesOwed' /\ Linking'
      BY <3>1, <3>2, <3>3, ActivationLeft DEF HInv, RInv
    <3>5. Current.frame \in 0..Len(frames)
      BY <3>1 DEF InNative, InRun, HInv, IInv, OnTop, CallsType
    <3>6. frames' \in Seq(0..StackSize)
      BY <3>1, <3>5, ResultKept DEF Overflows, HInv, CallsType
    <3>7. QED
      BY <3>3, <3>4, <3>6 DEF HandlesPart, CallsType, Aside
  <2>3. QED
    BY <2>1, <2>2
<1>8. QED
  BY <1>1, <1>2, <1>3, <1>4, <1>5, <1>6, <1>7, CallFunctionHandles, RunEndsHandles,
     PushedHandles, CreateModuleHandles DEF Native

LEMMA HandlesInit ==
  ASSUME Init
  PROVE  HInv
<1> USE DEF Init
<1>1. IInv
  BY DEF IInv, ControlOK, DepthIsFrames, Nested, OnTop
<1>2. RInv
  <2>1. RefsType
    BY EmptyFrameBuilt DEF RefsType
  <2>2. FreeSlotsEmpty
    BY EmptyFrameBuilt DEF FreeSlotsEmpty
  <2>3. Counted
    BY EmptyFrameBuilt, HeldNone DEF Counted
  <2>4. Owned
    <3>1. \A m : ~Keeps(globalReferences, m)
      BY EmptyFrameBuilt DEF Keeps
    <3>2. QED
      BY <3>1 DEF Owned, NoOwner
  <2>5. QED
    BY <2>1, <2>2, <2>3, <2>4 DEF RInv
<1>3. CallsType
  <2>1. 0 \in 0..StackSize
    BY CallsAssumption
  <2>2. QED
    BY <2>1 DEF CallsType
<1>4. FramesOwed
  <2>1. OwedBy(natives) = {}
    BY DEF OwedBy
  <2>2. QED
    BY <2>1, FS_EmptySet DEF FramesOwed
<1>5. Linking
  BY DEF Linking
<1>6. QED
  BY <1>1, <1>2, <1>3, <1>4, <1>5 DEF HInv

(* What is counted, in the words of the model. *)
LEMMA CountsAre ==
  ASSUME RInv
  PROVE  RefsCounted
<1>1. SUFFICES ASSUME NEW o \in Objects
               PROVE  counted[o] + lost[o] = Held(Append(localReferenceStack, globalReferences), o)
  BY DEF RefsCounted
<1>2. Held(Append(localReferenceStack, globalReferences), o)
        = Held(localReferenceStack, o) + HeldBy(globalReferences, o)
  BY HeldAppend DEF RInv, RefsType
<1>3. QED
  BY <1>2 DEF RInv, Counted

(* Who owns a module, in the words of the model: of all frames, exactly one. *)
LEMMA OwnersAre ==
  ASSUME RInv
  PROVE  ModulesOwned
<1> DEFINE s == localReferenceStack
           g == globalReferences
           n == Len(s)
           all == Append(s, g)
<1>1. /\ n \in Nat /\ DOMAIN s = 1..n /\ DOMAIN all = 1..(n + 1)
      /\ all[n + 1] = g /\ \A i \in 1..n : all[i] = s[i]
  BY DEF RInv, RefsType
<1>2. ASSUME NEW m \in Modules, modules[m] = "made"
      PROVE  Cardinality({ i \in DOMAIN all : m \in Specials(<<all[i]>>) }) = 1
  <2>1. OneOwner(s, g, m)
    BY <1>2 DEF RInv, Owned
  <2> DEFINE K == { i \in DOMAIN all : m \in Specials(<<all[i]>>) }
  <2>2. \A i : i \in K <=> i \in 1..(n + 1) /\ Keeps(all[i], m)
    BY <1>1, SpecialsAre
  <2> HIDE DEF K, all, s, g, n
  <2>3. \A i \in 1..(n + 1) : i \in 1..n \/ i = n + 1
    BY <1>1
  <2>4. \A i \in 1..n : i \in 1..(n + 1) /\ i # n + 1
    BY <1>1
  <2>5. n + 1 \in 1..(n + 1)
    BY <1>1
  <2>6. \E k : \A i : i \in K <=> i = k
    <3>1. CASE Keeps(g, m) /\ \A i \in DOMAIN s : ~Keeps(s[i], m)
      <4>1. \A i : i \in K <=> i = n + 1
        BY <1>1, <2>2, <2>3, <2>5, <3>1
      <4>2. QED
        BY <4>1
    <3>2. CASE ~Keeps(g, m) /\ \E i \in DOMAIN s : \A j \in DOMAIN s : Keeps(s[j], m) <=> i = j
      <4>0. PICK k \in DOMAIN s : \A j \in DOMAIN s : Keeps(s[j], m) <=> k = j
        BY <3>2, Zenon
      <4>1. k \in 1..n /\ \A j \in 1..n : Keeps(s[j], m) <=> k = j
        BY <1>1, <4>0
      <4>2. \A i : i \in K <=> i = k
        BY <1>1, <2>2, <2>3, <2>4, <3>2, <4>1
      <4>3. QED
        BY <4>2
    <3>3. QED
      BY <2>1, <3>1, <3>2 DEF OneOwner
  <2>7. PICK k : \A i : i \in K <=> i = k
    BY <2>6
  <2>8. K = {k}
    BY <2>7
  <2>9. Cardinality(K) = 1
    BY <2>8, FS_Singleton
  <2>10. QED
    BY <2>9 DEF K
<1>3. QED
  BY <1>2 DEF ModulesOwned

(* However native calls, frames of references and old handles mix, each handle is  *)
(* given out once, each reference that native code holds is counted once but for   *)
(* those that were lost as the stack of frames grew, and each module that it made  *)
(* is in exactly one frame.                                                        *)
THEOREM HandlesSoundCorrect == Spec => []HandlesSound
<1>1. Init => HInv
  BY HandlesInit
<1>2. HInv /\ [Next]_vars => HInv'
  <2>1. SUFFICES ASSUME HInv, [Next]_vars
                 PROVE  HInv'
    OBVIOUS
  <2>2. CASE UNCHANGED vars
    <3>1. IInv'
      BY <2>1, <2>2, SameControl DEF vars, HInv
    <3>2. frames' \in Seq(0..StackSize) /\ state' \in {"run", "exited", "faulted"}
      BY <2>1, <2>2 DEF vars, control, HInv, CallsType
    <3>3. HandlesPart'
      BY <2>1, <2>2, <3>2, OnlyFrames DEF vars, control
    <3>4. QED
      BY <3>1, <3>3 DEF HInv, HandlesPart
  <2>3. CASE Bytecode
    BY <2>1, <2>3, BytecodeStep, BytecodeHandles DEF HInv, HandlesPart
  <2>4. CASE Native
    BY <2>1, <2>4, NativeStep, NativeHandles DEF HInv, HandlesPart
  <2>5. QED
    BY <2>1, <2>2, <2>3, <2>4 DEF Next
<1>3. HInv => HandlesSound
  <2>1. SUFFICES ASSUME HInv
                 PROVE  HandlesSound
    OBVIOUS
  <2>2. TypeOK
    BY <2>1 DEF HInv, IInv, ControlOK, CallsType, RInv, RefsType, TypeOK
  <2>3. QED
    BY <2>1, <2>2, CountsAre, OwnersAre DEF HInv, RInv, HandlesSound
<1>4. QED
  BY <1>1, <1>2, <1>3, PTL DEF Spec

================================================================================
