------------------------- MODULE VirtualThreads_proofs -------------------------
(***************************************************************************)
(* TLAPS proofs about VirtualThreads, for any groups, functions of any     *)
(* kinds, limits and numbers of other threads.                             *)
(***************************************************************************)
EXTENDS VirtualThreads, FiniteSetTheorems, TLAPS

Holds(g, f) == \E i \in 1 .. Load(g) : vthreads[g][i] = f

Serves(g) == pc[g] \in {"head", "turn"}

Begun(f) == life[f] \in {"served", "returned"}

Attaches(c, g) == call[c].stage = "attach" /\ call[c].group = g

(* A function is in one place: with the caller that schedules it, in the event *)
(* queue, or in the vector of one group.                                       *)
WithCaller ==
  \A c \in Callers : call[c].stage # "none" =>
    /\ call[c].function \in Functions
    /\ life[call[c].function] = "called"
    /\ \A d \in Callers : call[d].stage # "none" /\ call[d].function = call[c].function => d = c

Queued ==
  \A i, j \in 1 .. Len(eventQueue) :
    /\ life[eventQueue[i]] = "queued"
    /\ eventQueue[j] = eventQueue[i] => j = i

InVector ==
  \A f \in Functions : \A g \in Groups : Holds(g, f) =>
    /\ life[f] \in {"given", "served", "returned", "lost"}
    /\ \A h \in Groups : Holds(h, f) => h = g

(* A function that is inside Schedule is being executed, and so is main's. *)
CallersRun ==
  /\ \A f \in Functions : call[f].stage # "none" => life[f] = "served"
  /\ mainPc = "wait" => call[Main].stage = "none"

(* A group that has been launched is attached, or about to be, or has died. *)
GroupLives ==
  /\ IsFiniteSet(attached) /\ IsFiniteSet(early)
  /\ \A g \in Groups :
       /\ g \in attached => pc[g] # "unborn"
       /\ g \in early => pc[g] = "dead"
       /\ pc[g] \notin {"unborn", "dead"} => g \in attached \/ \E c \in Callers : Attaches(c, g)

(* Each caller that launches a group has one of its own. *)
OwnGroup ==
  \A c \in Callers :
    /\ call[c].stage \in {"attach", "give"} => call[c].group \in Groups
    /\ call[c].stage = "attach" =>
         /\ call[c].group \notin attached
         /\ pc[call[c].group] # "unborn"
         /\ \A d \in Callers : Attaches(d, call[c].group) => d = c

(* What has begun lives on in a group that serves. *)
LivesOn ==
  \A f \in Functions : Begun(f) => \E g \in Groups : Serves(g) /\ Holds(g, f)

(* While a function lives, a group that serves is attached, or main is about to *)
(* attach one; but for a group that has detached too early.                     *)
Rooted ==
  (early = {} /\ \E f \in Functions : Begun(f)) =>
    \E g \in Groups : /\ Serves(g) /\ Load(g) > 0
                      /\ g \in attached \/ Attaches(Main, g)

(* Main has ended only when no group is counted. *)
EndedUncounted ==
  process = "ended" => early # {} \/ \A f \in Functions : ~ Begun(f)

(* What a group that no longer waits holds was given to it late. *)
HeldLate ==
  \A g \in Groups : pc[g] \in {"queue", "expired", "dead"} =>
    \A i \in 1 .. Load(g) : vthreads[g][i] \in late

IInv ==
  /\ TypeOK
  /\ WithCaller /\ Queued /\ InVector /\ CallersRun
  /\ GroupLives /\ OwnGroup /\ GroupsCounted
  /\ LivesOn /\ Rooted /\ EndedUncounted
  /\ HeldLate /\ LostOnlyLate

-------------------------------------------------------------------------------

(* The initial states satisfy the inductive invariant. *)
LEMMA InitIInv == Init => IInv
<1> SUFFICES ASSUME Init PROVE IInv
  OBVIOUS
<1>1. TypeOK
  BY VirtualThreadsAssumption DEF Init, TypeOK, Load, Pcs, Lives, Endings, NoCall, Calls
<1>2. WithCaller /\ CallersRun /\ OwnGroup
  BY DEF Init, WithCaller, CallersRun, OwnGroup, NoCall, Callers
<1>3. Queued
  BY DEF Init, Queued
<1>4. InVector /\ LivesOn /\ Rooted
  BY DEF Init, InVector, LivesOn, Rooted, Begun, Holds, Load
<1>5. GroupLives /\ EndedUncounted
  BY FS_EmptySet DEF Init, GroupLives, EndedUncounted
<1>6. GroupsCounted
  <2>1. attached \ early = {} /\ early \ attached = {} /\ nonDaemon = 0
    BY DEF Init
  <2>2. QED
    BY <2>1, FS_EmptySet DEF GroupsCounted
<1>7. HeldLate /\ LostOnlyLate
  BY DEF Init, HeldLate, LostOnlyLate, Load
<1> QED
  BY <1>1, <1>2, <1>3, <1>4, <1>5, <1>6, <1>7 DEF IInv

LEMMA Loads ==
  ASSUME TypeOK, NEW g \in Groups
  PROVE  /\ Load(g) \in Nat
         /\ \A i \in 1 .. Load(g) : vthreads[g][i] \in Functions
BY DEF TypeOK, Load

(* What push_back leaves. *)
LEMMA PushIs ==
  ASSUME TypeOK, NEW g \in Groups, NEW f \in Functions, Push(g, f)
  PROVE  /\ vthreads' \in [Groups -> Seq(Functions)]
         /\ capacity' \in [Groups -> Nat]
         /\ moved' \in [Groups -> BOOLEAN]
         /\ Load(g)' = Load(g) + 1 /\ Load(g)' <= capacity'[g]
         /\ \A i \in 1 .. Load(g) : vthreads'[g][i] = vthreads[g][i]
         /\ vthreads'[g][Load(g) + 1] = f
         /\ \A h \in Groups \ {g} : vthreads'[h] = vthreads[h] /\ capacity'[h] = capacity[h]
         /\ life' = [life EXCEPT ![f] = "given"]
<1>1. vthreads' = [vthreads EXCEPT ![g] = Append(@, f)] /\ life' = [life EXCEPT ![f] = "given"]
  BY DEF Push
<1>2. vthreads \in [Groups -> Seq(Functions)] /\ capacity \in [Groups -> Nat]
      /\ Load(g) <= capacity[g] /\ Load(g) \in Nat
  BY Loads DEF TypeOK
<1>3. vthreads'[g] = Append(vthreads[g], f) /\ vthreads[g] \in Seq(Functions)
  BY <1>1, <1>2
<1>4. /\ Load(g)' = Load(g) + 1
      /\ \A i \in 1 .. Load(g) : vthreads'[g][i] = vthreads[g][i]
      /\ vthreads'[g][Load(g) + 1] = f
  BY <1>3 DEF Load
<1>5. capacity' = [capacity EXCEPT ![g] = IF ~ (Load(g) = capacity[g]) THEN @
                                          ELSE IF @ = 0 THEN 1 ELSE 2 * @]
  BY DEF Push
<1>6. capacity' \in [Groups -> Nat] /\ Load(g) + 1 <= capacity'[g]
      /\ \A h \in Groups \ {g} : capacity'[h] = capacity[h]
  BY <1>2, <1>5
<1>7. moved' \in [Groups -> BOOLEAN]
  BY DEF Push, TypeOK
<1>8. vthreads' \in [Groups -> Seq(Functions)]
      /\ \A h \in Groups \ {g} : vthreads'[h] = vthreads[h]
  BY <1>1, <1>2
<1> QED
  BY <1>1, <1>4, <1>6, <1>7, <1>8

(* Who holds what when one more is pushed. *)
LEMMA PushHolds ==
  ASSUME TypeOK, NEW g \in Groups, NEW f \in Functions, Push(g, f)
  PROVE  \A h \in Groups, e \in Functions : Holds(h, e)' <=> (Holds(h, e) \/ (h = g /\ e = f))
<1> SUFFICES ASSUME NEW h \in Groups, NEW e \in Functions
             PROVE  Holds(h, e)' <=> (Holds(h, e) \/ (h = g /\ e = f))
  OBVIOUS
<1>1. CASE h = g
  <2>1. Load(g) \in Nat /\ Load(g)' = Load(g) + 1
    BY PushIs, Loads
  <2>2. ASSUME Holds(g, e)' PROVE Holds(g, e) \/ e = f
    <3>1. PICK i \in 1 .. Load(g)' : vthreads'[g][i] = e
      BY <2>2 DEF Holds
    <3>2. CASE i = Load(g) + 1
      BY <3>1, <3>2, PushIs
    <3>3. CASE i \in 1 .. Load(g)
      BY <3>1, <3>3, PushIs DEF Holds
    <3>4. QED
      BY <2>1, <3>2, <3>3
  <2>3. ASSUME Holds(g, e) PROVE Holds(g, e)'
    <3>1. PICK i \in 1 .. Load(g) : vthreads[g][i] = e
      BY <2>3 DEF Holds
    <3>2. i \in 1 .. Load(g)' /\ vthreads'[g][i] = e
      BY <2>1, <3>1, PushIs
    <3>3. QED
      BY <3>2 DEF Holds
  <2>4. ASSUME e = f PROVE Holds(g, e)'
    <3>1. Load(g) + 1 \in 1 .. Load(g)' /\ vthreads'[g][Load(g) + 1] = e
      BY <2>1, <2>4, PushIs
    <3>2. QED
      BY <3>1 DEF Holds
  <2>5. QED
    BY <1>1, <2>2, <2>3, <2>4
<1>2. CASE h # g
  <2>1. vthreads'[h] = vthreads[h]
    BY <1>2, PushIs
  <2>2. QED
    BY <1>2, <2>1 DEF Holds, Load
<1> QED
  BY <1>1, <1>2

(* What TypeOK says of a push. *)
PushedTo(g) ==
  /\ vthreads' \in [Groups -> Seq(Functions)]
  /\ capacity' \in [Groups -> Nat]
  /\ moved' \in [Groups -> BOOLEAN]
  /\ life' \in [Functions -> Lives]
  /\ \A h \in Groups : Load(h)' <= capacity'[h] /\ position[h] <= Load(h)'

LEMMA PushTypes ==
  ASSUME TypeOK, NEW g \in Groups, NEW f \in Functions, Push(g, f)
  PROVE  PushedTo(g)
<1>1. life' \in [Functions -> Lives]
  BY PushIs DEF TypeOK, Lives
<1>2. ASSUME NEW h \in Groups
      PROVE  Load(h)' <= capacity'[h] /\ position[h] <= Load(h)'
  <2>1. Load(h) \in Nat /\ position[h] \in Nat /\ Load(h) <= capacity[h]
        /\ position[h] <= Load(h)
    BY Loads DEF TypeOK
  <2>2. CASE h = g
    BY <2>1, <2>2, PushIs
  <2>3. CASE h # g
    <3>1. vthreads'[h] = vthreads[h] /\ capacity'[h] = capacity[h]
      BY <2>3, PushIs
    <3>2. QED
      BY <2>1, <3>1 DEF Load
  <2>4. QED
    BY <2>2, <2>3
<1> QED
  BY <1>1, <1>2, PushIs DEF PushedTo

(* A vector only grows. *)
LEMMA PushGrows ==
  ASSUME TypeOK, NEW g \in Groups, NEW f \in Functions, Push(g, f)
  PROVE  \A h \in Groups : Load(h) > 0 => Load(h)' > 0
<1>1. ASSUME NEW h \in Groups, h # g
      PROVE  Load(h)' = Load(h)
  BY <1>1, PushIs DEF Load
<1>2. Load(g)' = Load(g) + 1 /\ Load(g) \in Nat
  BY PushIs, Loads
<1> QED
  BY <1>1, <1>2

(* HeldLate in terms of what a group holds. *)
LEMMA HeldLateIs ==
  ASSUME TypeOK, TypeOK'
  PROVE  /\ HeldLate <=> \A g \in Groups, f \in Functions :
                           pc[g] \in {"queue", "expired", "dead"} /\ Holds(g, f) => f \in late
         /\ HeldLate' <=> \A g \in Groups, f \in Functions :
                           pc'[g] \in {"queue", "expired", "dead"} /\ Holds(g, f)' => f \in late'
<1>1. \A g \in Groups : \A i \in 1 .. Load(g) : vthreads[g][i] \in Functions
  BY Loads
<1>2. \A g \in Groups : \A i \in 1 .. Load(g)' : vthreads'[g][i] \in Functions
  BY DEF TypeOK, Load
<1> QED
  BY <1>1, <1>2 DEF HeldLate, Holds

(* The front of the event queue is not in the rest. *)
LEMMA HeadLeaves ==
  ASSUME TypeOK, Queued, eventQueue # <<>>, eventQueue' = Tail(eventQueue)
  PROVE  /\ Head(eventQueue) \in Functions /\ life[Head(eventQueue)] = "queued"
         /\ Len(eventQueue') \in Nat
         /\ \A i \in 1 .. Len(eventQueue') : /\ eventQueue'[i] \in Functions \ {Head(eventQueue)}
                                             /\ i + 1 \in 1 .. Len(eventQueue)
                                             /\ eventQueue'[i] = eventQueue[i + 1]
<1>1. eventQueue \in Seq(Functions)
  BY DEF TypeOK
<1>2. /\ Len(eventQueue) \in Nat /\ 1 \in 1 .. Len(eventQueue)
      /\ Head(eventQueue) = eventQueue[1]
      /\ Len(eventQueue') = Len(eventQueue) - 1
      /\ \A i \in 1 .. Len(eventQueue') : eventQueue'[i] = eventQueue[i + 1]
  BY <1>1
<1>3. \A i \in 1 .. Len(eventQueue) : eventQueue[i] \in Functions
  BY <1>1
<1>4. ASSUME NEW i \in 1 .. Len(eventQueue')
      PROVE  i + 1 \in 1 .. Len(eventQueue) /\ i + 1 # 1
  BY <1>2
<1>5. ASSUME NEW i \in 1 .. Len(eventQueue')
      PROVE  eventQueue'[i] \in Functions \ {Head(eventQueue)}
  BY <1>2, <1>3, <1>4 DEF Queued
<1> QED
  BY <1>2, <1>3, <1>4, <1>5 DEF Queued

LEMMA QueueShifted ==
  ASSUME Queued, NEW f, \A e \in Functions \ {f} : life'[e] = life[e],
         Len(eventQueue') \in Nat,
         \A i \in 1 .. Len(eventQueue') : /\ eventQueue'[i] \in Functions \ {f}
                                          /\ i + 1 \in 1 .. Len(eventQueue)
                                          /\ eventQueue'[i] = eventQueue[i + 1]
  PROVE  Queued'
<1>1. ASSUME NEW i \in 1 .. Len(eventQueue'), NEW j \in 1 .. Len(eventQueue')
      PROVE  /\ life'[eventQueue'[i]] = "queued"
             /\ eventQueue'[j] = eventQueue'[i] => j = i
  <2>1. life[eventQueue[i + 1]] = "queued"
    BY DEF Queued
  <2>2. eventQueue[j + 1] = eventQueue[i + 1] => j + 1 = i + 1
    BY DEF Queued
  <2>3. QED
    BY <2>1, <2>2
<1> QED
  BY <1>1 DEF Queued

LEMMA UnchangedHolds ==
  ASSUME UNCHANGED vthreads
  PROVE  \A h \in Groups, e \in Functions : Holds(h, e)' <=> Holds(h, e)
BY DEF Holds, Load

(* How a turn ends and the next one begins: functions are only begun, which the *)
(* group holds, and only the current one, in no call, returns.                  *)
TurnPassed(g) ==
  /\ UNCHANGED <<vthreads, capacity, moved, attached, early, nonDaemon, eventQueue, call,
                 late, mainPc>>
  /\ pc' \in [Groups -> Pcs] /\ position' \in [Groups -> Nat]
  /\ position'[g] <= Load(g) /\ (pc'[g] = "turn" => position'[g] > 0)
  /\ \A h \in Groups \ {g} : pc'[h] = pc[h] /\ position'[h] = position[h]
  /\ pc[g] \in {"head", "empty", "turn"} /\ pc'[g] \in {"head", "empty", "turn"}
  /\ Load(g) > 0 => pc'[g] \in {"head", "turn"}
  /\ life' \in [Functions -> Lives]
  /\ \A f \in Functions :
       \/ life'[f] = life[f]
       \/ life[f] = "given" /\ life'[f] = "served" /\ Holds(g, f) /\ pc'[g] = "turn"
       \/ life[f] = "served" /\ life'[f] = "returned" /\ call[f].stage = "none"
  /\ process' \in {process, "stale iterator", "no frame"}

LEMMA TurnOfIs ==
  ASSUME TypeOK, NEW g \in Groups, NEW i \in 1 .. Load(g), NEW lives \in [Functions -> Lives],
         TurnOf(g, i, lives)
  PROVE  /\ pc' \in [Groups -> Pcs] /\ position' \in [Groups -> Nat]
         /\ position'[g] = i /\ pc'[g] = "turn"
         /\ \A h \in Groups \ {g} : pc'[h] = pc[h] /\ position'[h] = position[h]
         /\ life' \in [Functions -> Lives]
         /\ \A f \in Functions :
              \/ life'[f] = lives[f]
              \/ lives[f] = "given" /\ life'[f] = "served" /\ Holds(g, f)
<1>1. vthreads[g][i] \in Functions /\ i \in Nat
  BY Loads
<1>2. /\ pc' = [pc EXCEPT ![g] = "turn"]
      /\ position' = [position EXCEPT ![g] = i]
      /\ life' = [lives EXCEPT ![vthreads[g][i]] = IF @ = "given" THEN "served" ELSE @]
  BY DEF TurnOf
<1>3. /\ pc' \in [Groups -> Pcs] /\ position' \in [Groups -> Nat]
      /\ position'[g] = i /\ pc'[g] = "turn"
      /\ \A h \in Groups \ {g} : pc'[h] = pc[h] /\ position'[h] = position[h]
  BY <1>1, <1>2 DEF TypeOK, Pcs
<1>4. life' \in [Functions -> Lives]
  BY <1>1, <1>2 DEF Lives
<1>5. ASSUME NEW f \in Functions
      PROVE  \/ life'[f] = lives[f]
             \/ lives[f] = "given" /\ life'[f] = "served" /\ Holds(g, f)
  <2>1. CASE f = vthreads[g][i]
    BY <1>1, <1>2, <2>1 DEF Holds
  <2>2. CASE f # vthreads[g][i]
    BY <1>1, <1>2, <2>2
  <2>3. QED
    BY <2>1, <2>2
<1> QED
  BY <1>3, <1>4, <1>5

(* What Advance does, when the turn before has left the functions as lives says. *)
AdvancedTo(g, lives) ==
  /\ pc' \in [Groups -> Pcs] /\ position' \in [Groups -> Nat]
  /\ position'[g] <= Load(g) /\ (pc'[g] = "turn" => position'[g] > 0)
  /\ pc'[g] \in {"head", "turn"}
  /\ \A h \in Groups \ {g} : pc'[h] = pc[h] /\ position'[h] = position[h]
  /\ life' \in [Functions -> Lives]
  /\ \A f \in Functions :
       \/ life'[f] = lives[f]
       \/ lives[f] = "given" /\ life'[f] = "served" /\ Holds(g, f) /\ pc'[g] = "turn"
  /\ process' \in {process, "stale iterator"}

LEMMA AdvanceIs ==
  ASSUME TypeOK, NEW g \in Groups, NEW lives \in [Functions -> Lives], pc[g] = "turn",
         Advance(g, lives)
  PROVE  AdvancedTo(g, lives)
<1>1. Load(g) \in Nat /\ position[g] \in Nat /\ position[g] <= Load(g) /\ position[g] > 0
      /\ pc \in [Groups -> Pcs] /\ position \in [Groups -> Nat]
  BY Loads DEF TypeOK
<1>2. CASE moved[g]
  BY <1>1, <1>2 DEF Advance, AdvancedTo
<1>3. CASE ~ moved[g] /\ position[g] < Load(g)
  <2>1. position[g] + 1 \in 1 .. Load(g)
    BY <1>1, <1>3
  <2>2. TurnOf(g, position[g] + 1, lives) /\ UNCHANGED process
    BY <1>3 DEF Advance
  <2>3. QED
    BY <1>1, <2>1, <2>2, TurnOfIs DEF AdvancedTo
<1>4. CASE ~ moved[g] /\ ~ position[g] < Load(g)
  <2>1. pc' = [pc EXCEPT ![g] = "head"] /\ life' = lives /\ UNCHANGED <<position, process>>
    BY <1>4 DEF Advance
  <2>2. QED
    BY <1>1, <2>1 DEF Pcs, AdvancedTo
<1> QED
  BY <1>2, <1>3, <1>4

LEMMA TurnsPass ==
  ASSUME TypeOK, NEW g \in Groups, BeginPass(g) \/ EndTurn(g) \/ FunctionReturns(g)
  PROVE  TurnPassed(g)
<1>1. /\ Load(g) \in Nat /\ pc \in [Groups -> Pcs] /\ position \in [Groups -> Nat]
      /\ position[g] <= Load(g) /\ life \in [Functions -> Lives]
      /\ pc[g] = "turn" => position[g] > 0
  BY Loads DEF TypeOK
<1>2. CASE BeginPass(g) /\ Load(g) = 0
  BY <1>1, <1>2 DEF BeginPass, TurnPassed, Pcs
<1>3. CASE BeginPass(g) /\ Load(g) # 0
  <2>1. 1 \in 1 .. Load(g) /\ TurnOf(g, 1, life)
    BY <1>1, <1>3 DEF BeginPass
  <2>2. QED
    BY <1>1, <1>3, <2>1, TurnOfIs DEF BeginPass, TurnPassed
<1>4. CASE EndTurn(g)
  <2>1. /\ pc[g] = "turn" /\ Advance(g, life)
        /\ UNCHANGED <<vthreads, capacity, moved, attached, early, nonDaemon, eventQueue, call,
                       late, mainPc>>
    BY <1>4 DEF EndTurn
  <2>2. AdvancedTo(g, life)
    BY <1>1, <2>1, AdvanceIs
  <2>3. QED
    BY <2>1, <2>2 DEF TurnPassed, AdvancedTo
<1>5. CASE FunctionReturns(g)
  <2> DEFINE f == Current(g)
             lives == [life EXCEPT ![f] = "returned"]
  <2>1. pc[g] = "turn" /\ life[f] = "served" /\ call[f] = NoCall
    BY <1>5 DEF FunctionReturns
  <2>2. /\ UNCHANGED <<vthreads, capacity, moved, attached, early, nonDaemon, eventQueue, call,
                       late, mainPc>>
        /\ \/ process' = "no frame" /\ UNCHANGED <<pc, position, life>>
           \/ Advance(g, lives)
    BY <1>5 DEF FunctionReturns
  <2>3. f \in Functions
    BY <1>1, <2>1, Loads DEF Current
  <2>4. call[f].stage = "none"
    BY <2>1 DEF NoCall
  <2> HIDE DEF f
  <2>5. lives \in [Functions -> Lives]
        /\ \A e \in Functions : lives[e] = IF e = f THEN "returned" ELSE life[e]
    BY <1>1, <2>3 DEF Lives
  <2>6. CASE process' = "no frame" /\ UNCHANGED <<pc, position, life>>
    BY <1>1, <2>1, <2>2, <2>6 DEF TurnPassed
  <2>7. CASE Advance(g, lives)
    <3> HIDE DEF lives
    <3>1. AdvancedTo(g, lives)
      BY <2>1, <2>5, <2>7, AdvanceIs
    <3>2. \A e \in Functions :
            \/ life'[e] = life[e]
            \/ life[e] = "given" /\ life'[e] = "served" /\ Holds(g, e) /\ pc'[g] = "turn"
            \/ life[e] = "served" /\ life'[e] = "returned" /\ call[e].stage = "none"
      BY <2>1, <2>4, <2>5, <3>1 DEF AdvancedTo
    <3>3. QED
      BY <2>1, <2>2, <3>1, <3>2 DEF TurnPassed, AdvancedTo
  <2>8. QED
    BY <2>2, <2>6, <2>7
<1> QED
  BY <1>2, <1>3, <1>4, <1>5

(* The three things that Schedule may come to; a function is only given to a   *)
(* group there is.                                                             *)
LEMMA ScheduleIs ==
  ASSUME TypeOK, NEW c \in Callers, NEW f \in Functions, Schedule(c, f)
  PROVE  /\ Executing(c) /\ life[f] = "new"
         /\ UNCHANGED <<pc, vthreads, capacity, position, moved, attached, early, nonDaemon,
                        eventQueue, late, mainPc>>
         /\ \/ process' = "null group" /\ UNCHANGED <<call, life>>
            \/ Elsewhere(f)
            \/ \E stage \in {"enqueue", "give", "launch"}, g \in Groups \cup {NoGroup} :
                 Begin(c, stage, f, g) /\ (stage = "give" => g \in Groups)
<1>1. /\ Executing(c) /\ life[f] = "new"
      /\ UNCHANGED <<pc, vthreads, capacity, position, moved, attached, early, nonDaemon,
                     eventQueue, late, mainPc>>
  BY DEF Schedule, loop
<1>2. CASE Kind[f] = "native"
  BY <1>1, <1>2 DEF Schedule
<1>3. CASE Kind[f] # "native"
  <2>1. PICK others \in OtherThreads, g \in IdealGroups :
          LET decision == Decision(f, others + Cardinality(attached), g)
          IN  \/ decision = "crash" /\ process' = "null group" /\ UNCHANGED <<call, life>>
              \/ decision = "elsewhere" /\ Elsewhere(f)
              \/ decision \in {"give", "enqueue", "launch"} /\ Begin(c, decision, f, g)
    BY <1>3 DEF Schedule
  <2> DEFINE decision == Decision(f, others + Cardinality(attached), g)
  <2>2. g \in Groups \cup {NoGroup} /\ (g = NoGroup => attached = {})
    BY VirtualThreadsAssumption DEF IdealGroups, TypeOK
  <2>3. decision = "give" => g # NoGroup
    <3>1. attached = {} => Cardinality(attached) <= PURE_GROUPS
      BY FS_EmptySet, VirtualThreadsAssumption
    <3>2. QED
      BY <2>2, <3>1 DEF Decision
  <2>4. QED
    <3> HIDE DEF decision
    <3>1. CASE decision \in {"give", "enqueue", "launch"} /\ Begin(c, decision, f, g)
      BY <1>1, <2>2, <2>3, <3>1
    <3>2. QED
      BY <1>1, <2>1, <3>1 DEF decision
<1> QED
  BY <1>2, <1>3

LEMMA TypeStep == TypeOK /\ WithCaller /\ OwnGroup /\ [Next]_vars => TypeOK'
<1> SUFFICES ASSUME TypeOK, WithCaller, OwnGroup, [Next]_vars PROVE TypeOK'
  OBVIOUS
<1>1. ASSUME NEW c \in Callers, NEW f \in Functions, Schedule(c, f)
      PROVE  TypeOK'
  <2>0. life \in [Functions -> Lives] /\ call \in [Callers -> Calls]
        /\ process \in Endings \cup {"running"}
    BY DEF TypeOK
  <2>1. life' \in [Functions -> Lives] /\ call' \in [Callers -> Calls]
        /\ process' \in Endings \cup {"running"}
    <3>1. CASE process' = "null group" /\ UNCHANGED <<call, life>>
      BY <2>0, <3>1 DEF Endings
    <3>2. CASE Elsewhere(f)
      BY <2>0, <3>2 DEF Elsewhere, Lives
    <3>3. ASSUME NEW stage \in {"enqueue", "give", "launch"}, NEW g \in Groups \cup {NoGroup},
                 Begin(c, stage, f, g)
          PROVE  life' \in [Functions -> Lives] /\ call' \in [Callers -> Calls]
                 /\ process' \in Endings \cup {"running"}
      BY <2>0, <3>3 DEF Begin, Lives, Calls
    <3>4. QED
      BY <1>1, <3>1, <3>2, <3>3, ScheduleIs
  <2>2. UNCHANGED <<pc, vthreads, capacity, position, moved, attached, early, nonDaemon,
                    eventQueue, late, mainPc>>
    BY <1>1, ScheduleIs
  <2>3. QED
    BY <2>1, <2>2 DEF TypeOK, Load
<1>2. ASSUME NEW c \in Callers, EnqueueFunction(c)
      PROVE  TypeOK'
  <2>1. /\ call \in [Callers -> Calls] /\ life \in [Functions -> Lives]
        /\ eventQueue \in Seq(Functions) /\ call[c].function \in Functions
    BY <1>2 DEF TypeOK, EnqueueFunction, WithCaller
  <2>2. NoCall \in Calls
    BY DEF NoCall, Calls
  <2>3. /\ call' \in [Callers -> Calls] /\ life' \in [Functions -> Lives]
        /\ eventQueue' \in Seq(Functions)
    BY <1>2, <2>1, <2>2 DEF EnqueueFunction, Lives
  <2>4. UNCHANGED <<pc, vthreads, capacity, position, moved, attached, early, nonDaemon, late,
                    mainPc, process>>
    BY <1>2 DEF EnqueueFunction, loop
  <2>5. QED
    BY <2>3, <2>4 DEF TypeOK, Load
<1>3. ASSUME NEW c \in Callers, NEW g \in Groups, LaunchGroup(c, g)
      PROVE  TypeOK'
  BY <1>3 DEF TypeOK, LaunchGroup, Load, Pcs, Calls, loop
<1>4. ASSUME NEW c \in Callers, AttachGroup(c)
      PROVE  TypeOK'
  <2>1. /\ call \in [Callers -> Calls] /\ nonDaemon \in Int /\ attached \subseteq Groups
        /\ call[c].group \in Groups
    BY <1>4 DEF TypeOK, AttachGroup, OwnGroup
  <2>2. /\ call' \in [Callers -> Calls] /\ nonDaemon' \in Int /\ attached' \subseteq Groups
    BY <1>4, <2>1 DEF AttachGroup, Calls
  <2>3. UNCHANGED <<pc, vthreads, capacity, position, moved, early, eventQueue, life, late,
                    mainPc, process>>
    BY <1>4 DEF AttachGroup, loop
  <2>4. QED
    BY <2>2, <2>3 DEF TypeOK, Load
<1>5. ASSUME NEW c \in Callers, RunFunction(c)
      PROVE  TypeOK'
  <2> DEFINE g == call[c].group
             f == call[c].function
  <2>1. g \in Groups /\ f \in Functions
    BY <1>5 DEF RunFunction, OwnGroup, WithCaller
  <2> HIDE DEF g, f
  <2>2. UNCHANGED <<pc, position, attached, early, nonDaemon, eventQueue, mainPc>>
    BY <1>5 DEF RunFunction
  <2>3. CASE Freed(g)
    BY <1>5, <2>2, <2>3 DEF RunFunction, g, TypeOK, Load, Endings
  <2>4. CASE ~ Freed(g)
    <3>1. Push(g, f) /\ UNCHANGED process /\ late' \in {late, late \cup {f}}
          /\ call' = [call EXCEPT ![c] = NoCall]
      BY <1>5, <2>4 DEF RunFunction, g, f
    <3>2. call' \in [Callers -> Calls]
      BY <3>1 DEF TypeOK, Calls, NoCall
    <3>3. PushedTo(g)
      BY <2>1, <3>1, PushTypes
    <3>4. QED
      BY <2>1, <2>2, <3>1, <3>2, <3>3 DEF TypeOK, PushedTo, Load
  <2>5. QED
    BY <2>3, <2>4
<1>6. ASSUME NEW g \in Groups, BeginPass(g) \/ EndTurn(g) \/ FunctionReturns(g)
      PROVE  TypeOK'
  BY <1>6, TurnsPass DEF TypeOK, TurnPassed, Load, Endings
<1>7. ASSUME NEW g \in Groups, TakeEvent(g)
      PROVE  TypeOK'
  <2> DEFINE f == Head(eventQueue)
  <2>1. f \in Functions /\ Tail(eventQueue) \in Seq(Functions)
    BY <1>7 DEF TypeOK, TakeEvent
  <2>2. Push(g, f) /\ eventQueue' = Tail(eventQueue) /\ pc' = [pc EXCEPT ![g] = "head"]
        /\ UNCHANGED <<position, attached, early, nonDaemon, call, late, mainPc, process>>
    BY <1>7 DEF TakeEvent
  <2> HIDE DEF f
  <2>3. PushedTo(g)
    BY <2>1, <2>2, PushTypes
  <2>4. QED
    BY <2>1, <2>2, <2>3 DEF TypeOK, PushedTo, Load, Pcs
<1>8. ASSUME NEW g \in Groups, DetachGroup(g)
      PROVE  TypeOK'
  BY <1>8 DEF TypeOK, DetachGroup, Load, Pcs, Lives, loop
<1>9. CASE TakenByThread
  BY <1>9 DEF TypeOK, TakenByThread, Load, Lives, loop
<1>10. ASSUME NEW g \in Groups, TimeOutEmpty(g) \/ TimeOutQueue(g) \/ FetchFails(g)
       PROVE  TypeOK'
  BY <1>10 DEF TypeOK, TimeOutEmpty, TimeOutQueue, FetchFails, Load, Pcs, Endings, loop
<1>11. CASE MainReturns \/ AllThreadsEnded \/ UNCHANGED vars
  BY <1>11 DEF TypeOK, MainReturns, AllThreadsEnded, vars, Load, Endings, loop
<1> QED
  BY <1>1, <1>2, <1>3, <1>4, <1>5, <1>6, <1>7, <1>8, <1>9, <1>10, <1>11 DEF Next, Launch, Serve

-------------------------------------------------------------------------------

(* Nothing but where a group's thread is changes, and not that it serves. *)
Stays(g) ==
  \/ pc'[g] = pc[g]
  \/ pc[g] = "empty" /\ pc'[g] = "queue" /\ Load(g) = 0
  \/ pc[g] = "queue" /\ pc'[g] = "expired"

LEMMA QuietStep ==
  ASSUME IInv, [Next]_vars,
         UNCHANGED <<vthreads, attached, early, nonDaemon, eventQueue, call, life, late>>,
         \A g \in Groups : Stays(g),
         mainPc' = mainPc \/ call[Main].stage = "none",
         process' = "ended" => EndedUncounted'
  PROVE  IInv'
<1>1. TypeOK'
  BY TypeStep DEF IInv
<1>2. WithCaller' /\ Queued' /\ CallersRun'
  BY DEF IInv, WithCaller, Queued, CallersRun
<1>3. InVector' /\ GroupsCounted' /\ LostOnlyLate'
  BY DEF IInv, InVector, Holds, Load, GroupsCounted, LostOnlyLate
<1>4. GroupLives' /\ OwnGroup'
  BY DEF IInv, GroupLives, OwnGroup, Attaches, Stays
<1>5. LivesOn' /\ Rooted'
  BY DEF IInv, LivesOn, Rooted, Begun, Serves, Holds, Load, Stays, Attaches
<1>6. HeldLate'
  BY Loads DEF IInv, HeldLate, Stays, Load
<1>7. EndedUncounted'
  BY DEF EndedUncounted
<1> QED
  BY <1>1, <1>2, <1>3, <1>4, <1>5, <1>6, <1>7 DEF IInv

LEMMA StandingStep ==
  ASSUME IInv, [Next]_vars,
         \/ \E g \in Groups : TimeOutEmpty(g) \/ TimeOutQueue(g) \/ FetchFails(g)
         \/ MainReturns \/ AllThreadsEnded \/ UNCHANGED vars
  PROVE  IInv'
<1>1. pc \in [Groups -> Pcs]
  BY DEF IInv, TypeOK
<1>2. CASE \E g \in Groups : TimeOutEmpty(g) \/ TimeOutQueue(g) \/ FetchFails(g)
  <2>1. UNCHANGED <<vthreads, attached, early, nonDaemon, eventQueue, call, life, late, mainPc>>
        /\ process' # "ended"
    BY <1>2 DEF TimeOutEmpty, TimeOutQueue, FetchFails
  <2>2. \A g \in Groups : Stays(g)
    BY <1>1, <1>2 DEF TimeOutEmpty, TimeOutQueue, FetchFails, Stays
  <2>3. QED
    BY <2>1, <2>2, QuietStep
<1>3. CASE MainReturns
  <2>1. UNCHANGED <<vthreads, attached, early, nonDaemon, eventQueue, call, life, late, pc>>
        /\ process' # "ended" /\ call[Main].stage = "none"
    BY <1>3 DEF MainReturns, Executing, NoCall
  <2>2. QED
    BY <2>1, QuietStep DEF Stays
<1>4. CASE AllThreadsEnded
  <2>1. UNCHANGED <<vthreads, attached, early, nonDaemon, eventQueue, call, life, late, pc, mainPc>>
        /\ nonDaemon = 0 /\ mainPc = "wait"
    BY <1>4 DEF AllThreadsEnded
  <2>2. ASSUME early = {}
        PROVE  \A f \in Functions : ~ Begun(f)
    <3>1. attached \ early = attached /\ early \ attached = {} /\ IsFiniteSet(attached)
      BY <2>2 DEF IInv, GroupLives
    <3>2. Cardinality(attached) = 0
      <4>1. nonDaemon = Cardinality(attached \ early) - Cardinality(early \ attached)
        BY DEF IInv, GroupsCounted
      <4>2. nonDaemon = Cardinality(attached) - Cardinality({})
        BY <3>1, <4>1
      <4>3. Cardinality(attached) \in Nat /\ Cardinality({}) = 0
        BY <3>1, FS_EmptySet, FS_CardinalityType
      <4>4. QED
        BY <2>1, <4>2, <4>3
    <3>3. attached = {}
      BY <3>1, <3>2, FS_EmptySet
    <3>4. \A g : ~ Attaches(Main, g)
      BY <2>1 DEF IInv, CallersRun, Attaches
    <3>5. QED
      BY <2>2, <3>3, <3>4 DEF IInv, Rooted
  <2>3. EndedUncounted'
    BY <2>1, <2>2 DEF EndedUncounted, Begun
  <2>4. QED
    BY <2>1, <2>3, QuietStep DEF Stays
<1>5. CASE UNCHANGED vars
  <2>1. UNCHANGED <<vthreads, attached, early, nonDaemon, eventQueue, call, life, late, pc, mainPc,
                    process>>
    BY <1>5 DEF vars
  <2>2. EndedUncounted'
    BY <2>1 DEF IInv, EndedUncounted, Begun
  <2>3. QED
    BY <2>1, <2>2, QuietStep DEF Stays
<1> QED
  BY <1>2, <1>3, <1>4, <1>5

LEMMA ScheduleStep ==
  ASSUME IInv, [Next]_vars, NEW c \in Callers, NEW f \in Functions, Schedule(c, f)
  PROVE  IInv'
<1>1. /\ TypeOK /\ call \in [Callers -> Calls] /\ life \in [Functions -> Lives]
      /\ Executing(c) /\ life[f] = "new" /\ process = "running"
      /\ UNCHANGED <<pc, vthreads, capacity, position, moved, attached, early, nonDaemon,
                     eventQueue, late, mainPc>>
  BY ScheduleIs DEF IInv, TypeOK, Executing
<1>2. CASE process' = "null group" /\ UNCHANGED <<call, life>>
  BY <1>1, <1>2, QuietStep DEF Stays
<1>3. CASE \/ Elsewhere(f)
           \/ \E stage \in {"enqueue", "give", "launch"}, g \in Groups \cup {NoGroup} :
                Begin(c, stage, f, g) /\ (stage = "give" => g \in Groups)
  <2>1. /\ process' = "running"
        /\ life'[f] \in {"elsewhere", "called"}
        /\ \A e \in Functions \ {f} : life'[e] = life[e]
    BY <1>1, <1>3 DEF Elsewhere, Begin
  <2>2. \/ life'[f] = "elsewhere" /\ call' = call
        \/ /\ life'[f] = "called"
           /\ call[c] = NoCall /\ (c # Main => life[c] = "served") /\ (c = Main => mainPc # "wait")
           /\ \A d \in Callers \ {c} : call'[d] = call[d]
           /\ call'[c].stage \in {"enqueue", "give", "launch"} /\ call'[c].function = f
           /\ call'[c].stage = "give" => call'[c].group \in Groups
    BY <1>1, <1>3 DEF Elsewhere, Begin, Executing
  <2>3. call[c] = NoCall => call[c].stage = "none"
    BY DEF NoCall
  <2>4. TypeOK'
    BY TypeStep DEF IInv
  <2>5. WithCaller'
    BY <1>1, <2>1, <2>2 DEF IInv, WithCaller
  <2>6. Queued'
    <3>1. \A i \in 1 .. Len(eventQueue) : eventQueue[i] \in Functions
      BY DEF IInv, TypeOK
    <3>2. QED
      BY <1>1, <2>1, <3>1 DEF IInv, Queued
  <2>7. InVector' /\ GroupsCounted' /\ LostOnlyLate' /\ HeldLate'
    BY <1>1, <2>1, UnchangedHolds DEF IInv, InVector, GroupsCounted, LostOnlyLate, HeldLate, Load
  <2>8. CallersRun'
    BY <1>1, <2>1, <2>2, VirtualThreadsAssumption DEF IInv, CallersRun, Callers
  <2>9. \A d \in Callers, g \in Groups : Attaches(d, g)' <=> Attaches(d, g)
    BY <2>2, <2>3 DEF Attaches
  <2>10. GroupLives'
    BY <1>1, <2>9 DEF IInv, GroupLives
  <2>11. OwnGroup'
    BY <1>1, <2>2, <2>3, <2>9 DEF IInv, OwnGroup
  <2>12. LivesOn' /\ EndedUncounted'
    BY <1>1, <2>1, UnchangedHolds DEF IInv, LivesOn, EndedUncounted, Begun, Serves
  <2>13. Rooted'
    BY <1>1, <2>1, <2>9 DEF IInv, Rooted, Begun, Serves, Load, Callers
  <2>14. QED
    BY <2>4, <2>5, <2>6, <2>7, <2>8, <2>10, <2>11, <2>12, <2>13 DEF IInv
<1> QED
  BY <1>1, <1>2, <1>3, ScheduleIs

(* From the caller into the event queue. *)
LEMMA EnqueueStep ==
  ASSUME IInv, [Next]_vars, NEW c \in Callers, EnqueueFunction(c)
  PROVE  IInv'
<1> DEFINE f == call[c].function
<1>1. /\ TypeOK /\ call \in [Callers -> Calls] /\ life \in [Functions -> Lives]
      /\ eventQueue \in Seq(Functions)
      /\ call[c].stage = "enqueue" /\ process' = "running"
      /\ eventQueue' = Append(eventQueue, f)
      /\ call' = [call EXCEPT ![c] = NoCall] /\ life' = [life EXCEPT ![f] = "queued"]
      /\ UNCHANGED <<pc, vthreads, attached, early, nonDaemon, late, mainPc>>
  BY DEF IInv, TypeOK, EnqueueFunction
<1>2. /\ f \in Functions /\ life[f] = "called"
      /\ \A d \in Callers : call[d].stage # "none" /\ call[d].function = f => d = c
  BY <1>1 DEF IInv, WithCaller
<1>3. /\ call'[c] = NoCall /\ call'[c].stage = "none"
      /\ \A d \in Callers \ {c} : call'[d] = call[d]
  BY <1>1 DEF NoCall
<1> HIDE DEF f
<1>4. life'[f] = "queued" /\ \A e \in Functions \ {f} : life'[e] = life[e]
  BY <1>1, <1>2
<1>5. TypeOK'
  BY TypeStep DEF IInv
<1>6. WithCaller'
  BY <1>2, <1>3, <1>4 DEF IInv, WithCaller
<1>7. Queued'
  <2>1. \A i \in 1 .. Len(eventQueue) : eventQueue[i] \in Functions /\ eventQueue[i] # f
    BY <1>1, <1>2 DEF IInv, Queued
  <2>2. /\ Len(eventQueue') = Len(eventQueue) + 1 /\ Len(eventQueue) \in Nat
        /\ \A i \in 1 .. Len(eventQueue) : eventQueue'[i] = eventQueue[i]
        /\ eventQueue'[Len(eventQueue) + 1] = f
    BY <1>1, <1>2
  <2>3. \A i \in 1 .. Len(eventQueue) : life'[eventQueue[i]] = "queued"
    BY <1>4, <2>1 DEF IInv, Queued
  <2>4. \A i \in 1 .. Len(eventQueue') : i \in 1 .. Len(eventQueue) \/ i = Len(eventQueue) + 1
    BY <2>2
  <2>5. \A i, j \in 1 .. Len(eventQueue') : eventQueue'[j] = eventQueue'[i] => j = i
    BY <2>1, <2>2, <2>4 DEF IInv, Queued
  <2>6. \A i \in 1 .. Len(eventQueue') : life'[eventQueue'[i]] = "queued"
    BY <1>4, <2>2, <2>3, <2>4
  <2>7. QED
    BY <2>5, <2>6 DEF Queued
<1>8. InVector' /\ GroupsCounted' /\ LostOnlyLate' /\ HeldLate'
  BY <1>1, <1>2, <1>4, UnchangedHolds DEF IInv, InVector, GroupsCounted, LostOnlyLate, HeldLate, Load
<1>9. CallersRun'
  BY <1>1, <1>2, <1>3, <1>4, VirtualThreadsAssumption DEF IInv, CallersRun, Callers
<1>10. \A d \in Callers, g \in Groups : Attaches(d, g)' <=> Attaches(d, g)
  BY <1>1, <1>3 DEF Attaches
<1>11. GroupLives' /\ OwnGroup'
  BY <1>1, <1>3, <1>10 DEF IInv, GroupLives, OwnGroup
<1>12. LivesOn' /\ EndedUncounted'
  BY <1>1, <1>2, <1>4, UnchangedHolds DEF IInv, LivesOn, EndedUncounted, Begun, Serves
<1>13. Rooted'
  BY <1>1, <1>2, <1>4, <1>10 DEF IInv, Rooted, Begun, Serves, Load, Callers
<1> QED
  BY <1>5, <1>6, <1>7, <1>8, <1>9, <1>11, <1>12, <1>13 DEF IInv

LEMMA LaunchStep ==
  ASSUME IInv, [Next]_vars, NEW c \in Callers, NEW g \in Groups, LaunchGroup(c, g)
  PROVE  IInv'
<1>1. /\ TypeOK /\ call \in [Callers -> Calls] /\ pc \in [Groups -> Pcs]
      /\ call[c].stage = "launch" /\ process' = "running" /\ pc[g] = "unborn"
      /\ pc' = [pc EXCEPT ![g] = "head"]
      /\ call' = [call EXCEPT ![c].stage = "attach", ![c].group = g]
      /\ UNCHANGED <<vthreads, attached, early, nonDaemon, eventQueue, life, late, mainPc>>
  BY DEF IInv, TypeOK, LaunchGroup
<1>2. /\ pc'[g] = "head" /\ \A h \in Groups \ {g} : pc'[h] = pc[h]
      /\ call'[c].stage = "attach" /\ call'[c].group = g /\ call'[c].function = call[c].function
      /\ \A d \in Callers \ {c} : call'[d] = call[d]
  BY <1>1 DEF Calls
<1>3. TypeOK'
  BY TypeStep DEF IInv
<1>4. WithCaller' /\ Queued' /\ CallersRun'
  BY <1>1, <1>2, VirtualThreadsAssumption DEF IInv, WithCaller, Queued, CallersRun, Callers
<1>5. InVector' /\ GroupsCounted' /\ LostOnlyLate' /\ HeldLate'
  BY <1>1, <1>2, UnchangedHolds DEF IInv, InVector, GroupsCounted, LostOnlyLate, HeldLate, Load
<1>6. /\ \A d \in Callers, h \in Groups : Attaches(d, h) => Attaches(d, h)'
      /\ \A d \in Callers, h \in Groups : Attaches(d, h)' => Attaches(d, h) \/ (d = c /\ h = g)
      /\ Attaches(c, g)'
      /\ \A d \in Callers : ~ Attaches(d, g)
  BY <1>1, <1>2 DEF Attaches, IInv, OwnGroup
<1>7. GroupLives'
  BY <1>1, <1>2, <1>6 DEF IInv, GroupLives
<1>8. OwnGroup'
  BY <1>1, <1>2, <1>6 DEF IInv, OwnGroup, GroupLives
<1>9. LivesOn' /\ EndedUncounted'
  BY <1>1, <1>2, UnchangedHolds DEF IInv, LivesOn, EndedUncounted, Begun, Serves
<1>10. Rooted'
  BY <1>1, <1>2, <1>6 DEF IInv, Rooted, Begun, Serves, Load, Callers
<1> QED
  BY <1>3, <1>4, <1>5, <1>7, <1>8, <1>9, <1>10 DEF IInv

LEMMA AttachStep ==
  ASSUME IInv, [Next]_vars, NEW c \in Callers, AttachGroup(c)
  PROVE  IInv'
<1> DEFINE g == call[c].group
<1>1. /\ TypeOK /\ call \in [Callers -> Calls]
      /\ call[c].stage = "attach" /\ process' = "running"
      /\ attached' = attached \cup {g} /\ nonDaemon' = nonDaemon + 1
      /\ call' = [call EXCEPT ![c].stage = "give"]
      /\ UNCHANGED <<pc, vthreads, early, eventQueue, life, late, mainPc>>
  BY DEF IInv, TypeOK, AttachGroup
<1>2. g \in Groups /\ g \notin attached /\ pc[g] # "unborn" /\ Attaches(c, g)
      /\ \A d \in Callers : Attaches(d, g) => d = c
  BY <1>1 DEF IInv, OwnGroup, Attaches
<1>3. /\ call'[c].stage = "give" /\ call'[c].group = g /\ call'[c].function = call[c].function
      /\ \A d \in Callers \ {c} : call'[d] = call[d]
  BY <1>1 DEF Calls
<1> HIDE DEF g
<1>4. TypeOK'
  BY TypeStep DEF IInv
<1>5. WithCaller' /\ Queued' /\ CallersRun'
  BY <1>1, <1>3, VirtualThreadsAssumption DEF IInv, WithCaller, Queued, CallersRun, Callers
<1>6. InVector' /\ LostOnlyLate' /\ HeldLate'
  BY <1>1, UnchangedHolds DEF IInv, InVector, LostOnlyLate, HeldLate, Load
<1>7. GroupsCounted'
  <2>1. IsFiniteSet(attached \ early) /\ IsFiniteSet(early \ attached)
    BY FS_Subset DEF IInv, GroupLives
  <2>2. /\ Cardinality(attached \ early) \in Nat /\ Cardinality(early \ attached) \in Nat
        /\ nonDaemon = Cardinality(attached \ early) - Cardinality(early \ attached)
    BY <2>1, FS_CardinalityType DEF IInv, GroupsCounted
  <2>3. CASE g \in early
    <3>1. attached' \ early' = attached \ early /\ early' \ attached' = (early \ attached) \ {g}
          /\ g \in early \ attached
      BY <1>1, <1>2, <2>3
    <3>2. Cardinality((early \ attached) \ {g}) = Cardinality(early \ attached) - 1
      BY <2>1, <3>1, FS_RemoveElement
    <3>3. nonDaemon' = Cardinality(attached \ early) - Cardinality((early \ attached) \ {g})
      BY <1>1, <2>2, <3>2
    <3>4. QED
      BY <3>1, <3>3 DEF GroupsCounted
  <2>4. CASE g \notin early
    <3>1. attached' \ early' = (attached \ early) \cup {g} /\ early' \ attached' = early \ attached
          /\ g \notin attached \ early
      BY <1>1, <1>2, <2>4
    <3>2. Cardinality((attached \ early) \cup {g}) = Cardinality(attached \ early) + 1
      BY <2>1, <3>1, FS_AddElement
    <3>3. nonDaemon' = Cardinality((attached \ early) \cup {g}) - Cardinality(early \ attached)
      BY <1>1, <2>2, <3>2
    <3>4. QED
      BY <3>1, <3>3 DEF GroupsCounted
  <2>5. QED
    BY <2>3, <2>4
<1>8. \A d \in Callers, h \in Groups : Attaches(d, h)' <=> Attaches(d, h) /\ h # g
  BY <1>1, <1>2, <1>3 DEF Attaches
<1>9. GroupLives'
  <2>1. IsFiniteSet(attached')
    BY <1>1, FS_AddElement DEF IInv, GroupLives
  <2>2. QED
    BY <1>1, <1>2, <1>8, <2>1 DEF IInv, GroupLives
<1>10. OwnGroup'
  BY <1>1, <1>2, <1>3, <1>8 DEF IInv, OwnGroup, Attaches
<1>11. LivesOn' /\ EndedUncounted'
  BY <1>1, UnchangedHolds DEF IInv, LivesOn, EndedUncounted, Begun, Serves
<1>12. Rooted'
  BY <1>1, <1>8 DEF IInv, Rooted, Begun, Serves, Load, Callers
<1> QED
  BY <1>4, <1>5, <1>6, <1>7, <1>9, <1>10, <1>11, <1>12 DEF IInv

(* The virtual thread is added to the vector of its group. *)
LEMMA RunStep ==
  ASSUME IInv, [Next]_vars, NEW c \in Callers, RunFunction(c)
  PROVE  IInv'
<1> DEFINE g == call[c].group
           f == call[c].function
<1>1. /\ TypeOK /\ call \in [Callers -> Calls] /\ life \in [Functions -> Lives]
      /\ call[c].stage = "give"
      /\ g \in Groups /\ f \in Functions /\ life[f] = "called"
      /\ \A d \in Callers : call[d].stage # "none" /\ call[d].function = f => d = c
      /\ UNCHANGED <<pc, position, attached, early, nonDaemon, eventQueue, mainPc>>
  BY DEF IInv, TypeOK, RunFunction, WithCaller, OwnGroup
<1>2. CASE Freed(g)
  BY <1>1, <1>2, QuietStep DEF RunFunction, Stays
<1>3. CASE ~ Freed(g)
  <2>1. /\ Push(g, f) /\ process' = "running" /\ call' = [call EXCEPT ![c] = NoCall]
        /\ late' = IF pc[g] \in {"queue", "expired", "dead"} THEN late \cup {f} ELSE late
    BY <1>3 DEF RunFunction
  <2>2. /\ call'[c].stage = "none" /\ \A d \in Callers \ {c} : call'[d] = call[d]
    BY <1>1, <2>1 DEF NoCall
  <2> HIDE DEF g, f
  <2>3. life'[f] = "given" /\ \A e \in Functions \ {f} : life'[e] = life[e]
    BY <1>1, <2>1, PushIs
  <2>4. \A h \in Groups, e \in Functions : Holds(h, e)' <=> (Holds(h, e) \/ (h = g /\ e = f))
    BY <1>1, <2>1, PushHolds
  <2>5. TypeOK'
    BY TypeStep DEF IInv
  <2>6. WithCaller'
    BY <1>1, <2>2, <2>3 DEF IInv, WithCaller
  <2>7. Queued'
    <3>1. \A i \in 1 .. Len(eventQueue) : eventQueue[i] \in Functions
      BY DEF IInv, TypeOK
    <3>2. QED
      BY <1>1, <2>3, <3>1 DEF IInv, Queued
  <2>8. InVector'
    BY <1>1, <2>3, <2>4 DEF IInv, InVector
  <2>9. CallersRun'
    BY <1>1, <2>2, <2>3, VirtualThreadsAssumption DEF IInv, CallersRun, Callers
  <2>10. \A d \in Callers, h \in Groups : Attaches(d, h)' <=> Attaches(d, h)
    BY <1>1, <2>2 DEF Attaches
  <2>11. GroupLives' /\ OwnGroup' /\ GroupsCounted'
    BY <1>1, <2>2, <2>10 DEF IInv, GroupLives, OwnGroup, GroupsCounted
  <2>12. LivesOn' /\ EndedUncounted'
    BY <1>1, <2>1, <2>3, <2>4 DEF IInv, LivesOn, EndedUncounted, Begun, Serves
  <2>13. Rooted'
    <3>1. \A h \in Groups : Load(h) > 0 => Load(h)' > 0
      BY <1>1, <2>1, PushGrows
    <3>2. QED
      BY <1>1, <2>3, <2>10, <3>1 DEF IInv, Rooted, Begun, Serves, Callers
  <2>14. HeldLate'
    <3>1. \A h \in Groups, e \in Functions :
            pc[h] \in {"queue", "expired", "dead"} /\ Holds(h, e) => e \in late
      BY <1>1, <2>5, HeldLateIs DEF IInv
    <3>2. \A h \in Groups, e \in Functions :
            pc'[h] \in {"queue", "expired", "dead"} /\ Holds(h, e)' => e \in late'
      BY <1>1, <2>1, <2>4, <3>1
    <3>3. QED
      BY <1>1, <2>5, <3>2, HeldLateIs
  <2>15. LostOnlyLate'
    BY <2>1, <2>3 DEF IInv, LostOnlyLate
  <2>16. QED
    BY <2>5, <2>6, <2>7, <2>8, <2>9, <2>11, <2>12, <2>13, <2>14, <2>15 DEF IInv
<1> QED
  BY <1>2, <1>3

(* From the event queue into the vector of a group, which goes back to its loop. *)
LEMMA TakeStep ==
  ASSUME IInv, [Next]_vars, NEW g \in Groups, TakeEvent(g)
  PROVE  IInv'
<1> DEFINE f == Head(eventQueue)
<1>1. /\ TypeOK /\ pc \in [Groups -> Pcs] /\ life \in [Functions -> Lives]
      /\ eventQueue \in Seq(Functions) /\ eventQueue # <<>>
      /\ pc[g] = "queue" /\ process' = "running"
      /\ Push(g, f) /\ eventQueue' = Tail(eventQueue) /\ pc' = [pc EXCEPT ![g] = "head"]
      /\ UNCHANGED <<position, attached, early, nonDaemon, call, late, mainPc>>
  BY DEF IInv, TypeOK, TakeEvent
<1>2. /\ f \in Functions /\ life[f] = "queued"
      /\ Len(eventQueue') \in Nat
      /\ \A i \in 1 .. Len(eventQueue') : /\ eventQueue'[i] \in Functions \ {f}
                                          /\ i + 1 \in 1 .. Len(eventQueue)
                                          /\ eventQueue'[i] = eventQueue[i + 1]
  BY <1>1, HeadLeaves DEF IInv
<1> HIDE DEF f
<1>3. pc'[g] = "head" /\ \A h \in Groups \ {g} : pc'[h] = pc[h]
  BY <1>1
<1>4. life'[f] = "given" /\ \A e \in Functions \ {f} : life'[e] = life[e]
  BY <1>1, <1>2, PushIs
<1>5. \A h \in Groups, e \in Functions : Holds(h, e)' <=> (Holds(h, e) \/ (h = g /\ e = f))
  BY <1>1, <1>2, PushHolds
<1>6. TypeOK'
  BY TypeStep DEF IInv
<1>7. WithCaller'
  BY <1>1, <1>2, <1>4 DEF IInv, WithCaller
<1>8. Queued'
  BY <1>2, <1>4, QueueShifted DEF IInv
<1>9. InVector'
  BY <1>1, <1>2, <1>4, <1>5 DEF IInv, InVector
<1>10. CallersRun'
  BY <1>1, <1>2, <1>4 DEF IInv, CallersRun
<1>11. GroupLives' /\ OwnGroup' /\ GroupsCounted'
  BY <1>1, <1>3 DEF IInv, GroupLives, OwnGroup, GroupsCounted, Attaches
<1>12. LivesOn' /\ EndedUncounted'
  BY <1>1, <1>2, <1>3, <1>4, <1>5 DEF IInv, LivesOn, EndedUncounted, Begun, Serves
<1>13. Rooted'
  <2>1. \A h \in Groups : Load(h) > 0 => Load(h)' > 0
    BY <1>1, <1>2, PushGrows
  <2>2. QED
    BY <1>1, <1>2, <1>3, <1>4, <2>1 DEF IInv, Rooted, Begun, Serves, Attaches
<1>14. HeldLate'
  <2>1. \A h \in Groups, e \in Functions :
          pc[h] \in {"queue", "expired", "dead"} /\ Holds(h, e) => e \in late
    BY <1>1, <1>6, HeldLateIs DEF IInv
  <2>2. \A h \in Groups, e \in Functions :
          pc'[h] \in {"queue", "expired", "dead"} /\ Holds(h, e)' => e \in late'
    BY <1>1, <1>3, <1>5, <2>1
  <2>3. QED
    BY <1>1, <1>6, <2>2, HeldLateIs
<1>15. LostOnlyLate'
  BY <1>1, <1>2, <1>4 DEF IInv, LostOnlyLate
<1> QED
  BY <1>6, <1>7, <1>8, <1>9, <1>10, <1>11, <1>12, <1>13, <1>14, <1>15 DEF IInv

LEMMA TakenStep ==
  ASSUME IInv, [Next]_vars, TakenByThread
  PROVE  IInv'
<1> DEFINE f == Head(eventQueue)
<1>1. /\ TypeOK /\ life \in [Functions -> Lives]
      /\ eventQueue \in Seq(Functions) /\ eventQueue # <<>> /\ process' = "running"
      /\ eventQueue' = Tail(eventQueue) /\ life' = [life EXCEPT ![f] = "elsewhere"]
      /\ UNCHANGED <<pc, vthreads, attached, early, nonDaemon, call, late, mainPc>>
  BY DEF IInv, TypeOK, TakenByThread
<1>2. /\ f \in Functions /\ life[f] = "queued"
      /\ Len(eventQueue') \in Nat
      /\ \A i \in 1 .. Len(eventQueue') : /\ eventQueue'[i] \in Functions \ {f}
                                          /\ i + 1 \in 1 .. Len(eventQueue)
                                          /\ eventQueue'[i] = eventQueue[i + 1]
  BY <1>1, HeadLeaves DEF IInv
<1> HIDE DEF f
<1>3. life'[f] = "elsewhere" /\ \A e \in Functions \ {f} : life'[e] = life[e]
  BY <1>1, <1>2
<1>4. TypeOK'
  BY TypeStep DEF IInv
<1>5. WithCaller'
  BY <1>1, <1>2, <1>3 DEF IInv, WithCaller
<1>6. Queued'
  BY <1>2, <1>3, QueueShifted DEF IInv
<1>7. InVector' /\ GroupsCounted' /\ LostOnlyLate' /\ HeldLate'
  BY <1>1, <1>2, <1>3, UnchangedHolds DEF IInv, InVector, GroupsCounted, LostOnlyLate, HeldLate, Load
<1>8. CallersRun'
  BY <1>1, <1>2, <1>3 DEF IInv, CallersRun
<1>9. GroupLives' /\ OwnGroup'
  BY <1>1 DEF IInv, GroupLives, OwnGroup, Attaches
<1>10. LivesOn' /\ EndedUncounted' /\ Rooted'
  BY <1>1, <1>2, <1>3, UnchangedHolds
     DEF IInv, LivesOn, EndedUncounted, Rooted, Begun, Serves, Load, Attaches
<1> QED
  BY <1>4, <1>5, <1>6, <1>7, <1>8, <1>9, <1>10 DEF IInv

(* A turn ends and the next begins: functions begin where they live. *)
LEMMA TurnStep ==
  ASSUME IInv, [Next]_vars, NEW g \in Groups, BeginPass(g) \/ EndTurn(g) \/ FunctionReturns(g)
  PROVE  IInv'
<1>1. TypeOK /\ TypeOK' /\ TurnPassed(g) /\ process = "running"
  BY TurnsPass, TypeStep DEF IInv, BeginPass, EndTurn, FunctionReturns
<1>2. UNCHANGED <<vthreads, attached, early, nonDaemon, eventQueue, call, late, mainPc>>
      /\ process' # "ended"
  BY <1>1 DEF TurnPassed
<1>3. /\ \A h \in Groups \ {g} : pc'[h] = pc[h]
      /\ pc[g] \in {"head", "empty", "turn"} /\ pc'[g] \in {"head", "empty", "turn"}
      /\ Load(g) > 0 => pc'[g] \in {"head", "turn"}
  BY <1>1 DEF TurnPassed
<1>4. \A f \in Functions :
        \/ life'[f] = life[f]
        \/ life[f] = "given" /\ life'[f] = "served" /\ Holds(g, f) /\ pc'[g] = "turn"
        \/ life[f] = "served" /\ life'[f] = "returned" /\ call[f].stage = "none"
  BY <1>1 DEF TurnPassed
<1>5. \A h \in Groups, e \in Functions : Holds(h, e)' <=> Holds(h, e)
  BY <1>2, UnchangedHolds
<1>6. \A h \in Groups : Serves(h) /\ Load(h) > 0 => Serves(h)'
  BY <1>2, <1>3 DEF Serves
<1>7. \A h \in Groups, e \in Functions : Holds(h, e) => Load(h) > 0
  BY <1>1, Loads DEF Holds
<1>8. WithCaller' /\ Queued'
  <2>1. \A i \in 1 .. Len(eventQueue) : eventQueue[i] \in Functions
    BY <1>1 DEF TypeOK
  <2>2. QED
    BY <1>2, <1>4, <2>1 DEF IInv, WithCaller, Queued
<1>9. InVector' /\ CallersRun'
  BY <1>2, <1>4, <1>5 DEF IInv, InVector, CallersRun
<1>10. GroupLives' /\ OwnGroup' /\ GroupsCounted'
  BY <1>2, <1>3 DEF IInv, GroupLives, OwnGroup, GroupsCounted, Attaches
<1>11. LivesOn'
  <2>1. ASSUME NEW f \in Functions, Begun(f)'
        PROVE  \E h \in Groups : Serves(h)' /\ Holds(h, f)'
    <3>1. CASE Begun(f)
      BY <1>5, <1>6, <1>7, <3>1 DEF IInv, LivesOn
    <3>2. CASE ~ Begun(f)
      <4>1. Holds(g, f) /\ pc'[g] = "turn"
        BY <1>4, <2>1, <3>2 DEF Begun
      <4>2. QED
        BY <1>5, <4>1 DEF Serves
    <3>3. QED
      BY <3>1, <3>2
  <2>2. QED
    BY <2>1 DEF LivesOn
<1>12. Rooted'
  <2>1. ASSUME early = {}, NEW f \in Functions, Begun(f)'
        PROVE  \E h \in Groups : Serves(h)' /\ Load(h) > 0 /\ (h \in attached \/ Attaches(Main, h))
    <3>1. CASE \E e \in Functions : Begun(e)
      BY <1>6, <2>1, <3>1 DEF IInv, Rooted
    <3>2. CASE ~ \E e \in Functions : Begun(e)
      <4>1. Holds(g, f) /\ pc'[g] = "turn" /\ Load(g) > 0
        BY <1>4, <1>7, <2>1, <3>2 DEF Begun
      <4>2. CASE g \in attached
        BY <4>1, <4>2 DEF Serves
      <4>3. CASE g \notin attached
        <5>1. PICK c \in Callers : Attaches(c, g)
          BY <1>3, <4>3 DEF IInv, GroupLives
        <5>2. c = Main
          BY <3>2, <5>1 DEF Callers, Attaches, Begun, IInv, CallersRun
        <5>3. QED
          BY <4>1, <5>1, <5>2 DEF Serves
      <4>4. QED
        BY <4>2, <4>3
    <3>3. QED
      BY <3>1, <3>2
  <2>2. QED
    BY <1>2, <2>1 DEF Rooted, Load, Attaches
<1>13. EndedUncounted' /\ HeldLate' /\ LostOnlyLate'
  BY <1>2, <1>3, <1>4 DEF IInv, EndedUncounted, HeldLate, LostOnlyLate, Load
<1> QED
  BY <1>1, <1>8, <1>9, <1>10, <1>11, <1>12, <1>13 DEF IInv

(* A group dies with what it holds, none of which has begun. *)
LEMMA DetachStep ==
  ASSUME IInv, [Next]_vars, NEW g \in Groups, DetachGroup(g)
  PROVE  IInv'
<1>1. /\ TypeOK /\ pc \in [Groups -> Pcs] /\ pc[g] = "expired"
      /\ pc' = [pc EXCEPT ![g] = "dead"] /\ process' = "running"
      /\ nonDaemon' = nonDaemon - 1 /\ attached' = attached \ {g}
      /\ early' = IF g \in attached THEN early ELSE early \cup {g}
      /\ \A f \in Functions : life'[f] = IF Holds(g, f) THEN "lost" ELSE life[f]
      /\ UNCHANGED <<vthreads, eventQueue, call, late, mainPc>>
  BY DEF IInv, TypeOK, DetachGroup, Holds
<1>2. pc'[g] = "dead" /\ \A h \in Groups \ {g} : pc'[h] = pc[h]
  BY <1>1
<1>3. TypeOK'
  BY TypeStep DEF IInv
<1>4. \A h \in Groups, e \in Functions : Holds(h, e)' <=> Holds(h, e)
  BY <1>1, UnchangedHolds
<1>5. \A f \in Functions : Begun(f) => ~ Holds(g, f)
  BY <1>1 DEF IInv, LivesOn, InVector, Serves
<1>6. WithCaller' /\ Queued' /\ InVector'
  <2>1. \A i \in 1 .. Len(eventQueue) : eventQueue[i] \in Functions
    BY <1>1 DEF TypeOK
  <2>2. \A f \in Functions : life[f] \in {"called", "queued"} => life'[f] = life[f]
    BY <1>1 DEF IInv, InVector
  <2>3. QED
    BY <1>1, <1>4, <2>1, <2>2 DEF IInv, WithCaller, Queued, InVector
<1>7. CallersRun'
  BY <1>1, <1>5 DEF IInv, CallersRun, Begun
<1>8. g \notin early
  BY <1>1 DEF IInv, GroupLives
<1>9. GroupLives'
  <2>1. IsFiniteSet(attached') /\ IsFiniteSet(early')
    BY <1>1, FS_AddElement, FS_Subset DEF IInv, GroupLives
  <2>2. QED
    BY <1>1, <1>2, <2>1 DEF IInv, GroupLives, Attaches
<1>10. OwnGroup'
  BY <1>1, <1>2 DEF IInv, OwnGroup, Attaches
<1>11. GroupsCounted'
  <2>1. IsFiniteSet(attached \ early) /\ IsFiniteSet(early \ attached)
    BY FS_Subset DEF IInv, GroupLives
  <2>2. /\ Cardinality(attached \ early) \in Nat /\ Cardinality(early \ attached) \in Nat
        /\ nonDaemon = Cardinality(attached \ early) - Cardinality(early \ attached)
    BY <2>1, FS_CardinalityType DEF IInv, GroupsCounted
  <2>3. CASE g \in attached
    <3>1. attached' \ early' = (attached \ early) \ {g} /\ early' \ attached' = early \ attached
          /\ g \in attached \ early
      BY <1>1, <1>8, <2>3
    <3>2. Cardinality((attached \ early) \ {g}) = Cardinality(attached \ early) - 1
      BY <2>1, <3>1, FS_RemoveElement
    <3>3. nonDaemon' = Cardinality((attached \ early) \ {g}) - Cardinality(early \ attached)
      BY <1>1, <2>2, <3>2
    <3>4. QED
      BY <3>1, <3>3 DEF GroupsCounted
  <2>4. CASE g \notin attached
    <3>1. attached' \ early' = attached \ early /\ early' \ attached' = (early \ attached) \cup {g}
          /\ g \notin early \ attached
      BY <1>1, <1>8, <2>4
    <3>2. Cardinality((early \ attached) \cup {g}) = Cardinality(early \ attached) + 1
      BY <2>1, <3>1, FS_AddElement
    <3>3. nonDaemon' = Cardinality(attached \ early) - Cardinality((early \ attached) \cup {g})
      BY <1>1, <2>2, <3>2
    <3>4. QED
      BY <3>1, <3>3 DEF GroupsCounted
  <2>5. QED
    BY <2>3, <2>4
<1>12. \A f \in Functions : Begun(f)' => Begun(f) /\ life'[f] = life[f]
  BY <1>1 DEF Begun
<1>13. \A h \in Groups : Serves(h) => h # g /\ Serves(h)'
  BY <1>1, <1>2 DEF Serves
<1>14. LivesOn' /\ EndedUncounted'
  BY <1>1, <1>4, <1>12, <1>13 DEF IInv, LivesOn, EndedUncounted
<1>15. Rooted'
  BY <1>1, <1>12, <1>13 DEF IInv, Rooted, Load, Attaches
<1>16. HeldLate'
  BY <1>1, <1>2 DEF IInv, HeldLate, Load
<1>17. LostOnlyLate'
  <2>1. \A f \in Functions : Holds(g, f) => f \in late
    BY <1>1 DEF IInv, HeldLate, Holds
  <2>2. QED
    BY <1>1, <2>1 DEF IInv, LostOnlyLate
<1> QED
  BY <1>3, <1>6, <1>7, <1>9, <1>10, <1>11, <1>14, <1>15, <1>16, <1>17 DEF IInv

LEMMA Inductive == IInv /\ [Next]_vars => IInv'
BY ScheduleStep, EnqueueStep, LaunchStep, AttachStep, RunStep, TurnStep, TakeStep, TakenStep,
   DetachStep, StandingStep DEF Next, Launch, Serve

LEMMA Invariance == Spec => []IInv
BY InitIInv, Inductive, PTL DEF Spec

-------------------------------------------------------------------------------

(* Once a virtual thread has had a turn its group serves on, and main does not *)
(* end the process under it, unless a group has detached before it was         *)
(* attached: the groups are counted right through every launch and every end.  *)
THEOREM GroupsSoundCorrect == Spec => []GroupsSound
<1>1. IInv => GroupsSound
  <2> SUFFICES ASSUME IInv PROVE GroupsSound
    OBVIOUS
  <2>1. ServedLiveOn
    BY DEF IInv, LivesOn, EndedUncounted, ServedLiveOn, Begun, Serves, Holds
  <2>2. QED
    BY <2>1 DEF IInv, GroupsSound
<1>2. QED
  BY <1>1, Invariance, PTL

(* Only what was given to a group that no longer waited is lost with it. *)
THEOREM LostOnlyLateCorrect == Spec => []LostOnlyLate
<1>1. IInv => LostOnlyLate
  BY DEF IInv
<1>2. QED
  BY <1>1, Invariance, PTL

================================================================================
