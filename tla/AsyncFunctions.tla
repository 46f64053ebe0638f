---------------------------- MODULE AsyncFunctions ----------------------------
(***************************************************************************)
(* What an asynchronous call promises, whatever threads there are: a       *)
(* function that is called waits until some thread takes charge of it, is  *)
(* run once, and returns; the program does not end while one that somebody *)
(* has charge of has not returned.  What waits may wait for ever, and the  *)
(* process may be aborted at any time.                                     *)
(***************************************************************************)
CONSTANTS Functions

VARIABLES
  stage,     \* how far each function has come
  program    \* "on" until the program ends or is aborted

vars == <<stage, program>>

Stages == {"new", "taken", "waiting", "running", "done", "handed over"}

Init ==
  /\ stage = [f \in Functions |-> "new"]
  /\ program = "on"

Moves(f, from, to) ==
  /\ program = "on"
  /\ stage[f] = from
  /\ stage' = [stage EXCEPT ![f] = to]
  /\ UNCHANGED program

\* The call, by a caller that has charge of the function until it has a thread for it.
Call(f) == Moves(f, "new", "taken")

\* The call of a function that a group of virtual threads takes over for good.
HandOver(f) == Moves(f, "new", "handed over")

\* Nobody has charge of it any more, ...
Leave(f) == Moves(f, "taken", "waiting")

\* ... and somebody has again.
Take(f) == Moves(f, "waiting", "taken")

Run(f) == Moves(f, "taken", "running")

Return(f) == Moves(f, "running", "done")

\* The program ends, with no function in anybody's charge.
End ==
  /\ program = "on"
  /\ \A f \in Functions : stage[f] \in {"new", "waiting", "done"}
  /\ program' = "ended"
  /\ UNCHANGED stage

\* std::exit or a fault ...
Abort ==
  /\ program = "on"
  /\ program' = "aborted"
  /\ UNCHANGED stage

\* ... which may be what a function does that is run.
RunAndAbort(f) ==
  /\ program = "on"
  /\ stage[f] = "taken"
  /\ stage' = [stage EXCEPT ![f] = "running"]
  /\ program' = "aborted"

Next ==
  \/ \E f \in Functions :
       \/ Call(f) \/ HandOver(f) \/ Leave(f) \/ Take(f)
       \/ Run(f) \/ Return(f) \/ RunAndAbort(f)
  \/ End
  \/ Abort

Spec == Init /\ [][Next]_vars

===============================================================================
