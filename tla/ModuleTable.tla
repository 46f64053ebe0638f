------------------------------ MODULE ModuleTable ------------------------------
(***************************************************************************)
(* What the linker promises of modules, without its locks, waiting or      *)
(* records: a name is bound to a module at most once and for good, and     *)
(* LoadModule gives whoever asks for a name the module bound to it at that *)
(* moment, or nothing.  Whoever brings a module for a name has it bound    *)
(* and gets it back, or is refused: the name is taken, or about to be.     *)
(***************************************************************************)
CONSTANTS Threads, Names, Modules, NoModule

VARIABLES
  bound,    \* the module of each name, or NoModule
  answer    \* what the last call of each thread returned: a name and a module,
            \* or NoModule if it was refused

Init ==
  /\ bound = [n \in Names |-> NoModule]
  /\ answer = [t \in Threads |-> NoModule]

Bind(n, m) ==
  /\ bound[n] = NoModule
  /\ bound' = [bound EXCEPT ![n] = m]

Answer(t, n, m) == answer' = [answer EXCEPT ![t] = <<n, m>>]

Refuse(t) == answer' = [answer EXCEPT ![t] = NoModule]

Next ==
  \/ \E n \in Names :
       \/ \E m \in Modules : Bind(n, m) /\ UNCHANGED answer
       \/ \E m \in Modules, t \in Threads : Bind(n, m) /\ Answer(t, n, m)
       \/ \E t \in Threads : Answer(t, n, bound[n]) /\ UNCHANGED bound
  \/ \E t \in Threads : Refuse(t) /\ UNCHANGED bound

Spec == Init /\ [][Next]_<<bound, answer>>

===============================================================================
