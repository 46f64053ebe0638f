----------------------------- MODULE MCNativeCalls -----------------------------
(* Symmetry for the runs of NativeCalls.                                   *)
EXTENDS NativeCalls, TLC

Symmetry == Permutations(Objects) \cup Permutations(Modules)

===============================================================================
