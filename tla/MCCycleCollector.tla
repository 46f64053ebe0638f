--------------------------- MODULE MCCycleCollector ---------------------------
(* Model values and symmetry for the runs of CycleCollector.               *)
EXTENDS CycleCollector, TLC

Symmetry == Permutations(Objects)

===============================================================================
