---------------------------- MODULE MCEpochAdvance ----------------------------
(* An instance of EpochAdvance for TLC. *)
EXTENDS EpochAdvance

===============================================================================
