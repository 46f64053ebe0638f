----------------------------- MODULE MCDaemonWake -----------------------------
(* Instances of DaemonWake for TLC. *)
EXTENDS DaemonWake

===============================================================================
