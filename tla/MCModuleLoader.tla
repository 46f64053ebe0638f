---------------------------- MODULE MCModuleLoader ----------------------------
(* Instances for TLC of the linker's two tables.  ModuleLoader: three threads,  *)
(* so that a waiter can find another waiter beside the loader.  StartUp: a      *)
(* plugin that can be opened, one that cannot and one without a file; the first *)
(* has a function that the VM overrides.  A behaviour is of one of the two.     *)
EXTENDS ModuleLoader, StartUp

CONSTANTS p1, p2, p3

OneDirectory == {"."}
SomeFiles == { <<".", p1>>, <<".", p2>> }
SomeExports == [p \in {p1, p2, p3} |->
                  IF p = p1 THEN {"copy", "own"} ELSE IF p = p2 THEN {"own", "exit"} ELSE {}]

\* StartUp has not begun.
NoStart ==
  /\ process = "absent"
  /\ step = 1 /\ ready = {} /\ plugins = {} /\ handle = {} /\ raced = {}
  /\ code = [f \in Natives |-> "null"]
  /\ opened = [p \in Plugins |-> 0]
  /\ pluginMutex = NoThread
  /\ mutex = [p \in Plugins |-> NoThread]
  /\ at = [t \in StartThreads |-> Place("none")]
  /\ uses = [t \in StartThreads |-> 0]

LinkerInit == Init /\ (StartInit \/ NoStart)

LinkerSpec ==
  /\ LinkerInit
  /\ [][\/ process = "absent" /\ Next /\ UNCHANGED startVars
        \/ StartNext /\ UNCHANGED vars]_<<vars, startVars>>
  /\ Fairness
  /\ StartFairness

===============================================================================
