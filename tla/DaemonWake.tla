------------------------------ MODULE DaemonWake ------------------------------
(***************************************************************************)
(* A daemon that hibernates and is woken (framework/src/executors/         *)
(* Daemon.cpp, Threading::LaunchDaemon), with the one daemon the VM has:   *)
(* the collector of framework/src/heap/gc/GC-Daemon.cpp.                   *)
(*                                                                         *)
(* Main launches the daemon and, when the program is over, waits until it  *)
(* is ready, finalizes it, begins the last collection and waits for its    *)
(* end.  In between, mutators begin a collection for every global epoch.   *)
(*                                                                         *)
(* wake() takes no lock, so hibernate() is cut at each access to mSleeping *)
(* and where the wait begins.  mMutex is taken by the daemon alone and     *)
(* left out.                                                               *)
(***************************************************************************)
EXTENDS Integers

CONSTANTS
  Main,
  Mutators,
  MaxRequests   \* bound on the collections that mutators begin

ASSUME DaemonAssumption == Main \notin Mutators /\ MaxRequests \in Nat

Nobody == "nobody"

Clients == Mutators \cup {Main}

VARIABLES
  daemonPc,          \* where the daemon's native thread is
  entered,           \* Daemon::start has called mEntry
  mSleeping,         \* Daemon::mSleeping
  clientPc,          \* where each client is
  nonDaemonThreads,  \* a crucial daemon counts until it ends
  readyMutex,        \* its holder
  isReady,
  finalize,
  requests,          \* calls of BeginCollection that have stored mSleeping
  collections,       \* calls of ProcessCycles
  faulted            \* wake() was called on a deleted Daemon

vars == <<daemonPc, entered, mSleeping, clientPc, nonDaemonThreads, readyMutex,
          isReady, finalize, requests, collections, faulted>>

DaemonPcs ==
  { "unborn",
    "hibernate",   \* enters hibernate()
    "check",       \* evaluates the predicate of the wait
    "block",       \* found itself sleeping, not yet waiting
    "waiting",     \* in the wait
    "lock",        \* waits for readyMutex
    "collect",     \* in ProcessCycles
    "collected",   \* holds readyMutex still
    "ending",      \* has left the loop of Entry
    "gone" }       \* detached and deleted

ClientPcs ==
  { "spawn", "attach", "wakeStore", "wakeNotify", "launched",  \* GC::Daemon::Launch
    "idle",                                      \* runs the program
    "waitReady", "finalize",                     \* the last collection ...
    "lock", "store", "notify",                   \* BeginCollection
    "waitAll", "ended" }                         \* WaitForAllThreads

Init ==
  /\ daemonPc = "unborn"
  /\ entered = FALSE
  /\ mSleeping = TRUE
  /\ clientPc = [c \in Clients |-> IF c = Main THEN "spawn" ELSE "idle"]
  /\ nonDaemonThreads = 0
  /\ readyMutex = Nobody
  /\ isReady = FALSE
  /\ finalize = FALSE
  /\ requests = 0
  /\ collections = 0
  /\ faulted = FALSE

ready == <<readyMutex, isReady, finalize>>
counts == <<requests, collections>>

-------------------------------------------------------------------------------
(* LaunchDaemon and GC::Daemon::Launch, by the main thread.                *)

Go(c, from, to) ==
  /\ clientPc[c] = from
  /\ clientPc' = [clientPc EXCEPT ![c] = to]

SpawnDaemon ==
  /\ Go(Main, "spawn", "attach")
  /\ daemonPc' = "hibernate"
  /\ UNCHANGED <<entered, mSleeping, nonDaemonThreads, ready, counts, faulted>>

AttachDaemon ==
  /\ Go(Main, "attach", "wakeStore")
  /\ nonDaemonThreads' = nonDaemonThreads + 1
  /\ UNCHANGED <<daemonPc, entered, mSleeping, ready, counts, faulted>>

\* wake(), first half.
LaunchWake ==
  /\ Go(Main, "wakeStore", "wakeNotify")
  /\ mSleeping' = FALSE
  /\ UNCHANGED <<daemonPc, entered, nonDaemonThreads, ready, counts, faulted>>

\* Mutant of Notified: the notification is lost.
NotNotified == daemonPc

\* notify_all: it reaches the daemon only if the wait has begun.
Notified == IF daemonPc = "waiting" THEN "check" ELSE daemonPc

\* wake(), second half.
LaunchNotify ==
  /\ Go(Main, "wakeNotify", "launched")
  /\ daemonPc' = Notified
  /\ UNCHANGED <<entered, mSleeping, nonDaemonThreads, ready, counts, faulted>>

SetReady ==
  /\ Go(Main, "launched", "idle")
  /\ isReady' = TRUE
  /\ UNCHANGED <<daemonPc, entered, mSleeping, nonDaemonThreads, readyMutex,
                 finalize, counts, faulted>>

-------------------------------------------------------------------------------
(* The daemon: Daemon::start, and Entry after it.                          *)

\* Mutant of Hibernate: hibernate() does not put the daemon to sleep.
HibernateAwake ==
  /\ daemonPc = "hibernate"
  /\ daemonPc' = "check"
  /\ UNCHANGED <<entered, mSleeping, clientPc, nonDaemonThreads, ready, counts,
                 faulted>>

\* hibernate(), whatever wake() has stored before.
Hibernate ==
  /\ daemonPc = "hibernate"
  /\ daemonPc' = "check"
  /\ mSleeping' = TRUE
  /\ UNCHANGED <<entered, clientPc, nonDaemonThreads, ready, counts, faulted>>

\* The predicate of the wait.  Awake, start calls mEntry, whose loop hibernates
\* at once, and Entry goes on to its collection.
Check ==
  /\ daemonPc = "check"
  /\ entered' = (entered \/ ~mSleeping)
  /\ daemonPc' = IF mSleeping THEN "block"
                 ELSE IF entered THEN "lock" ELSE "hibernate"
  /\ UNCHANGED <<mSleeping, clientPc, nonDaemonThreads, ready, counts, faulted>>

Block ==
  /\ daemonPc = "block"
  /\ daemonPc' = "waiting"
  /\ UNCHANGED <<entered, mSleeping, clientPc, nonDaemonThreads, ready, counts,
                 faulted>>

\* A condition variable may return unasked.
SpuriousWake ==
  /\ daemonPc = "waiting"
  /\ daemonPc' = "check"
  /\ UNCHANGED <<entered, mSleeping, clientPc, nonDaemonThreads, ready, counts,
                 faulted>>

LockReady ==
  /\ daemonPc = "lock"
  /\ readyMutex = Nobody
  /\ readyMutex' = "daemon"
  /\ isReady' = FALSE
  /\ daemonPc' = "collect"
  /\ UNCHANGED <<entered, mSleeping, clientPc, nonDaemonThreads, finalize, counts,
                 faulted>>

Collect ==
  /\ daemonPc = "collect"
  /\ collections' = collections + 1
  /\ isReady' = TRUE
  /\ daemonPc' = "collected"
  /\ UNCHANGED <<entered, mSleeping, clientPc, nonDaemonThreads, readyMutex,
                 finalize, requests, faulted>>

\* The end of the loop's body, or the break; readyMutex is released.
EndCollection ==
  /\ daemonPc = "collected"
  /\ readyMutex' = Nobody
  /\ daemonPc' = IF finalize THEN "ending" ELSE "hibernate"
  /\ UNCHANGED <<entered, mSleeping, clientPc, nonDaemonThreads, isReady, finalize,
                 counts, faulted>>

\* Mutant of EndDaemon: a crucial daemon is not counted down.
EndDaemonUncounted ==
  /\ daemonPc = "ending"
  /\ daemonPc' = "gone"
  /\ UNCHANGED <<entered, mSleeping, clientPc, nonDaemonThreads, ready, counts,
                 faulted>>

\* The end of DaemonEntry: the Daemon is deleted.
EndDaemon ==
  /\ daemonPc = "ending"
  /\ nonDaemonThreads' = nonDaemonThreads - 1
  /\ daemonPc' = "gone"
  /\ UNCHANGED <<entered, mSleeping, clientPc, ready, counts, faulted>>

-------------------------------------------------------------------------------
(* The clients.                                                            *)

Launched == clientPc[Main] \notin {"spawn", "attach", "wakeStore", "wakeNotify", "launched"}

\* A mutator begins a collection; mutators run when main has launched the daemon.
Request(c) ==
  /\ c \in Mutators
  /\ Launched
  /\ requests < MaxRequests
  /\ Go(c, "idle", "lock")
  /\ UNCHANGED <<daemonPc, entered, mSleeping, nonDaemonThreads, ready, counts,
                 faulted>>

\* BeginCollection takes readyMutex.
LockRequest(c) ==
  /\ Go(c, "lock", "store")
  /\ readyMutex = Nobody
  /\ readyMutex' = c
  /\ UNCHANGED <<daemonPc, entered, mSleeping, nonDaemonThreads, isReady, finalize,
                 counts, faulted>>

\* wake(), first half; gcDaemon still points to the Daemon when it is deleted.
StoreRequest(c) ==
  /\ Go(c, "store", "notify")
  /\ faulted' = (daemonPc = "gone")
  /\ mSleeping' = FALSE
  /\ requests' = requests + 1
  /\ UNCHANGED <<daemonPc, entered, nonDaemonThreads, ready, collections>>

\* wake(), second half; readyMutex is released.
NotifyRequest(c) ==
  /\ Go(c, "notify", IF c = Main THEN "waitAll" ELSE "idle")
  /\ daemonPc' = Notified
  /\ readyMutex' = Nobody
  /\ UNCHANGED <<entered, mSleeping, nonDaemonThreads, isReady, finalize, counts,
                 faulted>>

\* The program's main function has returned.
ProgramEnds ==
  /\ Go(Main, "idle", "waitReady")
  /\ UNCHANGED <<daemonPc, entered, mSleeping, nonDaemonThreads, ready, counts,
                 faulted>>

\* WaitUntilReady returns.  notify_one reaches the one waiter there is.
WaitUntilReady ==
  /\ readyMutex = Nobody
  /\ isReady
  /\ Go(Main, "waitReady", "finalize")
  /\ UNCHANGED <<daemonPc, entered, mSleeping, nonDaemonThreads, ready, counts,
                 faulted>>

Finalize ==
  /\ Go(Main, "finalize", "lock")
  /\ finalize' = TRUE
  /\ UNCHANGED <<daemonPc, entered, mSleeping, nonDaemonThreads, readyMutex, isReady,
                 counts, faulted>>

WaitForAllThreads ==
  /\ nonDaemonThreads = 0
  /\ Go(Main, "waitAll", "ended")
  /\ UNCHANGED <<daemonPc, entered, mSleeping, nonDaemonThreads, ready, counts,
                 faulted>>

-------------------------------------------------------------------------------

Launch == SpawnDaemon \/ AttachDaemon \/ LaunchWake \/ LaunchNotify \/ SetReady

DaemonStep ==
  Hibernate \/ Check \/ Block \/ LockReady \/ Collect \/ EndCollection \/ EndDaemon

ClientStep(c) == LockRequest(c) \/ StoreRequest(c) \/ NotifyRequest(c)

Shutdown == WaitUntilReady \/ Finalize \/ WaitForAllThreads

Alive == clientPc[Main] # "ended" /\ ~faulted

Next ==
  /\ Alive
  /\ \/ Launch
     \/ DaemonStep
     \/ SpuriousWake
     \/ \E c \in Clients : Request(c) \/ ClientStep(c)
     \/ ProgramEnds
     \/ Shutdown

Spec == Init /\ [][Next]_vars

\* Threads that can run do; nothing promises a spurious wake-up.
FairSpec ==
  /\ Spec
  /\ WF_vars(Alive /\ Launch)
  /\ WF_vars(Alive /\ DaemonStep)
  /\ \A c \in Clients : WF_vars(Alive /\ ClientStep(c))
  /\ WF_vars(Alive /\ Shutdown)

-------------------------------------------------------------------------------

\* The type invariant.
TypeOK ==
  /\ daemonPc \in DaemonPcs
  /\ entered \in BOOLEAN
  /\ mSleeping \in BOOLEAN
  /\ clientPc \in [Clients -> ClientPcs]
  /\ nonDaemonThreads \in Nat
  /\ readyMutex \in Clients \cup {Nobody, "daemon"}
  /\ isReady \in BOOLEAN
  /\ finalize \in BOOLEAN
  /\ requests \in Nat
  /\ collections \in Nat
  /\ faulted \in BOOLEAN

\* The daemon collects only when it was asked to: no wake-up serves for two
\* collections, and the one of LaunchDaemon for none.
CollectsOnRequest ==
  collections + (IF daemonPc \in {"lock", "collect"} THEN 1 ELSE 0) <= requests

\* Whoever wakes the collector while it waits gets a collection.
WokenCollects ==
  (/\ entered /\ daemonPc = "waiting" /\ ~mSleeping
   /\ \E c \in Clients : clientPc[c] = "notify")
    ~> (daemonPc = "collect" \/ faulted)

\* The last collection, once begun while the collector waits, ends the daemon and
\* with it WaitForAllThreads.
LastCollectionEnds ==
  (/\ entered /\ daemonPc = "waiting" /\ ~mSleeping
   /\ clientPc[Main] = "notify")
    ~> (clientPc[Main] = "ended" \/ faulted)

===============================================================================
