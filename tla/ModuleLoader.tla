----------------------------- MODULE ModuleLoader -----------------------------
(***************************************************************************)
(* The linker's table of modules (framework/src/Linker.cpp): LoadModule,   *)
(* FindModule and AddExistingModule for the modules that have no linker    *)
(* object.                                                                 *)
(*                                                                         *)
(* One mutex guards the table and is held throughout, except while a       *)
(* module is read from its file, while its #LinkInit runs and while a      *)
(* thread waits on the one condition variable.  So a call of LoadModule is *)
(* cut at those places and nowhere else.  #LinkInit is bytecode and may    *)
(* load modules in turn; reading a file does not.                          *)
(***************************************************************************)
EXTENDS Integers, Sequences, FiniteSets

CONSTANTS
  Threads,
  Names,       \* of modules, interned
  Records,     \* addresses for LinkerModule records and the modules they own
  NoModule,    \* nullptr
  MaxDepth     \* bound on the #LinkInit functions active in one thread

ASSUME LoaderAssumption ==
  /\ IsFiniteSet(Threads)
  /\ NoModule \notin Records
  /\ MaxDepth \in Nat

VARIABLES
  status,          \* of each name in the map modules; "absent" if it is not there
  record,          \* the LinkerModule of each name
  threadsWaiting,  \* its counter
  call,            \* the LoadModule a thread is in: reading a file or waiting
  inits,           \* the modules whose #LinkInit is active in each thread
  notified,        \* the waiting threads that notify_all has reached
  answer           \* a name and what the last call of each thread returned for it;
                   \* no name if that call refused a module, or there was none

vars == <<status, record, threadsWaiting, call, inits, notified, answer>>

modules == <<status, record, threadsWaiting>>

NoCall == [stage |-> "none", name |-> NoModule, record |-> NoModule]

Init ==
  /\ status = [n \in Names |-> "absent"]
  /\ record = [n \in Names |-> NoModule]
  /\ threadsWaiting = [n \in Names |-> 0]
  /\ call = [t \in Threads |-> NoCall]
  /\ inits = [t \in Threads |-> <<>>]
  /\ notified = {}
  /\ answer = [t \in Threads |-> NoModule]

\* A record and the module it owns go by one address.
Module(n) ==
  IF status[n] = "LOADED" THEN record[n] ELSE NoModule

\* Addresses that a new record can have; that of name n is given back.
Free(n) == Records \ { record[m] : m \in Names \ {n} }

\* The thread runs code that may call the linker.
Running(t) == call[t].stage = "none"

WaitingFor(n) == { t \in Threads : call[t].stage = "waiting" /\ call[t].name = n }

NotifyAll == notified' = { t \in Threads : call[t].stage = "waiting" }

Return(t, n, module) == answer' = [answer EXCEPT ![t] = <<n, module>>]

\* emplace: a new record, LOADING, and off to read the file.
BeginLoad(t, n) ==
  \E r \in Free(n) :
    /\ status' = [status EXCEPT ![n] = "LOADING"]
    /\ record' = [record EXCEPT ![n] = r]
    /\ threadsWaiting' = [threadsWaiting EXCEPT ![n] = 0]
    /\ call' = [call EXCEPT ![t] = [stage |-> "bootstrap", name |-> n, record |-> r]]

-------------------------------------------------------------------------------
(* LoadModule, up to the first place where it lets go of the mutex.        *)

\* Mutant of LoadNew: FindModule does not know a module that is being loaded.
LoadAgain(t, n) ==
  /\ Running(t)
  /\ Len(inits[t]) < MaxDepth
  /\ status[n] \in {"absent", "LOADING"}
  /\ BeginLoad(t, n)
  /\ UNCHANGED <<inits, notified, answer>>

\* The module is not in the table.
LoadNew(t, n) ==
  /\ Running(t)
  /\ Len(inits[t]) < MaxDepth
  /\ status[n] = "absent"
  /\ BeginLoad(t, n)
  /\ UNCHANGED <<inits, notified, answer>>

\* The module is there, or known not to be: FindModule's wait ends at once.  (A
\* record that is NOT_FOUND has waiters, so FindModule does not remove it.)
LoadKnown(t, n) ==
  /\ Running(t)
  /\ status[n] \in {"LOADED", "NOT_FOUND"}
  /\ Return(t, n, Module(n))
  /\ UNCHANGED <<modules, call, inits, notified>>

\* FindModule waits for the thread that is loading the module: another one, as
\* this one is not reading a file.
WaitForLoad(t, n) ==
  /\ Running(t)
  /\ status[n] = "LOADING"
  /\ threadsWaiting' = [threadsWaiting EXCEPT ![n] = @ + 1]
  /\ call' = [call EXCEPT ![t] =
       [stage |-> "waiting", name |-> n, record |-> record[n]]]
  /\ UNCHANGED <<status, record, inits, notified, answer>>

-------------------------------------------------------------------------------
(* The rest of LoadModule for a thread that waits.                         *)

\* Woken for another module's sake: the wait goes on.
WaitOn(t, n) ==
  /\ t \in WaitingFor(n)
  /\ t \in notified
  /\ status[n] = "LOADING"
  /\ notified' = notified \ {t}
  /\ UNCHANGED <<modules, call, inits, answer>>

\* The load is over, well or badly.  The wake-up may be spurious.
WakeUp(t, n) ==
  /\ t \in WaitingFor(n)
  /\ \/ status[n] = "LOADED"
     \/ status[n] = "NOT_FOUND" /\ threadsWaiting[n] # 1
  /\ threadsWaiting' = [threadsWaiting EXCEPT ![n] = @ - 1]
  /\ call' = [call EXCEPT ![t] = NoCall]
  /\ notified' = notified \ {t}
  /\ Return(t, n, Module(n))
  /\ UNCHANGED <<status, record, inits>>

\* Mutant of LoadAfterAll: the first to see NOT_FOUND removes the record.
LoadAfterFirst(t, n) ==
  /\ t \in WaitingFor(n)
  /\ status[n] = "NOT_FOUND"
  /\ BeginLoad(t, n)
  /\ notified' = notified \ {t}
  /\ UNCHANGED <<inits, answer>>

\* The last of the waiters to see NOT_FOUND removes the record, and then tries to
\* load the module itself.
LoadAfterAll(t, n) ==
  /\ t \in WaitingFor(n)
  /\ status[n] = "NOT_FOUND"
  /\ threadsWaiting[n] = 1
  /\ BeginLoad(t, n)
  /\ notified' = notified \ {t}
  /\ UNCHANGED <<inits, answer>>

-------------------------------------------------------------------------------
(* The rest of LoadModule for the thread that loads.                       *)

\* LoadModuleWithBootstrap has found no file, or no module in it.
LoadFails(t, n) ==
  /\ call[t].stage = "bootstrap"
  /\ call[t].name = n
  /\ status' = [status EXCEPT ![n] =
       IF threadsWaiting[n] = 0 THEN "absent" ELSE "NOT_FOUND"]
  /\ record' = [record EXCEPT ![n] = IF threadsWaiting[n] = 0 THEN NoModule ELSE @]
  /\ call' = [call EXCEPT ![t] = NoCall]
  /\ NotifyAll
  /\ Return(t, n, NoModule)
  /\ UNCHANGED <<threadsWaiting, inits>>

\* LoadModuleWithBootstrap has made the module: from here on it is LOADED, and
\* its #LinkInit begins.
LoadSucceeds(t, n) ==
  /\ call[t].stage = "bootstrap"
  /\ call[t].name = n
  /\ status' = [status EXCEPT ![n] = "LOADED"]
  /\ call' = [call EXCEPT ![t] = NoCall]
  /\ inits' = [inits EXCEPT ![t] = Append(@, n)]
  /\ UNCHANGED <<record, threadsWaiting, notified, answer>>

\* Mutant of FinishInit: only a failed load notifies.
FinishInitSilently(t) ==
  /\ Running(t)
  /\ inits[t] # <<>>
  /\ Return(t, inits[t][Len(inits[t])], Module(inits[t][Len(inits[t])]))
  /\ inits' = [inits EXCEPT ![t] = SubSeq(@, 1, Len(@) - 1)]
  /\ UNCHANGED <<modules, call, notified>>

\* #LinkInit has returned, if the module has one.  Only now are the waiters told.
FinishInit(t) ==
  /\ Running(t)
  /\ inits[t] # <<>>
  /\ NotifyAll
  /\ Return(t, inits[t][Len(inits[t])], Module(inits[t][Len(inits[t])]))
  /\ inits' = [inits EXCEPT ![t] = SubSeq(@, 1, Len(@) - 1)]
  /\ UNCHANGED <<modules, call>>

-------------------------------------------------------------------------------

\* Mutant of AddExistingModule: operator[] in place of emplace.
ReplaceExistingModule(t, n) ==
  /\ Running(t)
  /\ \E r \in Free(n) :
       /\ record' = [record EXCEPT ![n] = r]
       /\ Return(t, n, r)
  /\ status' = [status EXCEPT ![n] = "LOADED"]
  /\ NotifyAll
  /\ UNCHANGED <<threadsWaiting, call, inits>>

\* A native function has made a module and its #LinkInit has run.  The name is free.
AddExistingModule(t, n) ==
  /\ Running(t)
  /\ status[n] = "absent"
  /\ \E r \in Free(n) :
       /\ record' = [record EXCEPT ![n] = r]
       /\ Return(t, n, r)
  /\ status' = [status EXCEPT ![n] = "LOADED"]
  /\ NotifyAll
  /\ UNCHANGED <<threadsWaiting, call, inits>>

\* The name is taken, by a record in whatever state: emplace adds nothing, the
\* module that was brought is deleted, and the answer is nullptr.
ExistingRefused(t, n) ==
  /\ Running(t)
  /\ status[n] # "absent"
  /\ answer' = [answer EXCEPT ![t] = NoModule]
  /\ UNCHANGED <<modules, call, inits, notified>>

-------------------------------------------------------------------------------

Next ==
  \E t \in Threads :
    \/ \E n \in Names :
         \/ LoadNew(t, n)
         \/ LoadKnown(t, n)
         \/ WaitForLoad(t, n)
         \/ WaitOn(t, n)
         \/ WakeUp(t, n)
         \/ LoadAfterAll(t, n)
         \/ LoadFails(t, n)
         \/ LoadSucceeds(t, n)
         \/ AddExistingModule(t, n)
         \/ ExistingRefused(t, n)
    \/ FinishInit(t)

Spec == Init /\ [][Next]_vars

\* A woken thread goes on, a file is read in the end, and #LinkInit returns
\* however many modules it loads.
Fairness ==
  \A t \in Threads :
    /\ WF_vars(t \in notified /\ \E n \in Names : WakeUp(t, n) \/ LoadAfterAll(t, n))
    /\ WF_vars(\E n \in Names : LoadFails(t, n) \/ LoadSucceeds(t, n))
    /\ SF_vars(FinishInit(t))

FairSpec == Spec /\ Fairness

-------------------------------------------------------------------------------

\* The type invariant.
TypeOK ==
  /\ status \in [Names -> {"absent", "LOADING", "LOADED", "NOT_FOUND"}]
  /\ record \in [Names -> Records \cup {NoModule}]
  /\ threadsWaiting \in [Names -> Nat]
  /\ call \in [Threads -> [stage : {"none", "bootstrap", "waiting"},
                           name : Names \cup {NoModule},
                           record : Records \cup {NoModule}]]
  /\ inits \in [Threads -> Seq(Names)]
  /\ notified \in SUBSET Threads
  /\ answer \in [Threads -> (Names \X (Records \cup {NoModule})) \cup {NoModule}]

\* FindModule and LoadModule keep a pointer to the record while they do not hold
\* the mutex: whatever the others do meanwhile, the record is still the one in the
\* table, and threadsWaiting counts those that wait for it.
RecordsKept ==
  /\ \A t \in Threads, n \in Names :
       call[t].stage # "none" /\ call[t].name = n =>
         /\ status[n] # "absent"
         /\ record[n] = call[t].record
  /\ \A n \in Names : threadsWaiting[n] = Cardinality(WaitingFor(n))

\* A module is read by one thread at a time, and by one exactly while it is
\* LOADING; it is NOT_FOUND only while somebody waits who will remove it.  So two
\* threads never make two modules of one name, and no record is left in a state
\* that only a thread at work could end.
OneLoader ==
  \A n \in Names :
    LET loaders == { t \in Threads : call[t].stage = "bootstrap" /\ call[t].name = n }
    IN  /\ Cardinality(loaders) = (IF status[n] = "LOADING" THEN 1 ELSE 0)
        /\ status[n] = "NOT_FOUND" => threadsWaiting[n] > 0

Table ==
  INSTANCE ModuleTable
    WITH Modules <- Records, bound <- [n \in Names |-> Module(n)]

\* The linker implements the table of modules: a name is bound once and for good,
\* LoadModule returns what the name is bound to and nothing else, and
\* AddExistingModule either binds the name to its module or returns nothing.
TableSpec == Table!Spec

\* FindModule's wait ends, even if the #LinkInit functions of several threads load
\* one another's modules.
WaitEnds == \A t \in Threads : call[t].stage = "waiting" ~> call[t].stage # "waiting"

===============================================================================
