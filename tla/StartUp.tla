------------------------------- MODULE StartUp -------------------------------
(***************************************************************************)
(* How the program starts and how native functions come by their code:     *)
(* main (main/src/main.cpp), Preload::PreloadSystemModules                 *)
(* (framework/src/Preload.cpp), and the plugins of the linker              *)
(* (framework/src/Linker.cpp, framework/include/JesusVM/platform/          *)
(* NativePlugin.h).                                                        *)
(*                                                                         *)
(* A module's #LinkInit is bytecode: it runs while half of the VM's own    *)
(* classes and functions are not there yet, and may have launched another  *)
(* thread, which goes on meanwhile.  The table of plugins is guarded by    *)
(* pluginMutex in LoadPlugin, but not in LinkNativeFunction; every plugin  *)
(* has a mutex for its library.                                            *)
(***************************************************************************)
EXTENDS Integers, FiniteSets, SequencesExt

CONSTANTS
  Main, Other,  \* the threads
  NoThread,
  Plugins,      \* names of plugins
  NoPlugin,
  Directories,  \* that exist
  Files,        \* <<directory, plugin>> of the libraries that there are
  Loadable,     \* the plugins whose library can be loaded
  Exports,      \* of each plugin: the functions that its library has
  MaxUses       \* bound on what the code of one thread does

ASSUME StartUpAssumption ==
  /\ Main # Other /\ NoThread \notin {Main, Other} /\ NoPlugin \notin Plugins
  /\ Loadable \subseteq Plugins
  /\ MaxUses \in Nat

StartThreads == {Main, Other}

\* The functions, declared native in their modules, whose code is the VM's own, and "own", a native one of the program.
Overrides == <<"exit", "trap", "loadPlugin", "getOsName", "copy">>
Natives == ToSet(Overrides) \cup {"own"}

Entry(kind, names) == [i \in DOMAIN names |-> <<kind, names[i]>>]

\* What is preloaded and in which order; the primitive classes and their arrays go
\* together.  No entry of the tables is optional.
Entries ==
  Entry("module", <<"vm/System", "std/Arrays", "std/Primitives">>)
    \o Entry("class", <<"Object", "String", "TrapInfo", "primitives", "arrays">>)
    \o Entry("field", <<"String::data", "TrapInfo">>)
    \o Entry("function", Append(Overrides, "String::#Init"))
    \o Entry("override", Overrides)
    \o Entry("module", <<"vm/Initializer", "Main">>)
    \o Entry("start", <<"main">>)

\* What the files of modules may lack: LoadPrimitive makes its classes, and the arrays
\* are made of them.
CanBeMissing ==
  { e \in ToSet(Entries) : e[1] # "override" /\ e[2] \notin {"primitives", "arrays"} }

VARIABLES
  process,     \* "running", "exited", "faulted", "undefined", "ended"
  step,        \* the entry that main is at
  ready,       \* those that are preloaded
  code,        \* of the native functions: a plugin, whose symbol it is, or "vm", or "null"
  plugins,     \* the table of plugins
  handle,      \* those whose library is open
  opened,      \* history: how often each library was opened
  pluginMutex, \* its owner
  mutex,       \* the owner of each plugin's
  at,          \* where each thread is
  uses,        \* how much its code has done
  raced        \* history: functions being linked by a thread as they were overridden

startVars ==
  <<process, step, ready, code, plugins, handle, opened, pluginMutex, mutex, at, uses, raced>>

locks == <<pluginMutex, mutex>>
preload == <<process, step, ready, raced>>
libraries == <<plugins, handle, opened>>

Place(pc) == [pc |-> pc, function |-> "none", plugin |-> NoPlugin, left |-> {}]

\* Preload::finished is set after the overrides and vm/Initializer.
finished == <<"module", "vm/Initializer">> \in ready

\* AddPath, AddPluginPath: the parts of the path that are directories.
ParsePaths(paths, parts) == paths \o SelectSeq(parts, LAMBDA part : part \in Directories)

pluginPath == ParsePaths(<<>>, <<".">>)

\* LoadPluginFromPath finds it.
HasFile(plugin) == \E path \in ToSet(pluginPath) : <<path, plugin>> \in Files

StartInit ==
  /\ process = "running"
  /\ step = 1
  /\ ready = {}
  /\ code = [f \in Natives |-> "null"]
  /\ plugins = {}
  /\ handle = {}
  /\ opened = [p \in Plugins |-> 0]
  /\ pluginMutex = NoThread
  /\ mutex = [p \in Plugins |-> NoThread]
  /\ at = [t \in StartThreads |-> Place(IF t = Main THEN "entry" ELSE "none")]
  /\ uses = [t \in StartThreads |-> 0]
  /\ raced = {}

\* The process is gone, however, and its state with it.
Ends(how) ==
  /\ process' = how
  /\ step' = 1 /\ ready' = {} /\ plugins' = {} /\ handle' = {} /\ raced' = {}
  /\ code' = [f \in Natives |-> "null"]
  /\ opened' = [p \in Plugins |-> 0]
  /\ pluginMutex' = NoThread
  /\ mutex' = [p \in Plugins |-> NoThread]
  /\ at' = [t \in StartThreads |-> Place("none")]
  /\ uses' = [t \in StartThreads |-> 0]

Go(t, place) == at' = [at EXCEPT ![t] = place]

-------------------------------------------------------------------------------
(* Plugins.                                                                *)

\* A thread goes over the table of plugins in LinkNativeFunction.
Linking(t) == at[t].pc \in {"link", "load", "open", "symbol"} /\ at[t].function # "none"

Used(t) == uses' = [uses EXCEPT ![t] = @ + 1]

\* LoadPlugin, up to its call of load, with pluginMutex held.
LoadPlugin(t, p) ==
  /\ pluginMutex = NoThread
  /\ IF p \notin plugins /\ ~HasFile(p)
     THEN /\ Go(t, Place("code"))
          /\ Used(t)
          /\ UNCHANGED <<preload, code, libraries, locks>>
     ELSE IF p \notin plugins /\ \E u \in StartThreads : Linking(u) THEN Ends("undefined")
     ELSE /\ plugins' = plugins \cup {p}
          /\ pluginMutex' = t
          /\ Go(t, [Place("load") EXCEPT !.plugin = p])
          /\ UNCHANGED <<preload, code, handle, opened, mutex, uses>>

\* NativePlugin::load: the lock.
Load(t) ==
  LET p == at[t].plugin
  IN  /\ at[t].pc = "load" /\ mutex[p] = NoThread
      /\ mutex' = [mutex EXCEPT ![p] = t]
      /\ Go(t, [at[t] EXCEPT !.pc = "open"])
      /\ UNCHANGED <<preload, code, libraries, pluginMutex, uses>>

\* Whether dlopen is called and does it.
Opens(p) == p \notin handle /\ p \in Loadable

\* The rest of load, and its return: to LoadPlugin, which only warns, or to getFunction,
\* which ends the process if there is no library.
Open(t) ==
  LET p == at[t].plugin
  IN  /\ at[t].pc = "open"
      /\ IF at[t].function # "none" /\ p \notin Loadable THEN Ends("exited")
         ELSE /\ opened' = [opened EXCEPT ![p] = IF Opens(p) THEN @ + 1 ELSE @]
              /\ handle' = IF p \in Loadable THEN handle \cup {p} ELSE handle
              /\ mutex' = [mutex EXCEPT ![p] = NoThread]
              /\ IF at[t].function = "none"
                 THEN pluginMutex' = NoThread /\ Go(t, Place("code")) /\ Used(t)
                 ELSE Go(t, [at[t] EXCEPT !.pc = "symbol"]) /\ UNCHANGED <<pluginMutex, uses>>
              /\ UNCHANGED <<preload, code, plugins>>

-------------------------------------------------------------------------------
(* Native functions.                                                       *)

\* Function::call of a native function.
Call(t, f) ==
  /\ at[t].pc = "code" /\ uses[t] < MaxUses
  /\ Go(t, IF code[f] = "null" THEN [Place("link") EXCEPT !.function = f, !.left = plugins]
           ELSE [Place("call") EXCEPT !.function = f])
  /\ UNCHANGED <<preload, code, libraries, locks, uses>>

\* dlsym, with the plugin's mutex held.
LookUp(t, p) ==
  LET f == at[t].function
      found == f \in Exports[p]
  IN  /\ code' = [code EXCEPT ![f] = IF found THEN p ELSE @]
      /\ Go(t, [at[t] EXCEPT !.pc = IF found THEN "call" ELSE "link",
                             !.plugin = NoPlugin, !.left = @ \ {p}])
      /\ UNCHANGED <<preload, libraries, locks, uses>>

\* Mutant of AtLoad: getFunction keeps the mutex, which load locks.
AtLoadLocked(t) == t

\* Who owns the plugin's mutex when getFunction calls load.
AtLoad(t) == NoThread

\* getFunction of one of the plugins that LinkNativeFunction has not asked.
GetFunction(t) ==
  \E p \in at[t].left :
    /\ at[t].pc = "link" /\ mutex[p] = NoThread
    /\ IF p \in handle THEN LookUp(t, p)
       ELSE /\ mutex' = [mutex EXCEPT ![p] = AtLoad(t)]
            /\ Go(t, [at[t] EXCEPT !.pc = "load", !.plugin = p])
            /\ UNCHANGED <<preload, code, libraries, pluginMutex, uses>>

\* The rest of getFunction after it has called load.
GetSymbol(t) == at[t].pc = "symbol" /\ mutex[at[t].plugin] = NoThread /\ LookUp(t, at[t].plugin)

\* No plugin has it.
NotLinked(t) ==
  /\ at[t].pc = "link" /\ at[t].left = {}
  /\ IF finished THEN Ends("exited")
     ELSE /\ Go(t, [at[t] EXCEPT !.pc = "call"])
          /\ UNCHANGED <<preload, code, libraries, locks, uses>>

\* It is done, and nothing of this module has changed.
Done(t) ==
  /\ Go(t, Place("code")) /\ Used(t)
  /\ UNCHANGED <<preload, code, libraries, locks>>

\* A string, which is an object with an array of characters.
MakeString(t) ==
  IF <<"class", "arrays">> \notin ready THEN Ends("exited")
  ELSE IF ~{ <<"class", "String">>, <<"field", "String::data">> } \subseteq ready THEN Ends("faulted")
  ELSE Done(t)

\* The call itself: the code is read again.
Run(t) ==
  LET f == at[t].function
  IN  /\ at[t].pc = "call"
      /\ CASE code[f] = "null" -> Ends("faulted")
           [] code[f] = "vm" /\ f \in {"exit", "trap"} -> Ends("exited")
           [] code[f] = "vm" /\ f = "loadPlugin" -> \E p \in Plugins : LoadPlugin(t, p)
           [] code[f] = "vm" /\ f = "getOsName" -> MakeString(t)
           [] OTHER -> Done(t)

-------------------------------------------------------------------------------
(* The code of a thread, besides its calls: it makes strings, and loads    *)
(* modules, whose constructor loads plugins; and it launches a thread.     *)

UseString(t) == at[t].pc = "code" /\ uses[t] < MaxUses /\ MakeString(t)

RequirePlugin(t, p) == at[t].pc = "code" /\ uses[t] < MaxUses /\ LoadPlugin(t, p)

Launch ==
  /\ at[Main].pc = "code" /\ at[Other].pc = "none"
  /\ Go(Other, Place("code"))
  /\ UNCHANGED <<preload, code, libraries, locks, uses>>

OtherReturns ==
  /\ at[Other].pc = "code"
  /\ Go(Other, Place("done"))
  /\ UNCHANGED <<preload, code, libraries, locks, uses>>

-------------------------------------------------------------------------------
(* main.                                                                   *)

AtEntry(kind) == at[Main].pc = "entry" /\ Entries[step][1] = kind

Passed == step' = step + 1 /\ ready' = ready \cup {Entries[step]}

\* Whether the files have what is looked for is found out here.
Missing == Entries[step] \in CanBeMissing

\* The rest of what is looked for in the modules: classes, fields and functions.
Preload(kind) ==
  /\ AtEntry(kind)
  /\ \/ Missing /\ Ends("exited")
     \/ Passed /\ UNCHANGED <<process, raced, code, libraries, locks, at, uses>>

\* LoadModule runs the constructor and #LinkInit of the module.  vm/Initializer may be
\* missing; that Main is not there is not looked at.
LoadModule ==
  /\ AtEntry("module")
  /\ \/ /\ Go(Main, Place("code"))
        /\ UNCHANGED <<preload, code, libraries, locks, uses>>
     \/ /\ Entries[step][2] = "vm/Initializer"
        /\ Passed
        /\ UNCHANGED <<process, raced, code, libraries, locks, at, uses>>
     \/ /\ Entries[step][2] # "vm/Initializer"
        /\ Ends(IF Entries[step][2] = "Main" THEN "faulted" ELSE "exited")

\* Mutant of Overridden: a function that is linked already keeps its code.
OverriddenUnlinked(f) == [code EXCEPT ![f] = IF @ = "null" THEN "vm" ELSE @]

Overridden(f) == [code EXCEPT ![f] = "vm"]

Override ==
  LET f == Entries[step][2]
  IN  /\ AtEntry("override")
      /\ code' = Overridden(f)
      /\ raced' = raced \cup { g \in {f} : \E t \in StartThreads : Linking(t) /\ at[t].function = f }
      /\ Passed
      /\ UNCHANGED <<process, libraries, locks, at, uses>>

\* The main thread is started with Main's function; if there is none, it faults.
Start ==
  /\ AtEntry("start")
  /\ \/ Missing /\ Ends("faulted")
     \/ Go(Main, Place("code")) /\ UNCHANGED <<preload, code, libraries, locks, uses>>

\* The code that main runs returns: a #LinkInit or, at last, the program's main.
MainReturns ==
  /\ at[Main].pc = "code"
  /\ IF Entries[step][1] = "start"
     THEN Go(Main, Place("waiting")) /\ UNCHANGED <<step, ready>>
     ELSE Go(Main, Place("entry")) /\ Passed
  /\ UNCHANGED <<process, raced, code, libraries, locks, uses>>

\* WaitForAllThreads, and the end of main.
AllThreadsDone ==
  /\ at[Main].pc = "waiting" /\ at[Other].pc \in {"none", "done"}
  /\ Ends("ended")

-------------------------------------------------------------------------------

CodeStep(t) ==
  \/ \E f \in Natives : Call(t, f)
  \/ GetFunction(t)
  \/ GetSymbol(t)
  \/ NotLinked(t)
  \/ Run(t)
  \/ \E p \in Plugins : RequirePlugin(t, p)
  \/ Load(t)
  \/ Open(t)
  \/ UseString(t)

MainStep ==
  /\ process = "running"
  /\ \/ CodeStep(Main)
     \/ Launch
     \/ \E kind \in {"class", "field", "function"} : Preload(kind)
     \/ LoadModule
     \/ Override
     \/ Start
     \/ MainReturns
     \/ AllThreadsDone

OtherStep ==
  /\ process = "running"
  /\ CodeStep(Other) \/ OtherReturns

StartNext == MainStep \/ OtherStep

\* The operating system schedules both threads.
StartFairness == WF_startVars(MainStep) /\ WF_startVars(OtherStep)

StartSpec == StartInit /\ [][StartNext]_startVars /\ StartFairness

-------------------------------------------------------------------------------

\* From its override on, the VM's own functions are what is called, even if a plugin
\* has a function of that name and a #LinkInit had it linked before; but not if another
\* thread was linking the function just then: it puts the plugin's code over the VM's.
OverrideHolds ==
  \A f \in ToSet(Overrides) \ raced :
    <<"override", f>> \in ready => code[f] = "vm"

\* A library is opened once, whatever LoadPlugin and getFunction do at the same time.
OpenedOnce == \A p \in Plugins : opened[p] <= 1

\* The start and the program come to an end, one way or another: no thread waits for
\* ever for the mutexes of the plugins, which load and getFunction take in turn.
StartUpEnds == <>(process # "running")

\* Plugins that two threads load and look functions up in are opened once each, and give
\* way to the VM's own functions.
PluginsHold == OpenedOnce /\ OverrideHolds

===============================================================================
