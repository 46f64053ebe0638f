# A TLA+ model of JesusVM

JesusVM is a bytecode virtual machine in C++. Its programs are modules of
classes and functions, run by an interpreter on operating-system threads; its
heap is reference-counted, with the counts deferred to epochs and a cycle
collector on top; a C library, moduleweb, builds and reads the module files. This
directory holds the TLA+ modules that model it, the TLC configurations that check
them on small instances and the TLAPS proofs that hold for every instance. All
paths below are relative to the repository's root.

The repository has no tests of its own and hardly any documents, so what the code
*means* is taken from its code and its comments; section 5 lists where the two
differ, and what the code does that its callers would not expect.

## 1. The system

| component | sources | state | operations | interacts with |
|---|---|---|---|---|
| Deferred counts and epochs | `framework/src/executors/Threading.cpp` (`MutationBuffer`, `Threading::Epoch`) | `globalEpoch`; per thread `localEpoch` and two vectors of mutations | log a mutation, leave an epoch, try to advance the global epoch, flush, sync all epochs | called when a frame is left (Stack); applies mutations to the heap; starts the cycle collector |
| Threads and event queue | `Threading.cpp`, `executors/Thread.cpp` | `threads`, `vThreadGroups`, `nonDaemonThreads`, `eventQueue`; per thread a state and a function | launch, schedule, enqueue, run, expire, detach, wait for all | runs the interpreter; its map is what the epochs iterate over |
| Virtual threads | `executors/Thread.cpp` (`VThreadGroup`), `executors/VThread.cpp` | per group a vector of virtual threads and an iterator | choose or launch a group, add a function, give each ten instructions in turn, time out | the event queue, the interpreter |
| System daemons | `executors/Daemon.cpp`, `heap/gc/GC-Daemon.cpp` | `mSleeping`, `isReady`, `finalize` | launch, hibernate, wake, begin a collection, finalize | the cycle collector |
| Linker: modules | `framework/src/Linker.cpp` | the table `modules` | load, find, add, remove | runs `#LinkInit` on the calling thread |
| Linker: classes | `Linker.cpp`, `heap/Class.cpp`, `constpool/` | class states, field offsets, dispatch tables, array classes, resolved constants | find, load, link | the module table |
| Plugins, preload, start-up | `Linker.cpp`, `platform/NativePlugin.h`, `Preload.cpp`, `main/src/main.cpp` | the list of plugins and their libraries, the code of native functions, what is preloaded | load a plugin, link a native function, preload, start, end | runs `#LinkInit`; everything else needs what it loads |
| Cycle collector and counts | `heap/gc/CycleCollector.cpp`, `heap/Object.cpp` | count, cyclic count, color and buffered flag of each object; `cycleRoots`, `cycleBuffer` | add and remove a reference for good, release, the five phases | the epochs apply the mutations and call `ProcessCycles` |
| Objects, arrays, strings, globals | `heap/Object.cpp`, `runtime/`, `heap/Field.cpp` | bytes | allocate, load, store | handlers and native interface |
| Operand stack and frames | `framework/src/Stack.cpp` | slots and locals with their types | push, pop, dup, swap, load, store, enter and leave a frame | logs mutations, leaves the epoch |
| Executor, instructions | `bytecode/Executor.cpp`, `bytecode/handlers/BaseHandler.cpp`, `Function.cpp` | code pointer, wide flag, call depth | one handler per opcode, call, return | everything |
| Native references | `heap/gc/References.cpp` | global, local and weak references, local frames | create, remove, push and pop a frame | the native interface |
| Native interface | `native_interface/ProvidedFunctions.cpp`, `native/include/` | none of its own | the functions that native code calls | heap, references, linker |
| Descriptors, symbols | `type/`, `Linker.cpp` | none | parse, mangle | functions, native linking |
| Bytecode builder | `moduleweb/src/builder/insn_builder.c` | a growing buffer, labels | emit, add a label, finish | the executor reads what it writes |
| Module files | `moduleweb/` | streams, buffers, builders, constant pools | build, emit, read, release | the linker |

What is hard here is, first, concurrency without locks: the epoch protocol reads
and flushes the buffers of other threads with no lock but one final mutex; the
scheduler acts on sizes it read a while ago; a daemon is woken without the mutex
it waits under; the linker keeps pointers across the places where it lets go of
its mutex; the state of a class is tested before it is set; native code reads and
writes shared objects with no lock at all; and the collector judges cycles one
epoch after it found them, while mutations go on in between. Second, agreement of
two sides written apart: the builder and the executor about the code, the
descriptor and the ways to pass arguments, the writer and the reader of a file,
the interpreter's stack and the C++ stack. Third, things that have to happen
*eventually*: an epoch closes, a launched function runs, a waiter is told, a
virtual thread gets its turn, `main()` ends.

What makes each component correct, in one line:

* epochs: an epoch is closed once, never before its mutators have left it, and
  nothing logged in it is forgotten;
* threads: a function has one place, gets run if it was given a thread, and the
  program ends after all of them;
* virtual threads: a group lives as long as what it serves, and serves all of it;
* daemon: no collection unasked, none denied to a request that found it waiting;
* modules: a name is bound once and for good, by one loader, and waiters are told;
* classes: waited for only while another thread links them, laid out when they are given,
  with fields that do not overlap and calls that reach the nearest declaration;
* start-up: a library is opened once and what the VM overrides stays overridden;
* heap: counts are exact, nothing reachable is freed, buffers and flags agree;
* frames: an object is counted once for each slot that holds it;
* native calls: a nested `run()` ends with its own function, what native code
  holds is held exactly as long as its frame, and what is passed arrives;
* code and files: what is read is what was built, or is refused for a reason.

## 2. Modules

Each specification is a state machine with one action per step that other
threads can see; a comment above each definition says what of the code it is.
`PROJECT.json` maps each definition to its lines.

| module | models | composed with |
|---|---|---|
| `EpochAdvance` | the epoch protocol | - |
| `ThreadPool` | threads, event queue, end of the program | refines `AsyncFunctions` |
| `AsyncFunctions` | what an asynchronous call promises (abstract) | - |
| `VirtualThreads` | groups of virtual threads and `Schedule`'s choice among them | - |
| `DaemonWake` | the daemon and its clients | - |
| `ModuleLoader` | the linker's table, its mutex and waiting | refines `ModuleTable` |
| `ModuleTable` | what the table promises (abstract) | - |
| `ClassLayout` | what `Class::link` computes (operators) | - |
| `ClassLinker` | threads that load and link classes | extends `ClassLayout` |
| `StartUp` | `main()`, preload and plugins | - |
| `ObjectCounts` | what each call of an `Object` operation does to the heap | - |
| `CycleCollector` | a mutator, its log, the epoch boundary and the five phases | extends `ObjectCounts` |
| `ObjectMemory` | the bytes of objects, arrays, strings and globals | extends `ClassLayout` |
| `OperandFrame` | the references of one frame and the cells of the heap it uses, under every instruction | - |
| `ReferenceFrames` | a frame of native references (operators) | - |
| `NativeCalls` | calls between bytecode and native code, and what native code holds | extends `ReferenceFrames` |
| `Descriptors` | the descriptor parser, widths, symbols (operators) | - |
| `ArgumentPassing` | a call's arguments and result, by every way to call | extends `Descriptors` |
| `NativeData` | native threads on shared fields, globals and arrays | - |
| `InsnList` | code from the builder's buffer to the executor | - |
| `ModuleInfo` | what a module file says: writing, reading, freeing (operators) | - |
| `ModuleFiles` | a module from its builder to a file and back | extends `ModuleInfo` |
| `*_proofs` | theorems, section 4 | extends its specification; `Executor_proofs` extends `OperandFrame` and `InsnList`, `Linker_proofs` `ModuleLoader` and `StartUp`, `ClassLinker_proofs` `ClassLinker` and `ObjectMemory`, `Heap_proofs` `DaemonWake`, `NativeData` and `ArgumentPassing`, `Collector_proofs` `EpochAdvance` and `CycleCollector` |
| `MC*` | the instances for TLC, with symmetry where a run has no liveness | extend their specification |

`MCModuleLoader` hosts two specifications, `ModuleLoader` and `StartUp`, and
`MCNativeBoundary` three, `ArgumentPassing`, `NativeData` and `ObjectMemory`. A
behaviour of such a module belongs to one of them, chosen by the initial state,
and the variables of the others keep a fixed value. They share a run, not a state.

### EpochAdvance

`pc[t]` is the place of thread *t* in `advanceEpoch` / `TryAdvanceGlobal`. Each
atomic load, the compare-and-swap, the mutex and each call of
`ForEachMutator`'s consumer is a step of its own, because nothing protects one from
the next. The iteration is kept as the set of threads it began with and the set
it has visited; a thread that joins meanwhile may be met or missed, as the map is not
locked. A buffer is the *set of epochs* of which it holds mutations: which
objects they name is `CycleCollector`'s business. The race of `flush` with the
owner's `emplace_back` is a choice: any of the newer mutations may be lost. A
thread that is in the map before `Thread::start` has set its buffer is the step
to `faulted`, after which the process is gone.

### ThreadPool and AsyncFunctions

`pc` is the worker's place in `ThreadEntry`, `call[c]` what caller *c* has left to
do of `Schedule` and `LaunchThreadInternal`; the reads of sizes and the action
on them are separate steps. Functions are bytecode too long for a virtual
thread or native; running a native function ends the process, as `invokeNative`
does. Virtual threads appear as the load of one group. A lost `notify_one`
costs no more than a second in the code (the wait times out and looks again), so
it is not modelled. `DetachThread` and `AttachThread` are single steps, as they
are under the mutex.

`AsyncFunctions` knows no threads: a function that is called is in somebody's
charge (`taken`), waits, is run once and returns, and the program ends only when
nobody has charge of one that has not returned. `StageOf` maps `called` and
`given` to `taken` and `queued` to `waiting`. What waits need not ever be taken:
the code promises more (section 5).

### VirtualThreads

A group's native thread is in the wait for a first function, in a turn or between
turns (`pc`), with the vector `mThreads`, its capacity and the iterator. A turn is
ten instructions with `mMutex` released, in which other callers append. An append
to a full vector moves it, and a group that is in a turn then goes on with a stale
iterator: the process ends (`process`), as it does when a virtual thread whose
function has returned is given a turn, or a native function is taken from the queue.
`Schedule` is modelled with all its thresholds and the four kinds of functions it
tells apart; the number of other threads, which the thresholds compare, is a choice
at each call. Nothing in the repository calls `yield`, `sleep` or `interrupt`.

### DaemonWake

`hibernate()` is cut at each access to `mSleeping` and where the wait begins,
since `wake()` takes no lock. The clients are the main thread, which launches
the daemon and in the end asks for the last collection as `SyncAllEpochs` would
(the calls are commented out at `Threading.cpp:535-538` with a TODO about
weird behaviour), and mutators, which begin collections. Spurious wake-ups are
actions without fairness.

### ModuleTable and ModuleLoader

The mutex is held throughout but for three places: while a module is read from
its file, while its `#LinkInit` runs and in the condition variable's wait. So a
`LoadModule` is cut there. `inits[t]` is the stack of `#LinkInit` functions
active in a thread, each free to load modules. Addresses are reused as the
allocator may. The refinement maps `bound[n]` to the module of a LOADED record;
`answer` is what the last call returned, which is null for a module that native code brings
under a name that is taken (`ExistingRefused`, `Refuse`).

### ClassLayout and ClassLinker

`ClassLayout` is a translation of `orderFieldBuckets` and of the building of the
dispatch table, for one class and its superclass. `ClassLinker` keeps of each thread a
stack of `LoadClass` calls, since superclasses, the bases of array types and
constants are loaded in turn, and cuts them where the linker's mutex is not held: at
each of the two reads of the state, at its stores, at the store of `mLoadingThread`, at each use of
another class. Nothing keeps two threads from passing the reads together: both are then
inside `link`, each stores LINKING and LINKED, and the class may say that it is being linked when
somebody already uses it. `built` are the classes whose tables are filled. The behaviour ends when the
second thread writes the tables of a class that is built (`linked twice`), which moves them under
their readers, when a constant is used that another thread has freed, and when the base of an array
class is. A class the linker makes for an array type is kept by name and by the thread that
made it; the one who comes second returns a class that the table has destroyed (`Freed`) or, with a
library that looks the name up first, one that is lost.

### StartUp

`main()`'s preloading is a fixed list of entries: classes, fields, functions, modules,
overrides and the start. `step` is the next one and `ready` those passed. Two threads run
bytecode: the main thread in `#LinkInit` functions and the program, and another that one
of these may launch. Bytecode may call a native function, load a plugin or make a
string. `LinkNativeFunction` goes through the plugins without `pluginMutex`, one plugin at a
step, and each plugin's mutex is given up between `getFunction` and `load`.

### ObjectCounts and CycleCollector

The heap is a function of objects for each member of `Object`. The recursion over the
children is the stack `work` of the calls still to be made: `Call` takes the first and puts in its
place those that it makes, in `forEachChild`'s order (`release`, which has more to do after its
children, leaves a call for that too). So a step is one call, and the invariants see the states in the middle of a recursion.
`scanBlack` alone is one step, as it only paints what it reaches (`Spread`).
`discounted` remembers the objects whose references were taken back, by `release` or by
`freeCycle`, which may be before their memory is. `CycleCollector` adds a mutator with `ObjectRef`s, its log and the
phases of `ProcessCycles`; each turn of a phase's loop is a step (all under one mutex, so nothing interleaves).
A step that touches a freed object sets `misused` and ends the behaviour, as nothing after it means
anything. With one mutator the epoch closes whenever a frame is left, so each boundary flushes what was
logged since the last.

### ObjectMemory

An object is its bytes after the header, at the offsets that `ClassLayout` gives; a
byte has `Base` values. Fields of a class and of its subclass, elements and
globals are stored and read by the handlers and by the native interface, which differ in
how they narrow a value; `stored` remembers what was given. A negative array size, an
index that is not checked and a type that the allocator does not know
are the accesses beyond the memory that end the behaviour. `Values[n]` is the number of values of *n*
bytes; the size of an array is computed in a u64, so that it wraps for a length that is large or
negative enough: the property speaks of arrays whose size does not (`Countable`).

### OperandFrame

A slot is a type and a value; `Pop` lowers the top and leaves both, as the code
does. Every handler of `BaseHandler.cpp` is here: those that move numbers only check
types and room, so they are told apart by what they pop and push. A call is one
step of the caller: it pops what the callee's frame takes, and pushes the result.
`cells` are a global, a field and an element; `stranded` counts what the code leaves counted
for good, so that `HeldCounted` can say that everything else is exact.

### ReferenceFrames and NativeCalls

One thread has three stacks: the interpreter's `frames`, of which only the
number of operands is kept; the C++ stack, kept as `natives`, the native
functions in progress, each with the frame it was called from and the call it is
making (a `run()`, with its `savedDepth`); and `localReferenceStack`. The actions
are the instructions that call and return, and the functions of the native
interface that call, make or delete references, push and pop local frames or
make modules. `counted` is what the references of native code have logged.

A `ReferenceFrame` and a `SpecialObject` declare destructors, so a
`std::vector` of them copies and destroys its elements when it grows: `PushFrame` and
`CreateSpecial` do so, with the decrements and the deletions of the destructors.
`lost` keeps the decrements of that kind, so that `RefsCounted` can say that
everything else is exact. A second deletion of a module, or a reference
to null, whose mutation faults when it is applied, ends the behaviour in `faulted`.
Native code is taken to pop the local frames it pushed and no more, and
bytecode to return what its function's type says.

### Descriptors and ArgumentPassing

A descriptor is a text; here every text over eight letters up to a length, so that
the parser is held against the grammar of the descriptors (`DescriptorOf`, its reference
definition) in both directions. A function that was accepted is called by bytecode
(`CALL`, `CALLVIRTUAL`), by the `A` functions of the native interface or by the
variadic ones, or it is native and called from bytecode; `call.seen` is what it finds
in its locals. A list of arguments that is started at the wrong parameter, as the variadic method
wrappers of the C++ context do, has the arguments or, one early, the object and then the arguments; of the
list in a list of its `NewObject` anything may arrive. Both are calls of the form `odd`. `Half` gives every type its number of values, and values are wider than some types, so that
narrowing and sign extension show. A `bool` has more values than two, as its C type: bytecode called by
bytecode, or by the VM, is given its truth (`FromOperand`, `Arrives`).

### NativeData

Each of the native functions that stores a reference is two or three steps: it reads the
old value, logs a decrement, stores and logs an increment, and other threads may come
between. `tainted` are the objects that an operation known not to be atomic has
touched; the property speaks of all others. `Arrays::copy` is cut at each element, and copies
of `long` arrays that native code holds are written and released in three modes.

### InsnList, ModuleInfo and ModuleFiles

In `InsnList` one opcode stands for each shape of operands. Four instructions and a label are
emitted, each may find that `realloc` fails; the code is stored, loaded and executed, with
the jumps either way. `prog` remembers what was asked for. Numbers are written and read digit by
digit in base `Byte`, by recursive functions. Its definitions are named apart
from `OperandFrame`'s (`CodeSpec`, `IncInsn`, ...), so that one module proves about both.
`ClientAssumption` keeps what the client asks for in the range of its C types, and
`SizeAssumption` the list longer than one instruction and the code shorter than a u32.

In `ModuleFiles` a client adds classes with members, globals, functions, attributes and
constants to a builder; the module is built, emitted through a block buffer into a file
that may have been longer, and read through blocks or from memory. In the streams and the reader each
allocation, read and write may fail (a fuel that runs out: `MaxFuel`), and `heap` and
`live` are the blocks that are allocated. Of the builder's allocations, that of an attribute's bytes leaves
an attribute without bytes (`NoInfo`); that of the name of a superclass leaves a class without one
(`NoString`); another string that could not be copied is followed when the module is built (`null`); a vector ends the
process, and for a pool or a table null is written to (`OutOfMemory`). A pool of constants has a capacity, which
doubles modulo `Capacities` (65536 in the code) and so becomes 0. A stream over memory that does not end
where the module does is asked for its file: it has none, and the process crashes. A file is a sequence of tokens, a number or a run
of bytes each: the number of bytes of a number, and their order, are left out. So are an empty table that
`malloc(0)` gives as null, the module's own name, which is not written, and
the vectors of classes, globals and functions at their 16-bit ends.

## 3. Runs

All constants are model values or small numbers. `CHECK_DEADLOCK FALSE` is said
in every run whose system really stops: the process ends (`ended`, `exited`,
`crashed`, `faulted`, `left`), or every thread has reached the bound.

| run | instance | properties | what it shows |
|---|---|---|---|
| `epoch` | main and one joiner, 3 epochs, `FairSpec` | `EpochLag`, `StaleHasFlusher`, `FlushOnce`, `EpochsClose` | joining and leaving in the middle of scans, compare-and-swaps, flushes and the final sync; the epoch does close |
| `pool` | 3 workers, 3 bytecode functions and a native one, limit 3, with and without load on the group, `FairSpec` | `NothingLost`, `AsyncSpec`, `LaunchedRuns`, `MainEnds` | launches, queueing at the limit, expiry and the end of the program; the refinement |
| `vthreads` | 2 groups, 4 functions (pure, tiny, large, native), 1, 3 or 5 other threads, `FairSpec` | `GroupsSound`, `LostOnlyLate`, `TurnsGoRound` | every branch of `Schedule`, vectors that grow, groups that time out, late functions |
| `daemon_wake` | main and two mutators, 2 requests, `FairSpec` | `CollectsOnRequest`, `WokenCollects`, `LastCollectionEnds` | all orders of wakes and hibernation |
| `module` | 3 threads, 2 names, 2 addresses, nesting 2; or 2 threads, 3 plugins, 2 uses each | `RecordsKept`, `OneLoader`, `TableSpec`, `WaitEnds`; `PluginsHold`, `StartUpEnds` | pointers kept without the mutex, one loader, the refinement, waits end; plugins and overrides |
| `class_loader` | 2 threads, 2 declared classes, an array class and one of it, every superclass, 1 load each | `LayoutExact`, `DispatchMostDerived`, `SleepsForAnother`, `ResultsStand`, `LoadsEnd` | chains, siblings and cycles of classes loaded from both ends, by two threads that may both be in `link` |
| `collector` | 2 objects, 2 fields, 3 mutations an epoch, 4 epochs, symmetry | `CountsExact`, `NoLiveFreed`, `CandidatesKept` | all graphs of two objects |
| `operand_frame` | 2 objects, 4 slots, 1 local, one of the three cells in use | `FrameSound`, `GoneAccounted` | every instruction sequence |
| `native_calls` | 3 frames, 2 native functions in progress, one operand a frame, 2 slots, one module and one object | `NativeOnTop`, `HandlesSound` | every nesting of calls with references held meanwhile |
| `native_boundary` | descriptors of up to 6 of 8 characters, or 2 threads on 2 objects and 3 elements, or 2 stores to an object, an array, a global or a string | `NamesExact`, `ValuesArrive`; `SharedDataKept`; `ReadsWhatWasStored` | the parser against its grammar, every way to call, native threads at once, bytes and widths |
| `insn_list` | 4 instructions of 7 shapes, one label, bytes of 7 values | `DecodesAsEmitted`, `ExecutionSound` | every program, jumps both ways, wide and narrow, each `realloc` failing |
| `module_files` | 1 class, 2 additions, two names, buffers of 7 and 8 tokens, two older files, pools of less than 8 constants, each allocation, read and write failing | `RoundTrip`, `RefusalsClean` | a module through builder, file and reader |

Some properties are conjunctions of parts that belong to one question, named so
in their module: `NothingLost` is `OnePlace`, `RunsAttached` and `EndsQuiet`;
`HandlesSound`, `ResultsStand`, `GroupsSound`, `FrameSound`, `ExecutionSound` and
`RefusalsClean` contain the type invariant of their module.

**Bounds.** `MaxEpoch` caps the local epochs (u64 in the code): three are enough
for a joiner to lag, be flushed and catch up (with three mutators the scans alone
exceed what TLC enumerates in minutes; the theorems of section 4 are not bounded so); the
collector needs four, as a cycle is dropped, found, judged and a failed candidate judged
again in four boundaries. Beyond four, stale GRAY objects let `mCyclicRefCount` decrease
without end. `MaxRefs`, `MaxLog`, `MaxDepth`, `MaxRequests`, `MaxCells`, `MaxCount`, `MaxStranded`,
`MaxNatives`, `MaxFrames`, `MaxSlots`, `MaxPushed`, `MaxLost`, `MaxLoads`, `MaxUses`,
`MaxLocals`, `MaxCopying`, `MaxWrites`, `MaxStores`, `MaxInsns`, `MaxClasses` and
`MaxCalls` cap what the program or its environment does; each is a conjunct of the guard of the
action that would pass it. `MaxLength` is the longest descriptor: six characters hold
two arguments, an array or a class. Three frames hold a native function, the
function it calls and what that calls, bytecode or a second native function; two slots hold an old
handle beside a new one, in one frame or in two. The thresholds of `Options.h` are
constants: the runs scale them down so that each of `Schedule`'s branches is taken. The group's load
in `ThreadPool` starts with one of `GroupLoads`; 0 stands for no group. `ThreadLeft` lets
`Schedule` start a thread only while a worker is unborn, so that the bound on threads
never strands a launch. A byte has seven values in `InsnList`, so that a 16-bit displacement
has an end within reach, and four in `ObjectMemory`, so that eight bytes can be added
up and the length 8192 makes the size of an array of eight-byte elements wrap; in `ArgumentPassing` a slot has 16
values, and 2 is a Bool that is neither 0 nor 1; `U16Max` is the number of constants a module may have and `Capacities` a number that a pool's capacity
never reaches; both are reached in the run as they can be in the code.
`MaxFuel` is above the number of calls that the largest module needs, so that each of them fails in
some behaviour and all succeed in others. The blocks are smaller than a module, so that it crosses
their ends.

**Fairness.** Weak fairness of each thread's steps stands for an operating system that
runs every thread that can run. In `ThreadPool` functions return and timeouts
expire. In `VirtualThreads` waits time out and a turn of ten instructions ends; nothing is
assumed about what functions do. In `EpochAdvance` only the steps inside `advanceEpoch` are fair: nothing
promises that bytecode returns. In `ModuleLoader` `FinishInit` has strong fairness: a
`#LinkInit` returns although it may load other modules again and again, and the load of a file ends
one way or the other. `DaemonWake` gives no fairness to spurious wake-ups and
to new requests. In `ClassLinker` the steps of a thread's load are fair; the loading of modules by
others is not, and is an assumption of `LoadsEnd`. In `StartUp` both threads are scheduled.

**Properties that look weaker than expected** are so because the stronger one is
false and nothing in the code claims it. `EpochLag` and `StaleHasFlusher` claim what nine tenths mean: the
mutators that the global epoch has overtaken, and those left with mutations of a closed epoch that
nobody is about to flush, are at most a tenth of those that were met by the scan that closed it (`counted`), so none
as long as that met fewer than ten. `EpochLag` gives a newcomer one epoch
of lag (it can join between a scan and its compare-and-swap); `StaleHasFlusher`
speaks of the mutators that were there from the start; `EpochsClose` excepts an
epoch that a newcomer has joined meanwhile; `MainEnds` needs an
instance without a virtual-thread group; `WokenCollects` and `LastCollectionEnds` begin when the
request finds the daemon waiting; `LostOnlyLate` and `TurnsGoRound` except what is given to a group
that has stopped waiting; `OverrideHolds` excepts a function that another thread was linking when
it was overridden; `SuperRefused` allows null for a class that somebody has begun to link, even if it is linked by then;
`RoundTrip` excepts the attribute's bytes and the superclass for whose name there was no memory;
`CandidatesKept` speaks of what is still buffered; `SharedDataKept` leaves out the objects
that three operations are known to miscount; `ValuesArrive` claims nothing of an argument
too big for its type, of the values of what is given after `...` to a method or a constructor of the C++
context, and of a Bool that is neither 0 nor 1 that it may arrive as 1; `ReadsWhatWasStored`
claims nothing of an array whose size has wrapped.

## 4. Proofs

`ThreadPool_proofs` (for any threads, functions, group and limits):

* `TypeCorrect`: `Spec => []TypeOK`; that `nonDaemonThreads` stays in `Nat` needs the
  count below.
* `NothingLostCorrect`: `Spec => []NothingLost`. The inductive invariant has, beside the types,
  `WorkersInv` (a worker is in the map exactly from its `Attach` to its `Detach`, and is
  RUNNABLE only with somebody's function), `CallersInv` (whoever is launching has a worker
  that nobody else has, waiting in `start`, and is itself executing), `RunsAttached`,
  `GroupInv`, `PlaceInv` (`progress[f]` says where *f* is: with which caller, worker
  or position in the queue, and that it is there only), `CarriersInv` (a worker carries what
  was given to it) and `EndsQuiet`. At the end of `main()` the counter is zero, so by
  `RunsAttached` the map is empty; a worker that is launching or running would be in it
  (lemma `NobodyLeft`): so nobody is about to attach one either.
* `Refinement`: `Spec => AsyncSpec`. Every step moves the stage of one function or of
  none (`OneMoves`, `NobodyMoves`); the end of the program is `AsyncFunctions!End` because
  of `NobodyLeft`.

`Heap_proofs` (for any number of mutators and requests; for any finite set of threads, any objects, size of
arrays and bounds; for any characters, descriptors, values and widths of types):

* `TypeCorrect`, `CollectsOnRequestCorrect`. `LaunchInv` says that nobody wakes the daemon
  before it is launched, and `WokenInv` that a daemon that finds itself awake in its loop has
  collected less often than it was asked: the launch's own wake-up is spent
  before, and a spurious wake-up finds `mSleeping` set.
* `SharedDataKeptCorrect`: `DataSpec => []SharedDataKept`. Each count is a sum of the sizes of four sets: the
  places that hold the object, its local references, the threads that have counted it before they store it
  and those that have discounted it before they replace it. A step moves at most one element in or out of each, or taints
  the object (`Concluded`). `Places` says where a thread that is in the middle of something works; `Progress` what an
  undisturbed copy has moved, and that what it has yet to move is still where it was, which is why the
  direction matters (`OneMoved`); `Copies` that, as long as copies have not overlapped, one thread at most holds
  one, and that it is the array plus what was written to it.
* `ValuesArriveCorrect`: `PassingSpec => []ValuesArrive`, for every way to call; of the `odd` ones it says where the arguments,
  the receiver and the result are, not which values the arguments have. That a function has as many arguments as its descriptor lists, each
  of a type that the calls know (`ArgumentsAre`), is read off the parser, whose recursion goes on from where the last
  type ended: it is defined because the index grows (`Backwards`, which builds such a function from the end, for any
  definition that looks further on only). `OperandsAre` and `LocalsHold` follow an argument from the operand stack, or from the
  list of native code, to its local; the number of operands above it is what both sides count. `CastsKeep` says that what a type
  can hold is kept by the casts on the way, in one step or two (`byte` by way of `int`), for which a type must not be wider
  than that which it is promoted to (`PassingAssumption`).

`Collector_proofs`, of `EpochAdvance` (for any finite set of threads and any bound):

* `TypeCorrect`: `Spec => []TypeOK`.
* `FlushOnceCorrect`: no epoch is closed twice. The invariant adds to
  `FlushOnce` that a thread past its load works on an epoch that is not beyond
  the global one; the compare-and-swap then raises `globalEpoch` past every epoch
  that is being flushed.
* `EpochLagCorrect`, `StaleHasFlusherCorrect`, for any number of threads. The inductive invariant is about the
  union of the two sets (`BehindInv`): a mutator that the epoch has overtaken goes on logging what is old
  already, so that who is in one set may come to be in the other. What a scan has established
  is `ScanInv` and `CasInv`: every thread it counted ready has left the epoch, a mutator that was there from
  the start is among the scan's targets, and when the scan is over at most a tenth of those it met were
  not ready (`FewNotReady`). When the compare-and-swap succeeds, those are the ones behind; until the next one the union only
  shrinks, because a flusher has still to visit the buffers that hold something old.

`Collector_proofs`, of `CycleCollector` (for any finite set of objects, any number of fields and any bounds):

* `CollectorTypeCorrect`, `NoLiveFreedCorrect`, `CountsExactCorrect`, `CandidatesKeptCorrect`, from one inductive
  invariant, `CollectorIInv`, since each part needs the others.
  `CountInv`: an object's count, with the log and less the removals that are still on the work stack (`Owed`), is the number of
  `ObjectRef`s and of fields that refer to it (`Pointers`); each call moves a reference from one term to
  another. `DeadInv`: nothing holds or refers to what has been released, discounted, or freed, except the dead
  themselves; while a cycle is unlinked its members (`Doomed`) count as dead although they still refer to each other.
  That a count of 0 means unreachable is `CountInv` with all terms at least 0, of which the removal being made
  is one. For a cycle it is `CyclicInv`: as long as nothing was done to an ORANGE object (`Quiet`), its cyclic count is its count
  less the references from inside its candidate. When delta test and sigma test pass, the sum of the references
  from outside is 0, so each is, and the members are reached by nobody else (that a test comes after the flush is what
  makes every ORANGE member `Quiet`).
  This is why a cyclic count may be wrong in between (`markGray` discounts an edge twice) and nothing live is freed: nothing
  in the argument speaks of `crc` before `SigmaPreparation` has computed it. `OrangeInv` puts each ORANGE object in one place of
  one candidate, still to be judged, and no object in two; `ColorInv` says which colors the roots and the dead may have, so
  that only members of the cycle being freed, and what is freed, are RED; `SeenInv` is `BufferedSeen` in
  every phase; `PhaseInv` says which calls a phase may have on the stack and where its loops are. The counting is in lemmas on the
  number of places of a sequence that hold a call, and on the fields of a set of objects that loses one (`PointersSplit`).

`Linker_proofs` (for any finite set of threads, any names, addresses and nesting; any
plugins, libraries and however many uses):

* `TypeCorrect`, `RecordsKeptCorrect`, `OneLoaderCorrect`: a record is removed
  only by the loader when nobody waits, or by the last waiter. The inductive
  invariant is their conjunction: that the last waiter is alone needs
  `threadsWaiting` to equal the number of waiters, and that the loader's
  record is still there needs the loader to be the only one. Cardinalities of
  the sets of waiters and loaders change by lemmas on adding and removing one element.
* `Refinement`: `Spec => TableSpec`. Every action maps to `Bind`, `Answer`,
  both, or a stutter; a LOADED record is never removed or replaced.
* `PluginsHoldCorrect`: `StartSpec => []PluginsHold`. `OpenInv`: a library has been opened
  once exactly when its handle is kept. `EntryInv`: where the main thread is between entries.
  `LinkInv`: a thread that is linking an overridden function was doing so when the override was
  made, and is in `raced`.

`ClassLinker_proofs` (for any threads and arrays, any finite set of classes, any superclasses, fields and methods
that they declare, and any number of loads):

* `SleepsForAnotherCorrect`. `Stacks` says which classes a call of
  `LoadClass` may be at work on and that a call below another one waits for its superclass or
  for the base of an array. `Marked`: a class that is LINKING is linked by some call, and one that a call links is not
  INITIALIZED any more; several threads may link it, but no thread twice (`Fresh`). `Loaders`: once a call is past
  the store of `mLoadingThread`, the class that is LINKING names that thread, unless another one is at work
  on it too. So a thread that meets a class that it links alone is refused, and one that waits
  has somebody to wait for (`Asleep`), whoever was the last to store his name or the state. `SuperGiven` says what the superclass
  was loaded as when its constant is made, and `ObjectLinked` ends the chain.
* `ResultsStandCorrect`. The invariant `Results` follows what `LoadClass` has given for a superclass
  (`Owed`: the class itself, or null and then it is among the `refused`) from the return to the constant, to the
  hand of the caller, to `mSuperClass` and to what is laid out below it; the base of an array likewise.
  With `Upward` below, whatever is given is laid out.
* `LayoutExactCorrect`, `DispatchMostDerivedCorrect`. Two things are needed: what one `link` computes, and that it
  computes from something final. The first is a matter of `ClassLayout` alone. `BucketsFollow` and `OwnFields`:
  the buckets follow each other from the superclass's size, each starts at a multiple of the size of its type
  because those with larger types come first, and two fields of a bucket are counted apart. `TableBuilt`: a
  table holds a name once; a method takes the place of the one it overrides and every other entry stays where it was.
  `VTable`, `BucketEnd` and `Ancestry` are recursive functions of a number, so that induction over numbers is enough; it
  is stated with a set in the place of the property (`Induction`), from the least number of a set, and `Recursion`
  gives the function that such a definition chooses. The second is the invariant `CInv`: beside `IInv` it has `Upward`
  (what says that it is linked is laid out, and whatever may become a superclass is laid out or null: in `super`, in a constant,
  in the hand of a call or as what a load returned), `Tabled` (the types of what is laid out) and `Sound` (a class that is laid out has its fields
  `Apart` and `Dispatches` to the first on its line of superclasses). A step that lays a class out changes no class that
  is laid out already, because a thread that would do so ends the behaviour (`Rewrites`), and it is on no other such class's line
  (`Undisturbed`); its own line goes on with its superclass's (`LineUp`), where both hold
  by the invariant (`LaidApart`, `LaidDispatches`). Cycles of superclasses do not matter, as they never get past
  `Upward`.
* `ReadsWhatWasStoredCorrect`: `MemorySpec => []ReadsWhatWasStored`, for any fields of the two classes, any values,
  lengths, texts and number of values of a byte. The invariant `MemInv` says that memory tells what was stored (`Told`): under every
  place a field, an element or the global has, the bytes are those of the last value that was stored there.
  It stands on three things: a value of a type comes back from its bytes (`ValueBack`: the digits of a number add up to it, also
  from its complement, by lemmas on division); the places of the fields are inside the object and apart (`FieldsApart`, from the
  lemmas about `ClassLayout` above); and a store changes the bytes of its place and no others (`StoreHolds`). `ValueBytes`, whose
  upper bytes may be anything, keeps those that are read again.

`VirtualThreads_proofs` (for any functions, groups, limits and numbers of other threads):

* `GroupsSoundCorrect`: `Spec => []GroupsSound`. `WithCaller`, `Queued` and `InVector` say that a function is in one
  place: with one caller, at one position of the event queue or in the vector of one group.
  `GroupLives` and `OwnGroup`: a group that is neither unborn nor dead is attached, or the one
  caller that launched it is about to attach it. So `nonDaemonThreads` is what `GroupsCounted` says,
  the groups attached and not early less those that have detached and are yet to be attached, through every attach and detach.
  That a served function keeps its group (`LivesOn`) does not follow by itself: two groups whose
  attaches are each left to a function of the other would serve on uncounted. `Rooted`
  excludes such a circle: while a function lives and no group has detached too early, some group that serves
  a function is attached, or the main thread is about to attach it. Then the main thread finds the
  counter above zero (`EndedUncounted`).
* `LostOnlyLateCorrect`: `Spec => []LostOnlyLate`, by `HeldLate`: what a group that no longer waits holds was given
  to it late.

`Executor_proofs` (for any size of stack and locals, any objects and bounds; any number of instructions,
labels, locals and increments, any number of byte values and any initial size of the list):

* `FrameSoundCorrect`, `GoneAccountedCorrect` (`OperandFrame`). `HeldCounted` speaks of the references below the top; it
  is proved as a balance of `HeldIn(o, s, a, b)`, the number of slots of an interval that hold *o*, with lemmas for
  one slot that changes, an interval cut in two and one slot beyond it. Each handler is then a
  change of the balance and of what is logged by the same amount, or adds to `stranded` what it leaves
  behind. `GoneAccounted` is what the balance becomes when the frame is left, with the popped slots from the top to
  the end of the stack counted off.
* `DecodesAsEmittedCorrect`, `ExecutionSoundCorrect` (`InsnList`). What the executor decodes is decided while the
  list is written, so the inductive invariant `CodeInv` describes the code in every phase (`CodeOK`): the instructions
  lie end to end from the first byte to the last (`Laid`), each with its prefix, opcode and the digits of its operands;
  a label is where an instruction begins or where the code ends (`Located`); a jump is either still
  among the forward references, once, or reaches its label (`Leads`). It also says that the stored attribute is the four parts of
  the code one after the other, and where the executor may stand (`Stands`), which needs all of the above: a jump leads
  to a label, a label is an instruction's place, and the one behind an instruction is the next one's. That a number is read
  as it was written (`Number` of `Digits`, `ReadBack`), for any number of bytes that hold it, and that a
  signed displacement comes back from its complement (`SignedReadBack`) are lemmas; the induction is from the least
  number where the two would differ, as in `ClassLinker_proofs`. Patching is
  followed reference by reference: it changes two bytes of one jump, and those of no other instruction.

`NativeCalls_proofs` (for any bounds, objects and modules):

* `NativeOnTopCorrect`: `Spec => []NativeOnTop`. The inductive invariant says
  that `mReturnDepth` is the number of frames, that the native functions in
  progress were called from ever higher frames, all still there, and that each
  but the innermost waits in a `run()` whose `savedDepth` is its own frame. So a
  return never leaves a frame that a native function needs, and the
  innermost `run()` stops when its depth is reached, not below it. The references
  have no part in it: every action leaves the two stacks to a lemma on
  entering, leaving, starting or ending a `run()`.
* `HandlesSoundCorrect`: `Spec => []HandlesSound`. To the invariant above it adds `RInv` (free slots are empty,
  what is counted is what slots hold less what `lost` remembers, and a module that is made is kept by one frame
  exactly), `FramesOwed` (there is one frame of local references for each native function in progress and
  each that it has pushed, so that a return pops its own) and `Linking` (each `#LinkInit` that is waited for is that
  of a module that is linking, and nobody else waits for it). The copies a vector makes when it grows are
  an exchange of one slot after the other (lemmas on the number of slots that hold an object, and on owners).

The assumptions are those on the constants that the specifications name (`ASSUME`), which TLC
evaluates in each run; no theorem has another hypothesis.

Only model-checked: everything about liveness, since fairness and ENABLED are
beyond TLAPS; `NamesExact` and the two properties of `ModuleFiles`, which
compare two computations over sequences of no fixed length, step by step to and fro.

## 5. Where code and comments differ, and what callers would not expect

Each was met while the code was modelled; the models behave as the code does.

* **A queued function may never run.** `Threading.h:60` promises that a scheduled function will be run;
  one that is queued when the last worker has timed out is not. `AsyncFunctions` lets it wait.
* **Modules of native code.** `ProvidedFunctions.cpp:224` says a module made in the default
  mode is released when its reference frame is popped; it is deleted as soon as the
  stack of frames, or the frame's list of modules, grows (`References.cpp:163`). The same growth drops
  the references of all outer native functions (`lost` in `NativeCalls`).
* **The collector leaks and touches what it freed.** `Object.h:57` says an object whose count
  reaches zero is freed and must be treated as freed. A released candidate is
  dropped from all buffers and leaks (`CycleCollector.cpp:71`); a root that an earlier root has
  taken into its candidate cycle loses its buffered flag, is freed when released, and is
  repainted in the freed memory (`CycleCollector.cpp:138`). An object whose count `cyclicDecrement` takes to 0
  while it is ORANGE (`Object.cpp:272`) is not released: `refurbish` makes it a root, and `MarkRoots` frees it
  without taking back its references (`CycleCollector.cpp:105-111`), so that its children stay counted for good. `CountsExact` counts
  those fields too, as they are of no `discounted` object; the error is on the safe side.
* **A popped reference is removed twice.** `Object.h:142` describes a transfer of the stack's reference
  to the `ObjectRef`; the frame's destructor (`Stack.cpp:56`) removes it once more.
  `GoneAccounted` counts these.
* **Children behind other fields.** `Object.h:102` stops at the first field that is no
  reference, as if references came first in `mFields`, which keeps the declaration's order.
* **Launch's wake-up.** `Daemon.h:32` says the daemon is woken by `LaunchDaemon`, but the
  wake-up is lost if the thread reaches `hibernate()` later (the launch is commented
  out at `Threading.cpp:200`).
* **WHITE.** `Object.h:36` calls WHITE a member of a garbage cycle, but
  `markGray` discounts an edge to a GRAY object twice, so a live object that refers
  to itself turns WHITE; the sigma test of the next boundary keeps it alive, which
  `NoLiveFreed` covers.
* **Frames.** The reference arguments of a native call stay counted (`Function.cpp:198`), as do an array
  element that `RASTORE` overwrites and the object of a global's store that is not
  kept; `RASTORE` over null dereferences it; `DUP_X1` takes its types from the values
  and one slot too deep, `DUP_X2` does nothing; `FLOAT` and `DOUBLE` push nothing.
* **Classes.** A cycle of superclasses makes `LoadClass` return null without a word; `link()`
  notifies nobody; two threads that both find a class INITIALIZED both link it, and a class that is given
  may say LINKING again; `LoadClass` reads the state twice without the mutex and returns null for a class that
  is LINKING at the first read and LINKED at the second (`Linker.cpp:633`, `635`); of two threads that make
  the same array class, the second returns one that `emplace` has destroyed (`Linker.cpp:670`);
  `mLoadingThread` is read before it is written; the test that would erase an
  ERRORED class is inverted.
* **Virtual threads.** A virtual thread whose function has returned stays in its group and is
  given another turn, without a frame; at the limit of threads `Schedule` dereferences the null of
  `GetIdealVThreadGroup` when there is no group (`Threading.cpp:351`); a group that has timed out takes
  along what is given to it late.
* **Start-up.** An override that is made while another thread links the function is undone;
  strings used by a `#LinkInit` before the preload has come to them end the process.
* **Native data.** `SetObjectArrayElement` of the element's own value adds a count
  (`ProvidedFunctions.cpp:1214`); `SetObjectGlobalVar` counts neither object; releasing a copy
  of an array writes all of it back, over what others wrote.
* **Widths.** A boolean passed from bytecode to native code keeps its low byte, and so does one that is stored
  in a field: 256 is false. One that is neither 0 nor 1 is a 1 for bytecode that bytecode or the VM calls (`Function.h:235`) and
  what it was for all others. The size of an array wraps (`Object.cpp:302`, `329`): the array that is made is shorter than
  its length says. A negative array size, and the element type of array stores, are not checked.
* **Descriptors.** `V` is accepted as an argument type, and the receiver of
  `CALLVIRTUAL` is the descriptor's first argument, while native `CallMethod` puts it in local 0 by
  itself. Mangled names are ambiguous when a part begins with 1, 2, 3 or 4.
* **Variadic calls from C++.** `JesusNative.h:907-1068`: each `CallTMethod(method, obj, ...)` of the context starts its list
  at `method`, although `obj` is the last parameter with a name, which is undefined: where a list is a pointer behind
  the parameter that is named, the first argument is the object and each other one its predecessor. The C functions of the
  same names start it at `obj`. The context's `NewObject` (`JesusNative.h:787`) hands its list to the variadic
  entry, so that the constructor gets the list as its first argument.
* **Code.** A narrow `INC` of a negative number is fetched unsigned; a jump's displacement is cut to 16
  bits; the wide form of a local above 255 needs an opcode that nothing sets; a wide increment
  prepares five bytes and writes six, which the comparison in `prepare` makes up for; an
  instruction for which `realloc` fails is dropped silently, and the doubled size stays.
* **Files.** The reader's error path counts functions by the classes (`module_info.c:103`); a file
  is written over a longer one without truncating it and may then be refused; more than 0xFFFF
  constants end a build half-way; methods of classes are never freed. A pool of 32768 constants doubles its 16-bit
  capacity to 0, frees itself and is written to (`module_builder.c:107`). An attribute for whose bytes there is no memory is
  written empty (`attribute_builder.c:58`), and a class for whose superclass's name there is none has no superclass. The test
  for the end of the input follows the file of a stream that has none (`module_info.c:111`). The POSIX `files.c:393`
  refuses every read of a file opened for reading: the Windows file is what is modelled.

## 6. Not modelled, and why

* `dyncall` is vendored. `profiler`, logging, `printf`-like natives, the platform layer but for
  plugins, `StringPool` (a lookup) and getters have no behaviour of the kind a model
  shows more about than its code does.
* `JesusNative.h` beyond the call wrappers and their arguments: its other wrappers hand every
  argument on.
* In `NativeCalls`: weak references and the removal of specials, which nothing
  calls; a `wide` call, whose flag stays set while the
  nested bytecode of a native function runs (`BaseHandler.cpp:1204`).
* `interrupt()`, `yield` and `sleep`, which nothing calls, language-level daemons (`isDaemon()` is
  constantly false), modules with a linker object (TODO in the code).
* The trap hooks (`JesusVM.cpp:59-62`), iterated without a lock.
* Several mutators in `CycleCollector`: the buffers are flushed one after the other, so that
  the decrement of one thread is applied before the increment of another and a live object may be
  freed (`Threading.cpp:571`); `NoLiveFreed` would be false. So would it be of objects whose
  references follow other fields. The i16 counts (`Object.h:118`) overflow beyond any bound
  TLC reaches.
* A thread in the map whose buffer is not set yet (`Thread.cpp:76`) ends the behaviour of
  `EpochAdvance`: nothing in the code keeps it from happening, so there is nothing to claim.
* The arithmetic of numbers: handlers are told apart by types and room only.

## 7. Further work

1. `NativeCalls` joined with the counts of `OperandFrame`, and a stack of frames whose growth
   is followed by uses of the references it dropped.
2. `EpochAdvance` with the contents of the mutations and two mutators in the
   collector, once the order in which buffers are flushed is settled.
