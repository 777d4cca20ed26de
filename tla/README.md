# SlugEngine in TLA+

A verification project for SlugEngine, a C++ game engine for Windows. The code
is in `src/engine`, its documentation (Japanese) in `src/document`. Paths below
are relative to `src/engine/libs` unless they begin with `src/`. The project
contains TLA+ models of the parts of the engine where order, sharing and
lifetime decide whether it is correct, TLC runs on small instances, and proofs
for instances of any size. `PROJECT.json` lists the components, the runs, the
source lines behind every definition, the hazards and the theorems.

## The system

| Component | State | Operations | Used by |
|---|---|---|---|
| Work queue `core/task/WorkQueue` | one FIFO per priority, a skip counter per priority, mutex and condition variable | Push, TryPop, PopBlocking, NotifyAll, Size | task system |
| Task system `core/task/{Task,TaskSystem}` | per task: pending, finished, canceled, queued, started, promise, dependents; `m_inflight`, `m_stopFlag`, workers | Launch, Cancel, Wait, ParallelFor(Async), Initialize, Terminate; WorkerMain, Run, ScheduleDependents, OnTaskFinished | tick system, user code |
| Tick system `core/tick` | trees of TickFunctions (`parent`, `dependents`), groups of roots, intervals | AddDependency, DeleteDependency, Register, TickManager::Execute, TickFunction::Execute, destruction of a TickObject | game loop |
| Reference counting `core/memory/{ReferencePtr,WeakReferencePtr}` | control block: strong, weak, alive, object_ptr | copy, move, reset, attach, detach, lock, expired | everything |
| Service provider `core/service/ServiceProvider` | descriptors, singletons, services being created | AddSingleton, AddTransient, DeleteDescriptor, GetService, CleanSingletons, CleanAllSingletons | start-up, tick manager, loaders |
| Label table `core/private/memory/debug/MemoryCounter` | lock-free array of counters by label | TryFindOrCreate, IncrementBytes, DecrementBytes | allocator, debug builds |
| Resource packs `module/resource` | mounted packs in snapshots, tables of assets and chunks, codecs | Mount, Umount, TryFindAsset/Chunk, ReadChunkSync/Async; Builder::Build | asset loaders |
| D3D12 back end `graphics/rhi/private/d3d12` | per queue: fence, submitted and completed instance, lists in flight; per list: pool of command lists and of upload chunks, the cache of the state that was set; descriptor heaps | Open, Write*, Copy*, Set*State, Draw, Dispatch, Close; ExecuteCommandLists, WaitForIdle, RunGarbageCollection, Map*, queries; descriptor tables and binding sets | render core |
| RHI state tracking `graphics/rhi/private/common/StateTracking` | per command list: states of buffers and texture subresources, barriers | Require*, BeginTracking*, KeepInitialStates, CommandListSubmitted | D3D12 command list |
| Actors, levels, scene components `engine/engine_core` | three trees, cached world matrix with a dirty flag | attach, detach, SetLevel, GetWorldMatrix | game code |
| Render core, render `graphics` | caches of pipelines and bindings, materials, frame graph | calls into the RHI | applications |
| Command line, file system, reflection, serialisation, containers, window, math, geometry, image, shader compiler, SlugBuffers generator | little or none | parsing, I/O, formatting, numerics | all |

**Interaction.** A game loop asks the service provider for the task system and
the tick manager and calls `TickManager::Execute` once per frame and group. Each
level of a tick tree becomes a `ParallelFor` of the task system, whose chunks
are tasks in the work queue. Tasks, tick functions, services, actors and packs
are all kept by `TReferencePtr`; the clean-up of the tick system and of the
service provider *reads reference counts* to decide what is unused. Packs are
written by `Builder`, mounted and read by loader services, and read
asynchronously through tasks of the task system. A command list takes upload memory
and command allocators out of pools of its own, names the objects it uses in an
instance that the device keeps until the fence of the queue has passed it, and
binds descriptors out of heaps that belong to the device and are replaced when they
grow.

**What is hard.** Client threads, workers and the terminating thread race over
the atomics of a task (who may run, cancel, enqueue it, and when `m_inflight` may
become 0); shutdown sleeps on condition variables; priorities are
promoted by counters; nested `ParallelFor` blocks the worker that calls it; the
last release of an object races `lock()`; reference counts are read through
copies; exceptions leave a recursion in the middle; the GPU lags behind the
host by any amount, and what it still reads must not be reused; the cache of a
command list leaves out every call it believes redundant; files are rebuilt
while they are mounted, and packs unmounted while they are searched. What each
component has to guarantee:

* **Work queue**: FIFO within a priority, Critical first; nobody starves; no
  lost wake-up on push or stop.
* **Task system**: a task runs at most once, after its prerequisites, and never
  if canceled; Wait sees final flags; every launched task ends; Terminate drains
  and returns.
* **Tick system**: the two ends of a tree link agree; each function of a frame
  once and after its parent; nothing that was freed or destroyed is touched;
  a frame ends.
* **Reference counting**: counts equal owners; one destruction; the control block
  outlives its users; no resurrection; no leak.
* **Service provider**: one instance per singleton; circular references refused,
  everything else created; the clean-up ends and removes what is unused.
* **Packs**: what `Builder` writes can be mounted; a search answers by the priorities
  of the packs mounted when it began; reading gives back the bytes that were added.
* **D3D12 submission**: memory, allocators and objects stay untouched until the GPU
  is done with them; the host waits for all it must and for nothing that never
  comes; an idle GPU is collected completely.
* **Descriptor heap**: one owner per descriptor, contents survive every move.
* **Command state**: a draw sees the state that was asked for, however little of it
  was sent.

## Modules

| Module | Models | Composition |
|---|---|---|
| `WorkQueue` | `WorkQueue.cpp` with atomic operations: `Push`, `PopLocked` with `PopStarved`/`PopHighest`; parameters `PriorityCount`, `Quota` (8 in the code) | base of the next three |
| `WorkQueueFairness` | the same with history variables `passed`, `skipped` | extends `WorkQueue` |
| `WorkQueueSync` | mutex, condition variable, spurious wake-ups, `NotifyAll` | extends `WorkQueue` |
| `TaskGraph` | abstract specification: a task waits, runs once or is canceled, ends | - |
| `TaskSystem` | `Task.cpp`, `TaskSystem.{hpp,cpp}`; one atomic access per action, clients, workers, owner | extends `WorkQueue`; implements `TaskGraph` |
| `TaskSystemProperties` | properties and the refinement mapping (`Status`, `WaitsFor`) | extends `TaskSystem` |
| `RefCount`, `RefCountProperties` | `ReferencePtr.hpp`, `WeakReferencePtr.hpp`; one atomic access per action | - |
| `Tick`, `TickProperties` | `TickFunction.cpp`, `TickManager.cpp`, `TickObject.cpp` and the part of `ParallelFor` they use | abstracts the task system to a queue of chunks and join tasks |
| `ServiceProvider`, `ServiceProviderProperties` | `ServiceProvider.hpp`; the recursion of `GetService` as a stack | - |
| `Submission`, `SubmissionProperties` | `Queue`, `UploadManager`, `CommandList::{Open,Close,Executed}` and all that records references in `CommandList.cpp`; `ExecuteCommandLists`, garbage collection, waits, queries and mappings in `Device.cpp` | the GPU is an external action, `GpuStep` |
| `DescriptorHeap` | `StaticDescriptorHeap.cpp`; descriptor tables and binding sets in `Device.cpp`, `BindingSet.cpp` | - |
| `CommandState` | `SetGraphicsState`, `SetMeshletState`, `SetComputeState`, the draws and dispatches, the clears and writes between them in `CommandList.cpp` | the growth of the heap is `DescriptorHeap` seen from a list |
| `PackFormat` | `Builder.cpp` (the files), `RLECodec.cpp`, `NullCodec.cpp`, `LoadToc`, `ValidateHeader`, `BuildIndex`: all of it operators | base of the next |
| `PackFileSystem` | `PackFileSystem.cpp`, `PackAsyncIO.cpp`, the two writes of `Builder::Build`; threads step by step | extends `PackFormat` |
| `*MC` with `.cfg` | the instances TLC checks | - |
| `TaskSystemProofs`, `TickProofs`, `RefCountProofs`, `SubmissionProofs`, `DescriptorHeapProofs`, `CommandStateProofs`, `ServiceProviderProofs`, `PackFileSystemProofs` | proofs | extend the modules above; `TaskSystemProofs` is about the work queue too: `WorkQueue` and the modules that extend it |

State and actions carry the names of the code. In `TaskSystem`, `task[t]` is a
record of the atomics of `Task`; `pc`, `cur`, `todo` are the program counter and
the locals of a thread: `todo` is the rest of the loop over prerequisites
(`Launch`), dependents (`ScheduleDependents`, `CancelDependents`, whose recursion
is a worklist) or chunks. `done` counts how often the promise was satisfied.
`stopPc` is the progress of `Terminate` and stands for `m_stopFlag` too. In
`RefCount` a call is `pc`/`target` per thread; `raw` is a reference that
`detach()` gave away. Loads of a count whose value nobody uses
are steps too (`LoadStrong`, `LoadWeak`), because they touch memory. In `Tick`, a worker's
`items` is the chunk it iterates over; `open[j]` counts the tasks the `ParallelFor` called by
`j` still waits for, its chunks and the join task, which the last chunk puts into the queue
and some worker has to take like any other; `before` is `parent` at the moment `Execute` was
called, and `undefined` ends a behaviour that has used freed memory. In `ServiceProvider`, the
stack of factories is explicit and each frame has the dependencies it has
already received; `stuck` remembers the ids an exception has left in
`m_creatingServiceHash`.

In `Submission` a chunk is a record with the version and offset of `BufferChunk`, and a
`region` is what a write was given of it; `instance` is a `CommandListInstance`
with the objects, chunks and regions it stands for; `mark` holds the
`lastUseFence` of read-back resources and the flags of queries; `work[q]` is what the
GPU has not done. `host.state` is the wait the one host thread is in. The element of
`Starts` chosen by `Init` restricts each behaviour to one kind of object and a number
of openings, submissions and waits; since lists share only the queues and
the objects they use, kinds do not disturb each other. In `DescriptorHeap`, `owner[o]`
is the range of a table or set, and `cpu`, `gpu` say which slot of which owner a
descriptor describes. In `CommandState`, `gpu` is what the D3D12 list has been told:
its own rules (a new root signature or heap loses arguments) are the external part. A
binding's place is a slot, and a table bound out of a heap is the pair of both. `State` is
the set of states that are set; `late`, `had`, `skipped` and `unsent` are the history its
properties need, and `ended` is a program that a failed `SLUG_ASSERT` has ended: a debug
build whose logger breaks, while any other build reads on. In
`PackFileSystem`, `call[t]` is the call of a thread with its program counter:
a search takes the snapshot, walks it, and copies the file handle in two halves
(`Walk`, `CopyFile`) because `TryFindChunk` does so without the mutex. `packs` holds the
`MountedPack` objects; `TocOf` and `DataOf` are the contents of the files as
`PackFormat` computes them, one table record or character per cell.

Definitions marked "mutant" are plausible mistakes next to the definition they
replace; no specification uses them.

## Runs

| Run | Instance | Shows |
|---|---|---|
| `work_queue` | 5 tasks, 4 levels, quota 3 | promotion is never later than promised; a level is bypassed at most `Quota + 2(levels-2)` times; every task is popped in the end |
| `queue_sync` | 3 tasks, 2 levels, 2 pushers, 2 workers, stopper | nobody sleeps through a stop; a pushed task is popped |
| `task_graph` | 3 tasks with joins, duplicated and empty prerequisites; one launcher, one canceler, 2 workers (symmetric) | safety of a task's life, `m_inflight` exact, nothing left behind, refinement of `TaskGraph` |
| `task_shutdown` | chain and parallel loop of 3 tasks, Launch, ParallelFor, Wait, Terminate, Initialize | Terminate drains and returns |
| `refcount` | 2 threads with 2 strong and 1 weak pointer each, 2 objects | what is held lives, control blocks outlive all accesses but the late loads, nothing leaks |
| `tick` | 4 functions linked along two branches or to themselves, 3 workers, 1 item per chunk, 2 frames | trees agree, parents first below the roots, whole trees visited, no freed function queued, a frame ends |
| `service_provider` | 3 services in three wirings (shared dependency, cycle below a service, dependency on itself), 5 instances | uniqueness, recursion, exceptions, cleaning |
| `gpu_submission` | 2 queues, 3 lists, one kind of object per behaviour, up to 3 openings and 3 submissions | upload memory, allocators and objects intact while the GPU is behind, except what a dropped list alone kept; read-backs finished; collection complete; waits end |
| `descriptor_heap` | 2 tables, 1 binding set, heap of 3 that grows to 8 | `DescriptorsOwned`, `ContentsKept` |
| `command_state` | 4 pipelines of 3 kinds, 2 root signatures, 3 sets, 1 table, 2 volatile buffers, 2 colours, 1 growth | a draw sees state, bindings and volatile data |
| `packs` | 512 shapes of packs, one thread; 2 builds of one pack, 2 threads and 2 mounts or 1 thread and 3 mounts, a Builder that rebuilds meanwhile; a build that fails | packs mount, searches follow the priorities, names and dependencies and data are what was added |
| `task_doomed` (violated) | as `task_graph` with 1 worker | a task with a canceled prerequisite may run |

The violated run checks what a unit test says; the finding in `PROJECT.json` quotes it.

**Bounds.** Two workers and two clients are the fewest that race for one task on
every pair of operations; three tasks allow a join, a chain, a duplicate
prerequisite and a loop with its join. Four levels let two levels starve
at the same time, and five tasks keep two in one FIFO. A second object in
`refcount` lets a pointer move from one object to another while it is being
released. `AttachAliases`, the number of times `attach()` is given the object a
pointer already has, is 1 because each leaks a reference and the count would
grow for ever. The `Links` of `tick` are those of a function with two dependents that have a
third in common, and of a function that is its own parent: two workers clean the two branches
at once, and the common one can be moved between them. `Grain = 1` puts the two dependents
into a chunk each (the code's grain is four times the number of workers, so only levels with
more functions than that are split); the join task is a third task that a worker must be free
for. Two frames let a function be moved and destroyed with a frame before and after it, and
pass its interval of two. Three workers are one more than the functions that can block in these
trees, two; with one fewer the frame may stop (below). Five instances of services leave room for a call
that needs four (`Room`) while one is held. `Shapes`, `Operations` and
`OwnerOperations` choose what the threads of a `TaskSystem` instance do.

In `gpu_submission` the units stand for the sizes of the code (`Alignment` 2 for 256
bytes, `TextureAlignment` 4 for 512, chunks of 6 rounded up to 8, scratch memory limited
to 8); pieces of 1 and 9 units fit into a chunk several times, and not at all.
Three openings let a list find a chunk in its pool that is free, one
that is finished and one that is not. In `descriptor_heap` the heap starts with 3
descriptors, no power of two, and a third of the owners always has to move when another
grows; 8 is the bound of its growth (`PowersOfTwo`). In `command_state` two slots and four
sequences of bindings contain every change that shifts the list of volatile buffers:
set with a buffer, without one, table, and fewer slots. Each frame buffer goes with a colour of
its own, and one of two graphics pipelines makes use of it. One write of the first
and two of the second buffer leave an old address at a shifted index; a second growth
of the heap would repeat the first. The `VIEW` drops what belongs to a state that is
not valid, everything once the program has ended, and which other colour the list has. In `packs` the longest run is 3 instead of 255 and the data lie below,
at and above it; alignments are 1 and 4; ids repeat, so that `AddChunk` and `AddAsset`
refuse. Symmetry is that of the threads, and the view forgets packs to which nothing
refers any more.

**Fairness.** A thread that is inside a call goes on, because nothing in the code
waits except on what is modelled (weak fairness of each thread's steps); nobody is
obliged to begin a call, to push, to execute a frame or to terminate. Where a
mutex is contended by threads that take it again and again (spurious wake-ups
of a condition variable), strong fairness of the waiting step stands for a
lock that is granted in the end. Spurious wake-ups themselves have no fairness.
In `Submission` each queue of the GPU goes on (`GpuStep`, `WaitForQueue`) and a host whose
fence has come returns (`WaitReturns`); the host need not record or submit anything.

**Deadlock** is not checked where the system may stop: all tasks done, all
workers gone, all objects destroyed, frames or submissions used up (`CHECK_DEADLOCK
FALSE`). It is checked in `work_queue`, `service_provider`, `descriptor_heap`,
`command_state` and `packs`.

## Proofs

| Theorem | Module | Statement |
|---|---|---|
| `QueueSafety` | `TaskSystemProofs` | types and `SkipCountBounded`, for any tasks, levels and quota |
| `PromotionInTime`, `WaitIsBounded` | `TaskSystemProofs` | `PromotionNeverLate`; `BoundedBypass`, for any number of levels and any quota |
| `NoLostStop` | `TaskSystemProofs` | `NobodySleepsThroughStop` |
| `TypeCorrect` | `TaskSystemProofs` | `TaskTypeOK`, for any tasks, dependencies, clients, workers |
| `RunsOnce`, `CancelWins`, `FlagsFirst` | `TaskSystemProofs` | `ExecutedOnce`, `CanceledNeverRuns`, `FlagsBeforePromise` |
| `InflightCounted` | `TaskSystemProofs` | `InflightExact` |
| `TaskSystemImplementsGraph` | `TaskSystemProofs` | the refinement `ImplementsTaskGraph` |
| `NoTaskForgotten` | `TaskSystemProofs` | `QuiescentMeansDone` |
| `ShutdownLeavesNothing` | `TaskSystemProofs` | `TerminateDrains`, if `Orderly`: the owner terminates only while no client is inside the system |
| `TickTypes`, `TreesAgree`, `ParentsFirst`, `FrameComplete`, `QueuedLive` | `TickProofs` | `TickTypeOK`, `TreesConsistent`, `ParentFirst`, `FrameVisitsTrees`, `QueuedFunctionsLive`, for any functions, groups, intervals, workers, chunk sizes and links |
| `HeldObjectsLive`, `ControlBlocksLive`, `NoReferenceIsLost` | `RefCountProofs` | `HeldStaysAlive`, `ControlOutlivesWeak`, `NothingLeaks`, for any threads, objects and pointers |
| `RegionsStayIntact`, `PendingIsKept`, `ReadbackIsFinished`, `IdleIsCollected` | `SubmissionProofs` | `RegionsIntact`, `PendingKept`, `ReadbackFinished`, `IdleCollectsAll`, for any queues, lists, resources, queries, sizes, alignments and limits |
| `DescriptorsHaveOneOwner`, `ShadersSeeWhatWasWritten` | `DescriptorHeapProofs` | `DescriptorsOwned`, `ContentsKept`, for any tables, binding sets, sizes and capacities |
| `DrawsSeeTheirState`, `DrawsSeeTheirBindings`, `DrawsSeeTheirData` | `CommandStateProofs` | `DrawSeesState`, `DrawSeesBindings`, `DrawSeesVolatile`, for any pipelines, frame buffers, colours, bindings and sets of states |
| `SingletonsAreSingle`, `CreatableIsCreated`, `CleanAllCleans` | `ServiceProviderProofs` | `SingletonUnique`, `GetServiceDecides`, `CleanAllLeavesHeld`, for any services, wirings and instances |
| `SearchesAnswerTruly` | `PackFileSystemProofs` | `FindAnswersTruly`, for any builds, packs, priorities and threads |
| `BuiltPacksMountAlways`, `AssetsAreAsAdded`, `ReadsAreAsAdded` | `PackFileSystemProofs` | `BuiltPacksMount`, `AssetsAsAdded`, `ReadsWhatWasAdded`, for any chunks, bytes, alignments, assets, names and longest run |

The assumptions are the named `ASSUME`s of the modules, which TLC evaluates on
every run. Those that say more than what the constants are: threads and pointers are
finitely many (`ThreadsAreFinite` in `TaskSystem` and `RefCount`), because the counters
are compared with cardinalities, and so are the workers of `Tick` (`WorkerAssumption`); services and their instances too (`FiniteAssumption`), because
the clean-up compares a count with 1. An address of volatile memory is never taken for `None`
(`StateAssumption`); command lists are finitely many, an object is of one kind, and a read-back
resource or query is used on one queue (`SubmissionAssumption`): mappings and polls look at
the fence of one queue only. The descriptions a `Builder` is given have the types of
`BuilderChunkDesc` and `BuilderAssetDesc` (`ScopesAssumption`): what their values may be is for
`AddChunk` and `AddAsset` to refuse, which are part of what is proved.

**Work queue.** With the types, `SkipCountBounded` is inductive
(`QueueInv`) because it says more than the bound: a level at the quota has a task
waiting, so it is starved, `PopHighest` is not reached, and nothing counts it
further. `PromotionInTime` adds the history: `skipped` never exceeds `skipCounts`,
because every pop that records a skip also counts it, and only a pop that serves
the level resets the counter (`HistoryInv`). `WaitIsBounded` counts the promotions of the
other levels too (`BypassInv`): a waiting level has been passed at most as often as its
counter says and once for each element of a set that holds at most two promotions per
rival. A rival can be promoted a second time only after a whole quota of pops that
count against the waiting level as well, so there is no third; Critical is never counted, so
it is no rival. `SyncInv` says what the stopper's
place implies once the flag is set: a worker that is about to sleep holds
`m_mutex`, so the stopper, which takes it before it notifies, comes before the
worker's last look at the flag or after it fell asleep.

**The life of a task.** `TypeInv` strengthens `TaskTypeOK` by what each program counter
implies of the locals: a thread that looks at the head of `todo` has a nonempty list of
real tasks there, a thread past the pop has a task. `LifeInv` is about the owner of a
task: the thread whose compare-exchange set `started` is the only one between that
step and the promise (`Owns`); a task that nobody started has neither run nor been
satisfied; for the owner, the flags stored so far follow from its program
counter. Three theorems are parts of `LifeInv`. Most steps touch
neither the flags nor ownership (`QuietLife`); the steps of Cancel and Run are
proved one by one.

**The count of Terminate.** `InflightExact` needs that a task is queued once and that
a thread in Enqueue has not yet pushed what it counted (`InflightInv`): then every step adds
one element to one of the three sets and takes one from another, or both changes agree
with that of `m_inflight`.

**The dependency counts.** That a task starts only when the tasks it waits for are over
is a matter of `m_pending`, which three parties decrement. `Owed(t)` is the set of notices
t can still get: one for each place it has in a list of dependents, for each
prerequisite its launching client has not looked at, and for each place it has in a list that a
worker has taken and not walked. `DebtInv` says that `m_pending` is never below their number
(it may be above: Cancel takes a list of dependents and gives no notice to any of them). `WaitInv` says that a prerequisite
that is not over still holds such a notice. So `m_pending = 0` means that nothing is
awaited (`PaidUp`). A worker that decrements to 0 has taken the last notice itself; but a client that
launches may decide too, while a worker walks its lists, so that `GraphInv` also keeps
what each thread knows (`Seen`) and that it enqueues and runs only tasks that may start
(`Cleared`, `QueuedReady`). `FlagInv` keeps `finished` to the owner, which makes finished and
canceled exclusive. `StepRefines` then maps every step: `LaunchBegin` and
`ParallelForBegin` submit, the compare-exchange of Run starts, `StoreCanceled` cancels,
`RunFinished` finishes; all others stutter.

**No task is forgotten.** This is the other half of the counting: `GraphInv` bounds
`m_pending` from below, so that no task starts too early; `QuietInv` bounds it from above, so
that none waits for ever. A thread can have five roles towards a task: it owns it (`Owns`), has
claimed it and has to push it or has popped it (`Hands`), must take its dependents (`Drains`),
is about to cancel it (`Cancels`), or will look whether it is to be enqueued (`Starts`).
`StartedInv`, `ClaimedInv` and `DrainedInv` say that a task that is started, claimed or over
but not finished with is some thread's business. `PromisedInv` says that a task that is none of
these (`Settled`) still gets as many notices as `m_pending` counts (`Promised`), and that a count
of 0 is about to be looked at (`Coming`). Cancel takes a whole list of dependents and gives
no notice, so the bound must except the tasks on its way; each of them is started before it
leaves the list. `PassesOn` and `StepQuiet` reduce a step to what its thread lets go of: it has
finished that business or takes another role. With nothing in flight no thread has a role
(`NothingInflight`), so a task that is not over would wait for one that is over and has no
dependents left. For `TerminateDrains` this is repeated along the dependencies: `RankInv` says
that the tasks can be numbered so that each comes after what it waits for, and the first one
that is not over contradicts `NoTaskForgotten`; `ShutdownInv` keeps the clients outside and
`m_inflight` at 0 from the moment the owner joins. `Orderly` is a hypothesis because the
code needs it: see the `Launch` that is still on its way, below.

**Tick.** `TreeInv` is the agreement of `dependents` and `parent`, with one more fact: a function that is
gone has no list and is in none. `Kept` is the largest set in which each function is referred
to, so a set is shown to survive by naming a reference of each member inside it, and one
function is shown to go by taking all that may refer to it (`DroppedIsFreed`). `FrameInv` says
who has what during a frame. A function is queued, in the hands of one worker, or neither
(`DistinctInv`); the functions of a chunk are dependents of the function that joins it, whose worker
waits (`JoinInv`); `open` counts the chunks that are queued or in hand and, until it is over, the
join task (`OpenInv`). What has been
executed and is still in hand is being cleaned or joined, and what the frame has reached comes after
its parent (`OrderInv`); of a function whose clean-up is over, all dependents have been reached
(`CoverInv`). `LiveInv` needs this order: everything reached but the roots is in the list of a
parent that was reached earlier and has finished its clean-up, so a clean-up elsewhere finds a
second reference, and the roots are held by their objects or their group. When nothing of the roots is
open, any chunk that was left would be joined by a function whose own chunk is joined by its parent,
and so on to ever earlier entries of `executed` (`NothingPending`). With no chunk left, what was executed
is closed under `dependents`, and by the same descent it lies in every closed set that holds the roots.
That a function comes after its parent holds of `parent` as it is during the frame (`Ordered`);
outside the group's list this is the parent at the call of `Execute` (`BeforeInv`), which is the one
`ParentFirst` speaks of.

**References.** `RefInv` says what each count is: `m_strong` the number of strong
pointers, raw references and calls that own one, `m_weak` the number of weak pointers,
the calls that own one, and one for the object itself (`CountsOf`); and in which order an object
and its control block go (`LifeOf`). A late load of a count owns nothing, so nothing is said of it. A call is at one place, so a step moves at most one
element between two of these sets.

**Submission.** `BaseInv` says in what order things are: what a queue has not finished is
numbered above its fence and below `lastSubmittedInstance`, in the order of submission, and
`lastCompletedInstance` is never ahead of the fence (`FenceInv`); the chunks of an upload manager
have identifiers of their own (`Sound`). `IdleCollectsAll` is a consequence. `KeptInv` then finds
a keeper for everything that is pending: its objects and chunks are in an instance in flight that was
submitted with the same number, which a collection leaves alone because the fence has not reached it
(`FlightKept`); its allocators are in the pools of their lists with that number, and `Open` takes
one only when the fence has passed it (`PoolKept`); those of the pool and the active one differ
(`PoolApart`). `BackInv` is the argument for upload memory: each recorded or pending piece lies
below the write pointer of a chunk whose version says that it is being recorded, or was submitted
no earlier than the piece, so it is not `Reusable` (`FirmBacking`). `Suballocates` is what
`SuballocateBuffer` guarantees whichever way it goes: such chunks are still there with the same version,
and the new piece begins where they end, hence apart from all pieces of its chunk
(`NewPieceApart`). `PendingKept` combines the two: while its list exists a piece is in a chunk of the
manager (`BackInv`), and the chunks of `Write` are in the instance as well (`FlightKept`). Of the
memory that the list alone keeps (`KeptByListAlone`) nothing can be said once the list is gone. A list that is re-opened without being submitted leaves chunks whose version is
never submitted; they are lost to the pool, not handed out too early. `ReadInv`: what is pending has left its
submission number, or a later one, on the read-back resources and queries it writes
(`PendingMarked`), and the host that waits for one of them waits for that number.

**Descriptors.** `HeapInv` adds to `DescriptorsOwned` that an object that does not exist owns
nothing. An allocation lies in what is not marked (`AllocationIsFree`), so it is
disjoint from every owner's range, since the union of these is what is marked; a
release takes away exactly one owner's range, which is disjoint from the others
(`RangeGrows`, `ReassignedKeeps`). Enlarging a table with its contents has both in one
step, with the growth of the heap between them. `ContentsInv` is proved on top: what is
written lies in its owner's range, and a write, a copy or a growth changes
descriptors of that range only, or keeps all of them.

**Command state.** `StateInv` adds three facts to `DrawSeesState`: at most one of the graphics, meshlet
and compute states is valid (`OneValid`), so the comparison is always with what was sent last;
without a valid graphics state no shading rate is set (`RateUnbound`), so none is left over
for a state that does not want one; and the colour of the valid state was sent unless it was new
under a pipeline that makes no use of it (`BlendTold`). For a binding that is not sent again the two states have the same
element at the same slot, and neither the root signature nor the heap has changed, which would
have made the list send it. Volatile buffers need a history, because the list
compares addresses and its entries shift from index to index: an address tells its buffer
(`AddressInv`), so equal addresses mean equal buffers; the list has one entry for each slot whose
buffer had data, and entries of one buffer have one address (`EntriesInv`); a slot of the current
bindings that had data when they were set, and was not passed over because nothing else had
changed, has one (`CoveredInv`); an address that is up to date is the one bound at the slot, and all are up to date if nothing was written since
(`BoundInv`). A flush that finds an address unchanged then has nothing to bind, whichever
index the entry has moved to.

**Services.** `Kept` and `CreatableFrom` are fixpoints, so that each proof uses what
defines them, largest or smallest, where a program would count. `SingleInv`: an id that is
being created has no entry in the map, and every instance a singleton's
descriptor has made is the one in the map. The only place where an entry goes is
`CleanVisit`, and with a count of 1 nothing else refers to the instance
(`OnlyReference`), so it goes as well. `CallInv` relates a call in progress to the moment
it began: what has become available since could be created then, and what the innermost
factory is asked for can be created if the first could. So a service that is finished was
creatable, and a refusal (`CallIsRefused`) closes a circle of ids on the stack, or meets an id that
an exception has left in `m_creatingServiceHash` (the hash holds those and the stack, `StuckInv`):
without either the smallest set would still suffice, a contradiction. For the clean-up, `LiveInv` says
that what is referred to exists and what exists is referred to, and that services never use
each other in a circle, because a service is made after what it uses: with no entries left, a
service nobody holds would need an unheld user, and that one another, without end.

**Packs.** What a pack says of itself to a search, its priority and its tables, never changes
once `Mount` has made it (`Kept`): `Umount` resets the file only, and an id is never given
twice (`FreshInv`). `SnapshotInv`: the snapshot holds the mounted packs, each once, in the order of
their priorities. A search has a copy of the snapshot, so that what it may answer with is what
it was when the search began, and the first pack of the walk with the id is among it
(`FirstHit`).

The other three theorems are about what the loops compute, for every input. A loop is a
recursive function of its rounds, so there is one lemma for a round, and the set of the rounds
after which a statement holds is closed under it (`AllUpTo`). So `RLECompressor` and
`RLEDecompressor` are inverses (`CompressInverse`): after n rounds the pairs written so far
unroll to the bytes read so far. A builder holds what was added first with each id
(`ChunksTo`), the data file every chunk where its record says and on its alignment (`FileTo`),
and the tables what the records refer to (`TablesTo`): what a round appends leaves what
earlier records point at where it is. `LoadToc` reads each table at the
offset the header gives, which is where `Build` put it (`BuiltLoads`), and `BuildIndex`
refuses none of it (`BuiltIndexes`). Of the steps this needs that a pack keeps the builds its
files are from, that a search only ever ends at a pack with a record of the id, and that a
mounted pack has its file (`DataInv`): so a read that finds no file has been overtaken by
`Umount`, since a pack is not mounted before it is published, nor twice (`PublishingInv`).
Numbers have no width here: the theorems are about packs whose offsets fit 64 and whose sizes
fit 32 bits, as the fields of the header do.

**Only model-checked.** Liveness (`NoStarvation`, `EveryPushIsPopped`, `TerminateReturns`,
`FrameCompletes`, `CleanAllReturns`, `EveryWaitEnds`) is out of the prover's reach. Every
invariant, action property and refinement the passing runs check is stated by a theorem. The type
invariants of `WorkQueueSync`, `Tick` and `ServiceProvider` are definitions that no run
lists: they say no more than the domains.

## What the code does and a reader would not expect

Met while modelling. The properties above hold because they allow for these, or
because the model stops at them; each is a behaviour of the model unless it says so.

* `TaskHandle::Wait` calls `get_future` each time (`TaskSystem.hpp:33`), which
  throws the second time; the unit test `TaskSystem.cpp:269` waits on a handle
  again. The model has the exception as the label `threw`.
* `src/document/core/2_task_system.md:97` stores `finished` after `set_value`; the
  code and its comments do it before, which is what `FlagsBeforePromise` needs.
  Line 137 of the document speaks of four chunks per worker by default; the code
  makes chunks of four times the number of workers (`TaskSystem.hpp:118`).
* `TReferencePtr::attach` of the object it already has returns before it takes the
  reference over (`ReferencePtr.hpp:354`), which leaks it: see `dropped`.
* A `Launch` that is still on its way when `Terminate` has stopped the workers leaves
  `m_inflight` at 1 with no worker to run the task, and `Terminate` waits for ever, although
  `2_task_system.md:145` promises an orderly stop (`Orderly = FALSE` shows it).
* `ExecuteDependents` calls `ParallelFor` from a worker (`TickFunction.cpp:73`), which blocks
  (`TaskSystem.hpp:152`): a chain of three functions, as in `3_tick_system.md:101`, stops for
  ever on two workers. `FrameCompletes` holds with three.
* `CleanFunction` tests the reference count of the copy `TryGetGroup` made
  (`TickManager.cpp:66`), so a destroyed root is executed in the next frame, with a target that
  is gone, although `3_tick_system.md:24` says it is removed.
* `Register` adds the function to a copy of the group if the group exists
  (`TickManager.cpp:35`): the second function of a group is never executed, against
  `3_tick_system.md:67`.
* `TickFunction::parent` is never cleared when the parent is freed; the next
  `AddDependency` or `Register` of the child follows it (`TickFunction.cpp:28`).
  `Tick` models it as `FollowFreedParent`.
* A function with an interval of n frames that is executed in every frame is never
  ticked for n > 1, because `preTickTime` is set on every execution
  (`TickFunction.cpp:99`), while `3_tick_system.md:52` calls the interval the minimum
  between two ticks.
* A root that is given a parent stays in its group's list, and the next frame takes it away from the
  parent and executes it at once (`TickManager.cpp:70-74`). `3_tick_system.md:61`, 80 and 153 promise
  the contrary: it leaves the list, and its parent ticks first. `ParentFirst` excepts the functions
  of the list.
* The guard of `AddDependency` asks whether a function depends on itself (`TickFunction.cpp:22`), so
  that a function can become its own parent. It is then below no root, keeps itself alive, and
  takes no other parent until it is registered.
* `ReferenceObject::Release` and `ControlBlock::ReleaseWeak` load the count again after their own
  `fetch_sub` when it was not the last (`ReferencePtr.hpp:149`, 82), through an object and a control
  block that another thread may have freed by then. No caller uses the value.
  `ControlOutlivesWeak` excepts these two loads (`LateLoads`), and only these.
* The memory of acceleration structure builds, shader tables, `AllocateUploadBuffer` and scratch
  (`CommandList.cpp:1381`, 1579, 1713, 1982; 1638, 1987, 2517) has no reference in the instance:
  dropping the list frees it although the GPU may still have to read it. `PendingKept` excepts it
  (`KeptByListAlone`); `WriteBuffer` and `WriteTexture` do keep their chunks.
* After an exception in a factory, `GetService` reports a circular reference for
  ever (`ServiceProvider.hpp:228-237`) of the ids that were being created, and of every service that
  needs a new one of them. `GetServiceDecides` has this as a case of its own (`obstructed`).
* `Initialize` after `Terminate` starts workers that leave at once, because
  `m_stopFlag` is never reset, and the second `Terminate` returns without joining.

* `ClearTextureFloat`, `ClearTextureUint` and `ClearBufferUInt` call `CommitDescriptorHeaps` and
  ignore its result (`CommandList.cpp:504`, 585, 908): if the heap has grown, the bindings of
  a state that is still valid are lost. `DrawSeesBindings` excepts this (`late`).
* `DispatchRays` clears `m_anyVolatileBufferWrites` before it refuses
  (`CommandList.cpp:1475`), which loses writes for the next draw: `DrawSeesVolatile` excepts
  it (`rays`). `SetRayTracingState` never stores `m_currentRayTracingState`.
* An unchanged binding set is compared with the entry at its index, which may lie behind the end of
  the old list of volatile buffers (`CommandList.cpp:2261`). `operator[]` asserts there
  (`StaticVector.hpp:48`); a build without `SLUG_DEBUG_MODE`, or one whose logger returns, goes on
  and reads storage that is zero. Both are outcomes of the model (`AssertionFails`, `Rebound`).
* A state that is set again unchanged after the first write of one of its volatile buffers binds
  nothing, because the mask is 0 (`CommandList.cpp:2212`): the buffer has data and no entry.
  `DrawSeesVolatile` excepts it (`skipped`).
* The blend factor is sent if it differs from that of the last graphics state and the pipeline makes
  use of it (`CommandList.cpp:1019`, 1048): a colour that was new under a pipeline that does not is
  not sent for the next one that does. `DrawSeesState` excepts it (`unsent`).
* `m_fenceEvent` is one event for the whole device (`D3D12Utility.cpp:1135`): a second host
  thread would take the wake-up of the first. The model has one. `ResolveTexture`
  (`CommandList.cpp:815`) references neither texture. A buffer's `lastUseFenceValue` is 32 bits
  wide. `m_allocatedMemory` is never raised. Opening a list again without having executed
  it gives up its chunks. The time of a query that was reset is read without a wait.
* Descriptors released below `m_searchStart` are found again, holes left below it by
  a failed search are not. A heap that cannot grow is lost.
  `src/document/graphics/rhi/1_rhi_design.md:348` calls the heaps of fixed size.
* Pack ids begin with 0, which is `s_InvalidPackId`, and a failed `Mount` uses one up.
  `activeReadCount` and `referencedResourceCount` are never raised, so that
  `PendingUnmount` is never reached and `Umount` closes the file under a reader.
  `MountDesc::validateHash` is never read, nor is the header of the data file: a table of
  contents of one build mounts with the data of another. `ReadChunkAsync` reads as much
  as the buffer holds, not as the chunk has. `UnmountAll` leaves the files open for whoever
  has a snapshot. `FileSystemController::Read` returns null when it has read the file
  (`FileSystemController.cpp:62`); packs are read through `Open` and `ReadAt`.

## What is not modelled

In the modelled components:

* Tasks: results and exceptions of task functions (both end in the same stores); weak memory
  orders (each atomic access is sequentially consistent; the code uses
  acquire/release, and no property here depends on the order of two different relaxed
  atomics). `TReferencePtr`: one pointer used by two threads, which is a race of the caller. Tick: two main threads;
  `TickManager::CleanGroup`. Services: factories that return null,
  which leaves a null entry that `CleanSingletons` follows, or change descriptors.
* D3D12: creation of resources, pipelines and root signatures, conversions between
  enumerations, the contents of ray tracing structures and shader tables (their memory is
  `Allocate`), push constants, viewports, vertex, index and indirect buffers of a state, barriers. Several host threads: the heap has a mutex of
  its own, but `Device` reads a handle outside it and writes there afterwards, which loses the
  descriptor if another thread grows the heap in between. `GetClearUAV` may grow the heap
  after it was committed; a table that is resized while it is bound moves. Objects are used
  on one queue.
* Packs: `AssetHeader`; the raw pointers in `AssetLocation` and `ChunkLocation` once the pack
  is gone; a handle released between the load of the pointer and its count; sums that
  wrap at 2^32 or 2^64, which no file of `Builder` reaches; two overlapped reads of one handle
  without an event, either of which may wake for the other (`FileHandle.cpp:78`).

Left out altogether:

* *RHI state tracking.* `GetTextureStateTracking` and `GetBufferStateTracking` insert the
  pointer of a local `TUniquePtr` into the map (`StateTracking.cpp:353`, 386); the state is freed
  on return and used by the caller. The first use of any resource is thus undefined and
  every property would be about histories without one.
* *Actors, levels, scene components.* Setting the parent an actor, component or level already
  has recurses without end (`Actor.cpp:17`, `SceneComponent.cpp:197`, `Level.cpp:20`);
  `SetParentActor(nullptr)` leaves the root component's parent (`Actor.cpp:22`); attaching does
  not mark the world matrix dirty (`SceneComponent.cpp:197`). A model of the trees would
  have to except most of its operations.
* *Render core and render.* `ConstantParameter` stores the address of a value instead of the
  value (`ConstantParameter.cpp:183`), `Material::GetParameter` reports a parameter it found as
  missing (`Material.cpp:27`), `BindingCache` exchanges samplers and textures
  (`BindingCache.cpp:57`) and keeps sets by the material's name (103): work in progress whose
  intended behaviour the repository does not say. `FrameGraph` is a list of passes.
* *Label table* of `MemoryCounter`: two threads make two entries of one label, or an index behind
  the table (69); what stays true of a label is too little to state.
* Direct3D itself, windows, files, logging and formatting (pure I/O); math, geometry, image
  and mesh algorithms (floating point); reflection and serialisation (templates evaluated at
  start-up); containers (sequential, within reach of their unit tests); the code
  generator; third-party build scripts.

## Plan

Modelled and checked: `WorkQueue`, `WorkQueueFairness`, `WorkQueueSync`, `TaskGraph`,
`TaskSystem`, `RefCount`, `Tick`, `ServiceProvider`, `Submission`, `DescriptorHeap`,
`CommandState`, `PackFormat`, `PackFileSystem`. Proved: every safety property of all of them.
What a next module would be about is in the list above: the parts that are not modelled.
