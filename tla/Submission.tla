------------------------------ MODULE Submission ------------------------------
(***************************************************************************)
(* Recording and submission of command lists in the D3D12 back end:        *)
(* Queue, UploadManager and the life of a CommandList in CommandList.cpp,  *)
(* the queries, the mappings and the submission in Device.cpp.             *)
(*                                                                         *)
(* One host thread records lists, submits them, maps what the GPU has      *)
(* written and waits; each queue of the GPU works through its items in     *)
(* order and raises a fence.  What the host hands out again -- a piece of  *)
(* an upload chunk, a command allocator, the memory of a resource -- must  *)
(* no longer be in use by work the GPU has not finished.                   *)
(***************************************************************************)
EXTENDS Integers, Sequences, FiniteSetsExt, SequencesExt

CONSTANTS
    Queues,         \* m_queues, in order
    List, QueueOf,  \* command lists, and the queue of each (m_desc.queueType)
    Buffer, Texture, \* resources the GPU alone uses
    StagingBuffer, StagingTexture,   \* buffers with CPU access, staging textures
    Timer, Event,   \* timer and event queries
    UsedOn,         \* the queue a readback resource or a query is used on
    Starts,         \* what the application creates and how much is explored:
                    \* [objects, lists, kinds, opens, submits, regions, waits]
    Sizes,          \* sizes of the pieces of upload and scratch memory
    Alignment, TextureAlignment,  \* 256 and 512 bytes, in the unit of Sizes
    ChunkAlignment, \* BufferChunk::SIZE_ALIGNMENT
    ChunkSize,      \* uploadChunkSize and scratchChunkSize
    ScratchLimit,   \* scratchMaxMemory
    None

Queue == Range(Queues)
Readback == StagingBuffer \cup StagingTexture
Resource == Buffer \cup Texture
Object == Resource \cup Readback \cup Timer \cup Event
Kinds == {"upload", "scratch"}

Chunk == [id : Nat, size : Nat, version : Nat \X BOOLEAN, used : Nat]

\* An object is of one kind; sizes are not negative and alignments not zero.
ASSUME SubmissionAssumption ==
    /\ Queues \in Seq(Queue) \ {<<>>} /\ IsFiniteSet(List) /\ QueueOf \in [List -> Queue]
    /\ UsedOn \in [Readback \cup Timer \cup Event -> Queue]
    /\ Resource \cap (Readback \cup Timer \cup Event) = {}
    /\ Readback \cap (Timer \cup Event) = {} /\ Timer \cap Event = {}
    /\ Sizes \subseteq Nat /\ {ChunkSize, ScratchLimit} \subseteq Nat
    /\ {Alignment, TextureAlignment, ChunkAlignment} \subseteq Nat \ {0}
    /\ None \notin Object /\ None \notin Nat /\ None \notin Chunk

VARIABLES
    work,       \* [Queue -> items the GPU has not finished] (external)
    fence,      \* [Queue -> value of the fence] (external)
    queue,      \* [Queue -> fields of class Queue]
    list,       \* [List -> fields of class CommandList]
    held,       \* objects the application holds a pointer to
    mark,       \* fence and flags of readback resources and queries
    host,       \* the wait the host thread is in
    scope       \* the element of Starts this behaviour belongs to

vars == <<work, fence, queue, list, held, mark, host, scope>>

-----------------------------------------------------------------------------
(* Versions and upload memory.                                             *)

MakeVersion(id, submitted) == <<id, submitted>>
Unused == <<0, FALSE>>

Align(size, alignment) == ((size + alignment - 1) \div alignment) * alignment

\* A chunk of the pool can be taken if it is free, or the GPU is done with it.
\* (mutant of Reusable: takes a chunk as soon as it has been submitted)
ReusableSubmitted(chunk, size, done) ==
    /\ chunk.version = Unused \/ chunk.version[2]
    /\ chunk.size >= size
Reusable(chunk, size, done) ==
    /\ chunk.version = Unused \/ (chunk.version[2] /\ chunk.version[1] <= done)
    /\ chunk.size >= size

CreateChunk(pool, size) ==
    [id |-> Len(pool), size |-> Align(size, ChunkAlignment), version |-> Unused, used |-> 0]

\* Where the piece begins, and the manager after the call.  A request above the
\* limit fails: no chunk of the pool is that large.
SuballocateBuffer(m, size, alignment, version, done, limit) ==
    LET start == Align(m.current.used, alignment)
        hits == {i \in DOMAIN m.pool : Reusable(m.pool[i], size, done)}
        retired == IF m.current = None THEN <<>> ELSE <<m.current>>
        left == IF hits = {} THEN m.pool \o retired ELSE RemoveAt(m.pool, Min(hits)) \o retired
        need == Align(IF size > ChunkSize THEN size ELSE ChunkSize, ChunkAlignment)
        chunk == IF hits = {} THEN CreateChunk(left, need) ELSE m.pool[Min(hits)]
    IN  IF m.current # None /\ start + size <= m.current.size
        THEN [at |-> start, manager |-> [m EXCEPT !.current.used = start + size]]
        ELSE IF hits = {} /\ limit > 0 /\ need > limit
        THEN [at |-> -1, manager |-> [current |-> None, pool |-> left]]
        ELSE [at |-> 0,
              manager |-> [current |-> [chunk EXCEPT !.version = version, !.used = size],
                           pool |-> left]]

SubmitChunks(m, recording, submitted) ==
    LET all == IF m.current = None THEN m.pool ELSE Append(m.pool, m.current)
    IN  [current |-> None,
         pool |-> [i \in DOMAIN all |->
                      IF all[i].version = recording
                      THEN [all[i] EXCEPT !.version = submitted] ELSE all[i]]]

-----------------------------------------------------------------------------
(* A command list.                                                         *)

\* CommandListInstance while it is recorded; `regions' are the pieces of
\* memory the recorded commands read or write.
EmptyInstance == [objects |-> {}, chunks |-> {}, regions |-> {}]

NewList ==
    [state |-> "idle", version |-> 0, instance |-> EmptyInstance, active |-> 0, pool |-> <<>>,
     uploadBuffer |-> None, upload |-> [current |-> None, pool |-> <<>>],
     scratch |-> [current |-> None, pool |-> <<>>]]

\* (mutant of UpdateLastCompletedInstance: looks at the fence one submission late)
UpdateLastCompletedLate(q) ==
    IF queue[q].completed + 1 < queue[q].submitted THEN fence[q] ELSE queue[q].completed
UpdateLastCompletedInstance(q) ==
    IF queue[q].completed < queue[q].submitted THEN fence[q] ELSE queue[q].completed

Items(q) == Range(work[q])
WorkItems == {i \in UNION {Items(q) : q \in Queue} : i.kind = "work"}
InFlight == UNION {Range(queue[q].inFlight) : q \in Queue}

\* CreateInternalCommandList: an allocator nobody else uses.
NewAllocator(l) ==
    LET taken == {p.allocator : p \in Range(list[l].pool)}
                     \cup {a[2] : a \in {b \in UNION {i.allocators : i \in WorkItems} : b[1] = l}}
    IN  CHOOSE a \in 1 .. (Cardinality(taken) + 1) : a \notin taken

PoolReady(l, done) == list[l].pool # <<>> /\ Head(list[l].pool).submitted <= done

\* Opening a list again that was closed but never executed drops its instance.
Open(l) ==
    LET q == QueueOf[l]
        done == UpdateLastCompletedInstance(q)
    IN  /\ host.state = "run"
        /\ list[l].state \in {"idle", "closed"}
        /\ queue[q].recording <= scope.opens
        /\ list' = [list EXCEPT
              ![l].state = "open",
              ![l].version = queue[q].recording,
              ![l].instance = EmptyInstance,
              ![l].active = IF PoolReady(l, done) THEN Head(list[l].pool).allocator ELSE NewAllocator(l),
              ![l].pool = IF PoolReady(l, done) THEN Tail(@) ELSE @]
        /\ queue' = [queue EXCEPT ![q].completed = done, ![q].recording = @ + 1]
        /\ UNCHANGED <<work, fence, held, mark, host, scope>>

Close(l) ==
    /\ host.state = "run" /\ list[l].state = "open"
    /\ list' = [list EXCEPT ![l].state = "closed", ![l].uploadBuffer = None]
    /\ UNCHANGED <<work, fence, queue, held, mark, host, scope>>

\* A piece of memory of `kind' for a command that is recorded next.
Suballocated(l, kind, size, alignment) ==
    SuballocateBuffer(list[l][kind], size, alignment, MakeVersion(list[l].version, FALSE),
                      queue[QueueOf[l]].completed, IF kind = "scratch" THEN ScratchLimit ELSE 0)

Region(l, kind, chunk, at, size, written) ==
    [list |-> l, kind |-> kind, chunk |-> chunk.id, lo |-> at, hi |-> at + size, written |-> written,
     recording |-> list[l].version, number |-> Cardinality(list[l].instance.regions)]

Recording(l) == host.state = "run" /\ list[l].state = "open"
RoomFor(l) == Recording(l) /\ Cardinality(list[l].instance.regions) < scope.regions

\* The data goes through upload memory; the instance keeps the chunk and the
\* destination alive.
Write(l, x, size, alignment) ==
    LET got == Suballocated(l, "upload", size, alignment)
        chunk == got.manager.current
    IN  /\ RoomFor(l) /\ x \in held
        /\ list' = [list EXCEPT
              ![l].upload = got.manager,
              ![l].instance.chunks = IF chunk.id = list[l].uploadBuffer THEN @ ELSE @ \cup {chunk.id},
              ![l].uploadBuffer = chunk.id,
              ![l].instance.regions = @ \cup {Region(l, "upload", chunk, got.at, size, TRUE)},
              ![l].instance.objects = @ \cup {x}]
        /\ UNCHANGED <<work, fence, queue, held, mark, host, scope>>

WriteBuffer(l, b, size) == Write(l, b, size, Alignment)
WriteTexture(l, t, size) == Write(l, t, size, TextureAlignment)

\* AllocateUploadBuffer and AllocateDxrScratchBuffer: memory for shader tables,
\* instances and builds of acceleration structures.  Unlike Write, these put no
\* reference to the chunk into the instance.
Allocate(l, kind, size) ==
    LET got == Suballocated(l, kind, size, Alignment)
    IN  /\ RoomFor(l) /\ kind \in scope.kinds
        /\ list' = [list EXCEPT
              ![l][kind] = got.manager,
              ![l].instance.regions =
                  IF got.at < 0 THEN @
                  ELSE @ \cup {Region(l, kind, got.manager.current, got.at, size, FALSE)}]
        /\ UNCHANGED <<work, fence, queue, held, mark, host, scope>>

\* Every other command names objects, and the instance keeps them.
Reference(l, objects) ==
    /\ Recording(l) /\ objects \subseteq held
    /\ \A x \in objects \cap DOMAIN mark : UsedOn[x] = QueueOf[l]
    /\ list' = [list EXCEPT ![l].instance.objects = @ \cup objects]
    /\ UNCHANGED <<work, fence, queue, held, mark, host, scope>>

ClearTexture(l, t) == Reference(l, {t})
CopyTexture(l, src, dst) == {src, dst} \cap Texture # {} /\ Reference(l, {src, dst})
CopyBuffer(l, src, dst) == src # dst /\ Reference(l, {src, dst})
TimerQuery(l, t) == Reference(l, {t})

-----------------------------------------------------------------------------
(* Submission.                                                             *)

\* CommandList::Executed, for one list of the submission `n'.
Executed(l, n) ==
    LET submit(m) == SubmitChunks(m, MakeVersion(list[l].version, FALSE), MakeVersion(n, TRUE))
    IN  [list[l] EXCEPT
            !.state = "idle", !.version = 0, !.instance = EmptyInstance, !.active = 0,
            !.pool = Append(@, [allocator |-> list[l].active, submitted |-> n]),
            !.upload = submit(@), !.scratch = submit(@)]

\* (mutant of MarkExecuted: a query or resource in use already keeps its old fence value)
MarkExecutedOnce(x, n) ==
    IF mark[x].fence THEN mark[x]
    ELSE [started |-> x \in Timer, resolved |-> FALSE, fence |-> TRUE, value |-> n]
MarkExecuted(x, n) ==
    [started |-> x \in Timer, resolved |-> FALSE, fence |-> TRUE, value |-> n]

ExecuteCommandLists(lists, q) ==
    LET n == queue[q].submitted + 1
        objects == UNION {list[l].instance.objects : l \in lists}
        instances == [i \in 1 .. Cardinality(lists) |->
                        LET l == SetToSeq(lists)[i]
                        IN  [list |-> l, submitted |-> n, objects |-> list[l].instance.objects,
                             chunks |-> list[l].instance.chunks]]
        item == [kind |-> "work", value |-> n, objects |-> objects,
                 allocators |-> {<<l, list[l].active>> : l \in lists},
                 regions |-> UNION {list[l].instance.regions : l \in lists}]
    IN  /\ host.state = "run" /\ n <= scope.submits
        /\ lists # {} /\ \A l \in lists : list[l].state = "closed" /\ QueueOf[l] = q
        /\ work' = [work EXCEPT ![q] = Append(@, item)]
        /\ queue' = [queue EXCEPT ![q].submitted = n, ![q].inFlight = Reverse(instances) \o @]
        /\ list' = [l \in List |-> IF l \in lists THEN Executed(l, n) ELSE list[l]]
        /\ mark' = [x \in DOMAIN mark |->
                      IF x \in objects THEN MarkExecuted(x, n) ELSE mark[x]]
        /\ UNCHANGED <<fence, held, host, scope>>

\* (mutant of WaitedInstance: one more than has been submitted can be waited for)
WaitedInstanceNext(q) == 1 .. (queue[q].submitted + 1)
WaitedInstance(q) == 1 .. queue[q].submitted

QueueWaitForCommandList(waiting, executing) ==
    /\ host.state = "run" /\ Cardinality({i \in Items(waiting) : i.kind = "wait"}) < scope.waits
    /\ \E n \in WaitedInstance(executing) :
         work' = [work EXCEPT ![waiting] =
                    Append(@, [kind |-> "wait", on |-> executing, value |-> n])]
    /\ UNCHANGED <<fence, queue, list, held, mark, host, scope>>

\* The GPU finishes the first item of a queue: commands and the signal that
\* follows them, or a wait for the fence of another queue.
GpuStep(q) ==
    /\ work[q] # <<>>
    /\ LET item == Head(work[q])
       IN  \/ item.kind = "work" /\ fence' = [fence EXCEPT ![q] = item.value]
           \/ item.kind = "wait" /\ fence[item.on] >= item.value /\ UNCHANGED fence
    /\ work' = [work EXCEPT ![q] = Tail(@)]
    /\ UNCHANGED <<queue, list, held, mark, host, scope>>

-----------------------------------------------------------------------------
(* Collection, queries and mappings.                                       *)

\* (mutant of Finished: compares with what has been submitted)
FinishedSubmitted(q, done, instance) == queue[q].submitted >= instance.submitted
Finished(q, done, instance) == done >= instance.submitted

RunGarbageCollection ==
    /\ host.state = "run"
    /\ queue' = [q \in Queue |->
          LET done == UpdateLastCompletedInstance(q)
              flying == queue[q].inFlight
              kept == {i \in DOMAIN flying : ~Finished(q, done, flying[i])}
          IN  [queue[q] EXCEPT
                 !.completed = done,
                 !.inFlight = IF kept = {} THEN <<>> ELSE SubSeq(flying, 1, Max(kept))]]
    /\ UNCHANGED <<work, fence, list, held, mark, host, scope>>

Blocked(q, n, x) == [state |-> "wait", queue |-> q, value |-> n, object |-> x, left |-> <<>>]
Running == [state |-> "run", queue |-> None, value |-> 0, object |-> None, left |-> <<>>]

\* The host waits for the fence value an object carries, if it carries any.
WaitForFence(x) ==
    /\ host.state = "run" /\ x \in held
    /\ host' = Blocked(UsedOn[x], IF mark[x].fence THEN mark[x].value ELSE 0, x)
    /\ UNCHANGED <<work, fence, queue, list, held, mark, scope>>

MapStagingTexture(t) == WaitForFence(t)
MapBuffer(b) == WaitForFence(b)
GetTimerQueryTime(t) == ~mark[t].resolved /\ WaitForFence(t)
WaitEventQuery(e) == mark[e].started /\ ~mark[e].resolved /\ WaitForFence(e)

\* The wait is over and the host reads: a mapping and a timer drop the fence,
\* an event keeps it.
WaitReturns ==
    LET x == host.object
    IN  /\ host.state = "wait" /\ fence[host.queue] >= host.value
        /\ host' = IF host.left = <<>> THEN Running ELSE [host EXCEPT !.state = "idle"]
        /\ mark' = IF x \in Readback \cup Timer
                   THEN [mark EXCEPT ![x].fence = FALSE, ![x].resolved = x \in Timer] ELSE mark
        /\ UNCHANGED <<work, fence, queue, list, held, scope>>

SetEventQuery(e) ==
    /\ host.state = "run" /\ e \in held
    /\ mark' = [mark EXCEPT ![e] = [started |-> TRUE, resolved |-> FALSE, fence |-> TRUE,
                                    value |-> queue[UsedOn[e]].submitted]]
    /\ UNCHANGED <<work, fence, queue, list, held, host, scope>>

\* A poll that finds the fence passed: only that of an event sets `resolved'.
Poll(x, resolved) ==
    /\ host.state = "run" /\ x \in held
    /\ mark[x].started /\ mark[x].fence /\ fence[UsedOn[x]] >= mark[x].value
    /\ mark' = [mark EXCEPT ![x].fence = FALSE, ![x].resolved = resolved]
    /\ UNCHANGED <<work, fence, queue, list, held, host, scope>>

PollEventQuery(e) == Poll(e, TRUE)
PollTimerQuery(t) == Poll(t, mark[t].resolved)

ResetQuery(x) ==
    /\ host.state = "run" /\ x \in held
    /\ mark' = [mark EXCEPT ![x] = [@ EXCEPT !.started = FALSE, !.resolved = FALSE, !.fence = FALSE]]
    /\ UNCHANGED <<work, fence, queue, list, held, host, scope>>

\* WaitForIdle visits one queue after the other.
WaitForIdle ==
    /\ host.state = "run"
    /\ host' = [Running EXCEPT !.state = "idle", !.left = Queues]
    /\ UNCHANGED <<work, fence, queue, list, held, mark, scope>>

WaitForQueue(q) ==
    LET done == UpdateLastCompletedInstance(q)
        left == Tail(host.left)
    IN  /\ host.state = "idle" /\ q = Head(host.left)
        /\ queue' = [queue EXCEPT ![q].completed = done]
        /\ host' = IF done < queue[q].submitted
                   THEN [Blocked(q, queue[q].submitted, None) EXCEPT !.left = left]
                   ELSE IF left = <<>> THEN Running ELSE [host EXCEPT !.left = left]
        /\ UNCHANGED <<work, fence, list, held, mark, scope>>

-----------------------------------------------------------------------------
(* The application lets go of an object or of a whole command list, whose  *)
(* chunks and open instance go with it.                                    *)

Drop(x) ==
    /\ host.state = "run" /\ x \in held
    /\ held' = held \ {x}
    /\ UNCHANGED <<work, fence, queue, list, mark, host, scope>>

DropList(l) ==
    /\ host.state = "run" /\ list[l].state \in {"idle", "closed"}
    /\ list' = [list EXCEPT ![l] = [NewList EXCEPT !.state = "gone"]]
    /\ UNCHANGED <<work, fence, queue, held, mark, host, scope>>

Init ==
    /\ work = [q \in Queue |-> <<>>]
    /\ fence = [q \in Queue |-> 0]
    /\ queue = [q \in Queue |-> [submitted |-> 0, completed |-> 0, recording |-> 1, inFlight |-> <<>>]]
    /\ scope \in Starts
    /\ held = scope.objects
    /\ list = [l \in List |-> IF l \in scope.lists THEN NewList
                             ELSE [NewList EXCEPT !.state = "gone"]]
    /\ mark = [x \in Readback \cup Timer \cup Event |->
                 [started |-> FALSE, resolved |-> FALSE, fence |-> FALSE, value |-> 0]]
    /\ host = Running

Next ==
    \/ \E l \in List :
         \/ Open(l) \/ Close(l) \/ DropList(l)
         \/ \E b \in Buffer, size \in Sizes : WriteBuffer(l, b, size)
         \/ \E kind \in Kinds, size \in Sizes : Allocate(l, kind, size)
         \/ \E t \in Texture, size \in Sizes : WriteTexture(l, t, size)
         \/ \E t \in Texture : ClearTexture(l, t)
         \/ \E src, dst \in Texture \cup StagingTexture : CopyTexture(l, src, dst)
         \/ \E src, dst \in Buffer \cup StagingBuffer : CopyBuffer(l, src, dst)
         \/ \E t \in Timer : TimerQuery(l, t)
    \/ \E q \in Queue :
         \/ \E lists \in SUBSET List : ExecuteCommandLists(lists, q)
         \/ \E on \in Queue : QueueWaitForCommandList(q, on)
         \/ WaitForQueue(q) \/ GpuStep(q)
    \/ RunGarbageCollection \/ WaitForIdle \/ WaitReturns
    \/ \E t \in StagingTexture : MapStagingTexture(t)
    \/ \E b \in StagingBuffer : MapBuffer(b)
    \/ \E t \in Timer : GetTimerQueryTime(t) \/ PollTimerQuery(t) \/ ResetQuery(t)
    \/ \E e \in Event :
         SetEventQuery(e) \/ PollEventQuery(e) \/ WaitEventQuery(e) \/ ResetQuery(e)
    \/ \E x \in Object : Drop(x)

Spec == Init /\ [][Next]_vars

\* The GPU works on, and a thread whose event is set wakes up.
FairSpec ==
    /\ Spec
    /\ \A q \in Queue : WF_vars(GpuStep(q)) /\ WF_vars(WaitForQueue(q))
    /\ WF_vars(WaitReturns)
=============================================================================
