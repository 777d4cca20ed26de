----------------------------- MODULE TaskSystem -----------------------------
(***************************************************************************)
(* The task system: core/task/{Task,TaskSystem}.{hpp,cpp} on top of        *)
(* WorkQueue.  Client threads launch, cancel and wait for tasks and run    *)
(* parallel loops, worker threads execute WorkerMain, one thread owns the  *)
(* system and terminates it.                                               *)
(*                                                                         *)
(* One action is one atomic access of the code: a load, store, CAS or      *)
(* fetch_sub of an atomic, a section under Task::m_mutex (never held       *)
(* across another access), or one operation of the queue.  PopBlocking is  *)
(* one step here; WorkQueueSync justifies that.  A task function always    *)
(* returns or throws; both end in the same stores (Task.cpp:137-151).      *)
(***************************************************************************)
EXTENDS WorkQueue, Integers, SequencesExt

CONSTANTS
    Client,         \* threads that use the system
    Worker,         \* the threads of m_workers
    NoTask,         \* an empty TaskHandle
    Shapes,         \* bound: the prerequisites (chunks) each task may be given
    Operations,     \* bound: the operations each client of this instance uses
    OwnerOperations, \* bound: those of the owner
    Orderly         \* the owner terminates only when no client uses the system

ASSUME TaskAssumption ==
    /\ NoTask \notin Task
    /\ Client \intersect Worker = {}
    /\ DOMAIN Shapes = Task
    /\ \A t \in Task : Shapes[t] \subseteq Seq(Task \union {NoTask})
    /\ Operations \in [Client -> SUBSET {"launch", "cancel", "wait", "parallel"}]
    /\ OwnerOperations \subseteq {"terminate", "restart"}
    /\ Orderly \in BOOLEAN

ASSUME ThreadsAreFinite == IsFiniteSet(Client) /\ IsFiniteSet(Worker)

VARIABLES
    task,           \* the atomics, the promise and the dependents of each Task
    inflight,       \* m_inflight
    stopPc,         \* the owner's progress in Terminate; # "running": m_stopFlag
    pc,             \* where each client and worker is
    cur,            \* the task a thread launches, joins, waits for or runs
    todo,           \* what its loop has left: prerequisites, dependents, chunks
    shouldCancel,   \* the local of Launch
    created,        \* tasks constructed so far
    handles,        \* tasks whose TaskHandle was returned to the clients
    prereqs,        \* history: what each task was launched to wait for
    doomed,         \* history: launched with a prerequisite canceled before
    ran             \* history: how often func was called

Thread == Client \union Worker

localVars == <<pc, cur, todo, shouldCancel>>
historyVars == <<created, handles, prereqs, doomed, ran>>
taskVars == <<queues, skipCounts, task, inflight, stopPc, pc, cur, todo,
              shouldCancel, created, handles, prereqs, doomed, ran>>

Goto(th, label) == pc' = [pc EXCEPT ![th] = label]

NewTask == [pending |-> 0, finished |-> FALSE, canceled |-> FALSE, queued |-> FALSE,
            started |-> FALSE, done |-> 0, retrieved |-> FALSE, dependents |-> <<>>]

Init ==
    /\ QueueInit
    /\ task = [t \in Task |-> NewTask]
    /\ inflight = 0
    /\ stopPc = "running"
    /\ pc = [th \in Thread |-> IF th \in Client THEN "idle" ELSE "pop"]
    /\ cur = [th \in Thread |-> NoTask]
    /\ todo = [th \in Thread |-> <<>>]
    /\ shouldCancel = [th \in Thread |-> FALSE]
    /\ created = {} /\ handles = {}
    /\ prereqs = [t \in Task |-> <<>>]
    /\ doomed = [t \in Task |-> FALSE]
    /\ ran = [t \in Task |-> 0]

Stopped == stopPc # "running"

\* A client may call into the system.  In an Orderly program nobody does so
\* once the owner has begun to terminate it.
MayCall(c, op) ==
    /\ op \in Operations[c]
    /\ pc[c] = "idle"
    /\ Orderly => ~Stopped

Return(c) ==
    /\ Goto(c, "idle")
    /\ cur' = [cur EXCEPT ![c] = NoTask]

-----------------------------------------------------------------------------
\* TaskSystem::Launch

LaunchBegin(c, t, ps) ==
    /\ MayCall(c, "launch")
    /\ task' = [task EXCEPT ![t].pending = Len(ps)]
    /\ created' = created \union {t}
    /\ prereqs' = [prereqs EXCEPT ![t] = ps]
    /\ doomed' = [doomed EXCEPT ![t] =
                     \E i \in DOMAIN ps : ps[i] # NoTask /\ task[ps[i]].canceled]
    /\ cur' = [cur EXCEPT ![c] = t]
    /\ todo' = [todo EXCEPT ![c] = ps]
    /\ shouldCancel' = [shouldCancel EXCEPT ![c] = FALSE]
    /\ Goto(c, "examine")
    /\ UNCHANGED <<queueVars, inflight, stopPc, handles, ran>>

\* This prerequisite needs no waiting for: pending.fetch_sub(1), next one.
Discount(c) ==
    /\ task' = [task EXCEPT ![cur[c]].pending = @ - 1]
    /\ todo' = [todo EXCEPT ![c] = Tail(@)]
    /\ Goto(c, "examine")

ExamineCanceled(c) ==
    /\ pc[c] = "examine" /\ todo[c] # <<>>
    /\ LET h == Head(todo[c]) IN
       IF h = NoTask \/ task[h].canceled
       THEN /\ Discount(c)
            /\ shouldCancel' = [shouldCancel EXCEPT ![c] = @ \/ h # NoTask]
       ELSE /\ Goto(c, "examineFinished")
            /\ UNCHANGED <<task, todo, shouldCancel>>
    /\ UNCHANGED <<queueVars, inflight, stopPc, cur, historyVars>>

ExamineFinished(c) ==
    /\ pc[c] = "examineFinished"
    /\ IF task[Head(todo[c])].finished
       THEN Discount(c)
       ELSE Goto(c, "addDependent") /\ UNCHANGED <<task, todo>>
    /\ UNCHANGED <<queueVars, inflight, stopPc, cur, shouldCancel, historyVars>>

\* (mutant of TryAddDependent: the finished flag is not read under the mutex)
TryAddDependentUnchecked(c) ==
    /\ pc[c] = "addDependent"
    /\ task' = [task EXCEPT ![Head(todo[c])].dependents = Append(@, cur[c])]
    /\ todo' = [todo EXCEPT ![c] = Tail(@)]
    /\ Goto(c, "examine")
    /\ UNCHANGED <<queueVars, inflight, stopPc, cur, shouldCancel, historyVars>>

TryAddDependent(c) ==
    /\ pc[c] = "addDependent"
    /\ LET h == Head(todo[c]) IN
       IF task[h].finished
       THEN Goto(c, "addFailed") /\ UNCHANGED <<task, todo>>
       ELSE /\ task' = [task EXCEPT ![h].dependents = Append(@, cur[c])]
            /\ todo' = [todo EXCEPT ![c] = Tail(@)]
            /\ Goto(c, "examine")
    /\ UNCHANGED <<queueVars, inflight, stopPc, cur, shouldCancel, historyVars>>

AddFailed(c) ==
    /\ pc[c] = "addFailed"
    /\ Discount(c)
    /\ shouldCancel' = [shouldCancel EXCEPT ![c] = @ \/ task[Head(todo[c])].canceled]
    /\ UNCHANGED <<queueVars, inflight, stopPc, cur, historyVars>>

\* All prerequisites seen: cancel the new task, or go on to its pending count.
DecideCancel(c) ==
    /\ pc[c] = "examine" /\ todo[c] = <<>>
    /\ IF shouldCancel[c] \/ task[cur[c]].canceled
       THEN Goto(c, "cancel") /\ todo' = [todo EXCEPT ![c] = <<cur[c]>>]
       ELSE Goto(c, "decideEnqueue") /\ UNCHANGED todo
    /\ UNCHANGED <<queueVars, task, inflight, stopPc, cur, shouldCancel, historyVars>>

DecideEnqueue(c) ==
    /\ pc[c] = "decideEnqueue"
    /\ todo' = [todo EXCEPT ![c] = IF task[cur[c]].pending <= 0 THEN <<cur[c]>> ELSE <<>>]
    /\ Goto(c, "enqueue")
    /\ UNCHANGED <<queueVars, task, inflight, stopPc, cur, shouldCancel, historyVars>>

-----------------------------------------------------------------------------
\* TaskSystem::ParallelForAsync: the join task cur[c] depends on every chunk.
\* A chunk is private to the client until it is enqueued.

ParallelForBegin(c, join, chunks) ==
    /\ MayCall(c, "parallel")
    /\ task' = [t \in Task |->
          IF t = join THEN [task[t] EXCEPT !.pending = Len(chunks), !.retrieved = TRUE]
          ELSE IF t \in ToSet(chunks) THEN [task[t] EXCEPT !.dependents = <<join>>]
          ELSE task[t]]
    /\ created' = created \union {join} \union ToSet(chunks)
    /\ prereqs' = [prereqs EXCEPT ![join] = chunks]
    /\ cur' = [cur EXCEPT ![c] = join]
    /\ todo' = [todo EXCEPT ![c] = chunks]
    /\ Goto(c, "enqueue")
    /\ UNCHANGED <<queueVars, inflight, stopPc, shouldCancel, handles, doomed, ran>>

-----------------------------------------------------------------------------
\* TaskSystem::Enqueue of Head(todo[th]), by a client ("enqueue") or by a
\* worker that schedules dependents ("schedule").

Loop(th) == IF th \in Client THEN "enqueue" ELSE "schedule"

EnqueueCas(th) ==
    /\ pc[th] = "enqueue" /\ todo[th] # <<>>
    /\ LET t == Head(todo[th]) IN
       IF task[t].queued
       THEN /\ todo' = [todo EXCEPT ![th] = Tail(@)]
            /\ Goto(th, Loop(th))
            /\ UNCHANGED task
       ELSE /\ task' = [task EXCEPT ![t].queued = TRUE]
            /\ Goto(th, "count")
            /\ UNCHANGED todo
    /\ UNCHANGED <<queueVars, inflight, stopPc, cur, shouldCancel, historyVars>>

CountInflight(th) ==
    /\ pc[th] = "count"
    /\ inflight' = inflight + 1
    /\ Goto(th, "push")
    /\ UNCHANGED <<queueVars, task, stopPc, cur, todo, shouldCancel, historyVars>>

PushTask(th) ==
    /\ pc[th] = "push"
    /\ Push(Head(todo[th]))
    /\ todo' = [todo EXCEPT ![th] = Tail(@)]
    /\ Goto(th, Loop(th))
    /\ UNCHANGED <<task, inflight, stopPc, cur, shouldCancel, historyVars>>

\* Nothing is left to enqueue: Launch returns the handle, ParallelFor waits on
\* the future it took from the join task (nobody took one from a new task).
EnqueueReturn(c) ==
    /\ c \in Client
    /\ pc[c] = "enqueue" /\ todo[c] = <<>>
    /\ IF task[cur[c]].retrieved
       THEN Goto(c, "wait") /\ UNCHANGED <<cur, handles>>
       ELSE Return(c) /\ handles' = handles \union {cur[c]}
    /\ UNCHANGED <<queueVars, task, inflight, stopPc, todo, shouldCancel,
                   created, prereqs, doomed, ran>>

-----------------------------------------------------------------------------
\* Task::Cancel and Task::CancelDependents.  The recursion visits the
\* dependents depth first and does nothing after it, so the tasks still to be
\* canceled form one list.

CancelBegin(c, t) ==
    /\ MayCall(c, "cancel")
    /\ todo' = [todo EXCEPT ![c] = <<t>>]
    /\ Goto(c, "cancel")
    /\ UNCHANGED <<queueVars, task, inflight, stopPc, cur, shouldCancel, historyVars>>

CancelCheck(c) ==
    /\ pc[c] = "cancel" /\ todo[c] # <<>>
    /\ IF task[Head(todo[c])].canceled
       THEN todo' = [todo EXCEPT ![c] = Tail(@)] /\ UNCHANGED pc
       ELSE Goto(c, "cancelCas") /\ UNCHANGED todo
    /\ UNCHANGED <<queueVars, task, inflight, stopPc, cur, shouldCancel, historyVars>>

\* (mutant of CancelCas: the start guard is ignored)
CancelCasUnguarded(c) ==
    /\ pc[c] = "cancelCas"
    /\ task' = [task EXCEPT ![Head(todo[c])].started = TRUE]
    /\ Goto(c, "storeCanceled")
    /\ UNCHANGED <<queueVars, inflight, stopPc, cur, todo, shouldCancel, historyVars>>

CancelCas(c) ==
    /\ pc[c] = "cancelCas"
    /\ LET t == Head(todo[c]) IN
       IF task[t].started
       THEN /\ todo' = [todo EXCEPT ![c] = Tail(@)]
            /\ Goto(c, "cancel")
            /\ UNCHANGED task
       ELSE /\ task' = [task EXCEPT ![t].started = TRUE]
            /\ Goto(c, "storeCanceled")
            /\ UNCHANGED todo
    /\ UNCHANGED <<queueVars, inflight, stopPc, cur, shouldCancel, historyVars>>

StoreCanceled(c) ==
    /\ pc[c] = "storeCanceled"
    /\ task' = [task EXCEPT ![Head(todo[c])].canceled = TRUE]
    /\ Goto(c, "storeFinished")
    /\ UNCHANGED <<queueVars, inflight, stopPc, cur, todo, shouldCancel, historyVars>>

StoreFinished(c) ==
    /\ pc[c] = "storeFinished"
    /\ task' = [task EXCEPT ![Head(todo[c])].finished = TRUE]
    /\ Goto(c, "setDone")
    /\ UNCHANGED <<queueVars, inflight, stopPc, cur, todo, shouldCancel, historyVars>>

SetDone(c) ==
    /\ pc[c] = "setDone"
    /\ task' = [task EXCEPT ![Head(todo[c])].done = @ + 1]
    /\ Goto(c, "cancelDependents")
    /\ UNCHANGED <<queueVars, inflight, stopPc, cur, todo, shouldCancel, historyVars>>

CancelDependents(c) ==
    /\ pc[c] = "cancelDependents"
    /\ LET t == Head(todo[c]) IN
       /\ todo' = [todo EXCEPT ![c] = task[t].dependents \o Tail(@)]
       /\ task' = [task EXCEPT ![t].dependents = <<>>]
    /\ Goto(c, "cancel")
    /\ UNCHANGED <<queueVars, inflight, stopPc, cur, shouldCancel, historyVars>>

\* Cancel returns to its caller, or to Launch, which returns the handle.
CancelReturn(c) ==
    /\ pc[c] = "cancel" /\ todo[c] = <<>>
    /\ Return(c)
    /\ handles' = handles \union ({cur[c]} \ {NoTask})
    /\ UNCHANGED <<queueVars, task, inflight, stopPc, todo, shouldCancel,
                   created, prereqs, doomed, ran>>

-----------------------------------------------------------------------------
\* TaskHandle::Wait: promise::get_future, then wait.  get_future on a promise
\* whose future was already taken throws ("threw" ends the client's program).

WaitBegin(c, t) ==
    /\ MayCall(c, "wait")
    /\ cur' = [cur EXCEPT ![c] = t]
    /\ IF task[t].retrieved
       THEN Goto(c, "threw") /\ UNCHANGED task
       ELSE Goto(c, "wait") /\ task' = [task EXCEPT ![t].retrieved = TRUE]
    /\ UNCHANGED <<queueVars, inflight, stopPc, todo, shouldCancel, historyVars>>

WaitReturn(c) ==
    /\ pc[c] = "wait"
    /\ task[cur[c]].done > 0
    /\ Return(c)
    /\ UNCHANGED <<queueVars, task, inflight, stopPc, todo, shouldCancel, historyVars>>

-----------------------------------------------------------------------------
\* TaskSystem::WorkerMain

PopTask(w) ==
    /\ pc[w] = "pop"
    /\ \E t \in Queued : PopLocked(t) /\ cur' = [cur EXCEPT ![w] = t]
    /\ Goto(w, "run")
    /\ UNCHANGED <<task, inflight, stopPc, todo, shouldCancel, historyVars>>

PopFails(w) ==
    /\ pc[w] = "pop"
    /\ Stopped /\ EmptyLocked
    /\ Goto(w, "readInflight")
    /\ UNCHANGED <<queueVars, task, inflight, stopPc, cur, todo, shouldCancel, historyVars>>

ReadInflight(w) ==
    /\ pc[w] = "readInflight"
    /\ Goto(w, IF inflight = 0 THEN "exited" ELSE "pop")
    /\ UNCHANGED <<queueVars, task, inflight, stopPc, cur, todo, shouldCancel, historyVars>>

\* (mutants of RunCas: the start guard is ignored; the early return forgets
\* OnTaskFinished)
RunCasUnguarded(w) ==
    /\ pc[w] = "run"
    /\ Goto(w, "func") /\ task' = [task EXCEPT ![cur[w]].started = TRUE]
    /\ UNCHANGED <<queueVars, inflight, stopPc, cur, todo, shouldCancel, historyVars>>

RunCasLeaks(w) ==
    /\ pc[w] = "run"
    /\ IF task[cur[w]].started
       THEN Goto(w, "pop") /\ cur' = [cur EXCEPT ![w] = NoTask] /\ UNCHANGED task
       ELSE /\ Goto(w, "func") /\ UNCHANGED cur
            /\ task' = [task EXCEPT ![cur[w]].started = TRUE]
    /\ UNCHANGED <<queueVars, inflight, stopPc, todo, shouldCancel, historyVars>>

\* Task::Run: the start guard.  A task canceled while it was queued only
\* gives back its share of m_inflight.
RunCas(w) ==
    /\ pc[w] = "run"
    /\ IF task[cur[w]].started
       THEN Goto(w, "taskFinished") /\ UNCHANGED task
       ELSE Goto(w, "func") /\ task' = [task EXCEPT ![cur[w]].started = TRUE]
    /\ UNCHANGED <<queueVars, inflight, stopPc, cur, todo, shouldCancel, historyVars>>

CallFunc(w) ==
    /\ pc[w] = "func"
    /\ ran' = [ran EXCEPT ![cur[w]] = @ + 1]
    /\ Goto(w, "runFinished")
    /\ UNCHANGED <<queueVars, task, inflight, stopPc, cur, todo, shouldCancel,
                   created, handles, prereqs, doomed>>

\* (mutant of RunFinished: the promise is satisfied before the flag is stored)
RunFinishedLate(w) ==
    /\ pc[w] = "runFinished"
    /\ task' = [task EXCEPT ![cur[w]].done = @ + 1]
    /\ Goto(w, "runDone")
    /\ UNCHANGED <<queueVars, inflight, stopPc, cur, todo, shouldCancel, historyVars>>

RunFinished(w) ==
    /\ pc[w] = "runFinished"
    /\ task' = [task EXCEPT ![cur[w]].finished = TRUE]
    /\ Goto(w, "runDone")
    /\ UNCHANGED <<queueVars, inflight, stopPc, cur, todo, shouldCancel, historyVars>>

RunDone(w) ==
    /\ pc[w] = "runDone"
    /\ task' = [task EXCEPT ![cur[w]].done = @ + 1]
    /\ Goto(w, "collect")
    /\ UNCHANGED <<queueVars, inflight, stopPc, cur, todo, shouldCancel, historyVars>>

\* Task::ScheduleDependents: take the list under the mutex, then walk it.
CollectDependents(w) ==
    /\ pc[w] = "collect"
    /\ todo' = [todo EXCEPT ![w] = task[cur[w]].dependents]
    /\ task' = [task EXCEPT ![cur[w]].dependents = <<>>]
    /\ Goto(w, "schedule")
    /\ UNCHANGED <<queueVars, inflight, stopPc, cur, shouldCancel, historyVars>>

SkipOrDecrement(w) ==
    /\ pc[w] = "schedule" /\ todo[w] # <<>>
    /\ IF task[Head(todo[w])].finished
       THEN todo' = [todo EXCEPT ![w] = Tail(@)] /\ UNCHANGED pc
       ELSE Goto(w, "decrement") /\ UNCHANGED todo
    /\ UNCHANGED <<queueVars, task, inflight, stopPc, cur, shouldCancel, historyVars>>

DecrementPending(w) ==
    /\ pc[w] = "decrement"
    /\ LET t == Head(todo[w]) IN
       /\ task' = [task EXCEPT ![t].pending = @ - 1]
       /\ IF task[t].pending - 1 <= 0
          THEN Goto(w, "recheck") /\ UNCHANGED todo
          ELSE Goto(w, "schedule") /\ todo' = [todo EXCEPT ![w] = Tail(@)]
    /\ UNCHANGED <<queueVars, inflight, stopPc, cur, shouldCancel, historyVars>>

RecheckFinished(w) ==
    /\ pc[w] = "recheck"
    /\ IF task[Head(todo[w])].finished
       THEN Goto(w, "schedule") /\ todo' = [todo EXCEPT ![w] = Tail(@)]
       ELSE Goto(w, "enqueue") /\ UNCHANGED todo
    /\ UNCHANGED <<queueVars, task, inflight, stopPc, cur, shouldCancel, historyVars>>

ScheduleReturn(w) ==
    /\ pc[w] = "schedule" /\ todo[w] = <<>>
    /\ Goto(w, "taskFinished")
    /\ UNCHANGED <<queueVars, task, inflight, stopPc, cur, todo, shouldCancel, historyVars>>

\* TaskSystem::OnTaskFinished: the count first, then the notification under
\* m_shutdownMutex (held by the owner while stopPc = "falling").
TaskFinished(w) ==
    /\ pc[w] = "taskFinished"
    /\ inflight' = inflight - 1
    /\ Goto(w, IF inflight - 1 = 0 THEN "notify" ELSE "pop")
    /\ cur' = [cur EXCEPT ![w] = NoTask]
    /\ UNCHANGED <<queueVars, task, stopPc, todo, shouldCancel, historyVars>>

\* (mutant of NotifyShutdown: m_shutdownMutex is not taken)
NotifyShutdownNoLock(w) ==
    /\ pc[w] = "notify"
    /\ stopPc' = IF stopPc = "asleep" THEN "predicate" ELSE stopPc
    /\ Goto(w, "pop")
    /\ UNCHANGED <<queueVars, task, inflight, cur, todo, shouldCancel, historyVars>>

NotifyShutdown(w) ==
    /\ pc[w] = "notify"
    /\ stopPc # "falling"
    /\ stopPc' = IF stopPc = "asleep" THEN "predicate" ELSE stopPc
    /\ Goto(w, "pop")
    /\ UNCHANGED <<queueVars, task, inflight, cur, todo, shouldCancel, historyVars>>

-----------------------------------------------------------------------------
\* TaskSystem::Terminate, and Initialize after it.

TerminateBegin ==
    /\ "terminate" \in OwnerOperations
    /\ stopPc = "running"
    /\ Orderly => \A c \in Client : pc[c] \in {"idle", "threw"}
    /\ stopPc' = "predicate"
    /\ UNCHANGED <<queueVars, task, inflight, localVars, historyVars>>

\* (mutant of ShutdownPredicate: the owner does not wait)
ShutdownNoWait ==
    /\ stopPc = "predicate"
    /\ stopPc' = "join"
    /\ UNCHANGED <<queueVars, task, inflight, localVars, historyVars>>

ShutdownPredicate ==
    /\ stopPc = "predicate"
    /\ stopPc' = IF inflight = 0 THEN "join" ELSE "falling"
    /\ UNCHANGED <<queueVars, task, inflight, localVars, historyVars>>

ShutdownSleep ==
    /\ stopPc = "falling"
    /\ stopPc' = "asleep"
    /\ UNCHANGED <<queueVars, task, inflight, localVars, historyVars>>

ShutdownSpurious ==
    /\ stopPc = "asleep"
    /\ stopPc' = "predicate"
    /\ UNCHANGED <<queueVars, task, inflight, localVars, historyVars>>

JoinWorkers ==
    /\ stopPc = "join"
    /\ \A w \in Worker : pc[w] = "exited"
    /\ stopPc' = "terminated"
    /\ UNCHANGED <<queueVars, task, inflight, localVars, historyVars>>

\* m_stopFlag stays set: the new workers run what they find and leave again.
Reinitialize ==
    /\ "restart" \in OwnerOperations
    /\ stopPc = "terminated"
    /\ stopPc' = "restarted"
    /\ pc' = [th \in Thread |-> IF th \in Worker THEN "pop" ELSE pc[th]]
    /\ UNCHANGED <<queueVars, task, inflight, cur, todo, shouldCancel, historyVars>>

-----------------------------------------------------------------------------

ClientCall(c) ==
    \/ \E t \in Task \ created : \E ps \in Shapes[t] :
          /\ ToSet(ps) \subseteq handles \union {NoTask}
          /\ LaunchBegin(c, t, ps)
    \/ \E t \in handles : CancelBegin(c, t) \/ WaitBegin(c, t)
    \/ \E join \in Task \ created : \E chunks \in Shapes[join] :
          /\ chunks # <<>> /\ IsInjective(chunks)
          /\ ToSet(chunks) \subseteq Task \ (created \union {join})
          /\ ParallelForBegin(c, join, chunks)

ClientStep(c) ==
    \/ ExamineCanceled(c) \/ ExamineFinished(c) \/ TryAddDependent(c) \/ AddFailed(c)
    \/ DecideCancel(c) \/ DecideEnqueue(c)
    \/ EnqueueCas(c) \/ CountInflight(c) \/ PushTask(c) \/ EnqueueReturn(c)
    \/ CancelCheck(c) \/ CancelCas(c) \/ StoreCanceled(c) \/ StoreFinished(c)
    \/ SetDone(c) \/ CancelDependents(c) \/ CancelReturn(c) \/ WaitReturn(c)

WorkerStep(w) ==
    \/ PopTask(w) \/ PopFails(w) \/ ReadInflight(w)
    \/ RunCas(w) \/ CallFunc(w) \/ RunFinished(w) \/ RunDone(w)
    \/ CollectDependents(w) \/ SkipOrDecrement(w) \/ DecrementPending(w)
    \/ RecheckFinished(w) \/ EnqueueCas(w) \/ CountInflight(w) \/ PushTask(w)
    \/ ScheduleReturn(w) \/ TaskFinished(w) \/ NotifyShutdown(w)

OwnerStep == ShutdownPredicate \/ ShutdownSleep \/ JoinWorkers

Next ==
    \/ \E c \in Client : ClientCall(c) \/ ClientStep(c)
    \/ \E w \in Worker : WorkerStep(w)
    \/ TerminateBegin \/ OwnerStep \/ ShutdownSpurious \/ Reinitialize

Spec == Init /\ [][Next]_taskVars

\* Threads keep running: a call that began goes on, workers work, Terminate
\* goes on once it is called.  Nobody is obliged to begin a call.  Spurious
\* wake-ups of the owner may take m_shutdownMutex again and again; a worker
\* that waits for it gets it in the end (strong fairness).
FairSpec ==
    /\ Spec
    /\ \A c \in Client : WF_taskVars(ClientStep(c))
    /\ \A w \in Worker : WF_taskVars(WorkerStep(w))
    /\ \A w \in Worker : SF_taskVars(NotifyShutdown(w))
    /\ WF_taskVars(OwnerStep)

=============================================================================
