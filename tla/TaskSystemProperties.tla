------------------------ MODULE TaskSystemProperties ------------------------
(***************************************************************************)
(* What makes TaskSystem correct.                                          *)
(***************************************************************************)
EXTENDS TaskSystem

TaskState == [pending : Int, finished : BOOLEAN, canceled : BOOLEAN, queued : BOOLEAN,
              started : BOOLEAN, done : Nat, retrieved : BOOLEAN, dependents : Seq(Task)]

ClientLabel == {"idle", "examine", "examineFinished", "addDependent", "addFailed",
                "decideEnqueue", "enqueue", "count", "push", "cancel", "cancelCas",
                "storeCanceled", "storeFinished", "setDone", "cancelDependents",
                "wait", "threw"}

WorkerLabel == {"pop", "readInflight", "exited", "run", "func", "runFinished", "runDone",
                "collect", "schedule", "decrement", "recheck", "enqueue", "count", "push",
                "taskFinished", "notify"}

StopLabel == {"running", "predicate", "falling", "asleep", "join", "terminated", "restarted"}

TaskTypeOK ==
    /\ QueueTypeOK
    /\ task \in [Task -> TaskState]
    /\ inflight \in Int
    /\ stopPc \in StopLabel
    /\ pc \in [Thread -> ClientLabel \union WorkerLabel]
    /\ \A c \in Client : pc[c] \in ClientLabel
    /\ \A w \in Worker : pc[w] \in WorkerLabel
    /\ cur \in [Thread -> Task \union {NoTask}]
    /\ todo \in [Thread -> Seq(Task \union {NoTask})]
    /\ shouldCancel \in [Thread -> BOOLEAN]
    /\ created \subseteq Task /\ handles \subseteq Task
    /\ prereqs \in [Task -> Seq(Task \union {NoTask})]
    /\ doomed \in [Task -> BOOLEAN]
    /\ ran \in [Task -> Nat]

\* The tasks t was launched to wait for, empty handles aside.
WaitsFor(t) == ToSet(prereqs[t]) \ {NoTask}

Over(t) == task[t].finished \/ task[t].canceled

\* A task function runs at most once, and its promise is satisfied at most
\* once (a second set_value would throw out of a worker), although Launch, the
\* last prerequisite to finish and a concurrent Cancel all race for the task.
ExecutedOnce == \A t \in Task : ran[t] <= 1 /\ task[t].done <= 1

\* A task that is reported canceled never ran and never will, wherever it was
\* (pending, queued, already popped) when Cancel won the race for it.
CanceledNeverRuns ==
    \A t \in Task : task[t].canceled =>
        /\ ran[t] = 0
        /\ \A w \in Worker : ~(cur[w] = t /\ pc[w] = "func")

\* Whoever is released from Wait sees the final flags (the comments at
\* Task.cpp:67 and Task.cpp:143 ask for this order).
FlagsBeforePromise ==
    \A t \in Task : task[t].done > 0 =>
        task[t].finished /\ (ran[t] = 0 => task[t].canceled)

\* A worker holds a share of m_inflight from the pop to OnTaskFinished, a
\* thread in Enqueue from the count to the push.
Running == {w \in Worker : cur[w] # NoTask}
Pushing == {th \in Thread : pc[th] = "push"}

\* m_inflight is exact at every instant: it is the number of tasks in the
\* queue, in Enqueue between the count and the push, and in a worker.
InflightExact ==
    inflight = Cardinality(Queued) + Cardinality(Running) + Cardinality(Pushing)

\* When nothing is in flight and no client is inside the system, no work is
\* left: a task whose prerequisites are all over is over itself.  A finishing
\* task hands its dependents over before it gives up its own share.
QuiescentMeansDone ==
    (inflight = 0 /\ (\A c \in Client : pc[c] \in {"idle", "wait", "threw"})
                  /\ (\A th \in Thread : pc[th] # "count")) =>
        \A t \in created : (\A p \in WaitsFor(t) : Over(p)) => Over(t)

\* After an orderly shutdown every task ever launched is over, and nothing is
\* in the queue or in a worker.
TerminateDrains ==
    stopPc \in {"join", "terminated"} => EmptyLocked /\ \A t \in created : Over(t)

\* Terminate comes back.
TerminateReturns == stopPc = "predicate" ~> stopPc = "terminated"

\* The test LaunchWithCanceledPrerequisiteCancelsTask: a task launched with a
\* prerequisite that is already canceled does not run.
CanceledPrerequisiteCancels == \A t \in Task : doomed[t] => ran[t] = 0

-----------------------------------------------------------------------------
\* TaskSystem implements TaskGraph.

Status(t) ==
    IF t \notin created THEN "new"
    ELSE IF task[t].canceled THEN "canceled"
    ELSE IF task[t].finished THEN "done"
    ELSE IF \E w \in Worker : cur[w] = t /\ pc[w] \in {"func", "runFinished"} THEN "running"
    ELSE "waiting"

Graph == INSTANCE TaskGraph WITH
    status <- [t \in Task |-> Status(t)],
    waitsFor <- [t \in Task |-> WaitsFor(t)]

\* Seen from outside, every step of the threads is a submission, a start, a
\* finish or a cancellation of TaskGraph, or nothing.
ImplementsTaskGraph == Graph!GraphSpec

=============================================================================
