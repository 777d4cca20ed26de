---------------------------- MODULE WorkQueueSync ----------------------------
(***************************************************************************)
(* WorkQueue with its mutex and its condition variable: the protocol by    *)
(* which workers sleep in PopBlocking, pushers wake one of them, and       *)
(* TaskSystem::Terminate wakes all of them.  The operations of the queue   *)
(* itself are those of WorkQueue.                                          *)
(*                                                                         *)
(* A section that holds m_mutex from start to end and is not interrupted   *)
(* is one step, guarded by the mutex being free.  Only the wait of the     *)
(* condition variable keeps the mutex over two steps: the predicate is     *)
(* evaluated first, and the thread is put to sleep later, with the mutex   *)
(* released in the same instant.                                           *)
(***************************************************************************)
EXTENDS WorkQueue

CONSTANTS
    Pusher,     \* threads that call Push
    Popper,     \* threads in TaskSystem::WorkerMain
    NoThread    \* the value of mutex when it is free

ASSUME SyncAssumption ==
    /\ Pusher \intersect Popper = {}
    /\ NoThread \notin Pusher \union Popper

VARIABLES
    mutex,      \* the thread that holds WorkQueue::m_mutex, or NoThread
    sleeping,   \* workers blocked in m_conditionVariable.wait
    stopFlag,   \* TaskSystem::m_stopFlag, an atomic outside m_mutex
    at,         \* where each thread is
    stopper     \* where TaskSystem::Terminate is

syncVars == <<queues, skipCounts, mutex, sleeping, stopFlag, at, stopper>>

Free == mutex = NoThread

MoveTo(th, label) == at' = [at EXCEPT ![th] = label]

SyncInit ==
    /\ QueueInit
    /\ mutex = NoThread
    /\ sleeping = {}
    /\ stopFlag = FALSE
    /\ at = [th \in Pusher \union Popper |-> IF th \in Pusher THEN "idle" ELSE "pop"]
    /\ stopper = "idle"

-----------------------------------------------------------------------------
\* Push: append under the mutex, then notify_one without it.

PushLocked(p, t) ==
    /\ at[p] = "idle" /\ Free
    /\ Push(t)
    /\ MoveTo(p, "notify")
    /\ UNCHANGED <<mutex, sleeping, stopFlag, stopper>>

NotifyOne(p) ==
    /\ at[p] = "notify"
    /\ IF sleeping = {}
       THEN UNCHANGED sleeping
       ELSE \E w \in sleeping : sleeping' = sleeping \ {w}
    /\ MoveTo(p, "idle")
    /\ UNCHANGED <<queues, skipCounts, mutex, stopFlag, stopper>>

-----------------------------------------------------------------------------
\* PopBlocking.  A worker that is not sleeping and not busy is about to take
\* the mutex and evaluate the predicate, for the first time or after a wake-up.

Awake(w) == at[w] = "pop" /\ w \notin sleeping

\* (mutant of PredicateFails: the mutex is not kept until the worker sleeps)
PredicateFailsUnlocked(w) ==
    /\ Awake(w) /\ Free
    /\ ~stopFlag /\ EmptyLocked
    /\ MoveTo(w, "falling")
    /\ UNCHANGED <<queues, skipCounts, mutex, sleeping, stopFlag, stopper>>

\* The predicate is false.
PredicateFails(w) ==
    /\ Awake(w) /\ Free
    /\ ~stopFlag /\ EmptyLocked
    /\ mutex' = w
    /\ MoveTo(w, "falling")
    /\ UNCHANGED <<queues, skipCounts, sleeping, stopFlag, stopper>>

FallAsleep(w) ==
    /\ at[w] = "falling"
    /\ sleeping' = sleeping \union {w}
    /\ mutex' = NoThread
    /\ MoveTo(w, "pop")
    /\ UNCHANGED <<queues, skipCounts, stopFlag, stopper>>

SpuriousWakeup(w) ==
    /\ w \in sleeping
    /\ sleeping' = sleeping \ {w}
    /\ UNCHANGED <<queues, skipCounts, mutex, stopFlag, at, stopper>>

\* The predicate holds and there is a task: PopLocked, and WorkerMain runs it.
PopReturnsTask(w, t) ==
    /\ Awake(w) /\ Free
    /\ PopLocked(t)
    /\ MoveTo(w, "busy")
    /\ UNCHANGED <<mutex, sleeping, stopFlag, stopper>>

TaskDone(w) ==
    /\ at[w] = "busy"
    /\ MoveTo(w, "pop")
    /\ UNCHANGED <<queues, skipCounts, mutex, sleeping, stopFlag, stopper>>

\* Stopped and nothing left: PopBlocking returns false.  WorkerMain leaves
\* (m_inflight = 0) or comes back at once (m_inflight # 0).
PopReturnsFalse(w) ==
    /\ Awake(w) /\ Free
    /\ stopFlag /\ EmptyLocked
    /\ \/ MoveTo(w, "exited")
       \/ UNCHANGED at
    /\ UNCHANGED <<queues, skipCounts, mutex, sleeping, stopFlag, stopper>>

-----------------------------------------------------------------------------
\* Terminate: the flag is set with no lock, then NotifyAll takes and releases
\* the mutex before it notifies.

SetStop ==
    /\ stopper = "idle"
    /\ stopFlag' = TRUE
    /\ stopper' = "lock"
    /\ UNCHANGED <<queues, skipCounts, mutex, sleeping, at>>

\* (mutant of NotifyAllLock: the mutex is not taken)
NotifyAllNoLock ==
    /\ stopper = "lock"
    /\ stopper' = "notify"
    /\ UNCHANGED <<queues, skipCounts, mutex, sleeping, stopFlag, at>>

NotifyAllLock ==
    /\ stopper = "lock" /\ Free
    /\ stopper' = "notify"
    /\ UNCHANGED <<queues, skipCounts, mutex, sleeping, stopFlag, at>>

NotifyAll ==
    /\ stopper = "notify"
    /\ sleeping' = {}
    /\ stopper' = "done"
    /\ UNCHANGED <<queues, skipCounts, mutex, stopFlag, at>>

-----------------------------------------------------------------------------

PopperStep(w) ==
    \/ PredicateFails(w) \/ FallAsleep(w)
    \/ \E t \in Queued : PopReturnsTask(w, t)
    \/ TaskDone(w) \/ PopReturnsFalse(w)

StopperStep == SetStop \/ NotifyAllLock \/ NotifyAll

SyncNext ==
    \/ \E p \in Pusher : NotifyOne(p) \/ \E t \in Task \ Queued : PushLocked(p, t)
    \/ \E w \in Popper : PopperStep(w) \/ SpuriousWakeup(w)
    \/ StopperStep

\* Every thread keeps running.  A pusher may stop pushing and Terminate may
\* never be called, but a call that began is finished.  No fairness for
\* spurious wake-ups.  The mutex is free again and again, so strong fairness
\* stands for a lock that everyone who waits for it gets in the end.
SyncSpec ==
    /\ SyncInit
    /\ [][SyncNext]_syncVars
    /\ \A p \in Pusher : WF_syncVars(NotifyOne(p))
    /\ \A w \in Popper : SF_syncVars(PopperStep(w))
    /\ SF_syncVars(NotifyAllLock) /\ WF_syncVars(NotifyAll)

-----------------------------------------------------------------------------

SyncTypeOK ==
    /\ QueueTypeOK
    /\ mutex \in Popper \union {NoThread}
    /\ sleeping \subseteq Popper
    /\ stopFlag \in BOOLEAN
    /\ at \in [Pusher \union Popper -> {"idle", "notify", "pop", "falling", "busy", "exited"}]
    /\ stopper \in {"idle", "lock", "notify", "done"}

\* Once NotifyAll has returned no worker sleeps and none is about to: the
\* comment in WorkQueue::NotifyAll, and the reason it takes m_mutex.
NobodySleepsThroughStop ==
    stopper = "done" => sleeping = {} /\ \A w \in Popper : at[w] # "falling"

\* A pushed task is popped, however the pushes and the sleepers interleave,
\* unless the system is stopped: a push that races Terminate may come after the
\* last worker has left.
EveryPushIsPopped == \A t \in Task : t \in Queued ~> t \notin Queued \/ stopFlag

=============================================================================
