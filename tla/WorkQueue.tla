------------------------------ MODULE WorkQueue ------------------------------
(***************************************************************************)
(* The priority queue of the task system: core/task/WorkQueue.{hpp,cpp}.   *)
(* One FIFO per priority level, and one skip counter per level that        *)
(* promotes a level which was passed over Quota times.                     *)
(*                                                                         *)
(* Every operation below runs under WorkQueue::m_mutex, so each is one     *)
(* step.  WorkQueueSync adds the mutex, the condition variable and the     *)
(* stop flag; TaskSystem builds the scheduler on it.                       *)
(***************************************************************************)
EXTENDS Naturals, Sequences, FiniteSets

CONSTANTS
    Task,           \* the tasks that are ever pushed
    PriorityCount,  \* TaskPriorityCount: level 0 is Critical
    Quota,          \* TaskQueueStarvationQuota
    PriorityOf      \* Task::priority, set by the constructor and never changed

Level == 0 .. PriorityCount - 1

ASSUME QueueAssumption ==
    /\ PriorityCount \in Nat \ {0}
    /\ Quota \in Nat \ {0}
    /\ PriorityOf \in [Task -> Level]

VARIABLES
    queues,         \* m_queues: for each level, the tasks in push order
    skipCounts      \* m_skipCounts

queueVars == <<queues, skipCounts>>

QueueInit ==
    /\ queues = [l \in Level |-> <<>>]
    /\ skipCounts = [l \in Level |-> 0]

-----------------------------------------------------------------------------

NonEmpty == {l \in Level : queues[l] # <<>>}

EmptyLocked == NonEmpty = {}

\* (mutant of Starved: no promotion at all)
StarvedNever == {}

\* A level whose counter reached the quota is served before every other one.
Starved == {l \in NonEmpty : skipCounts[l] >= Quota}

Highest(levels, l) == l \in levels /\ \A m \in levels : l <= m

Queued == UNION {{queues[l][i] : i \in DOMAIN queues[l]} : l \in Level}

Push(t) ==
    /\ queues' = [queues EXCEPT ![PriorityOf[t]] = Append(@, t)]
    /\ UNCHANGED skipCounts

\* (mutant of TakeFront: the task that was pushed last is taken)
TakeBack(l, t) ==
    /\ t = queues[l][Len(queues[l])]
    /\ queues' = [queues EXCEPT ![l] = SubSeq(@, 1, Len(@) - 1)]

TakeFront(l, t) ==
    /\ t = Head(queues[l])
    /\ queues' = [queues EXCEPT ![l] = Tail(@)]

\* The first loop of PopLocked: priority is ignored for a starved level.
PopStarved(l, t) ==
    /\ Highest(Starved, l)
    /\ TakeFront(l, t)
    /\ skipCounts' = [skipCounts EXCEPT ![l] = 0]

\* (mutant of PopHighest: the count starts one level too low)
PopHighestOffByOne(l, t) ==
    /\ Starved = {} /\ Highest(NonEmpty, l) /\ TakeFront(l, t)
    /\ skipCounts' = [m \in Level |-> IF m > l + 1 /\ m \in NonEmpty
                                      THEN skipCounts[m] + 1 ELSE skipCounts[m]]

\* The second loop: the highest level is served, and every lower level that
\* has something to offer is counted as skipped.  The counter of the level
\* that is served keeps its value.
PopHighest(l, t) ==
    /\ Starved = {}
    /\ Highest(NonEmpty, l)
    /\ TakeFront(l, t)
    /\ skipCounts' = [m \in Level |-> IF m > l /\ m \in NonEmpty
                                      THEN skipCounts[m] + 1
                                      ELSE skipCounts[m]]

PopLocked(t) == \E l \in Level : PopStarved(l, t) \/ PopHighest(l, t)

-----------------------------------------------------------------------------
\* The queue alone, driven by pushes and pops in any order.  A task is in the
\* queue at most once (Task::queued guards Enqueue).

QueueNext ==
    \/ \E t \in Task \ Queued : Push(t)
    \/ \E t \in Queued : PopLocked(t)

QueueSpec == QueueInit /\ [][QueueNext]_queueVars

-----------------------------------------------------------------------------

QueueTypeOK ==
    /\ queues \in [Level -> Seq(Task)]
    /\ skipCounts \in [Level -> 0 .. Quota]

\* A counter never passes the quota (so the uint32_t never wraps), and it
\* stands at the quota only while its level has a task waiting: a level that
\* drained can never come back with a promotion already earned in full.
SkipCountBounded ==
    \A l \in Level : skipCounts[l] = Quota => queues[l] # <<>>

\* Whatever is pushed meanwhile, again and again and at whatever priority, a
\* task in the queue is eventually handed to a worker.
NoStarvation == \A t \in Task : t \in Queued ~> t \notin Queued

=============================================================================
