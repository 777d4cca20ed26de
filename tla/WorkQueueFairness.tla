-------------------------- MODULE WorkQueueFairness --------------------------
(***************************************************************************)
(* What the starvation quota of WorkQueue::PopLocked is for.  The queue of *)
(* WorkQueue.tla, with two history variables that no action reads.         *)
(***************************************************************************)
EXTENDS WorkQueue

VARIABLES
    passed,     \* pops of other levels since level l was last served or empty
    skipped     \* those among them that PopLocked counted against level l

fairVars == <<queues, skipCounts, passed, skipped>>

FairInit ==
    /\ QueueInit
    /\ passed = [l \in Level |-> 0]
    /\ skipped = [l \in Level |-> 0]

FairPush(t) == Push(t) /\ UNCHANGED <<passed, skipped>>

\* History of a pop that served level l: every other waiting level was passed.
Record(l, counted) ==
    /\ passed' = [m \in Level |-> IF m # l /\ m \in NonEmpty THEN passed[m] + 1 ELSE 0]
    /\ skipped' = [m \in Level |->
          IF m = l THEN 0
          ELSE IF m \in counted THEN skipped[m] + 1 ELSE skipped[m]]

FairPop(t) ==
    \E l \in Level :
        \/ PopStarved(l, t) /\ Record(l, {})
        \/ PopHighest(l, t) /\ Record(l, {m \in NonEmpty : m > l})

FairNext ==
    \/ \E t \in Task \ Queued : FairPush(t)
    \/ \E t \in Queued : FairPop(t)

FairQueueSpec == FairInit /\ [][FairNext]_fairVars

\* Workers keep popping while the queue is not empty; nobody is obliged to push.
LiveSpec == FairQueueSpec /\ WF_fairVars(\E t \in Queued : FairPop(t))

-----------------------------------------------------------------------------

FairTypeOK ==
    /\ QueueTypeOK
    /\ passed \in [Level -> Nat]
    /\ skipped \in [Level -> Nat]

\* The counter is never behind the number of times the level was really
\* passed over in priority order since it was last served: it may be ahead
\* (it survives a drain, PopHighest does not reset it), never behind, so the
\* promotion never comes later than the quota promises.
PromotionNeverLate ==
    \A l \in Level : skipped[l] <= skipCounts[l]

\* However the pushes arrive, a waiting level below Critical is passed over at
\* most Quota times in priority order, plus a bounded number of times for the
\* promotions of the other levels that can starve.
BypassBound == Quota + 2 * (IF PriorityCount > 2 THEN PriorityCount - 2 ELSE 0)
BoundedBypass == \A l \in Level : l > 0 => passed[l] <= BypassBound

=============================================================================
