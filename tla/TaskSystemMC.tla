---------------------------- MODULE TaskSystemMC ----------------------------
\* Model-checking instances of TaskSystem: every task has the same priority,
\* WorkQueueMC explores the levels.
EXTENDS TaskSystemProperties, TLC

CONSTANTS t1, t2, t3, c1, c2

OnePriority == [t \in Task |-> 0]

\* A second task that may follow the first, a third that joins both, names one
\* twice, or comes with an empty handle.
Diamond ==
    (t1 :> {<<>>}) @@ (t2 :> {<<>>, <<t1>>}) @@
    (t3 :> {<<t2, t1>>, <<t1, t1>>, <<NoTask, t2>>})

\* A chain of two, and a loop of two chunks with its join.
Loops == (t1 :> {<<>>}) @@ (t2 :> {<<>>, <<t1>>}) @@ (t3 :> {<<t1, t2>>})

WorkersAlike == Permutations(Worker)

LoopAndLaunch == (c1 :> {"parallel", "launch", "wait"}) @@ (c2 :> {})
LaunchAndCancel == (c1 :> {"launch"}) @@ (c2 :> {"cancel"})
=============================================================================
