----------------------------- MODULE WorkQueueMC -----------------------------
\* Model-checking instance of WorkQueueFairness: tasks of four levels,
\* two of them of the lowest, each of which may be pushed again once popped.
EXTENDS WorkQueueFairness

MCTask == {"c", "h", "n", "l1", "l2"}
MCPriorityOf == [t \in MCTask |-> CASE t = "c" -> 0 [] t = "h" -> 1 [] t = "n" -> 2 [] OTHER -> 3]
=============================================================================
