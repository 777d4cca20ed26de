--------------------------- MODULE WorkQueueSyncMC ---------------------------
\* Model-checking instance of WorkQueueSync.
EXTENDS WorkQueueSync

MCTask == {"c", "n", "l"}
MCPriorityOf == [t \in MCTask |-> CASE t = "c" -> 0 [] t = "n" -> 1 [] OTHER -> 1]
=============================================================================
