------------------------------ MODULE TaskGraph ------------------------------
(***************************************************************************)
(* What the task system promises, without threads, queues or counters: a   *)
(* task is submitted with the tasks it waits for, starts when those are    *)
(* over, runs once, and can be canceled only while it has not started.     *)
(* Abstract specification of core/task; TaskSystem implements it.          *)
(***************************************************************************)
CONSTANT Task

VARIABLES
    status,     \* where each task is in its life
    waitsFor    \* the tasks it was submitted to wait for

graphVars == <<status, waitsFor>>

Over == {"done", "canceled"}

GraphInit ==
    /\ status = [t \in Task |-> "new"]
    /\ waitsFor = [t \in Task |-> {}]

\* A parallel loop submits its chunks and the join that waits for them at once.
Submit(ts, P) ==
    /\ ts # {}
    /\ \A t \in ts : status[t] = "new"
    /\ status' = [t \in Task |-> IF t \in ts THEN "waiting" ELSE status[t]]
    /\ \E t \in ts : waitsFor' = [waitsFor EXCEPT ![t] = P]

Start(t) ==
    /\ status[t] = "waiting"
    /\ \A p \in waitsFor[t] : status[p] \in Over
    /\ status' = [status EXCEPT ![t] = "running"]
    /\ UNCHANGED waitsFor

Finish(t) ==
    /\ status[t] = "running"
    /\ status' = [status EXCEPT ![t] = "done"]
    /\ UNCHANGED waitsFor

Cancel(t) ==
    /\ status[t] = "waiting"
    /\ status' = [status EXCEPT ![t] = "canceled"]
    /\ UNCHANGED waitsFor

GraphNext ==
    \/ \E ts \in SUBSET Task, P \in SUBSET Task : Submit(ts, P)
    \/ \E t \in Task : Start(t) \/ Finish(t) \/ Cancel(t)

GraphSpec == GraphInit /\ [][GraphNext]_graphVars

=============================================================================
