--------------------------- MODULE TickProperties ---------------------------
(***************************************************************************)
(* What the tick system promises: see document/core/3_tick_system.md.      *)
(***************************************************************************)
EXTENDS Tick

\* Every variable has its type.
TickTypeOK ==
    /\ held \subseteq live /\ live \subseteq Function
    /\ parent \in [Function -> FunctionOrNull]
    /\ \A f \in Function : ToSet(dependents[f]) \subseteq live
    /\ \A g \in Group : ToSet(groups[g]) \subseteq live
    /\ now \in 0 .. MaxFrames /\ frame \in Group \cup {None}
    /\ last \in [Function -> 0 .. now]
    /\ open \in [FunctionOrNull -> Nat] /\ before \in [Function -> FunctionOrNull]
    /\ \A w \in Executor :
        /\ worker[w].step \in {"idle", "tick", "clean", "fork", "join", "finish"}
        /\ worker[w].join \in FunctionOrNull

\* The two representations of a tree agree: among live functions, c is in p's
\* dependents exactly when p is c's parent, and no list holds c twice
\* (AddDependency, DeleteDependency, Register, CleanFunction, CleanDependents).
TreesConsistent ==
    \A p \in live :
        /\ IsInjective(dependents[p])
        /\ \A c \in live : Contains(dependents[p], c) <=> parent[c] = p

\* A function is executed after the parent it had when Execute was called
\* (3_tick_system.md:61,80), the functions of the group's list excepted.  The
\* document promises it of them too: one that was given a parent since it was
\* registered should leave the list and wait for that parent (:80,153).  The
\* code breaks the link instead and executes it at once (TickManager.cpp:70-74).
ParentFirst ==
    \A i \in DOMAIN executed :
        LET f == executed[i]
            p == before[f]
        IN  \/ p = None
            \/ f \in ToSet(roots)
            \/ \E j \in 1 .. i - 1 : executed[j] = p

\* T holds the dependents of each of its functions.
Closed(T) == \A f \in T : ToSet(dependents[f]) \subseteq T

\* The functions at or below those in S: what every closed set with S holds.
Below(S) ==
    {f \in Function : \A T \in SUBSET Function : S \subseteq T /\ Closed(T) => f \in T}

\* When Execute returns, every function of the group's trees was executed,
\* however they were split into chunks and spread over the workers.
FrameVisitsTrees ==
    frame # None /\ open[None] = 0 /\ undefined = "no"
        => ToSet(executed) = Below(ToSet(roots))

\* Cleaning up in one worker never frees a function that another has queued.
QueuedFunctionsLive ==
    /\ \A i \in DOMAIN queue : ToSet(queue[i].items) \subseteq live
    /\ \A w \in Executor : ToSet(worker[w].items) \subseteq live

\* A frame ends: each function whose dependents are being executed blocks the
\* executor it runs on, and one more worker than can be blocked at once is
\* enough for the chunks and the join tasks of the nested ParallelFor calls.
FrameCompletes == frame # None ~> frame = None \/ undefined # "no"

=============================================================================
