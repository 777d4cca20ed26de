-------------------------------- MODULE Tick --------------------------------
(***************************************************************************)
(* The tick system: TickFunction, TickObject and TickManager.  Functions   *)
(* form trees through `dependents' and `parent'; TickManager::Execute runs *)
(* one frame over a group, each level of a tree through a ParallelFor of   *)
(* the task system, which blocks the worker that calls it.                 *)
(*                                                                         *)
(* One main thread changes the trees between frames and calls Execute, the *)
(* way the game loop does; the tests never change a tree during a frame.   *)
(* A function is freed the moment its last reference goes.  What follows a *)
(* use of freed memory is undefined: the behaviour ends there.             *)
(***************************************************************************)
EXTENDS Naturals, Sequences, FiniteSets, SequencesExt

CONSTANTS
    Function,       \* the TickFunctions, each the primary one of a TickObject
    Group,          \* the group names
    TypeOf,         \* TickFunction::type, fixed before the function is used
    Interval,       \* TickFunction::tickInterval, in frames
    Worker,         \* workers of the task system
    Grain,          \* items per chunk of a ParallelFor, 4 * |Worker| in the code
    Links,          \* the pairs (parent, child) the program ever links; a function
                    \* may be linked to itself
    MaxFrames,      \* a bound on the model
    None

ASSUME TypeOfAssumption == TypeOf \in [Function -> Group]
ASSUME IntervalAssumption == Interval \in [Function -> Nat]
ASSUME LinksAssumption == Links \subseteq Function \X Function
ASSUME WorkerAssumption == IsFiniteSet(Worker)
ASSUME GrainAssumption == Grain \in Nat \ {0}
ASSUME MaxFramesAssumption == MaxFrames \in Nat
ASSUME NoneAssumption == None \notin Function \cup Group \cup Worker

VARIABLES
    held,           \* the TickObjects that exist, as a set of their functions
    live,           \* the functions not yet freed
    parent,         \* TickFunction::parent, a raw pointer: it may dangle
    dependents,     \* TickFunction::dependents
    groups,         \* the functions of each group; <<>> if there is no such group
    last,           \* TickFunction::preTickTime
    now,            \* TickParam::crrentTime of the latest frame
    frame,          \* the group being executed, or None between frames
    roots,          \* the functions the frame begins with
    queue,          \* the chunks and join tasks no worker has taken yet
    open,           \* tasks a ParallelFor still waits for, by its caller: its
                    \* chunks, and the join task they release
    worker,         \* what each worker, and the main thread, is doing
    undefined,      \* "no", or the use of freed memory that ended the behaviour
    executed,       \* history: the functions executed in this frame, in order
    before          \* history: `parent' when Execute was called, in a frame

treeVars == <<held, live, parent, dependents, groups>>
frameVars == <<frame, roots, queue, open, worker>>
vars == <<treeVars, frameVars, last, now, undefined, executed, before>>

FunctionOrNull == Function \cup {None}
Executor == Worker \cup {None}          \* None stands for the main thread
Idle == [items |-> <<>>, join |-> None, step |-> "idle"]

Init ==
    /\ held = Function /\ live = Function
    /\ parent = [f \in Function |-> None]
    /\ dependents = [f \in Function |-> <<>>]
    /\ groups = [g \in Group |-> <<>>]
    /\ last = [f \in Function |-> 0] /\ now = 0
    /\ frame = None /\ roots = <<>> /\ queue = <<>>
    /\ open = [j \in FunctionOrNull |-> 0]
    /\ worker = [w \in Executor |-> Idle]
    /\ undefined = "no"
    /\ executed = <<>> /\ before = [f \in Function |-> None]

-----------------------------------------------------------------------------
\* References and lifetime

Occurrences(s, f) == Cardinality({i \in DOMAIN s : s[i] = f})

\* GetReferenceCount: the TickObject, the dependents lists of live functions,
\* the group's list and, during a frame, the copy of it.
References(f, copy) ==
    (IF f \in held THEN 1 ELSE 0)
    + Cardinality({p \in live : Contains(dependents[p], f)})
    + Occurrences(groups[TypeOf[f]], f) + Occurrences(copy, f)

\* Every function of S has a reference, be it from another one of S.
Referenced(S, objects, lists) ==
    \A f \in S : \/ f \in objects
                \/ Contains(groups[TypeOf[f]], f)
                \/ \E p \in S : Contains(lists[p], f)

\* The functions left when those without a reference are freed, and with them
\* their dependents lists, until every function that is left has a reference.
Kept(objects, lists) == UNION {S \in SUBSET live : Referenced(S, objects, lists)}

\* Free what `objects' and `lists' do not keep.
Free(objects, lists) ==
    /\ live' = Kept(objects, lists)
    /\ dependents' = [f \in Function |-> IF f \in live' THEN lists[f] ELSE <<>>]

\* s after the erase loops have taken out what is not in S; the rest keeps its
\* order.
Filter(s, S) ==
    LET places == {i \in DOMAIN s : s[i] \in S}
        Rank(i) == Cardinality({j \in places : j <= i})
    IN  [k \in 1 .. Cardinality(places) |-> s[CHOOSE i \in places : Rank(i) = k]]

\* The dependents lists after p->DeleteDependency(f).
Without(p, f) == [dependents EXCEPT ![p] = Filter(@, Function \ {f})]

MainMay == frame = None /\ undefined = "no"

\* Following `parent' of a function when the parent has been freed.
FollowFreedParent ==
    /\ undefined' = "followed a freed parent"
    /\ UNCHANGED <<treeVars, frameVars, last, now, executed, before>>

-----------------------------------------------------------------------------
\* The main thread between frames

\* (mutant of AddDependency: the old parent keeps the function)
AddDependencyKeepsOld(p, c) ==
    /\ MainMay /\ <<p, c>> \in Links /\ {p, c} \subseteq held /\ TypeOf[p] = TypeOf[c]
    /\ ~Contains(dependents[p], c)
    /\ dependents' = [dependents EXCEPT ![p] = Append(@, c)]
    /\ parent' = [parent EXCEPT ![c] = p]
    /\ UNCHANGED <<held, live, groups, frameVars, last, now, undefined,
                   executed, before>>

\* p's object: AddPrimaryTickDependency(c's object).  The guard asks whether c
\* depends on itself, not on p.  Groups must be the same.
AddDependency(p, c) ==
    /\ MainMay /\ <<p, c>> \in Links /\ {p, c} \subseteq held /\ TypeOf[p] = TypeOf[c]
    /\ ~Contains(dependents[c], c)
    /\ IF parent[c] = None \/ parent[c] \in live
       THEN LET lists == IF parent[c] = None THEN dependents
                                             ELSE Without(parent[c], c)
            IN  /\ dependents' = [lists EXCEPT ![p] = Append(@, c)]
                /\ parent' = [parent EXCEPT ![c] = p]
                /\ UNCHANGED <<held, live, groups, frameVars, last, now, undefined,
                               executed, before>>
       ELSE FollowFreedParent

DeleteDependency(p, c) ==
    /\ MainMay /\ p \in held /\ Contains(dependents[p], c)
    /\ parent' = [parent EXCEPT ![c] = None]
    /\ Free(held, Without(p, c))
    /\ UNCHANGED <<held, groups, frameVars, last, now, undefined,
                   executed, before>>

\* (mutant of Register: the old parent keeps the function in its list)
RegisterKeepsLink(f) ==
    /\ MainMay /\ f \in held
    /\ parent' = [parent EXCEPT ![f] = None]
    /\ groups' = IF groups[TypeOf[f]] = <<>>
                 THEN [groups EXCEPT ![TypeOf[f]] = <<f>>] ELSE groups
    /\ UNCHANGED <<held, live, dependents, frameVars, last, now, undefined,
                   executed, before>>

\* TickManager::Register.  A group that exists already is copied by
\* TryGetGroup, and the function is added to the copy.
Register(f) ==
    /\ MainMay /\ f \in held
    /\ IF parent[f] = None \/ parent[f] \in live
       THEN /\ IF parent[f] = None THEN UNCHANGED <<parent, dependents>>
               ELSE /\ parent' = [parent EXCEPT ![f] = None]
                    /\ dependents' = Without(parent[f], f)
            /\ groups' = IF groups[TypeOf[f]] = <<>>
                         THEN [groups EXCEPT ![TypeOf[f]] = <<f>>] ELSE groups
            /\ UNCHANGED <<held, live, frameVars, last, now, undefined,
                           executed, before>>
       ELSE FollowFreedParent

\* The destructor of a TickObject only gives up its function.
DestroyObject(f) ==
    /\ MainMay /\ f \in held
    /\ held' = held \ {f}
    /\ Free(held \ {f}, dependents)
    /\ UNCHANGED <<parent, groups, frameVars, last, now, undefined, executed, before>>

-----------------------------------------------------------------------------
\* A frame

\* The items of a ParallelFor in chunks of Grain, to be joined by `join'.
Chunks(items, join) ==
    [i \in 1 .. (Len(items) + Grain - 1) \div Grain |->
        [items |-> SubSeq(items, (i - 1) * Grain + 1,
                          IF i * Grain < Len(items) THEN i * Grain ELSE Len(items)),
         join |-> join]]

\* (mutant of Fork: the join waits for one chunk fewer)
ForkCountsShort(items, join) ==
    /\ queue' = queue \o Chunks(items, join)
    /\ open' = [open EXCEPT ![join] = Len(Chunks(items, join))]

\* ParallelForAsync: the chunks, and the join task, which is pending on all of
\* them; with no items the future is ready at once.
Fork(items, join) ==
    /\ queue' = queue \o Chunks(items, join)
    /\ open' = [open EXCEPT ![join] =
                   IF items = <<>> THEN 0 ELSE Len(Chunks(items, join)) + 1]

\* TickManager::CleanFunction on the copy of the group, then ParallelFor.  A
\* root that got a parent is taken away from the parent.
ExecuteGroup(g) ==
    /\ MainMay /\ now < MaxFrames /\ groups[g] # <<>>
    /\ LET copy == groups[g]
           cleaned == Filter(copy, {f \in ToSet(copy) : References(f, copy) > 1})
           detached == {f \in ToSet(cleaned) : parent[f] # None}
       IN  IF \A f \in detached : parent[f] \in live
           THEN /\ frame' = g /\ now' = now + 1 /\ roots' = cleaned
                /\ parent' = [f \in Function |-> IF f \in detached THEN None ELSE parent[f]]
                /\ dependents' = [p \in Function |->
                                    Filter(dependents[p], Function \ detached)]
                /\ Fork(cleaned, None)
                /\ executed' = <<>> /\ before' = parent
                /\ UNCHANGED <<held, live, groups, worker, last, undefined>>
           ELSE FollowFreedParent

\* TickFunction::Execute on the main thread, without a manager: the function
\* is ticked right there.  The tests do so with functions that have no parent.
ExecuteFunction(f) ==
    /\ MainMay /\ now < MaxFrames /\ f \in held /\ parent[f] = None
    /\ frame' = TypeOf[f] /\ now' = now + 1 /\ roots' = <<f>>
    /\ worker' = [worker EXCEPT ![None] =
                    [items |-> <<f>>, join |-> None, step |-> "tick"]]
    /\ open' = [open EXCEPT ![None] = 1]
    /\ executed' = <<>> /\ before' = parent
    /\ UNCHANGED <<treeVars, queue, last, undefined>>

ExecuteReturns ==
    /\ frame # None /\ open[None] = 0 /\ undefined = "no"
    /\ frame' = None /\ roots' = <<>> /\ executed' = <<>>
    /\ before' = [f \in Function |-> None]
    /\ UNCHANGED <<treeVars, queue, open, worker, last, now, undefined>>

\* A join task has no function of its own.
TakeTask(w) ==
    /\ undefined = "no" /\ worker[w] = Idle /\ queue # <<>>
    /\ worker' = [worker EXCEPT ![w] =
                    [items |-> Head(queue).items, join |-> Head(queue).join,
                     step |-> IF Head(queue).items = <<>> THEN "finish" ELSE "tick"]]
    /\ queue' = Tail(queue)
    /\ UNCHANGED <<treeVars, frame, roots, open, last, now, undefined, executed, before>>

Doing(w, step) == undefined = "no" /\ worker[w].step = step

Current(w) == Head(worker[w].items)

SetStep(w, step) == worker' = [worker EXCEPT ![w].step = step]

\* CheckAndUpdateInterval: the time is updated whether or not it has elapsed.
IntervalElapsed(f) == now - last[f] >= Interval[f]

PreTickTime(f) == now

\* TickFunction::Execute up to the call of Tick; `target' is never cleared.
TickTarget(w) ==
    /\ Doing(w, "tick")
    /\ LET f == Current(w) IN
       /\ executed' = Append(executed, f)
       /\ last' = [last EXCEPT ![f] = PreTickTime(f)]
       /\ IF ~IntervalElapsed(f) \/ f \in held
          THEN SetStep(w, "clean") /\ UNCHANGED undefined
          ELSE undefined' = "ticked a destroyed object" /\ UNCHANGED worker
    /\ UNCHANGED <<treeVars, frame, roots, queue, open, now, before>>

\* Go on with the rest of the chunk, or finish it.
NextItem(w) ==
    LET rest == Tail(worker[w].items) IN
    worker' = [worker EXCEPT ![w].items = rest,
                             ![w].step = IF rest = <<>> THEN "finish" ELSE "tick"]

\* (mutant of CleanDependents: the dependents are queued first)
CleanAfterFork(w) ==
    /\ Doing(w, "clean")
    /\ LET f == Current(w)
           referenced == Filter(dependents[f], {c \in Function : References(c, roots) > 1})
       IN  /\ Free(held, [dependents EXCEPT ![f] = referenced])
           /\ IF dependents[f] = <<>>
              THEN NextItem(w) /\ UNCHANGED <<queue, open>>
              ELSE Fork(dependents[f], f) /\ SetStep(w, "join")
    /\ UNCHANGED <<held, parent, groups, frame, roots, last, now, undefined, executed,
                   before>>

\* A dependent that only this list refers to is dropped, and thereby freed.
CleanDependents(w) ==
    /\ Doing(w, "clean")
    /\ LET f == Current(w)
           referenced == Filter(dependents[f], {c \in Function : References(c, roots) > 1})
       IN  Free(held, [dependents EXCEPT ![f] = referenced])
    /\ SetStep(w, "fork")
    /\ UNCHANGED <<held, parent, groups, frame, roots, queue, open, last, now,
                   undefined, executed, before>>

ExecuteDependents(w) ==
    /\ Doing(w, "fork")
    /\ LET f == Current(w) IN
       IF dependents[f] = <<>>
       THEN NextItem(w) /\ UNCHANGED <<queue, open>>
       ELSE Fork(dependents[f], f) /\ SetStep(w, "join")
    /\ UNCHANGED <<treeVars, frame, roots, last, now, undefined, executed, before>>

\* (mutant of Join: the future is not waited for)
JoinEarly(w) ==
    /\ Doing(w, "join")
    /\ NextItem(w)
    /\ UNCHANGED <<treeVars, frame, roots, queue, open, last, now, undefined, executed, before>>

\* future.get(): the worker is blocked until the join task has run.
Join(w) ==
    /\ Doing(w, "join") /\ open[Current(w)] = 0
    /\ NextItem(w)
    /\ UNCHANGED <<treeVars, frame, roots, queue, open, last, now, undefined, executed, before>>

\* The task is over.  The last chunk enqueues the join task, for whichever
\* worker is free; the join task makes the future ready.
FinishTask(w) ==
    /\ Doing(w, "finish")
    /\ LET j == worker[w].join IN
       /\ open' = [open EXCEPT ![j] = @ - 1]
       /\ queue' = IF open[j] = 2 THEN Append(queue, [items |-> <<>>, join |-> j])
                                  ELSE queue
    /\ worker' = [worker EXCEPT ![w] = Idle]
    /\ UNCHANGED <<treeVars, frame, roots, last, now, undefined, executed, before>>

-----------------------------------------------------------------------------
ExecutorStep(w) ==
    \/ w \in Worker /\ TakeTask(w)
    \/ TickTarget(w) \/ CleanDependents(w)
    \/ ExecuteDependents(w) \/ Join(w) \/ FinishTask(w)

Next ==
    \/ \E p, c \in Function : AddDependency(p, c) \/ DeleteDependency(p, c)
    \/ \E f \in Function : Register(f) \/ DestroyObject(f)
    \/ \E f \in Function : ExecuteFunction(f)
    \/ \E g \in Group : ExecuteGroup(g)
    \/ ExecuteReturns
    \/ \E w \in Executor : ExecutorStep(w)

Spec == Init /\ [][Next]_vars

\* Threads keep running: workers take chunks and everybody goes on with what it
\* has begun.  Nobody is obliged to change a tree or to execute a frame.
FairSpec ==
    /\ Spec
    /\ \A w \in Executor : WF_vars(ExecutorStep(w))
    /\ WF_vars(ExecuteReturns)
=============================================================================
