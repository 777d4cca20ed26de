--------------------------- MODULE ServiceProvider ---------------------------
(***************************************************************************)
(* core::ServiceProvider: descriptors, singletons and the creation of      *)
(* services with the services they depend on.  GetService is recursive:    *)
(* the factory of a service calls it for every dependency, in the order    *)
(* the compiler evaluates the arguments of the constructor, which C++      *)
(* leaves open.  An exception leaves all factories in progress.            *)
(*                                                                         *)
(* One thread uses a provider.  The caller keeps what GetService returns   *)
(* until it drops it; a service keeps its dependencies.                    *)
(***************************************************************************)
EXTENDS Naturals, Sequences, FiniteSets

CONSTANTS
    Id,             \* ServiceTypeIDs
    Instance,       \* storage for the services that exist at one time
    Room,           \* bound: the free storage a call of GetService may need
    Wirings,        \* the dependencies the services may have
    None

ASSUME NoneAssumption == None \notin Id \cup Instance
ASSUME FiniteAssumption == IsFiniteSet(Id) /\ IsFiniteSet(Instance)
ASSUME RoomAssumption == Room \in 1 .. Cardinality(Instance)
ASSUME WiringsAssumption == Wirings \subseteq [Id -> SUBSET Id]

VARIABLES
    needs,          \* the dependencies in each service's Create; never changes
    descriptor,     \* m_descriptors: "none", "singleton" or "transient"
    singleton,      \* m_singletons: an instance, or None if there is no entry
    creating,       \* m_creatingServiceHash
    stack,          \* the CreateService calls in progress, the innermost last
    live,           \* the instances that exist
    of, uses,       \* the id and the dependencies of an instance
    held,           \* the instances the caller keeps
    cleaning,       \* "no", or which function is cleaning: "once" or "all"
    unvisited,      \* ids the current pass of CleanSingletons has to visit
    result,         \* of the last call: "none", "null", "service", "thrown"
                    \*   by the provider or "failed" in a factory
    wasSingle,      \* history: the instances made by a singleton's descriptor
    stuck,          \* history: the ids whose creation an exception has ended
    expected,       \* history: could the service be created when it was asked
                    \* for, without the ids in `stuck'
    obstructed      \* history: could it be created with those ids only

instanceVars == <<live, of, uses, held>>
cleanVars == <<cleaning, unvisited>>
historyVars == <<wasSingle, expected, obstructed>>
vars == <<needs, descriptor, singleton, creating, stack, instanceVars, cleanVars,
          result, stuck, historyVars>>

Init ==
    /\ needs \in Wirings
    /\ descriptor = [id \in Id |-> "none"]
    /\ singleton = [id \in Id |-> None]
    /\ creating = {} /\ stack = <<>>
    /\ live = {} /\ of = [i \in Instance |-> None]
    /\ uses = [i \in Instance |-> {}] /\ held = {}
    /\ cleaning = "no" /\ unvisited = {} /\ result = "none"
    /\ wasSingle = {} /\ stuck = {} /\ expected = FALSE /\ obstructed = FALSE

Ready == stack = <<>> /\ cleaning = "no"

\* A call that returns nothing.
VoidCall == Ready /\ result' = "none" /\ expected' = FALSE /\ obstructed' = FALSE

StackIds == {stack[k].id : k \in DOMAIN stack}

-----------------------------------------------------------------------------
\* References

\* The instances a call in progress has in its hands.
InHand(frames) == UNION {{frames[k].got[id] : id \in DOMAIN frames[k].got} : k \in DOMAIN frames}

\* The strong count of i: the map, the caller, calls in progress, live services.
References(i) ==
    Cardinality({id \in Id : singleton[id] = i})
    + (IF i \in held THEN 1 ELSE 0)
    + (IF i \in InHand(stack) THEN 1 ELSE 0)
    + Cardinality({j \in live : i \in uses[j]})

\* What is left of the instances in `candidates' when those that nothing refers
\* to are destroyed, one after the other: the largest set of which each is one of
\* the roots or used by another.
Kept(candidates, using, roots) ==
    UNION {K \in SUBSET candidates : \A i \in K : i \in roots \/ \E j \in K : i \in using[j]}

\* Instances in `candidates' stay if a map entry, the caller or a call refers
\* to them, directly or through other services.
Release(candidates, using, entries, keptByCaller, frames) ==
    /\ live' = Kept(candidates, using,
                    {entries[id] : id \in Id} \cup keptByCaller \cup InHand(frames))
    /\ uses' = [i \in Instance |-> IF i \in live' THEN using[i] ELSE {}]
    /\ of' = [i \in Instance |-> IF i \in live' THEN of[i] ELSE None]
    /\ wasSingle' = wasSingle \cap live'

-----------------------------------------------------------------------------
\* Registration.  A second registration of an id changes nothing.
AddSingleton(id) ==
    /\ VoidCall /\ descriptor[id] = "none"
    /\ descriptor' = [descriptor EXCEPT ![id] = "singleton"]
    /\ UNCHANGED <<needs, stuck, singleton, creating, stack, instanceVars, cleanVars,
                   wasSingle>>

AddTransient(id) ==
    /\ VoidCall /\ descriptor[id] = "none"
    /\ descriptor' = [descriptor EXCEPT ![id] = "transient"]
    /\ UNCHANGED <<needs, stuck, singleton, creating, stack, instanceVars, cleanVars,
                   wasSingle>>

\* Mutant: the singleton is forgotten with its descriptor.
DeleteDescriptorForgets(id) ==
    /\ VoidCall /\ descriptor[id] # "none"
    /\ descriptor' = [descriptor EXCEPT ![id] = "none"]
    /\ singleton' = [singleton EXCEPT ![id] = None]
    /\ Release(live, uses, singleton', held, <<>>)
    /\ UNCHANGED <<needs, stuck, creating, stack, held, cleanVars>>

\* The singleton that was made stays in its map.
DeleteDescriptor(id) ==
    /\ VoidCall /\ descriptor[id] # "none"
    /\ descriptor' = [descriptor EXCEPT ![id] = "none"]
    /\ UNCHANGED <<needs, stuck, singleton, creating, stack, instanceVars, cleanVars,
                   wasSingle>>

-----------------------------------------------------------------------------
\* GetService

Available(id) == descriptor[id] = "singleton" /\ singleton[id] # None

CheckEntries(id) == id \notin creating /\ singleton[id] = None

\* CreateService, refused for a service whose creation is in progress.
CheckCreatableService(id) == id \notin creating

BeginCreate(id) ==
    /\ creating' = creating \cup {id}
    /\ stack' = Append(stack, [id |-> id, got |-> <<>>])
    /\ UNCHANGED <<needs, stuck, descriptor, singleton, instanceVars, cleanVars, wasSingle>>

\* An exception unwinds every factory; CreateService does not catch it, so the
\* ids stay in m_creatingServiceHash.  What the factories had is released.
Throw(outcome) ==
    /\ result' = outcome
    /\ stack' = <<>> /\ stuck' = stuck \cup StackIds
    /\ Release(live, uses, singleton, held, <<>>)
    /\ UNCHANGED <<needs, descriptor, singleton, creating, held, cleanVars, expected,
                   obstructed>>

\* An id is in `ids' if it is registered, not refused because it is busy, and
\* each of its dependencies is available or in `ids' as well.
Suffices(ids, available, busy) ==
    \A id \in Id :
        /\ descriptor[id] # "none" /\ id \notin busy
        /\ needs[id] \subseteq available \cup ids
        => id \in ids

\* The smallest such set: the services that can be created.
CreatableFrom(available, busy) ==
    {id \in Id : \A ids \in SUBSET Id : Suffices(ids, available, busy) => id \in ids}

Creatable(busy) == CreatableFrom({d \in Id : Available(d)}, busy)

\* The caller's GetService.
GetService(id) ==
    /\ Ready
    /\ expected' = (Available(id) \/ id \in Creatable(stuck))
    /\ obstructed' = (~expected' /\ id \in Creatable({}))
    /\ \/ /\ descriptor[id] = "none"
          /\ result' = "null"
          /\ UNCHANGED <<needs, stuck, descriptor, singleton, creating, stack, instanceVars,
                         cleanVars, wasSingle>>
       \/ /\ Available(id)
          /\ held' = held \cup {singleton[id]}
          /\ result' = "service"
          /\ UNCHANGED <<needs, stuck, descriptor, singleton, creating, stack, live, of, uses,
                         cleanVars, wasSingle>>
       \/ /\ descriptor[id] # "none" /\ ~Available(id) /\ CheckCreatableService(id)
          /\ Cardinality(Instance \ live) >= Room
          /\ BeginCreate(id)
          /\ result' = "none"
       \/ /\ descriptor[id] # "none" /\ ~Available(id) /\ ~CheckCreatableService(id)
          /\ result' = "thrown"
          /\ UNCHANGED <<needs, stuck, descriptor, singleton, creating, stack, instanceVars,
                         cleanVars, wasSingle>>

Top == stack[Len(stack)]

\* GetRequiredService for a dependency d of the innermost service.
ResolveDependency(d) ==
    /\ stack # <<>> /\ d \in needs[Top.id] \ DOMAIN Top.got
    /\ \/ /\ Available(d)
          /\ stack' = [stack EXCEPT ![Len(stack)].got =
                          [e \in DOMAIN Top.got \cup {d} |->
                              IF e = d THEN singleton[d] ELSE Top.got[e]]]
          /\ UNCHANGED <<needs, stuck, descriptor, singleton, creating, instanceVars,
                         cleanVars, result, historyVars>>
       \/ /\ descriptor[d] # "none" /\ ~Available(d) /\ CheckCreatableService(d)
          /\ BeginCreate(d)
          /\ UNCHANGED <<result, expected, obstructed>>
       \/ /\ descriptor[d] = "none" \/ (~Available(d) /\ ~CheckCreatableService(d))
          /\ Throw("thrown")

\* A factory, or the constructor it calls, throws an exception of its own.
FactoryThrows == stack # <<>> /\ Throw("failed")

\* The factory has every dependency: the service is made, entered into
\* m_singletons if it is one, and returned to the factory below or the caller.
FinishCreate ==
    /\ stack # <<>> /\ DOMAIN Top.got = needs[Top.id]
    /\ live # Instance
    /\ LET id == Top.id
           i == CHOOSE j \in Instance \ live : TRUE
           below == SubSeq(stack, 1, Len(stack) - 1)
           entries == IF descriptor[id] = "singleton"
                      THEN [singleton EXCEPT ![id] = i] ELSE singleton
           frames == IF below = <<>> THEN <<>>
                     ELSE LET got == below[Len(below)].got IN
                          [below EXCEPT ![Len(below)].got =
                              [e \in DOMAIN got \cup {id} |-> IF e = id THEN i ELSE got[e]]]
           keptByCaller == IF below = <<>> THEN held \cup {i} ELSE held
       IN  /\ of' = [of EXCEPT ![i] = id]
           /\ uses' = [uses EXCEPT ![i] = {Top.got[d] : d \in DOMAIN Top.got}]
           /\ live' = live \cup {i}
           /\ wasSingle' = IF descriptor[id] = "singleton" THEN wasSingle \cup {i} ELSE wasSingle
           /\ singleton' = entries /\ stack' = frames /\ held' = keptByCaller
           /\ creating' = creating \ {id}
           /\ result' = IF below = <<>> THEN "service" ELSE "none"
    /\ UNCHANGED <<needs, stuck, descriptor, cleanVars, expected, obstructed>>

Drop(i) ==
    /\ VoidCall /\ i \in held
    /\ held' = held \ {i}
    /\ Release(live, uses, singleton, held \ {i}, <<>>)
    /\ UNCHANGED <<needs, stuck, descriptor, singleton, creating, stack, cleanVars>>

-----------------------------------------------------------------------------
\* Cleaning

\* The ids with an entry in m_singletons.
Entries == {id \in Id : singleton[id] # None}

\* CleanAllSingletons returns at once when there is nothing.
CleanBegin(how) ==
    /\ VoidCall /\ Entries # {}
    /\ cleaning' = how /\ unvisited' = Entries
    /\ UNCHANGED <<needs, stuck, descriptor, singleton, creating, stack, instanceVars, wasSingle>>

\* Mutant: nothing is erased, because the iterator holds a reference itself.
CleanVisitNever(id) ==
    /\ cleaning # "no" /\ id \in unvisited
    /\ unvisited' = unvisited \ {id}
    /\ UNCHANGED <<needs, stuck, descriptor, singleton, creating, stack, instanceVars, cleaning,
                   result, historyVars>>

\* The pass visits the entries in the order of the hash map and erases those
\* that nothing else refers to at that moment.
CleanVisit(id) ==
    /\ cleaning # "no" /\ id \in unvisited
    /\ unvisited' = unvisited \ {id}
    /\ IF References(singleton[id]) = 1
       THEN LET entries == [singleton EXCEPT ![id] = None] IN
            /\ singleton' = entries
            /\ Release(live, uses, entries, held, <<>>)
       ELSE UNCHANGED <<singleton, live, of, uses, wasSingle>>
    /\ UNCHANGED <<needs, stuck, descriptor, creating, stack, held, cleaning, result,
                   expected, obstructed>>

\* Mutant: CleanAllSingletons makes one pass.
CleanPassEndsOnce ==
    /\ cleaning # "no" /\ unvisited = {}
    /\ cleaning' = "no"
    /\ UNCHANGED <<needs, stuck, descriptor, singleton, creating, stack, instanceVars, result,
                   unvisited, historyVars>>

\* CleanAllSingletons begins another pass as long as there are entries.
CleanPassEnds ==
    /\ cleaning # "no" /\ unvisited = {}
    /\ IF cleaning = "all" /\ Entries # {}
       THEN unvisited' = Entries /\ UNCHANGED cleaning
       ELSE cleaning' = "no" /\ UNCHANGED unvisited
    /\ UNCHANGED <<needs, stuck, descriptor, singleton, creating, stack, instanceVars, result,
                   historyVars>>

-----------------------------------------------------------------------------
CleanStep == CleanPassEnds \/ \E id \in Id : CleanVisit(id)

CallStep ==
    \/ \E d \in Id : ResolveDependency(d)
    \/ FinishCreate
    \/ FactoryThrows

Next ==
    \/ \E id \in Id : AddSingleton(id) \/ AddTransient(id) \/ DeleteDescriptor(id)
                      \/ GetService(id)
    \/ CallStep
    \/ \E i \in Instance : Drop(i)
    \/ \E how \in {"once", "all"} : CleanBegin(how)
    \/ CleanStep

Spec == Init /\ [][Next]_vars

\* A call that began goes on.
FairSpec == Spec /\ WF_vars(CallStep) /\ WF_vars(CleanStep)
=============================================================================
