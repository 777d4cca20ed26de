---------------------- MODULE ServiceProviderProperties ----------------------
(***************************************************************************)
(* What a ServiceProvider promises: one instance of a singleton, an end to *)
(* every recursion, and a clean-up that removes what nobody uses.          *)
(***************************************************************************)
EXTENDS ServiceProvider

\* Every reference is to a service that exists.
ServiceTypeOK ==
    /\ needs \in Wirings
    /\ descriptor \in [Id -> {"none", "singleton", "transient"}]
    /\ singleton \in [Id -> live \cup {None}]
    /\ creating \subseteq Id
    /\ \A k \in DOMAIN stack : stack[k].id \in Id /\ DOMAIN stack[k].got \subseteq needs[stack[k].id]
    /\ InHand(stack) \cup held \subseteq live /\ live \subseteq Instance
    /\ \A i \in live : of[i] \in Id /\ uses[i] \subseteq live
    /\ cleaning \in {"no", "once", "all"} /\ unvisited \subseteq Id
    /\ result \in {"none", "null", "service", "thrown", "failed"}
    /\ stuck \subseteq Id

\* Of the services made under a singleton's descriptor at most one of an id
\* exists at a time, whatever was registered anew, cleaned, or left by an
\* exception in between.
SingletonUnique ==
    \A i, j \in wasSingle : of[i] = of[j] => i = j

\* GetService returns a service when the registered services and the singletons
\* at hand suffice to build one, and none when they do not, in whatever order
\* the arguments of the constructors are evaluated.  The exception: an id that
\* was being created when an exception was thrown stays in m_creatingServiceHash
\* (ServiceProvider.hpp:228-237), and what can be built only by creating such an
\* id again is refused ever after, as if it were a circle.
GetServiceDecides ==
    Ready /\ result \notin {"none", "failed"} =>
        /\ expected => result = "service"
        /\ obstructed => result = "thrown"
        /\ ~expected /\ ~obstructed => result \in {"null", "thrown"}

\* What can be reached from the services in `roots': the smallest set with them
\* that has the dependencies of its members.
Reach(roots) ==
    {i \in Instance : \A R \in SUBSET Instance :
        roots \subseteq R /\ UNION {uses[j] : j \in R} \subseteq R => i \in R}

\* CleanAllSingletons returns if the caller keeps nothing that uses a singleton.
CleanAllReturns ==
    (cleaning = "all" /\ \A id \in Entries : singleton[id] \notin Reach(held))
        ~> (cleaning = "no")

\* When it has returned, there are no singletons, and of the services only
\* those that the caller's need.
CleanAllLeavesHeld ==
    [][cleaning = "all" /\ cleaning' = "no" => Entries' = {} /\ live' = Reach(held)]_vars
=============================================================================
