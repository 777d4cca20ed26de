-------------------------- MODULE ServiceProviderMC --------------------------
(***************************************************************************)
(* Three services wired as a chain with a shared dependency, as a cycle    *)
(* below a third service, and as one that needs itself.                    *)
(***************************************************************************)
EXTENDS ServiceProviderProperties

CONSTANTS a, b, c

Services == {a, b, c}

Wired(toA, toB, toC) ==
    [id \in Services |-> CASE id = a -> toA [] id = b -> toB [] id = c -> toC]

SharedDependency == Wired({b, c}, {c}, {})
Cycle == Wired({b}, {c}, {b})
SelfCycle == Wired({b}, {b}, {})

SomeWirings == {SharedDependency, Cycle, SelfCycle}
=============================================================================
