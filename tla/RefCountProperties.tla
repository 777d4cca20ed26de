------------------------- MODULE RefCountProperties -------------------------
(***************************************************************************)
(* What the reference counting promises its users.                         *)
(***************************************************************************)
EXTENDS RefCount

\* The loads of a count after the thread's own fetch_sub.
LateLoads == {"loadStrong", "loadWeak"}

Label == {"idle", "decrement", "markDead", "clearPointer", "destroy",
          "releaseWeak", "freeControl"} 
          \cup {"lockAlive", "lockLoad", "lockCas", "lockPointer"}
          \cup LateLoads

\* Every variable has its type, and a thread in the middle of an operation
\* works on an object that was created.
RefTypeOK ==
    /\ strong \in [Object -> Nat] /\ weak \in [Object -> Nat]
    /\ alive \in [Object -> BOOLEAN] /\ pointer \in [Object -> BOOLEAN]
    /\ object \in [Object -> {"unborn", "live", "destroyed"}]
    /\ control \in [Object -> {"unborn", "live", "freed"}]
    /\ sp \in [Thread -> [Slot -> PointerOrNull]]
    /\ wp \in [Thread -> PointerOrNull] /\ raw \in [Thread -> PointerOrNull]
    /\ pc \in [Thread -> Label] /\ target \in [Thread -> PointerOrNull]
    /\ seen \in [Thread -> Nat] /\ dropped \in [Object -> Nat]
    /\ \A t \in Thread : pc[t] = "idle" <=> target[t] = None

\* The references that keep o: strong pointers, references owned without a
\* pointer, and those in the hands of a Release or lock() in progress.
Owners(o) ==
    ({"pointer"} \X {td \in Thread \X Slot : sp[td[1]][td[2]] = o})
    \cup ({"raw"} \X {t \in Thread : raw[t] = o})
    \cup ({"call"} \X {t \in Thread : target[t] = o
                                      /\ pc[t] \in {"decrement", "lockPointer"}})

\* A strong pointer, or a reference taken out of one by detach, never refers
\* to an object whose destructor has run, whatever the other threads release
\* or lock in the meantime (ReferenceObject::Release, TWeakReferencePtr::lock).
HeldStaysAlive ==
    \A o \in Object : Owners(o) # {} => object[o] = "live" /\ pointer[o]

\* The threads that read or write the control block of o in their next step,
\* those of LateLoads excepted.
Users(o) == {t \in Thread : target[t] = o /\ pc[t] \notin LateLoads \cup {"idle"}}

\* A control block outlives every weak pointer to it, the object it describes
\* and every operation that still has to touch it (ControlBlock::ReleaseWeak),
\* except for the two loads of a count that follow the thread's own fetch_sub
\* when it was not the last (ReferencePtr.hpp:149 and :82).  The code does not
\* protect these: another thread may free the block, and destroy the object,
\* between the fetch_sub and the load.
ControlOutlivesWeak ==
    \A o \in Object :
        (\E t \in Thread : wp[t] = o) \/ object[o] = "live" \/ Users(o) # {}
            => control[o] = "live"

\* Nothing leaks: once no pointer refers to an object and no operation is in
\* progress but loads of a count, the object has been destroyed and its control
\* block freed.
NothingLeaks ==
    \A o \in Object :
        /\ object[o] # "unborn" /\ dropped[o] = 0
        /\ Owners(o) = {} /\ Users(o) = {}
        => /\ object[o] = "destroyed"
           /\ (\A t \in Thread : wp[t] # o) => control[o] = "freed"

=============================================================================
