------------------------------ MODULE RefCount ------------------------------
(***************************************************************************)
(* The intrusive reference counting of the core library: ReferenceObject   *)
(* and its ControlBlock, TReferencePtr and TWeakReferencePtr.  Every thread*)
(* owns some strong pointers and one weak pointer; the counters, the flag  *)
(* `alive' and `object_ptr' of a control block are shared and every access *)
(* to them is a step.  A pointer variable belongs to one thread (two       *)
(* threads using one TReferencePtr would be a data race of the caller), so *)
(* reading and writing it is folded into the neighbouring step.  The count *)
(* that Release and ReleaseWeak return is left out, for no caller uses it; *)
(* the load of that count is a step, for it touches the object and the     *)
(* control block after the thread has given up its own reference.          *)
(***************************************************************************)
EXTENDS Naturals, FiniteSets

CONSTANTS
    Thread,         \* threads that own pointers
    Slot,           \* names of the strong pointers each thread owns
    Object,         \* the objects that may be created
    None,           \* nullptr
    AttachAliases   \* how often attach() may be given the object the pointer
                    \* already has, for each object (a bound on the model)

ASSUME NoneIsNoObject == None \notin Object
ASSUME AttachAliasesIsNat == AttachAliases \in Nat
\* A process has finitely many threads, each with finitely many variables.
ASSUME ThreadsAreFinite == IsFiniteSet(Thread) /\ IsFiniteSet(Slot)

VARIABLES
    strong, weak,   \* the counters of an object's control block
    alive,          \* its flag `alive'
    pointer,        \* is its `object_ptr' non-null
    object,         \* "unborn", "live", or "destroyed" once ~ReferenceObject runs
    control,        \* the control block: "unborn", "live" or "freed"
    sp,             \* m_ptr of each thread's strong pointers
    wp,             \* m_cb of each thread's weak pointer
    raw,            \* a reference the thread owns without a TReferencePtr
    pc, target,     \* what the thread is doing, and to which object
    seen,           \* TryIncStrongFromWeak's local `s'
    dropped         \* history: references attach() was handed and did not keep

blockVars == <<strong, weak, alive, pointer, object, control>>
localVars == <<sp, wp, raw, seen>>
vars == <<blockVars, localVars, pc, target, dropped>>

PointerOrNull == Object \cup {None}

Init ==
    /\ strong = [o \in Object |-> 0] /\ weak = [o \in Object |-> 0]
    /\ alive = [o \in Object |-> FALSE] /\ pointer = [o \in Object |-> FALSE]
    /\ object = [o \in Object |-> "unborn"]
    /\ control = [o \in Object |-> "unborn"]
    /\ sp = [t \in Thread |-> [d \in Slot |-> None]]
    /\ wp = [t \in Thread |-> None] /\ raw = [t \in Thread |-> None]
    /\ pc = [t \in Thread |-> "idle"] /\ target = [t \in Thread |-> None]
    /\ seen = [t \in Thread |-> 0] /\ dropped = [o \in Object |-> 0]

At(t, label) == pc[t] = label

Goto(t, label) ==
    /\ pc' = [pc EXCEPT ![t] = label]
    /\ target' = IF label = "idle" THEN [target EXCEPT ![t] = None] ELSE target

\* Call Release or ReleaseWeak on o, the first step of which is `label'; a null
\* pointer has nothing to release.
Drop(t, label, o) ==
    /\ pc' = [pc EXCEPT ![t] = IF o = None THEN "idle" ELSE label]
    /\ target' = [target EXCEPT ![t] = o]

\* The counter `count' after AddRef or AddWeak through a pointer to o.
Added(count, o) == IF o = None THEN count ELSE [count EXCEPT ![o] = @ + 1]

-----------------------------------------------------------------------------
\* Strong pointers

\* MakeReference: a new object with a count of 0 and a control block whose one
\* weak reference belongs to the object, then TReferencePtr(T* ) adds its own.
Create(t, d, o) ==
    /\ At(t, "idle") /\ object[o] = "unborn" /\ sp[t][d] = None
    /\ strong' = [strong EXCEPT ![o] = 1] /\ weak' = [weak EXCEPT ![o] = 1]
    /\ alive' = [alive EXCEPT ![o] = TRUE]
    /\ pointer' = [pointer EXCEPT ![o] = TRUE]
    /\ object' = [object EXCEPT ![o] = "live"]
    /\ control' = [control EXCEPT ![o] = "live"]
    /\ sp' = [sp EXCEPT ![t][d] = o]
    /\ UNCHANGED <<wp, raw, seen, pc, target>>

\* Copy assignment, assignment from T* and reset(T* ): count the new reference
\* first, then release the old one.  With d = s it is a self-assignment.
CopyAssign(t, d, s) ==
    /\ At(t, "idle") /\ sp[t][s] # None
    /\ strong' = Added(strong, sp[t][s])
    /\ sp' = [sp EXCEPT ![t][d] = sp[t][s]]
    /\ Drop(t, "decrement", sp[t][d])
    /\ UNCHANGED <<weak, alive, pointer, object, control, wp, raw, seen>>

\* Passing a copy to another thread, as a task's lambda capture does.
CopyTo(t, s, u, d) ==
    /\ At(t, "idle") /\ At(u, "idle") /\ t # u
    /\ sp[t][s] # None /\ sp[u][d] = None
    /\ strong' = Added(strong, sp[t][s])
    /\ sp' = [sp EXCEPT ![u][d] = sp[t][s]]
    /\ UNCHANGED <<weak, alive, pointer, object, control, wp, raw, seen,
                   pc, target>>

\* (mutant of MoveAssign: the old object is overwritten without a Release)
MoveAssignLeaks(t, d, s) ==
    /\ At(t, "idle") /\ sp[t][d] # sp[t][s]
    /\ sp' = [sp EXCEPT ![t] = [@ EXCEPT ![d] = sp[t][s], ![s] = None]]
    /\ UNCHANGED <<blockVars, wp, raw, seen, pc, target>>

\* Move assignment does nothing when both pointers have the same object.
MoveAssign(t, d, s) ==
    /\ At(t, "idle") /\ sp[t][d] # sp[t][s]
    /\ sp' = [sp EXCEPT ![t] = [@ EXCEPT ![d] = sp[t][s], ![s] = None]]
    /\ Drop(t, "decrement", sp[t][d])
    /\ UNCHANGED <<blockVars, wp, raw, seen>>

\* The destructor, reset(), = nullptr and release_and_get_address_of.
Reset(t, d) ==
    /\ At(t, "idle") /\ sp[t][d] # None
    /\ sp' = [sp EXCEPT ![t][d] = None]
    /\ Drop(t, "decrement", sp[t][d])
    /\ UNCHANGED <<blockVars, wp, raw, seen>>

\* detach hands the reference to the caller; attach takes one from it, except
\* that it returns early when the pointer already has that object.
Detach(t, d) ==
    /\ At(t, "idle") /\ sp[t][d] # None /\ raw[t] = None
    /\ raw' = [raw EXCEPT ![t] = sp[t][d]]
    /\ sp' = [sp EXCEPT ![t][d] = None]
    /\ UNCHANGED <<blockVars, wp, seen, pc, target>>

Attach(t, d) ==
    /\ At(t, "idle") /\ raw[t] # None /\ sp[t][d] # raw[t]
    /\ raw' = [raw EXCEPT ![t] = None]
    /\ sp' = [sp EXCEPT ![t][d] = raw[t]]
    /\ Drop(t, "decrement", sp[t][d])
    /\ UNCHANGED <<blockVars, wp, seen>>

AttachSame(t, d) ==
    /\ At(t, "idle") /\ raw[t] # None /\ sp[t][d] = raw[t]
    /\ dropped[raw[t]] < AttachAliases
    /\ dropped' = [dropped EXCEPT ![raw[t]] = @ + 1]
    /\ raw' = [raw EXCEPT ![t] = None]
    /\ UNCHANGED <<blockVars, sp, wp, seen, pc, target>>

\* ReferenceObject::Release: whoever takes the count to 0 destroys the object.
Decrement(t) ==
    /\ At(t, "decrement")
    /\ strong' = [strong EXCEPT ![target[t]] = @ - 1]
    /\ Goto(t, IF strong[target[t]] = 1 THEN "markDead" ELSE "loadStrong")
    /\ UNCHANGED <<weak, alive, pointer, object, control, localVars>>

\* Anyone else loads the count through `m_control' of the object.  Nothing holds
\* either of them for this thread any more: another thread may have destroyed
\* the object and freed the control block.  What is read is not used.
LoadStrong(t) ==
    /\ At(t, "loadStrong")
    /\ Goto(t, "idle")
    /\ UNCHANGED <<blockVars, localVars>>

\* (mutant of MarkDead: Release gives up the initial weak reference as well)
MarkDeadReleasesWeak(t) ==
    /\ At(t, "markDead")
    /\ alive' = [alive EXCEPT ![target[t]] = FALSE]
    /\ weak' = [weak EXCEPT ![target[t]] = @ - 1]
    /\ Goto(t, "clearPointer")
    /\ UNCHANGED <<strong, pointer, object, control, localVars>>

MarkDead(t) ==
    /\ At(t, "markDead")
    /\ alive' = [alive EXCEPT ![target[t]] = FALSE]
    /\ Goto(t, "clearPointer")
    /\ UNCHANGED <<strong, weak, pointer, object, control, localVars>>

ClearPointer(t) ==
    /\ At(t, "clearPointer")
    /\ pointer' = [pointer EXCEPT ![target[t]] = FALSE]
    /\ Goto(t, "destroy")
    /\ UNCHANGED <<strong, weak, alive, object, control, localVars>>

\* delete this: ~ReferenceObject stores the two fields again and gives up the
\* control block's initial weak reference.
Destroy(t) ==
    /\ At(t, "destroy")
    /\ object' = [object EXCEPT ![target[t]] = "destroyed"]
    /\ alive' = [alive EXCEPT ![target[t]] = FALSE]
    /\ pointer' = [pointer EXCEPT ![target[t]] = FALSE]
    /\ Goto(t, "releaseWeak")
    /\ UNCHANGED <<strong, weak, control, localVars>>

-----------------------------------------------------------------------------
\* Weak pointers

\* ControlBlock::ReleaseWeak: the last weak reference frees the control block.
ReleaseWeak(t) ==
    /\ At(t, "releaseWeak")
    /\ weak' = [weak EXCEPT ![target[t]] = @ - 1]
    /\ Goto(t, IF weak[target[t]] = 1 THEN "freeControl" ELSE "loadWeak")
    /\ UNCHANGED <<strong, alive, pointer, object, control, localVars>>

\* Likewise for the weak count: the block may be freed by now.
LoadWeak(t) ==
    /\ At(t, "loadWeak")
    /\ Goto(t, "idle")
    /\ UNCHANGED <<blockVars, localVars>>

FreeControl(t) ==
    /\ At(t, "freeControl")
    /\ control' = [control EXCEPT ![target[t]] = "freed"]
    /\ Goto(t, "idle")
    /\ UNCHANGED <<strong, weak, alive, pointer, object, localVars>>

\* w = strong: a temporary counts itself, then the old reference is released.
WeakAssign(t, s) ==
    /\ At(t, "idle") /\ sp[t][s] # None
    /\ weak' = Added(weak, sp[t][s])
    /\ wp' = [wp EXCEPT ![t] = sp[t][s]]
    /\ Drop(t, "releaseWeak", wp[t])
    /\ UNCHANGED <<strong, alive, pointer, object, control, sp, raw, seen>>

\* Copying a weak pointer into another thread's empty one.
WeakCopyTo(t, u) ==
    /\ At(t, "idle") /\ At(u, "idle") /\ wp[t] # None /\ wp[u] = None
    /\ weak' = Added(weak, wp[t])
    /\ wp' = [wp EXCEPT ![u] = wp[t]]
    /\ UNCHANGED <<strong, alive, pointer, object, control, sp, raw, seen,
                   pc, target>>

WeakReset(t) ==
    /\ At(t, "idle") /\ wp[t] # None
    /\ wp' = [wp EXCEPT ![t] = None]
    /\ Drop(t, "releaseWeak", wp[t])
    /\ UNCHANGED <<blockVars, sp, raw, seen>>

\* lock() into an empty strong pointer of the thread.
Lock(t) ==
    /\ At(t, "idle") /\ wp[t] # None /\ \E d \in Slot : sp[t][d] = None
    /\ Drop(t, "lockAlive", wp[t])
    /\ UNCHANGED <<blockVars, localVars>>

LockAlive(t) ==
    /\ At(t, "lockAlive")
    /\ Goto(t, IF alive[target[t]] THEN "lockLoad" ELSE "idle")
    /\ UNCHANGED <<blockVars, localVars>>

\* What the loop of TryIncStrongFromWeak does with a count it has just read.
Retry(t) ==
    /\ seen' = [seen EXCEPT ![t] = strong[target[t]]]
    /\ Goto(t, IF strong[target[t]] # 0 THEN "lockCas" ELSE "idle")

LockLoad(t) ==
    /\ At(t, "lockLoad")
    /\ Retry(t)
    /\ UNCHANGED <<blockVars, sp, wp, raw>>

\* (mutant of LockCas: a plain store instead of compare-and-exchange)
LockCasBlind(t) ==
    /\ At(t, "lockCas")
    /\ strong' = [strong EXCEPT ![target[t]] = seen[t] + 1]
    /\ seen' = [seen EXCEPT ![t] = 0]
    /\ Goto(t, "lockPointer")
    /\ UNCHANGED <<weak, alive, pointer, object, control, sp, wp, raw>>


LockCas(t) ==
    /\ At(t, "lockCas")
    /\ \/ /\ strong[target[t]] = seen[t]
          /\ strong' = [strong EXCEPT ![target[t]] = seen[t] + 1]
          /\ seen' = [seen EXCEPT ![t] = 0]
          /\ Goto(t, "lockPointer")
       \/ /\ strong[target[t]] # seen[t]
          /\ Retry(t)
          /\ UNCHANGED strong
    /\ UNCHANGED <<weak, alive, pointer, object, control, sp, wp, raw>>

\* A null object_ptr takes the count back without destroying anything.
LockPointer(t) ==
    /\ At(t, "lockPointer")
    /\ IF pointer[target[t]]
       THEN /\ \E d \in Slot :
                    /\ sp[t][d] = None
                    /\ sp' = [sp EXCEPT ![t][d] = target[t]]
            /\ UNCHANGED strong
       ELSE /\ strong' = [strong EXCEPT ![target[t]] = @ - 1]
            /\ UNCHANGED sp
    /\ Goto(t, "idle")
    /\ UNCHANGED <<weak, alive, pointer, object, control, wp, raw, seen>>

\* expired(), for a weak pointer that is not null.
Expired(o) == ~alive[o] \/ strong[o] = 0

-----------------------------------------------------------------------------
Call(t) ==
    \/ \E d \in Slot : Reset(t, d) \/ Detach(t, d) \/ Attach(t, d)
                       \/ WeakAssign(t, d)
    \/ \E d \in Slot, o \in Object : Create(t, d, o)
    \/ \E d, s \in Slot : CopyAssign(t, d, s) \/ MoveAssign(t, d, s)
    \/ \E u \in Thread, s, d \in Slot : CopyTo(t, s, u, d)
    \/ \E u \in Thread : WeakCopyTo(t, u)
    \/ WeakReset(t) \/ Lock(t)

Step(t) ==
    \/ Decrement(t) \/ LoadStrong(t)
    \/ MarkDead(t) \/ ClearPointer(t) \/ Destroy(t)
    \/ ReleaseWeak(t) \/ LoadWeak(t) \/ FreeControl(t)
    \/ LockAlive(t) \/ LockLoad(t) \/ LockCas(t) \/ LockPointer(t)

Next ==
    \E t \in Thread :
        \/ (Call(t) \/ Step(t)) /\ UNCHANGED dropped
        \/ \E d \in Slot : AttachSame(t, d)

Spec == Init /\ [][Next]_vars
=============================================================================
