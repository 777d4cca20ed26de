---------------------------- MODULE DescriptorHeap ----------------------------
(***************************************************************************)
(* A StaticDescriptorHeap and those who own a range of it: the descriptor  *)
(* tables of the Device, which are resized and written slot by slot, and   *)
(* the binding sets, which are filled once.                                *)
(*                                                                         *)
(* The heap is a first-fit allocator that searches upwards from            *)
(* m_searchStart and doubles when nothing fits; its contents live twice,   *)
(* in a heap the CPU writes and in one the shaders read.  A call of the    *)
(* Device is one step.                                                     *)
(***************************************************************************)
EXTENDS Integers, FiniteSets

CONSTANTS
    Table,        \* DescriptorTable objects
    BindingSet,   \* BindingSet objects
    InitialSize,  \* descriptors the heap is created with
    PowersOfTwo,  \* sizes the heap can grow to; the largest bounds the exploration
    MaxCapacity,  \* bound of the capacity of a table
    None          \* a descriptor nobody has written

Owner == Table \cup BindingSet

ASSUME SizesAssumption ==
    /\ InitialSize \in Nat /\ MaxCapacity \in Nat
    /\ PowersOfTwo \subseteq Nat

ASSUME OwnersAssumption == Table \cap BindingSet = {}

VARIABLES
    size,          \* m_numDescriptors
    allocated,     \* the indices i with m_allocatedDescriptors[i]
    searchStart,   \* m_searchStart
    number,        \* m_numAllocatedDescriptors
    cpu, gpu,      \* what m_heap and m_shaderVisibleHeap hold
    owner,         \* [Owner -> firstDescriptor and capacity]
    written        \* [Owner -> slots written since their contents were last lost]

vars == <<size, allocated, searchStart, number, cpu, gpu, owner, written>>

Gone == [alive |-> FALSE, first |-> 0, capacity |-> 0]
Slots(first, count) == first .. (first + count - 1)
Owned(o) == Slots(owner[o].first, owner[o].capacity)

-----------------------------------------------------------------------------
(* The heap.                                                               *)

IsNextPowerOf2(new, required) ==
    new >= required /\ \A p \in PowersOfTwo : p >= required => new <= p

\* Where `count' descriptors are found if `taken' is allocated and the search
\* begins at `start'.
\* (mutant of Fits: the last descriptor of the range is not looked at)
FitsShort(count, taken, start) ==
    {i \in start .. (size - count) : Slots(i, count - 1) \cap taken = {}}
Fits(count, taken, start) ==
    {i \in start .. (size - count) : Slots(i, count) \cap taken = {}}

\* AllocateDescriptors finds `first', behind the old end if the heap must grow.
AllocateDescriptors(count, taken, start, first) ==
    LET fits == Fits(count, taken, start)
    IN  \/ /\ first \in fits /\ \A i \in fits : first <= i
           /\ size' = size
        \/ /\ fits = {} /\ first = size
           /\ size' \in PowersOfTwo /\ IsNextPowerOf2(size', size + count)

\* The search begins again at what is released, if that is lower.
Lowered(start, first, count) == IF count > 0 /\ first < start THEN first ELSE start

\* Grow copies what the CPU has written into both new heaps.
Grown(heap) ==
    [i \in 0 .. (size' - 1) |->
        IF size' = size THEN heap[i] ELSE IF i < size THEN cpu[i] ELSE None]

-----------------------------------------------------------------------------
(* Descriptor tables.  The descriptor written into a slot is named after   *)
(* its table and the slot.                                                 *)

CreateDescriptorTable(t) ==
    /\ ~owner[t].alive
    /\ owner' = [owner EXCEPT ![t] = [Gone EXCEPT !.alive = TRUE]]
    /\ UNCHANGED <<size, allocated, searchStart, number, cpu, gpu, written>>

Shrink(t, capacity) ==
    LET first == owner[t].first
        left == owner[t].capacity - capacity
    IN  /\ owner[t].alive /\ capacity < owner[t].capacity
        /\ allocated' = allocated \ Slots(first + capacity, left)
        /\ number' = number - left
        /\ searchStart' = Lowered(searchStart, first + capacity, left)
        /\ owner' = [owner EXCEPT ![t].capacity = capacity]
        /\ written' = [written EXCEPT ![t] = {s \in @ : s < capacity}]
        /\ UNCHANGED <<size, cpu, gpu>>

\* A larger table moves: its new range is found before the old one is released,
\* and what it contained is copied from the heap the CPU writes to both.
\* (mutant of Moved: the copy for the shaders is forgotten)
MovedNot(heap, t, first) == heap
Moved(heap, t, first) ==
    [i \in DOMAIN heap |->
        IF i \in Slots(first, owner[t].capacity)
        THEN Grown(cpu)[owner[t].first + (i - first)] ELSE heap[i]]

EnlargeKeeping(t, capacity) ==
    LET old == owner[t]
    IN  /\ old.alive /\ capacity > old.capacity
        /\ \E first \in 0 .. size :
             /\ AllocateDescriptors(capacity, allocated, searchStart, first)
             /\ allocated' = (allocated \cup Slots(first, capacity)) \ Owned(t)
             /\ searchStart' = Lowered(first + capacity, old.first, old.capacity)
             /\ owner' = [owner EXCEPT ![t] = [@ EXCEPT !.first = first, !.capacity = capacity]]
             /\ cpu' = Moved(Grown(cpu), t, first)
             /\ gpu' = Moved(Grown(gpu), t, first)
        /\ number' = number + capacity - old.capacity
        /\ UNCHANGED written

\* Without its contents, the old range is released first.
EnlargeDropping(t, capacity) ==
    LET old == owner[t]
        left == allocated \ Owned(t)
    IN  /\ old.alive /\ capacity > old.capacity
        /\ \E first \in 0 .. size :
             /\ AllocateDescriptors(capacity, left, Lowered(searchStart, old.first, old.capacity), first)
             /\ allocated' = left \cup Slots(first, capacity)
             /\ searchStart' = first + capacity
             /\ owner' = [owner EXCEPT ![t] = [@ EXCEPT !.first = first, !.capacity = capacity]]
        /\ cpu' = Grown(cpu) /\ gpu' = Grown(gpu)
        /\ number' = number + capacity - old.capacity
        /\ written' = [written EXCEPT ![t] = {}]

\* ResizeDescriptorTable; with an equal capacity it does nothing.
ResizeDescriptorTable(t, capacity) ==
    Shrink(t, capacity) \/ EnlargeKeeping(t, capacity) \/ EnlargeDropping(t, capacity)

WriteDescriptorTable(t, slot) ==
    LET index == owner[t].first + slot
    IN  /\ owner[t].alive /\ slot < owner[t].capacity
        /\ cpu' = [cpu EXCEPT ![index] = <<t, slot>>]
        /\ gpu' = [gpu EXCEPT ![index] = <<t, slot>>]
        /\ written' = [written EXCEPT ![t] = @ \cup {slot}]
        /\ UNCHANGED <<size, allocated, searchStart, number, owner>>

-----------------------------------------------------------------------------
(* Binding sets, and the end of either.                                    *)

Filled(heap, s, first, count) ==
    [i \in DOMAIN heap |-> IF i \in Slots(first, count) THEN <<s, i - first>> ELSE heap[i]]

\* CreateDescriptors writes every slot and copies the range for the shaders.
CreateBindingSet(s, count) ==
    /\ ~owner[s].alive /\ count > 0
    /\ \E first \in 0 .. size :
         /\ AllocateDescriptors(count, allocated, searchStart, first)
         /\ allocated' = allocated \cup Slots(first, count)
         /\ searchStart' = first + count
         /\ owner' = [owner EXCEPT ![s] = [alive |-> TRUE, first |-> first, capacity |-> count]]
         /\ cpu' = Filled(Grown(cpu), s, first, count)
         /\ gpu' = Filled(Grown(gpu), s, first, count)
    /\ number' = number + count
    /\ written' = [written EXCEPT ![s] = Slots(0, count)]

\* ~DescriptorTable and ~BindingSet release the range.
Destroy(o) ==
    /\ owner[o].alive
    /\ allocated' = allocated \ Owned(o)
    /\ number' = number - owner[o].capacity
    /\ searchStart' = Lowered(searchStart, owner[o].first, owner[o].capacity)
    /\ owner' = [owner EXCEPT ![o] = Gone]
    /\ written' = [written EXCEPT ![o] = {}]
    /\ UNCHANGED <<size, cpu, gpu>>

Init ==
    /\ size = InitialSize /\ allocated = {} /\ searchStart = 0 /\ number = 0
    /\ cpu = [i \in 0 .. (InitialSize - 1) |-> None]
    /\ gpu = [i \in 0 .. (InitialSize - 1) |-> None]
    /\ owner = [o \in Owner |-> Gone]
    /\ written = [o \in Owner |-> {}]

Next ==
    \/ \E t \in Table :
         \/ CreateDescriptorTable(t)
         \/ \E capacity \in 0 .. MaxCapacity : ResizeDescriptorTable(t, capacity)
         \/ \E slot \in 0 .. (MaxCapacity - 1) : WriteDescriptorTable(t, slot)
    \/ \E s \in BindingSet, count \in 1 .. MaxCapacity : CreateBindingSet(s, count)
    \/ \E o \in Owner : Destroy(o)

Spec == Init /\ [][Next]_vars

-----------------------------------------------------------------------------
(* What the owners of descriptors rely on.                                 *)

\* Type and range of the variables.
HeapTypeOK ==
    /\ size \in Nat /\ searchStart \in 0 .. size
    /\ allocated \subseteq 0 .. (size - 1)
    /\ number \in Int
    /\ DOMAIN cpu = 0 .. (size - 1) /\ DOMAIN gpu = 0 .. (size - 1)
    /\ owner \in [Owner -> [alive : BOOLEAN, first : Nat, capacity : Nat]]
    /\ written \in [Owner -> SUBSET Nat]

\* An object that does not exist owns no descriptors.
DeadOwnNothing == \A o \in Owner : ~owner[o].alive => owner[o] = Gone

\* No descriptor belongs to two owners, and the heap considers allocated
\* exactly what somebody owns: nothing is handed out twice, nothing is lost,
\* through every move, growth, shrinking and release.
DescriptorsOwned ==
    /\ \A o, p \in Owner : o # p => Owned(o) \cap Owned(p) = {}
    /\ allocated = UNION {Owned(o) : o \in Owner}

\* What has been written into a slot is what the shaders see there, although
\* the table has moved and the heap has been replaced in between.
ContentsKept ==
    \A o \in Owner : \A s \in written[o] :
        /\ cpu[owner[o].first + s] = <<o, s>>
        /\ gpu[owner[o].first + s] = <<o, s>>
=============================================================================
