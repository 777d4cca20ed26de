-------------------------- MODULE DescriptorHeapProofs --------------------------
(***************************************************************************)
(* No descriptor ever has two owners, and what an owner has written stays  *)
(* visible to the shaders, for any number of tables, binding sets and      *)
(* capacities.                                                             *)
(***************************************************************************)
EXTENDS DescriptorHeap, TLAPS

\* The inductive invariant: an allocation is disjoint from what others own
\* because all of that is marked in `allocated'.
HeapInv == HeapTypeOK /\ DeadOwnNothing /\ DescriptorsOwned

-----------------------------------------------------------------------------
(* What an allocation finds, and what a change of one range preserves.     *)

\* AllocateDescriptors returns a range inside the heap, grown if need be, no
\* index of which is taken.
LEMMA AllocationIsFree ==
    ASSUME size \in Nat, NEW count \in Nat, NEW first \in 0 .. size,
           NEW taken \in SUBSET (0 .. (size - 1)), NEW start \in 0 .. size,
           AllocateDescriptors(count, taken, start, first)
    PROVE  /\ size' \in Nat /\ size <= size' /\ first + count <= size'
           /\ Slots(first, count) \cap taken = {}
<1>1. CASE first \in Fits(count, taken, start) /\ size' = size
  BY <1>1 DEF Fits
<1>2. CASE first = size /\ size' \in PowersOfTwo /\ IsNextPowerOf2(size', size + count)
  <2>1. size' \in Nat /\ size + count <= size'
    BY <1>2, SizesAssumption DEF IsNextPowerOf2
  <2>2. Slots(first, count) \cap taken = {}
    BY <1>2 DEF Slots
  <2> QED
    BY <1>2, <2>1, <2>2
<1> QED
  BY <1>1, <1>2 DEF AllocateDescriptors

\* The search position stays inside the heap when a range is released.
LEMMA LoweredInRange ==
    ASSUME NEW top \in Nat, NEW start \in 0 .. top, NEW first \in Nat, NEW count \in Nat
    PROVE  Lowered(start, first, count) \in 0 .. top
  BY DEF Lowered

\* If an owner's range is replaced by one that nobody else owns, and the bits
\* follow, the ranges stay disjoint and the bits exact.
LEMMA Reowned ==
    ASSUME DescriptorsOwned, owner \in [Owner -> [alive : BOOLEAN, first : Nat, capacity : Nat]],
           NEW o \in Owner, NEW r \in [alive : BOOLEAN, first : Nat, capacity : Nat],
           owner' = [owner EXCEPT ![o] = r],
           Slots(r.first, r.capacity) \cap (allocated \ Owned(o)) = {},
           allocated' = (allocated \ Owned(o)) \cup Slots(r.first, r.capacity)
    PROVE  DescriptorsOwned'
<1>1. Owned(o)' = Slots(r.first, r.capacity)
  BY DEF Owned
<1>2. ASSUME NEW p \in Owner, p # o
      PROVE  Owned(p)' = Owned(p) /\ Owned(p) \subseteq allocated \ Owned(o)
  <2>1. Owned(p)' = Owned(p)
    BY <1>2 DEF Owned
  <2>2. Owned(p) \subseteq allocated \ Owned(o)
    BY <1>2 DEF DescriptorsOwned
  <2> QED
    BY <2>1, <2>2
<1>3. ASSUME NEW p \in Owner, NEW q \in Owner, p # q
      PROVE  Owned(p)' \cap Owned(q)' = {}
  <2>1. CASE p = o
    BY <1>1, <1>2, <1>3, <2>1
  <2>2. CASE q = o
    BY <1>1, <1>2, <1>3, <2>2
  <2>3. CASE p # o /\ q # o
    BY <1>2, <1>3, <2>3 DEF DescriptorsOwned
  <2> QED
    BY <2>1, <2>2, <2>3
<1>4. allocated' = UNION {Owned(p)' : p \in Owner}
  <2>1. allocated \ Owned(o) = UNION {Owned(p) : p \in Owner \ {o}}
    BY DEF DescriptorsOwned
  <2>2. UNION {Owned(p)' : p \in Owner} = Owned(o)' \cup UNION {Owned(p) : p \in Owner \ {o}}
    BY <1>2
  <2> QED
    BY <1>1, <2>1, <2>2
<1> QED
  BY <1>3, <1>4 DEF DescriptorsOwned

\* What an owner has is allocated, and lies inside the heap.
LEMMA OwnedInside ==
    ASSUME HeapInv, NEW o \in Owner
    PROVE  /\ owner[o] \in [alive : BOOLEAN, first : Nat, capacity : Nat]
           /\ Owned(o) \subseteq allocated /\ allocated \subseteq 0 .. (size - 1)
           /\ owner[o].capacity > 0 => owner[o].first + owner[o].capacity <= size
<1>1. owner[o] \in [alive : BOOLEAN, first : Nat, capacity : Nat]
  BY DEF HeapInv, HeapTypeOK
<1>2. Owned(o) \subseteq allocated /\ allocated \subseteq 0 .. (size - 1)
  BY DEF HeapInv, HeapTypeOK, DescriptorsOwned
<1>3. owner[o].capacity > 0 => owner[o].first + owner[o].capacity - 1 \in Owned(o)
  BY <1>1 DEF Owned, Slots
<1> QED
  BY <1>1, <1>2, <1>3 DEF HeapInv, HeapTypeOK

\* Indices of a heap are indices of every larger one.
LEMMA RangeGrows ==
    ASSUME NEW old \in Nat, NEW new \in Nat, old <= new
    PROVE  /\ 0 .. (old - 1) \subseteq 0 .. (new - 1)
           /\ \A i \in 0 .. (old - 1) : i < old
  OBVIOUS

\* Slot s of a range of the heap.
LEMMA SlotInside ==
    ASSUME NEW first \in Nat, NEW s \in Nat, NEW count \in Nat, s < count,
           NEW top \in Nat, first + count <= top
    PROVE  /\ first + s \in Slots(first, count) /\ first + s \in 0 .. (top - 1)
           /\ (first + s) - first = s
  BY DEF Slots

\* A step gives owner o the record r, marks exactly that, and keeps the other
\* variables in range.
Reassigned(o, r) ==
    /\ r \in [alive : BOOLEAN, first : Nat, capacity : Nat] /\ (~r.alive => r = Gone)
    /\ owner' = [owner EXCEPT ![o] = r]
    /\ Slots(r.first, r.capacity) \cap (allocated \ Owned(o)) = {}
    /\ allocated' = (allocated \ Owned(o)) \cup Slots(r.first, r.capacity)
    /\ size' \in Nat /\ size <= size' /\ (r.capacity > 0 => r.first + r.capacity <= size')
    /\ searchStart' \in 0 .. size' /\ number' \in Int
    /\ DOMAIN cpu' = 0 .. (size' - 1) /\ DOMAIN gpu' = 0 .. (size' - 1)
    /\ written' \in [Owner -> SUBSET Nat]

\* Such a step keeps the invariant.
LEMMA ReassignedKeeps ==
    ASSUME HeapInv, NEW o \in Owner, NEW r, Reassigned(o, r)
    PROVE  HeapInv'
<1>1. DescriptorsOwned'
  BY Reowned DEF Reassigned, HeapInv, HeapTypeOK
<1>2. owner' \in [Owner -> [alive : BOOLEAN, first : Nat, capacity : Nat]]
  BY DEF Reassigned, HeapInv, HeapTypeOK
<1>3. DeadOwnNothing'
  BY DEF Reassigned, HeapInv, HeapTypeOK, DeadOwnNothing
<1>4. Slots(r.first, r.capacity) \subseteq 0 .. (size' - 1)
  BY DEF Reassigned, Slots
<1>5. allocated' \subseteq 0 .. (size' - 1)
  <2>1. size \in Nat /\ size' \in Nat /\ size <= size' /\ allocated \subseteq 0 .. (size - 1)
    BY DEF Reassigned, HeapInv, HeapTypeOK
  <2>2. allocated \subseteq 0 .. (size' - 1)
    BY <2>1, RangeGrows
  <2>3. allocated' \subseteq allocated \cup Slots(r.first, r.capacity)
    BY DEF Reassigned
  <2> QED
    BY <1>4, <2>2, <2>3
<1> QED
  BY <1>1, <1>2, <1>3, <1>5 DEF Reassigned, HeapInv, HeapTypeOK

\* The heap the CPU writes and its copy for the shaders cover the grown heap.
LEMMA GrownCovers ==
    ASSUME NEW heap
    PROVE  /\ DOMAIN Grown(heap) = 0 .. (size' - 1)
           /\ \A t, first : DOMAIN Moved(Grown(heap), t, first) = 0 .. (size' - 1)
           /\ \A s, first, count : DOMAIN Filled(Grown(heap), s, first, count) = 0 .. (size' - 1)
  BY DEF Grown, Moved, Filled

-----------------------------------------------------------------------------
(* The operations.                                                         *)

\* A new table has no descriptors.
LEMMA CreateDescriptorTableKeeps ==
    ASSUME HeapInv, NEW t \in Table, CreateDescriptorTable(t)
    PROVE  HeapInv'
<1> DEFINE r == [Gone EXCEPT !.alive = TRUE]
<1>1. owner[t] = Gone /\ t \in Owner
  BY DEF CreateDescriptorTable, HeapInv, DeadOwnNothing, Owner
<1>2. Owned(t) = {} /\ Slots(r.first, r.capacity) = {}
  BY <1>1 DEF Owned, Slots, Gone
<1>3. r \in [alive : BOOLEAN, first : Nat, capacity : Nat] /\ r.alive /\ r.capacity = 0
  BY DEF Gone
<1>4. owner' = [owner EXCEPT ![t] = r]
  BY DEF CreateDescriptorTable
<1>5. /\ size' = size /\ allocated' = allocated /\ searchStart' = searchStart
      /\ number' = number /\ cpu' = cpu /\ gpu' = gpu /\ written' = written
  BY DEF CreateDescriptorTable
<1>6. /\ size \in Nat /\ searchStart \in 0 .. size /\ number \in Int
      /\ DOMAIN cpu = 0 .. (size - 1) /\ DOMAIN gpu = 0 .. (size - 1)
      /\ written \in [Owner -> SUBSET Nat]
  BY DEF HeapInv, HeapTypeOK
<1> HIDE DEF r
<1>7. /\ Slots(r.first, r.capacity) \cap (allocated \ Owned(t)) = {}
      /\ allocated' = (allocated \ Owned(t)) \cup Slots(r.first, r.capacity)
  BY <1>2, <1>5
<1>8. Reassigned(t, r)
  BY <1>1, <1>3, <1>4, <1>5, <1>6, <1>7 DEF Reassigned
<1> QED
  BY <1>8, ReassignedKeeps DEF Owner

\* What a smaller table gives up is the upper end of its own range.
LEMMA ShrinkKeeps ==
    ASSUME HeapInv, NEW t \in Table, NEW capacity \in Nat, Shrink(t, capacity)
    PROVE  HeapInv'
<1> DEFINE r == [owner[t] EXCEPT !.capacity = capacity]
           left == owner[t].capacity - capacity
<1>1. t \in Owner /\ owner[t] \in [alive : BOOLEAN, first : Nat, capacity : Nat] /\ owner[t].alive
  BY OwnedInside DEF Owner, Shrink
<1>2. /\ r \in [alive : BOOLEAN, first : Nat, capacity : Nat]
      /\ r.alive /\ r.first = owner[t].first /\ r.capacity = capacity
  BY <1>1
<1>3. left \in Nat /\ capacity < owner[t].capacity
  BY <1>1 DEF Shrink
<1>4. /\ Slots(r.first, r.capacity) \subseteq Owned(t)
      /\ Owned(t) \ Slots(owner[t].first + capacity, left) = Slots(r.first, r.capacity)
      /\ Slots(owner[t].first + capacity, left) \subseteq Owned(t)
  BY <1>1, <1>2, <1>3 DEF Owned, Slots
<1>5. allocated' = (allocated \ Owned(t)) \cup Slots(r.first, r.capacity)
  <2>1. Owned(t) \subseteq allocated
    BY <1>1, OwnedInside
  <2>2. allocated' = allocated \ Slots(owner[t].first + capacity, left)
    BY DEF Shrink
  <2> QED
    BY <1>4, <2>1, <2>2
<1>6. r.first + r.capacity <= size
  <2>1. owner[t].capacity > 0
    BY <1>1, <1>3
  <2>2. owner[t].first + owner[t].capacity <= size
    BY <1>1, <2>1, OwnedInside
  <2> QED
    BY <1>1, <1>2, <1>3, <2>2 DEF HeapInv, HeapTypeOK
<1>7. searchStart' \in 0 .. size
  <2>1. owner[t].first + capacity \in Nat /\ size \in Nat /\ searchStart \in 0 .. size
    BY <1>1 DEF HeapInv, HeapTypeOK
  <2>2. searchStart' = Lowered(searchStart, owner[t].first + capacity, left)
    BY DEF Shrink
  <2> QED
    BY <1>3, <2>1, <2>2, LoweredInRange
<1>8. number' \in Int
  BY <1>3 DEF Shrink, HeapInv, HeapTypeOK
<1>9. written' \in [Owner -> SUBSET Nat]
  BY DEF Shrink, HeapInv, HeapTypeOK
<1>10. owner' = [owner EXCEPT ![t] = r]
  BY <1>1 DEF Shrink, HeapInv, HeapTypeOK
<1>11. Slots(r.first, r.capacity) \cap (allocated \ Owned(t)) = {}
  BY <1>4
<1>12. /\ size' = size /\ cpu' = cpu /\ gpu' = gpu /\ size \in Nat
       /\ DOMAIN cpu = 0 .. (size - 1) /\ DOMAIN gpu = 0 .. (size - 1)
  BY DEF Shrink, HeapInv, HeapTypeOK
<1> HIDE DEF r, left
<1>13. Reassigned(t, r)
  BY <1>1, <1>2, <1>5, <1>6, <1>7, <1>8, <1>9, <1>10, <1>11, <1>12 DEF Reassigned
<1> QED
  BY <1>13, ReassignedKeeps DEF Owner

\* The new range is found while the old one is still marked, so it overlaps
\* nobody's.
LEMMA EnlargeKeepingKeeps ==
    ASSUME HeapInv, NEW t \in Table, NEW capacity \in Nat, EnlargeKeeping(t, capacity)
    PROVE  HeapInv'
<1>1. PICK first \in 0 .. size :
        /\ AllocateDescriptors(capacity, allocated, searchStart, first)
        /\ allocated' = (allocated \cup Slots(first, capacity)) \ Owned(t)
        /\ searchStart' = Lowered(first + capacity, owner[t].first, owner[t].capacity)
        /\ owner' = [owner EXCEPT ![t] = [@ EXCEPT !.first = first, !.capacity = capacity]]
        /\ cpu' = Moved(Grown(cpu), t, first)
        /\ gpu' = Moved(Grown(gpu), t, first)
  BY DEF EnlargeKeeping
<1> DEFINE r == [owner[t] EXCEPT !.first = first, !.capacity = capacity]
<1>2. t \in Owner /\ owner[t] \in [alive : BOOLEAN, first : Nat, capacity : Nat] /\ owner[t].alive
  BY OwnedInside DEF Owner, EnlargeKeeping
<1>3. /\ r \in [alive : BOOLEAN, first : Nat, capacity : Nat]
      /\ r.alive /\ r.first = first /\ r.capacity = capacity
  <2>1. first \in Nat
    BY DEF HeapInv, HeapTypeOK
  <2> QED
    BY <1>2, <2>1
<1>4. /\ size' \in Nat /\ size <= size' /\ first + capacity <= size'
      /\ Slots(first, capacity) \cap allocated = {}
  BY <1>1, AllocationIsFree DEF HeapInv, HeapTypeOK
<1>5. owner' = [owner EXCEPT ![t] = r]
  BY <1>1, <1>2 DEF HeapInv, HeapTypeOK
<1>6. /\ Slots(r.first, r.capacity) \cap (allocated \ Owned(t)) = {}
      /\ allocated' = (allocated \ Owned(t)) \cup Slots(r.first, r.capacity)
  <2>1. Owned(t) \subseteq allocated
    BY <1>2, OwnedInside
  <2> QED
    BY <1>1, <1>3, <1>4, <2>1
<1>7. searchStart' \in 0 .. size'
  <2>1. first + capacity \in 0 .. size'
    BY <1>4
  <2> QED
    BY <1>1, <1>2, <1>4, <2>1, LoweredInRange
<1>8. number' \in Int /\ written' \in [Owner -> SUBSET Nat]
  BY <1>2 DEF EnlargeKeeping, HeapInv, HeapTypeOK
<1>9. DOMAIN cpu' = 0 .. (size' - 1) /\ DOMAIN gpu' = 0 .. (size' - 1)
  BY <1>1, GrownCovers
<1> HIDE DEF r
<1>10. Reassigned(t, r)
  BY <1>2, <1>3, <1>4, <1>5, <1>6, <1>7, <1>8, <1>9 DEF Reassigned
<1> QED
  BY <1>10, ReassignedKeeps DEF Owner

\* The old range is released first; the new one may overlap it, but nobody
\* else's.
LEMMA EnlargeDroppingKeeps ==
    ASSUME HeapInv, NEW t \in Table, NEW capacity \in Nat, EnlargeDropping(t, capacity)
    PROVE  HeapInv'
<1> DEFINE left == allocated \ Owned(t)
           start == Lowered(searchStart, owner[t].first, owner[t].capacity)
<1>1. PICK first \in 0 .. size :
        /\ AllocateDescriptors(capacity, left, start, first)
        /\ allocated' = left \cup Slots(first, capacity)
        /\ searchStart' = first + capacity
        /\ owner' = [owner EXCEPT ![t] = [@ EXCEPT !.first = first, !.capacity = capacity]]
  BY DEF EnlargeDropping
<1> DEFINE r == [owner[t] EXCEPT !.first = first, !.capacity = capacity]
<1>2. t \in Owner /\ owner[t] \in [alive : BOOLEAN, first : Nat, capacity : Nat] /\ owner[t].alive
  BY OwnedInside DEF Owner, EnlargeDropping
<1>3. /\ r \in [alive : BOOLEAN, first : Nat, capacity : Nat]
      /\ r.alive /\ r.first = first /\ r.capacity = capacity
  <2>1. first \in Nat
    BY DEF HeapInv, HeapTypeOK
  <2> QED
    BY <1>2, <2>1
<1>4. start \in 0 .. size
  BY <1>2, LoweredInRange DEF HeapInv, HeapTypeOK
<1>5. /\ size' \in Nat /\ size <= size' /\ first + capacity <= size'
      /\ Slots(first, capacity) \cap left = {}
  <2>1. left \in SUBSET (0 .. (size - 1)) /\ size \in Nat
    BY DEF HeapInv, HeapTypeOK
  <2> HIDE DEF left, start
  <2> QED
    BY <1>1, <1>4, <2>1, AllocationIsFree
<1>6. owner' = [owner EXCEPT ![t] = r]
  BY <1>1, <1>2 DEF HeapInv, HeapTypeOK
<1>7. /\ Slots(r.first, r.capacity) \cap (allocated \ Owned(t)) = {}
      /\ allocated' = (allocated \ Owned(t)) \cup Slots(r.first, r.capacity)
  BY <1>1, <1>3, <1>5
<1>8. searchStart' \in 0 .. size'
  BY <1>1, <1>5
<1>9. number' \in Int /\ written' \in [Owner -> SUBSET Nat]
  BY <1>2 DEF EnlargeDropping, HeapInv, HeapTypeOK
<1>10. DOMAIN cpu' = 0 .. (size' - 1) /\ DOMAIN gpu' = 0 .. (size' - 1)
  BY GrownCovers DEF EnlargeDropping
<1> HIDE DEF r, left, start
<1>11. Reassigned(t, r)
  BY <1>2, <1>3, <1>5, <1>6, <1>7, <1>8, <1>9, <1>10 DEF Reassigned
<1> QED
  BY <1>11, ReassignedKeeps DEF Owner

\* A write changes no range.
LEMMA WriteDescriptorTableKeeps ==
    ASSUME HeapInv, NEW t \in Table, NEW slot \in Nat, WriteDescriptorTable(t, slot)
    PROVE  HeapInv'
<1>1. HeapTypeOK'
  BY DEF WriteDescriptorTable, HeapInv, HeapTypeOK
<1>2. DeadOwnNothing' /\ DescriptorsOwned'
  BY DEF WriteDescriptorTable, HeapInv, DeadOwnNothing, DescriptorsOwned, Owned
<1> QED
  BY <1>1, <1>2 DEF HeapInv

\* The range of a binding set is nobody else's.
LEMMA CreateBindingSetKeeps ==
    ASSUME HeapInv, NEW s \in BindingSet, NEW count \in Nat, CreateBindingSet(s, count)
    PROVE  HeapInv'
<1>1. PICK first \in 0 .. size :
        /\ AllocateDescriptors(count, allocated, searchStart, first)
        /\ allocated' = allocated \cup Slots(first, count)
        /\ searchStart' = first + count
        /\ owner' = [owner EXCEPT ![s] = [alive |-> TRUE, first |-> first, capacity |-> count]]
        /\ cpu' = Filled(Grown(cpu), s, first, count)
        /\ gpu' = Filled(Grown(gpu), s, first, count)
  BY DEF CreateBindingSet
<1> DEFINE r == [alive |-> TRUE, first |-> first, capacity |-> count]
<1>2. s \in Owner /\ Owned(s) = {}
  BY DEF CreateBindingSet, HeapInv, DeadOwnNothing, Owner, Owned, Slots, Gone
<1>3. /\ r \in [alive : BOOLEAN, first : Nat, capacity : Nat]
      /\ r.alive /\ r.first = first /\ r.capacity = count
  BY DEF HeapInv, HeapTypeOK
<1>4. /\ size' \in Nat /\ size <= size' /\ first + count <= size'
      /\ Slots(first, count) \cap allocated = {}
  BY <1>1, AllocationIsFree DEF HeapInv, HeapTypeOK
<1>5. owner' = [owner EXCEPT ![s] = r]
  BY <1>1
<1>6. /\ Slots(r.first, r.capacity) \cap (allocated \ Owned(s)) = {}
      /\ allocated' = (allocated \ Owned(s)) \cup Slots(r.first, r.capacity)
  BY <1>1, <1>2, <1>3, <1>4
<1>7. searchStart' \in 0 .. size'
  BY <1>1, <1>4
<1>8. number' \in Int /\ written' \in [Owner -> SUBSET Nat]
  <2>1. Slots(0, count) \in SUBSET Nat
    BY DEF Slots
  <2>2. number' = number + count /\ number \in Int
    BY DEF CreateBindingSet, HeapInv, HeapTypeOK
  <2>3. written' = [written EXCEPT ![s] = Slots(0, count)] /\ written \in [Owner -> SUBSET Nat]
    BY DEF CreateBindingSet, HeapInv, HeapTypeOK
  <2>4. number' \in Int
    BY <2>2
  <2>5. written' \in [Owner -> SUBSET Nat]
    BY <2>1, <2>3
  <2> QED
    BY <2>4, <2>5
<1>9. DOMAIN cpu' = 0 .. (size' - 1) /\ DOMAIN gpu' = 0 .. (size' - 1)
  BY <1>1, GrownCovers
<1> HIDE DEF r
<1>10. Reassigned(s, r)
  BY <1>2, <1>3, <1>4, <1>5, <1>6, <1>7, <1>8, <1>9 DEF Reassigned
<1> QED
  BY <1>10, ReassignedKeeps DEF Owner

\* The range of what is destroyed is given back.
LEMMA DestroyKeeps ==
    ASSUME HeapInv, NEW o \in Owner, Destroy(o)
    PROVE  HeapInv'
<1>1. Gone \in [alive : BOOLEAN, first : Nat, capacity : Nat] /\ Slots(Gone.first, Gone.capacity) = {}
      /\ Gone.capacity = 0
  BY DEF Gone, Slots
<1>2. searchStart' \in 0 .. size
  <2>1. owner[o] \in [alive : BOOLEAN, first : Nat, capacity : Nat]
    BY OwnedInside
  <2> QED
    BY <2>1, LoweredInRange DEF Destroy, HeapInv, HeapTypeOK
<1>3. number' \in Int /\ written' \in [Owner -> SUBSET Nat]
  <2>1. owner[o] \in [alive : BOOLEAN, first : Nat, capacity : Nat]
    BY OwnedInside
  <2> QED
    BY <2>1 DEF Destroy, HeapInv, HeapTypeOK
<1>4. owner' = [owner EXCEPT ![o] = Gone] /\ allocated' = allocated \ Owned(o)
      /\ size' = size /\ cpu' = cpu /\ gpu' = gpu
  BY DEF Destroy
<1>5. /\ Slots(Gone.first, Gone.capacity) \cap (allocated \ Owned(o)) = {}
      /\ allocated' = (allocated \ Owned(o)) \cup Slots(Gone.first, Gone.capacity)
  BY <1>1, <1>4
<1>6. /\ size \in Nat /\ ~Gone.alive
      /\ DOMAIN cpu = 0 .. (size - 1) /\ DOMAIN gpu = 0 .. (size - 1)
  BY DEF HeapInv, HeapTypeOK, Gone
<1>7. Reassigned(o, Gone)
  BY <1>1, <1>2, <1>3, <1>4, <1>5, <1>6 DEF Reassigned
<1> QED
  BY <1>7, ReassignedKeeps

-----------------------------------------------------------------------------
(* The contents.                                                           *)

\* What has been written lies inside the range of its owner, in both heaps.
ContentsOf(o) ==
    \A s \in written[o] :
        /\ s \in Slots(0, owner[o].capacity)
        /\ cpu[owner[o].first + s] = <<o, s>>
        /\ gpu[owner[o].first + s] = <<o, s>>

ContentsInv == HeapInv /\ \A o \in Owner : ContentsOf(o)

\* Growing the heap keeps what the CPU has written; the copy for the shaders is
\* kept or made anew from that.
LEMMA GrownKeeps ==
    ASSUME HeapInv, size' \in Nat, size <= size', NEW i \in 0 .. (size - 1)
    PROVE  Grown(cpu)[i] = cpu[i] /\ Grown(gpu)[i] \in {cpu[i], gpu[i]}
<1>1. size \in Nat
  BY DEF HeapInv, HeapTypeOK
<1>2. i \in 0 .. (size' - 1) /\ i < size
  BY <1>1, RangeGrows
<1> QED
  BY <1>2 DEF Grown

\* The step changes the heaps at most where nobody but o owns a descriptor.
Spared(o) ==
    \A i \in allocated \ Owned(o) : cpu'[i] = cpu[i] /\ gpu'[i] \in {cpu[i], gpu[i]}

\* Then the contents of the others are kept.
LEMMA OthersKept ==
    ASSUME ContentsInv, NEW o \in Owner, Spared(o), NEW p \in Owner, p # o,
           owner'[p] = owner[p], written'[p] = written[p]
    PROVE  ContentsOf(p)'
<1> SUFFICES ASSUME NEW s \in written[p]
             PROVE  /\ s \in Slots(0, owner[p].capacity)
                    /\ cpu'[owner[p].first + s] = <<p, s>>
                    /\ gpu'[owner[p].first + s] = <<p, s>>
  BY DEF ContentsOf
<1> DEFINE i == owner[p].first + s
<1>1. /\ s \in Slots(0, owner[p].capacity)
      /\ cpu[i] = <<p, s>> /\ gpu[i] = <<p, s>>
  BY DEF ContentsInv, ContentsOf
<1>2. i \in allocated \ Owned(o)
  <2>1. i \in Owned(p)
    BY <1>1, OwnedInside DEF ContentsInv, Owned, Slots
  <2>2. Owned(p) \cap Owned(o) = {} /\ Owned(p) \subseteq allocated
    BY OwnedInside DEF ContentsInv, HeapInv, DescriptorsOwned
  <2> QED
    BY <2>1, <2>2
<1> QED
  BY <1>1, <1>2 DEF Spared

\* So a step that concerns o alone has to look after the contents of o.
LEMMA ContentsFollow ==
    ASSUME ContentsInv, NEW o \in Owner, HeapInv', Spared(o), ContentsOf(o)',
           \A p \in Owner : p # o => owner'[p] = owner[p] /\ written'[p] = written[p]
    PROVE  ContentsInv'
<1>1. ASSUME NEW p \in Owner
      PROVE  ContentsOf(p)'
  BY OthersKept
<1> QED
  BY <1>1 DEF ContentsInv

\* A new table has no descriptors.
LEMMA CreateDescriptorTableContents ==
    ASSUME ContentsInv, NEW t \in Table, CreateDescriptorTable(t)
    PROVE  ContentsInv'
<1>1. t \in Owner /\ HeapInv'
  BY CreateDescriptorTableKeeps DEF ContentsInv, Owner
<1>2. /\ \A p \in Owner : p # t => owner'[p] = owner[p] /\ written'[p] = written[p]
      /\ owner'[t].capacity = 0 /\ owner[t].capacity = 0
      /\ written'[t] = written[t] /\ cpu' = cpu /\ gpu' = gpu
  BY <1>1 DEF CreateDescriptorTable, ContentsInv, HeapInv, HeapTypeOK, DeadOwnNothing, Gone
<1>3. Spared(t)
  BY <1>2 DEF Spared
<1>4. written[t] = {}
  <2>1. Slots(0, owner[t].capacity) = {}
    BY <1>2 DEF Slots
  <2> QED
    BY <1>1, <2>1 DEF ContentsInv, ContentsOf
<1>5. ContentsOf(t)'
  BY <1>2, <1>4 DEF ContentsOf
<1> QED
  BY <1>1, <1>2, <1>3, <1>5, ContentsFollow

\* The slots that remain keep their place.
LEMMA ShrinkContents ==
    ASSUME ContentsInv, NEW t \in Table, NEW capacity \in Nat, Shrink(t, capacity)
    PROVE  ContentsInv'
<1>1. t \in Owner /\ HeapInv'
  BY ShrinkKeeps DEF ContentsInv, Owner
<1>2. /\ \A p \in Owner : p # t => owner'[p] = owner[p] /\ written'[p] = written[p]
      /\ owner'[t].capacity = capacity /\ owner'[t].first = owner[t].first
      /\ written'[t] = {s \in written[t] : s < capacity} /\ cpu' = cpu /\ gpu' = gpu
  BY <1>1 DEF Shrink, ContentsInv, HeapInv, HeapTypeOK
<1>3. Spared(t)
  BY <1>2 DEF Spared
<1>4. ContentsOf(t)'
  <2> SUFFICES ASSUME NEW s \in written[t], s < capacity
               PROVE  /\ s \in Slots(0, capacity)
                      /\ cpu[owner[t].first + s] = <<t, s>>
                      /\ gpu[owner[t].first + s] = <<t, s>>
    BY <1>2 DEF ContentsOf
  <2>1. /\ s \in Slots(0, owner[t].capacity) /\ cpu[owner[t].first + s] = <<t, s>>
        /\ gpu[owner[t].first + s] = <<t, s>>
    BY <1>1 DEF ContentsInv, ContentsOf
  <2>2. owner[t].capacity \in Nat
    BY <1>1, OwnedInside DEF ContentsInv
  <2> QED
    BY <2>1, <2>2 DEF Slots
<1> QED
  BY <1>1, <1>2, <1>3, <1>4, ContentsFollow

\* The range a table moves to is nobody's, and what it contained goes with it.
LEMMA EnlargeKeepingContents ==
    ASSUME ContentsInv, NEW t \in Table, NEW capacity \in Nat, EnlargeKeeping(t, capacity)
    PROVE  ContentsInv'
<1>1. PICK first \in 0 .. size :
        /\ AllocateDescriptors(capacity, allocated, searchStart, first)
        /\ owner' = [owner EXCEPT ![t] = [@ EXCEPT !.first = first, !.capacity = capacity]]
        /\ cpu' = Moved(Grown(cpu), t, first)
        /\ gpu' = Moved(Grown(gpu), t, first)
  BY DEF EnlargeKeeping
<1>2. /\ t \in Owner /\ HeapInv' /\ HeapInv
      /\ owner[t] \in [alive : BOOLEAN, first : Nat, capacity : Nat]
      /\ owner[t].capacity < capacity /\ first \in Nat
  <2>1. t \in Owner /\ HeapInv' /\ HeapInv
    BY EnlargeKeepingKeeps DEF ContentsInv, Owner
  <2>2. first \in Nat
    BY <2>1 DEF HeapInv, HeapTypeOK
  <2> QED
    BY <2>1, <2>2, OwnedInside DEF EnlargeKeeping
<1>3. /\ \A p \in Owner : p # t => owner'[p] = owner[p] /\ written'[p] = written[p]
      /\ owner'[t].capacity = capacity /\ owner'[t].first = first
      /\ written'[t] = written[t]
  BY <1>1, <1>2 DEF EnlargeKeeping, HeapInv, HeapTypeOK
<1>4. /\ size \in Nat /\ size' \in Nat /\ size <= size' /\ first + capacity <= size'
      /\ Slots(first, capacity) \cap allocated = {}
      /\ allocated \subseteq 0 .. (size - 1)
  BY <1>1, <1>2, AllocationIsFree DEF HeapInv, HeapTypeOK
<1>5. ASSUME NEW heap, NEW i \in 0 .. (size' - 1)
      PROVE  Moved(Grown(heap), t, first)[i] =
                IF i \in Slots(first, owner[t].capacity)
                THEN Grown(cpu)[owner[t].first + (i - first)] ELSE Grown(heap)[i]
  BY GrownCovers DEF Moved
<1>6. Spared(t)
  <2> SUFFICES ASSUME NEW i \in allocated
               PROVE  cpu'[i] = cpu[i] /\ gpu'[i] \in {cpu[i], gpu[i]}
    BY DEF Spared
  <2>1. i \in 0 .. (size - 1) /\ i \in 0 .. (size' - 1) /\ i \notin Slots(first, capacity)
    BY <1>4, RangeGrows
  <2>2. i \notin Slots(first, owner[t].capacity)
    BY <1>2, <2>1 DEF Slots
  <2>3. cpu'[i] = Grown(cpu)[i] /\ gpu'[i] = Grown(gpu)[i]
    BY <1>1, <1>5, <2>1, <2>2
  <2> QED
    BY <1>2, <1>4, <2>1, <2>3, GrownKeeps
<1>7. ContentsOf(t)'
  <2> SUFFICES ASSUME NEW s \in written[t]
               PROVE  /\ s \in Slots(0, capacity)
                      /\ cpu'[first + s] = <<t, s>> /\ gpu'[first + s] = <<t, s>>
    BY <1>3 DEF ContentsOf
  <2>1. s \in Slots(0, owner[t].capacity) /\ cpu[owner[t].first + s] = <<t, s>>
    BY <1>2 DEF ContentsInv, ContentsOf
  <2>2. s \in Nat /\ s < owner[t].capacity /\ s \in Slots(0, capacity)
    BY <1>2, <2>1 DEF Slots
  <2>3. /\ first + s \in Slots(first, owner[t].capacity)
        /\ first + s \in 0 .. (size' - 1)
        /\ (first + s) - first = s
    <3>1. owner[t].capacity \in Nat /\ first + owner[t].capacity <= size'
      BY <1>2, <1>4
    <3> QED
      BY <1>2, <1>4, <2>2, <3>1, SlotInside
  <2>4. owner[t].first + s \in 0 .. (size - 1)
    <3>1. owner[t].capacity > 0
      BY <1>2, <2>1 DEF Slots
    <3>2. owner[t].first + owner[t].capacity <= size
      BY <1>2, <3>1, OwnedInside
    <3> QED
      BY <1>2, <1>4, <2>1, <3>2 DEF Slots
  <2>5. Grown(cpu)[owner[t].first + s] = <<t, s>>
    BY <1>2, <1>4, <2>1, <2>4, GrownKeeps
  <2> QED
    BY <1>1, <1>5, <2>2, <2>3, <2>5
<1> QED
  BY <1>2, <1>3, <1>6, <1>7, ContentsFollow

\* Nothing is written any more when the contents are dropped.
LEMMA EnlargeDroppingContents ==
    ASSUME ContentsInv, NEW t \in Table, NEW capacity \in Nat, EnlargeDropping(t, capacity)
    PROVE  ContentsInv'
<1> DEFINE left == allocated \ Owned(t)
           start == Lowered(searchStart, owner[t].first, owner[t].capacity)
<1>1. PICK first \in 0 .. size :
        /\ AllocateDescriptors(capacity, left, start, first)
        /\ owner' = [owner EXCEPT ![t] = [@ EXCEPT !.first = first, !.capacity = capacity]]
  BY DEF EnlargeDropping
<1>2. /\ t \in Owner /\ HeapInv' /\ HeapInv
      /\ owner[t] \in [alive : BOOLEAN, first : Nat, capacity : Nat]
  BY EnlargeDroppingKeeps, OwnedInside DEF ContentsInv, Owner
<1>3. /\ \A p \in Owner : p # t => owner'[p] = owner[p] /\ written'[p] = written[p]
      /\ written'[t] = {} /\ cpu' = Grown(cpu) /\ gpu' = Grown(gpu)
  BY <1>1, <1>2 DEF EnlargeDropping, HeapInv, HeapTypeOK
<1>4. start \in 0 .. size
  BY <1>2, LoweredInRange DEF HeapInv, HeapTypeOK
<1>5. size' \in Nat /\ size <= size' /\ allocated \subseteq 0 .. (size - 1)
  <2>1. left \in SUBSET (0 .. (size - 1)) /\ size \in Nat /\ allocated \subseteq 0 .. (size - 1)
    BY <1>2 DEF HeapInv, HeapTypeOK
  <2> HIDE DEF left, start
  <2> QED
    BY <1>1, <1>4, <2>1, AllocationIsFree
<1>6. Spared(t)
  BY <1>2, <1>3, <1>5, GrownKeeps DEF Spared
<1>7. ContentsOf(t)'
  BY <1>3 DEF ContentsOf
<1> QED
  BY <1>2, <1>3, <1>6, <1>7, ContentsFollow

\* A write goes to both heaps, at an index of the table's own range.
LEMMA WriteDescriptorTableContents ==
    ASSUME ContentsInv, NEW t \in Table, NEW slot \in Nat, WriteDescriptorTable(t, slot)
    PROVE  ContentsInv'
<1> DEFINE index == owner[t].first + slot
<1>1. /\ t \in Owner /\ HeapInv' /\ HeapInv
      /\ owner[t] \in [alive : BOOLEAN, first : Nat, capacity : Nat]
      /\ slot < owner[t].capacity
  BY WriteDescriptorTableKeeps, OwnedInside DEF ContentsInv, Owner, WriteDescriptorTable
<1>2. /\ owner' = owner
      /\ \A p \in Owner : p # t => written'[p] = written[p]
      /\ written'[t] = written[t] \cup {slot}
      /\ cpu' = [cpu EXCEPT ![index] = <<t, slot>>]
      /\ gpu' = [gpu EXCEPT ![index] = <<t, slot>>]
  BY <1>1 DEF WriteDescriptorTable, HeapInv, HeapTypeOK
<1>3. index \in Owned(t)
  BY <1>1 DEF Owned, Slots
<1>4. /\ index \in 0 .. (size - 1)
      /\ index \in DOMAIN cpu /\ index \in DOMAIN gpu
      /\ allocated \subseteq DOMAIN cpu /\ allocated \subseteq DOMAIN gpu
  BY <1>1, <1>3, OwnedInside DEF HeapInv, HeapTypeOK
<1>5. \A i \in DOMAIN cpu : cpu'[i] = IF i = index THEN <<t, slot>> ELSE cpu[i]
  BY <1>2
<1>6. \A i \in DOMAIN gpu : gpu'[i] = IF i = index THEN <<t, slot>> ELSE gpu[i]
  BY <1>2
<1>7. Spared(t)
  BY <1>3, <1>4, <1>5, <1>6 DEF Spared
<1>8. ContentsOf(t)'
  <2> SUFFICES ASSUME NEW s \in written[t] \cup {slot}
               PROVE  /\ s \in Slots(0, owner[t].capacity)
                      /\ cpu'[owner[t].first + s] = <<t, s>>
                      /\ gpu'[owner[t].first + s] = <<t, s>>
    BY <1>2 DEF ContentsOf
  <2>1. CASE s = slot
    BY <1>1, <1>4, <1>5, <1>6, <2>1 DEF Slots
  <2>2. CASE s # slot
    <3>1. /\ s \in Slots(0, owner[t].capacity)
          /\ cpu[owner[t].first + s] = <<t, s>> /\ gpu[owner[t].first + s] = <<t, s>>
      BY <1>1, <2>2 DEF ContentsInv, ContentsOf
    <3>2. owner[t].first + s \in Owned(t) /\ owner[t].first + s # index
      BY <1>1, <2>2, <3>1 DEF Owned, Slots
    <3>3. owner[t].first + s \in DOMAIN cpu /\ owner[t].first + s \in DOMAIN gpu
      BY <1>1, <1>4, <3>2, OwnedInside
    <3> QED
      BY <1>5, <1>6, <3>1, <3>2, <3>3
  <2> QED
    BY <2>1, <2>2
<1> QED
  BY <1>1, <1>2, <1>7, <1>8, ContentsFollow

\* A new binding set fills exactly the range it has been given.
LEMMA CreateBindingSetContents ==
    ASSUME ContentsInv, NEW s \in BindingSet, NEW count \in Nat, CreateBindingSet(s, count)
    PROVE  ContentsInv'
<1>1. PICK first \in 0 .. size :
        /\ AllocateDescriptors(count, allocated, searchStart, first)
        /\ owner' = [owner EXCEPT ![s] = [alive |-> TRUE, first |-> first, capacity |-> count]]
        /\ cpu' = Filled(Grown(cpu), s, first, count)
        /\ gpu' = Filled(Grown(gpu), s, first, count)
  BY DEF CreateBindingSet
<1>2. s \in Owner /\ HeapInv' /\ HeapInv /\ first \in Nat
  BY CreateBindingSetKeeps DEF ContentsInv, Owner, HeapInv, HeapTypeOK
<1>3. /\ \A p \in Owner : p # s => owner'[p] = owner[p] /\ written'[p] = written[p]
      /\ owner'[s].capacity = count /\ owner'[s].first = first
      /\ written'[s] = Slots(0, count)
  BY <1>1, <1>2 DEF CreateBindingSet, HeapInv, HeapTypeOK
<1>4. /\ size \in Nat /\ size' \in Nat /\ size <= size' /\ first + count <= size'
      /\ Slots(first, count) \cap allocated = {}
      /\ allocated \subseteq 0 .. (size - 1)
  BY <1>1, <1>2, AllocationIsFree DEF HeapInv, HeapTypeOK
<1>5. ASSUME NEW heap, NEW i \in 0 .. (size' - 1)
      PROVE  Filled(Grown(heap), s, first, count)[i] =
                IF i \in Slots(first, count) THEN <<s, i - first>> ELSE Grown(heap)[i]
  BY GrownCovers DEF Filled
<1>6. Spared(s)
  <2> SUFFICES ASSUME NEW i \in allocated
               PROVE  cpu'[i] = cpu[i] /\ gpu'[i] \in {cpu[i], gpu[i]}
    BY DEF Spared
  <2>1. i \in 0 .. (size - 1) /\ i \in 0 .. (size' - 1) /\ i \notin Slots(first, count)
    BY <1>4, RangeGrows
  <2>2. cpu'[i] = Grown(cpu)[i] /\ gpu'[i] = Grown(gpu)[i]
    BY <1>1, <1>5, <2>1
  <2> QED
    BY <1>2, <1>4, <2>1, <2>2, GrownKeeps
<1>7. ContentsOf(s)'
  <2> SUFFICES ASSUME NEW k \in Slots(0, count)
               PROVE  cpu'[first + k] = <<s, k>> /\ gpu'[first + k] = <<s, k>>
    BY <1>3 DEF ContentsOf
  <2>1. k \in Nat /\ k < count
    BY DEF Slots
  <2>2. /\ first + k \in Slots(first, count) /\ first + k \in 0 .. (size' - 1)
        /\ (first + k) - first = k
    BY <1>2, <1>4, <2>1, SlotInside
  <2> QED
    BY <1>1, <1>5, <2>2
<1> QED
  BY <1>2, <1>3, <1>6, <1>7, ContentsFollow

\* What is given up is not written any more.
LEMMA DestroyContents ==
    ASSUME ContentsInv, NEW o \in Owner, Destroy(o)
    PROVE  ContentsInv'
<1>1. HeapInv'
  BY DestroyKeeps DEF ContentsInv
<1>2. /\ \A p \in Owner : p # o => owner'[p] = owner[p] /\ written'[p] = written[p]
      /\ written'[o] = {} /\ cpu' = cpu /\ gpu' = gpu
  BY DEF Destroy, ContentsInv, HeapInv, HeapTypeOK
<1>3. Spared(o) /\ ContentsOf(o)'
  BY <1>2 DEF Spared, ContentsOf
<1> QED
  BY <1>1, <1>2, <1>3, ContentsFollow

-----------------------------------------------------------------------------
(* The specification.                                                      *)

\* The invariant holds at first.
LEMMA InitInv == Init => HeapInv
<1> SUFFICES ASSUME Init PROVE HeapInv
  OBVIOUS
<1>1. \A o \in Owner : Owned(o) = {}
  BY DEF Init, Owned, Slots, Gone
<1>2. DescriptorsOwned
  BY <1>1 DEF Init, DescriptorsOwned
<1>3. HeapTypeOK
  BY SizesAssumption DEF Init, HeapTypeOK, Gone
<1>4. DeadOwnNothing
  BY DEF Init, DeadOwnNothing
<1> QED
  BY <1>2, <1>3, <1>4 DEF HeapInv

\* Every operation keeps it.
LEMMA NextInv == HeapInv /\ [Next]_vars => HeapInv'
<1> SUFFICES ASSUME HeapInv, [Next]_vars PROVE HeapInv'
  OBVIOUS
<1> USE SizesAssumption
<1>1. ASSUME NEW t \in Table, CreateDescriptorTable(t) PROVE HeapInv'
  BY <1>1, CreateDescriptorTableKeeps
<1>2. ASSUME NEW t \in Table, NEW capacity \in 0 .. MaxCapacity, ResizeDescriptorTable(t, capacity)
      PROVE  HeapInv'
  <2>1. capacity \in Nat
    OBVIOUS
  <2> QED
    BY <1>2, <2>1, ShrinkKeeps, EnlargeKeepingKeeps, EnlargeDroppingKeeps DEF ResizeDescriptorTable
<1>3. ASSUME NEW t \in Table, NEW slot \in 0 .. (MaxCapacity - 1), WriteDescriptorTable(t, slot)
      PROVE  HeapInv'
  BY <1>3, WriteDescriptorTableKeeps
<1>4. ASSUME NEW s \in BindingSet, NEW count \in 1 .. MaxCapacity, CreateBindingSet(s, count)
      PROVE  HeapInv'
  BY <1>4, CreateBindingSetKeeps
<1>5. ASSUME NEW o \in Owner, Destroy(o) PROVE HeapInv'
  BY <1>5, DestroyKeeps
<1>6. CASE UNCHANGED vars
  BY <1>6 DEF vars, HeapInv, HeapTypeOK, DeadOwnNothing, DescriptorsOwned, Owned
<1> QED
  BY <1>1, <1>2, <1>3, <1>4, <1>5, <1>6 DEF Next

\* Whatever tables and sets are created, resized, filled and destroyed, no
\* descriptor is ever in two of them and none is marked that nobody has.
THEOREM DescriptorsHaveOneOwner == Spec => []DescriptorsOwned
<1>1. HeapInv => DescriptorsOwned
  BY DEF HeapInv
<1> QED
  BY <1>1, InitInv, NextInv, PTL DEF Spec

\* Nothing is written at first.
LEMMA InitContents == Init => ContentsInv
  BY InitInv DEF Init, ContentsInv, ContentsOf

\* Every step keeps the contents.
LEMMA NextContents == ContentsInv /\ [Next]_vars => ContentsInv'
<1> SUFFICES ASSUME ContentsInv, [Next]_vars PROVE ContentsInv'
  OBVIOUS
<1>1. ASSUME NEW t \in Table, CreateDescriptorTable(t) PROVE ContentsInv'
  BY <1>1, CreateDescriptorTableContents
<1>2. ASSUME NEW t \in Table, NEW capacity \in 0 .. MaxCapacity, ResizeDescriptorTable(t, capacity)
      PROVE  ContentsInv'
  <2>1. capacity \in Nat
    BY SizesAssumption
  <2> QED
    BY <1>2, <2>1, ShrinkContents, EnlargeKeepingContents, EnlargeDroppingContents
       DEF ResizeDescriptorTable
<1>3. ASSUME NEW t \in Table, NEW slot \in 0 .. (MaxCapacity - 1), WriteDescriptorTable(t, slot)
      PROVE  ContentsInv'
  <2>1. slot \in Nat
    BY SizesAssumption
  <2> QED
    BY <1>3, <2>1, WriteDescriptorTableContents
<1>4. ASSUME NEW s \in BindingSet, NEW count \in 1 .. MaxCapacity, CreateBindingSet(s, count)
      PROVE  ContentsInv'
  <2>1. count \in Nat
    BY SizesAssumption
  <2> QED
    BY <1>4, <2>1, CreateBindingSetContents
<1>5. ASSUME NEW o \in Owner, Destroy(o) PROVE ContentsInv'
  BY <1>5, DestroyContents
<1>6. CASE UNCHANGED vars
  <2>1. HeapInv'
    BY NextInv DEF ContentsInv
  <2> QED
    BY <1>6, <2>1 DEF vars, ContentsInv, ContentsOf
<1> QED
  BY <1>1, <1>2, <1>3, <1>4, <1>5, <1>6 DEF Next

\* Through every move of a table, every growth of the heap and everything the
\* others do, the shaders see in a slot what has been written into it.
THEOREM ShadersSeeWhatWasWritten == Spec => []ContentsKept
<1>1. ContentsInv => ContentsKept
  BY DEF ContentsInv, ContentsOf, ContentsKept
<1> QED
  BY <1>1, InitContents, NextContents, PTL DEF Spec
=============================================================================
