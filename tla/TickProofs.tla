----------------------------- MODULE TickProofs -----------------------------
(***************************************************************************)
(* What TickProperties states, for any functions, groups, intervals and    *)
(* workers, any size of a chunk and any number of frames.                  *)
(***************************************************************************)
EXTENDS TickProperties, FiniteSetTheorems, WellFoundedInduction, TLAPS

-----------------------------------------------------------------------------
\* Types.

Step == {"idle", "tick", "clean", "fork", "join", "finish"}
Chunk == [items : Seq(Function), join : FunctionOrNull]
Work == [items : Seq(Function), join : FunctionOrNull, step : Step]

TypeInv ==
    /\ held \subseteq live /\ live \subseteq Function
    /\ parent \in [Function -> FunctionOrNull]
    /\ dependents \in [Function -> Seq(Function)]
    /\ groups \in [Group -> Seq(Function)]
    /\ now \in 0 .. MaxFrames /\ last \in [Function -> 0 .. now]
    /\ frame \in Group \cup {None} /\ roots \in Seq(Function)
    /\ queue \in Seq(Chunk) /\ open \in [FunctionOrNull -> Nat]
    /\ worker \in [Executor -> Work]
    /\ executed \in Seq(Function)

-----------------------------------------------------------------------------
\* The trees and the groups.

TreeInv ==
    /\ \A f \in Function \ live : ToSet(dependents[f]) = {}
    /\ \A f \in live : IsInjective(dependents[f]) /\ ToSet(dependents[f]) \subseteq live
    /\ \A p, c \in live : c \in ToSet(dependents[p]) <=> parent[c] = p
    /\ \A g \in Group :
        /\ IsInjective(groups[g])
        /\ \A f \in ToSet(groups[g]) : f \in live /\ TypeOf[f] = g

-----------------------------------------------------------------------------
\* A frame: who has which functions, who waits for whom, and how far the frame
\* has come.

ItemsOf(chunks) == UNION {ToSet(chunks[i].items) : i \in DOMAIN chunks}

Executed == ToSet(executed)
Queued == ItemsOf(queue)
Carried == UNION {ToSet(worker[w].items) : w \in Executor}
Pending == Queued \cup Carried
Reached == Executed \cup Pending

At(steps) == {w \in Executor : worker[w].step \in steps}
Cleaning == {Current(w) : w \in At({"clean", "fork"})}
Joining == {Current(w) : w \in At({"join"})}

\* What a worker has fits the step it is at; between frames nobody has anything.
WorkInv ==
    /\ \A w \in Executor :
        /\ worker[w].step = "idle" => worker[w] = Idle
        /\ worker[w].items = <<>> <=> worker[w].step \in {"idle", "finish"}
    /\ frame = None => queue = <<>> /\ At(Step \ {"idle"}) = {} /\ executed = <<>>

\* No function is in two places of the queue and the workers.
DistinctInv ==
    /\ \A i \in DOMAIN queue : IsInjective(queue[i].items)
    /\ \A w \in Executor : IsInjective(worker[w].items)
    /\ \A i, j \in DOMAIN queue :
        i # j => ToSet(queue[i].items) \cap ToSet(queue[j].items) = {}
    /\ \A w, v \in Executor :
        w # v => ToSet(worker[w].items) \cap ToSet(worker[v].items) = {}
    /\ Queued \cap Carried = {}

\* The functions of a chunk are dependents of the one that joins it, and that
\* one's worker waits.
Joined(chunk) ==
    /\ \A f \in ToSet(chunk.items) : parent[f] = chunk.join
    /\ chunk.join # None => chunk.join \in Joining

JoinInv ==
    /\ \A i \in DOMAIN queue : Joined(queue[i])
    /\ \A w \in At(Step \ {"idle"}) : Joined(worker[w])

\* A ParallelFor waits for the chunks that are queued or being worked on and for
\* its join task, and in the end for the join task alone.  (The main thread waits
\* alone for a function it executes itself.)
InQueue(q, j) == {i \in DOMAIN q : q[i].join = j}
InHand(j) == {w \in At(Step \ {"idle"}) : worker[w].join = j}
Waits(o, tasks) == IF o < 2 THEN tasks = o ELSE tasks = o - 1
OpenInv ==
    \A j \in FunctionOrNull :
        Waits(open[j], Cardinality(InQueue(queue, j)) + Cardinality(InHand(j)))

\* A function comes after its parent, and the dependents of a function wait
\* until it has cleaned them.
OrderInv ==
    /\ Cleaning \cup Joining \subseteq Executed
    /\ Pending \cap Executed \subseteq Cleaning \cup Joining
    /\ \A c \in Reached : parent[c] # None =>
        /\ parent[c] \in Executed
        /\ parent[c] \in Pending => parent[c] \in Joining
        /\ c \in ToSet(dependents[parent[c]])

\* The frame reaches the roots, and what is below the functions it has passed.
CoverInv ==
    /\ ToSet(roots) \subseteq Reached
    /\ \A c \in Reached : parent[c] = None => c \in ToSet(roots)
    /\ \A f \in Executed \ Cleaning : ToSet(dependents[f]) \subseteq Reached

\* Nothing the frame has reached is freed: the roots have a reference of their
\* own, everything else has its parent's.
LiveInv ==
    /\ Reached \subseteq live
    /\ \A f \in ToSet(roots) : f \in held \/ f \in ToSet(groups[TypeOf[f]])

FrameInv == WorkInv /\ DistinctInv /\ JoinInv /\ OpenInv /\ OrderInv /\ CoverInv /\ LiveInv

\* A function comes after its parent.
Ordered ==
    \A i \in DOMAIN executed :
        LET p == parent[executed[i]] IN
        p # None => \E j \in 1 .. i - 1 : executed[j] = p

TickInv ==
    /\ TypeInv /\ TreeInv
    /\ Ordered /\ QueuedFunctionsLive
    /\ undefined = "no" => FrameInv

-----------------------------------------------------------------------------
\* Sequences: what Filter leaves.

\* The places of P, a set of indices, are counted one by one from the left.
Rank(P, i) == Cardinality({j \in P : j <= i})

LEMMA RankFacts ==
  ASSUME NEW n \in Nat, NEW P \in SUBSET (1 .. n)
  PROVE  /\ IsFiniteSet(P) /\ Cardinality(P) \in Nat
         /\ \A i, j \in P : Rank(P, i) = Rank(P, j) => i = j
         /\ \A k \in 1 .. Cardinality(P) : \E i \in P : Rank(P, i) = k
  <1>1. IsFiniteSet(P) /\ Cardinality(P) \in Nat
    <2>1. IsFiniteSet(1 .. n)
      BY FS_Interval
    <2>2. IsFiniteSet(P)
      BY <2>1, FS_Subset
    <2>3. QED
      BY <2>2, FS_CardinalityType
  <1> DEFINE Upto(i) == {j \in P : j <= i}
  <1>2. ASSUME NEW i \in P
        PROVE  /\ IsFiniteSet(Upto(i)) /\ Cardinality(Upto(i)) \in 1 .. Cardinality(P)
    <2>1. Upto(i) \in SUBSET P
      OBVIOUS
    <2>2. IsFiniteSet(Upto(i)) /\ Cardinality(Upto(i)) <= Cardinality(P)
      BY <1>1, <2>1, FS_Subset
    <2>3. Cardinality(Upto(i)) \in Nat
      BY <2>2, FS_CardinalityType
    <2>4. i \in Upto(i)
      OBVIOUS
    <2>5. Cardinality(Upto(i)) # 0
      BY <2>2, <2>4, FS_EmptySet
    <2> HIDE DEF Upto
    <2>6. QED
      BY <1>1, <2>2, <2>3, <2>5
  <1>3. ASSUME NEW i \in P, NEW j \in P, i < j
        PROVE  Cardinality(Upto(i)) # Cardinality(Upto(j))
    <2>1. Upto(i) \in SUBSET Upto(j)
      <3> SUFFICES ASSUME NEW k \in P, k <= i PROVE k <= j
        OBVIOUS
      <3>1. i \in Nat /\ j \in Nat /\ k \in Nat
        OBVIOUS
      <3>2. QED
        BY <1>3, <3>1
    <2>2. j \in Upto(j) /\ j \notin Upto(i)
      BY <1>3
    <2>3. QED
      BY <1>2, <2>1, <2>2, FS_Subset
  <1>4. \A i, j \in P : Cardinality(Upto(i)) = Cardinality(Upto(j)) => i = j
    <2> SUFFICES ASSUME NEW i \in P, NEW j \in P, Cardinality(Upto(i)) = Cardinality(Upto(j)),
                        i # j
                 PROVE  FALSE
      OBVIOUS
    <2>1. i < j \/ j < i
      OBVIOUS
    <2>2. QED
      BY <1>3, <2>1
  <1> DEFINE r == [i \in P |-> Cardinality(Upto(i))]
  <1>5. r \in [P -> 1 .. Cardinality(P)]
    BY <1>2
  <1>6. IsInjective(r)
    BY <1>4 DEF IsInjective
  <1>7. r \in Injection(P, 1 .. Cardinality(P))
    BY <1>5, <1>6 DEF Injection
  <1>8. IsFiniteSet(1 .. Cardinality(P)) /\ Cardinality(1 .. Cardinality(P)) = Cardinality(P)
    BY <1>1, FS_Interval
  <1>9. r \in Surjection(P, 1 .. Cardinality(P))
    BY <1>7, <1>8, FS_Injection
  <1>10. \A k \in 1 .. Cardinality(P) : \E i \in P : r[i] = k
    BY <1>9 DEF Surjection
  <1>11. QED
    BY <1>1, <1>4, <1>10 DEF Rank

\* A filtered sequence has the chosen members of the sequence, each as often as
\* before; what is stated here is what the trees need.
LEMMA FilterFacts ==
  ASSUME NEW F, NEW s \in Seq(F), NEW S
  PROVE  /\ Filter(s, S) \in Seq(F)
         /\ ToSet(Filter(s, S)) = ToSet(s) \cap S
         /\ IsInjective(s) => IsInjective(Filter(s, S))
  <1> DEFINE P == {i \in DOMAIN s : s[i] \in S}
  <1>1. DOMAIN s = 1 .. Len(s) /\ Len(s) \in Nat
    OBVIOUS
  <1>2. P \in SUBSET (1 .. Len(s))
    BY <1>1
  <1>3. /\ IsFiniteSet(P) /\ Cardinality(P) \in Nat
        /\ \A i, j \in P : Rank(P, i) = Rank(P, j) => i = j
        /\ \A k \in 1 .. Cardinality(P) : \E i \in P : Rank(P, i) = k
    BY <1>1, <1>2, RankFacts
  <1> DEFINE nth(k) == CHOOSE i \in P : Rank(P, i) = k
             c == Cardinality(P)
  <1>4. ASSUME NEW k \in 1 .. c
        PROVE  nth(k) \in P /\ Rank(P, nth(k)) = k
    BY <1>3
  <1>5. ASSUME NEW i \in P
        PROVE  \E k \in 1 .. c : nth(k) = i
    <2>1. Rank(P, i) \in 1 .. c
      <3> DEFINE U == {j \in P : j <= i}
      <3>1. U \in SUBSET P /\ i \in U
        BY <1>2
      <3>2. IsFiniteSet(U) /\ Cardinality(U) <= Cardinality(P)
        BY <1>3, <3>1, FS_Subset
      <3>3. Cardinality(U) \in Nat /\ Cardinality(U) # 0
        BY <3>1, <3>2, FS_CardinalityType, FS_EmptySet
      <3> HIDE DEF P
      <3>4. Rank(P, i) = Cardinality(U)
        BY DEF Rank
      <3> HIDE DEF U
      <3>5. QED
        BY <1>3, <3>2, <3>3, <3>4
    <2>2. nth(Rank(P, i)) = i
      BY <1>3, <1>4, <2>1
    <2>3. QED
      BY <2>1, <2>2
  <1>6. Filter(s, S) = [k \in 1 .. c |-> s[nth(k)]]
    BY DEF Filter, Rank
  <1> HIDE DEF nth, c
  <1>7. \A k \in 1 .. c : s[nth(k)] \in F /\ s[nth(k)] \in S /\ nth(k) \in DOMAIN s
    <2> SUFFICES ASSUME NEW k \in 1 .. c
                 PROVE  s[nth(k)] \in F /\ s[nth(k)] \in S /\ nth(k) \in DOMAIN s
      OBVIOUS
    <2>1. nth(k) \in P
      BY <1>4
    <2>2. nth(k) \in DOMAIN s /\ s[nth(k)] \in S
      BY <2>1
    <2>3. s[nth(k)] \in F
      BY <2>2
    <2>4. QED
      BY <2>2, <2>3
  <1>8. c \in Nat
    BY <1>3 DEF c
  <1>9. Filter(s, S) \in Seq(F)
    BY <1>6, <1>7, <1>8
  <1>10. ToSet(Filter(s, S)) = ToSet(s) \cap S
    <2>1. ASSUME NEW x \in ToSet(Filter(s, S))
          PROVE  x \in ToSet(s) \cap S
      BY <1>6, <1>7 DEF ToSet
    <2>2. ASSUME NEW x \in ToSet(s), x \in S
          PROVE  x \in ToSet(Filter(s, S))
      <3>1. PICK i \in DOMAIN s : s[i] = x
        BY DEF ToSet
      <3>2. i \in P
        BY <2>2, <3>1
      <3>3. PICK k \in 1 .. c : nth(k) = i
        BY <1>5, <3>2
      <3>4. Filter(s, S)[k] = x
        BY <1>6, <3>1, <3>3
      <3>5. k \in DOMAIN Filter(s, S)
        BY <1>6
      <3>6. QED
        BY <3>4, <3>5 DEF ToSet
    <2>3. QED
      BY <2>1, <2>2
  <1>11. ASSUME IsInjective(s)
         PROVE  IsInjective(Filter(s, S))
    <2> SUFFICES ASSUME NEW a \in 1 .. c, NEW b \in 1 .. c, s[nth(a)] = s[nth(b)]
                 PROVE  a = b
      BY <1>6 DEF IsInjective
    <2>1. nth(a) = nth(b)
      BY <1>7, <1>11 DEF IsInjective
    <2>2. QED
      BY <1>4, <2>1
  <1>12. QED
    BY <1>9, <1>10, <1>11

LEMMA ContainsIsMember ==
  ASSUME NEW F, NEW s \in Seq(F), NEW x
  PROVE  Contains(s, x) <=> x \in ToSet(s)
  BY DEF Contains, ToSet

LEMMA ToSetAppend ==
  ASSUME NEW F, NEW s \in Seq(F), NEW x
  PROVE  ToSet(Append(s, x)) = ToSet(s) \cup {x}
  <1>1. /\ DOMAIN Append(s, x) = 1 .. Len(s) + 1 /\ DOMAIN s = 1 .. Len(s) /\ Len(s) \in Nat
        /\ \A i \in 1 .. Len(s) : Append(s, x)[i] = s[i]
        /\ Append(s, x)[Len(s) + 1] = x
    OBVIOUS
  <1>2. \A i \in 1 .. Len(s) + 1 : i \in 1 .. Len(s) \/ i = Len(s) + 1
    BY <1>1
  <1>3. Len(s) + 1 \in 1 .. Len(s) + 1 /\ \A i \in 1 .. Len(s) : i \in 1 .. Len(s) + 1
    BY <1>1
  <1>4. QED
    BY <1>1, <1>2, <1>3 DEF ToSet

-----------------------------------------------------------------------------
\* What Free leaves: the largest set whose functions all have a reference.

LEMMA KeptFacts ==
  ASSUME NEW objects, NEW lists
  PROVE  /\ Kept(objects, lists) \subseteq live
         /\ Referenced(Kept(objects, lists), objects, lists)
         /\ \A S \in SUBSET live :
                Referenced(S, objects, lists) => S \subseteq Kept(objects, lists)
  <1>1. Kept(objects, lists) \subseteq live
    BY DEF Kept
  <1>2. \A S \in SUBSET live : Referenced(S, objects, lists) => S \subseteq Kept(objects, lists)
    BY DEF Kept
  <1>3. Referenced(Kept(objects, lists), objects, lists)
    <2> SUFFICES ASSUME NEW f \in Kept(objects, lists)
                 PROVE  \/ f \in objects
                        \/ Contains(groups[TypeOf[f]], f)
                        \/ \E p \in Kept(objects, lists) : Contains(lists[p], f)
      BY DEF Referenced
    <2>1. PICK S \in SUBSET live : f \in S /\ Referenced(S, objects, lists)
      BY DEF Kept
    <2>2. S \subseteq Kept(objects, lists)
      BY <1>2, <2>1
    <2>3. QED
      BY <2>1, <2>2 DEF Referenced
  <1>4. QED
    BY <1>1, <1>2, <1>3

\* Functions that need each other, or those that stay, stay as well.
LEMMA KeptWith ==
  ASSUME NEW objects, NEW lists, NEW S \in SUBSET live,
         \A f \in S : \/ f \in objects
                      \/ Contains(groups[TypeOf[f]], f)
                      \/ \E p \in S \cup Kept(objects, lists) : Contains(lists[p], f)
  PROVE  S \subseteq Kept(objects, lists)
  <1> DEFINE K == Kept(objects, lists)
             T == S \cup K
  <1>1. Referenced(K, objects, lists) /\ K \subseteq live
    BY KeptFacts
  <1> HIDE DEF K
  <1>2. Referenced(T, objects, lists)
    BY <1>1 DEF Referenced, K
  <1>3. T \in SUBSET live
    BY <1>1
  <1>4. T \subseteq K
    BY <1>2, <1>3, KeptFacts DEF K
  <1>5. QED
    BY <1>4 DEF K

\* Whoever an object or a group refers to stays.
LEMMA KeptRoots ==
  ASSUME NEW objects, NEW lists, NEW f \in live,
         f \in objects \/ Contains(groups[TypeOf[f]], f)
  PROVE  f \in Kept(objects, lists)
  <1>1. {f} \in SUBSET live
    OBVIOUS
  <1>2. {f} \subseteq Kept(objects, lists)
    BY <1>1, KeptWith
  <1>3. QED
    BY <1>2

\* Freeing keeps the two ends of every link together.
LEMMA FreeTree ==
  ASSUME TypeInv, TreeInv, NEW objects \in SUBSET live,
         NEW lists \in [Function -> Seq(Function)],
         \A f \in Function \ live : ToSet(lists[f]) = {},
         \A f \in live : IsInjective(lists[f]) /\ ToSet(lists[f]) \subseteq live,
         held' = objects, groups' = groups, Free(objects, lists),
         \A p, c \in live' : c \in ToSet(lists[p]) <=> parent'[c] = p
  PROVE  /\ TreeInv' /\ held' \subseteq live' /\ live' \subseteq live
         /\ dependents' \in [Function -> Seq(Function)]
  <1>1. live' = Kept(objects, lists) /\ live' \subseteq live
    BY KeptFacts DEF Free
  <1>2. dependents' = [f \in Function |-> IF f \in live' THEN lists[f] ELSE <<>>]
    BY DEF Free
  <1>3. live \subseteq Function
    BY DEF TypeInv
  <1>4. held' \subseteq live'
    BY <1>1, KeptRoots
  <1>5. \A f \in Function : f \notin live' => dependents'[f] = <<>>
    BY <1>2
  <1>6. \A f \in live' : dependents'[f] = lists[f] /\ f \in live
    BY <1>1, <1>2, <1>3
  <1>7. dependents' \in [Function -> Seq(Function)]
    BY <1>2
  <1>8. ASSUME NEW p \in live', NEW c \in ToSet(lists[p])
        PROVE  c \in live'
    <2>1. c \in live
      BY <1>1
    <2>2. Contains(lists[p], c)
      <3>1. lists[p] \in Seq(Function)
        BY <1>1, <1>3
      <3>2. QED
        BY <3>1, ContainsIsMember
    <2>3. PICK S \in SUBSET live : S = {c}
      BY <2>1
    <2>4. p \in Kept(objects, lists)
      BY <1>1
    <2>5. \A f \in S : \E q \in S \cup Kept(objects, lists) : Contains(lists[q], f)
      BY <2>2, <2>3, <2>4
    <2>6. S \subseteq Kept(objects, lists)
      BY <2>5, KeptWith
    <2>7. QED
      BY <1>1, <2>3, <2>6
  <1>9. ASSUME NEW g \in Group
        PROVE  /\ IsInjective(groups'[g])
               /\ \A f \in ToSet(groups'[g]) : f \in live' /\ TypeOf[f] = g
    <2>1. IsInjective(groups[g]) /\ \A f \in ToSet(groups[g]) : f \in live /\ TypeOf[f] = g
      BY DEF TreeInv
    <2>2. groups[g] \in Seq(Function)
      BY DEF TypeInv
    <2>3. \A f \in ToSet(groups[g]) : Contains(groups[TypeOf[f]], f)
      BY <2>1, <2>2, ContainsIsMember
    <2>4. \A f \in ToSet(groups[g]) : f \in Kept(objects, lists)
      BY <2>1, <2>3, KeptRoots
    <2>5. QED
      BY <1>1, <2>1, <2>4
  <1>10. \A f \in Function \ live' : ToSet(dependents'[f]) = {}
    BY <1>5 DEF ToSet
  <1>11. \A f \in live' : IsInjective(dependents'[f]) /\ ToSet(dependents'[f]) \subseteq live'
    BY <1>1, <1>6, <1>8
  <1>12. \A p, c \in live' : c \in ToSet(dependents'[p]) <=> parent'[c] = p
    BY <1>6
  <1>13. TreeInv'
    BY <1>9, <1>10, <1>11, <1>12 DEF TreeInv
  <1>14. QED
    BY <1>1, <1>4, <1>7, <1>13

-----------------------------------------------------------------------------
\* The chunks of a ParallelFor.

LEMMA ChunksFacts ==
  ASSUME NEW items \in Seq(Function), NEW join \in FunctionOrNull
  PROVE  /\ Chunks(items, join) \in Seq(Chunk)
         /\ \A i \in DOMAIN Chunks(items, join) :
              LET c == Chunks(items, join)[i] IN
              /\ c.join = join /\ c.items # <<>>
              /\ IsInjective(items) => IsInjective(c.items)
         /\ ItemsOf(Chunks(items, join)) = ToSet(items)
         /\ IsInjective(items) => \A i, j \in DOMAIN Chunks(items, join) :
              i # j => ToSet(Chunks(items, join)[i].items)
                        \cap ToSet(Chunks(items, join)[j].items) = {}
  <1> DEFINE n == Len(items)
             m == (n + Grain - 1) \div Grain
             lo(i) == (i - 1) * Grain + 1
             hi(i) == IF i * Grain < n THEN i * Grain ELSE n
             part(i) == SubSeq(items, lo(i), hi(i))
  <1>1. n \in Nat /\ Grain \in Nat /\ Grain >= 1
    BY GrainAssumption
  <1>2. m \in Nat /\ n <= m * Grain /\ (m - 1) * Grain < n
    BY <1>1
  <1>3. Chunks(items, join) = [i \in 1 .. m |-> [items |-> part(i), join |-> join]]
    BY DEF Chunks
  <1> HIDE DEF m, n
  <1>4. ASSUME NEW i \in 1 .. m
        PROVE  /\ lo(i) \in 1 .. n /\ hi(i) \in 1 .. n /\ lo(i) <= hi(i)
               /\ hi(i) = i * Grain \/ i = m
    <2>1. i \in Nat /\ i >= 1 /\ m - i >= 0
      BY <1>2
    <2>2. (i - 1) * Grain >= 0 /\ (m - i) * Grain >= 0
      <3>1. \A x, y \in Nat : x * y \in Nat
        OBVIOUS
      <3>2. i - 1 \in Nat /\ m - i \in Nat /\ Grain \in Nat
        BY <1>1, <1>2, <2>1
      <3>3. (i - 1) * Grain \in Nat /\ (m - i) * Grain \in Nat
        BY ONLY <3>1, <3>2
      <3>4. QED
        BY <3>3
    <2>3. (m - 1) * Grain = (m - i) * Grain + (i - 1) * Grain
      BY <1>1, <1>2, <2>1
    <2>4. i * Grain = (i - 1) * Grain + Grain
      BY <1>1, <2>1
    <2>5. QED
      BY <1>1, <1>2, <2>1, <2>2, <2>3, <2>4
  <1>5. ASSUME NEW i \in 1 .. m, NEW j \in 1 .. m, i < j
        PROVE  hi(i) < lo(j)
    <2>1. i \in Nat /\ j \in Nat /\ j - 1 - i >= 0 /\ i # m
      BY <1>2, <1>5
    <2>2. (j - 1 - i) * Grain \in Nat
      <3>1. \A x, y \in Nat : x * y \in Nat
        OBVIOUS
      <3>2. j - 1 - i \in Nat /\ Grain \in Nat
        BY <1>1, <2>1
      <3>3. QED
        BY ONLY <3>1, <3>2
    <2>3. (j - 1) * Grain = (j - 1 - i) * Grain + i * Grain
      BY <1>1, <2>1
    <2>4. hi(i) = i * Grain
      BY <1>4, <2>1
    <2>5. i * Grain \in Nat /\ (j - 1) * Grain \in Nat
      BY <1>1, <2>1
    <2>6. lo(j) = (j - 1) * Grain + 1
      OBVIOUS
    <2>7. i * Grain <= (j - 1) * Grain
      <3>1. \A x, y, z \in Nat : y = x + z => z <= y
        OBVIOUS
      <3>2. QED
        BY ONLY <3>1, <2>2, <2>3, <2>5
    <2> HIDE DEF lo, hi
    <2>8. QED
      BY <2>4, <2>5, <2>6, <2>7
  <1>6. ASSUME NEW k \in 1 .. n
        PROVE  \E i \in 1 .. m : lo(i) <= k /\ k <= hi(i)
    <2> DEFINE i == (k - 1) \div Grain + 1
    <2>1. i \in Nat /\ i >= 1 /\ (i - 1) * Grain <= k - 1 /\ k - 1 < (i - 1) * Grain + Grain
      BY <1>1
    <2> HIDE DEF i
    <2>2. i * Grain = (i - 1) * Grain + Grain
      BY <1>1, <2>1
    <2>3. i <= m
      <3> SUFFICES ASSUME m <= i - 1
                   PROVE  FALSE
        BY <1>2, <2>1
      <3>1. \A x, y \in Nat : x * y \in Nat
        OBVIOUS
      <3>2. i - 1 - m \in Nat /\ Grain \in Nat
        BY <1>1, <1>2, <2>1
      <3>3. (i - 1 - m) * Grain \in Nat
        BY ONLY <3>1, <3>2
      <3>4. (i - 1) * Grain = (i - 1 - m) * Grain + m * Grain
        BY <1>1, <1>2, <2>1
      <3>5. m * Grain \in Nat /\ (i - 1) * Grain \in Nat
        BY <1>1, <1>2, <2>1
      <3>6. QED
        BY <1>1, <1>2, <2>1, <3>3, <3>4, <3>5
    <2>4. (i - 1) * Grain \in Nat
      BY <1>1, <2>1
    <2>5. lo(i) <= k /\ k <= hi(i)
      BY <1>1, <2>1, <2>2, <2>4
    <2>6. QED
      BY <1>2, <2>1, <2>3, <2>5
  <1> HIDE DEF lo, hi
  <1>7. ASSUME NEW i \in 1 .. m
        PROVE  /\ part(i) \in Seq(Function) /\ part(i) # <<>>
               /\ DOMAIN part(i) = 1 .. (hi(i) - lo(i) + 1)
               /\ \A k \in 1 .. (hi(i) - lo(i) + 1) :
                    /\ part(i)[k] = items[lo(i) + k - 1]
                    /\ lo(i) + k - 1 \in 1 .. n /\ lo(i) <= lo(i) + k - 1
                    /\ lo(i) + k - 1 <= hi(i)
    <2>1. lo(i) \in 1 .. n /\ hi(i) \in 1 .. n /\ lo(i) <= hi(i)
      BY <1>4
    <2>2. Len(items) = n
      BY DEF n
    <2> DEFINE l == lo(i)
               h == hi(i)
    <2> HIDE DEF l, h
    <2>3. l \in 1 .. n /\ h \in 1 .. n /\ l <= h
      BY <2>1 DEF l, h
    <2>4. SubSeq(items, l, h) \in Seq(Function) /\ Len(SubSeq(items, l, h)) = h - l + 1
      BY <1>1, <2>2, <2>3
    <2>5. \A k \in 1 .. h - l + 1 : SubSeq(items, l, h)[k] = items[l + k - 1]
      BY <1>1, <2>2, <2>3
    <2>6. SubSeq(items, l, h) # <<>>
      <3>1. Len(SubSeq(items, l, h)) # 0
        BY <1>1, <2>3, <2>4
      <3>2. PICK q : q = SubSeq(items, l, h)
        OBVIOUS
      <3>3. Len(q) # 0
        BY <3>1, <3>2
      <3>4. q # <<>>
        BY <3>3
      <3>5. QED
        BY <3>2, <3>4
    <2>7. part(i) = SubSeq(items, l, h)
      BY DEF l, h
    <2>8. \A k \in 1 .. h - l + 1 : l + k - 1 \in 1 .. n /\ l <= l + k - 1 /\ l + k - 1 <= h
      BY <1>1, <2>3
    <2> HIDE DEF part
    <2>9. QED
      BY <2>4, <2>5, <2>6, <2>7, <2>8 DEF l, h
  <1>8. ASSUME NEW i \in 1 .. m, NEW x
        PROVE  x \in ToSet(part(i)) <=>
                 \E k \in 1 .. n : lo(i) <= k /\ k <= hi(i) /\ items[k] = x
    <2>1. ASSUME x \in ToSet(part(i))
          PROVE  \E k \in 1 .. n : lo(i) <= k /\ k <= hi(i) /\ items[k] = x
      <3>1. PICK k \in 1 .. (hi(i) - lo(i) + 1) : part(i)[k] = x
        BY <1>7, <2>1 DEF ToSet
      <3>2. QED
        BY <1>7, <3>1
    <2>2. ASSUME NEW k \in 1 .. n, lo(i) <= k, k <= hi(i), items[k] = x
          PROVE  x \in ToSet(part(i))
      <3>1. lo(i) \in 1 .. n /\ hi(i) \in 1 .. n
        BY <1>4
      <3>2. k - lo(i) + 1 \in 1 .. (hi(i) - lo(i) + 1) /\ lo(i) + (k - lo(i) + 1) - 1 = k
        BY <1>1, <2>2, <3>1
      <3>3. part(i)[k - lo(i) + 1] = x /\ k - lo(i) + 1 \in DOMAIN part(i)
        BY <1>7, <2>2, <3>2
      <3>4. QED
        BY <3>3 DEF ToSet
    <2>3. QED
      BY <2>1, <2>2
  <1>9. ASSUME IsInjective(items), NEW i \in 1 .. m
        PROVE  IsInjective(part(i))
    <2>1. lo(i) \in 1 .. n
      BY <1>4
    <2> SUFFICES ASSUME NEW a \in 1 .. (hi(i) - lo(i) + 1), NEW b \in 1 .. (hi(i) - lo(i) + 1),
                        part(i)[a] = part(i)[b]
                 PROVE  a = b
      BY <1>7 DEF IsInjective
    <2>2. items[lo(i) + a - 1] = items[lo(i) + b - 1]
      BY <1>7
    <2>3. lo(i) + a - 1 \in DOMAIN items /\ lo(i) + b - 1 \in DOMAIN items
      <3>1. DOMAIN items = 1 .. n
        BY DEF n
      <3>2. \A k \in 1 .. (hi(i) - lo(i) + 1) : lo(i) + k - 1 \in 1 .. n
        BY <1>7
      <3> HIDE DEF part
      <3>3. QED
        BY <3>1, <3>2
    <2>4. lo(i) + a - 1 = lo(i) + b - 1
      BY <1>9, <2>2, <2>3 DEF IsInjective
    <2>5. lo(i) \in Nat /\ a \in Int /\ b \in Int
      BY <1>1, <2>1
    <2>6. QED
      BY <2>4, <2>5
  <1>10. ASSUME IsInjective(items), NEW i \in 1 .. m, NEW j \in 1 .. m, i # j
         PROVE  ToSet(part(i)) \cap ToSet(part(j)) = {}
    <2> SUFFICES ASSUME NEW x \in ToSet(part(i)), x \in ToSet(part(j))
                 PROVE  FALSE
      OBVIOUS
    <2>1. PICK k \in 1 .. n : lo(i) <= k /\ k <= hi(i) /\ items[k] = x
      BY <1>8
    <2>2. PICK l \in 1 .. n : lo(j) <= l /\ l <= hi(j) /\ items[l] = x
      BY <1>8
    <2>3. k = l
      <3>1. k \in DOMAIN items /\ l \in DOMAIN items
        BY DEF n
      <3>2. QED
        BY <1>10, <2>1, <2>2, <3>1 DEF IsInjective
    <2>4. /\ lo(i) \in 1 .. n /\ hi(i) \in 1 .. n
          /\ lo(j) \in 1 .. n /\ hi(j) \in 1 .. n
      BY <1>4
    <2>5. i < j \/ j < i
      BY <1>2, <1>10
    <2>6. hi(i) < lo(j) \/ hi(j) < lo(i)
      BY <1>5, <2>5
    <2>7. QED
      BY <1>1, <2>1, <2>2, <2>3, <2>4, <2>6
  <1>11. ToSet(items) = UNION {ToSet(part(i)) : i \in 1 .. m}
    <2>1. ASSUME NEW x \in ToSet(items)
          PROVE  \E i \in 1 .. m : x \in ToSet(part(i))
      <3>1. PICK k \in 1 .. n : items[k] = x
        BY DEF ToSet, n
      <3>2. PICK i \in 1 .. m : lo(i) <= k /\ k <= hi(i)
        BY <1>6
      <3>3. QED
        BY <1>8, <3>1, <3>2
    <2>2. ASSUME NEW i \in 1 .. m, NEW x \in ToSet(part(i))
          PROVE  x \in ToSet(items)
      <3>1. PICK k \in 1 .. n : items[k] = x
        BY <1>8
      <3>2. QED
        BY <3>1 DEF ToSet, n
    <2>3. QED
      BY <2>1, <2>2
  <1> HIDE DEF part
  <1>12. DOMAIN Chunks(items, join) = 1 .. m
    BY <1>3
  <1>13. ASSUME NEW i \in 1 .. m
         PROVE  /\ Chunks(items, join)[i].join = join
                /\ Chunks(items, join)[i].items = part(i)
                /\ Chunks(items, join)[i] \in Chunk
    BY <1>3, <1>7 DEF Chunk
  <1>14. Chunks(items, join) \in Seq(Chunk)
    <2>1. \A i \in 1 .. m : [items |-> part(i), join |-> join] \in Chunk
      BY <1>7 DEF Chunk
    <2>2. QED
      BY <1>2, <1>3, <2>1
  <1>15. ItemsOf(Chunks(items, join)) = ToSet(items)
    BY <1>11, <1>12, <1>13 DEF ItemsOf
  <1>16. QED
    BY <1>7, <1>9, <1>10, <1>12, <1>13, <1>14, <1>15

\* There is a chunk exactly if there is an item.
LEMMA HowManyChunks ==
  ASSUME NEW items \in Seq(Function), NEW join \in FunctionOrNull
  PROVE  items = <<>> <=> Len(Chunks(items, join)) = 0
  <1> DEFINE q == Chunks(items, join)
  <1>1. /\ q \in Seq(Chunk) /\ ItemsOf(q) = ToSet(items)
        /\ \A i \in DOMAIN q : q[i].items # <<>>
    BY ChunksFacts
  <1> HIDE DEF q
  <1>2. DOMAIN q = 1 .. Len(q) /\ Len(q) \in Nat
    BY <1>1
  <1>3. ASSUME items # <<>>
        PROVE  Len(q) # 0
    <2>1. items[1] \in ToSet(items)
      BY <1>3 DEF ToSet
    <2>2. \E i \in DOMAIN q : items[1] \in ToSet(q[i].items)
      BY <1>1, <2>1 DEF ItemsOf
    <2>3. QED
      BY <1>2, <2>2
  <1>4. ASSUME Len(q) # 0
        PROVE  items # <<>>
    <2>1. 1 \in DOMAIN q /\ q[1] \in Chunk /\ q[1].items # <<>>
      BY <1>1, <1>2, <1>4
    <2>2. q[1].items \in Seq(Function)
      BY <2>1 DEF Chunk
    <2>3. q[1].items[1] \in ToSet(q[1].items)
      BY <2>1, <2>2 DEF ToSet
    <2>4. q[1].items[1] \in ToSet(items)
      BY <1>1, <2>1, <2>3 DEF ItemsOf
    <2>5. QED
      BY <2>4 DEF ToSet
  <1>5. QED
    BY <1>3, <1>4 DEF q

-----------------------------------------------------------------------------
\* Least indices, and how many tasks a ParallelFor waits for.

LEMMA LeastOf ==
  ASSUME NEW S \in SUBSET Nat, S # {}
  PROVE  \E x \in S : \A y \in S : x <= y
  <1>1. PICK R : R = OpToRel(<, Nat)
    OBVIOUS
  <1>2. IsWellFoundedOn(R, Nat)
    BY <1>1, NatLessThanWellFounded
  <1>3. PICK x \in S : \A y \in S : ~(<<y, x>> \in R)
    BY <1>2, WFMin
  <1>4. ASSUME NEW i \in Nat, NEW j \in Nat, i < j
        PROVE  <<i, j>> \in R
    BY <1>1, <1>4 DEF OpToRel
  <1>5. ASSUME NEW y \in S
        PROVE  x <= y
    <2>1. x \in Nat /\ y \in Nat
      OBVIOUS
    <2>2. ~(y < x)
      BY <1>3, <1>4, <2>1
    <2>3. QED
      BY <2>1, <2>2
  <1>6. QED
    BY <1>5

\* The chunks of a queue are finitely many, and so are those in hand.
LEMMA InQueueFinite ==
  ASSUME NEW q \in Seq(Chunk), NEW j
  PROVE  IsFiniteSet(InQueue(q, j)) /\ Cardinality(InQueue(q, j)) \in Nat
  <1>1. IsFiniteSet(1 .. Len(q))
    BY FS_Interval
  <1>2. InQueue(q, j) \in SUBSET (1 .. Len(q))
    BY DEF InQueue
  <1>3. IsFiniteSet(InQueue(q, j))
    BY <1>1, <1>2, FS_Subset
  <1>4. QED
    BY <1>3, FS_CardinalityType

LEMMA ExecutorFinite ==
  ASSUME NEW S \in SUBSET Executor
  PROVE  IsFiniteSet(S) /\ Cardinality(S) \in Nat
  <1>1. IsFiniteSet(Executor)
    BY WorkerAssumption, FS_AddElement DEF Executor
  <1>2. IsFiniteSet(S)
    BY <1>1, FS_Subset
  <1>3. QED
    BY <1>2, FS_CardinalityType

\* Taking the first chunk away.
LEMMA InQueueTail ==
  ASSUME NEW q \in Seq(Chunk), q # <<>>, NEW j
  PROVE  Cardinality(InQueue(q, j)) =
           Cardinality(InQueue(Tail(q), j)) + (IF Head(q).join = j THEN 1 ELSE 0)
  <1>1. /\ Len(q) \in Nat /\ Len(q) >= 1 /\ Tail(q) \in Seq(Chunk) /\ Len(Tail(q)) = Len(q) - 1
        /\ Head(q) = q[1] /\ \A i \in 1 .. Len(q) - 1 : Tail(q)[i] = q[i + 1]
    OBVIOUS
  <1> DEFINE A == InQueue(q, j)
             B == InQueue(Tail(q), j)
  <1>2. IsFiniteSet(A) /\ Cardinality(A) \in Nat /\ IsFiniteSet(B) /\ Cardinality(B) \in Nat
    BY <1>1, InQueueFinite
  <1>3. A = {i \in 1 .. Len(q) : q[i].join = j}
    BY DEF InQueue
  <1>4. B = {i \in 1 .. Len(q) - 1 : q[i + 1].join = j}
    BY <1>1 DEF InQueue
  <1> HIDE DEF A, B
  <1> DEFINE r == [i \in B |-> i + 1]
  <1>5. r \in Bijection(B, A \ {1})
    <2>1. \A i \in B : i + 1 \in A \ {1}
      BY <1>1, <1>3, <1>4
    <2>2. r \in [B -> A \ {1}]
      BY <2>1
    <2>3. \A a, b \in B : r[a] = r[b] => a = b
      BY <1>4
    <2>4. \A t \in A \ {1} : \E i \in B : r[i] = t
      <3> SUFFICES ASSUME NEW t \in A, t # 1
                   PROVE  \E i \in B : i + 1 = t
        OBVIOUS
      <3>1. t - 1 \in B /\ (t - 1) + 1 = t
        BY <1>1, <1>3, <1>4
      <3>2. QED
        BY <3>1
    <2> HIDE DEF r
    <2>5. r \in Injection(B, A \ {1})
      BY <2>2, <2>3 DEF Injection, IsInjective
    <2>6. r \in Surjection(B, A \ {1})
      BY <2>2, <2>4 DEF Surjection
    <2>7. QED
      BY <2>5, <2>6 DEF Bijection
  <1>6. Cardinality(A \ {1}) = Cardinality(B)
    BY <1>2, <1>5, FS_Bijection DEF ExistsBijection
  <1>7. Cardinality(A \ {1}) = IF 1 \in A THEN Cardinality(A) - 1 ELSE Cardinality(A)
    BY <1>2, FS_RemoveElement
  <1>8. 1 \in A <=> Head(q).join = j
    BY <1>1, <1>3
  <1>9. QED
    BY <1>2, <1>6, <1>7, <1>8 DEF A, B

\* Adding chunks of one join, which the queue has none of yet.
LEMMA InQueueConcat ==
  ASSUME NEW q \in Seq(Chunk), NEW r \in Seq(Chunk), NEW join,
         \A i \in DOMAIN r : r[i].join = join,
         InQueue(q, join) = {}, NEW j
  PROVE  Cardinality(InQueue(q \o r, j)) =
           IF j = join THEN Len(r) ELSE Cardinality(InQueue(q, j))
  <1>1. /\ Len(q) \in Nat /\ Len(r) \in Nat /\ Len(q \o r) = Len(q) + Len(r)
        /\ DOMAIN (q \o r) = 1 .. Len(q) + Len(r)
        /\ \A i \in 1 .. Len(q) : (q \o r)[i] = q[i]
        /\ \A i \in 1 .. Len(r) : (q \o r)[Len(q) + i] = r[i]
    OBVIOUS
  <1>2. ASSUME NEW i \in 1 .. Len(q) + Len(r)
        PROVE  i \in 1 .. Len(q) \/ \E k \in 1 .. Len(r) : i = Len(q) + k
    <2>1. CASE i <= Len(q)
      BY <2>1, <1>1
    <2>2. CASE i > Len(q)
      <3>1. i - Len(q) \in 1 .. Len(r) /\ i = Len(q) + (i - Len(q))
        BY <1>1, <2>2
      <3>2. QED
        BY <3>1
    <2>3. QED
      BY <1>1, <2>1, <2>2
  <1>3. CASE j # join
    <2>1. InQueue(q \o r, j) = InQueue(q, j)
      BY <1>1, <1>2, <1>3 DEF InQueue
    <2>2. QED
      BY <1>3, <2>1
  <1>4. CASE j = join
    <2>1. \A i \in 1 .. Len(q) : q[i].join # join
      BY DEF InQueue
    <2>2. InQueue(q \o r, j) = Len(q) + 1 .. Len(q) + Len(r)
      <3>1. ASSUME NEW i \in InQueue(q \o r, j)
            PROVE  i \in Len(q) + 1 .. Len(q) + Len(r)
        <4>1. i \in 1 .. Len(q) + Len(r) /\ (q \o r)[i].join = join
          BY <1>1, <1>4 DEF InQueue
        <4>2. i \notin 1 .. Len(q)
          BY <1>1, <2>1, <4>1
        <4>3. QED
          BY <1>1, <4>1, <4>2
      <3>2. ASSUME NEW i \in Len(q) + 1 .. Len(q) + Len(r)
            PROVE  i \in InQueue(q \o r, j)
        <4>1. i \in 1 .. Len(q) + Len(r) /\ i \notin 1 .. Len(q)
          BY <1>1
        <4>2. PICK k \in 1 .. Len(r) : i = Len(q) + k
          BY <1>2, <4>1
        <4>3. (q \o r)[i].join = join
          BY <1>1, <4>2
        <4>4. QED
          BY <1>1, <1>4, <4>1, <4>3 DEF InQueue
      <3>3. QED
        BY <3>1, <3>2
    <2>3. Cardinality(Len(q) + 1 .. Len(q) + Len(r)) = Len(r)
      <3>1. PICK a \in Int : a = Len(q) + 1
        BY <1>1
      <3>2. PICK b \in Int : b = Len(q) + Len(r)
        BY <1>1
      <3>3. Cardinality(a .. b) = IF a > b THEN 0 ELSE b - a + 1
        BY FS_Interval
      <3>4. QED
        BY <1>1, <3>1, <3>2, <3>3
    <2>4. QED
      BY <1>4, <2>2, <2>3
  <1>5. QED
    BY <1>3, <1>4

-----------------------------------------------------------------------------
\* Between frames nothing is queued, in hand or waited for.

\* A state in which nobody has anything to do keeps what a frame promises.
LEMMA RestInv ==
  ASSUME queue' = <<>>, executed' = <<>>, ToSet(roots') = {},
         \A w \in Executor : worker'[w] = Idle,
         \A j \in FunctionOrNull : open'[j] = 0
  PROVE  Ordered' /\ QueuedFunctionsLive' /\ FrameInv'
  <1>1. \A w \in Executor : worker'[w].step = "idle" /\ worker'[w].items = <<>>
    BY DEF Idle
  <1>2. ToSet(<<>>) = {} /\ IsInjective(<<>>)
    BY DEF ToSet, IsInjective
  <1>3. DOMAIN queue' = {} /\ DOMAIN executed' = {}
    OBVIOUS
  <1>4. Executed' = {} /\ Queued' = {} /\ Carried' = {}
    BY <1>1, <1>2, <1>3 DEF Executed, Queued, ItemsOf, Carried
  <1>5. Pending' = {} /\ Reached' = {}
    BY <1>4 DEF Pending, Reached
  <1>6. \A steps \in SUBSET (Step \ {"idle"}) : At(steps)' = {}
    BY <1>1 DEF At
  <1>7. At({"clean", "fork"})' = {} /\ At({"join"})' = {} /\ At(Step \ {"idle"})' = {}
    BY <1>1 DEF At, Step
  <1>8. Cleaning' = {} /\ Joining' = {}
    BY <1>7 DEF Cleaning, Joining
  <1>9. Ordered'
    BY <1>3 DEF Ordered
  <1>10. QueuedFunctionsLive'
    BY <1>1, <1>2, <1>3 DEF QueuedFunctionsLive
  <1>11. WorkInv'
    BY <1>1, <1>3, <1>7 DEF WorkInv
  <1>12. DistinctInv'
    BY <1>1, <1>2, <1>3, <1>4 DEF DistinctInv
  <1>13. JoinInv'
    BY <1>3, <1>7 DEF JoinInv
  <1>14. OpenInv'
    <2> SUFFICES ASSUME NEW j \in FunctionOrNull
                 PROVE  Waits(open'[j], Cardinality(InQueue(queue', j)) + Cardinality(InHand(j)'))
      BY DEF OpenInv
    <2>1. InQueue(queue', j) = {}
      BY <1>3 DEF InQueue
    <2>2. InHand(j)' = {}
      BY <1>7 DEF InHand
    <2>3. Cardinality({}) = 0
      BY FS_EmptySet
    <2>4. open'[j] = 0
      OBVIOUS
    <2>5. Cardinality(InQueue(queue', j)) = 0
      BY ONLY <2>1, <2>3
    <2>6. Cardinality(InHand(j)') = 0
      BY ONLY <2>2, <2>3
    <2>7. QED
      BY ONLY <2>4, <2>5, <2>6 DEF Waits
  <1>15. OrderInv'
    BY <1>4, <1>5, <1>8 DEF OrderInv
  <1>16. CoverInv'
    BY <1>4, <1>5 DEF CoverInv
  <1>17. LiveInv'
    BY <1>5 DEF LiveInv
  <1>18. QED
    BY <1>9, <1>10, <1>11, <1>12, <1>13, <1>14, <1>15, <1>16, <1>17 DEF FrameInv

\* Between frames the model is in such a state.
LEMMA AtRest ==
  ASSUME TypeInv, FrameInv, frame = None
  PROVE  /\ queue = <<>> /\ executed = <<>> /\ ToSet(roots) = {}
         /\ \A w \in Executor : worker[w] = Idle
         /\ \A j \in FunctionOrNull : open[j] = 0
  <1>1. queue = <<>> /\ executed = <<>> /\ At(Step \ {"idle"}) = {}
    BY DEF FrameInv, WorkInv
  <1>2. ASSUME NEW w \in Executor
        PROVE  worker[w] = Idle
    <2>1. worker[w].step \in Step
      BY DEF TypeInv, Work
    <2>2. worker[w].step = "idle"
      BY <1>1, <2>1 DEF At
    <2>3. QED
      BY <2>2 DEF FrameInv, WorkInv
  <1>3. \A w \in Executor : worker[w].items = <<>>
    BY <1>2 DEF Idle
  <1>4. ToSet(<<>>) = {}
    BY DEF ToSet
  <1>5. Reached = {}
    BY <1>1, <1>3, <1>4 DEF Reached, Executed, Pending, Queued, ItemsOf, Carried
  <1>6. ToSet(roots) = {}
    BY <1>5 DEF FrameInv, CoverInv
  <1>7. ASSUME NEW j \in FunctionOrNull
        PROVE  open[j] = 0
    <2>1. InQueue(queue, j) = {}
      BY <1>1 DEF InQueue
    <2>2. InHand(j) = {}
      BY <1>1 DEF InHand
    <2>3. Waits(open[j], Cardinality({}) + Cardinality({})) /\ open[j] \in Nat
      BY <2>1, <2>2 DEF FrameInv, OpenInv, TypeInv
    <2>4. QED
      BY <2>3, FS_EmptySet DEF Waits
  <1>8. QED
    BY <1>1, <1>2, <1>6, <1>7

\* So what the main thread does between frames touches nothing of a frame.
LEMMA MainInv ==
  ASSUME TickInv, MainMay, UNCHANGED <<frameVars, executed>>
  PROVE  Ordered' /\ QueuedFunctionsLive' /\ FrameInv'
  <1>1. /\ queue = <<>> /\ executed = <<>> /\ ToSet(roots) = {}
        /\ \A w \in Executor : worker[w] = Idle
        /\ \A j \in FunctionOrNull : open[j] = 0
    BY AtRest DEF TickInv, MainMay
  <1>2. /\ queue' = queue /\ executed' = executed /\ roots' = roots
        /\ worker' = worker /\ open' = open
    BY DEF frameVars
  <1>3. QED
    BY <1>1, <1>2, RestInv

\* Whoever follows a freed parent changes nothing else.
LEMMA FollowInv ==
  ASSUME TickInv, FollowFreedParent
  PROVE  TickInv'
  <1>1. undefined' # "no" /\ UNCHANGED <<treeVars, frameVars, last, now, executed, before>>
    BY DEF FollowFreedParent
  <1>2. TypeInv'
    BY <1>1 DEF TickInv, TypeInv, treeVars, frameVars
  <1>3. TreeInv'
    BY <1>1 DEF TickInv, TreeInv, treeVars
  <1>4. Ordered' /\ QueuedFunctionsLive'
    BY <1>1 DEF TickInv, Ordered, QueuedFunctionsLive, treeVars, frameVars
  <1>5. QED
    BY <1>1, <1>2, <1>3, <1>4 DEF TickInv

-----------------------------------------------------------------------------
\* The initial state, and the main thread's operations on the trees.

LEMMA TickInitInv == Init => TickInv
  <1> SUFFICES ASSUME Init PROVE TickInv
    OBVIOUS
  <1>1. TypeInv
    <2>1. worker \in [Executor -> Work]
      BY DEF Init, Idle, Work, FunctionOrNull, Step
    <2>2. QED
      BY <2>1, MaxFramesAssumption DEF Init, TypeInv, FunctionOrNull
  <1>2. ToSet(<<>>) = {} /\ IsInjective(<<>>)
    BY DEF ToSet, IsInjective
  <1>3. TreeInv
    BY <1>2, NoneAssumption DEF Init, TreeInv
  <1>4. /\ queue = <<>> /\ executed = <<>> /\ roots = <<>>
        /\ \A w \in Executor : worker[w] = Idle
        /\ \A j \in FunctionOrNull : open[j] = 0
    BY DEF Init
  <1>5. \A w \in Executor : worker[w].step = "idle" /\ worker[w].items = <<>>
    BY <1>4 DEF Idle
  <1>6. DOMAIN queue = {} /\ DOMAIN executed = {}
    BY <1>4
  <1>7. Executed = {} /\ Queued = {} /\ Carried = {} /\ Pending = {} /\ Reached = {}
    BY <1>2, <1>4, <1>5, <1>6 DEF Executed, Queued, ItemsOf, Carried, Pending, Reached
  <1>8. At({"clean", "fork"}) = {} /\ At({"join"}) = {} /\ At(Step \ {"idle"}) = {}
    BY <1>5 DEF At, Step
  <1>9. Cleaning = {} /\ Joining = {}
    BY <1>8 DEF Cleaning, Joining
  <1>10. Ordered /\ QueuedFunctionsLive
    BY <1>2, <1>5, <1>6 DEF Ordered, QueuedFunctionsLive
  <1>11. WorkInv /\ DistinctInv /\ JoinInv
    BY <1>2, <1>4, <1>5, <1>6, <1>7, <1>8 DEF WorkInv, DistinctInv, JoinInv
  <1>12. OpenInv
    <2> SUFFICES ASSUME NEW j \in FunctionOrNull
                 PROVE  Waits(open[j], Cardinality(InQueue(queue, j)) + Cardinality(InHand(j)))
      BY DEF OpenInv
    <2>1. InQueue(queue, j) = {} /\ InHand(j) = {}
      BY <1>6, <1>8 DEF InQueue, InHand
    <2>2. Cardinality({}) = 0
      BY FS_EmptySet
    <2>3. Cardinality(InQueue(queue, j)) = 0 /\ Cardinality(InHand(j)) = 0
      BY ONLY <2>1, <2>2
    <2>4. open[j] = 0
      BY <1>4
    <2>5. QED
      BY ONLY <2>3, <2>4 DEF Waits
  <1>13. OrderInv /\ CoverInv /\ LiveInv
    BY <1>2, <1>4, <1>7, <1>9 DEF OrderInv, CoverInv, LiveInv
  <1>14. QED
    BY <1>1, <1>3, <1>10, <1>11, <1>12, <1>13 DEF TickInv, FrameInv

\* After p->DeleteDependency(f) only p's list has changed, and f is not in it.
LEMMA WithoutFacts ==
  ASSUME TypeInv, TreeInv, NEW p \in live, NEW f \in live
  PROVE  /\ Without(p, f) \in [Function -> Seq(Function)]
         /\ \A q \in Function : q # p => Without(p, f)[q] = dependents[q]
         /\ ToSet(Without(p, f)[p]) = ToSet(dependents[p]) \ {f}
         /\ IsInjective(Without(p, f)[p])
  <1>1. p \in Function /\ dependents[p] \in Seq(Function) /\ IsInjective(dependents[p])
    BY DEF TypeInv, TreeInv
  <1>2. /\ Filter(dependents[p], Function \ {f}) \in Seq(Function)
        /\ ToSet(Filter(dependents[p], Function \ {f}))
             = ToSet(dependents[p]) \cap (Function \ {f})
        /\ IsInjective(Filter(dependents[p], Function \ {f}))
    BY <1>1, FilterFacts
  <1>3. ToSet(dependents[p]) \subseteq Function
    BY <1>1 DEF ToSet
  <1>4. Without(p, f) = [dependents EXCEPT ![p] = Filter(dependents[p], Function \ {f})]
    BY DEF Without
  <1>5. QED
    BY <1>1, <1>2, <1>3, <1>4 DEF TypeInv

\* AddDependency moves c from its parent's list to p's.
LEMMA AddDependencyInv ==
  ASSUME TickInv, NEW p \in Function, NEW c \in Function, AddDependency(p, c)
  PROVE  TickInv'
  <1>1. TypeInv /\ TreeInv /\ MainMay /\ p \in live /\ c \in live
    BY DEF AddDependency, TickInv, TypeInv
  <1>2. CASE ~(parent[c] = None \/ parent[c] \in live)
    <2>1. FollowFreedParent
      BY <1>2 DEF AddDependency
    <2>2. QED
      BY <2>1, FollowInv
  <1>3. CASE parent[c] = None \/ parent[c] \in live
    <2> DEFINE lists == IF parent[c] = None THEN dependents ELSE Without(parent[c], c)
    <2>1. /\ dependents' = [lists EXCEPT ![p] = Append(@, c)]
          /\ parent' = [parent EXCEPT ![c] = p]
          /\ UNCHANGED <<held, live, groups, frameVars, last, now, undefined, executed, before>>
      BY <1>3 DEF AddDependency
    <2>2. /\ lists \in [Function -> Seq(Function)]
          /\ \A q \in Function : ToSet(lists[q]) = ToSet(dependents[q]) \ {c}
          /\ \A q \in live : IsInjective(lists[q])
      <3>1. CASE parent[c] = None
        <4>1. lists = dependents
          BY <3>1
        <4>2. \A q \in Function : c \notin ToSet(dependents[q])
          <5> SUFFICES ASSUME NEW q \in Function, c \in ToSet(dependents[q])
                       PROVE  FALSE
            OBVIOUS
          <5>1. q \in live
            BY <1>1 DEF TreeInv
          <5>2. parent[c] = q
            BY <1>1, <5>1 DEF TreeInv
          <5>3. QED
            BY <3>1, <5>2, NoneAssumption
        <4>3. QED
          BY <1>1, <4>1, <4>2 DEF TypeInv, TreeInv
      <3>2. CASE parent[c] # None /\ parent[c] \in live
        <4>1. lists = Without(parent[c], c)
          BY <3>2
        <4>2. /\ lists \in [Function -> Seq(Function)]
              /\ \A q \in Function : q # parent[c] => lists[q] = dependents[q]
              /\ ToSet(lists[parent[c]]) = ToSet(dependents[parent[c]]) \ {c}
              /\ IsInjective(lists[parent[c]])
          BY <1>1, <3>2, <4>1, WithoutFacts
        <4>3. \A q \in Function : q # parent[c] => c \notin ToSet(dependents[q])
          BY <1>1, <3>2 DEF TypeInv, TreeInv
        <4>4. \A q \in live : IsInjective(dependents[q])
          BY <1>1 DEF TreeInv
        <4> HIDE DEF lists
        <4>5. \A q \in Function : ToSet(lists[q]) = ToSet(dependents[q]) \ {c}
          BY <4>2, <4>3
        <4>6. \A q \in live : q \in Function
          BY <1>1 DEF TypeInv
        <4>7. \A q \in live : IsInjective(lists[q])
          BY <4>2, <4>4, <4>6
        <4>8. QED
          BY <4>2, <4>5, <4>7
      <3>3. QED
        BY <1>3, <3>1, <3>2
    <2> HIDE DEF lists
    <2>3. /\ dependents' \in [Function -> Seq(Function)]
          /\ \A q \in Function : q # p => dependents'[q] = lists[q]
          /\ dependents'[p] = Append(lists[p], c)
      BY <2>1, <2>2
    <2>4. ToSet(Append(lists[p], c)) = ToSet(lists[p]) \cup {c}
      <3>1. lists[p] \in Seq(Function)
        BY <2>2
      <3>2. QED
        BY <3>1, ToSetAppend
    <2>5. IsInjective(Append(lists[p], c))
      <3>1. lists[p] \in Seq(Function) /\ IsInjective(lists[p]) /\ c \notin ToSet(lists[p])
        BY <1>1, <2>2
      <3> HIDE DEF lists
      <3>2. QED
        BY <3>1 DEF IsInjective, ToSet
    <2>6. TypeInv'
      BY <1>1, <2>1, <2>3 DEF TypeInv, frameVars, FunctionOrNull
    <2>7. TreeInv'
      <3>1. live' = live /\ groups' = groups
        BY <2>1
      <3>2. \A f \in Function \ live : ToSet(dependents'[f]) = {}
        <4> SUFFICES ASSUME NEW f \in Function, f \notin live
                     PROVE  ToSet(dependents'[f]) = {}
          OBVIOUS
        <4>1. ToSet(dependents[f]) = {}
          BY <1>1 DEF TreeInv
        <4>2. f # p
          BY <1>1
        <4>3. QED
          BY <2>2, <2>3, <4>1, <4>2
      <3>3. \A f \in live : IsInjective(dependents'[f]) /\ ToSet(dependents'[f]) \subseteq live
        <4> SUFFICES ASSUME NEW f \in live
                     PROVE  IsInjective(dependents'[f]) /\ ToSet(dependents'[f]) \subseteq live
          OBVIOUS
        <4>1. f \in Function
          BY <1>1 DEF TypeInv
        <4>2. ToSet(dependents[f]) \subseteq live
          BY <1>1 DEF TreeInv
        <4>3. ToSet(lists[f]) \subseteq live /\ IsInjective(lists[f])
          BY <2>2, <4>1, <4>2
        <4>4. CASE f = p
          <5>1. dependents'[f] = Append(lists[p], c)
            BY <2>3, <4>4
          <5>2. ToSet(dependents'[f]) = ToSet(lists[f]) \cup {c} /\ c \in live
            BY <1>1, <2>4, <4>4, <5>1
          <5>3. QED
            BY ONLY <2>5, <4>3, <5>1, <5>2
        <4>5. CASE f # p
          BY <2>3, <4>1, <4>3, <4>5
        <4>6. QED
          BY <4>4, <4>5
      <3>4. \A q, f \in live : f \in ToSet(dependents'[q]) <=> parent'[f] = q
        <4> SUFFICES ASSUME NEW q \in live, NEW f \in live
                     PROVE  f \in ToSet(dependents'[q]) <=> parent'[f] = q
          OBVIOUS
        <4>1. q \in Function /\ f \in Function
          BY <1>1 DEF TypeInv
        <4>2. f \in ToSet(dependents[q]) <=> parent[f] = q
          BY <1>1 DEF TreeInv
        <4>3. parent'[f] = IF f = c THEN p ELSE parent[f]
          BY <1>1, <2>1, <4>1 DEF TypeInv
        <4>4. f \in ToSet(dependents'[q]) <=>
                (f \in ToSet(dependents[q]) /\ f # c) \/ (q = p /\ f = c)
          <5>1. f \in ToSet(lists[q]) <=> f \in ToSet(dependents[q]) /\ f # c
            BY <2>2, <4>1
          <5>2. CASE q = p
            BY <2>3, <2>4, <5>1, <5>2
          <5>3. CASE q # p
            BY <2>3, <4>1, <5>1, <5>3
          <5>4. QED
            BY <5>2, <5>3
        <4>5. QED
          BY <4>2, <4>3, <4>4
      <3>5. QED
        BY <1>1, <3>1, <3>2, <3>3, <3>4 DEF TreeInv
    <2>8. Ordered' /\ QueuedFunctionsLive' /\ FrameInv'
      BY <1>1, <2>1, MainInv
    <2>9. QED
      BY <2>6, <2>7, <2>8 DEF TickInv
  <1>4. QED
    BY <1>2, <1>3

\* DeleteDependency takes c from p's list, which may free it.
LEMMA DeleteDependencyInv ==
  ASSUME TickInv, NEW p \in Function, NEW c \in Function, DeleteDependency(p, c)
  PROVE  TickInv'
  <1>1. TypeInv /\ TreeInv /\ MainMay /\ p \in live
    BY DEF DeleteDependency, TickInv, TypeInv
  <1>2. /\ parent' = [parent EXCEPT ![c] = None]
        /\ Free(held, Without(p, c))
        /\ UNCHANGED <<held, groups, frameVars, last, now, undefined, executed, before>>
    BY DEF DeleteDependency
  <1>3. c \in ToSet(dependents[p]) /\ c \in live /\ parent[c] = p
    <2>1. dependents[p] \in Seq(Function)
      BY <1>1 DEF TypeInv
    <2>2. c \in ToSet(dependents[p])
      BY <2>1, ContainsIsMember DEF DeleteDependency
    <2>3. QED
      BY <1>1, <2>2 DEF TreeInv
  <1>4. /\ Without(p, c) \in [Function -> Seq(Function)]
        /\ \A q \in Function : q # p => Without(p, c)[q] = dependents[q]
        /\ ToSet(Without(p, c)[p]) = ToSet(dependents[p]) \ {c}
        /\ IsInjective(Without(p, c)[p])
    BY <1>1, <1>3, WithoutFacts
  <1>5. PICK lists \in [Function -> Seq(Function)] : lists = Without(p, c)
    BY <1>4
  <1>6. \A q \in Function : ToSet(lists[q]) \subseteq ToSet(dependents[q])
    BY <1>4, <1>5
  <1>7. \A f \in Function \ live : ToSet(lists[f]) = {}
    <2>1. \A f \in Function \ live : ToSet(dependents[f]) = {}
      BY <1>1 DEF TreeInv
    <2>2. QED
      BY <1>6, <2>1
  <1>8. \A f \in live : IsInjective(lists[f]) /\ ToSet(lists[f]) \subseteq live
    <2> SUFFICES ASSUME NEW f \in live
                 PROVE  IsInjective(lists[f]) /\ ToSet(lists[f]) \subseteq live
      OBVIOUS
    <2>1. f \in Function
      BY <1>1 DEF TypeInv
    <2>2. IsInjective(dependents[f]) /\ ToSet(dependents[f]) \subseteq live
      BY <1>1 DEF TreeInv
    <2>3. IsInjective(lists[f])
      BY <1>4, <1>5, <2>1, <2>2
    <2>4. QED
      BY <1>6, <2>1, <2>2, <2>3
  <1>9. \A q, f \in live : f \in ToSet(lists[q]) <=> parent'[f] = q
    <2> SUFFICES ASSUME NEW q \in live, NEW f \in live
                 PROVE  f \in ToSet(lists[q]) <=> parent'[f] = q
      OBVIOUS
    <2>1. q \in Function /\ f \in Function /\ q # None
      BY <1>1, NoneAssumption DEF TypeInv
    <2>2. f \in ToSet(dependents[q]) <=> parent[f] = q
      BY <1>1 DEF TreeInv
    <2>3. parent'[f] = IF f = c THEN None ELSE parent[f]
      BY <1>1, <1>2, <2>1 DEF TypeInv
    <2>4. f \in ToSet(lists[q]) <=> f \in ToSet(dependents[q]) /\ ~(q = p /\ f = c)
      <3>1. CASE q = p
        BY <1>4, <1>5, <3>1
      <3>2. CASE q # p
        BY <1>4, <1>5, <2>1, <3>2
      <3>3. QED
        BY <3>1, <3>2
    <2>5. QED
      BY <1>3, <2>1, <2>2, <2>3, <2>4
  <1>10. held \in SUBSET live /\ live' \subseteq live
    BY <1>1, <1>2, KeptFacts DEF TypeInv, Free
  <1>11. /\ TreeInv' /\ held' \subseteq live' /\ live' \subseteq live
         /\ dependents' \in [Function -> Seq(Function)]
    <2>1. Free(held, lists) /\ \A q, f \in live' : f \in ToSet(lists[q]) <=> parent'[f] = q
      BY <1>2, <1>5, <1>9, <1>10
    <2>2. QED
      BY <1>1, <1>2, <1>7, <1>8, <1>10, <2>1, FreeTree
  <1>12. TypeInv'
    BY <1>1, <1>2, <1>11 DEF TypeInv, frameVars, FunctionOrNull
  <1>13. Ordered' /\ QueuedFunctionsLive' /\ FrameInv'
    BY <1>1, <1>2, MainInv
  <1>14. QED
    BY <1>11, <1>12, <1>13 DEF TickInv

\* Register takes a function from its parent and gives it to its group.
LEMMA RegisterInv ==
  ASSUME TickInv, NEW f \in Function, Register(f)
  PROVE  TickInv'
  <1>1. TypeInv /\ TreeInv /\ MainMay /\ f \in live
    BY DEF Register, TickInv, TypeInv
  <1>2. CASE ~(parent[f] = None \/ parent[f] \in live)
    <2>1. FollowFreedParent
      BY <1>2 DEF Register
    <2>2. QED
      BY <2>1, FollowInv
  <1>3. CASE parent[f] = None \/ parent[f] \in live
    <2>1. /\ groups' = IF groups[TypeOf[f]] = <<>>
                       THEN [groups EXCEPT ![TypeOf[f]] = <<f>>] ELSE groups
          /\ UNCHANGED <<held, live, frameVars, last, now, undefined, executed, before>>
      BY <1>3 DEF Register
    <2>2. /\ parent' = [parent EXCEPT ![f] = None]
          /\ dependents' \in [Function -> Seq(Function)]
          /\ \A q \in Function : ToSet(dependents'[q]) = ToSet(dependents[q]) \ {f}
          /\ \A q \in live : IsInjective(dependents'[q])
      <3>1. CASE parent[f] = None
        <4>1. parent' = parent /\ dependents' = dependents
          BY <1>3, <3>1 DEF Register
        <4>2. \A q \in Function : f \notin ToSet(dependents[q])
          <5> SUFFICES ASSUME NEW q \in Function, f \in ToSet(dependents[q])
                       PROVE  FALSE
            OBVIOUS
          <5>1. q \in live
            BY <1>1 DEF TreeInv
          <5>2. parent[f] = q
            BY <1>1, <5>1 DEF TreeInv
          <5>3. QED
            BY <3>1, <5>2, NoneAssumption
        <4>3. \A q \in live : IsInjective(dependents[q])
          BY <1>1 DEF TreeInv
        <4>4. parent = [parent EXCEPT ![f] = None] /\ dependents \in [Function -> Seq(Function)]
          BY <1>1, <3>1 DEF TypeInv
        <4>5. QED
          BY <4>1, <4>2, <4>3, <4>4
      <3>2. CASE parent[f] # None /\ parent[f] \in live
        <4>1. parent' = [parent EXCEPT ![f] = None] /\ dependents' = Without(parent[f], f)
          BY <3>2 DEF Register
        <4>2. /\ dependents' \in [Function -> Seq(Function)]
              /\ \A q \in Function : q # parent[f] => dependents'[q] = dependents[q]
              /\ ToSet(dependents'[parent[f]]) = ToSet(dependents[parent[f]]) \ {f}
              /\ IsInjective(dependents'[parent[f]])
          BY <1>1, <3>2, <4>1, WithoutFacts
        <4>3. \A q \in Function : q # parent[f] => f \notin ToSet(dependents[q])
          BY <1>1, <3>2 DEF TypeInv, TreeInv
        <4>4. \A q \in live : IsInjective(dependents[q])
          BY <1>1 DEF TreeInv
        <4>5. \A q \in Function : ToSet(dependents'[q]) = ToSet(dependents[q]) \ {f}
          BY <4>2, <4>3
        <4>6. \A q \in live : q \in Function
          BY <1>1 DEF TypeInv
        <4>7. \A q \in live : IsInjective(dependents'[q])
          BY <4>2, <4>4, <4>6
        <4>8. QED
          BY <4>1, <4>2, <4>5, <4>7
      <3>3. QED
        BY <1>3, <3>1, <3>2
    <2>3. TypeOf[f] \in Group
      BY TypeOfAssumption
    <2>4. TypeInv'
      <3>1. groups' \in [Group -> Seq(Function)]
        BY <1>1, <2>1, <2>3 DEF TypeInv
      <3>2. parent' \in [Function -> FunctionOrNull]
        BY <1>1, <2>2 DEF TypeInv, FunctionOrNull
      <3>3. QED
        BY <1>1, <2>1, <2>2, <3>1, <3>2 DEF TypeInv, frameVars
    <2>5. \A g \in Group : /\ IsInjective(groups'[g])
                           /\ \A h \in ToSet(groups'[g]) : h \in live' /\ TypeOf[h] = g
      <3> SUFFICES ASSUME NEW g \in Group
                   PROVE  /\ IsInjective(groups'[g])
                          /\ \A h \in ToSet(groups'[g]) : h \in live /\ TypeOf[h] = g
        BY <2>1
      <3>1. /\ IsInjective(groups[g])
            /\ \A h \in ToSet(groups[g]) : h \in live /\ TypeOf[h] = g
        BY <1>1 DEF TreeInv
      <3>2. IsInjective(<<f>>) /\ ToSet(<<f>>) = {f}
        BY DEF IsInjective, ToSet
      <3>3. groups'[g] = groups[g] \/ (g = TypeOf[f] /\ groups'[g] = <<f>>)
        BY <1>1, <2>1, <2>3 DEF TypeInv
      <3>4. QED
        BY <1>1, <3>1, <3>2, <3>3
    <2>6. TreeInv'
      <3>1. \A h \in Function \ live' : ToSet(dependents'[h]) = {}
        BY <1>1, <2>1, <2>2 DEF TreeInv
      <3>2. \A h \in live' : /\ IsInjective(dependents'[h])
                             /\ ToSet(dependents'[h]) \subseteq live'
        <4>1. \A h \in live : h \in Function /\ ToSet(dependents[h]) \subseteq live
          BY <1>1 DEF TypeInv, TreeInv
        <4>2. QED
          BY <2>1, <2>2, <4>1
      <3>3. \A q, h \in live' : h \in ToSet(dependents'[q]) <=> parent'[h] = q
        <4> SUFFICES ASSUME NEW q \in live, NEW h \in live
                     PROVE  h \in ToSet(dependents'[q]) <=> parent'[h] = q
          BY <2>1
        <4>1. q \in Function /\ h \in Function /\ q # None
          BY <1>1, NoneAssumption DEF TypeInv
        <4>2. h \in ToSet(dependents[q]) <=> parent[h] = q
          BY <1>1 DEF TreeInv
        <4>3. parent'[h] = IF h = f THEN None ELSE parent[h]
          BY <1>1, <2>2, <4>1 DEF TypeInv
        <4>4. QED
          BY <2>2, <4>1, <4>2, <4>3
      <3>4. QED
        BY <2>5, <3>1, <3>2, <3>3 DEF TreeInv
    <2>7. Ordered' /\ QueuedFunctionsLive' /\ FrameInv'
      BY <1>1, <2>1, MainInv
    <2>8. QED
      BY <2>4, <2>6, <2>7 DEF TickInv
  <1>4. QED
    BY <1>2, <1>3

\* Destroying an object frees what only the object kept.
LEMMA DestroyObjectInv ==
  ASSUME TickInv, NEW f \in Function, DestroyObject(f)
  PROVE  TickInv'
  <1>1. TypeInv /\ TreeInv /\ MainMay
    BY DEF DestroyObject, TickInv
  <1>2. /\ held' = held \ {f} /\ Free(held \ {f}, dependents)
        /\ UNCHANGED <<parent, groups, frameVars, last, now, undefined, executed, before>>
    BY DEF DestroyObject
  <1>3. held \ {f} \in SUBSET live /\ live' \subseteq live
    BY <1>1, <1>2, KeptFacts DEF TypeInv, Free
  <1>4. /\ dependents \in [Function -> Seq(Function)]
        /\ \A h \in Function \ live : ToSet(dependents[h]) = {}
        /\ \A h \in live : IsInjective(dependents[h]) /\ ToSet(dependents[h]) \subseteq live
        /\ \A q, h \in live : h \in ToSet(dependents[q]) <=> parent[h] = q
    BY <1>1 DEF TypeInv, TreeInv
  <1>5. \A q, h \in live' : h \in ToSet(dependents[q]) <=> parent'[h] = q
    BY <1>2, <1>3, <1>4
  <1>6. /\ TreeInv' /\ held' \subseteq live' /\ live' \subseteq live
        /\ dependents' \in [Function -> Seq(Function)]
    BY <1>1, <1>2, <1>3, <1>4, <1>5, FreeTree
  <1>7. TypeInv'
    BY <1>1, <1>2, <1>6 DEF TypeInv, frameVars, FunctionOrNull
  <1>8. Ordered' /\ QueuedFunctionsLive' /\ FrameInv'
    BY <1>1, <1>2, MainInv
  <1>9. QED
    BY <1>6, <1>7, <1>8 DEF TickInv

-----------------------------------------------------------------------------
\* A frame begins.

\* Only the roots are pending, each in one chunk, and no worker has begun.
LEMMA StartInv ==
  ASSUME NEW items \in Seq(Function), IsInjective(items),
         queue' = Chunks(items, None), executed' = <<>>, roots' = items,
         \A w \in Executor : worker'[w] = Idle,
         \A j \in FunctionOrNull :
            open'[j] = IF j = None /\ items # <<>> THEN Len(queue') + 1 ELSE 0,
         frame' # None,
         \A f \in ToSet(items) : /\ parent'[f] = None /\ f \in live'
                                 /\ f \in held' \/ f \in ToSet(groups'[TypeOf[f]])
  PROVE  Ordered' /\ QueuedFunctionsLive' /\ FrameInv'
  <1>1. /\ queue' \in Seq(Chunk)
        /\ \A i \in DOMAIN queue' : /\ queue'[i].join = None
                                    /\ IsInjective(queue'[i].items)
                                    /\ queue'[i].items # <<>>
        /\ ItemsOf(queue') = ToSet(items)
        /\ \A i, j \in DOMAIN queue' :
             i # j => ToSet(queue'[i].items) \cap ToSet(queue'[j].items) = {}
    <2>1. None \in FunctionOrNull
      BY DEF FunctionOrNull
    <2> DEFINE q == Chunks(items, None)
    <2>2. q \in Seq(Chunk) /\ ItemsOf(q) = ToSet(items)
      BY <2>1, ChunksFacts
    <2>3. \A i \in DOMAIN q : /\ q[i].join = None /\ IsInjective(q[i].items)
                              /\ q[i].items # <<>>
      BY <2>1, ChunksFacts
    <2>4. \A i, j \in DOMAIN q : i # j => ToSet(q[i].items) \cap ToSet(q[j].items) = {}
      BY <2>1, ChunksFacts
    <2>5. queue' = q
      OBVIOUS
    <2> HIDE DEF q
    <2>6. QED
      BY <2>2, <2>3, <2>4, <2>5
  <1>2. \A w \in Executor : worker'[w].step = "idle" /\ worker'[w].items = <<>>
    BY DEF Idle
  <1>3. ToSet(<<>>) = {} /\ IsInjective(<<>>) /\ DOMAIN executed' = {}
    BY DEF ToSet, IsInjective
  <1>4. Executed' = {} /\ Queued' = ToSet(items) /\ Carried' = {}
    BY <1>1, <1>2, <1>3 DEF Executed, Queued, ItemsOf, Carried
  <1>5. Pending' = ToSet(items) /\ Reached' = ToSet(items)
    BY <1>4 DEF Pending, Reached
  <1>6. At({"clean", "fork"})' = {} /\ At({"join"})' = {} /\ At(Step \ {"idle"})' = {}
    BY <1>2 DEF At, Step
  <1>7. Cleaning' = {} /\ Joining' = {}
    BY <1>6 DEF Cleaning, Joining
  <1>8. Ordered'
    BY <1>3 DEF Ordered
  <1>9. \A i \in DOMAIN queue' : ToSet(queue'[i].items) \subseteq ToSet(items)
    BY <1>1 DEF ItemsOf
  <1>10. QueuedFunctionsLive'
    BY <1>2, <1>3, <1>9 DEF QueuedFunctionsLive
  <1>11. WorkInv'
    BY <1>1, <1>2 DEF WorkInv
  <1>12. DistinctInv'
    BY <1>1, <1>2, <1>3, <1>4 DEF DistinctInv
  <1>13. JoinInv'
    BY <1>1, <1>6, <1>9 DEF JoinInv, Joined
  <1>14. OpenInv'
    <2> SUFFICES ASSUME NEW j \in FunctionOrNull
                 PROVE  Waits(open'[j], Cardinality(InQueue(queue', j)) + Cardinality(InHand(j)'))
      BY DEF OpenInv
    <2>1. InHand(j)' = {}
      BY <1>6 DEF InHand
    <2>2. Cardinality({}) = 0
      BY FS_EmptySet
    <2>3. Cardinality(InHand(j)') = 0
      BY ONLY <2>1, <2>2
    <2>4. Len(queue') \in Nat
      BY <1>1
    <2>5. CASE j = None
      <3>1. InQueue(queue', j) = 1 .. Len(queue')
        BY <1>1, <2>5 DEF InQueue
      <3>2. Cardinality(1 .. Len(queue')) = Len(queue')
        <4>1. PICK n \in Nat : n = Len(queue')
          BY <2>4
        <4>2. Cardinality(1 .. n) = n
          BY FS_Interval
        <4>3. QED
          BY <4>1, <4>2
      <3>3. Cardinality(InQueue(queue', j)) = Len(queue')
        BY ONLY <3>1, <3>2
      <3>4. open'[j] = IF items = <<>> THEN 0 ELSE Len(queue') + 1
        BY <2>5
      <3>5. None \in FunctionOrNull
        BY DEF FunctionOrNull
      <3>6. items = <<>> <=> Len(queue') = 0
        BY <3>5, HowManyChunks
      <3>7. QED
        BY ONLY <2>3, <2>4, <3>3, <3>4, <3>6 DEF Waits
    <2>6. CASE j # None
      <3>1. InQueue(queue', j) = {}
        BY <1>1, <2>6 DEF InQueue
      <3>2. Cardinality(InQueue(queue', j)) = 0
        BY ONLY <2>2, <3>1
      <3>3. open'[j] = 0
        BY <2>6
      <3>4. QED
        BY ONLY <2>3, <3>2, <3>3 DEF Waits
    <2>7. QED
      BY <2>5, <2>6
  <1>15. OrderInv'
    BY <1>4, <1>5, <1>7 DEF OrderInv
  <1>16. CoverInv'
    BY <1>4, <1>5 DEF CoverInv
  <1>17. LiveInv'
    BY <1>5 DEF LiveInv
  <1>18. QED
    BY <1>8, <1>10, <1>11, <1>12, <1>13, <1>14, <1>15, <1>16, <1>17 DEF FrameInv

\* ExecuteGroup takes the roots away from their parents and queues them.
LEMMA ExecuteGroupInv ==
  ASSUME TickInv, NEW g \in Group, ExecuteGroup(g)
  PROVE  TickInv'
  <1> DEFINE copy == groups[g]
             cleaned == Filter(copy, {f \in ToSet(copy) : References(f, copy) > 1})
             detached == {f \in ToSet(cleaned) : parent[f] # None}
  <1>1. TypeInv /\ TreeInv /\ MainMay /\ FrameInv
    BY DEF ExecuteGroup, TickInv, MainMay
  <1>2. CASE ~(\A f \in detached : parent[f] \in live)
    <2>1. FollowFreedParent
      BY <1>2 DEF ExecuteGroup
    <2>2. QED
      BY <2>1, FollowInv
  <1>3. CASE \A f \in detached : parent[f] \in live
    <2>1. /\ frame' = g /\ now' = now + 1 /\ roots' = cleaned /\ now < MaxFrames
          /\ parent' = [f \in Function |-> IF f \in detached THEN None ELSE parent[f]]
          /\ dependents' = [p \in Function |-> Filter(dependents[p], Function \ detached)]
          /\ Fork(cleaned, None)
          /\ executed' = <<>>
          /\ UNCHANGED <<held, live, groups, worker, last, undefined>>
      BY <1>3 DEF ExecuteGroup
    <2>2. /\ copy \in Seq(Function) /\ IsInjective(copy)
          /\ \A f \in ToSet(copy) : f \in live /\ TypeOf[f] = g
      BY <1>1 DEF TypeInv, TreeInv
    <2>3. /\ cleaned \in Seq(Function) /\ IsInjective(cleaned)
          /\ ToSet(cleaned) \subseteq ToSet(copy)
      <3>1. PICK S : S = {f \in ToSet(copy) : References(f, copy) > 1}
        OBVIOUS
      <3>2. cleaned = Filter(copy, S)
        BY <3>1
      <3> HIDE DEF cleaned, copy
      <3>3. QED
        BY <2>2, <3>2, FilterFacts
    <2> HIDE DEF cleaned
    <2>4. \A p \in Function : /\ dependents'[p] \in Seq(Function)
                              /\ ToSet(dependents'[p]) = ToSet(dependents[p]) \ detached
                              /\ IsInjective(dependents[p]) => IsInjective(dependents'[p])
      <3> SUFFICES ASSUME NEW p \in Function
                   PROVE  /\ dependents'[p] \in Seq(Function)
                          /\ ToSet(dependents'[p]) = ToSet(dependents[p]) \ detached
                          /\ IsInjective(dependents[p]) => IsInjective(dependents'[p])
        OBVIOUS
      <3>1. dependents[p] \in Seq(Function)
        BY <1>1 DEF TypeInv
      <3>2. PICK S : S = Function \ detached
        OBVIOUS
      <3>3. dependents'[p] = Filter(dependents[p], S)
        BY <2>1, <3>2
      <3>4. ToSet(dependents[p]) \subseteq Function
        BY <3>1 DEF ToSet
      <3> HIDE DEF detached
      <3>5. ToSet(dependents'[p]) = ToSet(dependents[p]) \cap S
        BY <3>1, <3>3, FilterFacts
      <3>6. /\ dependents'[p] \in Seq(Function)
            /\ IsInjective(dependents[p]) => IsInjective(dependents'[p])
        BY <3>1, <3>3, FilterFacts
      <3>7. dependents'[p] \in Seq(Function)
        BY <3>1, <3>3, FilterFacts
      <3>8. QED
        BY <3>2, <3>4, <3>5, <3>6, <3>7
    <2>5. \A f \in Function : parent'[f] = IF f \in detached THEN None ELSE parent[f]
      BY <2>1
    <2>6. /\ queue' = Chunks(cleaned, None)
          /\ \A j \in FunctionOrNull :
               open'[j] = IF j = None /\ cleaned # <<>> THEN Len(queue') + 1 ELSE 0
          /\ \A w \in Executor : worker'[w] = Idle
      <3>1. /\ queue = <<>> /\ \A w \in Executor : worker[w] = Idle
            /\ \A j \in FunctionOrNull : open[j] = 0
        BY <1>1, AtRest DEF MainMay
      <3>2. queue' = Chunks(cleaned, None)
        <4>1. Chunks(cleaned, None) \in Seq(Chunk)
          BY <2>3, ChunksFacts DEF FunctionOrNull
        <4>2. queue' = <<>> \o Chunks(cleaned, None)
          BY <2>1, <3>1 DEF Fork
        <4>3. QED
          BY <4>1, <4>2
      <3>3. open' = [open EXCEPT ![None] =
                              IF cleaned = <<>> THEN 0 ELSE Len(Chunks(cleaned, None)) + 1]
        BY <2>1 DEF Fork
      <3>4. open \in [FunctionOrNull -> Nat]
        BY <1>1 DEF TypeInv
      <3>5. QED
        BY <2>1, <3>1, <3>2, <3>3, <3>4
    <2>7. TypeInv'
      <3>1. dependents' \in [Function -> Seq(Function)]
        BY <2>1, <2>4
      <3>2. parent' \in [Function -> FunctionOrNull]
        BY <1>1, <2>1 DEF TypeInv, FunctionOrNull
      <3>3. queue' \in Seq(Chunk)
        BY <2>3, <2>6, ChunksFacts DEF FunctionOrNull
      <3>4. open' \in [FunctionOrNull -> Nat]
        <4>1. Len(queue') \in Nat
          BY <3>3
        <4>2. Len(Chunks(cleaned, None)) \in Nat
          BY <2>6, <4>1
        <4>3. PICK n \in Nat : open' = [open EXCEPT ![None] = n]
          <5> DEFINE c == IF cleaned = <<>> THEN 0 ELSE Len(Chunks(cleaned, None)) + 1
          <5>1. open' = [open EXCEPT ![None] = c]
            BY <2>1 DEF Fork
          <5>2. c \in Nat
            BY <4>2
          <5> HIDE DEF c
          <5>3. QED
            BY <5>1, <5>2
        <4>4. open \in [FunctionOrNull -> Nat]
          BY <1>1 DEF TypeInv
        <4>5. QED
          BY ONLY <4>3, <4>4
      <3>5. now' \in 0 .. MaxFrames /\ last' \in [Function -> 0 .. now']
        <4>1. now \in 0 .. MaxFrames /\ last \in [Function -> 0 .. now]
          BY <1>1 DEF TypeInv
        <4>2. now' \in 0 .. MaxFrames /\ \A x \in 0 .. now : x \in 0 .. now'
          BY <2>1, <4>1, MaxFramesAssumption
        <4>3. QED
          BY <2>1, <4>1, <4>2
      <3>6. /\ roots' \in Seq(Function) /\ executed' \in Seq(Function)
            /\ frame' \in Group \cup {None}
        BY <2>1, <2>3
      <3>7. QED
        BY <1>1, <2>1, <3>1, <3>2, <3>3, <3>4, <3>5, <3>6 DEF TypeInv
    <2>8. TreeInv'
      <3>1. live' = live /\ groups' = groups
        BY <2>1
      <3>2. \A f \in Function \ live : ToSet(dependents'[f]) = {}
        <4>1. \A f \in Function \ live : ToSet(dependents[f]) = {}
          BY <1>1 DEF TreeInv
        <4>2. QED
          BY <2>4, <4>1
      <3>3. \A f \in live : IsInjective(dependents'[f]) /\ ToSet(dependents'[f]) \subseteq live
        <4>1. \A f \in live : /\ f \in Function /\ IsInjective(dependents[f])
                              /\ ToSet(dependents[f]) \subseteq live
          BY <1>1 DEF TypeInv, TreeInv
        <4>2. QED
          BY <2>4, <4>1
      <3>4. \A p, c \in live : c \in ToSet(dependents'[p]) <=> parent'[c] = p
        <4> SUFFICES ASSUME NEW p \in live, NEW c \in live
                     PROVE  c \in ToSet(dependents'[p]) <=> parent'[c] = p
          OBVIOUS
        <4>1. p \in Function /\ c \in Function /\ p # None
          BY <1>1, NoneAssumption DEF TypeInv
        <4>2. c \in ToSet(dependents[p]) <=> parent[c] = p
          BY <1>1 DEF TreeInv
        <4> HIDE DEF detached
        <4>3. QED
          BY <2>4, <2>5, <4>1, <4>2
      <3>5. \A h \in Group : /\ IsInjective(groups[h])
                             /\ \A f \in ToSet(groups[h]) : f \in live /\ TypeOf[f] = h
        BY <1>1 DEF TreeInv
      <3>6. QED
        BY <3>1, <3>2, <3>3, <3>4, <3>5 DEF TreeInv
    <2>9. Ordered' /\ QueuedFunctionsLive' /\ FrameInv'
      <3>1. \A f \in ToSet(cleaned) : /\ parent'[f] = None /\ f \in live'
                                      /\ f \in held' \/ f \in ToSet(groups'[TypeOf[f]])
        <4> SUFFICES ASSUME NEW f \in ToSet(cleaned)
                     PROVE  /\ parent'[f] = None /\ f \in live'
                            /\ f \in ToSet(groups'[TypeOf[f]])
          OBVIOUS
        <4>1. f \in ToSet(copy) /\ f \in live /\ TypeOf[f] = g
          BY <2>2, <2>3
        <4>2. f \in Function
          BY <1>1, <4>1 DEF TypeInv
        <4>3. parent'[f] = None
          BY <2>5, <4>2
        <4>4. QED
          BY <2>1, <4>1, <4>3
      <3>2. frame' # None
        BY <2>1, NoneAssumption
      <3>3. QED
        BY <2>1, <2>3, <2>6, <3>1, <3>2, StartInv
    <2>10. QED
      BY <2>7, <2>8, <2>9 DEF TickInv
  <1>4. QED
    BY <1>2, <1>3

\* A function without a parent is executed on the main thread itself.
LEMMA ExecuteFunctionInv ==
  ASSUME TickInv, NEW f \in Function, ExecuteFunction(f)
  PROVE  TickInv'
  <1>1. /\ TypeInv /\ TreeInv /\ MainMay /\ FrameInv
        /\ f \in held /\ f \in live /\ parent[f] = None
    BY DEF ExecuteFunction, TickInv, MainMay, TypeInv
  <1>2. /\ queue = <<>> /\ (\A w \in Executor : worker[w] = Idle)
        /\ \A j \in FunctionOrNull : open[j] = 0
    BY <1>1, AtRest DEF MainMay
  <1>3. /\ frame' = TypeOf[f] /\ now' = now + 1 /\ roots' = <<f>> /\ now < MaxFrames
        /\ worker' = [worker EXCEPT ![None] = [items |-> <<f>>, join |-> None, step |-> "tick"]]
        /\ open' = [open EXCEPT ![None] = 1]
        /\ executed' = <<>>
        /\ UNCHANGED <<held, live, parent, dependents, groups, queue, last, undefined>>
    BY DEF ExecuteFunction, treeVars
  <1>4. TypeOf[f] \in Group /\ TypeOf[f] # None /\ None \in Executor /\ None \in FunctionOrNull
    BY TypeOfAssumption, NoneAssumption DEF Executor, FunctionOrNull
  <1>5. /\ worker'[None].items = <<f>> /\ worker'[None].join = None
        /\ worker'[None].step = "tick"
        /\ \A w \in Executor : w # None => worker'[w] = Idle
        /\ worker' \in [Executor -> Work]
    <2>1. [items |-> <<f>>, join |-> None, step |-> "tick"] \in Work
      BY <1>4 DEF Work, Step
    <2>2. worker \in [Executor -> Work]
      BY <1>1 DEF TypeInv
    <2>3. QED
      BY <1>2, <1>3, <1>4, <2>1, <2>2
  <1>6. TypeInv'
    <2>1. now' \in 0 .. MaxFrames /\ last' \in [Function -> 0 .. now']
      <3>1. now \in 0 .. MaxFrames /\ last \in [Function -> 0 .. now]
        BY <1>1 DEF TypeInv
      <3>2. now' \in 0 .. MaxFrames /\ \A x \in 0 .. now : x \in 0 .. now'
        BY <1>3, <3>1, MaxFramesAssumption
      <3>3. QED
        BY <1>3, <3>1, <3>2
    <2>2. /\ roots' \in Seq(Function) /\ executed' \in Seq(Function)
          /\ frame' \in Group \cup {None}
      BY <1>3, <1>4
    <2>3. QED
      BY <1>1, <1>3, <1>5, <2>1, <2>2 DEF TypeInv
  <1>7. TreeInv'
    BY <1>1, <1>3 DEF TreeInv
  <1>8. /\ ToSet(<<>>) = {} /\ IsInjective(<<>>) /\ DOMAIN executed' = {} /\ DOMAIN queue' = {}
        /\ ToSet(<<f>>) = {f} /\ IsInjective(<<f>>) /\ <<f>> # <<>>
    BY <1>2, <1>3 DEF ToSet, IsInjective
  <1>9. \A w \in Executor : w # None => worker'[w].items = <<>> /\ worker'[w].step = "idle"
    BY <1>5 DEF Idle
  <1>10. Executed' = {} /\ Queued' = {}
    BY <1>8 DEF Executed, Queued, ItemsOf
  <1>11. Carried' = {f}
    <2>1. \A w \in Executor : ToSet(worker'[w].items) = IF w = None THEN {f} ELSE {}
      BY <1>5, <1>8, <1>9
    <2>2. QED
      BY <1>4, <2>1 DEF Carried
  <1>12. Pending' = {f} /\ Reached' = {f}
    BY <1>10, <1>11 DEF Pending, Reached
  <1>13. At({"clean", "fork"})' = {} /\ At({"join"})' = {}
    BY <1>5, <1>9 DEF At
  <1>14. At(Step \ {"idle"})' = {None}
    BY <1>4, <1>5, <1>9 DEF At, Step
  <1>15. Cleaning' = {} /\ Joining' = {}
    BY <1>13 DEF Cleaning, Joining
  <1>16. Ordered'
    BY <1>8 DEF Ordered
  <1>17. QueuedFunctionsLive'
    <2>1. \A w \in Executor : ToSet(worker'[w].items) \subseteq live'
      BY <1>1, <1>3, <1>5, <1>8, <1>9
    <2>2. QED
      BY <1>8, <2>1 DEF QueuedFunctionsLive
  <1>18. WorkInv'
    <2>1. frame' # None
      BY <1>3, <1>4
    <2>2. ASSUME NEW w \in Executor
          PROVE  /\ worker'[w].step = "idle" => worker'[w] = Idle
                 /\ worker'[w].items = <<>> <=> worker'[w].step \in {"idle", "finish"}
      BY <1>5, <1>8, <1>9
    <2>3. QED
      BY <1>8, <2>1, <2>2 DEF WorkInv
  <1>19. DistinctInv'
    <2>1. \A w \in Executor : IsInjective(worker'[w].items)
      BY <1>5, <1>8, <1>9
    <2>2. \A w, v \in Executor :
            w # v => ToSet(worker'[w].items) \cap ToSet(worker'[v].items) = {}
      BY <1>5, <1>8, <1>9
    <2>3. QED
      BY <1>8, <1>10, <2>1, <2>2 DEF DistinctInv
  <1>20. JoinInv'
    BY <1>1, <1>3, <1>5, <1>8, <1>14 DEF JoinInv, Joined
  <1>21. OpenInv'
    <2> SUFFICES ASSUME NEW j \in FunctionOrNull
                 PROVE  Waits(open'[j], Cardinality(InQueue(queue', j)) + Cardinality(InHand(j)'))
      BY DEF OpenInv
    <2>1. InQueue(queue', j) = {}
      BY <1>8 DEF InQueue
    <2>2. Cardinality({}) = 0 /\ Cardinality({None}) = 1
      BY FS_EmptySet, FS_Singleton
    <2>3. Cardinality(InQueue(queue', j)) = 0
      BY ONLY <2>1, <2>2
    <2>4. open'[j] = IF j = None THEN 1 ELSE 0
      BY <1>1, <1>2, <1>3 DEF TypeInv
    <2>5. CASE j = None
      <3>1. InHand(j)' = {None}
        BY <1>5, <1>14, <2>5 DEF InHand
      <3>2. Cardinality(InHand(j)') = 1
        BY ONLY <2>2, <3>1
      <3>3. QED
        BY ONLY <2>3, <2>4, <2>5, <3>2 DEF Waits
    <2>6. CASE j # None
      <3>1. InHand(j)' = {}
        BY <1>5, <1>14, <2>6 DEF InHand
      <3>2. Cardinality(InHand(j)') = 0
        BY ONLY <2>2, <3>1
      <3>3. QED
        BY ONLY <2>3, <2>4, <2>6, <3>2 DEF Waits
    <2>7. QED
      BY <2>5, <2>6
  <1>22. OrderInv'
    BY <1>1, <1>3, <1>10, <1>12, <1>15 DEF OrderInv
  <1>23. CoverInv'
    BY <1>3, <1>8, <1>10, <1>12 DEF CoverInv
  <1>24. LiveInv'
    BY <1>1, <1>3, <1>8, <1>12 DEF LiveInv
  <1>25. QED
    BY <1>6, <1>7, <1>16, <1>17, <1>18, <1>19, <1>20, <1>21, <1>22, <1>23, <1>24
       DEF TickInv, FrameInv

-----------------------------------------------------------------------------
\* A frame ends: when no chunk of the roots is left, none is.

\* The function that is worked on is one of the worker's functions, and no
\* other worker has it.
LEMMA CurrentFacts ==
  ASSUME TypeInv, FrameInv, NEW w \in Executor, worker[w].step \notin {"idle", "finish"}
  PROVE  /\ worker[w].items \in Seq(Function) /\ worker[w].items # <<>>
         /\ Current(w) \in ToSet(worker[w].items) /\ Current(w) \in Function
         /\ Current(w) \in Carried /\ Current(w) \in Pending /\ Current(w) \in Reached
         /\ ToSet(Tail(worker[w].items)) = ToSet(worker[w].items) \ {Current(w)}
         /\ IsInjective(Tail(worker[w].items))
         /\ \A v \in Executor : v # w => Current(w) \notin ToSet(worker[v].items)
  <1>1. worker[w].items \in Seq(Function)
    BY DEF TypeInv, Work
  <1>2. worker[w].items # <<>>
    BY DEF FrameInv, WorkInv
  <1>3. PICK s \in Seq(Function) : s = worker[w].items
    BY <1>1
  <1>4. IsInjective(s)
    BY <1>3 DEF FrameInv, DistinctInv
  <1>5. s # <<>> /\ Current(w) = Head(s)
    BY <1>2, <1>3 DEF Current
  <1>6. /\ Len(s) \in Nat /\ Len(s) >= 1 /\ DOMAIN s = 1 .. Len(s) /\ Head(s) = s[1]
        /\ DOMAIN Tail(s) = 1 .. Len(s) - 1 /\ \A i \in 1 .. Len(s) - 1 : Tail(s)[i] = s[i + 1]
    BY <1>5
  <1>7. Head(s) \in ToSet(s) /\ Head(s) \in Function
    BY <1>6 DEF ToSet
  <1>8. ToSet(Tail(s)) = ToSet(s) \ {Head(s)}
    <2>1. ASSUME NEW x \in ToSet(Tail(s))
          PROVE  x \in ToSet(s) /\ x # Head(s)
      <3>1. PICK i \in 1 .. Len(s) - 1 : x = s[i + 1]
        BY <1>6 DEF ToSet
      <3>2. i + 1 \in DOMAIN s /\ 1 \in DOMAIN s /\ i + 1 # 1
        BY <1>6
      <3>3. s[i + 1] # s[1]
        BY <1>4, <3>2 DEF IsInjective
      <3>4. QED
        BY <1>6, <3>1, <3>2, <3>3 DEF ToSet
    <2>2. ASSUME NEW x \in ToSet(s), x # Head(s)
          PROVE  x \in ToSet(Tail(s))
      <3>1. PICK i \in 1 .. Len(s) : x = s[i]
        BY <1>6 DEF ToSet
      <3>2. i # 1
        BY <1>6, <2>2, <3>1
      <3>3. i - 1 \in 1 .. Len(s) - 1 /\ (i - 1) + 1 = i
        BY <1>6, <3>2
      <3>4. Tail(s)[i - 1] = x
        BY <1>6, <3>1, <3>3
      <3>5. QED
        BY <1>6, <3>3, <3>4 DEF ToSet
    <2>3. QED
      BY <2>1, <2>2
  <1>9. IsInjective(Tail(s))
    <2> SUFFICES ASSUME NEW a \in 1 .. Len(s) - 1, NEW b \in 1 .. Len(s) - 1,
                        s[a + 1] = s[b + 1]
                 PROVE  a = b
      BY <1>6 DEF IsInjective
    <2>1. a + 1 \in DOMAIN s /\ b + 1 \in DOMAIN s
      BY <1>6
    <2>2. a + 1 = b + 1
      BY <1>4, <2>1 DEF IsInjective
    <2>3. QED
      BY <2>2
  <1>10. Current(w) \in Carried /\ Current(w) \in Pending /\ Current(w) \in Reached
    BY <1>3, <1>5, <1>7 DEF Carried, Pending, Reached
  <1>11. \A v \in Executor : v # w => Current(w) \notin ToSet(worker[v].items)
    BY <1>3, <1>5, <1>7 DEF FrameInv, DistinctInv
  <1>12. QED
    BY <1>1, <1>2, <1>3, <1>5, <1>7, <1>8, <1>9, <1>10, <1>11

\* Where a function is in a worker's hands tells its step.
LEMMA StepOfCurrent ==
  ASSUME TypeInv, FrameInv, NEW w \in Executor, worker[w].step \notin {"idle", "finish"}
  PROVE  /\ Current(w) \in Cleaning <=> worker[w].step \in {"clean", "fork"}
         /\ Current(w) \in Joining <=> worker[w].step = "join"
  <1>1. ASSUME NEW v \in Executor, worker[v].step \notin {"idle", "finish"}, v # w
        PROVE  Current(v) # Current(w)
    BY <1>1, CurrentFacts
  <1>2. QED
    BY <1>1 DEF Cleaning, Joining, At

\* A function nobody joins has no chunks.
LEMMA NoChunks ==
  ASSUME TypeInv, FrameInv, NEW j \in FunctionOrNull, open[j] = 0
  PROVE  /\ \A i \in DOMAIN queue : queue[i].join # j
         /\ \A v \in At(Step \ {"idle"}) : worker[v].join # j
  <1>1. queue \in Seq(Chunk)
    BY DEF TypeInv
  <1>2. IsFiniteSet(InQueue(queue, j)) /\ Cardinality(InQueue(queue, j)) \in Nat
    BY <1>1, InQueueFinite
  <1>3. InHand(j) \in SUBSET Executor
    BY DEF InHand, At
  <1>4. IsFiniteSet(InHand(j)) /\ Cardinality(InHand(j)) \in Nat
    BY <1>3, ExecutorFinite
  <1>5. Cardinality(InQueue(queue, j)) = 0 /\ Cardinality(InHand(j)) = 0
    <2>1. 0 = Cardinality(InQueue(queue, j)) + Cardinality(InHand(j))
      BY DEF FrameInv, OpenInv, Waits
    <2>2. QED
      BY ONLY <1>2, <1>4, <2>1
  <1>6. InQueue(queue, j) = {} /\ InHand(j) = {}
    BY <1>2, <1>4, <1>5, FS_EmptySet
  <1>7. QED
    BY <1>6 DEF InQueue, InHand

\* Going up from a chunk to the worker that joins it reaches earlier and
\* earlier functions, and ends at a chunk of the roots.
LEMMA NothingPending ==
  ASSUME TickInv, undefined = "no", open[None] = 0
  PROVE  queue = <<>> /\ At(Step \ {"idle"}) = {}
  <1>1. TypeInv /\ FrameInv /\ Ordered
    BY DEF TickInv
  <1> DEFINE J == {queue[i].join : i \in DOMAIN queue}
                  \cup {worker[w].join : w \in At(Step \ {"idle"})}
  <1>2. queue \in Seq(Chunk) /\ DOMAIN queue = 1 .. Len(queue)
    BY <1>1 DEF TypeInv
  <1>3. None \notin J
    <2>1. None \in FunctionOrNull
      BY DEF FunctionOrNull
    <2>2. /\ \A i \in DOMAIN queue : queue[i].join # None
          /\ \A v \in At(Step \ {"idle"}) : worker[v].join # None
      BY <1>1, <2>1, NoChunks
    <2>3. QED
      BY <2>2
  <1>4. ASSUME NEW j \in J
        PROVE  j \in Executed /\ parent[j] # None /\ parent[j] \in J
    <2>1. j \in Joining
      BY <1>1, <1>3 DEF FrameInv, JoinInv, Joined
    <2>2. PICK w \in Executor : worker[w].step = "join" /\ j = Current(w)
      BY <2>1 DEF Joining, At
    <2>3. w \in At(Step \ {"idle"})
      BY <2>2 DEF At, Step
    <2>4. j \in ToSet(worker[w].items)
      BY <1>1, <2>2, CurrentFacts
    <2>5. parent[j] = worker[w].join
      BY <1>1, <2>3, <2>4 DEF FrameInv, JoinInv, Joined
    <2>6. j \in Executed
      BY <1>1, <2>1 DEF FrameInv, OrderInv
    <2>7. QED
      BY <1>3, <2>3, <2>5, <2>6
  <1> HIDE DEF J
  <1>5. J = {}
    <2> SUFFICES ASSUME J # {} PROVE FALSE
      OBVIOUS
    <2> DEFINE S == {i \in DOMAIN executed : executed[i] \in J}
    <2>1. executed \in Seq(Function)
      BY <1>1 DEF TypeInv
    <2>2. S \in SUBSET Nat /\ S # {}
      <3>1. PICK j \in J : TRUE
        OBVIOUS
      <3>2. j \in ToSet(executed)
        BY <1>4, <3>1 DEF Executed
      <3>3. \E i \in DOMAIN executed : executed[i] = j
        BY <3>2 DEF ToSet
      <3>4. DOMAIN executed \subseteq Nat
        BY <2>1
      <3>5. QED
        BY <3>1, <3>3, <3>4
    <2>3. PICK x \in S : \A y \in S : x <= y
      BY <2>2, LeastOf
    <2>4. parent[executed[x]] # None /\ parent[executed[x]] \in J
      BY <1>4, <2>3
    <2>5. PICK y \in 1 .. x - 1 : executed[y] = parent[executed[x]]
      BY <1>1, <2>3, <2>4 DEF Ordered
    <2>6. y \in S
      BY <2>1, <2>3, <2>4, <2>5
    <2>7. QED
      BY <2>1, <2>3, <2>5, <2>6
  <1>6. At(Step \ {"idle"}) = {}
    BY <1>5 DEF J
  <1>7. DOMAIN queue = {}
    BY <1>5 DEF J
  <1>8. queue = <<>>
    BY <1>2, <1>7
  <1>9. QED
    BY <1>6, <1>8

LEMMA ExecuteReturnsInv ==
  ASSUME TickInv, ExecuteReturns
  PROVE  TickInv'
  <1>1. TypeInv /\ TreeInv /\ FrameInv /\ undefined = "no" /\ open[None] = 0
    BY DEF ExecuteReturns, TickInv
  <1>2. /\ frame' = None /\ roots' = <<>> /\ executed' = <<>>
        /\ UNCHANGED <<held, live, parent, dependents, groups, queue, open, worker, last, now,
                       undefined>>
    BY DEF ExecuteReturns, treeVars
  <1>3. queue = <<>> /\ At(Step \ {"idle"}) = {}
    BY <1>1, NothingPending
  <1>4. ASSUME NEW w \in Executor
        PROVE  worker[w] = Idle
    <2>1. worker[w].step \in Step
      BY <1>1 DEF TypeInv, Work
    <2>2. worker[w].step = "idle"
      BY <1>3, <2>1 DEF At
    <2>3. QED
      BY <1>1, <2>2 DEF FrameInv, WorkInv
  <1>5. ASSUME NEW j \in FunctionOrNull
        PROVE  open[j] = 0
    <2>1. InQueue(queue, j) = {}
      BY <1>3 DEF InQueue
    <2>2. InHand(j) = {}
      BY <1>3 DEF InHand
    <2>3. Waits(open[j], Cardinality({}) + Cardinality({})) /\ open[j] \in Nat
      BY <1>1, <2>1, <2>2 DEF FrameInv, OpenInv, TypeInv
    <2>4. QED
      BY <2>3, FS_EmptySet DEF Waits
  <1>6. ToSet(roots') = {}
    BY <1>2 DEF ToSet
  <1>7. Ordered' /\ QueuedFunctionsLive' /\ FrameInv'
    BY <1>2, <1>3, <1>4, <1>5, <1>6, RestInv
  <1>8. TypeInv'
    BY <1>1, <1>2 DEF TypeInv
  <1>9. TreeInv'
    BY <1>1, <1>2 DEF TreeInv
  <1>10. QED
    BY <1>7, <1>8, <1>9 DEF TickInv

-----------------------------------------------------------------------------
\* The steps of a worker.  First what a change of one worker does to the sets.

\* Others(w) has the functions of all workers but w.
Others(w) == UNION {ToSet(worker[v].items) : v \in Executor \ {w}}

LEMMA CarriedBy ==
  ASSUME NEW w \in Executor
  PROVE  Carried = Others(w) \cup ToSet(worker[w].items)
  BY DEF Carried, Others

LEMMA CarriedByNext ==
  ASSUME NEW w \in Executor, \A v \in Executor : v # w => worker'[v] = worker[v]
  PROVE  Carried' = Others(w) \cup ToSet(worker'[w].items)
  BY DEF Carried, Others

\* A busy worker goes on.
LEMMA BusySets ==
  ASSUME TypeInv, FrameInv, NEW w \in Executor, worker[w].step \notin {"idle", "finish"},
         \A v \in Executor : v # w => worker'[v] = worker[v]
  PROVE  /\ Cleaning' = (Cleaning \ {Current(w)})
                          \cup (IF worker'[w].step \in {"clean", "fork"}
                                THEN {Current(w)'} ELSE {})
         /\ Joining' = (Joining \ {Current(w)})
                          \cup (IF worker'[w].step = "join" THEN {Current(w)'} ELSE {})
         /\ Others(w) \cap ToSet(worker[w].items) = {}
  <1>1. ASSUME NEW v \in Executor, worker[v].step \notin {"idle", "finish"}, v # w
        PROVE  Current(v) # Current(w)
    BY <1>1, CurrentFacts
  <1>2. \A v \in Executor : v # w => Current(v)' = Current(v)
    BY DEF Current
  <1>3. Cleaning' = (Cleaning \ {Current(w)})
                      \cup (IF worker'[w].step \in {"clean", "fork"} THEN {Current(w)'} ELSE {})
    <2>1. ASSUME NEW x \in Cleaning'
          PROVE  (x \in Cleaning /\ x # Current(w))
                   \/ (worker'[w].step \in {"clean", "fork"} /\ x = Current(w)')
      <3>1. PICK v \in Executor : worker'[v].step \in {"clean", "fork"} /\ x = Current(v)'
        BY DEF Cleaning, At
      <3>2. CASE v = w
        BY <3>1, <3>2
      <3>3. CASE v # w
        <4>1. worker[v].step \in {"clean", "fork"} /\ x = Current(v)
          BY <1>2, <3>1, <3>3
        <4>2. x \in Cleaning
          BY <4>1 DEF Cleaning, At
        <4>3. QED
          BY <1>1, <3>3, <4>1, <4>2
      <3>4. QED
        BY <3>2, <3>3
    <2>2. ASSUME NEW x \in Cleaning, x # Current(w)
          PROVE  x \in Cleaning'
      <3>1. PICK v \in Executor : worker[v].step \in {"clean", "fork"} /\ x = Current(v)
        BY DEF Cleaning, At
      <3>2. v # w
        BY <2>2, <3>1
      <3>3. worker'[v].step \in {"clean", "fork"} /\ x = Current(v)'
        BY <1>2, <3>1, <3>2
      <3>4. QED
        BY <3>3 DEF Cleaning, At
    <2>3. ASSUME worker'[w].step \in {"clean", "fork"}
          PROVE  Current(w)' \in Cleaning'
      BY <2>3 DEF Cleaning, At
    <2>4. QED
      BY <2>1, <2>2, <2>3
  <1>4. Joining' = (Joining \ {Current(w)})
                      \cup (IF worker'[w].step = "join" THEN {Current(w)'} ELSE {})
    <2>1. ASSUME NEW x \in Joining'
          PROVE  \/ x \in Joining /\ x # Current(w)
                 \/ worker'[w].step = "join" /\ x = Current(w)'
      <3>1. PICK v \in Executor : worker'[v].step = "join" /\ x = Current(v)'
        BY DEF Joining, At
      <3>2. CASE v = w
        BY <3>1, <3>2
      <3>3. CASE v # w
        <4>1. worker[v].step = "join" /\ x = Current(v)
          BY <1>2, <3>1, <3>3
        <4>2. x \in Joining
          BY <4>1 DEF Joining, At
        <4>3. QED
          BY <1>1, <3>3, <4>1, <4>2
      <3>4. QED
        BY <3>2, <3>3
    <2>2. ASSUME NEW x \in Joining, x # Current(w)
          PROVE  x \in Joining'
      <3>1. PICK v \in Executor : worker[v].step = "join" /\ x = Current(v)
        BY DEF Joining, At
      <3>2. v # w
        BY <2>2, <3>1
      <3>3. worker'[v].step = "join" /\ x = Current(v)'
        BY <1>2, <3>1, <3>2
      <3>4. QED
        BY <3>3 DEF Joining, At
    <2>3. ASSUME worker'[w].step = "join"
          PROVE  Current(w)' \in Joining'
      BY <2>3 DEF Joining, At
    <2>4. QED
      BY <2>1, <2>2, <2>3
  <1>5. Others(w) \cap ToSet(worker[w].items) = {}
    BY DEF Others, FrameInv, DistinctInv
  <1>6. QED
    BY <1>3, <1>4, <1>5

\* A worker that takes or has finished a chunk cleans and joins nothing.
LEMMA RestingSets ==
  ASSUME NEW w \in Executor, worker[w].step \notin {"clean", "fork", "join"},
         worker'[w].step \notin {"clean", "fork", "join"},
         \A v \in Executor : v # w => worker'[v] = worker[v]
  PROVE  Cleaning' = Cleaning /\ Joining' = Joining
  <1>1. At({"clean", "fork"})' = At({"clean", "fork"}) /\ w \notin At({"clean", "fork"})
    BY DEF At
  <1>2. At({"join"})' = At({"join"}) /\ w \notin At({"join"})
    BY DEF At
  <1>3. \A v \in Executor : v # w => Current(v)' = Current(v)
    BY DEF Current
  <1>4. \A v \in At({"clean", "fork"}) : Current(v)' = Current(v)
    BY <1>1, <1>3 DEF At
  <1>5. \A v \in At({"join"}) : Current(v)' = Current(v)
    BY <1>2, <1>3 DEF At
  <1>6. Cleaning' = Cleaning
    BY <1>1, <1>4 DEF Cleaning
  <1>7. Joining' = Joining
    BY <1>2, <1>5 DEF Joining
  <1>8. QED
    BY <1>6, <1>7

\* What is waited for, when one worker goes on with its chunk.
LEMMA SameHands ==
  ASSUME NEW w \in Executor, \A v \in Executor : v # w => worker'[v] = worker[v],
         worker[w].step \in Step \ {"idle"}, worker'[w].step \in Step \ {"idle"},
         worker'[w].join = worker[w].join
  PROVE  /\ At(Step \ {"idle"})' = At(Step \ {"idle"})
         /\ \A j : InHand(j)' = InHand(j)
  <1>1. At(Step \ {"idle"})' = At(Step \ {"idle"})
    BY DEF At
  <1>2. \A v \in Executor : worker'[v].join = worker[v].join
    OBVIOUS
  <1>3. ASSUME NEW j
        PROVE  InHand(j)' = InHand(j)
    BY <1>1, <1>2 DEF InHand, At
  <1>4. QED
    BY <1>1, <1>3

\* TakeTask moves the first chunk of the queue into a worker's hands.
LEMMA TakeTaskInv ==
  ASSUME TickInv, NEW w \in Worker, TakeTask(w)
  PROVE  TickInv'
  <1>1. TypeInv /\ TreeInv /\ FrameInv /\ Ordered /\ QueuedFunctionsLive /\ w \in Executor
        /\ undefined = "no" /\ worker[w] = Idle /\ queue # <<>>
    BY DEF TakeTask, TickInv, Executor
  <1> DEFINE c == Head(queue)
  <1> DEFINE step == IF c.items = <<>> THEN "finish" ELSE "tick"
  <1>2. /\ worker' = [worker EXCEPT ![w] = [items |-> c.items, join |-> c.join,
                                            step |-> step]]
        /\ queue' = Tail(queue)
        /\ UNCHANGED <<held, live, parent, dependents, groups, frame, roots, open, last, now,
                       undefined, executed, before>>
    BY DEF TakeTask, treeVars
  <1>3. /\ queue \in Seq(Chunk) /\ Len(queue) \in Nat /\ Len(queue) >= 1 /\ c = queue[1]
        /\ DOMAIN queue = 1 .. Len(queue)
        /\ queue' \in Seq(Chunk) /\ DOMAIN queue' = 1 .. Len(queue) - 1
        /\ \A i \in 1 .. Len(queue) - 1 : queue'[i] = queue[i + 1]
    BY <1>1, <1>2 DEF TypeInv
  <1>4. 1 \in DOMAIN queue /\ c \in Chunk
    BY <1>3
  <1>5. \A i \in DOMAIN queue' : i + 1 \in DOMAIN queue /\ i + 1 # 1 /\ queue'[i] = queue[i + 1]
    BY <1>3
  <1> HIDE DEF c
  <1>6. /\ worker' \in [Executor -> Work]
        /\ worker'[w].items = c.items /\ worker'[w].join = c.join /\ worker'[w].step = step
        /\ \A v \in Executor : v # w => worker'[v] = worker[v]
        /\ worker[w].items = <<>> /\ worker[w].step = "idle"
    <2>1. [items |-> c.items, join |-> c.join, step |-> step] \in Work
      BY <1>4 DEF Chunk, Work, Step
    <2>2. worker \in [Executor -> Work]
      BY <1>1 DEF TypeInv
    <2>3. worker[w].items = <<>> /\ worker[w].step = "idle"
      BY <1>1 DEF Idle
    <2>4. QED
      BY <1>1, <1>2, <2>1, <2>2, <2>3
  <1>7. Cleaning' = Cleaning /\ Joining' = Joining
    BY <1>1, <1>6, RestingSets
  <1>8. Executed' = Executed
    BY <1>2 DEF Executed
  <1>9. ToSet(<<>>) = {}
    BY DEF ToSet
  <1>10. Carried = Others(w) /\ Carried' = Others(w) \cup ToSet(c.items)
    BY <1>1, <1>6, <1>9, CarriedBy, CarriedByNext
  <1>11. Queued = Queued' \cup ToSet(c.items)
    <2>1. ASSUME NEW x \in Queued
          PROVE  x \in Queued' \/ x \in ToSet(c.items)
      <3>1. PICK i \in 1 .. Len(queue) : x \in ToSet(queue[i].items)
        BY <1>3 DEF Queued, ItemsOf
      <3>2. CASE i = 1
        BY <1>3, <3>1, <3>2
      <3>3. CASE i # 1
        <4>1. i - 1 \in 1 .. Len(queue) - 1 /\ (i - 1) + 1 = i
          BY <1>3, <3>1, <3>3
        <4>2. x \in ToSet(queue'[i - 1].items)
          BY <1>3, <3>1, <4>1
        <4>3. QED
          BY <1>3, <4>1, <4>2 DEF Queued, ItemsOf
      <3>4. QED
        BY <3>2, <3>3
    <2>2. ASSUME NEW x \in Queued'
          PROVE  x \in Queued
      <3>1. PICK i \in DOMAIN queue' : x \in ToSet(queue'[i].items)
        BY DEF Queued, ItemsOf
      <3>2. QED
        BY <1>5, <3>1 DEF Queued, ItemsOf
    <2>3. ToSet(c.items) \subseteq Queued
      BY <1>3, <1>4 DEF Queued, ItemsOf
    <2>4. QED
      BY <2>1, <2>2, <2>3
  <1>12. Pending' = Pending /\ Reached' = Reached
    BY <1>8, <1>10, <1>11 DEF Pending, Reached
  <1>13. Queued \cap Carried = {}
    BY <1>1 DEF FrameInv, DistinctInv
  <1>14. Queued' \cap ToSet(c.items) = {}
    <2> SUFFICES ASSUME NEW i \in DOMAIN queue', NEW x \in ToSet(queue'[i].items),
                        x \in ToSet(c.items)
                 PROVE  FALSE
      BY DEF Queued, ItemsOf
    <2>1. ToSet(queue[i + 1].items) \cap ToSet(queue[1].items) = {}
      BY <1>1, <1>4, <1>5 DEF FrameInv, DistinctInv
    <2>2. QED
      BY <1>3, <1>5, <2>1
  <1>15. WorkInv'
    <2>2. ASSUME NEW v \in Executor
          PROVE  /\ worker'[v].step = "idle" => worker'[v] = Idle
                 /\ worker'[v].items = <<>> <=> worker'[v].step \in {"idle", "finish"}
      <3>1. CASE v = w
        BY <1>4, <1>6, <3>1
      <3>2. CASE v # w
        BY <1>1, <1>6, <3>2 DEF FrameInv, WorkInv
      <3>3. QED
        BY <3>1, <3>2
    <2>3. frame' # None
      BY <1>1, <1>2 DEF FrameInv, WorkInv
    <2>4. QED
      BY <2>2, <2>3 DEF WorkInv
  <1>16. DistinctInv'
    <2>1. \A i \in DOMAIN queue' : IsInjective(queue'[i].items)
      BY <1>1, <1>5 DEF FrameInv, DistinctInv
    <2>2. \A v \in Executor : IsInjective(worker'[v].items)
      <3>1. IsInjective(c.items)
        BY <1>1, <1>3, <1>4 DEF FrameInv, DistinctInv
      <3>2. \A v \in Executor : IsInjective(worker[v].items)
        BY <1>1 DEF FrameInv, DistinctInv
      <3>3. QED
        BY <1>6, <3>1, <3>2
    <2>3. \A i, j \in DOMAIN queue' :
            i # j => ToSet(queue'[i].items) \cap ToSet(queue'[j].items) = {}
      <3> SUFFICES ASSUME NEW i \in DOMAIN queue', NEW j \in DOMAIN queue', i # j
                   PROVE  ToSet(queue'[i].items) \cap ToSet(queue'[j].items) = {}
        OBVIOUS
      <3>1. i + 1 # j + 1
        BY <1>3
      <3>2. ToSet(queue[i + 1].items) \cap ToSet(queue[j + 1].items) = {}
        BY <1>1, <1>5, <3>1 DEF FrameInv, DistinctInv
      <3>3. QED
        BY <1>5, <3>2
    <2>4. \A v, u \in Executor :
            v # u => ToSet(worker'[v].items) \cap ToSet(worker'[u].items) = {}
      <3>1. \A v, u \in Executor :
              v # u => ToSet(worker[v].items) \cap ToSet(worker[u].items) = {}
        BY <1>1 DEF FrameInv, DistinctInv
      <3>2. \A v \in Executor : ToSet(worker[v].items) \cap ToSet(c.items) = {}
        BY <1>11, <1>13 DEF Carried
      <3>3. QED
        BY <1>6, <3>1, <3>2
    <2>5. Queued' \cap Carried' = {}
      BY <1>10, <1>11, <1>13, <1>14
    <2>6. QED
      BY <2>1, <2>2, <2>3, <2>4, <2>5 DEF DistinctInv
  <1>17. At(Step \ {"idle"})' = At(Step \ {"idle"}) \cup {w} /\ w \notin At(Step \ {"idle"})
    BY <1>1, <1>6 DEF At, Step
  <1>18. JoinInv'
    <2>1. Joined(c)
      BY <1>1, <1>3, <1>4 DEF FrameInv, JoinInv
    <2>2. ASSUME NEW i \in DOMAIN queue'
          PROVE  Joined(queue[i])'
      <3>1. Joined(queue[i + 1])
        BY <1>1, <1>5 DEF FrameInv, JoinInv
      <3>2. queue'[i] = queue[i + 1]
        BY <1>5
      <3>3. QED
        BY <1>2, <1>7, <3>1, <3>2 DEF Joined
    <2>3. \A v \in At(Step \ {"idle"}) : v # w /\ v \in Executor /\ Joined(worker[v])
      BY <1>1, <1>17 DEF FrameInv, JoinInv, At
    <2>4. ASSUME NEW v \in At(Step \ {"idle"})'
          PROVE  Joined(worker[v])'
      <3>1. CASE v = w
        BY <1>2, <1>6, <1>7, <2>1, <3>1 DEF Joined
      <3>2. CASE v # w
        <4>1. Joined(worker[v]) /\ worker'[v] = worker[v]
          BY <1>6, <1>17, <2>3, <3>2
        <4>2. QED
          BY <1>2, <1>7, <4>1 DEF Joined
      <3>3. QED
        BY <3>1, <3>2
    <2>5. QED
      BY <2>2, <2>4 DEF JoinInv
  <1>19. OpenInv'
    <2> SUFFICES ASSUME NEW j \in FunctionOrNull
                 PROVE  Waits(open'[j], Cardinality(InQueue(queue', j)) + Cardinality(InHand(j)'))
      BY DEF OpenInv
    <2>1. Waits(open[j], Cardinality(InQueue(queue, j)) + Cardinality(InHand(j)))
      BY <1>1 DEF FrameInv, OpenInv
    <2>2. Cardinality(InQueue(queue, j)) =
            Cardinality(InQueue(queue', j)) + (IF c.join = j THEN 1 ELSE 0)
      BY <1>1, <1>2, <1>3, InQueueTail DEF c
    <2>3. Cardinality(InQueue(queue', j)) \in Nat
      BY <1>3, InQueueFinite
    <2>4. InHand(j) \in SUBSET Executor /\ w \notin InHand(j)
      BY <1>17 DEF InHand, At
    <2>5. IsFiniteSet(InHand(j)) /\ Cardinality(InHand(j)) \in Nat
      BY <2>4, ExecutorFinite
    <2>6. InHand(j)' = IF c.join = j THEN InHand(j) \cup {w} ELSE InHand(j)
      <3>1. \A v \in At(Step \ {"idle"}) : worker'[v].join = worker[v].join
        BY <1>6, <1>17 DEF At
      <3>2. QED
        BY <1>6, <1>17, <3>1 DEF InHand
    <2>7. Cardinality(InHand(j)') = Cardinality(InHand(j)) + (IF c.join = j THEN 1 ELSE 0)
      <3>1. Cardinality(InHand(j) \cup {w}) = Cardinality(InHand(j)) + 1
        BY <2>4, <2>5, FS_AddElement
      <3>2. QED
        BY ONLY <2>5, <2>6, <3>1
    <2>8. open'[j] = open[j]
      BY <1>2
    <2>9. QED
      BY ONLY <2>1, <2>2, <2>3, <2>5, <2>7, <2>8
  <1>20. OrderInv' /\ CoverInv' /\ LiveInv'
    BY <1>1, <1>2, <1>7, <1>8, <1>12 DEF FrameInv, OrderInv, CoverInv, LiveInv
  <1>21. TypeInv'
    BY <1>1, <1>2, <1>3, <1>6 DEF TypeInv
  <1>22. TreeInv' /\ Ordered'
    BY <1>1, <1>2 DEF TreeInv, Ordered
  <1>23. QueuedFunctionsLive'
    <2>1. \A i \in DOMAIN queue' : ToSet(queue'[i].items) \subseteq live'
      BY <1>1, <1>2, <1>5 DEF QueuedFunctionsLive
    <2>2. \A v \in Executor : ToSet(worker'[v].items) \subseteq live'
      BY <1>1, <1>2, <1>3, <1>4, <1>6 DEF QueuedFunctionsLive
    <2>3. QED
      BY <2>1, <2>2 DEF QueuedFunctionsLive
  <1>24. QED
    BY <1>15, <1>16, <1>18, <1>19, <1>20, <1>21, <1>22, <1>23 DEF TickInv, FrameInv

\* TickTarget puts the function on record, after its parent.
LEMMA TickTargetInv ==
  ASSUME TickInv, NEW w \in Executor, TickTarget(w)
  PROVE  TickInv'
  <1> DEFINE f == Current(w)
  <1>1. TypeInv /\ TreeInv /\ FrameInv /\ Ordered /\ QueuedFunctionsLive
        /\ undefined = "no" /\ worker[w].step = "tick"
    BY DEF TickTarget, Doing, TickInv
  <1>2. /\ executed' = Append(executed, f)
        /\ last' = [last EXCEPT ![f] = now]
        /\ UNCHANGED <<held, live, parent, dependents, groups, frame, roots, queue, open, now>>
    BY DEF TickTarget, treeVars, PreTickTime
  <1>3. /\ f \in Function /\ f \in Pending /\ f \in Reached
        /\ f \notin Cleaning /\ f \notin Joining
    BY <1>1, CurrentFacts, StepOfCurrent
  <1> HIDE DEF f
  <1>4. executed \in Seq(Function) /\ executed' \in Seq(Function)
    BY <1>1, <1>2, <1>3 DEF TypeInv
  <1>5. Executed' = Executed \cup {f}
    BY <1>2, <1>4, ToSetAppend DEF Executed
  <1>6. last' \in [Function -> 0 .. now']
    <2>1. now \in 0 .. now
      BY <1>1, MaxFramesAssumption DEF TypeInv
    <2>2. QED
      BY <1>1, <1>2, <1>3, <2>1 DEF TypeInv
  <1>7. TreeInv'
    BY <1>1, <1>2 DEF TreeInv
  <1>8. Ordered'
    <2>1. /\ DOMAIN executed' = 1 .. Len(executed) + 1 /\ Len(executed) \in Nat
          /\ DOMAIN executed = 1 .. Len(executed)
          /\ executed'[Len(executed) + 1] = f
          /\ \A i \in 1 .. Len(executed) : executed'[i] = executed[i]
      BY <1>2, <1>4
    <2> SUFFICES ASSUME NEW i \in 1 .. Len(executed) + 1, parent[executed'[i]] # None
                 PROVE  \E j \in 1 .. i - 1 : executed'[j] = parent[executed'[i]]
      BY <1>2, <2>1 DEF Ordered
    <2>2. CASE i = Len(executed) + 1
      <3>1. executed'[i] = f
        BY <2>1, <2>2
      <3>2. parent[f] \in Executed
        BY <1>1, <1>3, <3>1 DEF FrameInv, OrderInv
      <3>3. PICK j \in 1 .. Len(executed) : executed[j] = parent[f]
        BY <2>1, <3>2 DEF Executed, ToSet
      <3>4. j \in 1 .. i - 1 /\ executed'[j] = parent[executed'[i]]
        BY <2>1, <2>2, <3>1, <3>3
      <3>5. QED
        BY <3>4
    <2>3. CASE i # Len(executed) + 1
      <3>1. i \in 1 .. Len(executed) /\ executed'[i] = executed[i]
        BY <2>1, <2>3
      <3>2. PICK j \in 1 .. i - 1 : executed[j] = parent[executed[i]]
        BY <1>1, <2>1, <3>1 DEF Ordered
      <3>3. executed'[j] = executed[j]
        BY <2>1, <3>1
      <3>4. QED
        BY <3>1, <3>2, <3>3
    <2>4. QED
      BY <2>2, <2>3
  <1>9. CASE undefined' = "ticked a destroyed object" /\ UNCHANGED worker
    <2>1. TypeInv'
      BY <1>1, <1>2, <1>4, <1>6, <1>9 DEF TypeInv
    <2>2. QueuedFunctionsLive'
      BY <1>1, <1>2, <1>9 DEF QueuedFunctionsLive
    <2>3. undefined' # "no"
      BY <1>9
    <2>4. QED
      BY <1>7, <1>8, <2>1, <2>2, <2>3 DEF TickInv
  <1>10. CASE SetStep(w, "clean") /\ UNCHANGED undefined
    <2>1. /\ worker' \in [Executor -> Work]
          /\ worker'[w].items = worker[w].items /\ worker'[w].join = worker[w].join
          /\ worker'[w].step = "clean"
          /\ \A v \in Executor : v # w => worker'[v] = worker[v]
      <3>1. worker' = [worker EXCEPT ![w].step = "clean"]
        BY <1>10 DEF SetStep
      <3>2. worker \in [Executor -> Work]
        BY <1>1 DEF TypeInv
      <3>3. QED
        BY <3>1, <3>2 DEF Work, Step
    <2>2. \A v \in Executor : worker'[v].items = worker[v].items
      BY <2>1
    <2>3. Current(w)' = f
      BY <2>1 DEF Current, f
    <2>4. Cleaning' = Cleaning \cup {f} /\ Joining' = Joining
      <3>1. worker[w].step \notin {"idle", "finish"}
        BY <1>1
      <3>2. /\ Cleaning' = (Cleaning \ {f}) \cup {Current(w)'}
            /\ Joining' = Joining \ {f}
        BY <1>1, <2>1, <3>1, BusySets DEF f
      <3>3. QED
        BY <1>3, <2>3, <3>2
    <2>5. Queued' = Queued /\ Carried' = Carried
      BY <1>2, <2>2 DEF Queued, Carried
    <2>6. Pending' = Pending /\ Reached' = Reached
      BY <1>3, <1>5, <2>5 DEF Pending, Reached
    <2>7. At(Step \ {"idle"})' = At(Step \ {"idle"}) /\ \A j : InHand(j)' = InHand(j)
      BY <1>1, <2>1, SameHands DEF Step
    <2>8. WorkInv'
      <3>1. ASSUME NEW v \in Executor
            PROVE  /\ worker'[v].step = "idle" => worker'[v] = Idle
                   /\ worker'[v].items = <<>> <=> worker'[v].step \in {"idle", "finish"}
        <4>1. /\ worker[v].step = "idle" => worker[v] = Idle
              /\ worker[v].items = <<>> <=> worker[v].step \in {"idle", "finish"}
          BY <1>1 DEF FrameInv, WorkInv
        <4>2. QED
          BY <1>1, <2>1, <4>1
      <3>2. frame # None
        BY <1>1 DEF FrameInv, WorkInv, At, Step
      <3>3. QED
        BY <1>1, <1>2, <3>1, <3>2 DEF FrameInv, WorkInv
    <2>9. DistinctInv'
      BY <1>1, <1>2, <2>2, <2>5 DEF FrameInv, DistinctInv
    <2>10. JoinInv'
      <3>1. \A i \in DOMAIN queue : Joined(queue[i])'
        BY <1>1, <1>2, <2>4 DEF FrameInv, JoinInv, Joined
      <3>2. ASSUME NEW v \in At(Step \ {"idle"})
            PROVE  Joined(worker[v])'
        <4>1. Joined(worker[v]) /\ v \in Executor
          BY <1>1 DEF FrameInv, JoinInv, At
        <4>2. worker'[v].items = worker[v].items /\ worker'[v].join = worker[v].join
          BY <2>1, <4>1
        <4>3. QED
          BY <1>2, <2>4, <4>1, <4>2 DEF Joined
      <3>3. QED
        BY <1>2, <2>7, <3>1, <3>2 DEF JoinInv
    <2>11. OpenInv'
      BY <1>1, <1>2, <2>7 DEF FrameInv, OpenInv
    <2>12. OrderInv'
      BY <1>1, <1>2, <1>5, <2>4, <2>6 DEF FrameInv, OrderInv
    <2>13. CoverInv' /\ LiveInv'
      BY <1>1, <1>2, <1>5, <2>4, <2>6 DEF FrameInv, CoverInv, LiveInv
    <2>14. TypeInv'
      BY <1>1, <1>2, <1>4, <1>6, <2>1 DEF TypeInv
    <2>15. QueuedFunctionsLive'
      BY <1>1, <1>2, <2>2 DEF QueuedFunctionsLive
    <2>16. QED
      BY <1>7, <1>8, <2>8, <2>9, <2>10, <2>11, <2>12, <2>13, <2>14, <2>15 DEF TickInv, FrameInv
  <1>11. QED
    BY <1>9, <1>10 DEF TickTarget

-----------------------------------------------------------------------------
\* CleanDependents frees what only the list of the current function refers to.

LEMMA OccurrencesFacts ==
  ASSUME NEW s \in Seq(Function), NEW x
  PROVE  Occurrences(s, x) \in Nat /\ (x \in ToSet(s) => Occurrences(s, x) >= 1)
  <1> DEFINE P == {i \in DOMAIN s : s[i] = x}
  <1>1. P \in SUBSET (1 .. Len(s)) /\ Len(s) \in Nat
    OBVIOUS
  <1>2. IsFiniteSet(1 .. Len(s))
    BY <1>1, FS_Interval
  <1>3. IsFiniteSet(P)
    BY <1>1, <1>2, FS_Subset
  <1>4. Cardinality(P) \in Nat
    BY <1>3, FS_CardinalityType
  <1>5. x \in ToSet(s) => P # {}
    BY DEF ToSet
  <1>6. P # {} => Cardinality(P) # 0
    BY <1>3, FS_EmptySet
  <1>7. Occurrences(s, x) = Cardinality(P)
    BY DEF Occurrences
  <1> HIDE DEF P
  <1>8. QED
    BY <1>4, <1>5, <1>6, <1>7

\* A dependent with one reference has it from the list of its parent only.
LEMMA OnlyReference ==
  ASSUME TypeInv, TreeInv, NEW p \in live, NEW c \in ToSet(dependents[p]),
         ~(References(c, roots) > 1)
  PROVE  c \notin held /\ c \notin ToSet(groups[TypeOf[c]])
  <1>1. c \in live /\ parent[c] = p /\ p \in Function /\ c \in Function
    BY DEF TypeInv, TreeInv
  <1>2. TypeOf[c] \in Group
    BY <1>1, TypeOfAssumption
  <1>3. groups[TypeOf[c]] \in Seq(Function) /\ roots \in Seq(Function)
    BY <1>2 DEF TypeInv
  <1> DEFINE A == IF c \in held THEN 1 ELSE 0
             B == {q \in live : Contains(dependents[q], c)}
             C == Occurrences(groups[TypeOf[c]], c)
             D == Occurrences(roots, c)
  <1>4. B = {p}
    <2>1. ASSUME NEW q \in live
          PROVE  Contains(dependents[q], c) <=> q = p
      <3>1. q \in Function /\ dependents[q] \in Seq(Function)
        BY DEF TypeInv
      <3>2. Contains(dependents[q], c) <=> c \in ToSet(dependents[q])
        BY <3>1, ContainsIsMember
      <3>3. c \in ToSet(dependents[q]) <=> parent[c] = q
        BY <1>1 DEF TreeInv
      <3>4. QED
        BY <1>1, <3>2, <3>3
    <2>2. QED
      BY <2>1
  <1>5. Cardinality(B) = 1
    BY <1>4, FS_Singleton
  <1>6. C \in Nat /\ D \in Nat /\ (c \in ToSet(groups[TypeOf[c]]) => C >= 1)
    BY <1>3, OccurrencesFacts
  <1>7. References(c, roots) = A + Cardinality(B) + C + D
    BY DEF References
  <1>8. A \in {0, 1} /\ (c \in held => A = 1)
    OBVIOUS
  <1> HIDE DEF A, B, C, D
  <1>9. ~(A + 1 + C + D > 1)
    BY <1>5, <1>7
  <1>10. QED
    BY <1>6, <1>8, <1>9

\* What CleanDependents drops from the list is freed.
LEMMA DroppedIsFreed ==
  ASSUME TypeInv, TreeInv, NEW p \in live, NEW c \in ToSet(dependents[p]),
         ~(References(c, roots) > 1), NEW lists \in [Function -> Seq(Function)],
         \A q \in Function : q # p => lists[q] = dependents[q], c \notin ToSet(lists[p])
  PROVE  c \notin Kept(held, lists)
  <1> SUFFICES ASSUME c \in Kept(held, lists) PROVE FALSE
    OBVIOUS
  <1>1. c \in live /\ parent[c] = p /\ p \in Function /\ c \in Function
    BY DEF TypeInv, TreeInv
  <1>2. c \notin held /\ c \notin ToSet(groups[TypeOf[c]])
    BY OnlyReference
  <1>3. ~Contains(groups[TypeOf[c]], c)
    <2>1. groups[TypeOf[c]] \in Seq(Function)
      BY <1>1, TypeOfAssumption DEF TypeInv
    <2>2. QED
      BY <1>2, <2>1, ContainsIsMember
  <1>4. PICK q \in Kept(held, lists) : Contains(lists[q], c)
    BY <1>2, <1>3, KeptFacts DEF Referenced
  <1>5. q \in live /\ q \in Function
    BY KeptFacts DEF TypeInv
  <1>6. c \in ToSet(lists[q])
    <2>1. lists[q] \in Seq(Function)
      BY <1>5
    <2>2. QED
      BY <1>4, <2>1, ContainsIsMember
  <1>7. q # p
    BY <1>6
  <1>8. c \in ToSet(dependents[q])
    BY <1>5, <1>6, <1>7
  <1>9. parent[c] = q
    BY <1>1, <1>5, <1>8 DEF TreeInv
  <1>10. QED
    BY <1>1, <1>7, <1>9

\* CleanDependents keeps the trees, and everything the frame has reached.
LEMMA CleanDependentsInv ==
  ASSUME TickInv, NEW w \in Executor, CleanDependents(w)
  PROVE  TickInv'
  <1> DEFINE f == Current(w)
             referenced == Filter(dependents[f], {c \in Function : References(c, roots) > 1})
             lists == [dependents EXCEPT ![f] = referenced]
  <1>1. TypeInv /\ TreeInv /\ FrameInv /\ Ordered /\ QueuedFunctionsLive
        /\ undefined = "no" /\ worker[w].step = "clean"
    BY DEF CleanDependents, Doing, TickInv
  <1>2. /\ Free(held, lists) /\ SetStep(w, "fork")
        /\ UNCHANGED <<held, parent, groups, frame, roots, queue, open, last, now,
                       undefined, executed, before>>
    BY DEF CleanDependents
  <1>3. /\ f \in Function /\ f \in Pending /\ f \in Reached
        /\ f \in Cleaning /\ f \notin Joining
    BY <1>1, CurrentFacts, StepOfCurrent
  <1>4. f \in live
    BY <1>1, <1>3 DEF FrameInv, LiveInv
  <1>5. /\ referenced \in Seq(Function) /\ IsInjective(referenced)
        /\ ToSet(referenced)
             = ToSet(dependents[f]) \cap {c \in Function : References(c, roots) > 1}
    <2>1. dependents[f] \in Seq(Function) /\ IsInjective(dependents[f])
      BY <1>1, <1>3, <1>4 DEF TypeInv, TreeInv
    <2>2. PICK S : S = {c \in Function : References(c, roots) > 1}
      OBVIOUS
    <2>3. referenced = Filter(dependents[f], S)
      BY <2>2
    <2> HIDE DEF referenced
    <2>4. QED
      BY <2>1, <2>2, <2>3, FilterFacts
  <1> HIDE DEF f, referenced
  <1>6. /\ lists \in [Function -> Seq(Function)] /\ lists[f] = referenced
        /\ \A q \in Function : q # f => lists[q] = dependents[q]
    BY <1>1, <1>3, <1>5 DEF TypeInv
  <1> HIDE DEF lists
  <1>7. live' = Kept(held, lists) /\ live' \subseteq live
    BY <1>2, KeptFacts DEF Free
  <1>8. \A q \in Function : ToSet(lists[q]) \subseteq ToSet(dependents[q])
    BY <1>5, <1>6
  <1>9. \A p, c \in live' : c \in ToSet(lists[p]) <=> parent'[c] = p
    <2> SUFFICES ASSUME NEW p \in live', NEW c \in live'
                 PROVE  c \in ToSet(lists[p]) <=> parent[c] = p
      BY <1>2
    <2>1. p \in live /\ c \in live /\ p \in Function /\ c \in Function
      BY <1>1, <1>7 DEF TypeInv
    <2>2. c \in ToSet(dependents[p]) <=> parent[c] = p
      BY <1>1, <2>1 DEF TreeInv
    <2>3. CASE p # f
      BY <1>6, <2>1, <2>2, <2>3
    <2>4. CASE p = f
      <3>1. ASSUME c \in ToSet(dependents[f]), c \notin ToSet(lists[f])
            PROVE  FALSE
        <4>1. ~(References(c, roots) > 1)
          BY <1>5, <1>6, <2>1, <3>1
        <4>2. c \notin Kept(held, lists)
          BY <1>1, <1>4, <1>6, <3>1, <4>1, DroppedIsFreed
        <4>3. QED
          BY <1>7, <4>2
      <3>2. QED
        BY <1>8, <2>1, <2>2, <2>4, <3>1
    <2>5. QED
      BY <2>3, <2>4
  <1>10. /\ TreeInv' /\ held' \subseteq live' /\ live' \subseteq live
         /\ dependents' \in [Function -> Seq(Function)]
    <2>1. held \in SUBSET live
      BY <1>1 DEF TypeInv
    <2>2. \A h \in Function \ live : ToSet(lists[h]) = {}
      <3>1. \A h \in Function \ live : ToSet(dependents[h]) = {}
        BY <1>1 DEF TreeInv
      <3>2. QED
        BY <1>8, <3>1
    <2>3. \A h \in live : IsInjective(lists[h]) /\ ToSet(lists[h]) \subseteq live
      <3> SUFFICES ASSUME NEW h \in live
                   PROVE  IsInjective(lists[h]) /\ ToSet(lists[h]) \subseteq live
        OBVIOUS
      <3>1. h \in Function /\ IsInjective(dependents[h]) /\ ToSet(dependents[h]) \subseteq live
        BY <1>1 DEF TypeInv, TreeInv
      <3>2. IsInjective(lists[h])
        BY <1>5, <1>6, <3>1
      <3>3. QED
        BY <1>8, <3>1, <3>2
    <2>4. QED
      BY <1>1, <1>2, <1>6, <1>9, <2>1, <2>2, <2>3, FreeTree
  <1>11. Reached \subseteq live'
    <2> SUFFICES ASSUME NEW c \in Reached
                 PROVE  \/ c \in held
                        \/ Contains(groups[TypeOf[c]], c)
                        \/ \E p \in Reached : Contains(lists[p], c)
      <3>1. PICK S \in SUBSET live : S = Reached
        BY <1>1 DEF FrameInv, LiveInv
      <3>2. \A c \in S : \/ c \in held
                         \/ Contains(groups[TypeOf[c]], c)
                         \/ \E p \in S \cup Kept(held, lists) : Contains(lists[p], c)
        BY <3>1
      <3>3. S \subseteq Kept(held, lists)
        BY <3>2, KeptWith
      <3>4. QED
        BY <1>7, <3>1, <3>3
    <2>1. c \in live /\ c \in Function
      BY <1>1 DEF FrameInv, LiveInv, TypeInv
    <2>2. CASE parent[c] = None
      <3>1. c \in held \/ c \in ToSet(groups[TypeOf[c]])
        BY <1>1, <2>2 DEF FrameInv, CoverInv, LiveInv
      <3>2. groups[TypeOf[c]] \in Seq(Function)
        BY <1>1, <2>1, TypeOfAssumption DEF TypeInv
      <3>3. QED
        BY <3>1, <3>2, ContainsIsMember
    <2>3. CASE parent[c] # None
      <3>1. /\ parent[c] \in Executed /\ c \in ToSet(dependents[parent[c]])
            /\ parent[c] \in Pending => parent[c] \in Joining
        BY <1>1, <2>3 DEF FrameInv, OrderInv
      <3>2. parent[c] # f /\ parent[c] \in Reached
        BY <1>3, <3>1 DEF Reached
      <3>3. parent[c] \in Function
        BY <1>1, <3>2 DEF FrameInv, LiveInv, TypeInv
      <3>4. lists[parent[c]] \in Seq(Function) /\ c \in ToSet(lists[parent[c]])
        BY <1>6, <3>1, <3>2, <3>3
      <3>5. QED
        BY <3>2, <3>4, ContainsIsMember
    <2>4. QED
      BY <2>2, <2>3
  <1>12. \A p \in Reached : p # f => dependents'[p] = dependents[p]
    <2> SUFFICES ASSUME NEW p \in Reached, p # f
                 PROVE  dependents'[p] = dependents[p]
      OBVIOUS
    <2>1. p \in Function /\ p \in live'
      BY <1>1, <1>11 DEF FrameInv, LiveInv, TypeInv
    <2>2. dependents'[p] = lists[p]
      BY <1>2, <2>1 DEF Free
    <2>3. QED
      BY <1>6, <2>1, <2>2
  <1>13. /\ worker' \in [Executor -> Work]
         /\ worker'[w].items = worker[w].items /\ worker'[w].join = worker[w].join
         /\ worker'[w].step = "fork"
         /\ \A v \in Executor : v # w => worker'[v] = worker[v]
    <2>1. worker' = [worker EXCEPT ![w].step = "fork"]
      BY <1>2 DEF SetStep
    <2>2. worker \in [Executor -> Work]
      BY <1>1 DEF TypeInv
    <2>3. QED
      BY <2>1, <2>2 DEF Work, Step
  <1>14. \A v \in Executor : worker'[v].items = worker[v].items
    BY <1>13
  <1>15. Current(w)' = f
    BY <1>13 DEF Current, f
  <1>16. Cleaning' = Cleaning /\ Joining' = Joining
    <2>1. worker[w].step \notin {"idle", "finish"}
      BY <1>1
    <2>2. /\ Cleaning' = (Cleaning \ {f}) \cup {Current(w)'}
          /\ Joining' = Joining \ {f}
      BY <1>1, <1>13, <2>1, BusySets DEF f
    <2>3. QED
      BY <1>3, <1>15, <2>2
  <1>17. Queued' = Queued /\ Carried' = Carried /\ Executed' = Executed
    BY <1>2, <1>14 DEF Queued, Carried, Executed
  <1>18. Pending' = Pending /\ Reached' = Reached
    BY <1>17 DEF Pending, Reached
  <1>19. At(Step \ {"idle"})' = At(Step \ {"idle"}) /\ \A j : InHand(j)' = InHand(j)
    BY <1>1, <1>13, SameHands DEF Step
  <1>20. WorkInv'
    <2>1. ASSUME NEW v \in Executor
          PROVE  /\ worker'[v].step = "idle" => worker'[v] = Idle
                 /\ worker'[v].items = <<>> <=> worker'[v].step \in {"idle", "finish"}
      <3>1. /\ worker[v].step = "idle" => worker[v] = Idle
            /\ worker[v].items = <<>> <=> worker[v].step \in {"idle", "finish"}
        BY <1>1 DEF FrameInv, WorkInv
      <3>2. QED
        BY <1>1, <1>13, <3>1
    <2>2. frame # None
      BY <1>1 DEF FrameInv, WorkInv, At, Step
    <2>3. QED
      BY <1>1, <1>2, <2>1, <2>2 DEF FrameInv, WorkInv
  <1>21. DistinctInv'
    BY <1>1, <1>2, <1>14, <1>17 DEF FrameInv, DistinctInv
  <1>22. JoinInv'
    <2>1. \A i \in DOMAIN queue : Joined(queue[i])'
      BY <1>1, <1>2, <1>16 DEF FrameInv, JoinInv, Joined
    <2>2. ASSUME NEW v \in At(Step \ {"idle"})
          PROVE  Joined(worker[v])'
      <3>1. Joined(worker[v]) /\ v \in Executor
        BY <1>1 DEF FrameInv, JoinInv, At
      <3>2. worker'[v].items = worker[v].items /\ worker'[v].join = worker[v].join
        BY <1>13, <3>1
      <3>3. QED
        BY <1>2, <1>16, <3>1, <3>2 DEF Joined
    <2>3. QED
      BY <1>2, <1>19, <2>1, <2>2 DEF JoinInv
  <1>23. OpenInv'
    BY <1>1, <1>2, <1>19 DEF FrameInv, OpenInv
  <1>24. OrderInv'
    <2>1. ASSUME NEW c \in Reached, parent[c] # None
          PROVE  /\ parent[c] \in Executed
                 /\ parent[c] \in Pending => parent[c] \in Joining
                 /\ c \in ToSet(dependents'[parent[c]])
      <3>1. /\ parent[c] \in Executed /\ c \in ToSet(dependents[parent[c]])
            /\ parent[c] \in Pending => parent[c] \in Joining
        BY <1>1, <2>1 DEF FrameInv, OrderInv
      <3>2. parent[c] # f /\ parent[c] \in Reached
        BY <1>3, <3>1 DEF Reached
      <3>3. QED
        BY <1>12, <3>1, <3>2
    <2>2. QED
      BY <1>1, <1>2, <1>16, <1>17, <1>18, <2>1 DEF FrameInv, OrderInv
  <1>25. CoverInv'
    <2>1. ASSUME NEW h \in Executed \ Cleaning
          PROVE  ToSet(dependents'[h]) \subseteq Reached
      <3>1. ToSet(dependents[h]) \subseteq Reached
        BY <1>1 DEF FrameInv, CoverInv
      <3>2. h \in Reached /\ h # f
        BY <1>3 DEF Reached
      <3>3. QED
        BY <1>12, <3>1, <3>2
    <2>2. QED
      BY <1>1, <1>2, <1>16, <1>17, <1>18, <2>1 DEF FrameInv, CoverInv
  <1>26. LiveInv'
    BY <1>1, <1>2, <1>11, <1>18 DEF FrameInv, LiveInv
  <1>27. TypeInv'
    BY <1>1, <1>2, <1>10, <1>13 DEF TypeInv
  <1>28. QueuedFunctionsLive'
    <2>1. \A i \in DOMAIN queue : ToSet(queue[i].items) \subseteq Reached
      BY DEF Reached, Pending, Queued, ItemsOf
    <2>2. \A v \in Executor : ToSet(worker[v].items) \subseteq Reached
      BY DEF Reached, Pending, Carried
    <2>3. QED
      BY <1>2, <1>11, <1>14, <2>1, <2>2 DEF QueuedFunctionsLive
  <1>29. Ordered'
    BY <1>1, <1>2 DEF Ordered
  <1>30. QED
    BY <1>10, <1>20, <1>21, <1>22, <1>23, <1>24, <1>25, <1>26, <1>27, <1>28, <1>29
       DEF TickInv, FrameInv

-----------------------------------------------------------------------------
\* NextItem leaves the current function behind.  Nothing may wait for it any
\* more, and what it has below it must have been reached.
LEMMA NextItemInv ==
  ASSUME TickInv, undefined = "no", NEW w \in Executor, worker[w].step \in {"fork", "join"},
         NextItem(w), \A i \in DOMAIN queue : queue[i].join # Current(w),
         \A v \in At(Step \ {"idle"}) : worker[v].join # Current(w),
         ToSet(dependents[Current(w)]) \subseteq Reached,
         UNCHANGED <<held, live, parent, dependents, groups, frame, roots, queue, open, last,
                     now, undefined, executed, before>>
  PROVE  TickInv'
  <1> DEFINE f == Current(w)
             rest == Tail(worker[w].items)
  <1>1. TypeInv /\ TreeInv /\ FrameInv /\ Ordered /\ QueuedFunctionsLive
    BY DEF TickInv
  <1>2. worker[w].step \notin {"idle", "finish"}
    OBVIOUS
  <1>3. /\ worker[w].items \in Seq(Function) /\ worker[w].items # <<>>
        /\ f \in ToSet(worker[w].items) /\ f \in Function
        /\ ToSet(rest) = ToSet(worker[w].items) \ {f}
        /\ IsInjective(rest) /\ f \in Carried /\ f \in Reached
    BY <1>1, <1>2, CurrentFacts
  <1>4. f \in Cleaning \cup Joining
    BY <1>1, <1>2, StepOfCurrent
  <1>5. f \in Executed
    BY <1>1, <1>4 DEF FrameInv, OrderInv
  <1>6. /\ worker' \in [Executor -> Work]
        /\ worker'[w].items = rest /\ worker'[w].join = worker[w].join
        /\ worker'[w].step \in {"tick", "finish"}
        /\ rest = <<>> <=> worker'[w].step = "finish"
        /\ \A v \in Executor : v # w => worker'[v] = worker[v]
    <2>1. worker' = [worker EXCEPT ![w].items = rest,
                                   ![w].step = IF rest = <<>> THEN "finish" ELSE "tick"]
      BY DEF NextItem
    <2>2. worker \in [Executor -> Work]
      BY <1>1 DEF TypeInv
    <2>3. rest \in Seq(Function)
      BY <1>3
    <2> HIDE DEF rest
    <2>4. QED
      BY <2>1, <2>2, <2>3 DEF Work, Step
  <1>7. /\ Cleaning' = Cleaning \ {f} /\ Joining' = Joining \ {f}
        /\ Others(w) \cap ToSet(worker[w].items) = {}
    <2>1. worker'[w].step \notin {"clean", "fork"} /\ worker'[w].step # "join"
      BY <1>6
    <2>2. QED
      BY <1>1, <1>2, <1>6, <2>1, BusySets
  <1> HIDE DEF f, rest
  <1>8. Carried' = Carried \ {f}
    <2>1. Carried = Others(w) \cup ToSet(worker[w].items)
      BY CarriedBy
    <2>2. Carried' = Others(w) \cup ToSet(rest)
      BY <1>6, CarriedByNext
    <2>3. QED
      BY <1>3, <1>7, <2>1, <2>2
  <1>9. Queued' = Queued /\ Executed' = Executed /\ f \notin Queued
    <2>1. Queued \cap Carried = {}
      BY <1>1 DEF FrameInv, DistinctInv
    <2>2. QED
      BY <1>3, <2>1 DEF Queued, Executed
  <1>10. Pending' = Pending \ {f} /\ Reached' = Reached
    BY <1>5, <1>8, <1>9 DEF Pending, Reached
  <1>11. At(Step \ {"idle"})' = At(Step \ {"idle"}) /\ \A j : InHand(j)' = InHand(j)
    <2>1. worker[w].step \in Step \ {"idle"} /\ worker'[w].step \in Step \ {"idle"}
      BY <1>6 DEF Step
    <2>2. QED
      BY <1>6, <2>1, SameHands
  <1>12. WorkInv'
    <2>1. ASSUME NEW v \in Executor
          PROVE  /\ worker'[v].step = "idle" => worker'[v] = Idle
                 /\ worker'[v].items = <<>> <=> worker'[v].step \in {"idle", "finish"}
      <3>1. CASE v = w
        BY <1>6, <3>1
      <3>2. CASE v # w
        BY <1>1, <1>6, <3>2 DEF FrameInv, WorkInv
      <3>3. QED
        BY <3>1, <3>2
    <2>2. frame # None
      BY <1>1 DEF FrameInv, WorkInv, At, Step
    <2>3. QED
      BY <1>1, <2>1, <2>2 DEF FrameInv, WorkInv
  <1>13. \A v \in Executor : ToSet(worker'[v].items) \subseteq ToSet(worker[v].items)
    BY <1>3, <1>6
  <1>14. DistinctInv'
    <2>1. \A v \in Executor : IsInjective(worker'[v].items)
      <3>1. \A v \in Executor : IsInjective(worker[v].items)
        BY <1>1 DEF FrameInv, DistinctInv
      <3>2. QED
        BY <1>3, <1>6, <3>1
    <2>2. \A u, v \in Executor :
            u # v => ToSet(worker'[u].items) \cap ToSet(worker'[v].items) = {}
      <3>1. \A u, v \in Executor :
              u # v => ToSet(worker[u].items) \cap ToSet(worker[v].items) = {}
        BY <1>1 DEF FrameInv, DistinctInv
      <3>2. QED
        BY <1>13, <3>1
    <2>3. Queued' \cap Carried' = {}
      BY <1>1, <1>8, <1>9 DEF FrameInv, DistinctInv
    <2>4. QED
      BY <1>1, <2>1, <2>2, <2>3 DEF FrameInv, DistinctInv
  <1>15. JoinInv'
    <2>1. ASSUME NEW i \in DOMAIN queue
          PROVE  Joined(queue[i])'
      <3>1. Joined(queue[i]) /\ queue[i].join # f
        BY <1>1 DEF FrameInv, JoinInv, f
      <3>2. QED
        BY <1>7, <3>1 DEF Joined
    <2>2. ASSUME NEW v \in At(Step \ {"idle"})
          PROVE  Joined(worker[v])'
      <3>1. Joined(worker[v]) /\ v \in Executor /\ worker[v].join # f
        BY <1>1 DEF FrameInv, JoinInv, At, f
      <3>2. worker'[v].join = worker[v].join
        BY <1>6, <3>1
      <3>3. QED
        BY <1>7, <1>13, <3>1, <3>2 DEF Joined
    <2>3. QED
      BY <1>11, <2>1, <2>2 DEF JoinInv
  <1>16. OpenInv'
    BY <1>1, <1>11 DEF FrameInv, OpenInv
  <1>17. OrderInv'
    <2>1. ASSUME NEW c \in Reached, parent[c] # None
          PROVE  /\ parent[c] \in Executed
                 /\ parent[c] \in Pending' => parent[c] \in Joining'
                 /\ c \in ToSet(dependents[parent[c]])
      <3>1. /\ parent[c] \in Executed /\ c \in ToSet(dependents[parent[c]])
            /\ parent[c] \in Pending => parent[c] \in Joining
        BY <1>1, <2>1 DEF FrameInv, OrderInv
      <3>2. QED
        BY <1>7, <1>10, <3>1
    <2>2. Cleaning' \cup Joining' \subseteq Executed
      BY <1>1, <1>7 DEF FrameInv, OrderInv
    <2>3. Pending' \cap Executed \subseteq Cleaning' \cup Joining'
      BY <1>1, <1>7, <1>10 DEF FrameInv, OrderInv
    <2>4. QED
      BY <1>9, <1>10, <2>1, <2>2, <2>3 DEF OrderInv
  <1>18. CoverInv'
    <2>1. ASSUME NEW h \in Executed \ Cleaning'
          PROVE  ToSet(dependents[h]) \subseteq Reached
      <3>1. CASE h = f
        BY <3>1 DEF f
      <3>2. CASE h # f
        BY <1>1, <1>7, <2>1, <3>2 DEF FrameInv, CoverInv
      <3>3. QED
        BY <3>1, <3>2
    <2>2. QED
      BY <1>1, <1>9, <1>10, <2>1 DEF FrameInv, CoverInv
  <1>19. LiveInv'
    BY <1>1, <1>10 DEF FrameInv, LiveInv
  <1>20. TypeInv'
    BY <1>1, <1>6 DEF TypeInv
  <1>21. TreeInv' /\ Ordered'
    BY <1>1 DEF TreeInv, Ordered
  <1>22. QueuedFunctionsLive'
    BY <1>1, <1>13 DEF QueuedFunctionsLive
  <1>23. QED
    BY <1>12, <1>14, <1>15, <1>16, <1>17, <1>18, <1>19, <1>20, <1>21, <1>22
       DEF TickInv, FrameInv

\* future.get() has returned: the dependents are done.
LEMMA JoinStepInv ==
  ASSUME TickInv, NEW w \in Executor, Join(w)
  PROVE  TickInv'
  <1>1. /\ TypeInv /\ FrameInv /\ undefined = "no" /\ worker[w].step = "join"
        /\ open[Current(w)] = 0 /\ NextItem(w)
        /\ UNCHANGED <<held, live, parent, dependents, groups, frame, roots, queue, open, last,
                       now, undefined, executed, before>>
    BY DEF Join, Doing, TickInv, treeVars
  <1>2. Current(w) \in FunctionOrNull /\ Current(w) \in Joining /\ Current(w) \notin Cleaning
    BY <1>1, CurrentFacts, StepOfCurrent DEF FunctionOrNull
  <1>3. /\ \A i \in DOMAIN queue : queue[i].join # Current(w)
        /\ \A v \in At(Step \ {"idle"}) : worker[v].join # Current(w)
    BY <1>1, <1>2, NoChunks
  <1>4. ToSet(dependents[Current(w)]) \subseteq Reached
    BY <1>1, <1>2 DEF FrameInv, OrderInv, CoverInv
  <1>5. QED
    BY <1>1, <1>3, <1>4, NextItemInv

\* The dependents of the current function become chunks for it to join, none of
\* which the frame has reached before; without any, the worker goes on.
LEMMA ExecuteDependentsInv ==
  ASSUME TickInv, NEW w \in Executor, ExecuteDependents(w)
  PROVE  TickInv'
  <1> DEFINE f == Current(w)
             D == ToSet(dependents[f])
             new == Chunks(dependents[f], f)
  <1>1. /\ TypeInv /\ TreeInv /\ FrameInv /\ Ordered /\ QueuedFunctionsLive
        /\ undefined = "no" /\ worker[w].step = "fork"
        /\ UNCHANGED <<held, live, parent, dependents, groups, frame, roots, last, now,
                       undefined, executed, before>>
    BY DEF ExecuteDependents, Doing, TickInv, treeVars
  <1>2. /\ f \in Function /\ f \in FunctionOrNull /\ f # None
        /\ f \in Pending /\ f \in Reached /\ f \in Cleaning /\ f \notin Joining
    BY <1>1, CurrentFacts, StepOfCurrent, NoneAssumption DEF FunctionOrNull
  <1>3. f \in live
    BY <1>1, <1>2 DEF FrameInv, LiveInv
  <1>4. /\ \A i \in DOMAIN queue : queue[i].join # f
        /\ \A v \in At(Step \ {"idle"}) : worker[v].join # f
    BY <1>1, <1>2 DEF FrameInv, JoinInv, Joined
  <1>5. CASE dependents[f] = <<>>
    <2>1. NextItem(w) /\ UNCHANGED <<queue, open>>
      BY <1>5 DEF ExecuteDependents
    <2>2. D \subseteq Reached
      BY <1>5 DEF ToSet
    <2>3. QED
      BY <1>1, <1>4, <2>1, <2>2, NextItemInv
  <1>6. CASE dependents[f] # <<>>
    <2>1. /\ queue' = queue \o new /\ open' = [open EXCEPT ![f] = Len(new) + 1]
          /\ SetStep(w, "join")
      BY <1>6 DEF ExecuteDependents, Fork
    <2>2. /\ dependents[f] \in Seq(Function) /\ IsInjective(dependents[f])
          /\ D \subseteq live /\ \A c \in D : parent[c] = f
      BY <1>1, <1>2, <1>3 DEF TypeInv, TreeInv
    <2>3. f \in Executed /\ D \cap Reached = {}
      <3>1. f \in Executed
        BY <1>1, <1>2 DEF FrameInv, OrderInv
      <3>2. ASSUME NEW c \in D, c \in Reached
            PROVE  FALSE
        BY <1>1, <1>2, <2>2, <3>2 DEF FrameInv, OrderInv
      <3>3. QED
        BY <3>1, <3>2
    <2>4. /\ new \in Seq(Chunk) /\ ItemsOf(new) = D
          /\ \A i \in DOMAIN new : /\ new[i].join = f /\ new[i].items # <<>>
                                   /\ IsInjective(new[i].items)
          /\ \A i, j \in DOMAIN new :
               i # j => ToSet(new[i].items) \cap ToSet(new[j].items) = {}
      <3>1. PICK items \in Seq(Function) : items = dependents[f]
        BY <2>2
      <3>2. PICK join \in FunctionOrNull : join = f
        BY <1>2
      <3>3. new = Chunks(items, join) /\ D = ToSet(items) /\ IsInjective(items)
        BY <2>2, <3>1, <3>2
      <3> HIDE DEF f, new, D
      <3>4. new \in Seq(Chunk) /\ ItemsOf(new) = D
        BY <3>3, ChunksFacts
      <3>5. \A i \in DOMAIN new : /\ new[i].join = f /\ new[i].items # <<>>
                                  /\ IsInjective(new[i].items)
        BY <3>2, <3>3, ChunksFacts
      <3>6. \A i, j \in DOMAIN new :
              i # j => ToSet(new[i].items) \cap ToSet(new[j].items) = {}
        BY <3>3, ChunksFacts
      <3>7. QED
        BY <3>4, <3>5, <3>6
    <2>5. /\ worker' \in [Executor -> Work]
          /\ worker'[w].items = worker[w].items /\ worker'[w].join = worker[w].join
          /\ worker'[w].step = "join"
          /\ \A v \in Executor : v # w => worker'[v] = worker[v]
      <3>1. worker' = [worker EXCEPT ![w].step = "join"]
        BY <2>1 DEF SetStep
      <3>2. worker \in [Executor -> Work]
        BY <1>1 DEF TypeInv
      <3>3. QED
        BY <3>1, <3>2 DEF Work, Step
    <2>6. \A v \in Executor : worker'[v].items = worker[v].items
      BY <2>5
    <2>7. Current(w)' = f
      BY <2>5 DEF Current
    <2>8. Cleaning' = Cleaning \ {f} /\ Joining' = Joining \cup {f}
      <3>1. worker[w].step \notin {"idle", "finish"}
        BY <1>1
      <3>2. Cleaning' = Cleaning \ {f} /\ Joining' = (Joining \ {f}) \cup {Current(w)'}
        BY <1>1, <2>5, <3>1, BusySets
      <3>3. QED
        BY <2>7, <3>2
    <2> HIDE DEF f, new, D
    <2>9. /\ queue' \in Seq(Chunk)
          /\ \A i \in DOMAIN queue' : \/ i \in DOMAIN queue /\ queue'[i] = queue[i]
                                      \/ /\ i - Len(queue) \in DOMAIN new
                                         /\ queue'[i] = new[i - Len(queue)]
          /\ \A i \in DOMAIN queue : i \in DOMAIN queue' /\ queue'[i] = queue[i]
          /\ \A i \in DOMAIN new : /\ i + Len(queue) \in DOMAIN queue'
                                   /\ queue'[i + Len(queue)] = new[i]
      <3>1. queue \in Seq(Chunk)
        BY <1>1 DEF TypeInv
      <3>2. /\ queue' \in Seq(Chunk) /\ Len(queue) \in Nat /\ Len(new) \in Nat
            /\ DOMAIN queue = 1 .. Len(queue) /\ DOMAIN new = 1 .. Len(new)
            /\ DOMAIN queue' = 1 .. Len(queue) + Len(new)
            /\ \A i \in 1 .. Len(queue) + Len(new) :
                 queue'[i] = IF i <= Len(queue) THEN queue[i] ELSE new[i - Len(queue)]
        BY <2>1, <2>4, <3>1
      <3>3. ASSUME NEW i \in 1 .. Len(queue) + Len(new)
            PROVE  \/ i \in 1 .. Len(queue)
                   \/ i - Len(queue) \in 1 .. Len(new) /\ ~(i <= Len(queue))
        BY <3>2
      <3>4. ASSUME NEW i \in 1 .. Len(new)
            PROVE  /\ i + Len(queue) \in 1 .. Len(queue) + Len(new)
                   /\ ~(i + Len(queue) <= Len(queue)) /\ i + Len(queue) - Len(queue) = i
        BY <3>2
      <3>5. ASSUME NEW i \in 1 .. Len(queue)
            PROVE  i \in 1 .. Len(queue) + Len(new) /\ i <= Len(queue)
        BY <3>2
      <3>6. QED
        BY <3>2, <3>3, <3>4, <3>5
    <2>10. Queued' = Queued \cup D /\ Carried' = Carried /\ Executed' = Executed
      <3>1. ASSUME NEW x \in Queued'
            PROVE  x \in Queued \cup D
        <4>1. PICK i \in DOMAIN queue' : x \in ToSet(queue'[i].items)
          BY DEF Queued, ItemsOf
        <4>2. QED
          BY <2>4, <2>9, <4>1 DEF Queued, ItemsOf
      <3>2. Queued \subseteq Queued'
        BY <2>9 DEF Queued, ItemsOf
      <3>3. D \subseteq Queued'
        BY <2>4, <2>9 DEF Queued, ItemsOf
      <3>4. Carried' = Carried /\ Executed' = Executed
        BY <1>1, <2>6 DEF Carried, Executed
      <3>5. QED
        BY <3>1, <3>2, <3>3, <3>4
    <2>11. Pending' = Pending \cup D /\ Reached' = Reached \cup D
      BY <2>10 DEF Pending, Reached
    <2>12. At(Step \ {"idle"})' = At(Step \ {"idle"}) /\ \A j : InHand(j)' = InHand(j)
      BY <1>1, <2>5, SameHands DEF Step
    <2>13. WorkInv'
      <3>2. ASSUME NEW v \in Executor
            PROVE  /\ worker'[v].step = "idle" => worker'[v] = Idle
                   /\ worker'[v].items = <<>> <=> worker'[v].step \in {"idle", "finish"}
        <4>1. /\ worker[v].step = "idle" => worker[v] = Idle
              /\ worker[v].items = <<>> <=> worker[v].step \in {"idle", "finish"}
          BY <1>1 DEF FrameInv, WorkInv
        <4>2. QED
          BY <1>1, <2>5, <4>1
      <3>3. frame # None
        BY <1>1 DEF FrameInv, WorkInv, At, Step
      <3>4. QED
        BY <1>1, <3>2, <3>3 DEF WorkInv
    <2>14. DistinctInv'
      <3>1. /\ \A i \in DOMAIN queue : IsInjective(queue[i].items)
            /\ \A i, j \in DOMAIN queue :
                 i # j => ToSet(queue[i].items) \cap ToSet(queue[j].items) = {}
        BY <1>1 DEF FrameInv, DistinctInv
      <3>2. \A i \in DOMAIN queue' : IsInjective(queue'[i].items)
        BY <2>4, <2>9, <3>1
      <3>3. ASSUME NEW i \in DOMAIN queue', NEW j \in DOMAIN queue', i # j
            PROVE  ToSet(queue'[i].items) \cap ToSet(queue'[j].items) = {}
        <4>1. /\ \A k \in DOMAIN queue : ToSet(queue[k].items) \subseteq Reached
              /\ \A k \in DOMAIN new : ToSet(new[k].items) \subseteq D
          BY <2>4 DEF Reached, Pending, Queued, ItemsOf
        <4>2. i \in Int /\ j \in Int /\ Len(queue) \in Int
          <5>1. queue \in Seq(Chunk)
            BY <1>1 DEF TypeInv
          <5>2. QED
            BY <2>9, <5>1
        <4>3. i - Len(queue) # j - Len(queue)
          BY <3>3, <4>2
        <4>4. CASE i \in DOMAIN queue /\ queue'[i] = queue[i]
          <5>1. CASE j \in DOMAIN queue /\ queue'[j] = queue[j]
            BY <3>1, <3>3, <4>4, <5>1
          <5>2. CASE j - Len(queue) \in DOMAIN new /\ queue'[j] = new[j - Len(queue)]
            BY <2>3, <4>1, <4>4, <5>2
          <5>3. QED
            BY <2>9, <5>1, <5>2
        <4>5. CASE i - Len(queue) \in DOMAIN new /\ queue'[i] = new[i - Len(queue)]
          <5>1. CASE j \in DOMAIN queue /\ queue'[j] = queue[j]
            BY <2>3, <4>1, <4>5, <5>1
          <5>2. CASE j - Len(queue) \in DOMAIN new /\ queue'[j] = new[j - Len(queue)]
            BY <2>4, <4>3, <4>5, <5>2
          <5>3. QED
            BY <2>9, <5>1, <5>2
        <4>6. QED
          BY <2>9, <4>4, <4>5
      <3>4. Queued' \cap Carried' = {}
        <4>1. Queued \cap Carried = {} /\ Carried \subseteq Reached
          BY <1>1 DEF FrameInv, DistinctInv, Reached, Pending
        <4>2. QED
          BY <2>3, <2>10, <4>1
      <3>5. QED
        BY <1>1, <2>6, <3>2, <3>3, <3>4 DEF FrameInv, DistinctInv
    <2>15. JoinInv'
      <3>1. ASSUME NEW i \in DOMAIN queue'
            PROVE  Joined(queue[i])'
        <4>1. CASE i \in DOMAIN queue /\ queue'[i] = queue[i]
          <5>1. Joined(queue[i])
            BY <1>1, <4>1 DEF FrameInv, JoinInv
          <5>2. QED
            BY <1>1, <2>8, <4>1, <5>1 DEF Joined
        <4>2. CASE i - Len(queue) \in DOMAIN new /\ queue'[i] = new[i - Len(queue)]
          <5>1. queue'[i].join = f /\ ToSet(queue'[i].items) \subseteq D
            BY <2>4, <4>2 DEF ItemsOf
          <5>2. QED
            BY <1>1, <2>2, <2>8, <5>1 DEF Joined
        <4>3. QED
          BY <2>9, <4>1, <4>2
      <3>2. ASSUME NEW v \in At(Step \ {"idle"})
            PROVE  Joined(worker[v])'
        <4>1. Joined(worker[v]) /\ v \in Executor
          BY <1>1 DEF FrameInv, JoinInv, At
        <4>2. worker'[v].items = worker[v].items /\ worker'[v].join = worker[v].join
          BY <2>5, <4>1
        <4>3. QED
          BY <1>1, <2>8, <4>1, <4>2 DEF Joined
      <3>3. QED
        BY <2>12, <3>1, <3>2 DEF JoinInv
    <2>16. OpenInv'
      <3> SUFFICES ASSUME NEW j \in FunctionOrNull
                   PROVE  Waits(open'[j], Cardinality(InQueue(queue', j)) + Cardinality(InHand(j)'))
        BY DEF OpenInv
      <3>1. Waits(open[j], Cardinality(InQueue(queue, j)) + Cardinality(InHand(j)))
        BY <1>1 DEF FrameInv, OpenInv
      <3>2. InQueue(queue, f) = {} /\ InHand(f) = {}
        BY <1>4 DEF InQueue, InHand
      <3>3. queue \in Seq(Chunk)
        BY <1>1 DEF TypeInv
      <3>4. Cardinality(InQueue(queue', j)) =
              IF j = f THEN Len(new) ELSE Cardinality(InQueue(queue, j))
        <4>1. \A i \in DOMAIN new : new[i].join = f
          BY <2>4
        <4>2. Cardinality(InQueue(queue \o new, j)) =
                IF j = f THEN Len(new) ELSE Cardinality(InQueue(queue, j))
          BY <2>4, <3>2, <3>3, <4>1, InQueueConcat
        <4>3. QED
          BY <2>1, <4>2
      <3>5. open'[j] = IF j = f THEN Len(new) + 1 ELSE open[j]
        BY <1>1, <1>2, <2>1 DEF TypeInv
      <3>6. InHand(j)' = InHand(j)
        BY <2>12
      <3>7. CASE j = f
        <4>1. Cardinality(InHand(j)') = 0
          BY <3>2, <3>6, <3>7, FS_EmptySet
        <4>2. Len(new) \in Nat /\ Len(new) # 0
          <5>1. dependents[f] \in Seq(Function) /\ f \in FunctionOrNull
            BY <1>2, <2>2
          <5>2. QED
            BY <1>6, <2>4, <5>1, HowManyChunks DEF new
        <4>3. QED
          BY <3>4, <3>5, <3>7, <4>1, <4>2 DEF Waits
      <3>8. CASE j # f
        BY <3>1, <3>4, <3>5, <3>6, <3>8
      <3>9. QED
        BY <3>7, <3>8
    <2>17. OrderInv'
      <3>1. Cleaning' \cup Joining' \subseteq Executed'
        BY <1>1, <2>3, <2>8, <2>10 DEF FrameInv, OrderInv
      <3>2. Pending' \cap Executed' \subseteq Cleaning' \cup Joining'
        BY <1>1, <2>3, <2>8, <2>10, <2>11 DEF FrameInv, OrderInv, Reached
      <3>3. ASSUME NEW c \in Reached', parent[c] # None
            PROVE  /\ parent[c] \in Executed
                   /\ parent[c] \in Pending' => parent[c] \in Joining'
                   /\ c \in ToSet(dependents[parent[c]])
        <4>1. CASE c \in Reached
          <5>1. /\ parent[c] \in Executed /\ c \in ToSet(dependents[parent[c]])
                /\ parent[c] \in Pending => parent[c] \in Joining
            BY <1>1, <3>3, <4>1 DEF FrameInv, OrderInv
          <5>2. parent[c] \notin D
            BY <2>3, <5>1 DEF Reached
          <5>3. QED
            BY <2>8, <2>11, <5>1, <5>2
        <4>2. CASE c \in D
          BY <2>2, <2>3, <2>8, <4>2 DEF D
        <4>3. QED
          BY <2>11, <4>1, <4>2
      <3>4. QED
        BY <1>1, <2>10, <3>1, <3>2, <3>3 DEF OrderInv
    <2>18. CoverInv'
      <3>1. ASSUME NEW h \in Executed \ Cleaning'
            PROVE  ToSet(dependents[h]) \subseteq Reached'
        <4>1. CASE h = f
          BY <2>11, <4>1 DEF D
        <4>2. CASE h # f
          BY <1>1, <2>8, <2>11, <3>1, <4>2 DEF FrameInv, CoverInv
        <4>3. QED
          BY <4>1, <4>2
      <3>2. ToSet(roots) \subseteq Reached'
        BY <1>1, <2>11 DEF FrameInv, CoverInv
      <3>3. \A c \in Reached' : parent[c] = None => c \in ToSet(roots)
        BY <1>1, <1>2, <2>2, <2>11 DEF FrameInv, CoverInv
      <3>4. QED
        BY <1>1, <2>10, <3>1, <3>2, <3>3 DEF CoverInv
    <2>19. LiveInv'
      BY <1>1, <2>2, <2>11 DEF FrameInv, LiveInv
    <2>20. TypeInv'
      <3>1. open' \in [FunctionOrNull -> Nat]
        <4>1. Len(new) \in Nat
          BY <2>4
        <4>2. QED
          BY <1>1, <1>2, <2>1, <4>1 DEF TypeInv
      <3>2. QED
        BY <1>1, <2>5, <2>9, <3>1 DEF TypeInv
    <2>21. TreeInv' /\ Ordered'
      BY <1>1 DEF TreeInv, Ordered
    <2>22. QueuedFunctionsLive'
      <3>1. \A i \in DOMAIN queue' : ToSet(queue'[i].items) \subseteq live
        <4>1. \A i \in DOMAIN queue : ToSet(queue[i].items) \subseteq live
          BY <1>1 DEF QueuedFunctionsLive
        <4>2. \A i \in DOMAIN new : ToSet(new[i].items) \subseteq live
          BY <2>2, <2>4 DEF ItemsOf
        <4>3. QED
          BY <2>9, <4>1, <4>2
      <3>2. QED
        BY <1>1, <2>6, <3>1 DEF QueuedFunctionsLive
    <2>23. QED
      BY <1>1, <2>13, <2>14, <2>15, <2>16, <2>17, <2>18, <2>19, <2>20, <2>21, <2>22
         DEF TickInv, FrameInv
  <1>7. QED
    BY <1>5, <1>6

\* A task is done: its ParallelFor waits for one less.  After the last chunk
\* only the join task is left, and it is queued.
LEMMA FinishTaskInv ==
  ASSUME TickInv, NEW w \in Executor, FinishTask(w)
  PROVE  TickInv'
  <1> DEFINE m == worker[w].join
             joinTask == [items |-> <<>>, join |-> m]
  <1>1. /\ TypeInv /\ TreeInv /\ FrameInv /\ Ordered /\ QueuedFunctionsLive
        /\ undefined = "no" /\ worker[w].step = "finish"
        /\ open' = [open EXCEPT ![m] = @ - 1] /\ worker' = [worker EXCEPT ![w] = Idle]
        /\ queue' = IF open[m] = 2 THEN Append(queue, joinTask) ELSE queue
        /\ UNCHANGED <<held, live, parent, dependents, groups, frame, roots, last, now,
                       undefined, executed, before>>
    BY DEF FinishTask, Doing, TickInv, treeVars
  <1>2. m \in FunctionOrNull /\ worker[w].items = <<>>
    BY <1>1 DEF TypeInv, Work, FrameInv, WorkInv
  <1>3. ToSet(<<>>) = {} /\ IsInjective(<<>>)
    BY DEF ToSet, IsInjective
  <1>4. /\ worker' \in [Executor -> Work]
        /\ worker'[w] = Idle /\ worker'[w].items = <<>> /\ worker'[w].step = "idle"
        /\ \A v \in Executor : v # w => worker'[v] = worker[v]
    <2>1. worker \in [Executor -> Work]
      BY <1>1 DEF TypeInv
    <2>2. Idle \in Work /\ Idle.items = <<>> /\ Idle.step = "idle"
      BY DEF Idle, Work, Step, FunctionOrNull
    <2>3. QED
      BY <1>1, <2>1, <2>2
  <1>5. \A v \in Executor : worker'[v].items = worker[v].items
    BY <1>2, <1>4
  <1>6. Cleaning' = Cleaning /\ Joining' = Joining
    BY <1>1, <1>4, RestingSets
  <1>19. /\ queue \in Seq(Chunk) /\ queue' \in Seq(Chunk) /\ joinTask \in Chunk
         /\ \A i \in DOMAIN queue' : \/ i \in DOMAIN queue /\ queue'[i] = queue[i]
                                     \/ i \notin DOMAIN queue /\ queue'[i] = joinTask
         /\ \A i \in DOMAIN queue : i \in DOMAIN queue' /\ queue'[i] = queue[i]
         /\ \A i, j \in DOMAIN queue' \ DOMAIN queue : i = j
    <2>1. queue \in Seq(Chunk)
      BY <1>1 DEF TypeInv
    <2>2. joinTask \in Chunk
      BY <1>2 DEF Chunk
    <2> HIDE DEF joinTask
    <2>3. CASE open[m] # 2
      BY <1>1, <2>1, <2>2, <2>3
    <2>4. CASE open[m] = 2
      <3>1. queue' = Append(queue, joinTask)
        BY <1>1, <2>4
      <3>2. /\ queue' \in Seq(Chunk) /\ Len(queue) \in Nat /\ DOMAIN queue = 1 .. Len(queue)
            /\ DOMAIN queue' = 1 .. Len(queue) + 1
            /\ \A i \in 1 .. Len(queue) + 1 :
                 queue'[i] = IF i <= Len(queue) THEN queue[i] ELSE joinTask
        BY <2>1, <2>2, <3>1
      <3>3. QED
        BY <2>1, <2>2, <3>2
    <2>5. QED
      BY <2>3, <2>4
  <1>7. Queued' = Queued /\ Carried' = Carried /\ Executed' = Executed
    <2>1. ASSUME NEW x \in Queued'
          PROVE  x \in Queued
      <3>1. PICK i \in DOMAIN queue' : x \in ToSet(queue'[i].items)
        BY DEF Queued, ItemsOf
      <3>2. QED
        BY <1>3, <1>19, <3>1 DEF Queued, ItemsOf
    <2>2. Queued \subseteq Queued'
      BY <1>19 DEF Queued, ItemsOf
    <2>3. Carried' = Carried /\ Executed' = Executed
      BY <1>1, <1>5 DEF Carried, Executed
    <2>4. QED
      BY <2>1, <2>2, <2>3
  <1>8. Pending' = Pending /\ Reached' = Reached
    BY <1>7 DEF Pending, Reached
  <1>9. At(Step \ {"idle"})' = At(Step \ {"idle"}) \ {w} /\ w \in At(Step \ {"idle"})
    BY <1>1, <1>4 DEF At, Step
  <1>10. WorkInv'
    <2>1. ASSUME NEW v \in Executor
          PROVE  /\ worker'[v].step = "idle" => worker'[v] = Idle
                 /\ worker'[v].items = <<>> <=> worker'[v].step \in {"idle", "finish"}
      <3>1. CASE v = w
        BY <1>4, <3>1
      <3>2. CASE v # w
        BY <1>1, <1>4, <3>2 DEF FrameInv, WorkInv
      <3>3. QED
        BY <3>1, <3>2
    <2>2. frame # None
      BY <1>1, <1>9 DEF FrameInv, WorkInv
    <2>3. QED
      BY <1>1, <2>1, <2>2 DEF FrameInv, WorkInv
  <1>11. DistinctInv'
    <2>1. \A i \in DOMAIN queue' : IsInjective(queue'[i].items)
      BY <1>1, <1>3, <1>19 DEF FrameInv, DistinctInv
    <2>2. ASSUME NEW i \in DOMAIN queue', NEW j \in DOMAIN queue', i # j
          PROVE  ToSet(queue'[i].items) \cap ToSet(queue'[j].items) = {}
      <3>1. CASE i \notin DOMAIN queue \/ j \notin DOMAIN queue
        <4>1. queue'[i] = joinTask \/ queue'[j] = joinTask
          BY <1>19, <3>1
        <4>2. QED
          BY <1>3, <4>1
      <3>2. CASE i \in DOMAIN queue /\ j \in DOMAIN queue
        <4>1. queue'[i] = queue[i] /\ queue'[j] = queue[j]
          BY <1>19, <3>2
        <4>2. ToSet(queue[i].items) \cap ToSet(queue[j].items) = {}
          BY <1>1, <2>2, <3>2 DEF FrameInv, DistinctInv
        <4>3. QED
          BY <4>1, <4>2
      <3>3. QED
        BY <3>1, <3>2
    <2>3. QED
      BY <1>1, <1>5, <1>7, <2>1, <2>2 DEF FrameInv, DistinctInv
  <1>12. JoinInv'
    <2>1. ASSUME NEW i \in DOMAIN queue'
          PROVE  Joined(queue[i])'
      <3>1. CASE i \in DOMAIN queue /\ queue'[i] = queue[i]
        BY <1>1, <1>6, <3>1 DEF FrameInv, JoinInv, Joined
      <3>2. CASE queue'[i] = joinTask
        <4>1. Joined(worker[w])
          BY <1>1, <1>9 DEF FrameInv, JoinInv
        <4>2. QED
          BY <1>3, <1>6, <3>2, <4>1 DEF Joined
      <3>3. QED
        BY <1>19, <3>1, <3>2
    <2>2. ASSUME NEW v \in At(Step \ {"idle"}), v # w
          PROVE  Joined(worker[v])'
      <3>1. Joined(worker[v]) /\ v \in Executor
        BY <1>1 DEF FrameInv, JoinInv, At
      <3>2. worker'[v] = worker[v]
        BY <1>4, <2>2, <3>1
      <3>3. QED
        BY <1>1, <1>6, <3>1, <3>2 DEF Joined
    <2>3. QED
      BY <1>1, <1>9, <2>1, <2>2 DEF JoinInv
  <1>13. OpenInv'
    <2> SUFFICES ASSUME NEW j \in FunctionOrNull
                 PROVE  Waits(open'[j], Cardinality(InQueue(queue', j)) + Cardinality(InHand(j)'))
      BY DEF OpenInv
    <2>1. Waits(open[j], Cardinality(InQueue(queue, j)) + Cardinality(InHand(j))) /\ open[j] \in Nat
      BY <1>1 DEF FrameInv, OpenInv, TypeInv
    <2>2. queue \in Seq(Chunk)
      BY <1>1 DEF TypeInv
    <2>3. Cardinality(InQueue(queue, j)) \in Nat
      BY <2>2, InQueueFinite
    <2>4. InHand(j) \in SUBSET Executor
      BY DEF InHand, At
    <2>5. IsFiniteSet(InHand(j)) /\ Cardinality(InHand(j)) \in Nat
      BY <2>4, ExecutorFinite
    <2>6. open'[j] = IF j = m THEN open[j] - 1 ELSE open[j]
      BY <1>1, <1>2 DEF TypeInv
    <2>7. CASE j = m
      <3>1. w \in InHand(j)
        BY <1>9, <2>7 DEF InHand
      <3>2. InHand(j)' = InHand(j) \ {w}
        <4>1. \A v \in At(Step \ {"idle"}) \ {w} : worker'[v].join = worker[v].join
          BY <1>4 DEF At
        <4>2. QED
          BY <1>9, <4>1 DEF InHand
      <3>3. Cardinality(InHand(j) \ {w}) = Cardinality(InHand(j)) - 1
        BY <2>5, <3>1, FS_RemoveElement
      <3>4. CASE open[j] # 2
        <4>1. queue' = queue
          BY <1>1, <2>7, <3>4
        <4>2. Cardinality(InHand(j)) # 0
          BY <2>5, <3>1, FS_EmptySet
        <4>3. QED
          BY <2>1, <2>3, <2>5, <2>6, <2>7, <3>2, <3>3, <3>4, <4>1, <4>2 DEF Waits
      <3>5. CASE open[j] = 2
        <4>1. Cardinality(InHand(j)) # 0
          BY <2>5, <3>1, FS_EmptySet
        <4>2. Cardinality(InQueue(queue, j)) = 0 /\ Cardinality(InHand(j)) = 1
          BY ONLY <2>1, <2>3, <2>5, <3>5, <4>1 DEF Waits
        <4>3. InQueue(queue, j) = {}
          BY <2>2, <4>2, InQueueFinite, FS_EmptySet
        <4>4. queue' = queue \o <<joinTask>> /\ <<joinTask>> \in Seq(Chunk)
          <5>1. queue' = Append(queue, joinTask)
            BY <1>1, <2>7, <3>5
          <5> HIDE DEF joinTask
          <5>2. QED
            BY <1>19, <2>2, <5>1
        <4>5. \A i \in DOMAIN <<joinTask>> : <<joinTask>>[i].join = j
          BY <2>7
        <4>6. Len(<<joinTask>>) = 1
          OBVIOUS
        <4> DEFINE one == <<joinTask>>
        <4>7. /\ queue' = queue \o one /\ one \in Seq(Chunk) /\ Len(one) = 1
              /\ \A i \in DOMAIN one : one[i].join = j
          BY <4>4, <4>5, <4>6
        <4> HIDE DEF joinTask, one
        <4>9. Cardinality(InQueue(queue \o one, j)) = Len(one)
          BY <2>2, <4>3, <4>7, InQueueConcat
        <4>8. QED
          BY <2>6, <2>7, <3>2, <3>3, <3>5, <4>2, <4>7, <4>9 DEF Waits
      <3>6. QED
        BY <3>4, <3>5
    <2>8. CASE j # m
      <3>1. InHand(j)' = InHand(j)
        <4>1. \A v \in At(Step \ {"idle"}) \ {w} : worker'[v].join = worker[v].join
          BY <1>4 DEF At
        <4>2. QED
          BY <1>9, <2>8, <4>1 DEF InHand
      <3>2. InQueue(queue', j) = InQueue(queue, j)
        <4>1. joinTask.join # j
          BY <2>8
        <4> HIDE DEF joinTask
        <4>2. QED
          BY <1>19, <4>1 DEF InQueue
      <3>3. QED
        BY <2>1, <2>6, <2>8, <3>1, <3>2
    <2>9. QED
      BY <2>7, <2>8
  <1>14. OrderInv' /\ CoverInv' /\ LiveInv'
    BY <1>1, <1>6, <1>7, <1>8 DEF FrameInv, OrderInv, CoverInv, LiveInv
  <1>15. TypeInv'
    <2>1. open' \in [FunctionOrNull -> Nat]
      <3>1. InHand(m) \in SUBSET Executor /\ w \in InHand(m)
        BY <1>9 DEF InHand, At
      <3>2. Cardinality(InHand(m)) \in Nat /\ Cardinality(InHand(m)) # 0
        BY <3>1, ExecutorFinite, FS_EmptySet
      <3>3. Cardinality(InQueue(queue, m)) \in Nat
        BY <1>1, InQueueFinite DEF TypeInv
      <3>4. Waits(open[m], Cardinality(InQueue(queue, m)) + Cardinality(InHand(m)))
        BY <1>1, <1>2 DEF FrameInv, OpenInv
      <3>6. open \in [FunctionOrNull -> Nat]
        BY <1>1 DEF TypeInv
      <3>5. open[m] - 1 \in Nat
        BY <1>2, <3>2, <3>3, <3>4, <3>6 DEF Waits
      <3>7. QED
        BY <1>1, <1>2, <3>5, <3>6
    <2>2. QED
      BY <1>1, <1>4, <1>19, <2>1 DEF TypeInv
  <1>16. TreeInv' /\ Ordered'
    BY <1>1 DEF TreeInv, Ordered
  <1>17. QueuedFunctionsLive'
    BY <1>1, <1>3, <1>5, <1>19 DEF QueuedFunctionsLive
  <1>18. QED
    BY <1>10, <1>11, <1>12, <1>13, <1>14, <1>15, <1>16, <1>17 DEF TickInv, FrameInv

-----------------------------------------------------------------------------
\* Every step keeps the invariant.
LEMMA TickNextInv == TickInv /\ [Next]_vars => TickInv'
  <1> SUFFICES ASSUME TickInv, [Next]_vars
               PROVE  TickInv'
    OBVIOUS
  <1>1. CASE UNCHANGED vars
    <2>1. UNCHANGED <<held, live, parent, dependents, groups, frame, roots, queue, open, worker,
                      last, now, undefined, executed, before>>
      BY <1>1 DEF vars, treeVars, frameVars
    <2>2. TypeInv' /\ TreeInv' /\ Ordered' /\ QueuedFunctionsLive'
      BY <2>1 DEF TickInv, TypeInv, TreeInv, Ordered, QueuedFunctionsLive
    <2>3. Executed' = Executed /\ Queued' = Queued /\ Carried' = Carried
      BY <2>1 DEF Executed, Queued, Carried
    <2>4. Pending' = Pending /\ Reached' = Reached
      BY <2>3 DEF Pending, Reached
    <2>5. Cleaning' = Cleaning /\ Joining' = Joining
      BY <2>1 DEF Cleaning, Joining, At, Current
    <2>6. At(Step \ {"idle"})' = At(Step \ {"idle"}) /\ \A j : InHand(j)' = InHand(j)
      BY <2>1 DEF InHand, At
    <2>7. ASSUME FrameInv
          PROVE  FrameInv'
      <3>1. WorkInv' /\ DistinctInv'
        BY <2>1, <2>3, <2>6, <2>7 DEF FrameInv, WorkInv, DistinctInv
      <3>2. JoinInv'
        BY <2>1, <2>5, <2>6, <2>7 DEF FrameInv, JoinInv, Joined
      <3>3. OpenInv'
        BY <2>1, <2>6, <2>7 DEF FrameInv, OpenInv
      <3>4. OrderInv' /\ CoverInv' /\ LiveInv'
        BY <2>1, <2>3, <2>4, <2>5, <2>7 DEF FrameInv, OrderInv, CoverInv, LiveInv
      <3>5. QED
        BY <3>1, <3>2, <3>3, <3>4 DEF FrameInv
    <2>8. QED
      BY <2>1, <2>2, <2>7 DEF TickInv
  <1>2. CASE \E p, c \in Function : AddDependency(p, c) \/ DeleteDependency(p, c)
    BY <1>2, AddDependencyInv, DeleteDependencyInv
  <1>3. CASE \E f \in Function : Register(f) \/ DestroyObject(f)
    BY <1>3, RegisterInv, DestroyObjectInv
  <1>4. CASE \E f \in Function : ExecuteFunction(f)
    BY <1>4, ExecuteFunctionInv
  <1>5. CASE \E g \in Group : ExecuteGroup(g)
    BY <1>5, ExecuteGroupInv
  <1>6. CASE ExecuteReturns
    BY <1>6, ExecuteReturnsInv
  <1>7. CASE \E w \in Executor : ExecutorStep(w)
    <2>1. PICK w \in Executor : ExecutorStep(w)
      BY <1>7
    <2>2. CASE w \in Worker /\ TakeTask(w)
      BY <2>2, TakeTaskInv
    <2>3. CASE TickTarget(w) \/ CleanDependents(w)
      BY <2>3, TickTargetInv, CleanDependentsInv
    <2>4. CASE ExecuteDependents(w) \/ Join(w) \/ FinishTask(w)
      BY <2>4, ExecuteDependentsInv, JoinStepInv, FinishTaskInv
    <2>5. QED
      BY <2>1, <2>2, <2>3, <2>4 DEF ExecutorStep
  <1>8. QED
    BY <1>1, <1>2, <1>3, <1>4, <1>5, <1>6, <1>7 DEF Next

LEMMA TickInvariant == Spec => []TickInv
  BY TickInitInv, TickNextInv, PTL DEF Spec

\* In a frame every function but its roots keeps the parent it had when Execute
\* was called; between frames nothing has been executed.
BeforeInv ==
    /\ before \in [Function -> FunctionOrNull]
    /\ IF frame = None THEN executed = <<>>
       ELSE \A f \in Function \ ToSet(roots) : before[f] = parent[f]

LEMMA BeforeInitInv == Init => BeforeInv
  BY DEF Init, BeforeInv, FunctionOrNull

LEMMA BeforeNextInv == TickInv /\ BeforeInv /\ [Next]_vars => BeforeInv'
  <1> SUFFICES ASSUME TickInv, BeforeInv, [Next]_vars
               PROVE  BeforeInv'
    OBVIOUS
  <1>1. TypeInv
    BY DEF TickInv
  <1>2. ASSUME UNCHANGED <<frame, roots, executed, before>>, frame = None \/ UNCHANGED parent
        PROVE  BeforeInv'
    BY <1>2 DEF BeforeInv
  <1>3. CASE UNCHANGED vars
    BY <1>2, <1>3 DEF vars, treeVars, frameVars
  <1>4. CASE FollowFreedParent
    BY <1>2, <1>4 DEF FollowFreedParent, treeVars, frameVars
  <1>5. ASSUME NEW p \in Function, NEW c \in Function,
               AddDependency(p, c) \/ DeleteDependency(p, c)
        PROVE  BeforeInv'
    BY <1>2, <1>4, <1>5 DEF AddDependency, DeleteDependency, MainMay, frameVars
  <1>6. ASSUME NEW f \in Function, Register(f) \/ DestroyObject(f)
        PROVE  BeforeInv'
    BY <1>2, <1>4, <1>6 DEF Register, DestroyObject, MainMay, frameVars
  <1>7. ASSUME NEW f \in Function, ExecuteFunction(f)
        PROVE  BeforeInv'
    <2>1. frame' # None
      BY <1>7, TypeOfAssumption, NoneAssumption DEF ExecuteFunction
    <2>2. before' = parent /\ parent' = parent
      BY <1>7 DEF ExecuteFunction, treeVars
    <2>3. QED
      BY <1>1, <2>1, <2>2 DEF BeforeInv, TypeInv
  <1>8. ASSUME NEW g \in Group, ExecuteGroup(g), ~FollowFreedParent
        PROVE  BeforeInv'
    <2>1. frame' # None /\ before' = parent
      BY <1>8, NoneAssumption DEF ExecuteGroup
    <2>2. PICK detached : /\ detached \subseteq ToSet(roots')
                          /\ parent' = [f \in Function |->
                                          IF f \in detached THEN None ELSE parent[f]]
      BY <1>8 DEF ExecuteGroup
    <2>3. \A f \in Function \ ToSet(roots') : before'[f] = parent'[f]
      BY <1>1, <2>1, <2>2 DEF TypeInv
    <2>4. QED
      BY <1>1, <2>1, <2>3 DEF BeforeInv, TypeInv
  <1>9. CASE ExecuteReturns
    BY <1>9 DEF ExecuteReturns, BeforeInv, FunctionOrNull
  <1>10. ASSUME NEW w \in Executor, ExecutorStep(w)
         PROVE  BeforeInv'
    <2>1. CASE TickTarget(w)
      <3>1. frame # None
        <4>1. undefined = "no" /\ w \in At(Step \ {"idle"})
          BY <2>1 DEF TickTarget, Doing, At, Step
        <4>2. QED
          BY <4>1 DEF TickInv, FrameInv, WorkInv
      <3>2. UNCHANGED <<frame, roots, parent, before>>
        BY <2>1 DEF TickTarget, treeVars
      <3>3. QED
        BY <3>1, <3>2 DEF BeforeInv
    <2>2. CASE TakeTask(w) \/ CleanDependents(w) \/ Join(w) \/ FinishTask(w)
      BY <1>2, <2>2 DEF TakeTask, CleanDependents, Join, FinishTask, treeVars
    <2>3. CASE ExecuteDependents(w)
      BY <1>2, <2>3 DEF ExecuteDependents, treeVars
    <2>4. QED
      BY <1>10, <2>1, <2>2, <2>3 DEF ExecutorStep
  <1>11. QED
    BY <1>3, <1>4, <1>5, <1>6, <1>7, <1>8, <1>9, <1>10 DEF Next

LEMMA BeforeInvariant == Spec => []BeforeInv
  BY TickInvariant, BeforeInitInv, BeforeNextInv, PTL DEF Spec

-----------------------------------------------------------------------------
\* What the invariant says of the trees and the frames.

LEMMA TypesFollow == TickInv /\ BeforeInv => TickTypeOK
  <1> SUFFICES ASSUME TickInv, BeforeInv PROVE TickTypeOK
    OBVIOUS
  <1>1. TypeInv /\ TreeInv
    BY DEF TickInv
  <1>2. ASSUME NEW f \in Function
        PROVE  ToSet(dependents[f]) \subseteq live
    <2>1. CASE f \in live
      BY <1>1, <2>1 DEF TreeInv
    <2>2. CASE f \notin live
      BY <1>1, <2>2 DEF TreeInv
    <2>3. QED
      BY <2>1, <2>2
  <1>3. \A g \in Group : ToSet(groups[g]) \subseteq live
    BY <1>1 DEF TreeInv
  <1>4. ASSUME NEW w \in Executor
        PROVE  /\ worker[w].step \in {"idle", "tick", "clean", "fork", "join", "finish"}
               /\ worker[w].join \in FunctionOrNull
    BY <1>1 DEF TypeInv, Work, Step
  <1>5. QED
    BY <1>1, <1>2, <1>3, <1>4 DEF TickTypeOK, TypeInv, BeforeInv

LEMMA TreesFollow == TickInv => TreesConsistent
  <1> SUFFICES ASSUME TickInv, NEW p \in live
               PROVE  /\ IsInjective(dependents[p])
                      /\ \A c \in live : Contains(dependents[p], c) <=> parent[c] = p
    BY DEF TreesConsistent
  <1>1. TypeInv /\ TreeInv /\ p \in Function
    BY DEF TickInv, TypeInv
  <1>2. dependents[p] \in Seq(Function)
    BY <1>1 DEF TypeInv
  <1>3. \A c \in live : Contains(dependents[p], c) <=> c \in ToSet(dependents[p])
    BY <1>2, ContainsIsMember
  <1>4. QED
    BY <1>1, <1>3 DEF TreeInv

LEMMA FrameFollows == TickInv => FrameVisitsTrees
  <1> SUFFICES ASSUME TickInv, open[None] = 0, undefined = "no"
               PROVE  Executed = Below(ToSet(roots))
    BY DEF FrameVisitsTrees, Executed
  <1>1. TypeInv /\ FrameInv /\ Ordered
    BY DEF TickInv
  <1>2. queue = <<>> /\ At(Step \ {"idle"}) = {}
    BY NothingPending
  <1>3. Pending = {}
    <2>1. Queued = {}
      BY <1>2 DEF Queued, ItemsOf
    <2>2. ASSUME NEW w \in Executor
          PROVE  ToSet(worker[w].items) = {}
      <3>1. worker[w].step \in Step
        BY <1>1 DEF TypeInv, Work
      <3>2. worker[w].step = "idle"
        BY <1>2, <3>1 DEF At
      <3>3. worker[w].items = <<>>
        BY <1>1, <3>2 DEF FrameInv, WorkInv
      <3>4. QED
        BY <3>3 DEF ToSet
    <2>3. QED
      BY <2>1, <2>2 DEF Pending, Carried
  <1>4. Cleaning = {}
    BY <1>2 DEF Cleaning, At, Step
  <1>5. Reached = Executed /\ Executed \in SUBSET Function
    <2>1. Executed \subseteq Function
      BY <1>1 DEF FrameInv, LiveInv, TypeInv, Reached
    <2>2. QED
      BY <1>3, <2>1 DEF Reached
  <1>6. ToSet(roots) \subseteq Executed /\ Closed(Executed)
    BY <1>1, <1>4, <1>5 DEF FrameInv, CoverInv, Closed
  <1>7. Below(ToSet(roots)) \subseteq Executed
    BY <1>5, <1>6 DEF Below
  <1>8. ASSUME NEW f \in Executed, NEW T \in SUBSET Function, ToSet(roots) \subseteq T,
               Closed(T)
        PROVE  f \in T
    <2> SUFFICES ASSUME f \notin T PROVE FALSE
      OBVIOUS
    <2> DEFINE S == {i \in DOMAIN executed : executed[i] \notin T}
    <2>1. executed \in Seq(Function)
      BY <1>1 DEF TypeInv
    <2>2. S \in SUBSET Nat /\ S # {}
      <3>1. \E i \in DOMAIN executed : executed[i] = f
        BY DEF Executed, ToSet
      <3>2. DOMAIN executed \subseteq Nat
        BY <2>1
      <3>3. QED
        BY <3>1, <3>2
    <2>3. PICK x \in S : \A y \in S : x <= y
      BY <2>2, LeastOf
    <2>4. executed[x] \in Reached
      BY <2>3, <1>5 DEF Executed, ToSet
    <2>5. CASE parent[executed[x]] = None
      <3>1. executed[x] \in ToSet(roots)
        BY <1>1, <2>4, <2>5 DEF FrameInv, CoverInv
      <3>2. QED
        BY <1>8, <2>3, <3>1
    <2>6. CASE parent[executed[x]] # None
      <3>1. PICK y \in 1 .. x - 1 : executed[y] = parent[executed[x]]
        BY <1>1, <2>3, <2>6 DEF Ordered
      <3>2. y \in DOMAIN executed /\ ~(x <= y)
        BY <2>1, <2>3, <3>1
      <3>3. parent[executed[x]] \in T
        BY <2>3, <3>1, <3>2
      <3>4. executed[x] \in ToSet(dependents[parent[executed[x]]])
        BY <1>1, <2>4, <2>6 DEF FrameInv, OrderInv
      <3>5. QED
        BY <1>8, <2>3, <3>3, <3>4 DEF Closed
    <2>7. QED
      BY <2>5, <2>6
  <1>9. Executed \subseteq Below(ToSet(roots))
    BY <1>5, <1>8 DEF Below
  <1>10. QED
    BY <1>7, <1>9

-----------------------------------------------------------------------------
\* Every variable has its type: in particular a held function is alive, and no
\* list of a function or a group holds one that has been freed.
THEOREM TickTypes == Spec => []TickTypeOK
  BY TickInvariant, BeforeInvariant, TypesFollow, PTL

\* `dependents' and `parent' agree among the live functions, however the main
\* thread attaches, detaches, registers and destroys functions and whatever
\* CleanFunction and CleanDependents take out (TickFunction.cpp, TickManager.cpp).
THEOREM TreesAgree == Spec => []TreesConsistent
  BY TickInvariant, TreesFollow, PTL

\* No function but a registered one is ticked before the parent it had when
\* Execute was called, however the chunks of a level are spread over the workers
\* (TickFunction::Execute, ExecuteDependents).  A registered function that was
\* given a parent is excepted: TickManager::CleanFunction breaks that link.
THEOREM ParentsFirst == Spec => []ParentFirst
  <1>1. TickInv /\ BeforeInv => ParentFirst
    <2> SUFFICES ASSUME TickInv, BeforeInv, NEW i \in DOMAIN executed,
                        before[executed[i]] # None, executed[i] \notin ToSet(roots)
                 PROVE  \E j \in 1 .. i - 1 : executed[j] = before[executed[i]]
      BY DEF ParentFirst
    <2>1. executed \in Seq(Function) /\ executed[i] \in Function
      BY DEF TickInv, TypeInv
    <2>2. frame # None
      BY DEF BeforeInv
    <2>3. parent[executed[i]] = before[executed[i]]
      BY <2>1, <2>2 DEF BeforeInv
    <2>4. QED
      BY <2>3 DEF TickInv, Ordered
  <1>2. QED
    BY <1>1, TickInvariant, BeforeInvariant, PTL

\* When no chunk of the roots is left, exactly the functions of the group's
\* trees have been executed: the nested waits lose no chunk of any level, and
\* no worker is still in the frame that Execute leaves (TickManager::Execute).
THEOREM FrameComplete == Spec => []FrameVisitsTrees
  BY TickInvariant, FrameFollows, PTL

\* CleanDependents in one worker never frees a function that another one has
\* in its chunk, or that waits in the queue.
THEOREM QueuedLive == Spec => []QueuedFunctionsLive
  <1>1. TickInv => QueuedFunctionsLive
    BY DEF TickInv
  <1>2. QED
    BY <1>1, TickInvariant, PTL

=============================================================================
