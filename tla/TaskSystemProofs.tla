-------------------------- MODULE TaskSystemProofs --------------------------
(***************************************************************************)
(* The work queue and the task system, for every number of tasks, levels,  *)
(* clients and workers, any quota, any priorities and any dependencies.    *)
(*                                                                         *)
(* WorkQueue: the queue keeps its types, and its counters stay within the  *)
(* quota.                                                                  *)
(*                                                                         *)
(* WorkQueueFairness: the promotion of a starved level never comes late,   *)
(* and a waiting level is passed over a bounded number of times.           *)
(*                                                                         *)
(* WorkQueueSync: the sleeping and waking of PopBlocking is safe, and the  *)
(* queue under its mutex and condition variable is the queue of            *)
(* WorkQueue.tla, one step for each operation.                             *)
(*                                                                         *)
(* TaskSystem: it keeps its types, who owns a task, what its flags tell    *)
(* and what m_inflight counts; it implements TaskGraph; and it forgets no  *)
(* task.                                                                   *)
(***************************************************************************)
EXTENDS WorkQueueFairness, WorkQueueSync, TaskSystemProperties, FiniteSetTheorems,
        WellFoundedInduction, TLAPS

-----------------------------------------------------------------------------
\* WorkQueue: the counters of the queue.

\* The inductive invariant of the queue alone.
QueueInv == QueueTypeOK /\ SkipCountBounded

\* The empty queue.
LEMMA QueueInitInv == QueueInit => QueueInv
  BY QueueAssumption DEF QueueInit, QueueInv, QueueTypeOK, SkipCountBounded, Level

\* Push leaves the counters alone and only makes levels less empty.
LEMMA PushInv ==
    ASSUME QueueInv, NEW t \in Task, Push(t)
    PROVE  QueueInv'
  <1>1. PriorityOf[t] \in Level
    BY QueueAssumption
  <1>2. QueueTypeOK'
    BY <1>1 DEF Push, QueueInv, QueueTypeOK
  <1>3. \A l \in Level : queues[l] # <<>> => queues'[l] # <<>>
    BY <1>1 DEF Push, QueueInv, QueueTypeOK
  <1>4. QED
    BY <1>2, <1>3 DEF Push, QueueInv, SkipCountBounded

\* A level that is not empty has a head, and its tail is a sequence again.
LEMMA TakeFrontType ==
    ASSUME QueueTypeOK, NEW l \in NonEmpty, NEW t, TakeFront(l, t)
    PROVE  /\ l \in Level
           /\ t \in Task
           /\ queues' \in [Level -> Seq(Task)]
           /\ \A m \in Level : m # l => queues'[m] = queues[m]
  BY DEF QueueTypeOK, NonEmpty, TakeFront

\* A pop by aging keeps the invariant.
LEMMA PopStarvedInv ==
    ASSUME QueueInv, NEW l \in Level, NEW t, PopStarved(l, t)
    PROVE  QueueInv'
  <1>1. l \in NonEmpty
    BY DEF PopStarved, Highest, Starved
  <1>2. /\ queues' \in [Level -> Seq(Task)]
        /\ \A m \in Level : m # l => queues'[m] = queues[m]
    BY <1>1, TakeFrontType DEF PopStarved, QueueInv
  <1>3. skipCounts' = [skipCounts EXCEPT ![l] = 0]
    BY DEF PopStarved
  <1>4. QueueTypeOK'
    BY <1>2, <1>3, QueueAssumption DEF QueueInv, QueueTypeOK
  <1>5. SkipCountBounded'
    BY <1>2, <1>3, QueueAssumption DEF QueueInv, QueueTypeOK, SkipCountBounded
  <1>6. QED
    BY <1>4, <1>5 DEF QueueInv

\* No waiting level is at the quota, so counting one more stays within it, and
\* only levels that keep their tasks are counted.
LEMMA PopHighestInv ==
    ASSUME QueueInv, NEW l \in Level, NEW t, PopHighest(l, t)
    PROVE  QueueInv'
  <1>1. l \in NonEmpty
    BY DEF PopHighest, Highest
  <1>2. /\ queues' \in [Level -> Seq(Task)]
        /\ \A m \in Level : m # l => queues'[m] = queues[m]
    BY <1>1, TakeFrontType DEF PopHighest, QueueInv
  <1>3. skipCounts' = [m \in Level |-> IF m > l /\ m \in NonEmpty
                                       THEN skipCounts[m] + 1 ELSE skipCounts[m]]
    BY DEF PopHighest
  <1>4. \A m \in NonEmpty : skipCounts[m] < Quota
    BY QueueAssumption DEF PopHighest, Starved, NonEmpty, QueueInv, QueueTypeOK
  <1>5. QueueTypeOK'
    BY <1>2, <1>3, <1>4, QueueAssumption DEF QueueInv, QueueTypeOK
  <1>6. SkipCountBounded'
    <2> SUFFICES ASSUME NEW m \in Level, skipCounts'[m] = Quota
                 PROVE  queues'[m] # <<>>
      BY DEF SkipCountBounded
    <2>1. m > l /\ m \in NonEmpty
      BY <1>3, <1>4, QueueAssumption DEF QueueInv, SkipCountBounded, NonEmpty, QueueTypeOK
    <2>2. QED
      BY <2>1, <1>2 DEF NonEmpty, Level
  <1>7. QED
    BY <1>5, <1>6 DEF QueueInv

\* A pop by either rule keeps the invariant.
LEMMA PopLockedInv ==
    ASSUME QueueInv, NEW t, PopLocked(t)
    PROVE  QueueInv'
  BY PopStarvedInv, PopHighestInv DEF PopLocked

\* Every step of the queue keeps the invariant.
LEMMA QueueStepInv ==
    ASSUME QueueInv, [QueueNext]_queueVars
    PROVE  QueueInv'
  <1>1. CASE \E t \in Task \ Queued : Push(t)
    BY <1>1, PushInv
  <1>2. CASE \E t \in Queued : PopLocked(t)
    BY <1>2, PopLockedInv
  <1>3. CASE UNCHANGED queueVars
    BY <1>3 DEF queueVars, QueueInv, QueueTypeOK, SkipCountBounded
  <1>4. QED
    BY <1>1, <1>2, <1>3 DEF QueueNext

\* m_skipCounts never passes TaskQueueStarvationQuota, and a level that holds
\* the full count has a task that the next pops will serve.
THEOREM QueueSafety == QueueSpec => [](QueueTypeOK /\ SkipCountBounded)
  <1>1. QueueInv => QueueTypeOK /\ SkipCountBounded
    BY DEF QueueInv
  <1>2. QED
    BY <1>1, QueueInitInv, QueueStepInv, PTL DEF QueueSpec

-----------------------------------------------------------------------------
\* WorkQueueFairness: how often a level is passed over in priority order.

HistoryInv ==
    /\ QueueInv
    /\ skipped \in [Level -> Nat]
    /\ PromotionNeverLate

\* A pop keeps the invariant of the queue.
LEMMA FairPopInv ==
    ASSUME HistoryInv, NEW t, FairPop(t)
    PROVE  HistoryInv'
  <1>1. CASE \E l \in Level : PopStarved(l, t) /\ Record(l, {})
    <2>1. PICK l \in Level : PopStarved(l, t) /\ Record(l, {})
      BY <1>1
    <2>2. QueueInv'
      BY <2>1, PopStarvedInv DEF HistoryInv
    <2>3. skipCounts' = [skipCounts EXCEPT ![l] = 0]
      BY <2>1 DEF PopStarved
    <2>4. skipped' = [m \in Level |-> IF m = l THEN 0 ELSE skipped[m]]
      BY <2>1 DEF Record
    <2>5. skipped' \in [Level -> Nat] /\ PromotionNeverLate'
      BY <2>3, <2>4 DEF HistoryInv, PromotionNeverLate, QueueInv, QueueTypeOK
    <2>6. QED
      BY <2>2, <2>5 DEF HistoryInv
  <1>2. CASE \E l \in Level : PopHighest(l, t) /\ Record(l, {m \in NonEmpty : m > l})
    <2>1. PICK l \in Level : PopHighest(l, t) /\ Record(l, {m \in NonEmpty : m > l})
      BY <1>2
    <2>2. QueueInv'
      BY <2>1, PopHighestInv DEF HistoryInv
    <2>3. skipCounts' = [m \in Level |-> IF m > l /\ m \in NonEmpty
                                         THEN skipCounts[m] + 1 ELSE skipCounts[m]]
      BY <2>1 DEF PopHighest
    <2>4. skipped' = [m \in Level |->
              IF m = l THEN 0
              ELSE IF m > l /\ m \in NonEmpty THEN skipped[m] + 1 ELSE skipped[m]]
      BY <2>1 DEF Record
    <2>5. skipCounts \in [Level -> Nat]
      BY QueueAssumption DEF HistoryInv, QueueInv, QueueTypeOK
    <2>6. skipped' \in [Level -> Nat]
      BY <2>4 DEF HistoryInv
    <2>7. PromotionNeverLate'
      BY <2>3, <2>4, <2>5 DEF HistoryInv, PromotionNeverLate
    <2>8. QED
      BY <2>2, <2>6, <2>7 DEF HistoryInv
  <1>3. QED
    BY <1>1, <1>2 DEF FairPop

\* A level is never passed over in priority order more often than its counter
\* says: at most Quota times before PopLocked promotes it.
THEOREM PromotionInTime ==
    FairQueueSpec => [](PromotionNeverLate /\ \A l \in Level : skipped[l] <= Quota)
  <1>1. FairInit => HistoryInv
    BY QueueInitInv DEF FairInit, QueueInit, HistoryInv, PromotionNeverLate
  <1>2. HistoryInv /\ [FairNext]_fairVars => HistoryInv'
    <2> SUFFICES ASSUME HistoryInv, [FairNext]_fairVars PROVE HistoryInv'
      OBVIOUS
    <2>1. CASE \E t \in Task \ Queued : FairPush(t)
      <3>1. PICK t \in Task : FairPush(t)
        BY <2>1
      <3>2. QueueInv'
        BY <3>1, PushInv DEF FairPush, HistoryInv
      <3>3. QED
        BY <3>1, <3>2 DEF FairPush, Push, HistoryInv, PromotionNeverLate
    <2>2. CASE \E t \in Queued : FairPop(t)
      BY <2>2, FairPopInv
    <2>3. CASE UNCHANGED fairVars
      BY <2>3 DEF fairVars, HistoryInv, QueueInv, QueueTypeOK, SkipCountBounded,
                  PromotionNeverLate
    <2>4. QED
      BY <2>1, <2>2, <2>3 DEF FairNext
  <1>3. HistoryInv => PromotionNeverLate /\ \A l \in Level : skipped[l] <= Quota
    BY QueueAssumption DEF HistoryInv, PromotionNeverLate, QueueInv, QueueTypeOK
  <1>4. QED
    BY <1>1, <1>2, <1>3, PTL DEF FairQueueSpec

-----------------------------------------------------------------------------
\* How often a level is passed over in all.

\* The levels besides l that can be promoted; each is at most twice while l
\* waits.
Rivals(l) == Level \ {0, l}

Promotions(l) == Rivals(l) \X {1, 2}

\* The pops that passed l are counted by its counter or are among the
\* promotions A of its rivals.  A level counts at most what l counts while l
\* waits, so that a second promotion takes the whole quota of l.
Charged(l, A) ==
    /\ A \subseteq Promotions(l)
    /\ passed[l] <= skipCounts[l] + Cardinality(A)
    /\ \A m \in Rivals(l) :
          /\ <<m, 1>> \in A => skipCounts[m] <= skipCounts[l]
          /\ <<m, 2>> \in A => /\ <<m, 1>> \in A
                               /\ skipCounts[m] = 0 /\ skipCounts[l] = Quota

BypassInv ==
    /\ QueueInv
    /\ passed \in [Level -> Nat]
    /\ skipCounts[0] = 0
    /\ \A l \in Level \ {0} : \E A : Charged(l, A)

\* A level has two promotions by each of its rivals at most.
LEMMA PromotionCount ==
    ASSUME NEW l \in Level \ {0}, NEW A, A \subseteq Promotions(l)
    PROVE  /\ IsFiniteSet(A) /\ Cardinality(A) \in Nat
           /\ PriorityCount - 2 \in Nat
           /\ Cardinality(A) <= 2 * (PriorityCount - 2)
  <1>1. l \in 1 .. PriorityCount - 1 /\ PriorityCount \in Nat /\ PriorityCount >= 2
    BY QueueAssumption DEF Level
  <1>2. /\ IsFiniteSet(1 .. PriorityCount - 1)
        /\ Cardinality(1 .. PriorityCount - 1) = PriorityCount - 1
    BY <1>1, FS_Interval
  <1>3. Rivals(l) = (1 .. PriorityCount - 1) \ {l}
    BY <1>1 DEF Rivals, Level
  <1>4. IsFiniteSet(Rivals(l)) /\ Cardinality(Rivals(l)) = PriorityCount - 2
    <2>1. PICK S : S = 1 .. PriorityCount - 1
      OBVIOUS
    <2>2. IsFiniteSet(S \ {l}) /\ Cardinality(S \ {l}) = Cardinality(S) - 1
      BY <1>1, <1>2, <2>1, FS_RemoveElement
    <2>3. QED
      BY <1>1, <1>2, <1>3, <2>1, <2>2
  <1>5. IsFiniteSet({1, 2}) /\ Cardinality({1, 2}) = 2
    <2>1. IsFiniteSet({1}) /\ Cardinality({1}) = 1
      BY FS_Singleton
    <2>2. {1, 2} = {1} \union {2} /\ 2 \notin {1}
      OBVIOUS
    <2>3. QED
      BY <2>1, <2>2, FS_AddElement
  <1>6. /\ IsFiniteSet(Promotions(l))
        /\ Cardinality(Promotions(l)) = (PriorityCount - 2) * 2
    BY <1>4, <1>5, FS_Product DEF Promotions
  <1>7. IsFiniteSet(A) /\ Cardinality(A) <= Cardinality(Promotions(l))
    BY <1>6, FS_Subset
  <1>8. Cardinality(A) \in Nat
    BY <1>7, FS_CardinalityType
  <1>9. QED
    BY <1>1, <1>6, <1>7, <1>8

\* A pop that serves l, or finds it empty, starts its count anew.
LEMMA ChargeNothing ==
    ASSUME NEW l \in Level, passed'[l] = 0, skipCounts'[l] \in Nat
    PROVE  Charged(l, {})'
  BY FS_EmptySet DEF Charged

\* The promotion of another level is new, or takes the whole quota of l.
LEMMA StarvedCharges ==
    ASSUME BypassInv, NEW k \in Level, NEW t, PopStarved(k, t), Record(k, {}),
           NEW l \in Level \ {0}
    PROVE  \E A : Charged(l, A)'
  <1>1. /\ skipCounts \in [Level -> 0 .. Quota] /\ Quota \in Nat \ {0}
        /\ skipCounts' = [skipCounts EXCEPT ![k] = 0]
        /\ passed \in [Level -> Nat]
        /\ passed' = [m \in Level |-> IF m # k /\ m \in NonEmpty THEN passed[m] + 1 ELSE 0]
        /\ k \in NonEmpty /\ skipCounts[k] = Quota
    BY QueueAssumption
       DEF BypassInv, QueueInv, QueueTypeOK, PopStarved, Record, Highest, Starved
  <1>2. CASE l = k \/ l \notin NonEmpty
    <2>1. passed'[l] = 0 /\ skipCounts'[l] \in Nat
      BY <1>1, <1>2
    <2>2. QED
      BY <2>1, ChargeNothing
  <1>3. CASE l # k /\ l \in NonEmpty
    <2>1. PICK A : Charged(l, A)
      BY DEF BypassInv
    <2>2. /\ passed'[l] = passed[l] + 1 /\ skipCounts'[l] = skipCounts[l]
          /\ skipCounts'[k] = 0 /\ \A m \in Level \ {k} : skipCounts'[m] = skipCounts[m]
          /\ skipCounts[l] \in 0 .. Quota /\ passed[l] \in Nat
      BY <1>1, <1>3
    <2>3. k \in Rivals(l) /\ Rivals(l) \subseteq Level
      BY <1>1, <1>3 DEF Rivals, BypassInv
    <2>4. <<k, 2>> \notin A
      BY <1>1, <2>1, <2>3 DEF Charged
    <2>5. PICK i \in {1, 2} : <<k, i>> \notin A /\ (i = 2 => <<k, 1>> \in A)
      BY <2>4
    <2>6. PICK B : B = A \union {<<k, i>>}
      OBVIOUS
    <2>7. B \subseteq Promotions(l) /\ IsFiniteSet(A) /\ Cardinality(A) \in Nat
      BY <2>1, <2>3, <2>6, PromotionCount DEF Charged, Promotions
    <2>8. Cardinality(B) = Cardinality(A) + 1
      BY <2>5, <2>6, <2>7, FS_AddElement
    <2>9. passed'[l] <= skipCounts'[l] + Cardinality(B)
      BY <2>1, <2>2, <2>7, <2>8 DEF Charged
    <2>10. ASSUME NEW m \in Rivals(l)
           PROVE  /\ <<m, 1>> \in B => skipCounts'[m] <= skipCounts'[l]
                  /\ <<m, 2>> \in B => /\ <<m, 1>> \in B
                                       /\ skipCounts'[m] = 0 /\ skipCounts'[l] = Quota
      <3>1. CASE m = k
        <4>1. skipCounts'[m] <= skipCounts'[l]
          BY <2>2, <3>1
        <4>2. i = 2 => skipCounts[l] = Quota
          BY <1>1, <2>1, <2>2, <2>3, <2>5 DEF Charged
        <4>3. <<m, 2>> \in B => i = 2
          BY <2>4, <2>6, <3>1
        <4>4. QED
          BY <2>2, <2>5, <2>6, <3>1, <4>1, <4>2, <4>3
      <3>2. CASE m # k
        <4>1. \A j : <<m, j>> \in B <=> <<m, j>> \in A
          BY <2>6, <3>2
        <4>2. skipCounts'[m] = skipCounts[m]
          BY <2>2, <2>3, <3>2
        <4>3. QED
          BY <2>1, <2>2, <4>1, <4>2 DEF Charged
      <3>3. QED
        BY <3>1, <3>2
    <2>11. Charged(l, B)'
      BY <2>7, <2>9, <2>10 DEF Charged
    <2>12. QED
      BY <2>11
  <1>4. QED
    BY <1>2, <1>3

\* A pop in priority order counts for l, and for each rival at most as much.
LEMMA HighestCharges ==
    ASSUME BypassInv, NEW k \in Level, NEW t, PopHighest(k, t),
           Record(k, {m \in NonEmpty : m > k}), NEW l \in Level \ {0}
    PROVE  \E A : Charged(l, A)'
  <1>1. /\ skipCounts \in [Level -> 0 .. Quota] /\ Quota \in Nat \ {0}
        /\ skipCounts' = [m \in Level |-> IF m > k /\ m \in NonEmpty
                                          THEN skipCounts[m] + 1 ELSE skipCounts[m]]
        /\ passed \in [Level -> Nat]
        /\ passed' = [m \in Level |-> IF m # k /\ m \in NonEmpty THEN passed[m] + 1 ELSE 0]
        /\ \A m \in NonEmpty : m \in Level /\ k <= m /\ skipCounts[m] < Quota
    <2>1. skipCounts \in [Level -> 0 .. Quota] /\ Quota \in Nat \ {0}
      BY QueueAssumption DEF BypassInv, QueueInv, QueueTypeOK
    <2>2. \A m \in NonEmpty : m \in Level /\ k <= m
      BY DEF PopHighest, Highest, NonEmpty
    <2>3. ASSUME NEW m \in NonEmpty
          PROVE  skipCounts[m] < Quota
      <3>1. m \notin Starved /\ m \in Level
        BY <2>2 DEF PopHighest
      <3>2. skipCounts[m] \in 0 .. Quota /\ ~(skipCounts[m] >= Quota)
        BY <2>1, <3>1 DEF Starved
      <3>3. QED
        BY <2>1, <3>2
    <2>4. QED
      BY <2>1, <2>2, <2>3 DEF BypassInv, PopHighest, Record
  <1>2. CASE l = k \/ l \notin NonEmpty
    <2>1. passed'[l] = 0 /\ skipCounts'[l] \in Nat
      BY <1>1, <1>2
    <2>2. QED
      BY <2>1, ChargeNothing
  <1>3. CASE l # k /\ l \in NonEmpty
    <2>1. PICK A : Charged(l, A)
      BY DEF BypassInv
    <2>2. l > k
      BY <1>1, <1>3 DEF Level
    <2>3. /\ passed'[l] = passed[l] + 1 /\ skipCounts'[l] = skipCounts[l] + 1
          /\ skipCounts[l] \in Nat /\ skipCounts[l] < Quota /\ passed[l] \in Nat
      BY <1>1, <1>3, <2>2
    <2>4. Cardinality(A) \in Nat
      BY <2>1, PromotionCount DEF Charged
    <2>5. ASSUME NEW m \in Rivals(l)
          PROVE  /\ <<m, 1>> \in A => skipCounts'[m] <= skipCounts'[l]
                 /\ <<m, 2>> \notin A
      <3>1. m \in Level /\ skipCounts[m] \in Nat
        BY <1>1 DEF Rivals
      <3>2. skipCounts'[m] <= skipCounts[m] + 1 /\ skipCounts'[m] \in Nat
        BY <1>1, <3>1
      <3>3. QED
        BY <1>1, <2>1, <2>3, <3>1, <3>2 DEF Charged
    <2>6. Charged(l, A)'
      BY <2>1, <2>3, <2>4, <2>5 DEF Charged
    <2>7. QED
      BY <2>6
  <1>4. QED
    BY <1>2, <1>3

\* Every step keeps the account of every level.
LEMMA NextBypass == BypassInv /\ [FairNext]_fairVars => BypassInv'
  <1> SUFFICES ASSUME BypassInv, [FairNext]_fairVars PROVE BypassInv'
    OBVIOUS
  <1>1. CASE UNCHANGED <<skipCounts, passed>> /\ QueueInv'
    BY <1>1 DEF BypassInv, Charged
  <1>2. CASE \E t \in Task \ Queued : FairPush(t)
    <2>1. PICK t \in Task : FairPush(t)
      BY <1>2
    <2>2. QED
      BY <1>1, <2>1, PushInv DEF FairPush, Push, BypassInv
  <1>3. CASE UNCHANGED fairVars
    BY <1>1, <1>3 DEF fairVars, BypassInv, QueueInv, QueueTypeOK, SkipCountBounded
  <1>4. ASSUME NEW t, NEW k \in Level, PopStarved(k, t), Record(k, {})
        PROVE  BypassInv'
    <2>1. QueueInv'
      BY <1>4, PopStarvedInv DEF BypassInv
    <2>2. passed' \in [Level -> Nat]
      BY <1>4 DEF Record, BypassInv
    <2>3. skipCounts'[0] = 0
      BY <1>4, QueueAssumption DEF PopStarved, BypassInv, QueueInv, QueueTypeOK, Level
    <2>4. QED
      BY <1>4, <2>1, <2>2, <2>3, StarvedCharges DEF BypassInv
  <1>5. ASSUME NEW t, NEW k \in Level, PopHighest(k, t), Record(k, {m \in NonEmpty : m > k})
        PROVE  BypassInv'
    <2>1. QueueInv'
      BY <1>5, PopHighestInv DEF BypassInv
    <2>2. passed' \in [Level -> Nat]
      BY <1>5 DEF Record, BypassInv
    <2>3. skipCounts'[0] = 0
      BY <1>5, QueueAssumption DEF PopHighest, BypassInv, Level
    <2>4. QED
      BY <1>5, <2>1, <2>2, <2>3, HighestCharges DEF BypassInv
  <1>6. QED
    BY <1>2, <1>3, <1>4, <1>5 DEF FairNext, FairPop

\* However the pushes arrive, for every number of levels and every quota: a
\* waiting level below Critical is passed over at most Quota times in priority
\* order and twice for the promotion of each other level that can starve.
THEOREM WaitIsBounded == FairQueueSpec => []BoundedBypass
  <1>1. FairInit => BypassInv
    <2> SUFFICES ASSUME FairInit PROVE BypassInv
      OBVIOUS
    <2>1. QueueInv /\ passed \in [Level -> Nat] /\ skipCounts[0] = 0
      BY QueueInitInv, QueueAssumption DEF FairInit, QueueInit, Level
    <2>2. \A l \in Level \ {0} : Charged(l, {})
      BY FS_EmptySet DEF FairInit, QueueInit, Charged
    <2>3. QED
      BY <2>1, <2>2 DEF BypassInv
  <1>2. BypassInv => BoundedBypass
    <2> SUFFICES ASSUME BypassInv, NEW l \in Level, l > 0 PROVE passed[l] <= BypassBound
      BY DEF BoundedBypass
    <2>1. l \in Level \ {0}
      OBVIOUS
    <2>2. PICK A : Charged(l, A)
      BY <2>1 DEF BypassInv
    <2>3. /\ Cardinality(A) \in Nat /\ PriorityCount - 2 \in Nat
          /\ Cardinality(A) <= 2 * (PriorityCount - 2)
      BY <2>1, <2>2, PromotionCount DEF Charged
    <2>4. skipCounts[l] \in 0 .. Quota /\ Quota \in Nat /\ passed[l] \in Nat
      BY QueueAssumption DEF BypassInv, QueueInv, QueueTypeOK
    <2>5. BypassBound = Quota + 2 * (PriorityCount - 2)
      BY <2>3, QueueAssumption DEF BypassBound
    <2>6. passed[l] <= skipCounts[l] + Cardinality(A)
      BY <2>2 DEF Charged
    <2>7. QED
      BY <2>3, <2>4, <2>5, <2>6
  <1>3. QED
    BY <1>1, <1>2, NextBypass, PTL DEF FairQueueSpec

-----------------------------------------------------------------------------
\* WorkQueueSync.

\* The mutex is kept over a step only by the worker that is about to sleep.
FallingHoldsMutex == \A w \in Popper : at[w] = "falling" <=> mutex = w

\* m_stopFlag is set before Terminate takes the mutex, and from then on nobody
\* evaluates the predicate to false: once the mutex was seen free after the
\* flag, nobody is about to sleep.
StopSeen ==
    /\ stopper # "idle" <=> stopFlag
    /\ stopper \in {"notify", "done"} => \A w \in Popper : at[w] # "falling"

SyncInv ==
    /\ SyncTypeOK /\ SkipCountBounded
    /\ FallingHoldsMutex /\ StopSeen
    /\ stopper = "done" => sleeping = {}

-----------------------------------------------------------------------------
\* What a step does to the queue: it pushes a new task, pops a queued one, or
\* leaves the queue alone.
LEMMA SyncStepOfQueue ==
    ASSUME [SyncNext]_syncVars
    PROVE  [QueueNext]_queueVars
  <1>1. CASE \E p \in Pusher, t \in Task \ Queued : PushLocked(p, t)
    BY <1>1 DEF PushLocked, QueueNext
  <1>2. CASE \E w \in Popper, t \in Queued : PopReturnsTask(w, t)
    BY <1>2 DEF PopReturnsTask, QueueNext
  <1>3. CASE \E p \in Pusher : NotifyOne(p)
    BY <1>3 DEF NotifyOne, queueVars
  <1>4. CASE \E w \in Popper : \/ PredicateFails(w) \/ FallAsleep(w) \/ TaskDone(w)
                               \/ PopReturnsFalse(w) \/ SpuriousWakeup(w)
    BY <1>4 DEF PredicateFails, FallAsleep, TaskDone, PopReturnsFalse,
                SpuriousWakeup, queueVars
  <1>5. CASE StopperStep
    BY <1>5 DEF StopperStep, SetStop, NotifyAllLock, NotifyAll, queueVars
  <1>6. CASE UNCHANGED syncVars
    BY <1>6 DEF syncVars, queueVars
  <1>7. QED
    BY <1>1, <1>2, <1>3, <1>4, <1>5, <1>6 DEF SyncNext, PopperStep

\* The part of the invariant that is about threads, not about the queue.
ThreadsOK ==
    /\ mutex \in Popper \union {NoThread}
    /\ sleeping \subseteq Popper
    /\ stopFlag \in BOOLEAN
    /\ at \in [Pusher \union Popper -> {"idle", "notify", "pop", "falling", "busy", "exited"}]
    /\ stopper \in {"idle", "lock", "notify", "done"}
    /\ FallingHoldsMutex /\ StopSeen
    /\ stopper = "done" => sleeping = {}

\* The invariant is that of the queue and that of each thread.
LEMMA SyncInvParts == SyncInv <=> QueueInv /\ ThreadsOK
  BY DEF SyncInv, ThreadsOK, QueueInv, SyncTypeOK

\* A step of a pusher keeps the threads where they may be.
LEMMA PusherKeeps ==
    ASSUME ThreadsOK, NEW p \in Pusher,
           NotifyOne(p) \/ \E t \in Task : PushLocked(p, t)
    PROVE  ThreadsOK'
  <1>1. \A w \in Popper : at'[w] = at[w]
    BY SyncAssumption DEF NotifyOne, PushLocked, MoveTo, ThreadsOK
  <1>2. UNCHANGED <<mutex, stopFlag, stopper>> /\ sleeping' \subseteq sleeping
    BY DEF NotifyOne, PushLocked
  <1>3. at' \in [Pusher \union Popper -> {"idle", "notify", "pop", "falling", "busy", "exited"}]
    BY DEF NotifyOne, PushLocked, MoveTo, ThreadsOK
  <1>4. QED
    BY <1>1, <1>2, <1>3 DEF ThreadsOK, FallingHoldsMutex, StopSeen

\* The worker that finds the queue empty takes the mutex; the flag is not set.
LEMMA PredicateFailsKeeps ==
    ASSUME ThreadsOK, NEW w \in Popper, PredicateFails(w)
    PROVE  ThreadsOK'
  <1>1. /\ mutex = NoThread /\ mutex' = w /\ ~stopFlag /\ stopper = "idle"
        /\ at' = [at EXCEPT ![w] = "falling"]
        /\ UNCHANGED <<sleeping, stopFlag, stopper>>
    BY DEF PredicateFails, MoveTo, Free, ThreadsOK, StopSeen
  <1>2. \A v \in Popper : at[v] # "falling"
    BY <1>1, SyncAssumption DEF ThreadsOK, FallingHoldsMutex
  <1>3. QED
    BY <1>1, <1>2 DEF ThreadsOK, FallingHoldsMutex, StopSeen

\* It gives the mutex back in the instant it falls asleep, and NotifyAll has
\* not yet taken the mutex then.
LEMMA FallAsleepKeeps ==
    ASSUME ThreadsOK, NEW w \in Popper, FallAsleep(w)
    PROVE  ThreadsOK'
  <1>1. /\ at[w] = "falling" /\ mutex' = NoThread
        /\ at' = [at EXCEPT ![w] = "pop"] /\ sleeping' = sleeping \union {w}
        /\ UNCHANGED <<stopFlag, stopper>>
    BY DEF FallAsleep, MoveTo
  <1>2. stopper # "done" /\ mutex = w
    BY <1>1 DEF ThreadsOK, StopSeen, FallingHoldsMutex
  <1>3. \A v \in Popper : at'[v] # "falling"
    BY <1>1, <1>2 DEF ThreadsOK, FallingHoldsMutex
  <1>4. QED
    BY <1>1, <1>2, <1>3, SyncAssumption DEF ThreadsOK, FallingHoldsMutex, StopSeen

\* Every other step of a worker finds the mutex free, or runs a task.
LEMMA AwakeKeeps ==
    ASSUME ThreadsOK, NEW w \in Popper,
           \/ \E t \in Queued : PopReturnsTask(w, t)
           \/ TaskDone(w) \/ PopReturnsFalse(w) \/ SpuriousWakeup(w)
    PROVE  ThreadsOK'
  <1>1. /\ UNCHANGED <<mutex, stopFlag, stopper>> /\ sleeping' \subseteq sleeping
        /\ \/ at' = at
           \/ at[w] # "falling" /\ \E label \in {"busy", "pop", "exited"} :
                                       at' = [at EXCEPT ![w] = label]
    BY DEF PopReturnsTask, TaskDone, PopReturnsFalse, SpuriousWakeup, Awake, MoveTo
  <1>2. \A v \in Popper : at'[v] = "falling" <=> at[v] = "falling"
    BY <1>1 DEF ThreadsOK
  <1>3. at' \in [Pusher \union Popper -> {"idle", "notify", "pop", "falling", "busy", "exited"}]
    BY <1>1 DEF ThreadsOK
  <1>4. QED
    BY <1>1, <1>2, <1>3 DEF ThreadsOK, FallingHoldsMutex, StopSeen

\* Terminate goes on to notify only when it found the mutex free, that is with
\* nobody about to sleep; then it wakes everybody.
LEMMA StopperKeeps ==
    ASSUME ThreadsOK, StopperStep
    PROVE  ThreadsOK'
  <1>1. CASE SetStop
    BY <1>1 DEF SetStop, ThreadsOK, FallingHoldsMutex, StopSeen
  <1>2. CASE NotifyAllLock
    BY <1>2, SyncAssumption DEF NotifyAllLock, Free, ThreadsOK, FallingHoldsMutex, StopSeen
  <1>3. CASE NotifyAll
    BY <1>3 DEF NotifyAll, ThreadsOK, FallingHoldsMutex, StopSeen
  <1>4. QED
    BY <1>1, <1>2, <1>3 DEF StopperStep

\* The initial state.
LEMMA SyncInit_Inv == SyncInit => SyncInv
  <1> SUFFICES ASSUME SyncInit PROVE SyncInv
    OBVIOUS
  <1>1. QueueInv
    BY QueueInitInv DEF SyncInit
  <1>2. ThreadsOK
    BY SyncAssumption DEF SyncInit, ThreadsOK, FallingHoldsMutex, StopSeen
  <1>3. QED
    BY <1>1, <1>2, SyncInvParts

\* Every step.
LEMMA SyncNext_Inv == SyncInv /\ [SyncNext]_syncVars => SyncInv'
  <1> SUFFICES ASSUME SyncInv, [SyncNext]_syncVars PROVE SyncInv'
    OBVIOUS
  <1>1. QueueInv /\ ThreadsOK
    BY SyncInvParts
  <1>2. QueueInv'
    BY <1>1, SyncStepOfQueue, QueueStepInv
  <1>3. ThreadsOK'
    <2>1. CASE \E p \in Pusher : NotifyOne(p) \/ \E t \in Task \ Queued : PushLocked(p, t)
      BY <2>1, <1>1, PusherKeeps
    <2>2. CASE \E w \in Popper : PopperStep(w) \/ SpuriousWakeup(w)
      BY <2>2, <1>1, PredicateFailsKeeps, FallAsleepKeeps, AwakeKeeps DEF PopperStep
    <2>3. CASE StopperStep
      BY <2>3, <1>1, StopperKeeps
    <2>4. CASE UNCHANGED syncVars
      BY <2>4, <1>1 DEF syncVars, ThreadsOK, FallingHoldsMutex, StopSeen
    <2>5. QED
      BY <2>1, <2>2, <2>3, <2>4 DEF SyncNext
  <1>4. QED
    BY <1>2, <1>3 DEF SyncInv, ThreadsOK, QueueInv, SyncTypeOK

\* No worker sleeps, and none is about to, once Terminate has notified: the
\* reason why WorkQueue::NotifyAll takes m_mutex, for any number of workers.
THEOREM NoLostStop == SyncSpec => [](SyncTypeOK /\ NobodySleepsThroughStop)
  <1>1. SyncInv => SyncTypeOK /\ NobodySleepsThroughStop
    BY DEF SyncInv, NobodySleepsThroughStop, StopSeen
  <1>2. QED
    BY <1>1, SyncInit_Inv, SyncNext_Inv, PTL DEF SyncSpec

-----------------------------------------------------------------------------
\* Types.

\* While Launch walks its prerequisites the list may hold empty handles;
\* every other list holds tasks.
ExamineLabel == {"examine", "examineFinished", "addDependent", "addFailed"}

\* Labels at which the head of the list is being worked on.
HeadLabel == {"examineFinished", "addDependent", "addFailed", "count", "push", "cancelCas",
              "storeCanceled", "storeFinished", "setDone", "cancelDependents",
              "decrement", "recheck"}

\* Labels at which a thread has a task of its own.
TaskLabel == ExamineLabel \union
             {"decideEnqueue", "enqueue", "wait", "run", "func", "runFinished",
              "runDone", "collect", "schedule", "count", "push", "decrement", "recheck",
              "taskFinished"}

\* What a thread at label l holds: its task k and its list s.
Holds(l, k, s) ==
    /\ k \in Task \union {NoTask}
    /\ s \in Seq(Task \union {NoTask})
    /\ l \notin ExamineLabel => s \in Seq(Task)
    /\ l \in HeadLabel => s # <<>> /\ Head(s) \in Task
    /\ l \in TaskLabel => k \in Task

Label(th) == IF th \in Client THEN ClientLabel ELSE WorkerLabel

ThreadInv ==
    /\ pc \in [Thread -> ClientLabel \union WorkerLabel]
    /\ cur \in [Thread -> Task \union {NoTask}]
    /\ todo \in [Thread -> Seq(Task \union {NoTask})]
    /\ \A th \in Thread : pc[th] \in Label(th) /\ Holds(pc[th], cur[th], todo[th])

SharedInv ==
    /\ QueueInv
    /\ task \in [Task -> TaskState]
    /\ inflight \in Int
    /\ stopPc \in StopLabel
    /\ shouldCancel \in [Thread -> BOOLEAN]
    /\ created \subseteq Task /\ handles \subseteq Task
    /\ prereqs \in [Task -> Seq(Task \union {NoTask})]
    /\ doomed \in [Task -> BOOLEAN]
    /\ ran \in [Task -> Nat]

\* The inductive form of TaskTypeOK: what is in a thread's list and which
\* labels need a task is needed to type the heads the code dereferences.
TypeInv == SharedInv /\ ThreadInv

-----------------------------------------------------------------------------
\* What a step does to the locals of its thread.

\* Thread th goes to label l with task k and list s.
LEMMA MoveInv ==
    ASSUME ThreadInv, NEW th \in Thread, NEW l \in Label(th), NEW k, NEW s, Holds(l, k, s),
           pc' = [pc EXCEPT ![th] = l],
           cur' = [cur EXCEPT ![th] = k],
           todo' = [todo EXCEPT ![th] = s]
    PROVE  ThreadInv'
  <1>1. /\ l \in ClientLabel \union WorkerLabel
        /\ k \in Task \union {NoTask}
        /\ s \in Seq(Task \union {NoTask})
    BY DEF Holds, Label
  <1>2. /\ pc' \in [Thread -> ClientLabel \union WorkerLabel]
        /\ cur' \in [Thread -> Task \union {NoTask}]
        /\ todo' \in [Thread -> Seq(Task \union {NoTask})]
    BY <1>1 DEF ThreadInv
  <1>3. ASSUME NEW o \in Thread
        PROVE  pc'[o] \in Label(o) /\ Holds(pc'[o], cur'[o], todo'[o])
    <2>1. CASE o = th
      <3>1. pc'[o] = l /\ cur'[o] = k /\ todo'[o] = s
        BY <2>1 DEF ThreadInv
      <3>2. QED
        BY <3>1, <2>1
    <2>2. CASE o # th
      <3>1. pc'[o] = pc[o] /\ cur'[o] = cur[o] /\ todo'[o] = todo[o]
        BY <2>2 DEF ThreadInv
      <3>2. QED
        BY <3>1 DEF ThreadInv
    <2>3. QED
      BY <2>1, <2>2
  <1>4. QED
    BY <1>2, <1>3 DEF ThreadInv, Holds, HeadLabel, TaskLabel, ExamineLabel, Label,
                      ClientLabel, WorkerLabel

\* Only the label changes.
LEMMA GotoInv ==
    ASSUME ThreadInv, NEW th \in Thread, NEW l \in Label(th), Goto(th, l),
           UNCHANGED <<cur, todo>>, Holds(l, cur[th], todo[th])
    PROVE  ThreadInv'
  <1>1. PICK s : s = todo[th]
    OBVIOUS
  <1>2. todo' = [todo EXCEPT ![th] = s]
    BY <1>1 DEF ThreadInv
  <1>3. cur' = [cur EXCEPT ![th] = cur[th]]
    BY DEF ThreadInv
  <1>4. QED
    BY <1>1, <1>2, <1>3, MoveInv DEF Goto

\* The label and the list change.
LEMMA ListInv ==
    ASSUME ThreadInv, NEW th \in Thread, NEW l \in Label(th), NEW s, Goto(th, l),
           todo' = [todo EXCEPT ![th] = s], UNCHANGED cur, Holds(l, cur[th], s)
    PROVE  ThreadInv'
  <1>1. cur' = [cur EXCEPT ![th] = cur[th]]
    BY DEF ThreadInv
  <1>2. QED
    BY <1>1, MoveInv DEF Goto

\* The label and the task change.
LEMMA CurInv ==
    ASSUME ThreadInv, NEW th \in Thread, NEW l \in Label(th), NEW k, Goto(th, l),
           cur' = [cur EXCEPT ![th] = k], UNCHANGED todo, Holds(l, k, todo[th])
    PROVE  ThreadInv'
  <1>1. todo' = [todo EXCEPT ![th] = todo[th]]
    BY DEF ThreadInv
  <1>2. QED
    BY <1>1, MoveInv DEF Goto

\* What a thread holds, and what is left when it drops the head of its list.
LEMMA Held ==
    ASSUME ThreadInv, NEW th \in Thread
    PROVE  /\ Holds(pc[th], cur[th], todo[th])
           /\ todo[th] \in Seq(Task \union {NoTask})
           /\ todo[th] # <<>> =>
                 /\ Head(todo[th]) \in Task \union {NoTask}
                 /\ Tail(todo[th]) \in Seq(Task \union {NoTask})
           /\ pc[th] \notin ExamineLabel =>
                 /\ todo[th] \in Seq(Task)
                 /\ todo[th] # <<>> => Head(todo[th]) \in Task /\ Tail(todo[th]) \in Seq(Task)
           /\ pc[th] \in HeadLabel => todo[th] # <<>> /\ Head(todo[th]) \in Task
           /\ pc[th] \in TaskLabel => cur[th] \in Task
  BY DEF ThreadInv, Holds

-----------------------------------------------------------------------------
\* What a step does to the state the threads share.

\* What the fields of a task are, and what may be written to them.
LEMMA FlagType ==
    ASSUME NEW r \in TaskState
    PROVE  /\ [r EXCEPT !.started = TRUE] \in TaskState
           /\ [r EXCEPT !.finished = TRUE] \in TaskState
           /\ [r EXCEPT !.canceled = TRUE] \in TaskState
           /\ [r EXCEPT !.queued = TRUE] \in TaskState
           /\ [r EXCEPT !.retrieved = TRUE] \in TaskState
  BY DEF TaskState

\* A promise that is satisfied once more.
LEMMA DoneType ==
    ASSUME NEW r \in TaskState
    PROVE  [r EXCEPT !.done = @ + 1] \in TaskState
  BY DEF TaskState

\* Another value of m_pending.
LEMMA PendingType ==
    ASSUME NEW r \in TaskState
    PROVE  [r EXCEPT !.pending = @ - 1] \in TaskState
  BY DEF TaskState

\* Another list of dependents.
LEMMA DependentsType ==
    ASSUME NEW r \in TaskState, NEW s \in Seq(Task)
    PROVE  r.dependents \in Seq(Task) /\ [r EXCEPT !.dependents = s] \in TaskState
  BY DEF TaskState

\* A task with one flag set.
LEMMA UpdateType ==
    ASSUME task \in [Task -> TaskState], NEW t \in Task
    PROVE  /\ task[t] \in TaskState
           /\ [task[t] EXCEPT !.started = TRUE] \in TaskState
           /\ [task[t] EXCEPT !.finished = TRUE] \in TaskState
           /\ [task[t] EXCEPT !.canceled = TRUE] \in TaskState
           /\ [task[t] EXCEPT !.queued = TRUE] \in TaskState
           /\ [task[t] EXCEPT !.retrieved = TRUE] \in TaskState
           /\ [task[t] EXCEPT !.done = @ + 1] \in TaskState
           /\ [task[t] EXCEPT !.pending = @ - 1] \in TaskState
           /\ task[t].dependents \in Seq(Task)
           /\ [task[t] EXCEPT !.dependents = <<>>] \in TaskState
           /\ \A u \in Task : [task[t] EXCEPT !.dependents = Append(@, u)] \in TaskState
           /\ \A u \in Task : [task[t] EXCEPT !.dependents = <<u>>] \in TaskState
  <1>1. task[t] \in TaskState
    OBVIOUS
  <1>2. /\ <<>> \in Seq(Task) /\ \A u \in Task : <<u>> \in Seq(Task)
        /\ \A u \in Task, s \in Seq(Task) : Append(s, u) \in Seq(Task)
    OBVIOUS
  <1>3. task[t].dependents \in Seq(Task)
    BY <1>1, <1>2, DependentsType
  <1>4. QED
    BY <1>1, <1>2, <1>3, FlagType, DoneType, PendingType, DependentsType, Zenon

\* One task is written, or none.
LEMMA WriteInv ==
    ASSUME SharedInv, NEW t \in Task, NEW s \in TaskState,
           task' = [task EXCEPT ![t] = s] \/ task' = task,
           shouldCancel' \in [Thread -> BOOLEAN],
           UNCHANGED <<queueVars, inflight, stopPc, historyVars>>
    PROVE  SharedInv'
  <1>1. task' \in [Task -> TaskState]
    BY DEF SharedInv
  <1>2. QED
    BY <1>1 DEF SharedInv, QueueInv, QueueTypeOK, SkipCountBounded, queueVars, historyVars

\* No task is written.
LEMMA KeepInv ==
    ASSUME SharedInv, shouldCancel' \in [Thread -> BOOLEAN], handles' \subseteq Task,
           UNCHANGED <<queueVars, task, inflight, stopPc, created, prereqs, doomed, ran>>
    PROVE  SharedInv'
  BY DEF SharedInv, QueueInv, QueueTypeOK, SkipCountBounded, queueVars

\* The four forms most steps have: a label, ...
LEMMA LabelStep ==
    ASSUME TypeInv, NEW th \in Thread, NEW l \in Label(th), Goto(th, l),
           Holds(l, cur[th], todo[th]),
           UNCHANGED <<queueVars, task, inflight, stopPc, cur, todo, shouldCancel, historyVars>>
    PROVE  TypeInv'
  <1>1. ThreadInv'
    BY GotoInv DEF TypeInv
  <1>2. SharedInv'
    BY
       DEF TypeInv, SharedInv, QueueInv, QueueTypeOK, SkipCountBounded, queueVars,
           historyVars
  <1>3. QED
    BY <1>1, <1>2 DEF TypeInv

\* ... a label and a task written, ...
LEMMA WriteStep ==
    ASSUME TypeInv, NEW th \in Thread, NEW l \in Label(th), Goto(th, l),
           Holds(l, cur[th], todo[th]), NEW t \in Task, NEW s \in TaskState,
           task' = [task EXCEPT ![t] = s],
           UNCHANGED <<queueVars, inflight, stopPc, cur, todo, shouldCancel, historyVars>>
    PROVE  TypeInv'
  <1>1. ThreadInv'
    BY GotoInv DEF TypeInv
  <1>2. SharedInv'
    BY WriteInv DEF TypeInv, SharedInv
  <1>3. QED
    BY <1>1, <1>2 DEF TypeInv

\* ... a label and the head of the list dropped, ...
LEMMA DropStep ==
    ASSUME TypeInv, NEW th \in Thread, NEW l \in Label(th), Goto(th, l),
           todo[th] # <<>>, todo' = [todo EXCEPT ![th] = Tail(@)],
           Holds(l, cur[th], Tail(todo[th])),
           UNCHANGED <<queueVars, task, inflight, stopPc, cur, shouldCancel, historyVars>>
    PROVE  TypeInv'
  <1>1. ThreadInv'
    BY ListInv DEF TypeInv
  <1>2. SharedInv'
    BY
       DEF TypeInv, SharedInv, QueueInv, QueueTypeOK, SkipCountBounded, queueVars,
           historyVars
  <1>3. QED
    BY <1>1, <1>2 DEF TypeInv

\* ... and all three, with a flag of Launch.
LEMMA DropWriteStep ==
    ASSUME TypeInv, NEW th \in Thread, NEW l \in Label(th), Goto(th, l),
           todo[th] # <<>>, todo' = [todo EXCEPT ![th] = Tail(@)],
           Holds(l, cur[th], Tail(todo[th])), NEW t \in Task, NEW s \in TaskState,
           task' = [task EXCEPT ![t] = s], shouldCancel' \in [Thread -> BOOLEAN],
           UNCHANGED <<queueVars, inflight, stopPc, cur, historyVars>>
    PROVE  TypeInv'
  <1>1. ThreadInv'
    BY ListInv DEF TypeInv
  <1>2. SharedInv'
    BY WriteInv DEF TypeInv
  <1>3. QED
    BY <1>1, <1>2 DEF TypeInv

-----------------------------------------------------------------------------
\* The operations of clients.

\* Launch counts a prerequisite down.
LEMMA DiscountType ==
    ASSUME TypeInv, NEW c \in Client, pc[c] \in ExamineLabel, todo[c] # <<>>, Discount(c),
           shouldCancel' \in [Thread -> BOOLEAN],
           UNCHANGED <<queueVars, inflight, stopPc, cur, historyVars>>
    PROVE  TypeInv'
  <1>1. c \in Thread /\ cur[c] \in Task /\ Holds("examine", cur[c], Tail(todo[c]))
    BY Held DEF TypeInv, Thread, Holds, HeadLabel, TaskLabel, ExamineLabel
  <1>2. [task[cur[c]] EXCEPT !.pending = @ - 1] \in TaskState
    BY <1>1, UpdateType DEF TypeInv, SharedInv
  <1>3. "examine" \in Label(c)
    BY DEF Label, ClientLabel
  <1>4. QED
    BY <1>1, <1>2, <1>3, DropWriteStep DEF Discount

\* Launch reads the flags of a prerequisite.
LEMMA ExamineType ==
    ASSUME TypeInv, NEW c \in Client,
           ExamineCanceled(c) \/ ExamineFinished(c) \/ AddFailed(c)
    PROVE  TypeInv'
  <1>1. /\ c \in Thread /\ pc[c] \in ExamineLabel /\ todo[c] # <<>> /\ cur[c] \in Task
        /\ shouldCancel \in [Thread -> BOOLEAN]
        /\ todo[c] \in Seq(Task \union {NoTask}) /\ Head(todo[c]) \in Task \union {NoTask}
    BY Held DEF TypeInv, SharedInv, Thread, ExamineCanceled, ExamineFinished, AddFailed,
                ExamineLabel, HeadLabel, TaskLabel
  <1>2. CASE Discount(c)
    <2>1. shouldCancel' \in [Thread -> BOOLEAN]
      BY <1>1, <1>2 DEF ExamineCanceled, ExamineFinished, AddFailed
    <2>2. QED
      BY <1>1, <1>2, <2>1, DiscountType DEF ExamineCanceled, ExamineFinished, AddFailed
  <1>3. CASE ExamineCanceled(c) /\ ~Discount(c)
    <2>1. Goto(c, "examineFinished") /\ Head(todo[c]) # NoTask
      BY <1>3 DEF ExamineCanceled
    <2>2. Holds("examineFinished", cur[c], todo[c]) /\ "examineFinished" \in Label(c)
      BY <1>1, <2>1 DEF Holds, HeadLabel, TaskLabel, ExamineLabel, Label, ClientLabel
    <2>3. QED
      BY <1>1, <1>3, <2>1, <2>2, LabelStep DEF ExamineCanceled
  <1>4. CASE ExamineFinished(c) /\ ~Discount(c)
    <2>1. Goto(c, "addDependent") /\ pc[c] = "examineFinished"
      BY <1>4 DEF ExamineFinished
    <2>2. Holds("addDependent", cur[c], todo[c]) /\ "addDependent" \in Label(c)
      BY <1>1, <2>1, Held
         DEF TypeInv, Holds, HeadLabel, TaskLabel, ExamineLabel, Label, ClientLabel
    <2>3. QED
      BY <1>1, <1>4, <2>1, <2>2, LabelStep DEF ExamineFinished
  <1>5. QED
    BY <1>2, <1>3, <1>4 DEF AddFailed

\* Launch adds the new task to the dependents of a prerequisite.
LEMMA TryAddDependentType ==
    ASSUME TypeInv, NEW c \in Client, TryAddDependent(c)
    PROVE  TypeInv'
  <1> DEFINE h == Head(todo[c])
  <1>1. /\ c \in Thread /\ pc[c] = "addDependent" /\ Holds("addDependent", cur[c], todo[c])
        /\ h \in Task /\ todo[c] # <<>> /\ cur[c] \in Task
    BY Held DEF TypeInv, TryAddDependent, Thread, HeadLabel, TaskLabel, ExamineLabel
  <1>2. CASE task[h].finished
    <2>1. Holds("addFailed", cur[c], todo[c]) /\ "addFailed" \in Label(c)
      BY <1>1 DEF Holds, HeadLabel, TaskLabel, ExamineLabel, Label, ClientLabel
    <2>2. QED
      BY <1>1, <1>2, <2>1, LabelStep DEF TryAddDependent
  <1>3. CASE ~task[h].finished
    <2>1. Holds("examine", cur[c], Tail(todo[c])) /\ "examine" \in Label(c)
      BY <1>1 DEF Holds, HeadLabel, TaskLabel, ExamineLabel, Label, ClientLabel
    <2>2. [task[h] EXCEPT !.dependents = Append(@, cur[c])] \in TaskState
      BY <1>1, UpdateType DEF TypeInv, SharedInv
    <2>3. QED
      BY <1>1, <1>3, <2>1, <2>2, DropWriteStep DEF TryAddDependent, TypeInv, SharedInv
  <1>4. QED
    BY <1>2, <1>3

\* Launch cancels the new task or reads its count.
LEMMA DecideType ==
    ASSUME TypeInv, NEW c \in Client, DecideCancel(c) \/ DecideEnqueue(c)
    PROVE  TypeInv'
  <1>1. c \in Thread /\ cur[c] \in Task /\ Holds(pc[c], cur[c], todo[c])
    BY Held DEF TypeInv, DecideCancel, DecideEnqueue, Thread, TaskLabel, ExamineLabel
  <1>2. SharedInv'
    BY KeepInv DEF TypeInv, SharedInv, DecideCancel, DecideEnqueue, historyVars
  <1>3. CASE DecideCancel(c)
    <2>1. Holds("cancel", cur[c], <<cur[c]>>) /\ "cancel" \in Label(c)
      BY <1>1 DEF Holds, HeadLabel, TaskLabel, ExamineLabel, Label, ClientLabel
    <2>2. Holds("decideEnqueue", cur[c], <<>>) /\ "decideEnqueue" \in Label(c)
      BY <1>1 DEF Holds, HeadLabel, TaskLabel, ExamineLabel, Label, ClientLabel
    <2>3. ThreadInv'
      BY <1>1, <1>3, <2>1, <2>2, ListInv, GotoInv DEF DecideCancel, TypeInv
    <2>4. QED
      BY <1>2, <2>3 DEF TypeInv
  <1>4. CASE DecideEnqueue(c)
    <2>1. /\ "enqueue" \in Label(c)
          /\ Holds("enqueue", cur[c], <<cur[c]>>) /\ Holds("enqueue", cur[c], <<>>)
      BY <1>1 DEF Holds, HeadLabel, TaskLabel, ExamineLabel, Label, ClientLabel
    <2>2. ThreadInv'
      BY <1>1, <1>4, <2>1, ListInv DEF DecideEnqueue, TypeInv
    <2>3. QED
      BY <1>2, <2>2 DEF TypeInv
  <1>5. QED
    BY <1>3, <1>4

\* A call returns to the client.
LEMMA ReturnType ==
    ASSUME TypeInv, NEW c \in Client, EnqueueReturn(c) \/ CancelReturn(c) \/ WaitReturn(c)
    PROVE  TypeInv'
  <1>1. /\ c \in Thread /\ Holds(pc[c], cur[c], todo[c])
        /\ pc[c] \in {"enqueue", "cancel", "wait"} /\ (pc[c] = "enqueue" => cur[c] \in Task)
    BY Held DEF TypeInv, EnqueueReturn, CancelReturn, WaitReturn, Thread, TaskLabel
  <1>2. SharedInv'
    <2>1. handles' \subseteq Task
      BY <1>1
         DEF TypeInv, SharedInv, EnqueueReturn, CancelReturn, WaitReturn, historyVars, Holds
    <2>2. QED
      BY <2>1, KeepInv
         DEF TypeInv, SharedInv, EnqueueReturn, CancelReturn, WaitReturn, historyVars
  <1>3. ThreadInv'
    <2>1. Holds("idle", NoTask, todo[c]) /\ "idle" \in Label(c)
      BY <1>1 DEF Holds, HeadLabel, TaskLabel, ExamineLabel, Label, ClientLabel
    <2>2. pc[c] = "enqueue" => Holds("wait", cur[c], todo[c]) /\ "wait" \in Label(c)
      BY <1>1 DEF Holds, HeadLabel, TaskLabel, ExamineLabel, Label, ClientLabel
    <2>3. CASE Goto(c, "wait") /\ UNCHANGED <<cur, todo>> /\ pc[c] = "enqueue"
      BY <1>1, <2>2, <2>3, GotoInv DEF TypeInv
    <2>4. CASE Return(c) /\ UNCHANGED todo
      BY <1>1, <2>1, <2>4, CurInv DEF TypeInv, Return
    <2>5. QED
      BY <2>3, <2>4 DEF EnqueueReturn, CancelReturn, WaitReturn
  <1>4. QED
    BY <1>2, <1>3 DEF TypeInv

\* Cancel looks for the next task to cancel.
LEMMA CancelSearchType ==
    ASSUME TypeInv, NEW c \in Client, CancelCheck(c) \/ CancelCas(c)
    PROVE  TypeInv'
  <1> DEFINE h == Head(todo[c])
  <1>1. /\ c \in Thread /\ pc[c] \in {"cancel", "cancelCas"} /\ Holds(pc[c], cur[c], todo[c])
        /\ h \in Task /\ todo[c] # <<>> /\ Tail(todo[c]) \in Seq(Task)
    BY Held DEF TypeInv, CancelCheck, CancelCas, Thread, HeadLabel, ExamineLabel
  <1>2. /\ Holds("cancel", cur[c], Tail(todo[c])) /\ "cancel" \in Label(c)
        /\ Holds("cancelCas", cur[c], todo[c]) /\ "cancelCas" \in Label(c)
        /\ Holds("storeCanceled", cur[c], todo[c]) /\ "storeCanceled" \in Label(c)
    BY <1>1 DEF Holds, HeadLabel, TaskLabel, ExamineLabel, Label, ClientLabel
  <1>3. CASE CancelCheck(c) /\ task[h].canceled
    <2>1. Goto(c, "cancel")
      BY <1>3 DEF CancelCheck, Goto, TypeInv, ThreadInv
    <2>2. QED
      BY <1>1, <1>2, <1>3, <2>1, DropStep DEF CancelCheck
  <1>4. CASE CancelCheck(c) /\ ~task[h].canceled
    BY <1>1, <1>2, <1>4, LabelStep DEF CancelCheck
  <1>5. CASE CancelCas(c) /\ task[h].started
    BY <1>1, <1>2, <1>5, DropStep DEF CancelCas
  <1>6. CASE CancelCas(c) /\ ~task[h].started
    <2>1. [task[h] EXCEPT !.started = TRUE] \in TaskState
      BY <1>1, UpdateType DEF TypeInv, SharedInv
    <2>2. QED
      BY <1>1, <1>2, <1>6, <2>1, WriteStep DEF CancelCas
  <1>7. QED
    BY <1>3, <1>4, <1>5, <1>6

\* Cancel stores the flags of the task it won.
LEMMA CancelStoreType ==
    ASSUME TypeInv, NEW c \in Client, StoreCanceled(c) \/ StoreFinished(c) \/ SetDone(c)
    PROVE  TypeInv'
  <1> DEFINE h == Head(todo[c])
  <1>1. /\ c \in Thread /\ Holds(pc[c], cur[c], todo[c]) /\ h \in Task
        /\ pc[c] \in {"storeCanceled", "storeFinished", "setDone"}
    BY Held DEF TypeInv, StoreCanceled, StoreFinished, SetDone, Thread, HeadLabel
  <1>2. /\ Holds("storeFinished", cur[c], todo[c]) /\ "storeFinished" \in Label(c)
        /\ Holds("setDone", cur[c], todo[c]) /\ "setDone" \in Label(c)
        /\ Holds("cancelDependents", cur[c], todo[c]) /\ "cancelDependents" \in Label(c)
    BY <1>1 DEF Holds, HeadLabel, TaskLabel, ExamineLabel, Label, ClientLabel
  <1>3. /\ [task[h] EXCEPT !.canceled = TRUE] \in TaskState
        /\ [task[h] EXCEPT !.finished = TRUE] \in TaskState
        /\ [task[h] EXCEPT !.done = @ + 1] \in TaskState
    BY <1>1, UpdateType DEF TypeInv, SharedInv
  <1>4. CASE StoreCanceled(c)
    BY <1>1, <1>2, <1>3, <1>4, WriteStep DEF StoreCanceled
  <1>5. CASE StoreFinished(c)
    BY <1>1, <1>2, <1>3, <1>5, WriteStep DEF StoreFinished
  <1>6. CASE SetDone(c)
    BY <1>1, <1>2, <1>3, <1>6, WriteStep DEF SetDone
  <1>7. QED
    BY <1>4, <1>5, <1>6

\* Cancel takes the dependents of the task it canceled.
LEMMA CancelDependentsType ==
    ASSUME TypeInv, NEW c \in Client, CancelDependents(c)
    PROVE  TypeInv'
  <1> DEFINE h == Head(todo[c])
             s == task[h].dependents \o Tail(todo[c])
  <1>1. /\ c \in Thread /\ Holds("cancelDependents", cur[c], todo[c]) /\ h \in Task
        /\ Tail(todo[c]) \in Seq(Task)
    BY Held DEF TypeInv, CancelDependents, Thread, HeadLabel, ExamineLabel
  <1>2. task[h].dependents \in Seq(Task) /\ [task[h] EXCEPT !.dependents = <<>>] \in TaskState
    BY <1>1, UpdateType DEF TypeInv, SharedInv
  <1>3. Holds("cancel", cur[c], s) /\ "cancel" \in Label(c)
    BY <1>1, <1>2 DEF Holds, HeadLabel, TaskLabel, ExamineLabel, Label, ClientLabel
  <1>4. ThreadInv'
    BY <1>1, <1>3, ListInv DEF TypeInv, CancelDependents
  <1>5. SharedInv'
    BY <1>1, <1>2, WriteInv DEF TypeInv, SharedInv, CancelDependents
  <1>6. QED
    BY <1>4, <1>5 DEF TypeInv
\* A client calls into the system.
LEMMA ClientCallType ==
    ASSUME TypeInv, NEW c \in Client, ClientCall(c)
    PROVE  TypeInv'
  <1>1. c \in Thread /\ Label(c) = ClientLabel
    BY DEF Thread, Label
  <1>2. ASSUME NEW t \in Task, NEW ps \in Shapes[t], LaunchBegin(c, t, ps)
        PROVE  TypeInv'
    <2>1. ps \in Seq(Task \union {NoTask}) /\ Len(ps) \in Int
      BY TaskAssumption
    <2>2. Holds("examine", t, ps) /\ "examine" \in Label(c)
      BY <1>1, <2>1 DEF Holds, HeadLabel, TaskLabel, ExamineLabel, Label, ClientLabel
    <2>3. ThreadInv'
      BY <1>1, <1>2, <2>2, MoveInv DEF TypeInv, LaunchBegin, Goto
    <2>4. task' \in [Task -> TaskState]
      <3>1. task[t] \in TaskState
        BY DEF TypeInv, SharedInv
      <3>2. [task[t] EXCEPT !.pending = Len(ps)] \in TaskState
        BY <2>1, <3>1 DEF TaskState
      <3>3. QED
        BY <1>2, <3>2 DEF TypeInv, SharedInv, LaunchBegin
    <2>5. SharedInv'
      BY <1>1, <1>2, <2>1, <2>4
         DEF TypeInv, SharedInv, LaunchBegin, QueueInv, QueueTypeOK, SkipCountBounded, queueVars
    <2>6. QED
      BY <2>3, <2>5 DEF TypeInv
  <1>3. ASSUME NEW t \in Task, CancelBegin(c, t)
        PROVE  TypeInv'
    <2>1. Holds("cancel", cur[c], <<t>>) /\ "cancel" \in Label(c)
      BY <1>1, Held
         DEF TypeInv, Holds, HeadLabel, TaskLabel, ExamineLabel, Label, ClientLabel
    <2>2. ThreadInv'
      BY <1>1, <1>3, <2>1, ListInv DEF TypeInv, CancelBegin
    <2>3. SharedInv'
      BY <1>3, KeepInv DEF TypeInv, SharedInv, CancelBegin, historyVars
    <2>4. QED
      BY <2>2, <2>3 DEF TypeInv
  <1>4. ASSUME NEW t \in Task, WaitBegin(c, t)
        PROVE  TypeInv'
    <2>1. /\ todo[c] \in Seq(Task)
          /\ Holds("wait", t, todo[c]) /\ Holds("threw", t, todo[c])
          /\ "wait" \in Label(c) /\ "threw" \in Label(c)
      BY <1>1, <1>4, Held
         DEF TypeInv, WaitBegin, MayCall, Holds, HeadLabel, TaskLabel, ExamineLabel, Label,
             ClientLabel
    <2>2. ThreadInv'
      BY <1>1, <1>4, <2>1, CurInv DEF TypeInv, WaitBegin
    <2>3. [task[t] EXCEPT !.retrieved = TRUE] \in TaskState
      BY UpdateType DEF TypeInv, SharedInv
    <2>4. SharedInv'
      BY <1>4, <2>3, WriteInv DEF TypeInv, SharedInv, WaitBegin
    <2>5. QED
      BY <2>2, <2>4 DEF TypeInv
  <1>5. ASSUME NEW join \in Task, NEW chunks \in Shapes[join], ToSet(chunks) \subseteq Task,
               ParallelForBegin(c, join, chunks)
        PROVE  TypeInv'
    <2>1. chunks \in Seq(Task \union {NoTask}) /\ Len(chunks) \in Int /\ chunks \in Seq(Task)
      <3>1. chunks \in Seq(Task \union {NoTask})
        BY TaskAssumption
      <3>2. \A i \in 1 .. Len(chunks) : chunks[i] \in Task
        BY <1>5, <3>1 DEF ToSet
      <3>3. QED
        BY <3>1, <3>2
    <2>2. Holds("enqueue", join, chunks) /\ "enqueue" \in Label(c)
      BY <2>1, <1>1 DEF Holds, HeadLabel, TaskLabel, ExamineLabel, Label, ClientLabel
    <2>3. ThreadInv'
      BY <1>1, <1>5, <2>2, MoveInv DEF TypeInv, ParallelForBegin, Goto
    <2>4. task' \in [Task -> TaskState]
      <3>1. ASSUME NEW t \in Task
            PROVE  /\ [task[t] EXCEPT !.pending = Len(chunks), !.retrieved = TRUE] \in TaskState
                   /\ [task[t] EXCEPT !.dependents = <<join>>] \in TaskState
                   /\ task[t] \in TaskState
        <4>1. task[t] \in TaskState
          BY DEF TypeInv, SharedInv
        <4>2. [task[t] EXCEPT !.pending = Len(chunks), !.retrieved = TRUE] \in TaskState
          BY <2>1, <4>1 DEF TaskState
        <4>3. QED
          BY <4>1, <4>2, UpdateType DEF TypeInv, SharedInv
      <3>2. QED
        BY <1>5, <3>1 DEF ParallelForBegin
    <2>5. SharedInv'
      BY <1>1, <1>5, <2>1, <2>4
         DEF TypeInv, SharedInv, ParallelForBegin, QueueInv, QueueTypeOK, SkipCountBounded,
             queueVars
    <2>6. QED
      BY <2>3, <2>5 DEF TypeInv
  <1>6. handles \subseteq Task
    BY DEF TypeInv, SharedInv
  <1>7. QED
    BY <1>2, <1>3, <1>4, <1>5, <1>6 DEF ClientCall

-----------------------------------------------------------------------------
\* Enqueue, which clients and workers share.

\* Enqueue, by a client or a worker.
LEMMA EnqueueType ==
    ASSUME TypeInv, NEW th \in Thread, EnqueueCas(th) \/ CountInflight(th) \/ PushTask(th)
    PROVE  TypeInv'
  <1> DEFINE h == Head(todo[th])
  <1>1. /\ pc[th] \in {"enqueue", "count", "push"} /\ todo[th] # <<>>
        /\ Holds(pc[th], cur[th], todo[th])
        /\ h \in Task /\ Tail(todo[th]) \in Seq(Task) /\ cur[th] \in Task
    BY Held
       DEF TypeInv, EnqueueCas, CountInflight, PushTask, HeadLabel, TaskLabel, ExamineLabel
  <1>2. /\ Holds(Loop(th), cur[th], Tail(todo[th])) /\ Loop(th) \in Label(th)
        /\ Holds("count", cur[th], todo[th]) /\ "count" \in Label(th)
        /\ Holds("push", cur[th], todo[th]) /\ "push" \in Label(th)
    BY <1>1
       DEF Holds, HeadLabel, TaskLabel, ExamineLabel, Label, ClientLabel, WorkerLabel, Loop
  <1>3. CASE EnqueueCas(th) /\ task[h].queued
    BY <1>1, <1>2, <1>3, DropStep DEF EnqueueCas
  <1>4. CASE EnqueueCas(th) /\ ~task[h].queued
    <2>1. [task[h] EXCEPT !.queued = TRUE] \in TaskState
      BY <1>1, UpdateType DEF TypeInv, SharedInv
    <2>2. QED
      BY <1>1, <1>2, <1>4, <2>1, WriteStep DEF EnqueueCas
  <1>5. CASE CountInflight(th)
    <2>1. ThreadInv'
      BY <1>1, <1>2, <1>5, GotoInv DEF TypeInv, CountInflight
    <2>2. SharedInv'
      BY <1>5
         DEF TypeInv, SharedInv, CountInflight, QueueInv, QueueTypeOK, SkipCountBounded,
                  queueVars, historyVars
    <2>3. QED
      BY <2>1, <2>2 DEF TypeInv
  <1>6. CASE PushTask(th)
    <2>1. ThreadInv'
      BY <1>1, <1>2, <1>6, ListInv DEF TypeInv, PushTask
    <2>2. QueueInv'
      BY <1>1, <1>6, PushInv DEF TypeInv, SharedInv, PushTask
    <2>3. SharedInv'
      BY <1>6, <2>2 DEF TypeInv, SharedInv, PushTask, historyVars
    <2>4. QED
      BY <2>1, <2>3 DEF TypeInv
  <1>7. QED
    BY <1>3, <1>4, <1>5, <1>6

-----------------------------------------------------------------------------
\* WorkerMain.

\* A worker takes a task, or finds that there is none.
LEMMA PopType ==
    ASSUME TypeInv, NEW w \in Worker, PopTask(w) \/ PopFails(w) \/ ReadInflight(w)
    PROVE  TypeInv'
  <1>1. /\ w \in Thread /\ todo[w] \in Seq(Task) /\ Holds(pc[w], cur[w], todo[w])
        /\ pc[w] \in {"pop", "readInflight"} /\ Label(w) = WorkerLabel
    BY Held, TaskAssumption
       DEF TypeInv, PopTask, PopFails, ReadInflight, Thread, ExamineLabel, Label
  <1>2. CASE PopTask(w)
    <2>1. PICK t \in Queued : PopLocked(t) /\ cur' = [cur EXCEPT ![w] = t]
      BY <1>2 DEF PopTask
    <2>2. t \in Task
      BY DEF TypeInv, SharedInv, QueueInv, QueueTypeOK, Queued
    <2>3. Holds("run", t, todo[w]) /\ "run" \in Label(w)
      BY <1>1, <2>2 DEF Holds, HeadLabel, TaskLabel, ExamineLabel, Label, WorkerLabel
    <2>4. ThreadInv'
      BY <1>1, <1>2, <2>1, <2>3, CurInv DEF TypeInv, PopTask
    <2>5. QueueInv'
      BY <2>1, PopLockedInv DEF TypeInv, SharedInv
    <2>6. SharedInv'
      BY <1>2, <2>5 DEF TypeInv, SharedInv, PopTask, historyVars
    <2>7. QED
      BY <2>4, <2>6 DEF TypeInv
  <1>3. CASE PopFails(w)
    <2>1. Holds("readInflight", cur[w], todo[w]) /\ "readInflight" \in Label(w)
      BY <1>1 DEF Holds, HeadLabel, TaskLabel, ExamineLabel, Label, WorkerLabel
    <2>2. QED
      BY <1>1, <1>3, <2>1, LabelStep DEF PopFails
  <1>4. CASE ReadInflight(w)
    <2>1. /\ Holds("pop", cur[w], todo[w]) /\ "pop" \in Label(w)
          /\ Holds("exited", cur[w], todo[w]) /\ "exited" \in Label(w)
      BY <1>1 DEF Holds, HeadLabel, TaskLabel, ExamineLabel, Label, WorkerLabel
    <2>2. QED
      BY <1>1, <1>4, <2>1, LabelStep DEF ReadInflight
  <1>5. QED
    BY <1>2, <1>3, <1>4

\* A worker runs its task.
LEMMA RunType ==
    ASSUME TypeInv, NEW w \in Worker, RunCas(w) \/ CallFunc(w) \/ RunFinished(w) \/ RunDone(w)
    PROVE  TypeInv'
  <1> DEFINE t == cur[w]
  <1>1. /\ w \in Thread /\ t \in Task /\ todo[w] \in Seq(Task) /\ Label(w) = WorkerLabel
    BY Held, TaskAssumption
       DEF TypeInv, RunCas, CallFunc, RunFinished, RunDone, Thread, Label, TaskLabel, ExamineLabel
  <1>2. \A l \in {"taskFinished", "func", "runFinished", "runDone", "collect"} :
           Holds(l, t, todo[w]) /\ l \in Label(w)
    BY <1>1 DEF Holds, HeadLabel, TaskLabel, ExamineLabel, Label, WorkerLabel
  <1>3. /\ [task[t] EXCEPT !.started = TRUE] \in TaskState
        /\ [task[t] EXCEPT !.finished = TRUE] \in TaskState
        /\ [task[t] EXCEPT !.done = @ + 1] \in TaskState
    BY <1>1, UpdateType DEF TypeInv, SharedInv
  <1>4. CASE RunCas(w) /\ task[t].started
    BY <1>1, <1>2, <1>4, LabelStep DEF RunCas
  <1>5. CASE RunCas(w) /\ ~task[t].started
    BY <1>1, <1>2, <1>3, <1>5, WriteStep DEF RunCas
  <1>6. CASE CallFunc(w)
    <2>1. ThreadInv'
      BY <1>1, <1>2, <1>6, GotoInv DEF TypeInv, CallFunc
    <2>2. SharedInv'
      BY <1>1, <1>6
         DEF TypeInv, SharedInv, CallFunc, QueueInv, QueueTypeOK, SkipCountBounded,
                        queueVars
    <2>3. QED
      BY <2>1, <2>2 DEF TypeInv
  <1>7. CASE RunFinished(w)
    BY <1>1, <1>2, <1>3, <1>7, WriteStep DEF RunFinished
  <1>8. CASE RunDone(w)
    BY <1>1, <1>2, <1>3, <1>8, WriteStep DEF RunDone
  <1>9. QED
    BY <1>4, <1>5, <1>6, <1>7, <1>8

\* A worker walks the dependents of its task.
LEMMA ScheduleType ==
    ASSUME TypeInv, NEW w \in Worker,
           \/ CollectDependents(w) \/ SkipOrDecrement(w) \/ DecrementPending(w)
           \/ RecheckFinished(w) \/ ScheduleReturn(w)
    PROVE  TypeInv'
  <1> DEFINE h == Head(todo[w])
  <1>1. /\ w \in Thread /\ cur[w] \in Task /\ todo[w] \in Seq(Task) /\ Label(w) = WorkerLabel
        /\ todo[w] # <<>> => h \in Task /\ Tail(todo[w]) \in Seq(Task)
        /\ pc[w] \in {"decrement", "recheck"} => todo[w] # <<>>
    BY Held, TaskAssumption
       DEF TypeInv, CollectDependents, SkipOrDecrement, DecrementPending, RecheckFinished,
           ScheduleReturn, Thread, Label, TaskLabel, ExamineLabel, HeadLabel
  <1>2. /\ \A s \in Seq(Task) : Holds("schedule", cur[w], s)
        /\ \A l \in {"decrement", "recheck", "enqueue"} :
              todo[w] # <<>> => Holds(l, cur[w], todo[w])
        /\ Holds("taskFinished", cur[w], todo[w])
        /\ {"schedule", "decrement", "recheck", "enqueue", "taskFinished"} \subseteq Label(w)
    BY <1>1 DEF Holds, HeadLabel, TaskLabel, ExamineLabel, Label, WorkerLabel
  <1>3. CASE CollectDependents(w)
    <2>1. /\ task[cur[w]].dependents \in Seq(Task)
          /\ [task[cur[w]] EXCEPT !.dependents = <<>>] \in TaskState
      BY <1>1, UpdateType DEF TypeInv, SharedInv
    <2>2. ThreadInv'
      BY <1>1, <1>2, <1>3, <2>1, ListInv DEF TypeInv, CollectDependents
    <2>3. SharedInv'
      BY <1>1, <1>3, <2>1, WriteInv DEF TypeInv, SharedInv, CollectDependents
    <2>4. QED
      BY <2>2, <2>3 DEF TypeInv
  <1>4. CASE SkipOrDecrement(w)
    <2>1. CASE task[h].finished
      <3>1. Goto(w, "schedule")
        BY <1>4, <2>1 DEF SkipOrDecrement, Goto, TypeInv, ThreadInv
      <3>2. QED
        BY <1>1, <1>2, <1>4, <2>1, <3>1, DropStep DEF SkipOrDecrement
    <2>2. CASE ~task[h].finished
      BY <1>1, <1>2, <1>4, <2>2, LabelStep DEF SkipOrDecrement
    <2>3. QED
      BY <2>1, <2>2
  <1>5. CASE DecrementPending(w)
    <2>1. [task[h] EXCEPT !.pending = @ - 1] \in TaskState /\ h \in Task /\ todo[w] # <<>>
      <3>1. task[h] \in TaskState /\ h \in Task /\ todo[w] # <<>>
        BY <1>1, <1>5 DEF TypeInv, SharedInv, DecrementPending
      <3>2. QED
        <4> HIDE DEF h
        <4>1. QED
          BY <3>1 DEF TaskState
    <2>2. CASE task[h].pending - 1 <= 0
      BY <1>1, <1>2, <1>5, <2>1, <2>2, WriteStep DEF DecrementPending
    <2>3. CASE ~(task[h].pending - 1 <= 0)
      BY <1>1, <1>2, <1>5, <2>1, <2>3, DropWriteStep
         DEF DecrementPending, TypeInv, SharedInv
    <2>4. QED
      BY <2>2, <2>3
  <1>6. CASE RecheckFinished(w)
    <2>1. CASE task[h].finished
      BY <1>1, <1>2, <1>6, <2>1, DropStep DEF RecheckFinished
    <2>2. CASE ~task[h].finished
      BY <1>1, <1>2, <1>6, <2>2, LabelStep DEF RecheckFinished
    <2>3. QED
      BY <2>1, <2>2
  <1>7. CASE ScheduleReturn(w)
    BY <1>1, <1>2, <1>7, LabelStep DEF ScheduleReturn
  <1>8. QED
    BY <1>3, <1>4, <1>5, <1>6, <1>7

\* A worker gives up its share of the count.
LEMMA FinishType ==
    ASSUME TypeInv, NEW w \in Worker, TaskFinished(w) \/ NotifyShutdown(w)
    PROVE  TypeInv'
  <1>1. /\ w \in Thread /\ todo[w] \in Seq(Task) /\ Label(w) = WorkerLabel
        /\ Holds(pc[w], cur[w], todo[w])
    BY Held, TaskAssumption
       DEF TypeInv, TaskFinished, NotifyShutdown, Thread, Label, ExamineLabel
  <1>2. /\ Holds("notify", NoTask, todo[w]) /\ "notify" \in Label(w)
        /\ Holds("pop", NoTask, todo[w]) /\ "pop" \in Label(w)
        /\ Holds("pop", cur[w], todo[w])
    BY <1>1 DEF Holds, HeadLabel, TaskLabel, ExamineLabel, Label, WorkerLabel
  <1>3. CASE TaskFinished(w)
    <2>1. ThreadInv'
      BY <1>1, <1>2, <1>3, CurInv DEF TypeInv, TaskFinished
    <2>2. SharedInv'
      BY <1>3 DEF TypeInv, SharedInv, TaskFinished, QueueInv, QueueTypeOK, SkipCountBounded,
                  queueVars, historyVars
    <2>3. QED
      BY <2>1, <2>2 DEF TypeInv
  <1>4. CASE NotifyShutdown(w)
    <2>1. ThreadInv'
      BY <1>1, <1>2, <1>4, GotoInv DEF TypeInv, NotifyShutdown
    <2>2. SharedInv'
      BY <1>4
         DEF TypeInv, SharedInv, NotifyShutdown, QueueInv, QueueTypeOK, SkipCountBounded,
                  queueVars, historyVars, StopLabel
    <2>3. QED
      BY <2>1, <2>2 DEF TypeInv
  <1>5. QED
    BY <1>3, <1>4

-----------------------------------------------------------------------------
\* Terminate and Initialize.

\* The owner terminates the system and initializes it again.
LEMMA OwnerType ==
    ASSUME TypeInv, TerminateBegin \/ OwnerStep \/ ShutdownSpurious \/ Reinitialize
    PROVE  TypeInv'
  <1>1. SharedInv'
    <2>1. stopPc' \in StopLabel
      BY DEF TerminateBegin, OwnerStep, ShutdownPredicate, ShutdownSleep, JoinWorkers,
             ShutdownSpurious, Reinitialize, StopLabel
    <2>2. UNCHANGED <<queueVars, task, inflight, shouldCancel, historyVars>>
      BY DEF TerminateBegin, OwnerStep, ShutdownPredicate, ShutdownSleep, JoinWorkers,
             ShutdownSpurious, Reinitialize, localVars
    <2>3. QED
      BY <2>1, <2>2
         DEF TypeInv, SharedInv, QueueInv, QueueTypeOK, SkipCountBounded, queueVars,
                        historyVars
  <1>2. ThreadInv'
    <2>1. CASE UNCHANGED localVars
      BY <2>1
         DEF TypeInv, ThreadInv, localVars, Holds, HeadLabel, TaskLabel, ExamineLabel,
             Label, ClientLabel, WorkerLabel
    <2>2. CASE Reinitialize
      <3>1. ASSUME NEW th \in Thread
            PROVE  pc'[th] \in Label(th) /\ Holds(pc'[th], cur'[th], todo'[th])
        <4>1. CASE th \in Worker
          <5>1. /\ todo[th] \in Seq(Task) /\ Label(th) = WorkerLabel
                /\ cur[th] \in Task \union {NoTask}
            BY <4>1, TaskAssumption
               DEF TypeInv, ThreadInv, Label, Holds, ExamineLabel, WorkerLabel
          <5>2. pc'[th] = "pop" /\ cur'[th] = cur[th] /\ todo'[th] = todo[th]
            BY <2>2, <4>1 DEF Reinitialize
          <5>3. QED
            BY <5>1, <5>2 DEF Holds, HeadLabel, TaskLabel, ExamineLabel, Label, WorkerLabel
        <4>2. CASE th \notin Worker
          BY <2>2, <4>2 DEF Reinitialize, TypeInv, ThreadInv
        <4>3. QED
          BY <4>1, <4>2
      <3>2. pc' \in [Thread -> ClientLabel \union WorkerLabel]
        BY <2>2, <3>1 DEF Reinitialize, Label
      <3>3. QED
        BY <2>2, <3>1, <3>2
           DEF Reinitialize, TypeInv, ThreadInv, Holds, HeadLabel, TaskLabel, ExamineLabel,
               Label, ClientLabel, WorkerLabel
    <2>3. QED
      BY <2>1, <2>2
         DEF TerminateBegin, OwnerStep, ShutdownPredicate, ShutdownSleep, JoinWorkers,
                        ShutdownSpurious
  <1>3. QED
    BY <1>1, <1>2 DEF TypeInv

-----------------------------------------------------------------------------

\* The initial state has the types.
LEMMA InitTypeInv == Init => TypeInv
  <1> SUFFICES ASSUME Init PROVE TypeInv
    OBVIOUS
  <1>1. SharedInv
    BY QueueInitInv, TaskAssumption DEF Init, SharedInv, TaskState, NewTask, StopLabel
  <1>2. ThreadInv
    BY TaskAssumption
       DEF Init, ThreadInv, Holds, HeadLabel, TaskLabel, ExamineLabel, Label, ClientLabel,
           WorkerLabel, Thread
  <1>3. QED
    BY <1>1, <1>2 DEF TypeInv

\* Every step keeps the types.
LEMMA NextTypeInv == TypeInv /\ [Next]_taskVars => TypeInv'
  <1> SUFFICES ASSUME TypeInv, [Next]_taskVars PROVE TypeInv'
    OBVIOUS
  <1>1. ASSUME NEW c \in Client, ClientCall(c) \/ ClientStep(c)
        PROVE  TypeInv'
    <2>1. c \in Thread
      BY DEF Thread
    <2>2. QED
      BY <1>1, <2>1, ClientCallType, ExamineType, TryAddDependentType, DecideType, EnqueueType,
         ReturnType, CancelSearchType, CancelStoreType, CancelDependentsType
         DEF ClientStep
  <1>2. ASSUME NEW w \in Worker, WorkerStep(w)
        PROVE  TypeInv'
    <2>1. w \in Thread
      BY DEF Thread
    <2>2. QED
      BY <1>2, <2>1, PopType, RunType, ScheduleType, EnqueueType, FinishType DEF WorkerStep
  <1>3. CASE UNCHANGED taskVars
    BY <1>3
       DEF taskVars, TypeInv, SharedInv, ThreadInv, QueueInv, QueueTypeOK, SkipCountBounded,
                Holds, HeadLabel, TaskLabel, ExamineLabel, Label, ClientLabel, WorkerLabel
  <1>4. QED
    BY <1>1, <1>2, <1>3, OwnerType DEF Next

\* The inductive form says what TaskTypeOK says.
LEMMA TypeInvTypeOK == TypeInv => TaskTypeOK
  BY TaskAssumption DEF TypeInv, SharedInv, ThreadInv, QueueInv, TaskTypeOK, Label, Thread

\* Whatever the tasks, their dependencies, the clients and the workers: every
\* variable keeps its type, and no thread ever dereferences the head of an
\* empty list or a task it does not have.
THEOREM TypeCorrect == Spec => []TaskTypeOK
  BY InitTypeInv, NextTypeInv, TypeInvTypeOK, PTL DEF Spec

-----------------------------------------------------------------------------
\* Who owns a task.

\* Who won the start guard.  The thread whose compare_exchange set
\* Task::started owns the task until it has satisfied the promise.

RunLabel == {"func", "runFinished", "runDone"}
CancelLabel == {"storeCanceled", "storeFinished", "setDone"}

Owns(th, t) ==
    \/ pc[th] \in RunLabel /\ cur[th] = t
    \/ pc[th] \in CancelLabel /\ Head(todo[th]) = t

\* The life of one task: nothing happens to it before it is started; one
\* thread at a time owns it; what has happened so far follows from where its
\* owner is; and what a reader may conclude from the flags holds.
Life(t) ==
    /\ ~task[t].started =>
          /\ ran[t] = 0 /\ task[t].done = 0 /\ ~task[t].canceled
          /\ \A th \in Thread : ~Owns(th, t)
    /\ \A th, o \in Thread : Owns(th, t) /\ Owns(o, t) => th = o
    /\ \A th \in Thread : Owns(th, t) =>
          /\ task[t].done = 0
          /\ pc[th] \in RunLabel => ~task[t].canceled
          /\ pc[th] \in CancelLabel \union {"func"} => ran[t] = 0
          /\ pc[th] \in {"runFinished", "runDone"} => ran[t] = 1
          /\ pc[th] \in {"storeFinished", "setDone"} => task[t].canceled
          /\ pc[th] \in {"runDone", "setDone"} => task[t].finished
    /\ ran[t] <= 1 /\ task[t].done <= 1
    /\ task[t].canceled => ran[t] = 0
    /\ task[t].done > 0 => task[t].finished /\ (ran[t] = 0 => task[t].canceled)

LifeInv == \A t \in Task : Life(t)

Untouched(t) ==
    /\ task'[t].started = task[t].started /\ task'[t].finished = task[t].finished
    /\ task'[t].canceled = task[t].canceled /\ task'[t].done = task[t].done
    /\ ran'[t] = ran[t]

\* A task that a step neither touches nor gives a new owner keeps its life.
LEMMA LifeFrame ==
    ASSUME NEW t \in Task, Life(t), Untouched(t),
           \A th \in Thread : Owns(th, t)' => Owns(th, t) /\ pc'[th] = pc[th]
    PROVE  Life(t)'
  BY DEF Life, Untouched

Others(th) == \A o \in Thread \ {th} :
                 pc'[o] = pc[o] /\ cur'[o] = cur[o] /\ todo'[o] = todo[o]

\* A step that touches no task and makes its thread own none.
Quiet(th) ==
    /\ Others(th)
    /\ pc'[th] \notin RunLabel \union CancelLabel
    /\ \A t \in Task : Untouched(t)

\* A quiet step keeps every life.
LEMMA QuietLife ==
    ASSUME LifeInv, NEW th \in Thread, Quiet(th)
    PROVE  LifeInv'
  <1> SUFFICES ASSUME NEW t \in Task PROVE Life(t)'
    BY DEF LifeInv
  <1>1. \A o \in Thread : Owns(o, t)' => Owns(o, t) /\ pc'[o] = pc[o]
    BY DEF Quiet, Others, Owns
  <1>2. QED
    BY <1>1, LifeFrame DEF LifeInv, Quiet

\* What a step does not do to the other threads.
LEMMA OthersKeep ==
    ASSUME ThreadInv, NEW th \in Thread, NEW l, Goto(th, l)
    PROVE  /\ pc'[th] = l
           /\ \A o \in Thread \ {th} : pc'[o] = pc[o]
           /\ \A k : cur' = [cur EXCEPT ![th] = k] =>
                        \A o \in Thread \ {th} : cur'[o] = cur[o]
           /\ \A s : todo' = [todo EXCEPT ![th] = s] =>
                        \A o \in Thread \ {th} : todo'[o] = todo[o]
  BY DEF ThreadInv, Goto

\* The steps of a client that win and store nothing.
LEMMA QuietClient ==
    ASSUME TypeInv, NEW c \in Client,
           \/ ClientCall(c)
           \/ ExamineCanceled(c) \/ ExamineFinished(c) \/ TryAddDependent(c) \/ AddFailed(c)
           \/ DecideCancel(c) \/ DecideEnqueue(c) \/ EnqueueReturn(c)
           \/ CancelCheck(c) \/ CancelDependents(c) \/ CancelReturn(c) \/ WaitReturn(c)
    PROVE  Quiet(c)
  <1>1. c \in Thread
    BY DEF Thread
  <1>2. Others(c) /\ pc'[c] \notin RunLabel \union CancelLabel
    BY <1>1
       DEF TypeInv, ThreadInv, ClientCall, LaunchBegin, CancelBegin, WaitBegin,
           ParallelForBegin,
         ExamineCanceled, ExamineFinished, TryAddDependent, AddFailed, Discount,
         DecideCancel, DecideEnqueue, EnqueueReturn, CancelCheck, CancelDependents,
         CancelReturn, WaitReturn, Return, Goto, Others, RunLabel, CancelLabel
  <1>3. ASSUME NEW t \in Task
        PROVE  Untouched(t)
    <2> USE DEF TypeInv, SharedInv, TaskState, Untouched, historyVars
    <2>1. ASSUME NEW u \in Task, CancelBegin(c, u) \/ WaitBegin(c, u)
          PROVE  Untouched(t)
      <3>1. ran' = ran
        BY <2>1 DEF CancelBegin, WaitBegin
      <3>2. CASE task' = [task EXCEPT ![u].retrieved = TRUE]
        BY <3>1, <3>2
      <3>3. CASE task' = task
        BY <3>1, <3>3
      <3>4. QED
        BY <3>2, <3>3, <2>1 DEF CancelBegin, WaitBegin
    <2>2. ASSUME NEW u \in Task, NEW ps, LaunchBegin(c, u, ps)
          PROVE  Untouched(t)
      BY <2>2 DEF LaunchBegin
    <2>3. ASSUME NEW u \in Task, NEW ps, ParallelForBegin(c, u, ps)
          PROVE  Untouched(t)
      BY <2>3 DEF ParallelForBegin
    <2>4. CASE ExamineCanceled(c) \/ ExamineFinished(c) \/ AddFailed(c)
      <3>1. Discount(c) \/ task' = task
        BY <2>4 DEF ExamineCanceled, ExamineFinished, AddFailed
      <3>2. ran' = ran
        BY <2>4 DEF ExamineCanceled, ExamineFinished, AddFailed
      <3>3. CASE Discount(c)
        BY <3>2, <3>3 DEF Discount
      <3>4. QED
        BY <3>1, <3>2, <3>3
    <2>7. CASE TryAddDependent(c)
      <3>1. ran' = ran
        BY <2>7 DEF TryAddDependent
      <3>2. CASE task' = [task EXCEPT ![Head(todo[c])].dependents = Append(@, cur[c])]
        BY <3>1, <3>2
      <3>3. CASE task' = task
        BY <3>1, <3>3
      <3>4. QED
        BY <3>2, <3>3, <2>7 DEF TryAddDependent
    <2>8. CASE CancelDependents(c)
      BY <2>8 DEF CancelDependents
    <2>9. CASE \/ DecideCancel(c) \/ DecideEnqueue(c) \/ EnqueueReturn(c) \/ CancelCheck(c)
               \/ CancelReturn(c) \/ WaitReturn(c)
      BY <2>9 DEF DecideCancel, DecideEnqueue, EnqueueReturn, CancelCheck, CancelReturn,
                  WaitReturn
    <2>10. QED
      BY <2>1, <2>2, <2>3, <2>4, <2>7, <2>8, <2>9 DEF ClientCall
  <1>4. QED
    BY <1>2, <1>3 DEF Quiet

\* Enqueue touches no flag of a life.
LEMMA QuietEnqueue ==
    ASSUME TypeInv, NEW th \in Thread, EnqueueCas(th) \/ CountInflight(th) \/ PushTask(th)
    PROVE  Quiet(th)
  <1>1. Others(th) /\ pc'[th] \notin RunLabel \union CancelLabel
    BY DEF TypeInv, ThreadInv, EnqueueCas, CountInflight, PushTask, Loop, Goto, Others,
           RunLabel, CancelLabel
  <1>2. ASSUME NEW t \in Task
        PROVE  Untouched(t)
    <2> USE DEF TypeInv, SharedInv, TaskState, Untouched, historyVars
    <2>1. CASE EnqueueCas(th)
      <3>1. ran' = ran
        BY <2>1 DEF EnqueueCas
      <3>2. CASE task' = [task EXCEPT ![Head(todo[th])].queued = TRUE]
        BY <3>1, <3>2
      <3>3. CASE task' = task
        BY <3>1, <3>3
      <3>4. QED
        BY <3>2, <3>3, <2>1 DEF EnqueueCas
    <2>2. CASE CountInflight(th) \/ PushTask(th)
      BY <2>2 DEF CountInflight, PushTask
    <2>3. QED
      BY <2>1, <2>2
  <1>3. QED
    BY <1>1, <1>2 DEF Quiet

\* The steps of a worker that win and store nothing.
LEMMA QuietWorker ==
    ASSUME TypeInv, NEW w \in Worker,
           \/ PopTask(w) \/ PopFails(w) \/ ReadInflight(w) \/ CollectDependents(w)
           \/ SkipOrDecrement(w) \/ DecrementPending(w) \/ RecheckFinished(w)
           \/ ScheduleReturn(w) \/ TaskFinished(w) \/ NotifyShutdown(w)
    PROVE  Quiet(w)
  <1>1. w \in Thread
    BY DEF Thread
  <1>2. Others(w) /\ pc'[w] \notin RunLabel \union CancelLabel
    BY <1>1 DEF TypeInv, ThreadInv, PopTask, PopFails, ReadInflight, CollectDependents,
         SkipOrDecrement, DecrementPending, RecheckFinished, ScheduleReturn, TaskFinished,
         NotifyShutdown, Goto, Others, RunLabel, CancelLabel
  <1>3. ASSUME NEW t \in Task
        PROVE  Untouched(t)
    <2> USE DEF TypeInv, SharedInv, TaskState, Untouched, historyVars
    <2>1. CASE CollectDependents(w)
      BY <2>1 DEF CollectDependents
    <2>2. CASE DecrementPending(w)
      BY <2>2 DEF DecrementPending
    <2>3. CASE \/ PopTask(w) \/ PopFails(w) \/ ReadInflight(w) \/ SkipOrDecrement(w)
               \/ RecheckFinished(w) \/ ScheduleReturn(w) \/ TaskFinished(w)
               \/ NotifyShutdown(w)
      BY <2>3 DEF PopTask, PopFails, ReadInflight, SkipOrDecrement, RecheckFinished,
                  ScheduleReturn, TaskFinished, NotifyShutdown
    <2>4. QED
      BY <2>1, <2>2, <2>3
  <1>4. QED
    BY <1>2, <1>3 DEF Quiet

\* A step of thread th on the task x it owns, or comes to own.
LEMMA OwnerLife ==
    ASSUME LifeInv, NEW th \in Thread, NEW x \in Task, Others(th),
           \A t \in Task \ {x} : Untouched(t) /\ ~Owns(th, t)',
           Life(x)'
    PROVE  LifeInv'
  <1> SUFFICES ASSUME NEW t \in Task, t # x PROVE Life(t)'
    BY DEF LifeInv
  <1>1. \A o \in Thread : Owns(o, t)' => Owns(o, t) /\ pc'[o] = pc[o]
    BY DEF Others, Owns
  <1>2. QED
    BY <1>1, LifeFrame DEF LifeInv

\* Cancel wins the start guard, and stores what the owner stores.
LEMMA CancelLife ==
    ASSUME TypeInv, LifeInv, NEW c \in Client,
           CancelCas(c) \/ StoreCanceled(c) \/ StoreFinished(c) \/ SetDone(c)
    PROVE  LifeInv'
  <1>0. c \in Thread
    BY DEF Thread
  <1>1. PICK x \in Task : x = Head(todo[c])
    BY <1>0, Held DEF TypeInv, CancelCas, StoreCanceled, StoreFinished, SetDone, HeadLabel
  <1>2. Others(c)
    BY <1>0 DEF TypeInv, ThreadInv, CancelCas, StoreCanceled, StoreFinished, SetDone, Goto,
                Others
  <1>3. Life(x)
    BY <1>1 DEF LifeInv
  <1>4. CASE CancelCas(c) /\ task[x].started
    <2>1. Quiet(c)
      BY <1>0, <1>1, <1>2, <1>4
         DEF TypeInv, ThreadInv, SharedInv, CancelCas, Goto, Quiet, Untouched,
                              historyVars, RunLabel, CancelLabel
    <2>2. QED
      BY <1>0, <1>1, <2>1, QuietLife
  <1>5. CASE CancelCas(c) /\ ~task[x].started
    <2>1. /\ pc' = [pc EXCEPT ![c] = "storeCanceled"] /\ UNCHANGED <<cur, todo, ran>>
          /\ task' = [task EXCEPT ![x].started = TRUE]
      BY <1>1, <1>5 DEF CancelCas, Goto, historyVars
    <2>2. \A t \in Task \ {x} : Untouched(t) /\ ~Owns(c, t)'
      BY <1>0, <1>1, <2>1
         DEF TypeInv, SharedInv, ThreadInv, Untouched, Owns, RunLabel, CancelLabel
    <2>3. Life(x)'
      BY <1>0, <1>1, <1>2, <1>3, <1>5, <2>1
         DEF TypeInv, SharedInv, ThreadInv, TaskState, Life, Owns, Others, RunLabel, CancelLabel
    <2>4. QED
      BY <1>0, <1>1, <1>2, <2>2, <2>3, OwnerLife
  <1>6. CASE StoreCanceled(c)
    <2>1. /\ pc[c] = "storeCanceled" /\ pc' = [pc EXCEPT ![c] = "storeFinished"]
          /\ UNCHANGED <<cur, todo, ran>> /\ task' = [task EXCEPT ![x].canceled = TRUE]
      BY <1>1, <1>6 DEF StoreCanceled, Goto, historyVars
    <2>2. \A t \in Task \ {x} : Untouched(t) /\ ~Owns(c, t)'
      BY <1>0, <1>1, <2>1
         DEF TypeInv, SharedInv, ThreadInv, Untouched, Owns, RunLabel, CancelLabel
    <2>3. Life(x)'
      BY <1>0, <1>1, <1>2, <1>3, <2>1
         DEF TypeInv, SharedInv, ThreadInv, TaskState, Life, Owns, Others, RunLabel, CancelLabel
    <2>4. QED
      BY <1>0, <1>1, <1>2, <2>2, <2>3, OwnerLife
  <1>7. CASE StoreFinished(c)
    <2>1. /\ pc[c] = "storeFinished" /\ pc' = [pc EXCEPT ![c] = "setDone"]
          /\ UNCHANGED <<cur, todo, ran>> /\ task' = [task EXCEPT ![x].finished = TRUE]
      BY <1>1, <1>7 DEF StoreFinished, Goto, historyVars
    <2>2. \A t \in Task \ {x} : Untouched(t) /\ ~Owns(c, t)'
      BY <1>0, <1>1, <2>1
         DEF TypeInv, SharedInv, ThreadInv, Untouched, Owns, RunLabel, CancelLabel
    <2>3. Life(x)'
      BY <1>0, <1>1, <1>2, <1>3, <2>1
         DEF TypeInv, SharedInv, ThreadInv, TaskState, Life, Owns, Others, RunLabel, CancelLabel
    <2>4. QED
      BY <1>0, <1>1, <1>2, <2>2, <2>3, OwnerLife
  <1>8. CASE SetDone(c)
    <2>1. /\ pc[c] = "setDone" /\ pc' = [pc EXCEPT ![c] = "cancelDependents"]
          /\ UNCHANGED <<cur, todo, ran>> /\ task' = [task EXCEPT ![x].done = @ + 1]
      BY <1>1, <1>8 DEF SetDone, Goto, historyVars
    <2>2. \A t \in Task \ {x} : Untouched(t) /\ ~Owns(c, t)'
      BY <1>0, <1>1, <2>1
         DEF TypeInv, SharedInv, ThreadInv, Untouched, Owns, RunLabel, CancelLabel
    <2>3. Life(x)'
      BY <1>0, <1>1, <1>2, <1>3, <2>1
         DEF TypeInv, SharedInv, ThreadInv, TaskState, Life, Owns, Others, RunLabel, CancelLabel
    <2>4. QED
      BY <1>0, <1>1, <1>2, <2>2, <2>3, OwnerLife
  <1>9. QED
    BY <1>4, <1>5, <1>6, <1>7, <1>8

\* Run wins the start guard, and stores what the owner stores.
LEMMA RunLife ==
    ASSUME TypeInv, LifeInv, NEW w \in Worker,
           RunCas(w) \/ CallFunc(w) \/ RunFinished(w) \/ RunDone(w)
    PROVE  LifeInv'
  <1>0. w \in Thread
    BY DEF Thread
  <1>1. PICK x \in Task : x = cur[w]
    BY <1>0, Held DEF TypeInv, RunCas, CallFunc, RunFinished, RunDone, TaskLabel
  <1>2. Others(w)
    BY <1>0 DEF TypeInv, ThreadInv, RunCas, CallFunc, RunFinished, RunDone, Goto, Others
  <1>3. Life(x)
    BY <1>1 DEF LifeInv
  <1>4. CASE RunCas(w) /\ task[x].started
    <2>1. Quiet(w)
      BY <1>0, <1>1, <1>2, <1>4 DEF TypeInv, ThreadInv, SharedInv, RunCas, Goto, Quiet,
                                    Untouched, historyVars, RunLabel, CancelLabel
    <2>2. QED
      BY <1>0, <2>1, QuietLife
  <1>5. CASE RunCas(w) /\ ~task[x].started
    <2>1. /\ pc' = [pc EXCEPT ![w] = "func"] /\ UNCHANGED <<cur, todo, ran>>
          /\ task' = [task EXCEPT ![x].started = TRUE]
      BY <1>1, <1>5 DEF RunCas, Goto, historyVars
    <2>2. \A t \in Task \ {x} : Untouched(t) /\ ~Owns(w, t)'
      BY <1>0, <1>1, <2>1
         DEF TypeInv, SharedInv, ThreadInv, Untouched, Owns, RunLabel, CancelLabel
    <2>3. Life(x)'
      BY <1>0, <1>1, <1>2, <1>3, <1>5, <2>1
         DEF TypeInv, SharedInv, ThreadInv, TaskState, Life, Owns, Others, RunLabel, CancelLabel
    <2>4. QED
      BY <1>0, <1>2, <2>2, <2>3, OwnerLife
  <1>6. CASE CallFunc(w)
    <2>1. /\ pc[w] = "func" /\ pc' = [pc EXCEPT ![w] = "runFinished"]
          /\ UNCHANGED <<cur, todo, task>> /\ ran' = [ran EXCEPT ![x] = @ + 1]
      BY <1>1, <1>6 DEF CallFunc, Goto
    <2>2. \A t \in Task \ {x} : Untouched(t) /\ ~Owns(w, t)'
      BY <1>0, <1>1, <2>1
         DEF TypeInv, SharedInv, ThreadInv, Untouched, Owns, RunLabel, CancelLabel
    <2>3. Life(x)'
      BY <1>0, <1>1, <1>2, <1>3, <2>1
         DEF TypeInv, SharedInv, ThreadInv, TaskState, Life, Owns, Others, RunLabel, CancelLabel
    <2>4. QED
      BY <1>0, <1>2, <2>2, <2>3, OwnerLife
  <1>7. CASE RunFinished(w)
    <2>1. /\ pc[w] = "runFinished" /\ pc' = [pc EXCEPT ![w] = "runDone"]
          /\ UNCHANGED <<cur, todo, ran>> /\ task' = [task EXCEPT ![x].finished = TRUE]
      BY <1>1, <1>7 DEF RunFinished, Goto, historyVars
    <2>2. \A t \in Task \ {x} : Untouched(t) /\ ~Owns(w, t)'
      BY <1>0, <1>1, <2>1
         DEF TypeInv, SharedInv, ThreadInv, Untouched, Owns, RunLabel, CancelLabel
    <2>3. Life(x)'
      BY <1>0, <1>1, <1>2, <1>3, <2>1
         DEF TypeInv, SharedInv, ThreadInv, TaskState, Life, Owns, Others, RunLabel, CancelLabel
    <2>4. QED
      BY <1>0, <1>2, <2>2, <2>3, OwnerLife
  <1>8. CASE RunDone(w)
    <2>1. /\ pc[w] = "runDone" /\ pc' = [pc EXCEPT ![w] = "collect"]
          /\ UNCHANGED <<cur, todo, ran>> /\ task' = [task EXCEPT ![x].done = @ + 1]
      BY <1>1, <1>8 DEF RunDone, Goto, historyVars
    <2>2. \A t \in Task \ {x} : Untouched(t) /\ ~Owns(w, t)'
      BY <1>0, <1>1, <2>1
         DEF TypeInv, SharedInv, ThreadInv, Untouched, Owns, RunLabel, CancelLabel
    <2>3. Life(x)'
      BY <1>0, <1>1, <1>2, <1>3, <2>1
         DEF TypeInv, SharedInv, ThreadInv, TaskState, Life, Owns, Others, RunLabel, CancelLabel
    <2>4. QED
      BY <1>0, <1>2, <2>2, <2>3, OwnerLife
  <1>9. QED
    BY <1>4, <1>5, <1>6, <1>7, <1>8

\* Terminate touches no task, and Initialize only sends workers to the queue.
LEMMA OwnerStepLife ==
    ASSUME TypeInv, LifeInv,
           TerminateBegin \/ OwnerStep \/ ShutdownSpurious \/ Reinitialize
    PROVE  LifeInv'
  <1> SUFFICES ASSUME NEW t \in Task PROVE Life(t)'
    BY DEF LifeInv
  <1>1. Untouched(t)
    BY DEF TerminateBegin, OwnerStep, ShutdownPredicate, ShutdownSleep, JoinWorkers,
           ShutdownSpurious, Reinitialize, historyVars, Untouched
  <1>2. ASSUME NEW th \in Thread, Owns(th, t)'
        PROVE  Owns(th, t) /\ pc'[th] = pc[th]
    <2>1. CASE UNCHANGED localVars
      BY <1>2, <2>1 DEF localVars, Owns
    <2>2. CASE Reinitialize
      BY <1>2, <2>2 DEF Reinitialize, Owns, RunLabel, CancelLabel
    <2>3. QED
      BY <2>1, <2>2
         DEF TerminateBegin, OwnerStep, ShutdownPredicate, ShutdownSleep, JoinWorkers,
                        ShutdownSpurious
  <1>3. QED
    BY <1>1, <1>2, LifeFrame DEF LifeInv

\* Nothing has happened to any task yet.
LEMMA InitLife == Init => LifeInv
  BY DEF Init, LifeInv, Life, Owns, NewTask, RunLabel, CancelLabel, Thread

\* Every step keeps every life.
LEMMA NextLife == TypeInv /\ LifeInv /\ [Next]_taskVars => LifeInv'
  <1> SUFFICES ASSUME TypeInv, LifeInv, [Next]_taskVars PROVE LifeInv'
    OBVIOUS
  <1>1. ASSUME NEW c \in Client, ClientCall(c) \/ ClientStep(c)
        PROVE  LifeInv'
    <2>1. c \in Thread
      BY DEF Thread
    <2>2. QED
      BY <1>1, <2>1, QuietClient, QuietEnqueue, QuietLife, CancelLife DEF ClientStep
  <1>2. ASSUME NEW w \in Worker, WorkerStep(w)
        PROVE  LifeInv'
    <2>1. w \in Thread
      BY DEF Thread
    <2>2. QED
      BY <1>2, <2>1, QuietWorker, QuietEnqueue, QuietLife, RunLife DEF WorkerStep
  <1>3. CASE UNCHANGED taskVars
    BY <1>3 DEF taskVars, LifeInv, Life, Owns
  <1>4. QED
    BY <1>1, <1>2, <1>3, OwnerStepLife DEF Next

\* What the lives say to the users of the system.
LEMMA LifeSafety ==
    TypeInv /\ LifeInv => ExecutedOnce /\ CanceledNeverRuns /\ FlagsBeforePromise
  BY DEF TypeInv, LifeInv, Life, Owns, RunLabel, CancelLabel, Thread, ExecutedOnce,
         CanceledNeverRuns, FlagsBeforePromise

\* Who owns a task and what its flags tell is an invariant.
LEMMA LifeInvariant == Spec => [](TypeInv /\ LifeInv)
  BY InitTypeInv, InitLife, NextTypeInv, NextLife, PTL DEF Spec

\* However many threads launch, cancel and execute: a task function is called
\* at most once and its promise is satisfied at most once.
THEOREM RunsOnce == Spec => []ExecutedOnce
  BY LifeInvariant, LifeSafety, PTL

\* A task that reports Canceled was not run and will not be run, wherever it
\* was when the cancellation reached it.
THEOREM CancelWins == Spec => []CanceledNeverRuns
  BY LifeInvariant, LifeSafety, PTL

\* Whoever the promise releases finds the final flags.
THEOREM FlagsFirst == Spec => []FlagsBeforePromise
  BY LifeInvariant, LifeSafety, PTL

-----------------------------------------------------------------------------
\* What m_inflight counts.

EnqueueLabel == {"count", "push"}
IdleLabel == {"pop", "readInflight", "exited", "notify"}

\* A task in the queue waits at its own priority, at one place, and has been
\* claimed by Task::queued.
QueuedOnce ==
    /\ \A l \in Level : \A i \in DOMAIN queues[l] :
          PriorityOf[queues[l][i]] = l /\ task[queues[l][i]].queued
    /\ \A l \in Level : \A i, j \in DOMAIN queues[l] : queues[l][i] = queues[l][j] => i = j

\* A thread that won Task::queued and has not pushed yet is the only one.
ClaimedOnce ==
    /\ \A th \in Thread : pc[th] \in EnqueueLabel =>
          task[Head(todo[th])].queued /\ Head(todo[th]) \notin Queued
    /\ \A th, o \in Thread :
          pc[th] \in EnqueueLabel /\ pc[o] \in EnqueueLabel /\ Head(todo[th]) = Head(todo[o])
          => th = o

\* A worker without a share of m_inflight has no task, and the workers that
\* Initialize replaces have left.
HandsFree ==
    /\ \A w \in Worker : pc[w] \in IdleLabel => cur[w] = NoTask
    /\ stopPc = "terminated" => \A w \in Worker : pc[w] = "exited"

InflightInv == QueuedOnce /\ ClaimedOnce /\ HandsFree /\ IsFiniteSet(Queued) /\ InflightExact

\* The elements of a sequence with one more at its end, ...
LEMMA AppendAt ==
    ASSUME NEW S, NEW s \in Seq(S), NEW e \in S
    PROVE  /\ Len(s) \in Nat /\ DOMAIN s = 1 .. Len(s)
           /\ DOMAIN Append(s, e) = 1 .. Len(s) + 1
           /\ \A i \in 1 .. Len(s) : Append(s, e)[i] = s[i]
           /\ Append(s, e)[Len(s) + 1] = e
  OBVIOUS

\* ... and with its head dropped.
LEMMA TailAt ==
    ASSUME NEW S, NEW s \in Seq(S), s # <<>>
    PROVE  /\ Len(s) \in Nat \ {0} /\ DOMAIN s = 1 .. Len(s) /\ Head(s) = s[1]
           /\ DOMAIN Tail(s) = 1 .. Len(s) - 1
           /\ \A i \in 1 .. Len(s) - 1 : Tail(s)[i] = s[i + 1]
  OBVIOUS

\* What Push and PopLocked do to the set of queued tasks.
LEMMA PushQueued ==
    ASSUME QueueTypeOK, NEW t \in Task, Push(t)
    PROVE  /\ Queued' = Queued \union {t}
           /\ \A l \in Level : \A i \in DOMAIN queues'[l] :
                 \/ i \in DOMAIN queues[l] /\ queues'[l][i] = queues[l][i]
                 \/ i = Len(queues[l]) + 1 /\ l = PriorityOf[t] /\ queues'[l][i] = t
  <1>1. PriorityOf[t] \in Level /\ queues[PriorityOf[t]] \in Seq(Task)
    BY QueueAssumption DEF QueueTypeOK
  <1>2. queues' = [queues EXCEPT ![PriorityOf[t]] = Append(queues[PriorityOf[t]], t)]
    BY DEF Push
  <1>3. \A l \in Level : queues'[l] = IF l = PriorityOf[t] THEN Append(queues[l], t)
                                                          ELSE queues[l]
    BY <1>1, <1>2 DEF QueueTypeOK
  <1>4. ASSUME NEW l \in Level
        PROVE  /\ \A i \in DOMAIN queues'[l] :
                    \/ i \in DOMAIN queues[l] /\ queues'[l][i] = queues[l][i]
                    \/ i = Len(queues[l]) + 1 /\ l = PriorityOf[t] /\ queues'[l][i] = t
               /\ \A i \in DOMAIN queues[l] :
                    i \in DOMAIN queues'[l] /\ queues'[l][i] = queues[l][i]
    <2>1. CASE l = PriorityOf[t]
      <3>1. queues'[l] = Append(queues[l], t) /\ queues[l] \in Seq(Task)
        BY <1>1, <1>3, <2>1
      <3>2. QED
        BY <3>1, <2>1, AppendAt
    <2>2. CASE l # PriorityOf[t]
      BY <1>3, <2>2
    <2>3. QED
      BY <2>1, <2>2
  <1>5. Len(queues[PriorityOf[t]]) + 1 \in DOMAIN queues'[PriorityOf[t]]
        /\ queues'[PriorityOf[t]][Len(queues[PriorityOf[t]]) + 1] = t
    <2>1. queues'[PriorityOf[t]] = Append(queues[PriorityOf[t]], t)
      BY <1>1, <1>3
    <2>2. QED
      BY <1>1, <2>1, AppendAt
  <1>6. Queued' = Queued \union {t}
    <2>1. ASSUME NEW u PROVE u \in Queued' <=> u \in Queued \/ u = t
      <3>1. u \in Queued' => u \in Queued \/ u = t
        BY <1>4 DEF Queued
      <3>2. u \in Queued => u \in Queued'
        BY <1>4 DEF Queued
      <3>3. t \in Queued'
        BY <1>1, <1>5 DEF Queued
      <3>4. QED
        BY <3>1, <3>2, <3>3
    <2>2. QED
      BY <2>1
  <1>7. QED
    BY <1>4, <1>6

\* The task that is popped leaves the queue, the others move up.
LEMMA PopQueued ==
    ASSUME QueueTypeOK, QueuedOnce, NEW t, PopLocked(t)
    PROVE  /\ t \in Queued /\ Queued' = Queued \ {t}
           /\ \A l \in Level : \A i \in DOMAIN queues'[l] :
                 \/ i \in DOMAIN queues[l] /\ queues'[l][i] = queues[l][i]
                 \/ i \in Nat /\ i + 1 \in DOMAIN queues[l] /\ queues'[l] = Tail(queues[l])
                    /\ queues'[l][i] = queues[l][i + 1]
  <1>1. PICK l \in Level : l \in NonEmpty /\ TakeFront(l, t)
    BY DEF PopLocked, PopStarved, PopHighest, Highest, Starved
  <1>2. queues[l] \in Seq(Task) /\ queues[l] # <<>> /\ t = queues[l][1]
    BY <1>1 DEF QueueTypeOK, NonEmpty, TakeFront
  <1>3. queues' = [queues EXCEPT ![l] = Tail(queues[l])]
    BY <1>1 DEF TakeFront
  <1>4. queues'[l] = Tail(queues[l]) /\ \A m \in Level \ {l} : queues'[m] = queues[m]
    BY <1>3 DEF QueueTypeOK
  <1>5. /\ DOMAIN queues'[l] = 1 .. Len(queues[l]) - 1
        /\ DOMAIN queues[l] = 1 .. Len(queues[l]) /\ Len(queues[l]) \in Nat \ {0}
        /\ \A i \in 1 .. Len(queues[l]) - 1 : queues'[l][i] = queues[l][i + 1]
    BY <1>2, <1>4, TailAt
  <1>6. t \in Queued
    BY <1>2, <1>5 DEF Queued
  <1>7. Queued' = Queued \ {t}
    <2>1. ASSUME NEW u PROVE u \in Queued' <=> u \in Queued \ {t}
      <3>1. ASSUME u \in Queued' PROVE u \in Queued \ {t}
        <4>1. PICK m \in Level : \E i \in DOMAIN queues'[m] : queues'[m][i] = u
          BY <3>1 DEF Queued
        <4>2. CASE m = l
          BY <4>1, <4>2, <1>2, <1>5 DEF Queued, QueuedOnce
        <4>3. CASE m # l
          BY <4>1, <4>3, <1>2, <1>4, <1>5 DEF Queued, QueuedOnce
        <4>4. QED
          BY <4>2, <4>3
      <3>2. ASSUME u \in Queued \ {t} PROVE u \in Queued'
        <4>1. PICK m \in Level : \E i \in DOMAIN queues[m] : queues[m][i] = u
          BY <3>2 DEF Queued
        <4>2. PICK i \in DOMAIN queues[m] : queues[m][i] = u
          BY <4>1
        <4>3. CASE m = l
          <5>1. i \in 1 .. Len(queues[l]) /\ i # 1
            BY <4>2, <4>3, <1>2, <1>5, <3>2
          <5>2. i - 1 \in DOMAIN queues'[l] /\ queues'[l][i - 1] = u
            <6>1. Len(queues[l]) \in Nat
              BY <1>5
            <6>2. i - 1 \in 1 .. Len(queues[l]) - 1 /\ (i - 1) + 1 = i
              BY <5>1, <6>1
            <6>3. i - 1 \in DOMAIN queues'[l]
              BY <6>2, <1>5
            <6>4. queues'[l][i - 1] = queues[l][(i - 1) + 1]
              BY <6>2, <1>5
            <6>5. QED
              BY <6>2, <6>3, <6>4, <4>2, <4>3
          <5>3. QED
            BY <5>2 DEF Queued
        <4>4. CASE m # l
          BY <4>1, <4>4, <1>4 DEF Queued
        <4>5. QED
          BY <4>3, <4>4
      <3>3. QED
        BY <3>1, <3>2
    <2>2. QED
      BY <2>1
  <1>8. ASSUME NEW m \in Level, NEW i \in DOMAIN queues'[m]
        PROVE  \/ i \in DOMAIN queues[m] /\ queues'[m][i] = queues[m][i]
               \/ i \in Nat /\ i + 1 \in DOMAIN queues[m] /\ queues'[m] = Tail(queues[m])
                  /\ queues'[m][i] = queues[m][i + 1]
    <2>1. CASE m = l
      <3>1. i \in 1 .. Len(queues[l]) - 1
        BY <2>1, <1>5
      <3>2. i \in Nat /\ i + 1 \in 1 .. Len(queues[l])
        BY <3>1, <1>5
      <3>3. QED
        BY <3>1, <3>2, <2>1, <1>4, <1>5
    <2>2. CASE m # l
      BY <1>4, <2>2
    <2>3. QED
      BY <2>1, <2>2
  <1>9. QED
    BY <1>6, <1>7, <1>8

-----------------------------------------------------------------------------
\* The steps that leave the count alone.

\* The flags of a task, once set, stay set.
Kept(t) ==
    /\ task[t].queued => task'[t].queued
    /\ task[t].started => task'[t].started
    /\ task[t].finished => task'[t].finished
    /\ task[t].canceled => task'[t].canceled

\* A step of one thread that touches neither the queue nor the count, claims
\* no task to enqueue and keeps the task of its worker.
Steady(th) ==
    /\ Others(th) /\ queues' = queues /\ inflight' = inflight
    /\ stopPc' = stopPc \/ stopPc' # "terminated"
    /\ \A t \in Task : Kept(t)
    /\ pc[th] # "push" /\ pc'[th] \notin EnqueueLabel
    /\ th \in Worker => /\ cur'[th] = cur[th] /\ pc[th] # "exited"
                        /\ pc'[th] \in IdleLabel => pc[th] \in IdleLabel

\* The set of queued tasks changes only with the queue.
LEMMA QueuedFollows ==
    ASSUME queues' = queues
    PROVE  Queued' = Queued
  BY DEF Queued

\* Such a step keeps the count.
LEMMA SteadyInflight ==
    ASSUME TypeInv, InflightInv, NEW th \in Thread, Steady(th)
    PROVE  InflightInv'
  <1>1. /\ Queued' = Queued /\ Queued \subseteq Task
        /\ \A l \in Level : \A i \in DOMAIN queues[l] : queues[l][i] \in Task
    BY QueuedFollows DEF Steady, TypeInv, SharedInv, QueueInv, QueueTypeOK, Queued
  <1>2. QueuedOnce'
    BY <1>1 DEF InflightInv, QueuedOnce, Steady, Kept
  <1>3. ClaimedOnce'
    <2>1. ASSUME NEW o \in Thread, pc'[o] \in EnqueueLabel
          PROVE  /\ o # th /\ pc[o] \in EnqueueLabel
                 /\ todo'[o] = todo[o] /\ Head(todo[o]) \in Task
      BY <2>1, Held DEF Steady, Others, TypeInv, EnqueueLabel, HeadLabel
    <2>2. QED
      BY <1>1, <2>1 DEF InflightInv, ClaimedOnce, Steady, Kept
  <1>4. HandsFree'
    BY TaskAssumption DEF InflightInv, HandsFree, Steady, Others, Thread, IdleLabel
  <1>5. Running' = Running /\ Pushing' = Pushing
    <2>1. \A w \in Worker : cur'[w] = cur[w]
      BY DEF Steady, Others, Thread
    <2>2. \A o \in Thread : pc'[o] = "push" <=> pc[o] = "push"
      BY DEF Steady, Others, EnqueueLabel
    <2>3. QED
      BY <2>1, <2>2 DEF Running, Pushing
  <1>6. InflightExact'
    BY <1>1, <1>5 DEF InflightInv, InflightExact, Steady
  <1>7. IsFiniteSet(Queued)'
    BY <1>1 DEF InflightInv
  <1>8. QED
    BY <1>2, <1>3, <1>4, <1>6, <1>7 DEF InflightInv

\* What is written to a task never clears a flag.
LEMMA WritesKeep ==
    ASSUME task \in [Task -> TaskState], NEW t \in Task, NEW u,
           \/ task' = task
           \/ task' = [task EXCEPT ![u].pending = @ - 1]
           \/ task' = [task EXCEPT ![u].retrieved = TRUE]
           \/ task' = [task EXCEPT ![u].started = TRUE]
           \/ task' = [task EXCEPT ![u].canceled = TRUE]
           \/ task' = [task EXCEPT ![u].finished = TRUE]
           \/ task' = [task EXCEPT ![u].queued = TRUE]
           \/ task' = [task EXCEPT ![u].done = @ + 1]
           \/ \E n : task' = [task EXCEPT ![u].pending = n]
           \/ \E s : task' = [task EXCEPT ![u].dependents = s]
    PROVE  Kept(t)
  <1>1. task[t].queued => task'[t].queued
    BY DEF TaskState
  <1>2. task[t].started => task'[t].started
    BY DEF TaskState
  <1>3. task[t].finished => task'[t].finished
    BY DEF TaskState
  <1>4. task[t].canceled => task'[t].canceled
    BY DEF TaskState
  <1>5. QED
    BY <1>1, <1>2, <1>3, <1>4 DEF Kept

\* Calls into the system, ...
LEMMA ClientCallSteady ==
    ASSUME TypeInv, NEW c \in Client, ClientCall(c)
    PROVE  Steady(c)
  <1>1. c \in Thread /\ c \notin Worker /\ Others(c)
    BY TaskAssumption, QuietClient DEF Thread, Quiet
  <1>2. task \in [Task -> TaskState]
    BY DEF TypeInv, SharedInv
  <1>3. /\ queues' = queues /\ inflight' = inflight /\ stopPc' = stopPc
        /\ pc[c] = "idle" /\ pc'[c] \notin EnqueueLabel
    BY <1>1 DEF TypeInv, ThreadInv, ClientCall, LaunchBegin, CancelBegin, WaitBegin,
                ParallelForBegin, MayCall, Goto, EnqueueLabel, queueVars
  <1>4. ASSUME NEW t \in Task
        PROVE  Kept(t)
    <2>1. ASSUME NEW u, NEW ps, LaunchBegin(c, u, ps)
          PROVE  Kept(t)
      BY <1>2, <2>1, WritesKeep DEF LaunchBegin
    <2>2. ASSUME NEW u, CancelBegin(c, u) \/ WaitBegin(c, u)
          PROVE  Kept(t)
      BY <1>2, <2>2, WritesKeep DEF CancelBegin, WaitBegin
    <2>3. ASSUME NEW u, NEW ps, ParallelForBegin(c, u, ps)
          PROVE  Kept(t)
      BY <1>2, <2>3 DEF ParallelForBegin, TaskState, Kept
    <2>4. QED
      BY <2>1, <2>2, <2>3 DEF ClientCall
  <1>5. QED
    BY <1>1, <1>3, <1>4 DEF Steady

\* ... what clients do in Launch, Cancel and Wait, ...
LEMMA ClientSteady ==
    ASSUME TypeInv, NEW c \in Client,
           \/ ExamineCanceled(c) \/ ExamineFinished(c) \/ TryAddDependent(c) \/ AddFailed(c)
           \/ DecideCancel(c) \/ DecideEnqueue(c) \/ EnqueueReturn(c)
           \/ CancelCheck(c) \/ CancelCas(c) \/ StoreCanceled(c) \/ StoreFinished(c)
           \/ SetDone(c) \/ CancelDependents(c) \/ CancelReturn(c) \/ WaitReturn(c)
    PROVE  Steady(c)
  <1>1. c \in Thread /\ c \notin Worker
    BY TaskAssumption DEF Thread
  <1>2. task \in [Task -> TaskState]
    BY DEF TypeInv, SharedInv
  <1>3. Others(c)
    BY <1>1
       DEF TypeInv, ThreadInv, ExamineCanceled, ExamineFinished, TryAddDependent, AddFailed,
           Discount, DecideCancel, DecideEnqueue, EnqueueReturn, CancelCheck, CancelCas,
           StoreCanceled, StoreFinished, SetDone, CancelDependents, CancelReturn, WaitReturn,
           Return, Goto, Others
  <1>4. /\ queues' = queues /\ inflight' = inflight /\ stopPc' = stopPc
        /\ pc[c] # "push" /\ pc'[c] \notin EnqueueLabel
    BY <1>1
       DEF TypeInv, ThreadInv, ExamineCanceled, ExamineFinished, TryAddDependent, AddFailed,
           Discount, DecideCancel, DecideEnqueue, EnqueueReturn, CancelCheck, CancelCas,
           StoreCanceled, StoreFinished, SetDone, CancelDependents, CancelReturn, WaitReturn,
           Return, Goto, EnqueueLabel, queueVars
  <1>5. ASSUME NEW t \in Task
        PROVE  Kept(t)
    <2>1. CASE ExamineCanceled(c) \/ ExamineFinished(c) \/ AddFailed(c)
      BY <1>2, <2>1, WritesKeep DEF ExamineCanceled, ExamineFinished, AddFailed, Discount
    <2>2. CASE TryAddDependent(c)
      BY <1>2, <2>2, WritesKeep DEF TryAddDependent
    <2>3. CASE CancelDependents(c)
      BY <1>2, <2>3, WritesKeep DEF CancelDependents
    <2>4. CASE CancelCas(c) \/ StoreCanceled(c) \/ StoreFinished(c) \/ SetDone(c)
      BY <1>2, <2>4, WritesKeep DEF CancelCas, StoreCanceled, StoreFinished, SetDone
    <2>5. CASE \/ DecideCancel(c) \/ DecideEnqueue(c) \/ EnqueueReturn(c) \/ CancelCheck(c)
               \/ CancelReturn(c) \/ WaitReturn(c)
      BY <2>5 DEF Kept, DecideCancel, DecideEnqueue, EnqueueReturn, CancelCheck, CancelReturn,
                        WaitReturn
    <2>6. QED
      BY <2>1, <2>2, <2>3, <2>4, <2>5
  <1>6. QED
    BY <1>1, <1>3, <1>4, <1>5 DEF Steady

\* ... what workers do between a pop and OnTaskFinished, ...
LEMMA WorkerSteady ==
    ASSUME TypeInv, NEW w \in Worker,
           \/ PopFails(w) \/ ReadInflight(w)
           \/ RunCas(w) \/ CallFunc(w) \/ RunFinished(w) \/ RunDone(w)
           \/ CollectDependents(w) \/ SkipOrDecrement(w) \/ DecrementPending(w)
           \/ RecheckFinished(w) \/ ScheduleReturn(w) \/ NotifyShutdown(w)
    PROVE  Steady(w)
  <1>1. w \in Thread
    BY DEF Thread
  <1>2. task \in [Task -> TaskState]
    BY DEF TypeInv, SharedInv
  <1>3. Others(w) /\ cur' = cur
    BY <1>1
       DEF TypeInv, ThreadInv, PopFails, ReadInflight, RunCas, CallFunc, RunFinished, RunDone,
           CollectDependents, SkipOrDecrement, DecrementPending, RecheckFinished,
           ScheduleReturn, NotifyShutdown, Goto, Others
  <1>4. /\ queues' = queues /\ inflight' = inflight
        /\ stopPc' = stopPc \/ stopPc' # "terminated"
        /\ pc[w] \notin {"push", "exited"} /\ pc'[w] \notin EnqueueLabel
        /\ pc'[w] \in IdleLabel => pc[w] \in IdleLabel
    BY <1>1
       DEF TypeInv, ThreadInv, PopFails, ReadInflight, RunCas, CallFunc, RunFinished, RunDone,
           CollectDependents, SkipOrDecrement, DecrementPending, RecheckFinished,
           ScheduleReturn, NotifyShutdown, Goto, EnqueueLabel, IdleLabel, queueVars
  <1>5. ASSUME NEW t \in Task
        PROVE  Kept(t)
    <2>1. CASE PopFails(w) \/ ReadInflight(w) \/ CallFunc(w) \/ SkipOrDecrement(w)
               \/ RecheckFinished(w) \/ ScheduleReturn(w) \/ NotifyShutdown(w)
      BY <2>1 DEF Kept, PopFails, ReadInflight, CallFunc, SkipOrDecrement, RecheckFinished,
                        ScheduleReturn, NotifyShutdown
    <2>2. CASE RunCas(w) \/ RunFinished(w) \/ RunDone(w)
      BY <1>2, <2>2, WritesKeep DEF RunCas, RunFinished, RunDone
    <2>3. CASE CollectDependents(w)
      BY <1>2, <2>3, WritesKeep DEF CollectDependents
    <2>4. CASE DecrementPending(w)
      BY <1>2, <2>4, WritesKeep DEF DecrementPending
    <2>5. QED
      BY <2>1, <2>2, <2>3, <2>4
  <1>6. QED
    BY <1>1, <1>3, <1>4, <1>5 DEF Steady

\* ... and an Enqueue that finds the task claimed.
LEMMA EnqueueSkipSteady ==
    ASSUME TypeInv, NEW th \in Thread, EnqueueCas(th), task[Head(todo[th])].queued
    PROVE  Steady(th)
  <1>1. Others(th) /\ cur' = cur
    BY DEF TypeInv, ThreadInv, EnqueueCas, Goto, Others
  <1>2. /\ queues' = queues /\ inflight' = inflight /\ stopPc' = stopPc /\ task' = task
        /\ pc[th] = "enqueue" /\ pc'[th] \in {"enqueue", "schedule"}
    BY DEF TypeInv, ThreadInv, EnqueueCas, Goto, Loop, queueVars
  <1>3. QED
    BY <1>1, <1>2 DEF Steady, Kept, EnqueueLabel, IdleLabel

-----------------------------------------------------------------------------
\* The steps that count.

\* Counting one element more, ...
LEMMA Grow ==
    ASSUME NEW S, NEW x, IsFiniteSet(S), x \notin S
    PROVE  IsFiniteSet(S \union {x}) /\ Cardinality(S \union {x}) = Cardinality(S) + 1
           /\ Cardinality(S) \in Nat
  BY FS_AddElement, FS_CardinalityType

\* ... and one less.
LEMMA Shrink ==
    ASSUME NEW S, NEW x, IsFiniteSet(S), x \in S
    PROVE  IsFiniteSet(S \ {x}) /\ Cardinality(S \ {x}) = Cardinality(S) - 1
           /\ Cardinality(S) \in Nat
  BY FS_RemoveElement, FS_CardinalityType

\* There are finitely many threads.
LEMMA CountsAreFinite ==
    /\ IsFiniteSet(Running) /\ IsFiniteSet(Pushing)
    /\ Cardinality(Running) \in Nat /\ Cardinality(Pushing) \in Nat
  <1>1. IsFiniteSet(Thread)
    BY ThreadsAreFinite, FS_Union DEF Thread
  <1>2. Running \subseteq Worker /\ Pushing \subseteq Thread
    BY DEF Running, Pushing
  <1>3. IsFiniteSet(Running) /\ IsFiniteSet(Pushing)
    BY <1>1, <1>2, ThreadsAreFinite, FS_Subset
  <1>4. QED
    BY <1>3, FS_CardinalityType

\* The winner of Task::queued: the task is not in the queue, and nobody else
\* is about to push it.
LEMMA EnqueueWinInflight ==
    ASSUME TypeInv, InflightInv, NEW th \in Thread, EnqueueCas(th),
           ~task[Head(todo[th])].queued
    PROVE  InflightInv'
  <1> DEFINE h == Head(todo[th])
  <1>1. /\ Others(th) /\ h \in Task /\ pc[th] = "enqueue" /\ pc'[th] = "count"
        /\ cur' = cur /\ todo' = todo /\ queues' = queues /\ inflight' = inflight
        /\ stopPc' = stopPc
    BY Held DEF TypeInv, ThreadInv, EnqueueCas, Goto, Others, queueVars, ExamineLabel
  <1>2. task'[h].queued /\ \A t \in Task : task[t].queued => task'[t].queued
    <2>1. task' = [task EXCEPT ![h].queued = TRUE] /\ task \in [Task -> TaskState]
      BY DEF EnqueueCas, TypeInv, SharedInv
    <2>2. QED
      BY <1>1, <2>1 DEF TaskState
  <1>3. /\ Queued' = Queued
        /\ \A l \in Level : \A i \in DOMAIN queues[l] : queues[l][i] \in Task
    BY <1>1, QueuedFollows DEF TypeInv, SharedInv, QueueInv, QueueTypeOK
  <1>4. h \notin Queued
    BY <1>3 DEF InflightInv, QueuedOnce, Queued
  <1>5. QueuedOnce'
    BY <1>1, <1>2, <1>3 DEF InflightInv, QueuedOnce
  <1>6. ClaimedOnce'
    <2>1. ASSUME NEW o \in Thread, pc'[o] \in EnqueueLabel
          PROVE  \/ o = th
                 \/ pc[o] \in EnqueueLabel /\ Head(todo[o]) \in Task /\ Head(todo[o]) # h
      BY <1>1, <2>1, Held DEF InflightInv, ClaimedOnce, Others, TypeInv, EnqueueLabel, HeadLabel
    <2>2. QED
      BY <1>1, <1>2, <1>3, <1>4, <2>1 DEF InflightInv, ClaimedOnce
  <1>7. HandsFree'
    BY <1>1 DEF InflightInv, HandsFree, Others, Thread, IdleLabel
  <1>8. Running' = Running /\ Pushing' = Pushing
    BY <1>1 DEF Running, Pushing, Others
  <1>9. QED
    BY <1>1, <1>3, <1>5, <1>6, <1>7, <1>8 DEF InflightInv, InflightExact

\* The count goes up before the task is visible in the queue.
LEMMA CountInflightInv ==
    ASSUME TypeInv, InflightInv, NEW th \in Thread, CountInflight(th)
    PROVE  InflightInv'
  <1>1. /\ Others(th) /\ pc[th] = "count" /\ pc'[th] = "push"
        /\ cur' = cur /\ todo' = todo /\ queues' = queues /\ inflight' = inflight + 1
        /\ stopPc' = stopPc /\ task' = task
    BY DEF TypeInv, ThreadInv, CountInflight, Goto, Others, queueVars
  <1>2. Queued' = Queued
    BY <1>1, QueuedFollows
  <1>3. QueuedOnce'
    BY <1>1 DEF InflightInv, QueuedOnce
  <1>4. ClaimedOnce'
    <2>1. \A o \in Thread : pc'[o] \in EnqueueLabel => pc[o] \in EnqueueLabel
      BY <1>1 DEF Others, EnqueueLabel
    <2>2. QED
      BY <1>1, <1>2, <2>1 DEF InflightInv, ClaimedOnce
  <1>5. HandsFree'
    BY <1>1 DEF InflightInv, HandsFree, Others, Thread, IdleLabel
  <1>6. Running' = Running /\ Pushing' = Pushing \union {th} /\ th \notin Pushing
    BY <1>1 DEF Running, Pushing, Others
  <1>7. InflightExact'
    <2>1. Cardinality(Pushing') = Cardinality(Pushing) + 1
      BY <1>6, CountsAreFinite, Grow
    <2>2. Cardinality(Queued) \in Nat
      BY FS_CardinalityType DEF InflightInv
    <2>3. QED
      BY <1>1, <1>2, <1>6, <2>1, <2>2, CountsAreFinite DEF InflightInv, InflightExact
  <1>8. QED
    BY <1>2, <1>3, <1>4, <1>5, <1>7 DEF InflightInv

\* The push hands the share of the pushing thread over to the queue.
LEMMA PushTaskInflight ==
    ASSUME TypeInv, InflightInv, NEW th \in Thread, PushTask(th)
    PROVE  InflightInv'
  <1> DEFINE h == Head(todo[th])
  <1>1. /\ Others(th) /\ pc[th] = "push" /\ pc'[th] \in {"enqueue", "schedule"}
        /\ cur' = cur /\ inflight' = inflight /\ stopPc' = stopPc /\ task' = task
        /\ h \in Task /\ Push(h)
    BY Held DEF TypeInv, ThreadInv, PushTask, Goto, Loop, Others, HeadLabel
  <1>2. QueueTypeOK /\ QueueTypeOK'
    BY NextTypeInv, <1>1, PushInv DEF TypeInv, SharedInv, QueueInv
  <1>3. task[h].queued /\ h \notin Queued
    BY <1>1 DEF InflightInv, ClaimedOnce, EnqueueLabel
  <1>4. /\ Queued' = Queued \union {h}
        /\ \A l \in Level : \A i \in DOMAIN queues'[l] :
              \/ i \in DOMAIN queues[l] /\ queues'[l][i] = queues[l][i]
              \/ i = Len(queues[l]) + 1 /\ l = PriorityOf[h] /\ queues'[l][i] = h
    BY <1>1, <1>2, PushQueued
  <1>5. QueuedOnce'
    <2>1. ASSUME NEW l \in Level, NEW i \in DOMAIN queues'[l]
          PROVE  PriorityOf[queues'[l][i]] = l /\ task[queues'[l][i]].queued
      BY <1>3, <1>4 DEF InflightInv, QueuedOnce
    <2>2. ASSUME NEW l \in Level, NEW i \in DOMAIN queues'[l], NEW j \in DOMAIN queues'[l],
                 queues'[l][i] = queues'[l][j]
          PROVE  i = j
      <3>1. \A k \in DOMAIN queues[l] : queues[l][k] # h
        BY <1>3 DEF Queued
      <3>2. QED
        BY <1>4, <2>2, <3>1 DEF InflightInv, QueuedOnce
    <2>3. QED
      BY <1>1, <2>1, <2>2 DEF QueuedOnce
  <1>6. ClaimedOnce'
    <2>1. ASSUME NEW o \in Thread, pc'[o] \in EnqueueLabel
          PROVE  /\ o # th /\ pc[o] \in EnqueueLabel /\ todo'[o] = todo[o]
                 /\ Head(todo[o]) # h
      BY <1>1, <2>1 DEF InflightInv, ClaimedOnce, Others, EnqueueLabel
    <2>2. QED
      BY <1>1, <1>4, <2>1 DEF InflightInv, ClaimedOnce
  <1>7. HandsFree'
    BY <1>1 DEF InflightInv, HandsFree, Others, Thread, IdleLabel
  <1>8. Running' = Running /\ Pushing' = Pushing \ {th} /\ th \in Pushing
    BY <1>1 DEF Running, Pushing, Others
  <1>9. InflightExact' /\ IsFiniteSet(Queued)'
    <2>1. Cardinality(Pushing') = Cardinality(Pushing) - 1
      BY <1>8, CountsAreFinite, Shrink
    <2>2. /\ IsFiniteSet(Queued') /\ Cardinality(Queued) \in Nat
          /\ Cardinality(Queued') = Cardinality(Queued) + 1
      BY <1>3, <1>4, Grow DEF InflightInv
    <2>3. QED
      BY <1>1, <1>8, <2>1, <2>2, CountsAreFinite DEF InflightInv, InflightExact
  <1>10. QED
    BY <1>5, <1>6, <1>7, <1>9 DEF InflightInv

\* The pop hands the share of the queue over to the worker, ...
LEMMA PopTaskInflight ==
    ASSUME TypeInv, InflightInv, NEW w \in Worker, PopTask(w)
    PROVE  InflightInv'
  <1>1. PICK t \in Queued : PopLocked(t) /\ cur' = [cur EXCEPT ![w] = t]
    BY DEF PopTask
  <1>2. w \in Thread
    BY DEF Thread
  <1>3. /\ Others(w) /\ pc[w] = "pop" /\ pc'[w] = "run" /\ cur'[w] = t
        /\ inflight' = inflight /\ stopPc' = stopPc /\ task' = task /\ todo' = todo
    BY <1>1, <1>2 DEF TypeInv, ThreadInv, PopTask, Goto, Others
  <1>4. QueueTypeOK /\ t \in Task
    BY <1>1 DEF TypeInv, SharedInv, QueueInv, QueueTypeOK, Queued
  <1>5. /\ Queued' = Queued \ {t}
        /\ \A l \in Level : \A i \in DOMAIN queues'[l] :
              \/ i \in DOMAIN queues[l] /\ queues'[l][i] = queues[l][i]
              \/ i \in Nat /\ i + 1 \in DOMAIN queues[l] /\ queues'[l] = Tail(queues[l])
                 /\ queues'[l][i] = queues[l][i + 1]
    BY <1>1, <1>4, PopQueued DEF InflightInv
  <1>6. QueuedOnce'
    <2>1. ASSUME NEW l \in Level, NEW i \in DOMAIN queues'[l]
          PROVE  PriorityOf[queues'[l][i]] = l /\ task[queues'[l][i]].queued
      BY <1>5 DEF InflightInv, QueuedOnce
    <2>2. ASSUME NEW l \in Level, NEW i \in DOMAIN queues'[l], NEW j \in DOMAIN queues'[l],
                 queues'[l][i] = queues'[l][j]
          PROVE  i = j
      <3>1. queues'[l] = queues[l] \/ (queues[l] # <<>> /\ queues'[l] = Tail(queues[l]))
        BY <1>1, <1>4 DEF PopLocked, PopStarved, PopHighest, Highest, Starved, NonEmpty,
                          TakeFront, QueueTypeOK
      <3>2. CASE queues'[l] = queues[l]
        BY <2>2, <3>2 DEF InflightInv, QueuedOnce
      <3>3. CASE queues[l] # <<>> /\ queues'[l] = Tail(queues[l])
        <4>1. queues[l] \in Seq(Task)
          BY <1>4 DEF QueueTypeOK
        <4>2. /\ i \in Nat /\ j \in Nat /\ i + 1 \in DOMAIN queues[l]
              /\ j + 1 \in DOMAIN queues[l]
              /\ queues[l][i + 1] = queues[l][j + 1]
          BY <2>2, <3>3, <4>1, TailAt
        <4>3. i + 1 = j + 1
          BY <4>2 DEF InflightInv, QueuedOnce
        <4>4. QED
          BY <4>2, <4>3
      <3>4. QED
        BY <3>1, <3>2, <3>3
    <2>3. QED
      BY <1>3, <2>1, <2>2 DEF QueuedOnce
  <1>7. ClaimedOnce'
    <2>1. \A o \in Thread : pc'[o] \in EnqueueLabel => pc[o] \in EnqueueLabel
      BY <1>3 DEF Others, EnqueueLabel
    <2>2. QED
      BY <1>3, <1>5, <2>1 DEF InflightInv, ClaimedOnce
  <1>8. cur[w] = NoTask /\ stopPc # "terminated"
    BY <1>3 DEF InflightInv, HandsFree, IdleLabel
  <1>9. HandsFree'
    BY <1>3, <1>8 DEF InflightInv, HandsFree, Others, Thread, IdleLabel
  <1>10. Running' = Running \union {w} /\ w \notin Running /\ Pushing' = Pushing
    BY <1>2, <1>3, <1>4, <1>8, TaskAssumption DEF Running, Pushing, Others, Thread
  <1>11. InflightExact' /\ IsFiniteSet(Queued)'
    <2>1. Cardinality(Running') = Cardinality(Running) + 1
      BY <1>10, CountsAreFinite, Grow
    <2>2. /\ IsFiniteSet(Queued') /\ Cardinality(Queued) \in Nat
          /\ Cardinality(Queued') = Cardinality(Queued) - 1
      BY <1>1, <1>5, Shrink DEF InflightInv
    <2>3. QED
      BY <1>3, <1>10, <2>1, <2>2, CountsAreFinite DEF InflightInv, InflightExact
  <1>12. QED
    BY <1>6, <1>7, <1>9, <1>11 DEF InflightInv

\* ... which gives it back when it is through with the task.
LEMMA TaskFinishedInflight ==
    ASSUME TypeInv, InflightInv, NEW w \in Worker, TaskFinished(w)
    PROVE  InflightInv'
  <1>1. w \in Thread
    BY DEF Thread
  <1>2. /\ Others(w) /\ pc[w] = "taskFinished" /\ pc'[w] \in {"notify", "pop"}
        /\ cur'[w] = NoTask /\ cur[w] \in Task
        /\ inflight' = inflight - 1 /\ stopPc' = stopPc /\ task' = task /\ todo' = todo
        /\ queues' = queues
    BY <1>1, Held DEF TypeInv, ThreadInv, TaskFinished, Goto, Others, TaskLabel, queueVars
  <1>3. Queued' = Queued
    BY <1>2, QueuedFollows
  <1>4. QueuedOnce'
    BY <1>2 DEF InflightInv, QueuedOnce
  <1>5. ClaimedOnce'
    <2>1. \A o \in Thread : pc'[o] \in EnqueueLabel => pc[o] \in EnqueueLabel
      BY <1>2 DEF Others, EnqueueLabel
    <2>2. QED
      BY <1>2, <1>3, <2>1 DEF InflightInv, ClaimedOnce
  <1>6. HandsFree'
    BY <1>2 DEF InflightInv, HandsFree, Others, Thread, IdleLabel
  <1>7. Running' = Running \ {w} /\ w \in Running /\ Pushing' = Pushing
    BY <1>1, <1>2, TaskAssumption DEF Running, Pushing, Others, Thread
  <1>8. InflightExact'
    <2>1. Cardinality(Running') = Cardinality(Running) - 1
      BY <1>7, CountsAreFinite, Shrink
    <2>2. Cardinality(Queued) \in Nat
      BY FS_CardinalityType DEF InflightInv
    <2>3. QED
      BY <1>2, <1>3, <1>7, <2>1, <2>2, CountsAreFinite DEF InflightInv, InflightExact
  <1>9. QED
    BY <1>3, <1>4, <1>5, <1>6, <1>8 DEF InflightInv

\* Terminate counts nothing, and the workers that Initialize starts begin
\* without a task.
LEMMA OwnerInflight ==
    ASSUME TypeInv, InflightInv,
           TerminateBegin \/ OwnerStep \/ ShutdownSpurious \/ Reinitialize
    PROVE  InflightInv'
  <1>1. queues' = queues /\ inflight' = inflight /\ task' = task /\ cur' = cur /\ todo' = todo
    BY DEF TerminateBegin, OwnerStep, ShutdownPredicate, ShutdownSleep, JoinWorkers,
           ShutdownSpurious, Reinitialize, queueVars, localVars
  <1>2. \A th \in Thread : pc'[th] = pc[th] \/ (pc[th] = "exited" /\ pc'[th] = "pop")
    <2>1. CASE Reinitialize
      <3>1. \A w \in Worker : pc[w] = "exited"
        BY <2>1 DEF Reinitialize, InflightInv, HandsFree
      <3>2. QED
        BY <2>1, <3>1 DEF Reinitialize
    <2>2. CASE TerminateBegin \/ OwnerStep \/ ShutdownSpurious
      BY <2>2 DEF TerminateBegin, OwnerStep, ShutdownPredicate, ShutdownSleep, JoinWorkers,
                  ShutdownSpurious, localVars
    <2>3. QED
      BY <2>1, <2>2
  <1>3. stopPc' = "terminated" => \A w \in Worker : pc'[w] = "exited"
    BY DEF TerminateBegin, OwnerStep, ShutdownPredicate, ShutdownSleep, JoinWorkers,
           ShutdownSpurious, Reinitialize, localVars
  <1>4. Queued' = Queued /\ Running' = Running /\ Pushing' = Pushing
    BY <1>1, <1>2, QueuedFollows DEF Running, Pushing
  <1>5. QueuedOnce' /\ ClaimedOnce'
    <2>1. \A th \in Thread : pc'[th] \in EnqueueLabel => pc[th] \in EnqueueLabel
      BY <1>2 DEF EnqueueLabel
    <2>2. QED
      BY <1>1, <1>4, <2>1 DEF InflightInv, QueuedOnce, ClaimedOnce
  <1>6. HandsFree'
    BY <1>1, <1>2, <1>3 DEF InflightInv, HandsFree, IdleLabel, Thread
  <1>7. QED
    BY <1>1, <1>4, <1>5, <1>6 DEF InflightInv, InflightExact

\* The invariant holds initially, ...
LEMMA InitInflight == Init => InflightInv
  <1> SUFFICES ASSUME Init PROVE InflightInv
    OBVIOUS
  <1>1. /\ \A th \in Thread : cur[th] = NoTask /\ pc[th] \in {"idle", "pop"}
        /\ inflight = 0 /\ stopPc = "running"
    BY DEF Init
  <1>2. \A l \in Level : queues[l] = <<>>
    BY DEF Init, QueueInit
  <1>3. Queued = {} /\ Running = {} /\ Pushing = {}
    BY <1>1, <1>2 DEF Queued, Running, Pushing, Thread
  <1>4. QueuedOnce /\ ClaimedOnce /\ HandsFree
    <2>1. QueuedOnce
      BY <1>2 DEF QueuedOnce
    <2>2. ClaimedOnce
      BY <1>1 DEF ClaimedOnce, EnqueueLabel
    <2>3. HandsFree
      BY <1>1 DEF HandsFree, Thread
    <2>4. QED
      BY <2>1, <2>2, <2>3
  <1>5. QED
    BY <1>1, <1>3, <1>4, FS_EmptySet DEF InflightInv, InflightExact

\* ... and every step keeps it.
LEMMA NextInflight == TypeInv /\ InflightInv /\ [Next]_taskVars => InflightInv'
  <1> SUFFICES ASSUME TypeInv, InflightInv, [Next]_taskVars PROVE InflightInv'
    OBVIOUS
  <1>1. ASSUME NEW th \in Thread, EnqueueCas(th) \/ CountInflight(th) \/ PushTask(th)
        PROVE  InflightInv'
    BY <1>1, EnqueueSkipSteady, SteadyInflight, EnqueueWinInflight, CountInflightInv,
       PushTaskInflight
  <1>2. ASSUME NEW c \in Client, ClientCall(c) \/ ClientStep(c)
        PROVE  InflightInv'
    <2>1. c \in Thread
      BY DEF Thread
    <2>2. QED
      BY <1>1, <1>2, <2>1, ClientCallSteady, ClientSteady, SteadyInflight DEF ClientStep
  <1>3. ASSUME NEW w \in Worker, WorkerStep(w)
        PROVE  InflightInv'
    <2>1. w \in Thread
      BY DEF Thread
    <2>2. QED
      BY <1>1, <1>3, <2>1, WorkerSteady, SteadyInflight, PopTaskInflight, TaskFinishedInflight
         DEF WorkerStep
  <1>4. CASE UNCHANGED taskVars
    <2>1. /\ queues' = queues /\ pc' = pc /\ cur' = cur /\ todo' = todo /\ task' = task
          /\ inflight' = inflight /\ stopPc' = stopPc
      BY <1>4 DEF taskVars
    <2>2. QED
      BY <2>1 DEF InflightInv, QueuedOnce, ClaimedOnce, HandsFree, InflightExact, Running,
                  Pushing, Queued
  <1>5. QED
    BY <1>2, <1>3, <1>4, OwnerInflight DEF Next

\* The invariants of this module, together.
LEMMA InflightInvariant == Spec => [](TypeInv /\ LifeInv /\ InflightInv)
  BY InitTypeInv, InitLife, InitInflight, NextTypeInv, NextLife, NextInflight, PTL DEF Spec

\* However launches, pushes, pops and finishes interleave: m_inflight is the
\* number of tasks that are queued, about to be pushed or in a worker, so
\* Terminate never sees 0 while one of them is there.
THEOREM InflightCounted == Spec => []InflightExact
  <1>1. InflightInv => InflightExact
    BY DEF InflightInv
  <1>2. QED
    BY <1>1, InflightInvariant, PTL

-----------------------------------------------------------------------------
\* TaskSystem implements TaskGraph.  Most of it is the argument that a task
\* starts only when the tasks it waits for are over: Task::pending never falls
\* below the number of notices still to come.

Ready(t) == \A p \in WaitsFor(t) : Over(p)

\* A thread works on tasks that were constructed, ...
Known(th) ==
    cur[th] \in created \union {NoTask} /\ ToSet(todo[th]) \subseteq created \union {NoTask}

\* ... remembers what it saw, ...
Seen(th) ==
    /\ pc[th] = "addFailed" => task[Head(todo[th])].finished
    /\ pc[th] = "collect" => task[cur[th]].finished
    /\ pc[th] = "cancelDependents" =>
          task[Head(todo[th])].canceled /\ task[Head(todo[th])].finished

\* ... and enqueues and runs tasks that may start.
Cleared(th) ==
    /\ th \in Client /\ pc[th] \in {"enqueue", "count", "push"} =>
          \A t \in ToSet(todo[th]) : Ready(t)
    /\ th \in Worker /\ pc[th] \in {"recheck", "enqueue"} =>
          todo[th] # <<>> /\ Ready(Head(todo[th]))
    /\ th \in Worker /\ cur[th] # NoTask => Ready(cur[th])

Local(th) == Known(th) /\ Seen(th) /\ Cleared(th)

CreatedInv ==
    /\ handles \subseteq created
    /\ \A t \in created :
          WaitsFor(t) \subseteq created /\ ToSet(task[t].dependents) \subseteq created
    /\ \A t \in Task \ created : prereqs[t] = <<>> /\ task[t] = NewTask
    /\ Queued \subseteq created

\* Nobody but the owner of a task stores its finished flag.
FreshLabel == {"func", "runFinished", "storeCanceled", "storeFinished"}

FlagInv ==
    /\ \A t \in Task : task[t].finished => task[t].started
    /\ \A th \in Thread, t \in Task :
          Owns(th, t) /\ pc[th] \in FreshLabel => ~task[t].finished

\* The notices a task t can still get.  One is listed for each place t has in
\* the dependents of a task p; one is held by the client that launches t for
\* each prerequisite it has not seen, and by a worker for each place t has in
\* the dependents it took and has not walked.  A worker's list is walked from
\* its head; its places are counted from its end, so they keep their numbers.
Left(th) ==
    IF pc[th] \in ExamineLabel \union {"schedule", "decrement"} THEN Len(todo[th])
    ELSE IF th \in Worker /\ pc[th] \in {"recheck", "enqueue", "count", "push"}
    THEN Len(todo[th]) - 1
    ELSE 0

Debtor(th, k) == IF th \in Client THEN cur[th] ELSE todo[th][Len(todo[th]) + 1 - k]

Listed(p, i, t) == i \in DOMAIN task[p].dependents /\ task[p].dependents[i] = t
Owing(th, k, t) == k \in 1 .. Left(th) /\ Debtor(th, k) = t

ListedNotices(p, t) ==
    {<<"listed", p, i>> : i \in {j \in DOMAIN task[p].dependents : Listed(p, j, t)}}
HeldNotices(th, t) ==
    {<<"held", th, k>> : k \in {j \in 1 .. Left(th) : Owing(th, j, t)}}

AllListed(t) == UNION {ListedNotices(p, t) : p \in Task}
AllHeld(t) == UNION {HeldNotices(th, t) : th \in Thread}
Owed(t) == AllListed(t) \union AllHeld(t)

\* m_pending counts at least the notices to come.
Paid(t) == IsFiniteSet(Owed(t)) /\ Cardinality(Owed(t)) <= task[t].pending

DebtInv == \A t \in Task : Paid(t)

\* A prerequisite that is not over is one the launching client has not seen
\* yet, or it has t among its dependents.
Awaits(t, p) ==
    \/ \E c \in Client : pc[c] \in ExamineLabel /\ cur[c] = t /\ p \in ToSet(todo[c])
    \/ t \in ToSet(task[p].dependents)

WaitInv == \A t \in created : \A p \in WaitsFor(t) : Over(p) \/ Awaits(t, p)

QueuedReady == \A t \in Task : task[t].queued => Ready(t)

GraphInv ==
    /\ CreatedInv /\ FlagInv /\ DebtInv /\ WaitInv /\ QueuedReady
    /\ \A th \in Thread : Local(th)

-----------------------------------------------------------------------------
\* Sequences.

\* The elements of a list are its head and those of its tail.
LEMMA TailSet ==
    ASSUME NEW S, NEW s \in Seq(S), s # <<>>
    PROVE  /\ ToSet(s) = {Head(s)} \union ToSet(Tail(s))
           /\ Head(s) \in ToSet(s) /\ ToSet(Tail(s)) \subseteq ToSet(s)
  <1>1. /\ Len(s) \in Nat \ {0} /\ DOMAIN s = 1 .. Len(s) /\ Head(s) = s[1]
        /\ DOMAIN Tail(s) = 1 .. Len(s) - 1
        /\ \A i \in 1 .. Len(s) - 1 : Tail(s)[i] = s[i + 1]
    BY TailAt
  <1>2. Head(s) \in ToSet(s)
    BY <1>1 DEF ToSet
  <1>3. ToSet(Tail(s)) \subseteq ToSet(s)
    BY <1>1 DEF ToSet
  <1>4. ASSUME NEW i \in DOMAIN s
        PROVE  s[i] = Head(s) \/ s[i] \in ToSet(Tail(s))
    <2>1. CASE i = 1
      BY <1>1, <2>1
    <2>2. CASE i # 1
      <3>1. i - 1 \in 1 .. Len(s) - 1 /\ Tail(s)[i - 1] = s[i]
        BY <1>1, <2>2
      <3>2. QED
        BY <1>1, <3>1 DEF ToSet
    <2>3. QED
      BY <2>1, <2>2
  <1>5. QED
    BY <1>2, <1>3, <1>4 DEF ToSet

\* The elements of the lists of one task and of none.
LEMMA OneSet == \A x : ToSet(<<x>>) = {x} /\ ToSet(<<>>) = {}
  BY DEF ToSet

\* The elements of a list are of the type of the list.
LEMMA ElementsIn ==
    ASSUME NEW S, NEW s \in Seq(S)
    PROVE  ToSet(s) \subseteq S
  BY DEF ToSet

\* Joining two lists adds no element.
LEMMA JoinSet ==
    ASSUME NEW S, NEW s \in Seq(S), NEW r \in Seq(S)
    PROVE  ToSet(s \o r) \subseteq ToSet(s) \union ToSet(r)
  <1>1. /\ Len(s) \in Nat /\ Len(r) \in Nat /\ DOMAIN s = 1 .. Len(s)
        /\ DOMAIN r = 1 .. Len(r) /\ DOMAIN (s \o r) = 1 .. Len(s) + Len(r)
        /\ \A i \in 1 .. Len(s) + Len(r) :
              (s \o r)[i] = IF i <= Len(s) THEN s[i] ELSE r[i - Len(s)]
    OBVIOUS
  <1>2. ASSUME NEW i \in 1 .. Len(s) + Len(r)
        PROVE  (s \o r)[i] \in ToSet(s) \union ToSet(r)
    <2>1. CASE i <= Len(s)
      BY <1>1, <2>1 DEF ToSet
    <2>2. CASE ~(i <= Len(s))
      <3>1. i - Len(s) \in 1 .. Len(r)
        BY <1>1, <2>2
      <3>2. QED
        BY <1>1, <2>2, <3>1 DEF ToSet
    <2>3. QED
      BY <2>1, <2>2
  <1>3. QED
    BY <1>1, <1>2 DEF ToSet

-----------------------------------------------------------------------------
\* The notices.

\* A notice to t is one that is listed or one that is held.
LEMMA OwedTokens ==
    ASSUME NEW t, NEW x
    PROVE  x \in Owed(t) <=>
              \/ \E p \in Task : \E i : Listed(p, i, t) /\ x = <<"listed", p, i>>
              \/ \E th \in Thread : \E k : Owing(th, k, t) /\ x = <<"held", th, k>>
  <1>0. /\ x \in AllListed(t) <=> \E p \in Task : x \in ListedNotices(p, t)
        /\ x \in AllHeld(t) <=> \E th \in Thread : x \in HeldNotices(th, t)
    BY DEF AllListed, AllHeld
  <1>1. x \in Owed(t) <=> \/ \E p \in Task : x \in ListedNotices(p, t)
                          \/ \E th \in Thread : x \in HeldNotices(th, t)
    BY <1>0 DEF Owed
  <1>2. \A p : x \in ListedNotices(p, t) <=> \E i : Listed(p, i, t) /\ x = <<"listed", p, i>>
    BY DEF ListedNotices, Listed
  <1>3. \A th : x \in HeldNotices(th, t) <=> \E k : Owing(th, k, t) /\ x = <<"held", th, k>>
    BY DEF HeldNotices, Owing
  <1>4. QED
    BY <1>1, <1>2, <1>3

\* The same after a step.
LEMMA OwedTokensNext ==
    ASSUME NEW t, NEW x
    PROVE  x \in Owed(t)' <=>
              \/ \E p \in Task : \E i : Listed(p, i, t)' /\ x = <<"listed", p, i>>
              \/ \E th \in Thread : \E k : Owing(th, k, t)' /\ x = <<"held", th, k>>
  <1>0. /\ x \in AllListed(t)' <=> \E p \in Task : x \in ListedNotices(p, t)'
        /\ x \in AllHeld(t)' <=> \E th \in Thread : x \in HeldNotices(th, t)'
    BY DEF AllListed, AllHeld
  <1>1. x \in Owed(t)' <=> \/ \E p \in Task : x \in ListedNotices(p, t)'
                          \/ \E th \in Thread : x \in HeldNotices(th, t)'
    BY <1>0 DEF Owed
  <1>2. \A p : x \in ListedNotices(p, t)' <=> \E i : Listed(p, i, t)' /\ x = <<"listed", p, i>>
    BY DEF ListedNotices, Listed
  <1>3. \A th : x \in HeldNotices(th, t)' <=> \E k : Owing(th, k, t)' /\ x = <<"held", th, k>>
    BY DEF HeldNotices, Owing
  <1>4. QED
    BY <1>1, <1>2, <1>3

\* A task whose notices only get fewer stays paid.
LEMMA FewerOwed ==
    ASSUME NEW t, Paid(t), task[t].pending \in Int,
           Owed(t)' \subseteq Owed(t), task'[t].pending = task[t].pending
    PROVE  Paid(t)'
  <1>1. IsFiniteSet(Owed(t)') /\ Cardinality(Owed(t)') <= Cardinality(Owed(t))
    BY FS_Subset DEF Paid
  <1>2. Cardinality(Owed(t)') \in Nat /\ Cardinality(Owed(t)) \in Nat
    BY <1>1, FS_CardinalityType DEF Paid
  <1>3. QED
    BY <1>1, <1>2 DEF Paid

\* A notice that is delivered and counted down keeps the task paid.
LEMMA OnePaid ==
    ASSUME NEW t, NEW x, Paid(t), task[t].pending \in Int, x \in Owed(t),
           Owed(t)' \subseteq Owed(t) \ {x}, task'[t].pending = task[t].pending - 1
    PROVE  Paid(t)'
  <1>1. /\ IsFiniteSet(Owed(t) \ {x}) /\ Cardinality(Owed(t)) \in Nat
        /\ Cardinality(Owed(t) \ {x}) = Cardinality(Owed(t)) - 1
    BY Shrink DEF Paid
  <1>2. IsFiniteSet(Owed(t)') /\ Cardinality(Owed(t)') <= Cardinality(Owed(t) \ {x})
    BY <1>1, FS_Subset
  <1>3. Cardinality(Owed(t)') \in Nat
    BY <1>2, FS_CardinalityType
  <1>4. QED
    BY <1>1, <1>2, <1>3 DEF Paid

\* A notice may change its place: the task stays paid.
LEMMA OneMoved ==
    ASSUME NEW t, NEW x, NEW y, Paid(t), task[t].pending \in Int, x \in Owed(t),
           Owed(t)' \subseteq (Owed(t) \ {x}) \union {y},
           task'[t].pending = task[t].pending
    PROVE  Paid(t)'
  <1> DEFINE R == Owed(t) \ {x}
  <1>1. /\ IsFiniteSet(R) /\ Cardinality(Owed(t)) \in Nat
        /\ Cardinality(R) = Cardinality(Owed(t)) - 1
    BY Shrink DEF Paid
  <1>2. IsFiniteSet(R \union {y}) /\ Cardinality(R \union {y}) <= Cardinality(Owed(t))
    <2>1. IsFiniteSet(R \union {y}) /\ Cardinality(R \union {y}) =
             IF y \in R THEN Cardinality(R) ELSE Cardinality(R) + 1
      BY <1>1, FS_AddElement
    <2>2. QED
      BY <1>1, <2>1
  <1>3. IsFiniteSet(Owed(t)') /\ Cardinality(Owed(t)') <= Cardinality(R \union {y})
    BY <1>2, FS_Subset
  <1>4. Cardinality(Owed(t)') \in Nat /\ Cardinality(R \union {y}) \in Nat
    BY <1>2, <1>3, FS_CardinalityType
  <1>5. QED
    BY <1>1, <1>2, <1>3, <1>4 DEF Paid

\* A task that nobody but workers can still give notice waits for nobody: the
\* prerequisites whose notices workers hold are over.
LEMMA NothingAwaited ==
    ASSUME TypeInv, WaitInv, NEW t \in created,
           \A x \in Owed(t) : \E w \in Worker : \E k : x = <<"held", w, k>>
    PROVE  Ready(t)
  <1> SUFFICES ASSUME NEW p \in WaitsFor(t), ~Over(p) PROVE FALSE
    BY DEF Ready
  <1>1. Awaits(t, p) /\ p \in Task
    BY DEF WaitInv, WaitsFor, ToSet, TypeInv, SharedInv
  <1>2. ASSUME NEW c \in Client, pc[c] \in ExamineLabel, cur[c] = t, p \in ToSet(todo[c])
        PROVE  FALSE
    <2>1. c \in Thread /\ todo[c] \in Seq(Task \union {NoTask}) /\ todo[c] # <<>>
      BY <1>2, Held, OneSet DEF TypeInv, Thread
    <2>2. Len(todo[c]) \in Nat \ {0}
      BY <2>1, TailAt
    <2>3. Owing(c, 1, t)
      BY <1>2, <2>1, <2>2 DEF Owing, Left, Debtor
    <2>4. <<"held", c, 1>> \in Owed(t)
      BY <2>1, <2>3, OwedTokens
    <2>5. QED
      BY <2>4, TaskAssumption
  <1>3. ASSUME t \in ToSet(task[p].dependents)
        PROVE  FALSE
    <2>1. PICK i \in DOMAIN task[p].dependents : task[p].dependents[i] = t
      BY <1>3 DEF ToSet
    <2>2. <<"listed", p, i>> \in Owed(t)
      BY <1>1, <2>1, OwedTokens DEF Listed
    <2>3. QED
      BY <2>2
  <1>4. QED
    BY <1>1, <1>2, <1>3 DEF Awaits

\* Without pending notices it waits for nobody at all.
LEMMA PaidUp ==
    ASSUME TypeInv, WaitInv, NEW t \in created, Paid(t), task[t].pending <= 0
    PROVE  Ready(t)
  <1>1. task[t].pending \in Int /\ Cardinality(Owed(t)) \in Nat
    BY FS_CardinalityType DEF Paid, TypeInv, SharedInv, TaskState
  <1>2. Cardinality(Owed(t)) = 0
    BY <1>1 DEF Paid
  <1>3. Owed(t) = {}
    BY <1>2, FS_EmptySet DEF Paid
  <1>4. QED
    BY <1>3, NothingAwaited

-----------------------------------------------------------------------------
\* What a step leaves alone.

\* What is over stays over, so a task that may start may always start.
LEMMA ReadyStays ==
    ASSUME NEW t, prereqs'[t] = prereqs[t], WaitsFor(t) \subseteq Task,
           \A p \in Task : Kept(p), Ready(t)
    PROVE  Ready(t)'
  BY DEF Ready, WaitsFor, Over, Kept

\* A thread that does nothing keeps what it knows.
LEMMA LocalStays ==
    ASSUME TypeInv, CreatedInv, NEW o \in Thread, Local(o),
           pc'[o] = pc[o], cur'[o] = cur[o], todo'[o] = todo[o],
           \A p \in Task : Kept(p), created \subseteq created',
           \A t \in created : prereqs'[t] = prereqs[t]
    PROVE  Local(o)'
  <1>1. /\ created \subseteq Task /\ cur[o] \in created \union {NoTask}
        /\ ToSet(todo[o]) \subseteq created \union {NoTask}
    BY DEF TypeInv, SharedInv, Local, Known
  <1>2. ASSUME NEW t \in created, Ready(t)
        PROVE  Ready(t)'
    <2>1. WaitsFor(t) \subseteq Task
      BY <1>1 DEF CreatedInv
    <2>2. QED
      BY <1>2, <2>1, ReadyStays
  <1>3. Known(o)'
    BY <1>1 DEF Known
  <1>4. Seen(o)'
    <2>1. /\ pc[o] \in {"addFailed", "cancelDependents"} => Head(todo[o]) \in Task
          /\ pc[o] = "collect" => cur[o] \in Task
      BY Held DEF TypeInv, HeadLabel, TaskLabel
    <2>2. QED
      BY <2>1 DEF Local, Seen, Kept
  <1>5. Cleared(o)'
    <2>1. pc[o] \in {"enqueue", "count", "push"} => ToSet(todo[o]) \subseteq created
      <3>1. pc[o] \in {"enqueue", "count", "push"} => todo[o] \in Seq(Task)
        BY Held DEF TypeInv, ExamineLabel
      <3>2. QED
        BY <1>1, <3>1, ElementsIn, TaskAssumption
    <2>2. pc[o] \in {"recheck", "enqueue"} /\ todo[o] # <<>> => Head(todo[o]) \in created
      <3>1. pc[o] \in {"recheck", "enqueue"} => todo[o] \in Seq(Task)
        BY Held DEF TypeInv, ExamineLabel
      <3>2. QED
        BY <1>1, <3>1, TailSet, ElementsIn, TaskAssumption
    <2>3. QED
      BY <1>1, <1>2, <2>1, <2>2 DEF Local, Cleared
  <1>6. QED
    BY <1>3, <1>4, <1>5 DEF Local

\* The debts, the dependencies and the tasks themselves stay what they are, no
\* notice is added, and a client that still examines prerequisites goes on.
Light(th) ==
    /\ Others(th) /\ \A t \in Task : Kept(t)
    /\ created' = created /\ prereqs' = prereqs /\ handles' \subseteq created
    /\ \A t \in Task : /\ task'[t].pending = task[t].pending
                       /\ task'[t].dependents = task[t].dependents
    /\ \A t \in Task \ created : task'[t] = task[t]
    /\ Queued' \subseteq created
    /\ th \in Client /\ pc[th] \in ExamineLabel /\ todo[th] # <<>> =>
          pc'[th] \in ExamineLabel /\ cur'[th] = cur[th] /\ todo'[th] = todo[th]
    /\ \A t \in Task : \A k : Owing(th, k, t)' => Owing(th, k, t)

\* What is constructed stays constructed, and refers to constructed tasks only.
LEMMA CreatedStays ==
    ASSUME CreatedInv, created \subseteq Task, created' = created, prereqs' = prereqs,
           handles' \subseteq created, Queued' \subseteq created,
           \A t \in created : ToSet(task'[t].dependents) \subseteq created,
           \A t \in Task \ created : task'[t] = task[t]
    PROVE  CreatedInv'
  BY DEF CreatedInv, WaitsFor

\* A thread that does nothing holds the same notices.
LEMMA OwingStays ==
    ASSUME NEW o, pc'[o] = pc[o], cur'[o] = cur[o], todo'[o] = todo[o], NEW t, NEW k
    PROVE  Owing(o, k, t)' <=> Owing(o, k, t)
  BY DEF Owing, Left, Debtor

\* A prerequisite that is awaited is awaited after a step that keeps the lists
\* and the examining clients.
LEMMA WaitStays ==
    ASSUME TypeInv, CreatedInv, WaitInv, NEW th \in Thread, Others(th),
           \A t \in Task : Kept(t), created' = created, prereqs' = prereqs,
           \A p \in Task : \/ Over(p)
                           \/ ToSet(task[p].dependents) \subseteq ToSet(task'[p].dependents),
           th \in Client /\ pc[th] \in ExamineLabel /\ todo[th] # <<>> =>
              /\ pc'[th] \in ExamineLabel /\ cur'[th] = cur[th]
              /\ \A p \in ToSet(todo[th]) \ {NoTask} :
                    Over(p) \/ p \in ToSet(todo'[th]) \/ cur[th] \in ToSet(task'[p].dependents)
    PROVE  WaitInv'
  <1> SUFFICES ASSUME NEW t \in created, NEW p \in WaitsFor(t)
               PROVE  Over(p)' \/ Awaits(t, p)'
    BY DEF WaitInv, WaitsFor
  <1>1. p \in Task /\ p # NoTask
    BY TaskAssumption DEF CreatedInv, WaitsFor, TypeInv, SharedInv
  <1>2. Over(p) => Over(p)'
    BY <1>1 DEF Over, Kept
  <1>3. CASE t \in ToSet(task[p].dependents)
    BY <1>1, <1>2, <1>3 DEF Awaits
  <1>4. ASSUME NEW c \in Client, pc[c] \in ExamineLabel, cur[c] = t, p \in ToSet(todo[c])
        PROVE  Over(p)' \/ Awaits(t, p)'
    <2>1. c \in Thread
      BY DEF Thread
    <2>2. todo[c] # <<>>
      BY <1>4, OneSet
    <2>3. CASE c = th
      BY <1>1, <1>2, <1>4, <2>2, <2>3 DEF Awaits
    <2>4. CASE c # th
      BY <1>4, <2>1, <2>4 DEF Awaits, Others
    <2>5. QED
      BY <2>3, <2>4
  <1>5. QED
    BY <1>2, <1>3, <1>4 DEF WaitInv, Awaits

\* A light step keeps the invariant if its own thread keeps its part of it.
LEMMA LightInv ==
    ASSUME TypeInv, GraphInv, NEW th \in Thread, Light(th), Local(th)', FlagInv',
           QueuedReady'
    PROVE  GraphInv'
  <1>1. created \subseteq Task
    BY DEF TypeInv, SharedInv
  <1>2. CreatedInv'
    BY <1>1, CreatedStays DEF GraphInv, Light, CreatedInv
  <1>3. WaitInv'
    <2>1. \A p \in Task : ToSet(task[p].dependents) = ToSet(task'[p].dependents)
      BY DEF Light
    <2>2. QED
      BY <2>1, WaitStays DEF GraphInv, Light
  <1>4. DebtInv'
    <2> SUFFICES ASSUME NEW t \in Task PROVE Paid(t)'
      BY DEF DebtInv
    <2>1. task[t].pending \in Int
      BY DEF TypeInv, SharedInv, TaskState
    <2>2. Owed(t)' \subseteq Owed(t)
      <3> SUFFICES ASSUME NEW x \in Owed(t)' PROVE x \in Owed(t)
        OBVIOUS
      <3>1. \A p \in Task : \A i : Listed(p, i, t)' => Listed(p, i, t)
        BY DEF Light, Listed
      <3>2. \A o \in Thread : \A k : Owing(o, k, t)' => Owing(o, k, t)
        BY OwingStays DEF Light, Others
      <3>3. QED
        BY <3>1, <3>2, OwedTokens, OwedTokensNext
    <2>3. QED
      BY <2>1, <2>2, FewerOwed DEF Light, GraphInv, DebtInv
  <1>5. ASSUME NEW o \in Thread
        PROVE  Local(o)'
    <2>1. CASE o = th
      BY <2>1
    <2>2. CASE o # th
      BY <2>2, LocalStays DEF GraphInv, Light, Others
    <2>3. QED
      BY <2>1, <2>2
  <1>6. QED
    BY <1>2, <1>3, <1>4, <1>5 DEF GraphInv

\* The flags of the tasks, when a step has no task of its own.
LEMMA QuietFlags ==
    ASSUME FlagInv, NEW th \in Thread, Quiet(th)
    PROVE  FlagInv'
  <1>1. ASSUME NEW o \in Thread, NEW t \in Task, Owns(o, t)', pc'[o] \in FreshLabel
        PROVE  Owns(o, t) /\ pc[o] \in FreshLabel
    BY <1>1 DEF Quiet, Others, Owns, FreshLabel, RunLabel, CancelLabel
  <1>2. QED
    BY <1>1 DEF FlagInv, Quiet, Untouched

\* Only tasks that may start are marked as queued.
LEMMA QueuedReadyStays ==
    ASSUME TypeInv, CreatedInv, QueuedReady, \A t \in Task : Kept(t),
           \A t \in created : prereqs'[t] = prereqs[t],
           \A t \in Task : task'[t].queued => task[t].queued \/ (t \in created /\ Ready(t))
    PROVE  QueuedReady'
  <1> SUFFICES ASSUME NEW t \in Task, task'[t].queued PROVE Ready(t)'
    BY DEF QueuedReady
  <1>1. Ready(t) /\ t \in created
    BY DEF QueuedReady, CreatedInv, NewTask
  <1>2. WaitsFor(t) \subseteq Task
    BY <1>1 DEF CreatedInv, TypeInv, SharedInv
  <1>3. QED
    BY <1>1, <1>2, ReadyStays

\* A flag is written to a task that was constructed.
LEMMA FlagWrite ==
    ASSUME task \in [Task -> TaskState], created \subseteq Task, NEW u \in created,
           \/ task' = task
           \/ task' = [task EXCEPT ![u].retrieved = TRUE]
           \/ task' = [task EXCEPT ![u].started = TRUE]
           \/ task' = [task EXCEPT ![u].canceled = TRUE]
           \/ task' = [task EXCEPT ![u].finished = TRUE]
           \/ task' = [task EXCEPT ![u].queued = TRUE]
           \/ task' = [task EXCEPT ![u].done = @ + 1]
    PROVE  /\ \A t \in Task : /\ task'[t].pending = task[t].pending
                              /\ task'[t].dependents = task[t].dependents
           /\ \A t \in Task \ created : task'[t] = task[t]
  <1>0. u \in Task
    OBVIOUS
  <1>1. ASSUME NEW t \in Task
        PROVE  task'[t].pending = task[t].pending /\ task'[t].dependents = task[t].dependents
    <2>1. CASE t = u
      <3>1. task[u] \in TaskState
        BY <1>0
      <3>2. \/ task'[t] = task[t]
            \/ task'[t] = [task[u] EXCEPT !.retrieved = TRUE]
            \/ task'[t] = [task[u] EXCEPT !.started = TRUE]
            \/ task'[t] = [task[u] EXCEPT !.canceled = TRUE]
            \/ task'[t] = [task[u] EXCEPT !.finished = TRUE]
            \/ task'[t] = [task[u] EXCEPT !.queued = TRUE]
            \/ task'[t] = [task[u] EXCEPT !.done = @ + 1]
        BY <1>0, <2>1
      <3>3. QED
        BY <2>1, <3>1, <3>2 DEF TaskState
    <2>2. CASE t # u
      <3>1. task'[t] = task[t]
        BY <2>2
      <3>2. QED
        BY <3>1
    <2>3. QED
      BY <2>1, <2>2
  <1>3. \A t \in Task \ created : task'[t] = task[t]
    BY DEF TaskState
  <1>4. QED
    BY <1>1, <1>3

\* What a thread holds was constructed.
LEMMA KnownTasks ==
    ASSUME TypeInv, NEW th \in Thread, Known(th)
    PROVE  /\ created \subseteq Task
           /\ cur[th] # NoTask => cur[th] \in created
           /\ pc[th] \in TaskLabel => cur[th] \in created
           /\ pc[th] \in HeadLabel => Head(todo[th]) \in created
           /\ todo[th] # <<>> => /\ Head(todo[th]) \in created \union {NoTask}
                                 /\ ToSet(Tail(todo[th])) \subseteq ToSet(todo[th])
           /\ todo[th] # <<>> /\ pc[th] \notin ExamineLabel => Head(todo[th]) \in created
  <1>1. /\ todo[th] \in Seq(Task \union {NoTask})
        /\ todo[th] # <<>> /\ pc[th] \notin ExamineLabel => Head(todo[th]) \in Task
        /\ pc[th] \in HeadLabel => todo[th] # <<>> /\ Head(todo[th]) \in Task
        /\ pc[th] \in TaskLabel => cur[th] \in Task
    BY Held DEF TypeInv
  <1>2. todo[th] # <<>> => /\ Head(todo[th]) \in ToSet(todo[th])
                           /\ ToSet(Tail(todo[th])) \subseteq ToSet(todo[th])
    BY <1>1, TailSet
  <1>3. created \subseteq Task
    BY DEF TypeInv, SharedInv
  <1>4. QED
    BY <1>1, <1>2, <1>3, TaskAssumption DEF Known

-----------------------------------------------------------------------------
\* The light steps of clients.

\* Where nothing is remembered and nothing cleared, only what is held matters.
LEMMA ClientLocal ==
    ASSUME NEW c \in Client, Known(c)',
           pc'[c] \notin {"enqueue", "count", "push", "addFailed", "collect",
                         "cancelDependents"}
    PROVE  Local(c)'
  BY TaskAssumption DEF Local, Seen, Cleared

\* A client outside of the walk of its prerequisites holds no notice.
LEMMA OwesNothing ==
    ASSUME NEW th, th \notin Worker,
           pc'[th] \notin ExamineLabel \union {"schedule", "decrement"}
    PROVE  \A t, k : ~Owing(th, k, t)'
  BY DEF Owing, Left

\* Cancel and Wait begin without a change to any dependency.
LEMMA ClientCallLight ==
    ASSUME TypeInv, GraphInv, NEW c \in Client, NEW t \in handles,
           CancelBegin(c, t) \/ WaitBegin(c, t)
    PROVE  GraphInv'
  <1>1. /\ c \in Thread /\ c \notin Worker /\ ClientCall(c) /\ t \in created
        /\ created \subseteq Task /\ Known(c)
    BY TaskAssumption
       DEF Thread, ClientCall, GraphInv, CreatedInv, Local, TypeInv, SharedInv
  <1>2. Quiet(c) /\ Steady(c)
    BY <1>1, QuietClient, ClientCallSteady
  <1>3. /\ pc[c] = "idle" /\ pc'[c] \in {"cancel", "wait", "threw"}
        /\ cur'[c] \in {cur[c], t} /\ todo'[c] \in {todo[c], <<t>>}
        /\ UNCHANGED <<created, prereqs, handles>>
        /\ task' = task \/ task' = [task EXCEPT ![t].retrieved = TRUE]
    BY <1>1 DEF TypeInv, ThreadInv, CancelBegin, WaitBegin, MayCall, Goto, historyVars
  <1>4. Known(c)'
    BY <1>1, <1>3, OneSet DEF Known
  <1>5. Local(c)'
    BY <1>3, <1>4, ClientLocal
  <1>6. /\ \A u \in Task : /\ task'[u].pending = task[u].pending
                           /\ task'[u].dependents = task[u].dependents
        /\ \A u \in Task \ created : task'[u] = task[u]
    BY <1>1, <1>3, FlagWrite DEF TypeInv, SharedInv
  <1>7. Light(c)
    <2>1. Queued' \subseteq created
      BY <1>2, QueuedFollows DEF Steady, GraphInv, CreatedInv
    <2>2. \A u, k : ~Owing(c, k, u)'
      BY <1>1, <1>3, OwesNothing DEF ExamineLabel
    <2>3. pc[c] \notin ExamineLabel
      BY <1>3 DEF ExamineLabel
    <2>4. handles' \subseteq created
      BY <1>3 DEF GraphInv, CreatedInv
    <2>5. QED
      BY <1>2, <1>3, <1>6, <2>1, <2>2, <2>3, <2>4 DEF Light, Steady
  <1>8. QueuedReady'
    <2>1. \A u \in Task : task'[u].queued => task[u].queued
      BY <1>3 DEF TypeInv, SharedInv, TaskState
    <2>2. QED
      BY <1>2, <1>3, <2>1, QueuedReadyStays DEF GraphInv, Steady
  <1>9. QED
    BY <1>1, <1>2, <1>5, <1>7, <1>8, QuietFlags, LightInv DEF GraphInv

\* The other steps of a client that count no notice and write no more than a
\* flag of a task that was constructed.
LEMMA ClientLightInv ==
    ASSUME TypeInv, GraphInv, NEW c \in Client, Steady(c), Known(c)', Local(c)', FlagInv',
           created' = created, prereqs' = prereqs, handles' \subseteq created,
           \/ task' = task
           \/ \E u \in created : \/ task' = [task EXCEPT ![u].started = TRUE]
                                \/ task' = [task EXCEPT ![u].canceled = TRUE]
                                \/ task' = [task EXCEPT ![u].finished = TRUE]
                                \/ task' = [task EXCEPT ![u].done = @ + 1],
           \/ /\ pc'[c] \notin ExamineLabel \union {"schedule", "decrement"}
              /\ pc[c] \in ExamineLabel => todo[c] = <<>>
           \/ /\ pc[c] \in ExamineLabel /\ pc'[c] \in ExamineLabel
              /\ cur'[c] = cur[c] /\ todo'[c] = todo[c]
    PROVE  GraphInv'
  <1>1. /\ c \in Thread /\ c \notin Worker
        /\ task \in [Task -> TaskState] /\ created \subseteq Task
    BY TaskAssumption DEF Thread, TypeInv, SharedInv
  <1>2. /\ \A t \in Task : /\ task'[t].pending = task[t].pending
                           /\ task'[t].dependents = task[t].dependents
        /\ \A t \in Task \ created : task'[t] = task[t]
    <2>1. CASE task' = task
      BY <2>1
    <2>2. CASE task' # task
      BY <1>1, <2>2, FlagWrite
    <2>3. QED
      BY <2>1, <2>2
  <1>3. Queued' \subseteq created
    BY QueuedFollows DEF Steady, GraphInv, CreatedInv
  <1>4. \A t \in Task : \A k : Owing(c, k, t)' => Owing(c, k, t)
    BY <1>1, OwesNothing DEF Owing, Left, Debtor
  <1>5. Light(c)
    BY <1>2, <1>3, <1>4 DEF Light, Steady
  <1>6. QueuedReady'
    <2>1. \A t \in Task : task'[t].queued => task[t].queued
      BY <1>1 DEF TaskState
    <2>2. QED
      BY <2>1, QueuedReadyStays DEF GraphInv, Steady
  <1>7. QED
    BY <1>1, <1>5, <1>6, LightInv

\* Flags of tasks a thread owns: nobody finishes one, ...
LEMMA OwnedFlags ==
    ASSUME FlagInv, NEW th \in Thread, Others(th),
           \A t \in Task : /\ task'[t].finished = task[t].finished
                           /\ task[t].started => task'[t].started,
           \A t \in Task : Owns(th, t)' /\ pc'[th] \in FreshLabel => ~task[t].finished
    PROVE  FlagInv'
  <1>1. ASSUME NEW o \in Thread \ {th}, NEW t \in Task, Owns(o, t)', pc'[o] \in FreshLabel
        PROVE  Owns(o, t) /\ pc[o] \in FreshLabel
    BY <1>1 DEF Others, Owns
  <1>2. QED
    BY <1>1 DEF FlagInv

\* ... or its only owner does.
LEMMA FinishedFlags ==
    ASSUME LifeInv, FlagInv, NEW th \in Thread, Others(th), NEW x \in Task, Owns(th, x),
           task'[x].started = task[x].started,
           \A t \in Task \ {x} : task'[t] = task[t],
           pc'[th] \notin FreshLabel
    PROVE  FlagInv'
  <1>1. task[x].started
    BY DEF LifeInv, Life
  <1>2. ASSUME NEW o \in Thread, NEW t \in Task, Owns(o, t)', pc'[o] \in FreshLabel
        PROVE  Owns(o, t) /\ pc[o] \in FreshLabel /\ t # x
    <2>1. o # th
      BY <1>2
    <2>2. Owns(o, t) /\ pc[o] \in FreshLabel
      BY <1>2, <2>1 DEF Others, Owns
    <2>3. QED
      BY <2>1, <2>2 DEF LifeInv, Life
  <1>3. QED
    BY <1>1, <1>2 DEF FlagInv

\* Launch reads the flags of a prerequisite.
LEMMA ExamineGraph ==
    ASSUME TypeInv, GraphInv, NEW c \in Client,
           \/ ExamineCanceled(c) /\ ~Discount(c)
           \/ ExamineFinished(c) /\ ~Discount(c)
           \/ TryAddDependent(c) /\ task[Head(todo[c])].finished
    PROVE  GraphInv'
  <1>1. c \in Thread /\ Known(c)
    BY DEF Thread, GraphInv, Local
  <1>2. Quiet(c) /\ Steady(c)
    BY QuietClient, ClientSteady
  <1>3. /\ pc[c] \in ExamineLabel /\ pc'[c] \in ExamineLabel
        /\ cur'[c] = cur[c] /\ todo'[c] = todo[c] /\ task' = task
        /\ UNCHANGED <<created, prereqs, handles>>
        /\ pc'[c] = "addFailed" => task[Head(todo[c])].finished
    BY <1>1 DEF TypeInv, ThreadInv, ExamineCanceled, ExamineFinished, TryAddDependent, Goto,
                ExamineLabel, historyVars
  <1>4. Known(c)' /\ handles' \subseteq created
    BY <1>1, <1>3 DEF Known, GraphInv, CreatedInv
  <1>5. Local(c)'
    BY <1>3, <1>4, TaskAssumption DEF Local, Seen, Cleared, ExamineLabel
  <1>6. FlagInv'
    BY <1>1, <1>2, QuietFlags DEF GraphInv
  <1>7. QED
    BY <1>2, <1>3, <1>4, <1>5, <1>6, ClientLightInv

\* The new task goes to the queue only when its count is down to 0, and then
\* everything it waits for is over.
LEMMA DecideGraph ==
    ASSUME TypeInv, GraphInv, NEW c \in Client, DecideCancel(c) \/ DecideEnqueue(c)
    PROVE  GraphInv'
  <1>1. /\ c \in Thread /\ Known(c) /\ cur[c] \in created /\ created \subseteq Task
        /\ c \notin Worker
    BY KnownTasks, TaskAssumption
       DEF Thread, GraphInv, Local, DecideCancel, DecideEnqueue, TaskLabel, ExamineLabel
  <1>2. Quiet(c) /\ Steady(c)
    BY QuietClient, ClientSteady
  <1>3. /\ pc'[c] \in {"cancel", "decideEnqueue", "enqueue"}
        /\ pc[c] \in ExamineLabel => todo[c] = <<>>
        /\ cur'[c] = cur[c] /\ todo'[c] \in {todo[c], <<cur[c]>>, <<>>} /\ task' = task
        /\ UNCHANGED <<created, prereqs, handles>>
    BY <1>1 DEF TypeInv, ThreadInv, DecideCancel, DecideEnqueue, Goto, ExamineLabel,
                historyVars
  <1>4. Known(c)' /\ handles' \subseteq created
    BY <1>1, <1>3, OneSet DEF Known, GraphInv, CreatedInv
  <1>5. pc'[c] = "enqueue" => \A t \in ToSet(todo'[c]) : Ready(t)'
    <2> SUFFICES ASSUME pc'[c] = "enqueue", NEW t \in ToSet(todo'[c]) PROVE Ready(t)'
      OBVIOUS
    <2>1. DecideEnqueue(c)
      BY <1>1 DEF DecideCancel, Goto, TypeInv, ThreadInv
    <2>2. todo'[c] = IF task[cur[c]].pending <= 0 THEN <<cur[c]>> ELSE <<>>
      BY <1>1, <2>1 DEF DecideEnqueue, TypeInv, ThreadInv
    <2>3. t = cur[c] /\ task[t].pending <= 0
      BY <2>2, OneSet
    <2>4. Ready(t)
      BY <1>1, <2>3, PaidUp DEF GraphInv, DebtInv
    <2>5. WaitsFor(t) \subseteq Task
      BY <1>1, <2>3 DEF GraphInv, CreatedInv
    <2>6. QED
      BY <1>2, <1>3, <2>4, <2>5, ReadyStays DEF Steady
  <1>6. Local(c)'
    BY <1>1, <1>3, <1>4, <1>5 DEF Local, Seen, Cleared
  <1>7. FlagInv'
    BY <1>1, <1>2, QuietFlags DEF GraphInv
  <1>8. QED
    BY <1>2, <1>3, <1>4, <1>6, <1>7, ClientLightInv DEF ExamineLabel

\* A call returns to the client.
LEMMA ReturnGraph ==
    ASSUME TypeInv, GraphInv, NEW c \in Client,
           EnqueueReturn(c) \/ CancelReturn(c) \/ WaitReturn(c) \/ CancelCheck(c)
    PROVE  GraphInv'
  <1>1. c \in Thread /\ Known(c) /\ created \subseteq Task
    BY DEF Thread, GraphInv, Local, TypeInv, SharedInv
  <1>2. Quiet(c) /\ Steady(c)
    BY QuietClient, ClientSteady
  <1>3. /\ pc[c] \in {"enqueue", "cancel", "wait"} /\ task' = task
        /\ pc'[c] \in {"idle", "wait", "cancel", "cancelCas"}
        /\ cur'[c] \in {cur[c], NoTask}
        /\ todo'[c] = todo[c] \/ (todo[c] # <<>> /\ todo'[c] = Tail(todo[c]))
        /\ UNCHANGED <<created, prereqs>> /\ handles' \subseteq handles \union {cur[c]}
        /\ NoTask \notin handles'
    BY <1>1, TaskAssumption, KnownTasks
       DEF TypeInv, ThreadInv, SharedInv, EnqueueReturn, CancelReturn, WaitReturn, CancelCheck,
           Return, Goto, historyVars, TaskLabel
  <1>4. Known(c)' /\ handles' \subseteq created
    BY <1>1, <1>3, KnownTasks DEF Known, GraphInv, CreatedInv
  <1>5. Local(c)'
    BY <1>3, <1>4, ClientLocal
  <1>6. FlagInv'
    BY <1>1, <1>2, QuietFlags DEF GraphInv
  <1>7. QED
    BY <1>2, <1>3, <1>4, <1>5, <1>6, ClientLightInv DEF ExamineLabel

\* Cancel up to the point where it takes the dependents.
LEMMA CancelGraph ==
    ASSUME TypeInv, LifeInv, GraphInv, NEW c \in Client,
           CancelCas(c) \/ StoreCanceled(c) \/ StoreFinished(c) \/ SetDone(c)
    PROVE  GraphInv'
  <1> DEFINE x == Head(todo[c])
  <1>1. /\ c \in Thread /\ Known(c) /\ x \in created /\ created \subseteq Task
        /\ ToSet(Tail(todo[c])) \subseteq ToSet(todo[c])
    BY KnownTasks, Held
       DEF Thread, GraphInv, Local, CancelCas, StoreCanceled, StoreFinished, SetDone,
           HeadLabel, TypeInv
  <1>2. Steady(c) /\ Others(c)
    BY ClientSteady DEF Steady
  <1>3. /\ pc[c] \in {"cancelCas", "storeCanceled", "storeFinished", "setDone"}
        /\ pc'[c] \in {"cancel", "storeCanceled", "storeFinished", "setDone",
                       "cancelDependents"}
        /\ cur'[c] = cur[c] /\ todo'[c] \in {todo[c], Tail(todo[c])}
        /\ UNCHANGED <<created, prereqs, handles>>
        /\ pc'[c] = "cancelDependents" => pc[c] = "setDone" /\ todo'[c] = todo[c]
    BY <1>1 DEF TypeInv, ThreadInv, CancelCas, StoreCanceled, StoreFinished, SetDone,
                Goto, historyVars
  <1>4. \/ task' = task
        \/ task' = [task EXCEPT ![x].started = TRUE]
        \/ task' = [task EXCEPT ![x].canceled = TRUE]
        \/ task' = [task EXCEPT ![x].finished = TRUE]
        \/ task' = [task EXCEPT ![x].done = @ + 1]
    BY DEF CancelCas, StoreCanceled, StoreFinished, SetDone
  <1>5. Known(c)' /\ handles' \subseteq created
    BY <1>1, <1>3 DEF Known, GraphInv, CreatedInv
  <1>6. Local(c)'
    <2>1. pc'[c] = "cancelDependents" => task'[x].canceled /\ task'[x].finished
      <3>1. pc[c] = "setDone" => task[x].canceled /\ task[x].finished
        BY <1>1 DEF LifeInv, Life, Owns, CancelLabel
      <3>2. QED
        BY <1>1, <1>2, <1>3, <3>1 DEF Steady, Kept
    <2>2. QED
      BY <1>3, <1>5, <2>1, TaskAssumption DEF Local, Seen, Cleared
  <1>7. FlagInv'
    <2>1. task \in [Task -> TaskState]
      BY DEF TypeInv, SharedInv
    <2>2. CASE StoreFinished(c)
      <3>1. Owns(c, x) /\ pc'[c] = "setDone"
        BY <1>1, <2>2 DEF StoreFinished, Owns, CancelLabel, Goto, TypeInv, ThreadInv
      <3>2. task' = [task EXCEPT ![x].finished = TRUE]
        BY <2>2 DEF StoreFinished
      <3>3. task'[x].started = task[x].started /\ \A t \in Task \ {x} : task'[t] = task[t]
        BY <1>1, <2>1, <3>2 DEF TaskState
      <3>4. QED
        BY <1>1, <1>2, <3>1, <3>3, FinishedFlags DEF GraphInv, FreshLabel
    <2>3. CASE CancelCas(c) \/ StoreCanceled(c) \/ SetDone(c)
      <3>1. \A t \in Task : task'[t].finished = task[t].finished
        <4>1. CASE task' = task
          BY <4>1
        <4>2. CASE task' = [task EXCEPT ![x].started = TRUE]
          BY <2>1, <4>2 DEF TaskState
        <4>3. CASE task' = [task EXCEPT ![x].canceled = TRUE]
          BY <2>1, <4>3 DEF TaskState
        <4>4. CASE task' = [task EXCEPT ![x].done = @ + 1]
          BY <2>1, <4>4 DEF TaskState
        <4>5. QED
          BY <2>3, <4>1, <4>2, <4>3, <4>4 DEF CancelCas, StoreCanceled, SetDone
      <3>2. ASSUME NEW t \in Task, Owns(c, t)', pc'[c] \in FreshLabel
            PROVE  ~task[t].finished
        <4>1. t = x /\ todo'[c] = todo[c]
          BY <1>1, <1>3, <2>3, <3>2
             DEF CancelCas, StoreCanceled, SetDone, Owns, RunLabel, CancelLabel, FreshLabel,
                 Goto, TypeInv, ThreadInv
        <4>2. CASE CancelCas(c)
          <5>1. ~task[x].started
            BY <1>1, <3>2, <4>2 DEF CancelCas, Goto, TypeInv, ThreadInv, FreshLabel
          <5>2. QED
            BY <1>1, <4>1, <5>1 DEF GraphInv, FlagInv
        <4>3. CASE StoreCanceled(c)
          <5>1. Owns(c, x) /\ pc[c] \in FreshLabel
            BY <4>3 DEF StoreCanceled, Owns, CancelLabel, FreshLabel
          <5>2. QED
            BY <1>1, <4>1, <5>1 DEF GraphInv, FlagInv
        <4>4. CASE SetDone(c)
          BY <1>1, <3>2, <4>4 DEF SetDone, Goto, TypeInv, ThreadInv, FreshLabel
        <4>5. QED
          BY <2>3, <4>2, <4>3, <4>4
      <3>3. QED
        BY <1>1, <1>2, <3>1, <3>2, OwnedFlags DEF GraphInv, Steady, Kept
    <2>4. QED
      BY <2>2, <2>3
  <1>8. QED
    BY <1>1, <1>2, <1>3, <1>4, <1>5, <1>6, <1>7, ClientLightInv DEF ExamineLabel

-----------------------------------------------------------------------------
\* The light steps of workers, and Enqueue.

\* A task that may start may start after a step that keeps what is over.
LEMMA ReadyKept ==
    ASSUME TypeInv, CreatedInv, NEW t \in created, prereqs' = prereqs,
           \A p \in Task : Kept(p), Ready(t)
    PROVE  Ready(t)'
  <1>1. WaitsFor(t) \subseteq Task
    BY DEF CreatedInv, TypeInv, SharedInv
  <1>2. QED
    BY <1>1, ReadyStays

\* A worker that keeps its list owes no more than before, ...
LEMMA KeptOwing ==
    ASSUME NEW th, cur'[th] = cur[th], todo'[th] = todo[th],
           pc'[th] \notin ExamineLabel \union {"schedule", "decrement"},
           \/ pc'[th] \notin {"recheck", "enqueue", "count", "push"}
           \/ pc[th] \in {"recheck", "enqueue", "count", "push"} /\ pc[th] \notin ExamineLabel
    PROVE  \A t, k : Owing(th, k, t)' => Owing(th, k, t)
  BY DEF Owing, Left, Debtor, ExamineLabel

\* ... and so does one that is through with the head of its list.
LEMMA TailOwing ==
    ASSUME TypeInv, NEW w \in Worker, todo[w] # <<>>, todo'[w] = Tail(todo[w]),
           pc[w] \in {"schedule", "decrement", "recheck", "enqueue", "count", "push"},
           pc'[w] = "schedule", NEW t, NEW k, Owing(w, k, t)'
    PROVE  Owing(w, k, t) /\ k # Len(todo[w])
  <1>1. w \in Thread /\ w \notin Client
    BY TaskAssumption DEF Thread
  <1>2. todo[w] \in Seq(Task \union {NoTask})
    BY <1>1, Held DEF TypeInv
  <1> DEFINE n == Len(todo[w])
  <1>3. /\ n \in Nat \ {0} /\ Len(Tail(todo[w])) = n - 1
        /\ \A i \in 1 .. n - 1 : Tail(todo[w])[i] = todo[w][i + 1]
    BY <1>2, TailAt
  <1>4. Left(w)' = n - 1 /\ (Left(w) = n \/ Left(w) = n - 1)
    BY <1>3 DEF Left, ExamineLabel
  <1>5. k \in 1 .. n - 1 /\ Tail(todo[w])[n - 1 + 1 - k] = t
    BY <1>1, <1>3, <1>4 DEF Owing, Debtor
  <1>6. n - k \in 1 .. n - 1 /\ n - 1 + 1 - k = n - k /\ n - k + 1 = n + 1 - k
    BY <1>3, <1>5
  <1>7. todo[w][n + 1 - k] = t
    BY <1>3, <1>5, <1>6
  <1>8. k \in 1 .. Left(w) /\ k # n
    BY <1>3, <1>4, <1>5
  <1>9. QED
    BY <1>1, <1>7, <1>8 DEF Owing, Debtor

\* Enqueue, by a client or a worker.
LEMMA EnqueueGraph ==
    ASSUME TypeInv, GraphInv, NEW th \in Thread,
           EnqueueCas(th) \/ CountInflight(th) \/ PushTask(th)
    PROVE  GraphInv'
  <1> DEFINE h == Head(todo[th])
  <1>1. /\ pc[th] \in {"enqueue", "count", "push"} /\ Known(th) /\ todo[th] # <<>>
        /\ h \in created /\ created \subseteq Task /\ todo[th] \in Seq(Task)
        /\ h \in ToSet(todo[th]) /\ ToSet(Tail(todo[th])) \subseteq ToSet(todo[th])
    <2>1. pc[th] \in {"enqueue", "count", "push"} /\ todo[th] # <<>>
      BY Held DEF TypeInv, EnqueueCas, CountInflight, PushTask, HeadLabel
    <2>2. Known(th) /\ todo[th] \in Seq(Task)
      BY <2>1, Held DEF TypeInv, GraphInv, Local, ExamineLabel
    <2>3. QED
      BY <2>1, <2>2, KnownTasks, TailSet DEF ExamineLabel
  <1>2. Quiet(th) /\ Others(th)
    BY QuietEnqueue DEF Quiet
  <1>3. /\ cur'[th] = cur[th] /\ UNCHANGED <<created, prereqs, handles>>
        /\ \/ pc'[th] \in {"count", "push"} /\ todo'[th] = todo[th]
           \/ pc'[th] = Loop(th) /\ todo'[th] = Tail(todo[th])
    BY DEF TypeInv, ThreadInv, EnqueueCas, CountInflight, PushTask, Goto, historyVars
  <1>4. /\ task' = task \/ task' = [task EXCEPT ![h].queued = TRUE]
        /\ task' = task \/ pc[th] = "enqueue"
    BY DEF EnqueueCas, CountInflight, PushTask
  <1>5. /\ \A t \in Task : Kept(t)
        /\ \A t \in Task : /\ task'[t].pending = task[t].pending
                           /\ task'[t].dependents = task[t].dependents
        /\ \A t \in Task \ created : task'[t] = task[t]
    BY <1>1, <1>4, FlagWrite, WritesKeep DEF TypeInv, SharedInv
  <1>6. Known(th)'
    BY <1>1, <1>3 DEF Known
  <1>7. Local(th)'
    <2>1. th \in Client => \A t \in ToSet(todo'[th]) : Ready(t)'
      <3> SUFFICES ASSUME th \in Client, NEW t \in ToSet(todo'[th]) PROVE Ready(t)'
        OBVIOUS
      <3>1. t \in ToSet(todo[th]) /\ t \in Task
        BY <1>1, <1>3, ElementsIn
      <3>2. t \in created
        BY <1>1, <3>1, TaskAssumption DEF Known
      <3>3. Ready(t)
        BY <1>1, <3>1 DEF GraphInv, Local, Cleared
      <3>4. QED
        BY <1>3, <1>5, <3>2, <3>3, ReadyKept DEF GraphInv
    <2>2. th \in Worker /\ cur[th] # NoTask => Ready(cur[th])'
      <3> SUFFICES ASSUME th \in Worker, cur[th] # NoTask PROVE Ready(cur[th])'
        OBVIOUS
      <3>1. cur[th] \in created /\ Ready(cur[th])
        BY <1>1 DEF GraphInv, Local, Cleared, Known
      <3>2. PICK t \in created : t = cur[th] /\ Ready(t)
        BY <3>1
      <3>3. Ready(t)'
        BY <1>3, <1>5, <3>2, ReadyKept DEF GraphInv
      <3>4. QED
        BY <1>3, <3>2, <3>3 DEF Ready
    <2>3. th \in Worker => pc'[th] \notin {"recheck", "enqueue"}
      BY <1>3, TaskAssumption DEF Loop
    <2>4. Seen(th)'
      BY <1>3 DEF Seen, Loop
    <2>5. Cleared(th)'
      BY <1>3, <2>1, <2>2, <2>3 DEF Cleared, Ready
    <2>6. QED
      BY <1>6, <2>4, <2>5 DEF Local
  <1>8. Queued' \subseteq created
    <2>1. CASE PushTask(th)
      <3>1. Queued' = Queued \union {h}
        BY <1>1, <2>1, PushQueued DEF PushTask, TypeInv, SharedInv, QueueInv
      <3>2. QED
        BY <1>1, <3>1 DEF GraphInv, CreatedInv
    <2>2. CASE ~PushTask(th)
      BY <2>2, QueuedFollows DEF EnqueueCas, CountInflight, queueVars, GraphInv, CreatedInv
    <2>3. QED
      BY <2>1, <2>2
  <1>9. \A t, k : Owing(th, k, t)' => Owing(th, k, t)
    <2>1. CASE th \in Client
      <3>1. th \notin Worker /\ pc'[th] \notin ExamineLabel \union {"schedule", "decrement"}
        BY <1>3, <2>1, TaskAssumption DEF Loop, ExamineLabel
      <3>2. QED
        BY <3>1, OwesNothing
    <2>2. CASE th \in Worker /\ todo'[th] = todo[th] /\ pc'[th] \in {"count", "push"}
      BY <1>1, <1>3, <2>2, KeptOwing DEF ExamineLabel
    <2>3. CASE th \in Worker /\ todo'[th] = Tail(todo[th]) /\ pc'[th] = Loop(th)
      <3>1. pc'[th] = "schedule"
        BY <2>3, TaskAssumption DEF Loop
      <3>2. QED
        BY <1>1, <2>3, <3>1, TailOwing
    <2>4. QED
      BY <1>3, <2>1, <2>2, <2>3 DEF Thread
  <1>10. Light(th)
    <2>1. handles' \subseteq created
      BY <1>3 DEF GraphInv, CreatedInv
    <2>2. pc[th] \notin ExamineLabel
      BY <1>1 DEF ExamineLabel
    <2>3. QED
      BY <1>2, <1>3, <1>5, <1>8, <1>9, <2>1, <2>2 DEF Light
  <1>11. QueuedReady'
    <2>1. Ready(h) \/ task' = task
      BY <1>1, <1>4, TaskAssumption DEF GraphInv, Local, Cleared, Thread
    <2>2. ASSUME NEW t \in Task, task'[t].queued
          PROVE  task[t].queued \/ (t \in created /\ Ready(t))
      BY <1>1, <1>4, <2>1, <2>2 DEF TypeInv, SharedInv
    <2>3. QED
      BY <1>3, <1>5, <2>2, QueuedReadyStays DEF GraphInv
  <1>12. QED
    BY <1>2, <1>7, <1>10, <1>11, QuietFlags, LightInv DEF GraphInv

\* A step of a worker that passes on no notice keeps the invariant.
LEMMA WorkerLightInv ==
    ASSUME TypeInv, GraphInv, NEW w \in Worker, Others(w), \A t \in Task : Kept(t),
           Local(w)', FlagInv', created' = created, prereqs' = prereqs, handles' = handles,
           Queued' \subseteq Queued,
           \/ task' = task
           \/ \E u \in created : \/ task' = [task EXCEPT ![u].started = TRUE]
                                \/ task' = [task EXCEPT ![u].finished = TRUE]
                                \/ task' = [task EXCEPT ![u].done = @ + 1],
           \A t, k : Owing(w, k, t)' => Owing(w, k, t)
    PROVE  GraphInv'
  <1>1. /\ w \in Thread /\ w \notin Client
        /\ task \in [Task -> TaskState] /\ created \subseteq Task
    BY TaskAssumption DEF Thread, TypeInv, SharedInv
  <1>2. /\ \A t \in Task : /\ task'[t].pending = task[t].pending
                           /\ task'[t].dependents = task[t].dependents
        /\ \A t \in Task \ created : task'[t] = task[t]
    <2>1. CASE task' = task
      BY <2>1
    <2>2. CASE task' # task
      BY <1>1, <2>2, FlagWrite
    <2>3. QED
      BY <2>1, <2>2
  <1>3. Light(w)
    BY <1>1, <1>2 DEF Light, GraphInv, CreatedInv
  <1>4. QueuedReady'
    <2>1. \A t \in Task : task'[t].queued => task[t].queued
      BY <1>1 DEF TaskState
    <2>2. QED
      BY <2>1, QueuedReadyStays DEF GraphInv
  <1>5. QED
    BY <1>1, <1>3, <1>4, LightInv

\* A worker that is not about to enqueue has only its task to be cleared.
LEMMA WorkerLocal ==
    ASSUME TypeInv, GraphInv, NEW w \in Worker, \A t \in Task : Kept(t), prereqs' = prereqs,
           Known(w)', cur'[w] \in {cur[w], NoTask},
           pc'[w] \notin {"recheck", "enqueue", "addFailed", "cancelDependents"},
           pc'[w] = "collect" => task'[cur'[w]].finished
    PROVE  Local(w)'
  <1>1. w \in Thread /\ w \notin Client /\ Local(w)
    BY TaskAssumption DEF Thread, GraphInv
  <1>2. cur'[w] # NoTask => \A t \in {cur[w]} : Ready(t)'
    <2> SUFFICES ASSUME cur'[w] # NoTask, NEW t \in {cur[w]} PROVE Ready(t)'
      OBVIOUS
    <2>1. t \in created /\ Ready(t)
      BY <1>1 DEF Local, Known, Cleared
    <2>2. QED
      BY <2>1, ReadyKept DEF GraphInv
  <1>3. Cleared(w)'
    BY <1>1, <1>2 DEF Cleared, Ready
  <1>4. QED
    BY <1>3 DEF Local, Seen

\* A worker runs its task.
LEMMA RunGraph ==
    ASSUME TypeInv, LifeInv, GraphInv, NEW w \in Worker,
           RunCas(w) \/ CallFunc(w) \/ RunFinished(w) \/ RunDone(w)
    PROVE  GraphInv'
  <1>1. w \in Thread /\ Known(w) /\ cur[w] \in created /\ created \subseteq Task
    BY KnownTasks DEF Thread, GraphInv, Local, RunCas, CallFunc, RunFinished, RunDone, TaskLabel
  <1>2. PICK x \in created : x = cur[w]
    BY <1>1
  <1>3. Steady(w) /\ Others(w) /\ queues' = queues /\ \A t \in Task : Kept(t)
    BY WorkerSteady DEF Steady
  <1>4. /\ pc[w] \in {"run", "func", "runFinished", "runDone"}
        /\ pc'[w] \in {"taskFinished", "func", "runFinished", "runDone", "collect"}
        /\ cur'[w] = cur[w] /\ todo'[w] = todo[w]
        /\ UNCHANGED <<created, prereqs, handles>>
        /\ pc'[w] = "collect" => pc[w] = "runDone"
    BY <1>1 DEF TypeInv, ThreadInv, RunCas, CallFunc, RunFinished, RunDone, Goto, historyVars
  <1>5. \/ task' = task
        \/ task' = [task EXCEPT ![x].started = TRUE]
        \/ task' = [task EXCEPT ![x].finished = TRUE]
        \/ task' = [task EXCEPT ![x].done = @ + 1]
    BY <1>2 DEF RunCas, CallFunc, RunFinished, RunDone
  <1>6. Local(w)'
    <2>1. Known(w)'
      BY <1>1, <1>4 DEF Known
    <2>2. pc'[w] = "collect" => task'[cur'[w]].finished
      <3>1. pc[w] = "runDone" => task[x].finished
        BY <1>1, <1>2 DEF LifeInv, Life, Owns, RunLabel
      <3>2. QED
        BY <1>1, <1>2, <1>3, <1>4, <3>1 DEF Kept
    <2>3. QED
      BY <1>3, <1>4, <2>1, <2>2, WorkerLocal
  <1>7. FlagInv'
    <2>1. task \in [Task -> TaskState]
      BY DEF TypeInv, SharedInv
    <2>2. CASE RunFinished(w)
      <3>1. Owns(w, x) /\ pc'[w] = "runDone"
        BY <1>1, <1>2, <2>2 DEF RunFinished, Owns, RunLabel, Goto, TypeInv, ThreadInv
      <3>2. task' = [task EXCEPT ![x].finished = TRUE]
        BY <1>2, <2>2 DEF RunFinished
      <3>3. task'[x].started = task[x].started /\ \A t \in Task \ {x} : task'[t] = task[t]
        BY <1>1, <2>1, <3>2 DEF TaskState
      <3>4. QED
        BY <1>1, <1>3, <3>1, <3>3, FinishedFlags DEF GraphInv, FreshLabel
    <2>3. CASE RunCas(w) \/ CallFunc(w) \/ RunDone(w)
      <3>1. \A t \in Task : task'[t].finished = task[t].finished
        <4>1. CASE task' = task
          BY <4>1
        <4>2. CASE task' = [task EXCEPT ![x].started = TRUE]
          BY <2>1, <4>2 DEF TaskState
        <4>3. CASE task' = [task EXCEPT ![x].done = @ + 1]
          BY <2>1, <4>3 DEF TaskState
        <4>4. QED
          BY <1>2, <2>3, <4>1, <4>2, <4>3 DEF RunCas, CallFunc, RunDone
      <3>2. ASSUME NEW t \in Task, Owns(w, t)', pc'[w] \in FreshLabel
            PROVE  ~task[t].finished
        <4>1. t = x
          BY <1>2, <1>4, <3>2 DEF Owns, RunLabel, CancelLabel
        <4>2. CASE RunCas(w)
          <5>1. ~task[x].started
            BY <1>1, <1>2, <3>2, <4>2 DEF RunCas, Goto, TypeInv, ThreadInv, FreshLabel
          <5>2. QED
            BY <1>1, <4>1, <5>1 DEF GraphInv, FlagInv
        <4>3. CASE CallFunc(w)
          <5>1. Owns(w, x) /\ pc[w] \in FreshLabel
            BY <1>2, <4>3 DEF CallFunc, Owns, RunLabel, FreshLabel
          <5>2. QED
            BY <1>1, <4>1, <5>1 DEF GraphInv, FlagInv
        <4>4. CASE RunDone(w)
          BY <1>1, <3>2, <4>4 DEF RunDone, Goto, TypeInv, ThreadInv, FreshLabel
        <4>5. QED
          BY <2>3, <4>2, <4>3, <4>4
      <3>3. QED
        BY <1>1, <1>3, <3>1, <3>2, OwnedFlags DEF GraphInv, Kept
    <2>4. QED
      BY <2>2, <2>3
  <1>8. \A t, k : Owing(w, k, t)' => Owing(w, k, t)
    BY <1>4, KeptOwing DEF ExamineLabel
  <1>9. QED
    BY <1>3, <1>4, <1>5, <1>6, <1>7, <1>8, QueuedFollows, WorkerLightInv

\* A worker passes a dependent that is finished.
LEMMA WalkGraph ==
    ASSUME TypeInv, GraphInv, NEW w \in Worker, SkipOrDecrement(w) \/ RecheckFinished(w)
    PROVE  GraphInv'
  <1>1. /\ w \in Thread /\ w \notin Client /\ Known(w) /\ Local(w) /\ todo[w] # <<>>
        /\ Head(todo[w]) \in created /\ ToSet(Tail(todo[w])) \subseteq ToSet(todo[w])
    BY KnownTasks, Held, TaskAssumption
       DEF Thread, GraphInv, Local, SkipOrDecrement, RecheckFinished, HeadLabel, ExamineLabel,
           TypeInv
  <1>2. Quiet(w) /\ Steady(w) /\ Others(w) /\ queues' = queues /\ \A t \in Task : Kept(t)
    BY WorkerSteady, QuietWorker DEF Steady
  <1>3. /\ cur'[w] = cur[w] /\ task' = task /\ UNCHANGED <<created, prereqs, handles>>
        /\ \/ pc'[w] = "schedule" /\ todo'[w] = Tail(todo[w])
           \/ pc[w] = "schedule" /\ pc'[w] = "decrement" /\ todo'[w] = todo[w]
           \/ pc[w] = "recheck" /\ pc'[w] = "enqueue" /\ todo'[w] = todo[w]
        /\ pc[w] \in {"schedule", "recheck"}
    BY <1>1 DEF TypeInv, ThreadInv, SkipOrDecrement, RecheckFinished, Goto, historyVars
  <1>4. Known(w)'
    BY <1>1, <1>3 DEF Known
  <1>5. Local(w)'
    <2>1. CASE pc'[w] # "enqueue"
      BY <1>2, <1>3, <1>4, <2>1, WorkerLocal
    <2>2. CASE pc'[w] = "enqueue"
      <3>1. \A t \in created : Ready(t) => Ready(t)'
        BY <1>2, <1>3, ReadyKept DEF GraphInv
      <3>2. Ready(Head(todo[w])) /\ (cur[w] # NoTask => cur[w] \in created /\ Ready(cur[w]))
        BY <1>1, <1>3, <2>2 DEF Local, Cleared, Known
      <3>3. PICK t \in created : t = Head(todo[w]) /\ Ready(t) /\ Ready(t)'
        BY <1>1, <3>1, <3>2
      <3>4. cur[w] # NoTask => \E u \in created : u = cur[w] /\ Ready(u)'
        BY <3>1, <3>2
      <3>5. Cleared(w)'
        BY <1>1, <1>3, <2>2, <3>3, <3>4 DEF Cleared, Ready
      <3>6. QED
        BY <1>4, <2>2, <3>5 DEF Local, Seen
    <2>3. QED
      BY <2>1, <2>2
  <1>6. FlagInv'
    BY <1>1, <1>2, QuietFlags DEF GraphInv
  <1>7. \A t, k : Owing(w, k, t)' => Owing(w, k, t)
    <2>1. CASE pc'[w] = "schedule" /\ todo'[w] = Tail(todo[w])
      BY <1>1, <1>3, <2>1, TailOwing
    <2>2. CASE pc[w] = "schedule" /\ pc'[w] = "decrement" /\ todo'[w] = todo[w]
      BY <1>3, <2>2 DEF Owing, Left, Debtor
    <2>3. CASE pc[w] = "recheck" /\ pc'[w] = "enqueue" /\ todo'[w] = todo[w]
      BY <1>3, <2>3, KeptOwing DEF ExamineLabel
    <2>4. QED
      BY <1>3, <2>1, <2>2, <2>3
  <1>8. QED
    BY <1>2, <1>3, <1>5, <1>6, <1>7, QueuedFollows, WorkerLightInv

\* A worker is done with a task, and takes the next one.
LEMMA IdleGraph ==
    ASSUME TypeInv, GraphInv, NEW w \in Worker,
           \/ PopFails(w) \/ ReadInflight(w) \/ ScheduleReturn(w) \/ TaskFinished(w)
           \/ NotifyShutdown(w)
    PROVE  GraphInv'
  <1>1. w \in Thread /\ Known(w)
    BY DEF Thread, GraphInv, Local
  <1>2. Quiet(w) /\ Others(w)
    BY QuietWorker DEF Quiet
  <1>3. /\ pc'[w] \in {"readInflight", "exited", "pop", "taskFinished", "notify"}
        /\ cur'[w] \in {cur[w], NoTask} /\ todo'[w] = todo[w] /\ task' = task
        /\ UNCHANGED <<created, prereqs, handles>> /\ queues' = queues
    BY <1>1 DEF TypeInv, ThreadInv, PopFails, ReadInflight, ScheduleReturn, TaskFinished,
                NotifyShutdown, Goto, historyVars, queueVars
  <1>4. \A t \in Task : Kept(t)
    BY <1>3 DEF Kept
  <1>5. Known(w)'
    BY <1>1, <1>3 DEF Known
  <1>6. Local(w)'
    BY <1>3, <1>4, <1>5, WorkerLocal
  <1>7. FlagInv'
    BY <1>1, <1>2, QuietFlags DEF GraphInv
  <1>8. \A t, k : Owing(w, k, t)' => Owing(w, k, t)
    BY <1>3 DEF Owing, Left, ExamineLabel
  <1>9. QED
    BY <1>2, <1>3, <1>4, <1>6, <1>7, <1>8, QueuedFollows, WorkerLightInv

\* A worker takes a task from the queue, and what is in the queue may start.
LEMMA PopGraph ==
    ASSUME TypeInv, GraphInv, InflightInv, NEW w \in Worker, PopTask(w)
    PROVE  GraphInv'
  <1>1. PICK t \in Queued : PopLocked(t) /\ cur' = [cur EXCEPT ![w] = t]
    BY DEF PopTask
  <1>2. /\ w \in Thread /\ w \notin Client /\ Known(w) /\ t \in created /\ t \in Task
        /\ task[t].queued
    BY <1>1, TaskAssumption
       DEF Thread, GraphInv, Local, CreatedInv, TypeInv, SharedInv, InflightInv, QueuedOnce,
           Queued
  <1>3. Quiet(w) /\ Others(w)
    BY QuietWorker DEF Quiet
  <1>4. /\ pc'[w] = "run" /\ cur'[w] = t /\ todo'[w] = todo[w] /\ task' = task
        /\ UNCHANGED <<created, prereqs, handles>>
    BY <1>1, <1>2 DEF TypeInv, ThreadInv, PopTask, Goto, historyVars
  <1>5. \A u \in Task : Kept(u)
    BY <1>4 DEF Kept
  <1>6. Local(w)'
    <2>1. Known(w)'
      BY <1>2, <1>4 DEF Known
    <2>2. Ready(t)'
      BY <1>2, <1>4, <1>5, ReadyKept DEF GraphInv, QueuedReady
    <2>3. Cleared(w)'
      BY <1>2, <1>4, <2>2 DEF Cleared, Ready
    <2>4. QED
      BY <1>4, <2>1, <2>3 DEF Local, Seen
  <1>7. FlagInv'
    BY <1>2, <1>3, QuietFlags DEF GraphInv
  <1>8. Queued' \subseteq Queued
    BY <1>1, PopQueued DEF TypeInv, SharedInv, QueueInv, InflightInv
  <1>9. \A u, k : Owing(w, k, u)' => Owing(w, k, u)
    BY <1>4 DEF Owing, Left, ExamineLabel
  <1>10. QED
    BY <1>3, <1>4, <1>5, <1>6, <1>7, <1>8, <1>9, WorkerLightInv

-----------------------------------------------------------------------------
\* The steps that give notice.

\* A step that adds no notice to t leaves a part of the notices.
LEMMA OwedFrom ==
    ASSUME NEW t, NEW th \in Thread, Others(th),
           \A p \in Task : \A i : Listed(p, i, t)' => Listed(p, i, t),
           \A k : Owing(th, k, t)' => Owing(th, k, t)
    PROVE  Owed(t)' \subseteq Owed(t)
  <1> SUFFICES ASSUME NEW x \in Owed(t)' PROVE x \in Owed(t)
    OBVIOUS
  <1>1. \A o \in Thread : \A k : Owing(o, k, t)' => Owing(o, k, t)
    BY OwingStays DEF Others
  <1>2. QED
    BY <1>1, OwedTokens, OwedTokensNext

\* A step that gives up notice n of its thread leaves the others.
LEMMA OwedButOne ==
    ASSUME NEW t, NEW th \in Thread, Others(th), NEW n,
           \A p \in Task : \A i : Listed(p, i, t)' => Listed(p, i, t),
           \A k : Owing(th, k, t)' => Owing(th, k, t) /\ k # n
    PROVE  Owed(t)' \subseteq Owed(t) \ {<<"held", th, n>>}
  <1>1. Owed(t)' \subseteq Owed(t)
    BY OwedFrom
  <1>2. <<"held", th, n>> \notin Owed(t)'
    <2> SUFFICES ASSUME <<"held", th, n>> \in Owed(t)' PROVE FALSE
      OBVIOUS
    <2>1. \E o \in Thread : \E k : Owing(o, k, t)' /\ <<"held", th, n>> = <<"held", o, k>>
      BY OwedTokensNext
    <2>2. QED
      BY <2>1
  <1>3. QED
    BY <1>1, <1>2

\* The frame of these steps: what is left to show is the locals of the thread,
\* that nothing awaited is lost, and the debts.
LEMMA ShiftInv ==
    ASSUME TypeInv, GraphInv, NEW th \in Thread, Quiet(th), \A t \in Task : Kept(t),
           created' = created, prereqs' = prereqs, handles' = handles, queues' = queues,
           \A t \in Task : task'[t].queued => task[t].queued,
           \A t \in created : ToSet(task'[t].dependents) \subseteq created,
           \A t \in Task \ created : task'[t] = task[t],
           Local(th)', WaitInv', DebtInv'
    PROVE  GraphInv'
  <1>1. created \subseteq Task
    BY DEF TypeInv, SharedInv
  <1>2. CreatedInv'
    BY <1>1, QueuedFollows, CreatedStays DEF GraphInv, CreatedInv
  <1>3. FlagInv'
    BY QuietFlags DEF GraphInv
  <1>4. QueuedReady'
    BY QueuedReadyStays DEF GraphInv
  <1>5. \A o \in Thread : Local(o)'
    <2>1. \A o \in Thread \ {th} : Local(o)'
      BY LocalStays DEF GraphInv, Quiet, Others
    <2>2. QED
      BY <2>1
  <1>6. QED
    BY <1>2, <1>3, <1>4, <1>5 DEF GraphInv

\* What is written to the count and the list of a task.
LEMMA PendingWrite ==
    ASSUME task \in [Task -> TaskState], NEW u \in Task,
           task' = [task EXCEPT ![u].pending = @ - 1]
    PROVE  /\ task'[u].pending = task[u].pending - 1
           /\ \A t \in Task : /\ task'[t].queued = task[t].queued
                              /\ task'[t].dependents = task[t].dependents
           /\ \A t \in Task \ {u} : task'[t] = task[t]
  BY DEF TaskState

\* A write to the dependents of one task changes nothing else.
LEMMA DependentsWrite ==
    ASSUME task \in [Task -> TaskState], NEW u \in Task, NEW s,
           task' = [task EXCEPT ![u].dependents = s]
    PROVE  /\ task'[u].dependents = s
           /\ \A t \in Task : /\ task'[t].queued = task[t].queued
                              /\ task'[t].pending = task[t].pending
           /\ \A t \in Task \ {u} : task'[t] = task[t]
  BY DEF TaskState

\* Launch counts down for a prerequisite that is over or empty.
LEMMA DiscountGraph ==
    ASSUME TypeInv, GraphInv, NEW c \in Client,
           ExamineCanceled(c) \/ ExamineFinished(c) \/ AddFailed(c), Discount(c)
    PROVE  GraphInv'
  <1> DEFINE h == Head(todo[c])
             n == Len(todo[c])
             x == <<"held", c, n>>
  <1>1. /\ c \in Thread /\ c \notin Worker /\ Local(c) /\ Known(c) /\ created \subseteq Task
        /\ pc[c] \in ExamineLabel /\ cur[c] \in created /\ todo[c] # <<>>
        /\ todo[c] \in Seq(Task \union {NoTask})
    BY KnownTasks, Held, TaskAssumption
       DEF Thread, GraphInv, Local, ExamineCanceled, ExamineFinished, AddFailed, TypeInv,
           ExamineLabel, TaskLabel, HeadLabel
  <1>2. PICK t \in created : t = cur[c]
    BY <1>1
  <1>3. Quiet(c) /\ Steady(c) /\ Others(c) /\ \A u \in Task : Kept(u)
    BY QuietClient, ClientSteady DEF Steady
  <1>4. /\ pc'[c] = "examine" /\ cur'[c] = cur[c] /\ todo'[c] = Tail(todo[c])
        /\ queues' = queues /\ UNCHANGED <<created, prereqs, handles>>
        /\ task' = [task EXCEPT ![t].pending = @ - 1]
    BY <1>1, <1>2 DEF TypeInv, ThreadInv, ExamineCanceled, ExamineFinished, AddFailed, Discount,
                Goto, historyVars, queueVars
  <1>5. h = NoTask \/ Over(h)
    <2>1. CASE ExamineCanceled(c)
      <3>1. ~(h = NoTask \/ task[h].canceled) => pc'[c] = "examineFinished"
        BY <1>1, <2>1 DEF ExamineCanceled, Goto, TypeInv, ThreadInv
      <3>2. QED
        BY <1>4, <3>1 DEF Over
    <2>2. CASE ExamineFinished(c)
      <3>1. ~task[h].finished => pc'[c] = "addDependent"
        BY <1>1, <2>2 DEF ExamineFinished, Goto, TypeInv, ThreadInv
      <3>2. QED
        BY <1>4, <3>1 DEF Over
    <2>3. CASE AddFailed(c)
      BY <1>1, <2>3 DEF AddFailed, Local, Seen, Over
    <2>4. QED
      BY <2>1, <2>2, <2>3
  <1>6. /\ task'[t].pending = task[t].pending - 1
        /\ \A u \in Task : /\ task'[u].queued = task[u].queued
                           /\ task'[u].dependents = task[u].dependents
        /\ \A u \in Task \ {t} : task'[u] = task[u]
    BY <1>1, <1>4, PendingWrite DEF TypeInv, SharedInv
  <1>7. ToSet(todo[c]) = {h} \union ToSet(Tail(todo[c]))
    BY <1>1, TailSet
  <1>8. Local(c)'
    BY <1>1, <1>4, <1>7, ClientLocal DEF Known
  <1>9. WaitInv'
    <2>1. \A p \in ToSet(todo[c]) \ {NoTask} : Over(p) \/ p \in ToSet(todo'[c])
      BY <1>4, <1>5, <1>7
    <2>2. \A p \in Task : ToSet(task[p].dependents) = ToSet(task'[p].dependents)
      BY <1>6
    <2>3. pc'[c] \in ExamineLabel
      BY <1>4 DEF ExamineLabel
    <2>4. QED
      BY <1>1, <1>3, <1>4, <2>1, <2>2, <2>3, WaitStays DEF GraphInv
  <1>10. DebtInv'
    <2>1. n \in Nat \ {0} /\ Len(Tail(todo[c])) = n - 1
      BY <1>1, TailAt
    <2>2. Left(c) = n /\ Left(c)' = n - 1
      BY <1>1, <1>4, <2>1 DEF Left, ExamineLabel
    <2>3. \A k, u : Owing(c, k, u)' => Owing(c, k, u) /\ k # n
      BY <1>1, <1>4, <2>1, <2>2 DEF Owing, Debtor
    <2>4. \A p \in Task : \A i, u : Listed(p, i, u)' => Listed(p, i, u)
      BY <1>6 DEF Listed
    <2>5. x \in Owed(t)
      <3>1. Owing(c, n, t)
        BY <1>2, <2>1, <2>2 DEF Owing, Debtor
      <3>2. QED
        BY <1>1, <3>1, OwedTokens
    <2> SUFFICES ASSUME NEW u \in Task PROVE Paid(u)'
      BY DEF DebtInv
    <2>6. Paid(u) /\ task[u].pending \in Int
      BY DEF GraphInv, DebtInv, TypeInv, SharedInv, TaskState
    <2>7. Owed(u)' \subseteq Owed(u) \ {x}
      <3>1. PICK j : j = n
        OBVIOUS
      <3>2. \A k : Owing(c, k, u)' => Owing(c, k, u) /\ k # j
        BY <2>3, <3>1
      <3>3. \A p \in Task : \A i : Listed(p, i, u)' => Listed(p, i, u)
        BY <2>4
      <3>4. Owed(u)' \subseteq Owed(u) \ {<<"held", c, j>>}
        BY <1>1, <1>3, <3>2, <3>3, OwedButOne
      <3>5. QED
        BY <3>1, <3>4
    <2>8. CASE u = t
      BY <1>6, <2>5, <2>6, <2>7, <2>8, OnePaid
    <2>9. CASE u # t
      BY <1>6, <2>6, <2>7, <2>9, FewerOwed
    <2>10. QED
      BY <2>8, <2>9
  <1>11. QED
    <2>1. \A u \in created : ToSet(task'[u].dependents) \subseteq created
      BY <1>1, <1>6 DEF GraphInv, CreatedInv
    <2>2. \A u \in Task \ created : task'[u] = task[u]
      BY <1>6
    <2>3. QED
      BY <1>1, <1>3, <1>4, <1>6, <1>8, <1>9, <1>10, <2>1, <2>2, ShiftInv

\* Launch leaves the notice to a prerequisite that is not over: the client
\* gives one away, the prerequisite holds one more.
LEMMA AddGraph ==
    ASSUME TypeInv, GraphInv, NEW c \in Client, TryAddDependent(c),
           ~task[Head(todo[c])].finished
    PROVE  GraphInv'
  <1> DEFINE n == Len(todo[c])
             x == <<"held", c, n>>
  <1>1. /\ c \in Thread /\ c \notin Worker /\ Known(c) /\ created \subseteq Task
        /\ pc[c] \in ExamineLabel /\ cur[c] \in created /\ todo[c] # <<>>
        /\ todo[c] \in Seq(Task \union {NoTask}) /\ Head(todo[c]) \in created
    BY KnownTasks, Held, TaskAssumption
       DEF Thread, GraphInv, Local, TryAddDependent, TypeInv, ExamineLabel, TaskLabel, HeadLabel
  <1>2. PICK t \in created : t = cur[c]
    BY <1>1
  <1>3. PICK h \in created : h = Head(todo[c])
    BY <1>1
  <1> DEFINE m == Len(task[h].dependents) + 1
             y == <<"listed", h, m>>
  <1>4. Quiet(c) /\ Others(c) /\ \A u \in Task : Kept(u)
    BY QuietClient, ClientSteady DEF Steady
  <1>5. /\ pc'[c] = "examine" /\ cur'[c] = cur[c] /\ todo'[c] = Tail(todo[c])
        /\ queues' = queues /\ UNCHANGED <<created, prereqs, handles>>
        /\ task' = [task EXCEPT ![h].dependents = Append(task[h].dependents, t)]
    BY <1>1, <1>2, <1>3
       DEF TypeInv, ThreadInv, TryAddDependent, Goto, historyVars, queueVars
  <1>6. /\ task'[h].dependents = Append(task[h].dependents, t)
        /\ \A u \in Task : /\ task'[u].queued = task[u].queued
                           /\ task'[u].pending = task[u].pending
        /\ \A u \in Task \ {h} : task'[u] = task[u]
    BY <1>1, <1>5, DependentsWrite DEF TypeInv, SharedInv
  <1>7. /\ task[h].dependents \in Seq(Task) /\ m - 1 \in Nat /\ m \in Nat
        /\ DOMAIN task[h].dependents = 1 .. m - 1 /\ DOMAIN task'[h].dependents = 1 .. m
        /\ \A i \in 1 .. m - 1 : task'[h].dependents[i] = task[h].dependents[i]
        /\ task'[h].dependents[m] = t
    <2>1. task[h].dependents \in Seq(Task)
      BY <1>1 DEF TypeInv, SharedInv, TaskState
    <2>2. QED
      BY <1>1, <1>6, <2>1, AppendAt
  <1>8. ToSet(task'[h].dependents) = ToSet(task[h].dependents) \union {t}
    <2>1. \A i \in 1 .. m : i \in 1 .. m - 1 \/ i = m
      BY <1>7
    <2>2. 1 .. m - 1 \subseteq 1 .. m /\ m \in 1 .. m
      BY <1>7
    <2>3. ToSet(task'[h].dependents) \subseteq ToSet(task[h].dependents) \union {t}
      BY <1>7, <2>1 DEF ToSet
    <2>4. t \in ToSet(task'[h].dependents)
      BY <1>7, <2>2 DEF ToSet
    <2>5. ToSet(task[h].dependents) \subseteq ToSet(task'[h].dependents)
      BY <1>7, <2>2 DEF ToSet
    <2>6. QED
      BY <2>3, <2>4, <2>5
  <1>9. ToSet(todo[c]) = {h} \union ToSet(Tail(todo[c]))
    BY <1>1, <1>3, TailSet
  <1>10. Local(c)'
    BY <1>1, <1>5, <1>9, ClientLocal DEF Known
  <1>11. WaitInv'
    <2>1. \A p \in ToSet(todo[c]) \ {NoTask} :
             p \in ToSet(todo'[c]) \/ cur[c] \in ToSet(task'[p].dependents)
      BY <1>2, <1>5, <1>8, <1>9
    <2>2. \A p \in Task : ToSet(task[p].dependents) \subseteq ToSet(task'[p].dependents)
      BY <1>6, <1>8
    <2>3. pc'[c] \in ExamineLabel
      BY <1>5 DEF ExamineLabel
    <2>4. QED
      BY <1>1, <1>4, <1>5, <2>1, <2>2, <2>3, WaitStays DEF GraphInv
  <1>12. DebtInv'
    <2>1. n \in Nat \ {0} /\ Len(Tail(todo[c])) = n - 1
      BY <1>1, TailAt
    <2>2. Left(c) = n /\ Left(c)' = n - 1
      BY <1>1, <1>5, <2>1 DEF Left, ExamineLabel
    <2>3. \A k, u : Owing(c, k, u)' => Owing(c, k, u) /\ k # n
      BY <1>1, <1>5, <2>1, <2>2 DEF Owing, Debtor
    <2>4. \A p \in Task : \A i, u : Listed(p, i, u)' =>
             Listed(p, i, u) \/ (u = t /\ p = h /\ i = m)
      <3> SUFFICES ASSUME NEW p \in Task, NEW i, NEW u, Listed(p, i, u)'
                   PROVE  Listed(p, i, u) \/ (u = t /\ p = h /\ i = m)
        OBVIOUS
      <3>1. CASE p # h
        BY <1>6, <3>1 DEF Listed
      <3>2. CASE p = h
        <4>1. i \in 1 .. m /\ task'[h].dependents[i] = u
          BY <1>7, <3>2 DEF Listed
        <4>2. i = m \/ i \in 1 .. m - 1
          BY <1>7, <4>1
        <4>3. QED
          BY <1>7, <3>2, <4>1, <4>2 DEF Listed
      <3>3. QED
        BY <3>1, <3>2
    <2>5. x \in Owed(t)
      <3>1. Owing(c, n, t)
        BY <1>2, <2>1, <2>2 DEF Owing, Debtor
      <3>2. QED
        BY <1>1, <3>1, OwedTokens
    <2> SUFFICES ASSUME NEW u \in Task PROVE Paid(u)'
      BY DEF DebtInv
    <2>6. Paid(u) /\ task[u].pending \in Int
      BY DEF GraphInv, DebtInv, TypeInv, SharedInv, TaskState
    <2>7. CASE u = t
      <3>1. Owed(t)' \subseteq (Owed(t) \ {x}) \union {y}
        <4> SUFFICES ASSUME NEW z \in Owed(t)', z # y PROVE z \in Owed(t) /\ z # x
          OBVIOUS
        <4>1. CASE \E p \in Task : \E i : Listed(p, i, t)' /\ z = <<"listed", p, i>>
          <5>1. PICK p \in Task : \E i : Listed(p, i, t)' /\ z = <<"listed", p, i>>
            BY <4>1
          <5>2. PICK i : Listed(p, i, t)' /\ z = <<"listed", p, i>>
            BY <5>1
          <5>3. Listed(p, i, t)
            BY <2>4, <5>2
          <5>4. z \in Owed(t)
            BY <5>2, <5>3, OwedTokens
          <5>5. QED
            BY <5>2, <5>4
        <4>2. CASE \E o \in Thread : \E k : Owing(o, k, t)' /\ z = <<"held", o, k>>
          <5>1. PICK o \in Thread : \E k : Owing(o, k, t)' /\ z = <<"held", o, k>>
            BY <4>2
          <5>2. PICK k : Owing(o, k, t)' /\ z = <<"held", o, k>>
            BY <5>1
          <5>3. Owing(o, k, t) /\ (o = c => k # n)
            BY <1>4, <2>3, <5>2, OwingStays DEF Others
          <5>4. z \in Owed(t)
            BY <5>2, <5>3, OwedTokens
          <5>5. QED
            BY <5>2, <5>3, <5>4
        <4>3. QED
          BY <4>1, <4>2, OwedTokensNext
      <3>2. task'[t].pending = task[t].pending
        BY <1>1, <1>6
      <3>3. QED
        BY <2>5, <2>6, <2>7, <3>1, <3>2, OneMoved
    <2>8. CASE u # t
      <3>1. Owed(u)' \subseteq Owed(u)
        BY <1>1, <1>4, <2>3, <2>4, <2>8, OwedFrom
      <3>2. QED
        BY <1>6, <2>6, <3>1, FewerOwed
    <2>9. QED
      BY <2>7, <2>8
  <1>13. QED
    <2>1. \A u \in created : ToSet(task'[u].dependents) \subseteq created
      BY <1>1, <1>6, <1>8 DEF GraphInv, CreatedInv
    <2>2. \A u \in Task \ created : task'[u] = task[u]
      BY <1>6
    <2>3. QED
      BY <1>1, <1>4, <1>5, <1>6, <1>10, <1>11, <1>12, <2>1, <2>2, ShiftInv

\* The dependents of a canceled task go on to be canceled: the notices they
\* are owed are never given, and nobody waits for them.
LEMMA CancelDependentsGraph ==
    ASSUME TypeInv, GraphInv, NEW c \in Client, CancelDependents(c)
    PROVE  GraphInv'
  <1>1. /\ c \in Thread /\ c \notin Worker /\ Known(c) /\ Local(c) /\ created \subseteq Task
        /\ pc[c] = "cancelDependents" /\ todo[c] # <<>> /\ Head(todo[c]) \in created
        /\ todo[c] \in Seq(Task)
    BY KnownTasks, Held, TaskAssumption
       DEF Thread, GraphInv, Local, CancelDependents, TypeInv, ExamineLabel, HeadLabel
  <1>2. PICK h \in created : h = Head(todo[c])
    BY <1>1
  <1>3. Quiet(c) /\ Others(c) /\ \A u \in Task : Kept(u)
    BY QuietClient, ClientSteady DEF Steady
  <1>4. /\ pc'[c] = "cancel" /\ cur'[c] = cur[c]
        /\ todo'[c] = task[h].dependents \o Tail(todo[c])
        /\ queues' = queues /\ UNCHANGED <<created, prereqs, handles>>
        /\ task' = [task EXCEPT ![h].dependents = <<>>]
    BY <1>1, <1>2
       DEF TypeInv, ThreadInv, CancelDependents, Goto, historyVars, queueVars
  <1>5. /\ task'[h].dependents = <<>>
        /\ \A u \in Task : /\ task'[u].queued = task[u].queued
                           /\ task'[u].pending = task[u].pending
        /\ \A u \in Task \ {h} : task'[u] = task[u]
    BY <1>1, <1>4, DependentsWrite DEF TypeInv, SharedInv
  <1>6. Over(h)
    BY <1>1, <1>2 DEF Local, Seen, Over
  <1>7. Local(c)'
    <2>1. task[h].dependents \in Seq(Task) /\ Tail(todo[c]) \in Seq(Task)
      BY <1>1 DEF TypeInv, SharedInv, TaskState
    <2>2. ToSet(todo'[c]) \subseteq ToSet(task[h].dependents) \union ToSet(Tail(todo[c]))
      BY <1>4, <2>1, JoinSet
    <2>3. ToSet(Tail(todo[c])) \subseteq ToSet(todo[c])
      BY <1>1, TailSet
    <2>4. ToSet(task[h].dependents) \subseteq created
      BY DEF GraphInv, CreatedInv
    <2>5. QED
      BY <1>1, <1>4, <2>2, <2>3, <2>4, ClientLocal DEF Known
  <1>8. WaitInv'
    <2>1. \A p \in Task : \/ Over(p)
                         \/ ToSet(task[p].dependents) \subseteq ToSet(task'[p].dependents)
      BY <1>5, <1>6
    <2>2. pc[c] \notin ExamineLabel
      BY <1>1 DEF ExamineLabel
    <2>3. QED
      BY <1>1, <1>3, <1>4, <2>1, <2>2, WaitStays DEF GraphInv
  <1>9. DebtInv'
    <2> SUFFICES ASSUME NEW u \in Task PROVE Paid(u)'
      BY DEF DebtInv
    <2>1. Paid(u) /\ task[u].pending \in Int
      BY DEF GraphInv, DebtInv, TypeInv, SharedInv, TaskState
    <2>2. \A p \in Task : \A i : Listed(p, i, u)' => Listed(p, i, u)
      BY <1>5 DEF Listed
    <2>3. \A k : ~Owing(c, k, u)'
      BY <1>1, <1>4, OwesNothing DEF ExamineLabel
    <2>4. Owed(u)' \subseteq Owed(u)
      BY <1>1, <1>3, <2>2, <2>3, OwedFrom
    <2>5. QED
      BY <1>5, <2>1, <2>4, FewerOwed
  <1>10. QED
    <2>1. \A u \in created : ToSet(task'[u].dependents) \subseteq created
      BY <1>1, <1>5, OneSet DEF GraphInv, CreatedInv
    <2>2. \A u \in Task \ created : task'[u] = task[u]
      BY <1>5
    <2>3. QED
      BY <1>1, <1>3, <1>4, <1>5, <1>7, <1>8, <1>9, <2>1, <2>2, ShiftInv

\* The owner of the system touches neither tasks nor lists; the workers it
\* starts again had left.
LEMMA OwnerGraph ==
    ASSUME TypeInv, GraphInv, InflightInv,
           TerminateBegin \/ OwnerStep \/ ShutdownSpurious \/ Reinitialize
    PROVE  GraphInv'
  <1>1. /\ queues' = queues /\ task' = task /\ cur' = cur /\ todo' = todo
        /\ UNCHANGED <<created, prereqs, handles>>
    BY DEF TerminateBegin, OwnerStep, ShutdownPredicate, ShutdownSleep, JoinWorkers,
           ShutdownSpurious, Reinitialize, queueVars, localVars, historyVars
  <1>2. \A th \in Thread : pc'[th] = pc[th] \/ (pc[th] = "exited" /\ pc'[th] = "pop")
    <2>1. CASE Reinitialize
      <3>1. \A w \in Worker : pc[w] = "exited"
        BY <2>1 DEF Reinitialize, InflightInv, HandsFree
      <3>2. QED
        BY <2>1, <3>1 DEF Reinitialize
    <2>2. CASE TerminateBegin \/ OwnerStep \/ ShutdownSpurious
      BY <2>2 DEF TerminateBegin, OwnerStep, ShutdownPredicate, ShutdownSleep, JoinWorkers,
                  ShutdownSpurious, localVars
    <2>3. QED
      BY <2>1, <2>2
  <1>3. Queued' = Queued /\ \A t : Ready(t)' <=> Ready(t)
    BY <1>1, QueuedFollows DEF Ready, WaitsFor, Over
  <1>4. CreatedInv' /\ QueuedReady'
    BY <1>1, <1>3 DEF GraphInv, CreatedInv, QueuedReady, WaitsFor
  <1>5. FlagInv'
    BY <1>1, <1>2 DEF GraphInv, FlagInv, Owns, RunLabel, CancelLabel, FreshLabel
  <1>6. WaitInv'
    <2>1. \A c \in Client : pc[c] \in ExamineLabel => pc'[c] \in ExamineLabel
      BY <1>2 DEF ExamineLabel, Thread
    <2>2. \A t, p : Awaits(t, p) => Awaits(t, p)'
      BY <1>1, <2>1 DEF Awaits
    <2>3. QED
      BY <1>1, <2>2 DEF GraphInv, WaitInv, WaitsFor, Over
  <1>7. DebtInv'
    <2> SUFFICES ASSUME NEW u \in Task PROVE Paid(u)'
      BY DEF DebtInv
    <2>1. Paid(u) /\ task[u].pending \in Int
      BY DEF GraphInv, DebtInv, TypeInv, SharedInv, TaskState
    <2>2. \A p \in Task : \A i : Listed(p, i, u)' => Listed(p, i, u)
      BY <1>1 DEF Listed
    <2>3. \A th \in Thread : \A k : Owing(th, k, u)' => Owing(th, k, u)
      BY <1>1, <1>2 DEF Owing, Left, Debtor, ExamineLabel
    <2>4. Owed(u)' \subseteq Owed(u)
      BY <2>2, <2>3, OwedTokens, OwedTokensNext
    <2>5. QED
      BY <1>1, <2>1, <2>4, FewerOwed
  <1>8. ASSUME NEW th \in Thread
        PROVE  Local(th)'
    <2>1. Known(th)'
      BY <1>1 DEF GraphInv, Local, Known
    <2>2. Seen(th)'
      BY <1>1, <1>2 DEF GraphInv, Local, Seen
    <2>3. Cleared(th)'
      BY <1>1, <1>2, <1>3 DEF GraphInv, Local, Cleared, Ready, WaitsFor, Over
    <2>4. QED
      BY <2>1, <2>2, <2>3 DEF Local
  <1>9. QED
    BY <1>4, <1>5, <1>6, <1>7, <1>8 DEF GraphInv

\* A worker that gives notice: the count goes down with the notice, and when
\* it is down to 0 this was the last one.
LEMMA DecrementGraph ==
    ASSUME TypeInv, GraphInv, NEW w \in Worker, DecrementPending(w)
    PROVE  GraphInv'
  <1> DEFINE x == <<"held", w, Len(todo[w])>>
  <1>1. /\ w \in Thread /\ w \notin Client /\ Known(w) /\ Local(w) /\ created \subseteq Task
        /\ pc[w] = "decrement" /\ todo[w] # <<>> /\ Head(todo[w]) \in created
        /\ todo[w] \in Seq(Task) /\ ToSet(Tail(todo[w])) \subseteq ToSet(todo[w])
    BY KnownTasks, Held, TaskAssumption
       DEF Thread, GraphInv, Local, DecrementPending, TypeInv, ExamineLabel, HeadLabel
  <1>2. PICK h \in created : h = Head(todo[w])
    BY <1>1
  <1>3. Quiet(w) /\ Others(w) /\ \A u \in Task : Kept(u)
    BY QuietWorker, WorkerSteady DEF Steady
  <1>4. /\ cur'[w] = cur[w]
        /\ \/ task[h].pending - 1 <= 0 /\ pc'[w] = "recheck" /\ todo'[w] = todo[w]
           \/ pc'[w] = "schedule" /\ todo'[w] = Tail(todo[w])
        /\ queues' = queues /\ UNCHANGED <<created, prereqs, handles>>
        /\ task' = [task EXCEPT ![h].pending = @ - 1]
    BY <1>1, <1>2
       DEF TypeInv, ThreadInv, DecrementPending, Goto, historyVars, queueVars
  <1>5. /\ task'[h].pending = task[h].pending - 1
        /\ \A u \in Task : /\ task'[u].queued = task[u].queued
                           /\ task'[u].dependents = task[u].dependents
        /\ \A u \in Task \ {h} : task'[u] = task[u]
    BY <1>1, <1>4, PendingWrite DEF TypeInv, SharedInv
  <1>6. PICK n : n = Len(todo[w])
    OBVIOUS
  <1>7. n \in Nat \ {0} /\ h = todo[w][1]
    BY <1>1, <1>2, <1>6, TailAt
  <1>8. <<"held", w, n>> \in Owed(h)
    <2>1. Left(w) = n
      BY <1>1, <1>6 DEF Left
    <2>2. Owing(w, n, h)
      BY <1>1, <1>6, <1>7, <2>1 DEF Owing, Debtor
    <2>3. QED
      BY <1>1, <2>2, OwedTokens
  <1>9. \A u, k : Owing(w, k, u)' => Owing(w, k, u) /\ k # n
    <2>1. CASE pc'[w] = "recheck" /\ todo'[w] = todo[w]
      <3>1. Left(w) = n /\ Left(w)' = n - 1
        BY <1>1, <1>6, <2>1 DEF Left, ExamineLabel
      <3>2. QED
        BY <1>1, <1>7, <2>1, <3>1 DEF Owing, Debtor
    <2>2. CASE pc'[w] = "schedule" /\ todo'[w] = Tail(todo[w])
      BY <1>1, <1>6, <2>2, TailOwing
    <2>3. QED
      BY <1>4, <2>1, <2>2
  <1>10. DebtInv'
    <2> SUFFICES ASSUME NEW u \in Task PROVE Paid(u)'
      BY DEF DebtInv
    <2>1. Paid(u) /\ task[u].pending \in Int
      BY DEF GraphInv, DebtInv, TypeInv, SharedInv, TaskState
    <2>2. \A p \in Task : \A i : Listed(p, i, u)' => Listed(p, i, u)
      BY <1>5 DEF Listed
    <2>3. Owed(u)' \subseteq Owed(u) \ {<<"held", w, n>>}
      <3>1. \A k : Owing(w, k, u)' => Owing(w, k, u) /\ k # n
        BY <1>9
      <3>2. QED
        BY <1>1, <1>3, <2>2, <3>1, OwedButOne
    <2>4. CASE u = h
      BY <1>5, <1>8, <2>1, <2>3, <2>4, OnePaid
    <2>5. CASE u # h
      BY <1>5, <2>1, <2>3, <2>5, FewerOwed
    <2>6. QED
      BY <2>4, <2>5
  <1>11. Local(w)'
    <2>1. Known(w)'
      BY <1>1, <1>4 DEF Known
    <2>2. CASE pc'[w] # "recheck"
      BY <1>3, <1>4, <2>1, <2>2, WorkerLocal
    <2>3. CASE pc'[w] = "recheck"
      <3>1. Ready(h)
        <4>1. Paid(h) /\ task[h].pending \in Int /\ task[h].pending - 1 <= 0
          BY <1>1, <1>4, <2>3 DEF GraphInv, DebtInv, TypeInv, SharedInv, TaskState
        <4>2. /\ IsFiniteSet(Owed(h) \ {<<"held", w, n>>}) /\ Cardinality(Owed(h)) \in Nat
              /\ Cardinality(Owed(h) \ {<<"held", w, n>>}) = Cardinality(Owed(h)) - 1
          BY <1>8, <4>1, Shrink DEF Paid
        <4>3. Cardinality(Owed(h) \ {<<"held", w, n>>}) \in Nat
          BY <4>2, FS_CardinalityType
        <4>4. Cardinality(Owed(h) \ {<<"held", w, n>>}) = 0
          BY <4>1, <4>2, <4>3 DEF Paid
        <4>5. Owed(h) \ {<<"held", w, n>>} = {}
          BY <4>2, <4>4, FS_EmptySet
        <4>6. \A z \in Owed(h) : z = <<"held", w, n>>
          BY <4>5
        <4>7. QED
          BY <4>6, NothingAwaited DEF GraphInv
      <3>2. \A t \in created : Ready(t) => Ready(t)'
        BY <1>3, <1>4, ReadyKept DEF GraphInv
      <3>3. cur[w] # NoTask => cur[w] \in created /\ Ready(cur[w])
        BY <1>1 DEF Local, Cleared, Known
      <3>4. cur[w] # NoTask => \E u \in created : u = cur[w] /\ Ready(u)'
        BY <3>2, <3>3
      <3>5. Ready(h)' /\ todo'[w] = todo[w]
        BY <1>4, <2>3, <3>1, <3>2
      <3>6. Cleared(w)'
        BY <1>1, <1>2, <1>4, <2>3, <3>4, <3>5 DEF Cleared, Ready
      <3>7. QED
        BY <2>1, <2>3, <3>6 DEF Local, Seen
    <2>4. QED
      BY <2>2, <2>3
  <1>12. WaitInv'
    <2>1. \A p \in Task : ToSet(task[p].dependents) = ToSet(task'[p].dependents)
      BY <1>5
    <2>2. QED
      BY <1>1, <1>3, <1>4, <2>1, WaitStays DEF GraphInv
  <1>13. QED
    <2>1. \A u \in created : ToSet(task'[u].dependents) \subseteq created
      BY <1>1, <1>5 DEF GraphInv, CreatedInv
    <2>2. \A u \in Task \ created : task'[u] = task[u]
      BY <1>5
    <2>3. QED
      BY <1>1, <1>3, <1>4, <1>5, <1>10, <1>11, <1>12, <2>1, <2>2, ShiftInv

\* A set is no larger than the numbers its elements are counted with, or than
\* the set they come from.
LEMMA AtMost ==
    ASSUME NEW n \in Nat, NEW f, NEW S, \A z \in S : \E i \in 1 .. n : z = f[i]
    PROVE  IsFiniteSet(S) /\ Cardinality(S) <= n /\ Cardinality(S) \in Nat
  <1> DEFINE T == {f[i] : i \in 1 .. n}
             g == [i \in 1 .. n |-> f[i]]
  <1>1. g \in Surjection(1 .. n, T)
    BY DEF Surjection
  <1>2. IsFiniteSet(1 .. n) /\ Cardinality(1 .. n) = n
    BY FS_Interval
  <1> HIDE DEF g, T
  <1>3. IsFiniteSet(T) /\ Cardinality(T) <= n
    BY <1>1, <1>2, FS_Surjection
  <1>4. S \subseteq T
    BY DEF T
  <1>5. IsFiniteSet(S) /\ Cardinality(S) <= Cardinality(T)
    BY <1>3, <1>4, FS_Subset
  <1>6. Cardinality(S) \in Nat /\ Cardinality(T) \in Nat
    BY <1>3, <1>5, FS_CardinalityType
  <1>7. QED
    BY <1>3, <1>5, <1>6

\* A set that maps one to one into a finite set is no larger than it.
LEMMA NoMore ==
    ASSUME NEW S, NEW T, IsFiniteSet(T), NEW f \in [S -> T],
           \A y, z \in S : f[y] = f[z] => y = z
    PROVE  IsFiniteSet(S) /\ Cardinality(S) <= Cardinality(T)
  <1>1. f \in Injection(S, T)
    BY DEF Injection, IsInjective
  <1>2. QED
    BY <1>1, FS_Injection

\* A worker takes the dependents of the task it finished: the notices they are
\* owed move from the task to the worker, one for one.
LEMMA CollectGraph ==
    ASSUME TypeInv, GraphInv, NEW w \in Worker, CollectDependents(w)
    PROVE  GraphInv'
  <1>1. /\ w \in Thread /\ w \notin Client /\ Known(w) /\ Local(w) /\ created \subseteq Task
        /\ pc[w] = "collect" /\ cur[w] \in created
    BY KnownTasks, TaskAssumption
       DEF Thread, GraphInv, Local, CollectDependents, TaskLabel
  <1>2. PICK x \in created : x = cur[w]
    BY <1>1
  <1>3. Quiet(w) /\ Others(w) /\ \A u \in Task : Kept(u)
    BY QuietWorker, WorkerSteady DEF Steady
  <1>4. /\ pc'[w] = "schedule" /\ cur'[w] = cur[w] /\ todo'[w] = task[x].dependents
        /\ queues' = queues /\ UNCHANGED <<created, prereqs, handles>>
        /\ task' = [task EXCEPT ![x].dependents = <<>>]
    BY <1>1, <1>2
       DEF TypeInv, ThreadInv, CollectDependents, Goto, historyVars, queueVars
  <1>5. /\ task'[x].dependents = <<>>
        /\ \A u \in Task : /\ task'[u].queued = task[u].queued
                           /\ task'[u].pending = task[u].pending
        /\ \A u \in Task \ {x} : task'[u] = task[u]
    BY <1>1, <1>4, DependentsWrite DEF TypeInv, SharedInv
  <1>6. Over(x)
    BY <1>1, <1>2 DEF Local, Seen, Over
  <1>7. ToSet(task[x].dependents) \subseteq created
    BY DEF GraphInv, CreatedInv
  <1>8. Local(w)'
    <2>1. Known(w)'
      BY <1>1, <1>4, <1>7 DEF Known
    <2>2. QED
      BY <1>3, <1>4, <2>1, WorkerLocal
  <1>9. WaitInv'
    <2>1. \A p \in Task : \/ Over(p)
                         \/ ToSet(task[p].dependents) \subseteq ToSet(task'[p].dependents)
      BY <1>5, <1>6
    <2>2. QED
      BY <1>1, <1>3, <1>4, <2>1, WaitStays DEF GraphInv
  <1>10. PICK m : m = Len(task[x].dependents)
    OBVIOUS
  <1>11. m \in Nat /\ DOMAIN task[x].dependents = 1 .. m
    BY <1>1, <1>10 DEF TypeInv, SharedInv, TaskState
  <1>12. ASSUME NEW u, NEW k, Owing(w, k, u)'
         PROVE  k \in 1 .. m /\ m + 1 - k \in 1 .. m /\ Listed(x, m + 1 - k, u)
    <2>1. k \in 1 .. m /\ task[x].dependents[m + 1 - k] = u
      BY <1>1, <1>4, <1>10, <1>12 DEF Owing, Left, Debtor
    <2>2. m + 1 - k \in 1 .. m
      BY <1>11, <2>1
    <2>3. QED
      BY <1>11, <2>1, <2>2 DEF Listed
  <1>13. \A p \in Task : \A i, u : Listed(p, i, u)' => Listed(p, i, u) /\ p # x
    BY <1>1, <1>5 DEF Listed
  <1>14. \A o \in Thread \ {w} : \A k, u : Owing(o, k, u)' => Owing(o, k, u)
    BY <1>3, OwingStays DEF Others
  <1>15. DebtInv'
    <2> SUFFICES ASSUME NEW u \in Task PROVE Paid(u)'
      BY DEF DebtInv
    <2>1. Paid(u) /\ task[u].pending \in Int
      BY DEF GraphInv, DebtInv, TypeInv, SharedInv, TaskState
    <2> DEFINE Moved(z) == z[1] = "held" /\ z[2] = w
               Origin(z) == IF Moved(z) THEN <<"listed", x, m + 1 - z[3]>> ELSE z
    <2>2. ASSUME NEW z \in Owed(u)'
          PROVE  /\ Origin(z) \in Owed(u)
                 /\ Moved(z) => z[3] \in 1 .. m /\ z = <<"held", w, z[3]>>
                 /\ ~Moved(z) => \A i : z # <<"listed", x, i>>
      <3>1. CASE \E p \in Task : \E i : Listed(p, i, u)' /\ z = <<"listed", p, i>>
        <4>1. PICK p \in Task : \E i : Listed(p, i, u)' /\ z = <<"listed", p, i>>
          BY <3>1
        <4>2. PICK i : Listed(p, i, u)' /\ z = <<"listed", p, i>>
          BY <4>1
        <4>3. Listed(p, i, u) /\ p # x
          BY <1>13, <4>2
        <4>4. z \in Owed(u)
          BY <4>2, <4>3, OwedTokens
        <4>5. QED
          BY <4>2, <4>3, <4>4
      <3>2. CASE \E o \in Thread : \E k : Owing(o, k, u)' /\ z = <<"held", o, k>>
        <4>1. PICK o \in Thread : \E k : Owing(o, k, u)' /\ z = <<"held", o, k>>
          BY <3>2
        <4>2. PICK k : Owing(o, k, u)' /\ z = <<"held", o, k>>
          BY <4>1
        <4>3. CASE o = w
          <5>1. k \in 1 .. m /\ Listed(x, m + 1 - k, u)
            BY <1>12, <4>2, <4>3
          <5>2. <<"listed", x, m + 1 - k>> \in Owed(u)
            BY <1>1, <5>1, OwedTokens
          <5>3. QED
            BY <4>2, <4>3, <5>1, <5>2
        <4>4. CASE o # w
          <5>1. z \in Owed(u)
            BY <1>14, <4>2, <4>4, OwedTokens
          <5>2. QED
            BY <4>2, <4>4, <5>1
        <4>5. QED
          BY <4>3, <4>4
      <3>3. QED
        BY <3>1, <3>2, OwedTokensNext
    <2>3. PICK f : f = [z \in Owed(u)' |-> Origin(z)]
      OBVIOUS
    <2>4. f \in [Owed(u)' -> Owed(u)]
      BY <2>2, <2>3
    <2>5. ASSUME NEW y \in Owed(u)', NEW z \in Owed(u)', f[y] = f[z]
          PROVE  y = z
      <3>1. Origin(y) = Origin(z)
        BY <2>3, <2>5
      <3>2. CASE Moved(y) /\ Moved(z)
        <4>1. PICK a \in 1 .. m : y[3] = a
          BY <2>2, <3>2
        <4>2. PICK b \in 1 .. m : z[3] = b
          BY <2>2, <3>2
        <4>3. <<"listed", x, m + 1 - a>> = <<"listed", x, m + 1 - b>>
          BY <3>1, <3>2, <4>1, <4>2
        <4>4. m + 1 - a = m + 1 - b
          BY <4>3
        <4>5. a = b
          BY <1>11, <4>4
        <4>6. QED
          BY <2>2, <3>2, <4>1, <4>2, <4>5
      <3>3. CASE ~(Moved(y) /\ Moved(z))
        BY <2>2, <3>1, <3>3
      <3>4. QED
        BY <3>2, <3>3
    <2>6. IsFiniteSet(Owed(u)') /\ Cardinality(Owed(u)') <= Cardinality(Owed(u))
      BY <2>1, <2>4, <2>5, NoMore DEF Paid
    <2>7. Cardinality(Owed(u)') \in Nat /\ Cardinality(Owed(u)) \in Nat
      BY <2>1, <2>6, FS_CardinalityType DEF Paid
    <2>8. QED
      BY <1>5, <2>1, <2>6, <2>7 DEF Paid
  <1>16. QED
    <2>1. \A u \in created : ToSet(task'[u].dependents) \subseteq created
      BY <1>1, <1>5, OneSet DEF GraphInv, CreatedInv
    <2>2. \A u \in Task \ created : task'[u] = task[u]
      BY <1>5
    <2>3. QED
      BY <1>1, <1>3, <1>4, <1>5, <1>8, <1>9, <1>15, <2>1, <2>2, ShiftInv

-----------------------------------------------------------------------------
\* The steps that construct tasks.

\* A task that was not constructed is owed nothing.
LEMMA Unowed ==
    ASSUME TypeInv, GraphInv, NEW t \in Task \ created
    PROVE  /\ \A p \in Task : \A i : ~Listed(p, i, t)
           /\ \A o \in Thread : \A k : ~Owing(o, k, t)
  <1>1. ASSUME NEW p \in Task, NEW i, Listed(p, i, t)
        PROVE  FALSE
    <2>1. t \in ToSet(task[p].dependents)
      BY <1>1 DEF Listed, ToSet
    <2>2. p \in created
      BY <2>1, OneSet DEF GraphInv, CreatedInv, NewTask
    <2>3. QED
      BY <2>1, <2>2 DEF GraphInv, CreatedInv
  <1>2. ASSUME NEW o \in Thread, NEW k, Owing(o, k, t)
        PROVE  FALSE
    <2>1. Known(o) /\ todo[o] \in Seq(Task \union {NoTask})
      BY Held DEF GraphInv, Local, TypeInv
    <2>2. CASE o \in Client
      BY <1>2, <2>1, <2>2, TaskAssumption DEF Owing, Debtor, Known
    <2>3. CASE o \notin Client
      <3>1. Len(todo[o]) \in Nat /\ DOMAIN todo[o] = 1 .. Len(todo[o])
        BY <2>1
      <3>2. k \in 1 .. Len(todo[o])
        BY <1>2, <3>1 DEF Owing, Left
      <3>3. Len(todo[o]) + 1 - k \in DOMAIN todo[o]
        BY <3>1, <3>2
      <3>4. t \in ToSet(todo[o])
        BY <1>2, <2>3, <3>3 DEF Owing, Debtor, ToSet
      <3>5. QED
        BY <2>1, <3>4, TaskAssumption DEF Known
    <2>4. QED
      BY <2>2, <2>3
  <1>3. QED
    BY <1>1, <1>2

\* The frame of these steps: what is left to show is the new tasks.
LEMMA SubmitInv ==
    ASSUME TypeInv, GraphInv, NEW c \in Client, pc[c] = "idle", Quiet(c),
           \A u \in Task : Kept(u), queues' = queues, created \subseteq created',
           \A u \in Task : task'[u].queued = task[u].queued,
           \A u \in created : prereqs'[u] = prereqs[u],
           \A u \in created : task'[u].dependents = task[u].dependents,
           CreatedInv', DebtInv', Local(c)',
           \A u \in created' \ created : \A p \in WaitsFor(u)' : Awaits(u, p)'
    PROVE  GraphInv'
  <1>1. c \in Thread /\ created \subseteq Task
    BY DEF Thread, TypeInv, SharedInv
  <1>2. FlagInv'
    BY <1>1, QuietFlags DEF GraphInv
  <1>3. QueuedReady'
    BY QueuedReadyStays DEF GraphInv
  <1>4. \A o \in Thread : Local(o)'
    <2>1. \A o \in Thread \ {c} : Local(o)'
      BY LocalStays DEF GraphInv, Quiet, Others
    <2>2. QED
      BY <2>1
  <1>5. WaitInv'
    <2>1. ASSUME NEW u \in created, NEW p \in WaitsFor(u)
          PROVE  Over(p)' \/ Awaits(u, p)'
      <3>1. p \in created
        BY DEF GraphInv, CreatedInv
      <3>2. Over(p) => Over(p)'
        BY <1>1, <3>1 DEF Over, Kept
      <3>3. ASSUME NEW d \in Client, pc[d] \in ExamineLabel, cur[d] = u, p \in ToSet(todo[d])
            PROVE  Awaits(u, p)'
        <4>1. d # c /\ d \in Thread
          BY <3>3 DEF ExamineLabel, Thread
        <4>2. QED
          BY <3>3, <4>1 DEF Awaits, Quiet, Others
      <3>4. u \in ToSet(task[p].dependents) => Awaits(u, p)'
        BY <3>1 DEF Awaits
      <3>5. QED
        BY <3>2, <3>3, <3>4 DEF GraphInv, WaitInv, Awaits
    <2>2. \A u \in created : WaitsFor(u)' = WaitsFor(u)
      BY DEF WaitsFor
    <2>3. QED
      BY <2>1, <2>2 DEF WaitInv
  <1>6. QED
    BY <1>2, <1>3, <1>4, <1>5 DEF GraphInv

\* Launch: a notice is to come for every prerequisite, and the client that
\* launches the task is the one who owes them.
LEMMA LaunchGraph ==
    ASSUME TypeInv, GraphInv, NEW c \in Client, NEW t \in Task \ created, NEW ps \in Shapes[t],
           ToSet(ps) \subseteq handles \union {NoTask}, LaunchBegin(c, t, ps)
    PROVE  GraphInv'
  <1>1. /\ c \in Thread /\ c \notin Worker /\ created \subseteq Task /\ ClientCall(c)
        /\ ps \in Seq(Task \union {NoTask}) /\ handles \subseteq created
    BY TaskAssumption DEF Thread, TypeInv, SharedInv, ClientCall, GraphInv, CreatedInv
  <1>2. Quiet(c) /\ Others(c) /\ \A u \in Task : Kept(u)
    BY <1>1, QuietClient, ClientCallSteady DEF Steady
  <1>3. PICK n : n = Len(ps)
    OBVIOUS
  <1>4. /\ pc[c] = "idle" /\ pc'[c] = "examine" /\ cur'[c] = t /\ todo'[c] = ps
        /\ queues' = queues /\ handles' = handles /\ created' = created \union {t}
        /\ task' = [task EXCEPT ![t].pending = n] /\ prereqs' = [prereqs EXCEPT ![t] = ps]
        /\ n \in Nat
    BY <1>1, <1>3 DEF TypeInv, ThreadInv, LaunchBegin, MayCall, Goto, queueVars
  <1>5. /\ task'[t].pending = n
        /\ \A u \in Task : /\ task'[u].queued = task[u].queued
                           /\ task'[u].dependents = task[u].dependents
        /\ \A u \in Task \ {t} : task'[u] = task[u]
        /\ prereqs'[t] = ps /\ \A u \in Task \ {t} : prereqs'[u] = prereqs[u]
    BY <1>4 DEF TypeInv, SharedInv, TaskState
  <1>6. WaitsFor(t)' \subseteq created /\ WaitsFor(t)' \subseteq ToSet(ps)
    BY <1>1, <1>5 DEF WaitsFor
  <1>7. \A u \in created : WaitsFor(u)' = WaitsFor(u)
    BY <1>1, <1>5 DEF WaitsFor
  <1>8. CreatedInv'
    <2>1. ToSet(task'[t].dependents) = {}
      BY <1>5, OneSet DEF GraphInv, CreatedInv, NewTask
    <2>2. Queued' \subseteq created'
      BY <1>4, QueuedFollows DEF GraphInv, CreatedInv
    <2>3. \A u \in Task \ created' : prereqs'[u] = <<>> /\ task'[u] = NewTask
      BY <1>4, <1>5 DEF GraphInv, CreatedInv
    <2>4. \A u \in created : /\ WaitsFor(u)' \subseteq created'
                            /\ ToSet(task'[u].dependents) \subseteq created'
      BY <1>1, <1>4, <1>5, <1>7 DEF GraphInv, CreatedInv
    <2>5. QED
      BY <1>1, <1>4, <1>6, <2>1, <2>2, <2>3, <2>4 DEF CreatedInv, NewTask
  <1>9. \A o \in Thread \ {c} : \A k, u : Owing(o, k, u)' => Owing(o, k, u)
    BY <1>2, OwingStays DEF Others
  <1>10. \A p \in Task : \A i, u : Listed(p, i, u)' => Listed(p, i, u)
    BY <1>5 DEF Listed
  <1>11. \A k, u : Owing(c, k, u)' => u = t /\ k \in 1 .. n
    BY <1>1, <1>3, <1>4 DEF Owing, Left, Debtor, ExamineLabel
  <1>12. DebtInv'
    <2> SUFFICES ASSUME NEW u \in Task PROVE Paid(u)'
      BY DEF DebtInv
    <2>1. CASE u = t
      <3>1. PICK f : f = [k \in 1 .. n |-> <<"held", c, k>>]
        OBVIOUS
      <3>2. ASSUME NEW z \in Owed(t)'
            PROVE  \E k \in 1 .. n : z = f[k]
        <4>1. \A p \in Task : \A i : ~Listed(p, i, t)'
          BY <1>10, Unowed
        <4>2. PICK o \in Thread : \E k : Owing(o, k, t)' /\ z = <<"held", o, k>>
          BY <4>1, OwedTokensNext
        <4>3. PICK k : Owing(o, k, t)' /\ z = <<"held", o, k>>
          BY <4>2
        <4>4. o = c
          BY <1>9, <4>3, Unowed
        <4>5. k \in 1 .. n
          BY <1>11, <4>3, <4>4
        <4>6. QED
          BY <3>1, <4>3, <4>4, <4>5
      <3>3. IsFiniteSet(Owed(t)') /\ Cardinality(Owed(t)') <= n
        BY <1>4, <3>2, AtMost
      <3>4. QED
        BY <1>5, <2>1, <3>3 DEF Paid
    <2>2. CASE u # t
      <3>1. Paid(u) /\ task[u].pending \in Int /\ task'[u].pending = task[u].pending
        BY <1>5, <2>2 DEF GraphInv, DebtInv, TypeInv, SharedInv, TaskState
      <3>2. \A k : ~Owing(c, k, u)'
        BY <1>11, <2>2
      <3>3. Owed(u)' \subseteq Owed(u)
        BY <1>1, <1>2, <1>10, <3>2, OwedFrom
      <3>4. QED
        BY <3>1, <3>3, FewerOwed
    <2>3. QED
      BY <2>1, <2>2
  <1>13. Local(c)'
    <2>1. Known(c)'
      BY <1>1, <1>4 DEF Known
    <2>2. QED
      BY <1>4, <2>1, ClientLocal
  <1>14. ASSUME NEW u \in created' \ created, NEW p \in WaitsFor(u)'
         PROVE  Awaits(u, p)'
    BY <1>4, <1>6, <1>14 DEF Awaits, ExamineLabel
  <1>15. QED
    BY <1>1, <1>2, <1>4, <1>5, <1>8, <1>12, <1>13, <1>14, SubmitInv

\* A parallel loop: the chunks wait for nobody, the join waits for them all and
\* is listed once at each.
LEMMA ParallelGraph ==
    ASSUME TypeInv, GraphInv, NEW c \in Client, NEW join \in Task \ created,
           NEW chunks \in Shapes[join], chunks # <<>>, IsInjective(chunks),
           ToSet(chunks) \subseteq Task \ (created \union {join}),
           ParallelForBegin(c, join, chunks)
    PROVE  GraphInv'
  <1> DEFINE new == ToSet(chunks)
  <1>1. /\ c \in Thread /\ c \notin Worker /\ created \subseteq Task /\ ClientCall(c)
        /\ handles \subseteq created /\ new \subseteq Task /\ join \notin new
        /\ chunks \in Seq(Task \union {NoTask}) /\ task \in [Task -> TaskState]
    BY TaskAssumption DEF Thread, TypeInv, SharedInv, ClientCall, GraphInv, CreatedInv
  <1>2. Quiet(c) /\ Others(c) /\ \A u \in Task : Kept(u)
    BY <1>1, QuietClient, ClientCallSteady DEF Steady
  <1>3. PICK n : n = Len(chunks)
    OBVIOUS
  <1>4. /\ n \in Nat /\ DOMAIN chunks = 1 .. n
    BY <1>1, <1>3
  <1>5. /\ pc[c] = "idle" /\ pc'[c] = "enqueue" /\ cur'[c] = join /\ todo'[c] = chunks
        /\ queues' = queues /\ handles' = handles
        /\ created' = created \union {join} \union new
        /\ prereqs' = [prereqs EXCEPT ![join] = chunks]
    BY <1>1 DEF TypeInv, ThreadInv, ParallelForBegin, MayCall, Goto, queueVars
  <1>6. \A u \in Task :
           task'[u] = IF u = join THEN [task[u] EXCEPT !.pending = n, !.retrieved = TRUE]
                      ELSE IF u \in new THEN [task[u] EXCEPT !.dependents = <<join>>]
                      ELSE task[u]
    BY <1>3 DEF ParallelForBegin
  <1>7. /\ task'[join].pending = n /\ task'[join].dependents = task[join].dependents
        /\ \A u \in new : task'[u].dependents = <<join>>
        /\ \A u \in Task \ new : task'[u].dependents = task[u].dependents
        /\ \A u \in Task : task'[u].queued = task[u].queued
        /\ \A u \in Task \ {join} : task'[u].pending = task[u].pending
        /\ \A u \in Task \ (new \union {join}) : task'[u] = task[u]
    BY <1>1, <1>6 DEF TaskState
  <1>8. prereqs'[join] = chunks /\ \A u \in Task \ {join} : prereqs'[u] = prereqs[u]
    BY <1>5 DEF TypeInv, SharedInv
  <1>9. WaitsFor(join)' \subseteq new
    BY <1>8 DEF WaitsFor
  <1>10. \A u \in new : WaitsFor(u)' = {}
    <2>1. \A u \in new : prereqs'[u] = <<>>
      BY <1>1, <1>8 DEF GraphInv, CreatedInv
    <2>2. QED
      BY <2>1, OneSet DEF WaitsFor
  <1>11. \A u \in created : WaitsFor(u)' = WaitsFor(u) /\ u \notin new /\ u # join
    BY <1>1, <1>8 DEF WaitsFor
  <1>12. CreatedInv'
    <2>1. ToSet(task'[join].dependents) = {}
      BY <1>7, OneSet DEF GraphInv, CreatedInv, NewTask
    <2>2. Queued' \subseteq created'
      BY <1>5, QueuedFollows DEF GraphInv, CreatedInv
    <2>3. \A u \in Task \ created' : prereqs'[u] = <<>> /\ task'[u] = NewTask
      BY <1>5, <1>7, <1>8 DEF GraphInv, CreatedInv
    <2>4. \A u \in created : /\ WaitsFor(u)' \subseteq created'
                            /\ ToSet(task'[u].dependents) \subseteq created'
      BY <1>1, <1>5, <1>7, <1>11 DEF GraphInv, CreatedInv
    <2>5. \A u \in new : /\ WaitsFor(u)' \subseteq created'
                        /\ ToSet(task'[u].dependents) \subseteq created'
      <3>1. ToSet(<<join>>) = {join} /\ join \in created'
        BY <1>5, OneSet
      <3>2. \A u \in new : ToSet(task'[u].dependents) = ToSet(<<join>>)
        BY <1>7
      <3>3. QED
        BY <1>10, <3>1, <3>2
    <2>6. WaitsFor(join)' \subseteq created' /\ ToSet(task'[join].dependents) \subseteq created'
      BY <1>5, <1>9, <2>1
    <2>7. QED
      BY <1>1, <1>5, <2>2, <2>3, <2>4, <2>5, <2>6 DEF CreatedInv, NewTask
  <1>13. \A o \in Thread : \A k, u : Owing(o, k, u)' => Owing(o, k, u) /\ o # c
    <2>1. \A o \in Thread \ {c} : \A k, u : Owing(o, k, u)' => Owing(o, k, u)
      BY <1>2, OwingStays DEF Others
    <2>2. \A k, u : ~Owing(c, k, u)'
      BY <1>1, <1>5, OwesNothing DEF ExamineLabel
    <2>3. QED
      BY <2>1, <2>2
  <1>14. \A p \in Task \ new : \A i, u : Listed(p, i, u)' => Listed(p, i, u)
    BY <1>7 DEF Listed
  <1>15. \A p \in new : \A i, u : Listed(p, i, u)' => u = join /\ i = 1
    BY <1>7 DEF Listed
  <1>16. DebtInv'
    <2> SUFFICES ASSUME NEW u \in Task PROVE Paid(u)'
      BY DEF DebtInv
    <2>1. CASE u = join
      <3>1. PICK f : f = [k \in 1 .. n |-> <<"listed", chunks[k], 1>>]
        OBVIOUS
      <3>2. ASSUME NEW z \in Owed(join)'
            PROVE  \E k \in 1 .. n : z = f[k]
        <4>1. \A o \in Thread : \A k : ~Owing(o, k, join)'
          BY <1>13, Unowed
        <4>2. PICK p \in Task : \E i : Listed(p, i, join)' /\ z = <<"listed", p, i>>
          BY <4>1, OwedTokensNext
        <4>3. PICK i : Listed(p, i, join)' /\ z = <<"listed", p, i>>
          BY <4>2
        <4>4. p \in new
          BY <1>14, <4>3, Unowed
        <4>5. i = 1
          BY <1>15, <4>3, <4>4
        <4>6. PICK k \in 1 .. n : p = chunks[k]
          BY <1>4, <4>4 DEF ToSet
        <4>7. QED
          BY <3>1, <4>3, <4>5, <4>6
      <3>3. IsFiniteSet(Owed(join)') /\ Cardinality(Owed(join)') <= n
        BY <1>4, <3>2, AtMost
      <3>4. QED
        BY <1>7, <2>1, <3>3 DEF Paid
    <2>2. CASE u # join
      <3>1. Paid(u) /\ task[u].pending \in Int /\ task'[u].pending = task[u].pending
        BY <1>7, <2>2 DEF GraphInv, DebtInv, TypeInv, SharedInv, TaskState
      <3>2. \A p \in Task : \A i : Listed(p, i, u)' => Listed(p, i, u)
        BY <1>14, <1>15, <2>2
      <3>3. Owed(u)' \subseteq Owed(u)
        BY <1>1, <1>2, <1>13, <3>2, OwedFrom
      <3>4. QED
        BY <3>1, <3>3, FewerOwed
    <2>3. QED
      BY <2>1, <2>2
  <1>17. Local(c)'
    <2>1. Known(c)'
      BY <1>1, <1>5 DEF Known
    <2>2. \A u \in new : Ready(u)'
      BY <1>10 DEF Ready
    <2>3. QED
      BY <1>1, <1>5, <2>1, <2>2 DEF Local, Seen, Cleared
  <1>18. ASSUME NEW u \in created' \ created, NEW p \in WaitsFor(u)'
         PROVE  Awaits(u, p)'
    <2>1. u = join /\ p \in new
      BY <1>5, <1>9, <1>10, <1>18
    <2>2. QED
      BY <1>7, <2>1, OneSet DEF Awaits
  <1>19. QED
    BY <1>1, <1>2, <1>5, <1>7, <1>8, <1>11, <1>12, <1>16, <1>17, <1>18, SubmitInv

-----------------------------------------------------------------------------
\* The invariant.

\* No task, no notice.
LEMMA InitGraph == Init => GraphInv
  <1> SUFFICES ASSUME Init PROVE GraphInv
    OBVIOUS
  <1>1. /\ \A t \in Task : task[t] = NewTask /\ prereqs[t] = <<>>
        /\ \A th \in Thread : pc[th] = (IF th \in Client THEN "idle" ELSE "pop")
        /\ \A th \in Thread : cur[th] = NoTask /\ todo[th] = <<>>
        /\ created = {} /\ handles = {}
    BY DEF Init
  <1>2. Queued = {}
    BY DEF Init, QueueInit, Queued
  <1>3. CreatedInv /\ FlagInv /\ WaitInv /\ QueuedReady
    BY <1>1, <1>2 DEF CreatedInv, FlagInv, WaitInv, QueuedReady, NewTask, FreshLabel
  <1>4. \A th \in Thread : Local(th)
    BY <1>1, OneSet DEF Local, Known, Seen, Cleared
  <1>5. DebtInv
    <2> SUFFICES ASSUME NEW t \in Task PROVE Paid(t)
      BY DEF DebtInv
    <2>1. \A p \in Task : \A i : ~Listed(p, i, t)
      BY <1>1 DEF Listed, NewTask
    <2>2. \A o \in Thread : \A k : ~Owing(o, k, t)
      BY <1>1 DEF Owing, Left, ExamineLabel
    <2>3. Owed(t) = {}
      BY <2>1, <2>2, OwedTokens
    <2>4. QED
      BY <1>1, <2>3, FS_EmptySet DEF Paid, NewTask
  <1>6. QED
    BY <1>3, <1>4, <1>5 DEF GraphInv

\* Every step of a client keeps the invariant.
LEMMA ClientGraph ==
    ASSUME TypeInv, LifeInv, GraphInv, NEW c \in Client, ClientCall(c) \/ ClientStep(c)
    PROVE  GraphInv'
  <1>1. c \in Thread
    BY DEF Thread
  <1>2. CASE ClientCall(c)
    BY <1>2, LaunchGraph, ParallelGraph, ClientCallLight DEF ClientCall
  <1>3. CASE ExamineCanceled(c) \/ ExamineFinished(c) \/ AddFailed(c)
    <2>1. CASE Discount(c)
      BY <1>3, <2>1, DiscountGraph
    <2>2. CASE ~Discount(c)
      BY <1>3, <2>2, ExamineGraph DEF AddFailed
    <2>3. QED
      BY <2>1, <2>2
  <1>4. CASE TryAddDependent(c)
    BY <1>4, AddGraph, ExamineGraph
  <1>5. QED
    BY <1>1, <1>2, <1>3, <1>4, DecideGraph, ReturnGraph, CancelGraph, EnqueueGraph,
       CancelDependentsGraph DEF ClientStep

\* Every step of a worker keeps the invariant.
LEMMA WorkerGraph ==
    ASSUME TypeInv, LifeInv, InflightInv, GraphInv, NEW w \in Worker, WorkerStep(w)
    PROVE  GraphInv'
  <1>1. w \in Thread
    BY DEF Thread
  <1>2. QED
    BY <1>1, PopGraph, IdleGraph, RunGraph, CollectGraph, WalkGraph, DecrementGraph, EnqueueGraph
       DEF WorkerStep

\* Every step keeps it.
LEMMA NextGraph == TypeInv /\ LifeInv /\ InflightInv /\ GraphInv /\ [Next]_taskVars => GraphInv'
  <1> SUFFICES ASSUME TypeInv, LifeInv, InflightInv, GraphInv, [Next]_taskVars PROVE GraphInv'
    OBVIOUS
  <1>1. CASE UNCHANGED taskVars
    <2>1. /\ queues' = queues /\ pc' = pc /\ cur' = cur /\ todo' = todo /\ task' = task
          /\ UNCHANGED <<created, prereqs, handles>>
      BY <1>1 DEF taskVars
    <2>2. Queued' = Queued /\ \A t : Owed(t)' = Owed(t)
      BY <2>1, QueuedFollows
         DEF Owed, AllListed, AllHeld, ListedNotices, HeldNotices, Listed, Owing, Left, Debtor
    <2>3. CreatedInv' /\ FlagInv' /\ WaitInv' /\ QueuedReady'
      BY <2>1, <2>2 DEF GraphInv, CreatedInv, FlagInv, WaitInv, QueuedReady, WaitsFor, Awaits,
                        Over, Ready, Owns
    <2>4. DebtInv'
      BY <2>1, <2>2 DEF GraphInv, DebtInv, Paid
    <2>5. \A th \in Thread : Local(th)'
      BY <2>1 DEF GraphInv, Local, Known, Seen, Cleared, Ready, WaitsFor, Over
    <2>6. QED
      BY <2>3, <2>4, <2>5 DEF GraphInv
  <1>2. QED
    BY <1>1, ClientGraph, WorkerGraph, OwnerGraph DEF Next

\* The inductive invariant of the dependency counting.
LEMMA GraphInvariant == Spec => [](TypeInv /\ LifeInv /\ InflightInv /\ GraphInv)
  BY InitTypeInv, InitLife, InitInflight, InitGraph, NextTypeInv, NextLife, NextInflight,
     NextGraph, PTL DEF Spec

-----------------------------------------------------------------------------
\* The refinement.

Runs(w, t) == cur[w] = t /\ pc[w] \in {"func", "runFinished"}

\* A task whose flags and owner stay has the status it had.
LEMMA StatusStays ==
    ASSUME NEW t, t \in created' <=> t \in created,
           task'[t].canceled = task[t].canceled, task'[t].finished = task[t].finished,
           \A w \in Worker : Runs(w, t)' <=> Runs(w, t)
    PROVE  Status(t)' = Status(t)
  BY DEF Status, Runs

\* A step after which every task looks the same is a stutter, ...
LEMMA Stutter ==
    ASSUME prereqs' = prereqs, \A t \in Task : Status(t)' = Status(t)
    PROVE  UNCHANGED Graph!graphVars
  BY DEF Graph!graphVars, WaitsFor

\* ... and so is one that leaves alone the flags of the tasks and who runs them.
LEMMA QuietStutter ==
    ASSUME NEW th \in Thread, Quiet(th), created' = created, prereqs' = prereqs,
           pc[th] \notin RunLabel
    PROVE  UNCHANGED Graph!graphVars
  <1>1. ASSUME NEW t \in Task
        PROVE  Status(t)' = Status(t)
    <2>1. \A w \in Worker : Runs(w, t)' <=> Runs(w, t)
      BY DEF Runs, Quiet, Others, RunLabel, Thread
    <2>2. QED
      BY <2>1, StatusStays DEF Quiet, Untouched
  <1>2. QED
    BY <1>1, Stutter

\* Otherwise one task changes.
LEMMA OneChanges ==
    ASSUME prereqs' = prereqs, NEW x \in Task, \A t \in Task \ {x} : Status(t)' = Status(t)
    PROVE  /\ [t \in Task |-> Status(t)]' = [[t \in Task |-> Status(t)] EXCEPT ![x] = Status(x)']
           /\ [t \in Task |-> WaitsFor(t)]' = [t \in Task |-> WaitsFor(t)]
  BY DEF WaitsFor

\* Launch submits one task to the graph.
LEMMA LaunchSubmits ==
    ASSUME TypeInv, GraphInv, NEW c \in Client, NEW t \in Task \ created, NEW ps \in Shapes[t],
           LaunchBegin(c, t, ps)
    PROVE  Graph!GraphNext
  <1>1. /\ created \subseteq Task /\ created' = created \union {t}
        /\ prereqs' = [prereqs EXCEPT ![t] = ps] /\ cur' = [cur EXCEPT ![c] = t]
        /\ task' = [task EXCEPT ![t].pending = Len(ps)] /\ pc' = [pc EXCEPT ![c] = "examine"]
    BY DEF LaunchBegin, Goto, TypeInv, SharedInv
  <1>2. \A w \in Worker : w \in Thread /\ pc'[w] = pc[w] /\ cur'[w] = cur[w]
    BY <1>1, TaskAssumption DEF TypeInv, ThreadInv, Thread
  <1>3. \A u \in Task : task'[u].canceled = task[u].canceled /\ task'[u].finished = task[u].finished
    BY <1>1 DEF TypeInv, SharedInv, TaskState
  <1>4. \A u \in Task \ {t} : Status(u)' = Status(u)
    BY <1>1, <1>2, <1>3, StatusStays DEF Runs
  <1>5. Status(t) = "new" /\ Status(t)' = "waiting"
    <2>1. ~task'[t].canceled /\ ~task'[t].finished
      BY <1>3 DEF GraphInv, CreatedInv, NewTask
    <2>2. \A w \in Worker : cur'[w] # t
      BY <1>2, TaskAssumption DEF GraphInv, Local, Known
    <2>3. QED
      BY <1>1, <2>1, <2>2 DEF Status
  <1>6. \A u \in Task \ {t} : WaitsFor(u)' = WaitsFor(u)
    BY <1>1 DEF WaitsFor, TypeInv, SharedInv
  <1>7. WaitsFor(t)' \subseteq Task
    <2>1. prereqs'[t] = ps /\ ps \in Seq(Task \union {NoTask})
      BY <1>1, TaskAssumption DEF TypeInv, SharedInv
    <2>2. QED
      BY <2>1, ElementsIn DEF WaitsFor
  <1>8. Graph!Submit({t}, WaitsFor(t)')
    BY <1>4, <1>5, <1>6 DEF Graph!Submit
  <1>9. QED
    BY <1>7, <1>8 DEF Graph!GraphNext

\* ParallelForAsync submits its chunks and the join task.
LEMMA ParallelSubmits ==
    ASSUME TypeInv, GraphInv, NEW c \in Client, NEW join \in Task \ created,
           NEW chunks \in Shapes[join],
           ToSet(chunks) \subseteq Task \ (created \union {join}),
           ParallelForBegin(c, join, chunks)
    PROVE  Graph!GraphNext
  <1> DEFINE new == ToSet(chunks) \union {join}
  <1>1. /\ created \subseteq Task /\ created' = created \union new
        /\ prereqs' = [prereqs EXCEPT ![join] = chunks] /\ cur' = [cur EXCEPT ![c] = join]
        /\ pc' = [pc EXCEPT ![c] = "enqueue"]
    BY DEF ParallelForBegin, Goto, TypeInv, SharedInv
  <1>2. \A w \in Worker : w \in Thread /\ pc'[w] = pc[w] /\ cur'[w] = cur[w]
    BY <1>1, TaskAssumption DEF TypeInv, ThreadInv, Thread
  <1>3. \A u \in Task : task'[u].canceled = task[u].canceled /\ task'[u].finished = task[u].finished
    BY DEF ParallelForBegin, TypeInv, SharedInv, TaskState
  <1>4. \A u \in Task \ new : Status(u)' = Status(u)
    BY <1>1, <1>2, <1>3, StatusStays DEF Runs
  <1>5. ASSUME NEW u \in new
        PROVE  Status(u) = "new" /\ Status(u)' = "waiting"
    <2>1. u \in Task \ created
      OBVIOUS
    <2>2. ~task'[u].canceled /\ ~task'[u].finished
      BY <1>3, <2>1 DEF GraphInv, CreatedInv, NewTask
    <2>3. \A w \in Worker : cur'[w] # u
      BY <1>2, <2>1, TaskAssumption DEF GraphInv, Local, Known
    <2>4. QED
      BY <1>1, <2>1, <2>2, <2>3 DEF Status
  <1>6. \A u \in Task \ {join} : WaitsFor(u)' = WaitsFor(u)
    BY <1>1 DEF WaitsFor, TypeInv, SharedInv
  <1>7. WaitsFor(join)' \subseteq Task
    <2>1. prereqs'[join] = chunks
      BY <1>1 DEF TypeInv, SharedInv
    <2>2. QED
      BY <2>1 DEF WaitsFor
  <1>8. new \subseteq Task /\ join \in new
    OBVIOUS
  <1> HIDE DEF new
  <1>9. Graph!Submit(new, WaitsFor(join)')
    BY <1>4, <1>5, <1>6, <1>8 DEF Graph!Submit
  <1>10. QED
    BY <1>7, <1>8, <1>9 DEF Graph!GraphNext

\* The cancellation of a task that has not started: the store of its flag is
\* the step that counts.
LEMMA CancelRefines ==
    ASSUME TypeInv, LifeInv, GraphInv, NEW c \in Client,
           CancelCas(c) \/ StoreCanceled(c) \/ StoreFinished(c) \/ SetDone(c)
    PROVE  [Graph!GraphNext]_Graph!graphVars
  <1>1. c \in Thread /\ c \notin Worker /\ Head(todo[c]) \in created /\ created \subseteq Task
    BY KnownTasks, TaskAssumption
       DEF Thread, GraphInv, Local, CancelCas, StoreCanceled, StoreFinished, SetDone, HeadLabel
  <1>2. PICK x \in created : x = Head(todo[c])
    BY <1>1
  <1>3. /\ pc[c] \in {"cancelCas", "storeCanceled", "storeFinished", "setDone"}
        /\ \A w \in Worker : pc'[w] = pc[w] /\ cur'[w] = cur[w]
        /\ UNCHANGED <<created, prereqs>> /\ task \in [Task -> TaskState]
    BY <1>1 DEF TypeInv, ThreadInv, SharedInv, CancelCas, StoreCanceled, StoreFinished, SetDone,
                Goto, historyVars, Thread
  <1>4. \A t \in Task, w \in Worker : Runs(w, t)' <=> Runs(w, t)
    BY <1>3 DEF Runs
  <1>5. CASE CancelCas(c) \/ SetDone(c)
    <2>1. \/ task' = task
          \/ task' = [task EXCEPT ![x].started = TRUE]
          \/ task' = [task EXCEPT ![x].done = @ + 1]
      BY <1>2, <1>5 DEF CancelCas, SetDone
    <2>2. \A t \in Task : /\ task'[t].canceled = task[t].canceled
                          /\ task'[t].finished = task[t].finished
      <3>1. CASE task' = task
        BY <3>1
      <3>2. CASE task' = [task EXCEPT ![x].started = TRUE]
        BY <1>3, <3>2 DEF TaskState
      <3>3. CASE task' = [task EXCEPT ![x].done = @ + 1]
        BY <1>3, <3>3 DEF TaskState
      <3>4. QED
        BY <2>1, <3>1, <3>2, <3>3
    <2>3. \A t \in Task : Status(t)' = Status(t)
      BY <1>3, <1>4, <2>2, StatusStays
    <2>4. QED
      BY <1>3, <2>3, Stutter
  <1>6. CASE StoreFinished(c)
    <2>1. task' = [task EXCEPT ![x].finished = TRUE] /\ Owns(c, x)
      BY <1>2, <1>6 DEF StoreFinished, Owns, CancelLabel
    <2>2. task[x].canceled
      BY <1>1, <1>6, <2>1 DEF LifeInv, Life, StoreFinished
    <2>3. /\ task'[x].canceled
          /\ \A t \in Task \ {x} : task'[t] = task[t]
      BY <1>3, <2>1, <2>2 DEF TaskState
    <2>4. \A t \in Task \ {x} : Status(t)' = Status(t)
      BY <1>3, <1>4, <2>3, StatusStays
    <2>5. Status(x)' = Status(x)
      BY <1>3, <2>2, <2>3 DEF Status
    <2>6. QED
      BY <1>3, <2>4, <2>5, Stutter
  <1>7. CASE StoreCanceled(c)
    <2>1. task' = [task EXCEPT ![x].canceled = TRUE] /\ Owns(c, x) /\ pc[c] \in FreshLabel
      BY <1>2, <1>7 DEF StoreCanceled, Owns, CancelLabel, FreshLabel
    <2>2. /\ task'[x].canceled
          /\ \A t \in Task \ {x} : task'[t] = task[t]
      BY <1>1, <1>3, <2>1 DEF TaskState
    <2>3. \A t \in Task \ {x} : Status(t)' = Status(t)
      BY <1>3, <1>4, <2>2, StatusStays
    <2>4. CASE task[x].canceled
      <3>1. Status(x)' = Status(x)
        BY <1>3, <2>2, <2>4 DEF Status
      <3>2. QED
        BY <1>3, <2>3, <3>1, Stutter
    <2>5. CASE ~task[x].canceled
      <3>1. ~task[x].finished
        BY <1>1, <2>1 DEF GraphInv, FlagInv
      <3>2. \A w \in Worker : ~Runs(w, x)
        <4>1. \A w \in Worker : Runs(w, x) => Owns(w, x) /\ w # c /\ w \in Thread
          BY <1>1 DEF Runs, Owns, RunLabel, Thread
        <4>2. QED
          BY <1>1, <2>1, <4>1 DEF LifeInv, Life
      <3>3. Status(x) = "waiting"
        BY <2>5, <3>1, <3>2 DEF Status, Runs
      <3>4. Status(x)' = "canceled"
        BY <1>3, <2>2 DEF Status
      <3>5. Graph!Cancel(x)
        BY <1>1, <1>3, <2>3, <3>3, <3>4, OneChanges DEF Graph!Cancel
      <3>6. QED
        BY <1>1, <3>5 DEF Graph!GraphNext
    <2>6. QED
      BY <2>4, <2>5
  <1>8. QED
    BY <1>5, <1>6, <1>7

\* The run of a task: it starts with the start guard, when everything it waits
\* for is over, and finishes with the store of its flag.
LEMMA RunRefines ==
    ASSUME TypeInv, LifeInv, GraphInv, NEW w \in Worker,
           RunCas(w) \/ CallFunc(w) \/ RunFinished(w) \/ RunDone(w)
    PROVE  [Graph!GraphNext]_Graph!graphVars
  <1>1. /\ w \in Thread /\ w \notin Client /\ Local(w)
        /\ cur[w] \in created /\ created \subseteq Task
    BY KnownTasks, TaskAssumption
       DEF Thread, GraphInv, Local, RunCas, CallFunc, RunFinished, RunDone, TaskLabel
  <1>2. PICK x \in created : x = cur[w]
    BY <1>1
  <1>3. /\ \A o \in Worker \ {w} : pc'[o] = pc[o] /\ cur'[o] = cur[o]
        /\ cur'[w] = x /\ pc' = [pc EXCEPT ![w] = pc'[w]]
        /\ UNCHANGED <<created, prereqs>> /\ task \in [Task -> TaskState]
    BY <1>1, <1>2
       DEF TypeInv, ThreadInv, SharedInv, RunCas, CallFunc, RunFinished, RunDone, Goto,
           historyVars, Thread
  <1>4. \A t \in Task \ {x} : \A o \in Worker : Runs(o, t)' <=> Runs(o, t)
    BY <1>2, <1>3 DEF Runs
  <1>5. CASE \/ RunCas(w) /\ task[x].started
             \/ CallFunc(w)
             \/ RunDone(w)
    <2>1. \A t \in Task : /\ task'[t].canceled = task[t].canceled
                          /\ task'[t].finished = task[t].finished
      <3>1. task' = task \/ task' = [task EXCEPT ![x].done = @ + 1]
        BY <1>2, <1>5 DEF RunCas, CallFunc, RunDone
      <3>2. CASE task' = task
        BY <3>2
      <3>3. CASE task' = [task EXCEPT ![x].done = @ + 1]
        BY <1>3, <3>3 DEF TaskState
      <3>4. QED
        BY <3>1, <3>2, <3>3
    <2>2. Runs(w, x)' <=> Runs(w, x)
      BY <1>1, <1>2, <1>3, <1>5
         DEF Runs, RunCas, CallFunc, RunDone, Goto, TypeInv, ThreadInv
    <2>3. \A o \in Worker : Runs(o, x)' <=> Runs(o, x)
      BY <1>3, <2>2 DEF Runs
    <2>4. \A t \in Task : Status(t)' = Status(t)
      BY <1>3, <1>4, <2>1, <2>3, StatusStays
    <2>5. QED
      BY <1>3, <2>4, Stutter
  <1>6. CASE RunCas(w) /\ ~task[x].started
    <2>1. task' = [task EXCEPT ![x].started = TRUE] /\ pc'[w] = "func"
      BY <1>1, <1>2, <1>6 DEF RunCas, Goto, TypeInv, ThreadInv
    <2>2. /\ \A t \in Task : /\ task'[t].canceled = task[t].canceled
                             /\ task'[t].finished = task[t].finished
          /\ ~task[x].canceled /\ ~task[x].finished
          /\ \A o \in Thread : ~Owns(o, x)
      BY <1>1, <1>3, <1>6, <2>1 DEF TaskState, LifeInv, Life, GraphInv, FlagInv
    <2>3. \A t \in Task \ {x} : Status(t)' = Status(t)
      BY <1>3, <1>4, <2>2, StatusStays
    <2>4. Status(x) = "waiting"
      <3>1. \A o \in Worker : ~Runs(o, x)
        BY <2>2 DEF Runs, Owns, RunLabel, Thread
      <3>2. QED
        BY <2>2, <3>1 DEF Status, Runs
    <2>5. Status(x)' = "running"
      BY <1>3, <2>1, <2>2 DEF Status
    <2>6. \A p \in WaitsFor(x) : p \in Task /\ Status(p) \in {"done", "canceled"}
      <3>1. Ready(x) /\ WaitsFor(x) \subseteq created
        BY <1>1, <1>2, TaskAssumption DEF Local, Cleared, GraphInv, CreatedInv
      <3>2. QED
        BY <1>1, <3>1 DEF Ready, Over, Status
    <2>7. Graph!Start(x)
      BY <1>1, <1>3, <2>3, <2>4, <2>5, <2>6, OneChanges DEF Graph!Start, Graph!Over
    <2>8. QED
      BY <1>1, <2>7 DEF Graph!GraphNext
  <1>7. CASE RunFinished(w)
    <2>1. /\ task' = [task EXCEPT ![x].finished = TRUE] /\ pc[w] = "runFinished"
          /\ Owns(w, x) /\ pc[w] \in FreshLabel
      BY <1>2, <1>7 DEF RunFinished, Owns, RunLabel, FreshLabel
    <2>2. ~task[x].finished /\ ~task[x].canceled
      BY <1>1, <2>1 DEF GraphInv, FlagInv, LifeInv, Life, RunLabel
    <2>3. /\ task'[x].finished /\ ~task'[x].canceled
          /\ \A t \in Task \ {x} : task'[t] = task[t]
      BY <1>1, <1>3, <2>1, <2>2 DEF TaskState
    <2>4. \A t \in Task \ {x} : Status(t)' = Status(t)
      BY <1>3, <1>4, <2>3, StatusStays
    <2>5. Status(x) = "running"
      BY <1>2, <2>1, <2>2 DEF Status
    <2>6. Status(x)' = "done"
      BY <1>3, <2>3 DEF Status
    <2>7. Graph!Finish(x)
      BY <1>1, <1>3, <2>4, <2>5, <2>6, OneChanges DEF Graph!Finish
    <2>8. QED
      BY <1>1, <2>7 DEF Graph!GraphNext
  <1>8. QED
    BY <1>5, <1>6, <1>7

\* Every step of a client is a step of the graph, or none.
LEMMA ClientRefines ==
    ASSUME TypeInv, LifeInv, GraphInv, NEW c \in Client, ClientCall(c) \/ ClientStep(c)
    PROVE  [Graph!GraphNext]_Graph!graphVars
  <1>1. c \in Thread /\ pc[c] \notin RunLabel
    BY DEF Thread, TypeInv, ThreadInv, Label, ClientLabel, RunLabel
  <1>2. ASSUME Quiet(c), created' = created, prereqs' = prereqs
        PROVE  UNCHANGED Graph!graphVars
    BY <1>1, <1>2, QuietStutter
  <1>3. CASE ClientCall(c)
    <2>1. Quiet(c)
      BY <1>3, QuietClient
    <2>2. ASSUME NEW t \in handles, CancelBegin(c, t) \/ WaitBegin(c, t)
          PROVE  UNCHANGED Graph!graphVars
      BY <1>2, <2>1, <2>2 DEF CancelBegin, WaitBegin, historyVars
    <2>3. QED
      BY <1>3, <2>2, LaunchSubmits, ParallelSubmits DEF ClientCall
  <1>4. CASE EnqueueCas(c) \/ CountInflight(c) \/ PushTask(c)
    <2>1. Quiet(c)
      BY <1>1, <1>4, QuietEnqueue
    <2>2. QED
      BY <1>2, <1>4, <2>1 DEF EnqueueCas, CountInflight, PushTask, historyVars
  <1>5. CASE CancelCas(c) \/ StoreCanceled(c) \/ StoreFinished(c) \/ SetDone(c)
    BY <1>5, CancelRefines
  <1>6. CASE \/ ExamineCanceled(c) \/ ExamineFinished(c) \/ TryAddDependent(c) \/ AddFailed(c)
             \/ DecideCancel(c) \/ DecideEnqueue(c) \/ EnqueueReturn(c)
             \/ CancelCheck(c) \/ CancelDependents(c) \/ CancelReturn(c) \/ WaitReturn(c)
    <2>1. Quiet(c)
      BY <1>6, QuietClient
    <2>2. created' = created /\ prereqs' = prereqs
      BY <1>6 DEF ExamineCanceled, ExamineFinished, TryAddDependent, AddFailed, DecideCancel,
                  DecideEnqueue, EnqueueReturn, CancelCheck, CancelDependents, CancelReturn,
                  WaitReturn, historyVars
    <2>3. QED
      BY <1>2, <2>1, <2>2
  <1>7. QED
    BY <1>3, <1>4, <1>5, <1>6 DEF ClientStep

\* Every step of a worker is a step of the graph, or none.
LEMMA WorkerRefines ==
    ASSUME TypeInv, LifeInv, GraphInv, NEW w \in Worker, WorkerStep(w)
    PROVE  [Graph!GraphNext]_Graph!graphVars
  <1>1. w \in Thread
    BY DEF Thread
  <1>2. CASE RunCas(w) \/ CallFunc(w) \/ RunFinished(w) \/ RunDone(w)
    BY <1>2, RunRefines
  <1>3. CASE EnqueueCas(w) \/ CountInflight(w) \/ PushTask(w)
    <2>1. Quiet(w)
      BY <1>1, <1>3, QuietEnqueue
    <2>2. created' = created /\ prereqs' = prereqs /\ pc[w] \notin RunLabel
      BY <1>3 DEF EnqueueCas, CountInflight, PushTask, historyVars, RunLabel
    <2>3. QED
      BY <1>1, <2>1, <2>2, QuietStutter
  <1>4. CASE \/ PopTask(w) \/ PopFails(w) \/ ReadInflight(w) \/ CollectDependents(w)
             \/ SkipOrDecrement(w) \/ DecrementPending(w) \/ RecheckFinished(w)
             \/ ScheduleReturn(w) \/ TaskFinished(w) \/ NotifyShutdown(w)
    <2>1. Quiet(w)
      BY <1>4, QuietWorker
    <2>2. created' = created /\ prereqs' = prereqs /\ pc[w] \notin RunLabel
      BY <1>4 DEF PopTask, PopFails, ReadInflight, CollectDependents, SkipOrDecrement,
                  DecrementPending, RecheckFinished, ScheduleReturn, TaskFinished,
                  NotifyShutdown, historyVars, RunLabel
    <2>3. QED
      BY <1>1, <2>1, <2>2, QuietStutter
  <1>5. QED
    BY <1>2, <1>3, <1>4 DEF WorkerStep

\* Every step of the system is a step of the graph, or none.
LEMMA StepRefines ==
    ASSUME TypeInv, LifeInv, InflightInv, GraphInv, [Next]_taskVars
    PROVE  [Graph!GraphNext]_Graph!graphVars
  <1>1. CASE UNCHANGED taskVars
    <2>1. \A t \in Task : Status(t)' = Status(t)
      BY <1>1 DEF taskVars, Status
    <2>2. QED
      BY <1>1, <2>1, Stutter DEF taskVars
  <1>2. CASE TerminateBegin \/ OwnerStep \/ ShutdownSpurious \/ Reinitialize
    <2>1. task' = task /\ cur' = cur /\ UNCHANGED <<created, prereqs>>
      BY <1>2 DEF TerminateBegin, OwnerStep, ShutdownPredicate, ShutdownSleep, JoinWorkers,
                  ShutdownSpurious, Reinitialize, localVars, historyVars
    <2>2. \A t \in Task, w \in Worker : Runs(w, t)' <=> Runs(w, t)
      <3>1. CASE Reinitialize
        BY <3>1 DEF Reinitialize, InflightInv, HandsFree, Runs, Thread
      <3>2. CASE TerminateBegin \/ OwnerStep \/ ShutdownSpurious
        BY <3>2 DEF TerminateBegin, OwnerStep, ShutdownPredicate, ShutdownSleep, JoinWorkers,
                    ShutdownSpurious, localVars, Runs
      <3>3. QED
        BY <1>2, <3>1, <3>2
    <2>3. \A t \in Task : Status(t)' = Status(t)
      BY <2>1, <2>2, StatusStays
    <2>4. QED
      BY <2>1, <2>3, Stutter
  <1>3. QED
    BY <1>1, <1>2, ClientRefines, WorkerRefines DEF Next

\* The system starts as the empty graph.
LEMMA InitRefines == Init => Graph!GraphInit
  <1> SUFFICES ASSUME Init PROVE Graph!GraphInit
    OBVIOUS
  <1>1. \A t \in Task : Status(t) = "new" /\ WaitsFor(t) = {}
    BY OneSet DEF Init, Status, WaitsFor
  <1>2. QED
    BY <1>1 DEF Graph!GraphInit

\* Seen from outside, whatever the threads do is a life of the task graph: a
\* task is submitted once, starts once and only when everything it waits for
\* is over, and ends finished or canceled, never both.
THEOREM TaskSystemImplementsGraph == Spec => ImplementsTaskGraph
  <1>1. /\ TypeInv /\ LifeInv /\ InflightInv /\ GraphInv /\ [Next]_taskVars
           => [Graph!GraphNext]_Graph!graphVars
    BY StepRefines
  <1>2. QED
    BY <1>1, InitRefines, GraphInvariant, PTL DEF Spec, ImplementsTaskGraph, Graph!GraphSpec

-----------------------------------------------------------------------------
\* No task is forgotten.  A task that is not over is always some thread's
\* business, and each step either finishes that business or passes it on.

\* The roles of a thread, besides that of the owner of a task (Owns).  It has
\* won the right to push t, or has popped it and not started it yet, ...
Hands(th, t) ==
    \/ pc[th] \in EnqueueLabel /\ Head(todo[th]) = t
    \/ th \in Worker /\ pc[th] = "run" /\ cur[th] = t

\* ... it will take the dependents of p, which is over, ...
Drains(th, p) ==
    \/ pc[th] \in {"runDone", "collect"} /\ cur[th] = p
    \/ pc[th] \in {"storeFinished", "setDone", "cancelDependents"} /\ Head(todo[th]) = p

\* ... it is on the way to cancel t, ...
CancelList == {"cancel", "cancelCas", "storeCanceled", "storeFinished", "setDone",
               "cancelDependents"}

Cancels(th, t) == pc[th] \in CancelList /\ t \in ToSet(todo[th])

\* ... or it will look whether t is to be enqueued, or enqueue it.
Starts(th, t) ==
    \/ pc[th] \in ExamineLabel \union {"decideEnqueue"} /\ cur[th] = t
    \/ th \in Client /\ pc[th] \in {"enqueue", "count", "push"} /\ t \in ToSet(todo[th])
    \/ th \in Worker /\ pc[th] \in {"recheck", "enqueue"} /\ Head(todo[th]) = t

\* Nobody has to be told of the end of p any more.
Drained(p) == task[p].finished /\ task[p].dependents = <<>>

\* What is started is over or has an owner.
StartedInv == \A t \in Task : task[t].started => Over(t) \/ \E th \in Thread : Owns(th, t)

\* What is claimed is started, in the queue or in somebody's hands.
ClaimedInv ==
    \A t \in Task : task[t].queued =>
        task[t].started \/ t \in Queued \/ \E th \in Thread : Hands(th, t)

\* The dependents of what is over have been or will be taken.
DrainedInv ==
    \A p \in Task : Over(p) => Drained(p) \/ \E th \in Thread : Drains(th, p)

\* Only tasks that wait for p are among its dependents.
WaitedInv ==
    /\ \A p \in Task : \A t \in ToSet(task[p].dependents) : p \in WaitsFor(t)
    /\ \A th \in Thread : pc[th] \in ExamineLabel =>
          ToSet(todo[th]) \subseteq ToSet(prereqs[cur[th]])

\* The opposite of Paid: m_pending is not above the number of notices to come.
Promised(t) == task[t].pending <= Cardinality(Owed(t))

\* Notices are still to come, or somebody looks after t.
Coming(t) == task[t].pending > 0 \/ \E th \in Thread : Starts(th, t)

\* What became of t is decided, whatever notices it still gets.
Settled(t) ==
    task[t].started \/ task[t].queued \/ \E th \in Thread : Cancels(th, t)

\* Until it is started, claimed or about to be canceled, every task gets all
\* the notices that m_pending counts, and is looked after when it is 0.
PromisedInv == \A t \in created : Settled(t) \/ (Promised(t) /\ Coming(t))

QuietInv == StartedInv /\ ClaimedInv /\ DrainedInv /\ WaitedInv /\ PromisedInv

-----------------------------------------------------------------------------
\* What a step passes on.

\* Whatever thread th lets go of, it has finished, or it takes another role.
Passes(th) ==
    /\ Others(th)
    /\ \A t \in Task :
          /\ Kept(t)
          /\ task'[t].started => task[t].started \/ Owns(th, t)'
          /\ Owns(th, t) => Owns(th, t)' \/ Over(t)'
          /\ task'[t].queued => task[t].queued \/ Hands(th, t)'
          /\ Hands(th, t) => Hands(th, t)' \/ task'[t].started \/ t \in Queued'
          /\ t \in Queued => t \in Queued' \/ Hands(th, t)'
          /\ Over(t)' => Over(t) \/ Drains(th, t)'
          /\ Drains(th, t) => Drains(th, t)' \/ Drained(t)'
          /\ Drained(t) => Drained(t)'
          /\ Cancels(th, t) => Cancels(th, t)' \/ task'[t].started
          /\ Starts(th, t) => \/ Starts(th, t)' \/ Cancels(th, t)'
                              \/ task'[t].started \/ task'[t].queued \/ task'[t].pending > 0

\* A thread that does nothing keeps its roles.
LEMMA RolesStay ==
    ASSUME NEW o, pc'[o] = pc[o], cur'[o] = cur[o], todo'[o] = todo[o], NEW t
    PROVE  /\ Owns(o, t)' <=> Owns(o, t)
           /\ Hands(o, t)' <=> Hands(o, t)
           /\ Drains(o, t)' <=> Drains(o, t)
           /\ Cancels(o, t)' <=> Cancels(o, t)
           /\ Starts(o, t)' <=> Starts(o, t)
  BY DEF Owns, Hands, Drains, Cancels, Starts

\* Nothing started, claimed or over is forgotten.
LEMMA PassesOn ==
    ASSUME StartedInv, ClaimedInv, DrainedInv, NEW th \in Thread, Passes(th)
    PROVE  StartedInv' /\ ClaimedInv' /\ DrainedInv'
  <1>1. \A o \in Thread \ {th}, t \in Task :
           /\ Owns(o, t) => Owns(o, t)'
           /\ Hands(o, t) => Hands(o, t)'
           /\ Drains(o, t) => Drains(o, t)'
    BY RolesStay DEF Passes, Others
  <1>2. StartedInv'
    <2> SUFFICES ASSUME NEW t \in Task, task'[t].started, ~Over(t)'
                 PROVE  \E o \in Thread : Owns(o, t)'
      BY DEF StartedInv
    <2>1. CASE ~task[t].started
      BY <2>1 DEF Passes
    <2>2. CASE task[t].started
      <3>1. ~Over(t)
        BY DEF Over, Passes, Kept
      <3>2. PICK o \in Thread : Owns(o, t)
        BY <2>2, <3>1 DEF StartedInv
      <3>3. QED
        BY <1>1, <3>2 DEF Passes
    <2>3. QED
      BY <2>1, <2>2
  <1>3. ClaimedInv'
    <2> SUFFICES ASSUME NEW t \in Task, task'[t].queued, ~task'[t].started, t \notin Queued'
                 PROVE  \E o \in Thread : Hands(o, t)'
      BY DEF ClaimedInv
    <2>1. CASE ~task[t].queued \/ t \in Queued
      BY <2>1 DEF Passes
    <2>2. CASE task[t].queued /\ t \notin Queued
      <3>1. ~task[t].started
        BY DEF Passes, Kept
      <3>2. PICK o \in Thread : Hands(o, t)
        BY <2>2, <3>1 DEF ClaimedInv
      <3>3. QED
        BY <1>1, <3>2 DEF Passes
    <2>3. QED
      BY <2>1, <2>2
  <1>4. DrainedInv'
    <2> SUFFICES ASSUME NEW t \in Task, Over(t)', ~Drained(t)'
                 PROVE  \E o \in Thread : Drains(o, t)'
      BY DEF DrainedInv
    <2>1. CASE ~Over(t)
      BY <2>1 DEF Passes
    <2>2. CASE Over(t)
      <3>1. ~Drained(t)
        BY DEF Passes
      <3>2. PICK o \in Thread : Drains(o, t)
        BY <2>2, <3>1 DEF DrainedInv
      <3>3. QED
        BY <1>1, <3>2 DEF Passes
    <2>3. QED
      BY <2>1, <2>2
  <1>5. QED
    BY <1>2, <1>3, <1>4

\* What is settled stays settled.
LEMMA SettledStays ==
    ASSUME NEW th \in Thread, Passes(th), NEW t \in Task, Settled(t)
    PROVE  Settled(t)'
  <1>1. CASE task[t].started \/ task[t].queued
    BY <1>1 DEF Passes, Kept, Settled
  <1>2. ASSUME NEW o \in Thread, Cancels(o, t)
        PROVE  Settled(t)'
    <2>1. CASE o = th
      BY <1>2, <2>1 DEF Passes, Settled
    <2>2. CASE o # th
      BY <1>2, <2>2, RolesStay DEF Passes, Others, Settled
    <2>3. QED
      BY <2>1, <2>2
  <1>3. QED
    BY <1>1, <1>2 DEF Settled

\* A task that is not settled keeps its promise if the step keeps its count,
\* or leaves it to the thread.
LEMMA PromiseStays ==
    ASSUME PromisedInv, NEW th \in Thread, Passes(th), NEW t \in created \intersect Task,
           Promised(t) => Promised(t)' \/ Settled(t)',
           task[t].pending > 0 => \/ task'[t].pending > 0 \/ Starts(th, t)'
                                  \/ Settled(t)'
    PROVE  Settled(t)' \/ (Promised(t)' /\ Coming(t)')
  <1>1. CASE Settled(t)
    BY <1>1, SettledStays
  <1>2. CASE Promised(t) /\ Coming(t)
    <2>1. ASSUME NEW o \in Thread, Starts(o, t)
          PROVE  Settled(t)' \/ Coming(t)'
      <3>1. CASE o = th
        BY <2>1, <3>1 DEF Passes, Settled, Coming
      <3>2. CASE o # th
        BY <2>1, <3>2, RolesStay DEF Passes, Others, Coming
      <3>3. QED
        BY <3>1, <3>2
    <2>2. QED
      BY <1>2, <2>1 DEF Coming
  <1>3. QED
    BY <1>1, <1>2 DEF PromisedInv

\* Tasks are added to the lists of the tasks they wait for.
LEMMA WaitedStays ==
    ASSUME TypeInv, GraphInv, WaitedInv, NEW th \in Thread, Others(th),
           \A t \in created : prereqs'[t] = prereqs[t],
           \A p \in Task : \A t \in ToSet(task'[p].dependents) :
              t \in ToSet(task[p].dependents) \/ p \in WaitsFor(t)',
           pc'[th] \in ExamineLabel => ToSet(todo'[th]) \subseteq ToSet(prereqs'[cur'[th]])
    PROVE  WaitedInv'
  <1>1. ASSUME NEW p \in Task, NEW t \in ToSet(task'[p].dependents)
        PROVE  p \in WaitsFor(t)'
    <2>1. CASE t \in ToSet(task[p].dependents)
      <3>1. p \in WaitsFor(t)
        BY <2>1 DEF WaitedInv
      <3>2. t \in created
        BY <2>1, OneSet DEF GraphInv, CreatedInv, NewTask
      <3>3. QED
        BY <3>1, <3>2 DEF WaitsFor
    <2>2. QED
      BY <1>1, <2>1
  <1>2. ASSUME NEW o \in Thread, pc'[o] \in ExamineLabel
        PROVE  ToSet(todo'[o]) \subseteq ToSet(prereqs'[cur'[o]])
    <2>1. CASE o = th
      BY <1>2, <2>1
    <2>2. CASE o # th
      <3>1. pc[o] \in ExamineLabel /\ cur'[o] = cur[o] /\ todo'[o] = todo[o]
        BY <1>2, <2>2 DEF Others
      <3>2. cur[o] \in created
        BY <3>1, KnownTasks DEF GraphInv, Local, TaskLabel
      <3>3. QED
        BY <3>1, <3>2 DEF WaitedInv
    <2>3. QED
      BY <2>1, <2>2
  <1>3. QED
    BY <1>1, <1>2 DEF WaitedInv

\* A step that passes on what it lets go of and keeps or settles what is
\* promised keeps the invariant.
LEMMA StepQuiet ==
    ASSUME TypeInv, GraphInv, QuietInv, NEW th \in Thread, Passes(th),
           created' = created, prereqs' = prereqs,
           \A p \in Task : \A t \in ToSet(task'[p].dependents) :
              t \in ToSet(task[p].dependents) \/ p \in WaitsFor(t)',
           pc'[th] \in ExamineLabel => ToSet(todo'[th]) \subseteq ToSet(prereqs'[cur'[th]]),
           \A t \in created :
              /\ Promised(t) => Promised(t)' \/ Settled(t)'
              /\ task[t].pending > 0 => \/ task'[t].pending > 0 \/ Starts(th, t)'
                                        \/ Settled(t)'
    PROVE  QuietInv'
  <1>1. StartedInv' /\ ClaimedInv' /\ DrainedInv'
    BY PassesOn DEF QuietInv
  <1>2. WaitedInv'
    BY WaitedStays DEF QuietInv, Passes
  <1>3. PromisedInv'
    <2> SUFFICES ASSUME NEW t \in created PROVE Settled(t)' \/ (Promised(t)' /\ Coming(t)')
      BY DEF PromisedInv
    <2>1. t \in created \intersect Task
      BY DEF TypeInv, SharedInv
    <2>2. QED
      BY <2>1, PromiseStays DEF QuietInv
  <1>4. QED
    BY <1>1, <1>2, <1>3 DEF QuietInv

\* Most steps change no count, no list and no notice, save notices to tasks
\* that were started.
LEMMA LightQuiet ==
    ASSUME TypeInv, GraphInv, DebtInv', QuietInv, NEW th \in Thread, Passes(th),
           created' = created, prereqs' = prereqs,
           \A t \in Task : /\ task'[t].pending = task[t].pending
                           /\ task'[t].dependents = task[t].dependents,
           \A t \in Task : \A k : Owing(th, k, t) => Owing(th, k, t)' \/ task[t].started,
           pc'[th] \in ExamineLabel =>
              pc[th] \in ExamineLabel /\ cur'[th] = cur[th] /\ todo'[th] = todo[th]
    PROVE  QuietInv'
  <1>1. ASSUME NEW t \in Task, Promised(t)
        PROVE  Promised(t)' \/ Settled(t)'
    <2>1. CASE task[t].started
      BY <2>1, SettledStays DEF Settled
    <2>2. CASE ~task[t].started
      <3>1. \A o \in Thread : \A k : Owing(o, k, t) => Owing(o, k, t)'
        BY <2>2, OwingStays DEF Passes, Others
      <3>2. \A p \in Task : \A i : Listed(p, i, t) => Listed(p, i, t)'
        BY DEF Listed
      <3>3. Owed(t) \subseteq Owed(t)'
        <4> SUFFICES ASSUME NEW x \in Owed(t) PROVE x \in Owed(t)'
          OBVIOUS
        <4>1. QED
          BY <3>1, <3>2, OwedTokens, OwedTokensNext
      <3>4. IsFiniteSet(Owed(t)')
        BY DEF DebtInv, Paid
      <3>5. /\ Cardinality(Owed(t)) <= Cardinality(Owed(t)')
            /\ Cardinality(Owed(t)) \in Nat /\ Cardinality(Owed(t)') \in Nat
        BY <3>3, <3>4, FS_Subset, FS_CardinalityType
      <3>6. task[t].pending \in Int /\ task'[t].pending = task[t].pending
        BY DEF TypeInv, SharedInv, TaskState
      <3>7. QED
        BY <1>1, <3>5, <3>6 DEF Promised
    <2>3. QED
      BY <2>1, <2>2
  <1>2. pc'[th] \in ExamineLabel => ToSet(todo'[th]) \subseteq ToSet(prereqs'[cur'[th]])
    BY DEF QuietInv, WaitedInv
  <1>3. created \subseteq Task
    BY DEF TypeInv, SharedInv
  <1>4. QED
    BY <1>1, <1>2, <1>3, StepQuiet

-----------------------------------------------------------------------------
\* Steps that change no task, or nothing of a task but that its future was taken.

Same(t) ==
    /\ task'[t].started = task[t].started /\ task'[t].queued = task[t].queued
    /\ task'[t].finished = task[t].finished /\ task'[t].canceled = task[t].canceled
    /\ task'[t].pending = task[t].pending /\ task'[t].dependents = task[t].dependents

\* Such a step of a thread that owns and drains no task only has to keep its
\* other roles.
LEMMA SamePasses ==
    ASSUME NEW th \in Thread, Others(th), \A t \in Task : Same(t),
           pc[th] \notin RunLabel \union CancelLabel \union {"collect", "cancelDependents"},
           \A t \in Task : Hands(th, t) => \/ Hands(th, t)' \/ task[t].started
                                           \/ t \in Queued',
           \A t \in Task : t \in Queued => t \in Queued' \/ Hands(th, t)',
           \A t \in Task : Cancels(th, t) => Cancels(th, t)' \/ task[t].started,
           \A t \in Task : Starts(th, t) =>
              \/ Starts(th, t)' \/ Cancels(th, t)'
              \/ task[t].started \/ task[t].queued \/ task[t].pending > 0
    PROVE  Passes(th)
  <1> SUFFICES ASSUME NEW t \in Task
               PROVE  /\ Kept(t)
                      /\ task'[t].started => task[t].started \/ Owns(th, t)'
                      /\ Owns(th, t) => Owns(th, t)' \/ Over(t)'
                      /\ task'[t].queued => task[t].queued \/ Hands(th, t)'
                      /\ Hands(th, t) => Hands(th, t)' \/ task'[t].started \/ t \in Queued'
                      /\ Over(t)' => Over(t) \/ Drains(th, t)'
                      /\ Drains(th, t) => Drains(th, t)' \/ Drained(t)'
                      /\ Drained(t) => Drained(t)'
                      /\ Cancels(th, t) => Cancels(th, t)' \/ task'[t].started
                      /\ Starts(th, t) => \/ Starts(th, t)' \/ Cancels(th, t)'
                                          \/ task'[t].started \/ task'[t].queued
                                          \/ task'[t].pending > 0
    BY DEF Passes
  <1>1. Kept(t) /\ (Over(t)' => Over(t)) /\ (Drained(t) => Drained(t)')
    BY DEF Same, Kept, Over, Drained
  <1>2. ~Owns(th, t) /\ ~Drains(th, t)
    BY DEF Owns, Drains, RunLabel, CancelLabel
  <1>3. QED
    BY <1>1, <1>2 DEF Same

\* Taking the future of a task changes nothing else of it.
LEMMA SameWrite ==
    ASSUME task \in [Task -> TaskState], NEW u,
           task' = task \/ task' = [task EXCEPT ![u].retrieved = TRUE]
    PROVE  \A t \in Task : Same(t)
  <1>1. CASE task' = task
    BY <1>1 DEF Same
  <1>2. CASE task' = [task EXCEPT ![u].retrieved = TRUE]
    BY <1>2 DEF Same, TaskState
  <1>3. QED
    BY <1>1, <1>2

\* Cancel and Wait begin.
LEMMA ClientCallQuiet ==
    ASSUME TypeInv, GraphInv, DebtInv', QuietInv, NEW c \in Client, NEW t \in handles,
           CancelBegin(c, t) \/ WaitBegin(c, t)
    PROVE  QuietInv'
  <1>1. c \in Thread /\ c \notin Worker /\ ClientCall(c)
    BY TaskAssumption DEF Thread, ClientCall
  <1>2. Quiet(c) /\ Steady(c) /\ Others(c) /\ Queued' = Queued
    BY <1>1, QuietClient, ClientCallSteady, QueuedFollows DEF Steady
  <1>3. /\ pc[c] = "idle" /\ pc'[c] \in {"cancel", "wait", "threw"}
        /\ UNCHANGED <<created, prereqs>>
        /\ task' = task \/ task' = [task EXCEPT ![t].retrieved = TRUE]
    BY <1>1 DEF TypeInv, ThreadInv, CancelBegin, WaitBegin, MayCall, Goto, historyVars
  <1>4. \A u \in Task : Same(u)
    BY <1>3, SameWrite DEF TypeInv, SharedInv
  <1>5. Passes(c)
    <2>1. \A u \in Task : ~Hands(c, u) /\ ~Cancels(c, u) /\ ~Starts(c, u)
      BY <1>1, <1>3 DEF Hands, Cancels, Starts, EnqueueLabel, CancelList, ExamineLabel
    <2>2. pc[c] \notin RunLabel \union CancelLabel \union {"collect", "cancelDependents"}
      BY <1>3 DEF RunLabel, CancelLabel
    <2>3. QED
      BY <1>1, <1>2, <1>4, <2>1, <2>2, SamePasses
  <1>6. \A u \in Task : \A k : ~Owing(c, k, u)
    BY <1>1, <1>3 DEF Owing, Left, ExamineLabel
  <1>7. QED
    BY <1>1, <1>3, <1>4, <1>5, <1>6, LightQuiet DEF Same, ExamineLabel

\* Calls return, and Cancel passes a task that is canceled already.
LEMMA ReturnQuiet ==
    ASSUME TypeInv, LifeInv, GraphInv, DebtInv', QuietInv, NEW c \in Client,
           EnqueueReturn(c) \/ CancelReturn(c) \/ WaitReturn(c) \/ CancelCheck(c)
    PROVE  QuietInv'
  <1>1. c \in Thread /\ c \notin Worker
    BY TaskAssumption DEF Thread
  <1>2. Others(c) /\ Queued' = Queued
    BY ClientSteady, QueuedFollows DEF Steady
  <1>3. /\ pc'[c] \in {"idle", "wait", "cancel", "cancelCas"} /\ task' = task
        /\ UNCHANGED <<created, prereqs>>
        /\ \/ pc[c] \in {"enqueue", "cancel"} /\ todo[c] = <<>>
           \/ pc[c] = "wait"
           \/ pc[c] = "cancel" /\ todo[c] # <<>> /\ pc'[c] \in {"cancel", "cancelCas"}
              /\ \/ todo'[c] = todo[c]
                 \/ todo'[c] = Tail(todo[c]) /\ task[Head(todo[c])].canceled
    BY <1>1 DEF TypeInv, ThreadInv, EnqueueReturn, CancelReturn, WaitReturn, CancelCheck,
                Return, Goto, historyVars
  <1>4. \A u \in Task : Same(u)
    BY <1>3 DEF Same
  <1>5. Passes(c)
    <2>1. \A u \in Task : ~Hands(c, u) /\ ~Starts(c, u)
      BY <1>1, <1>3, OneSet DEF Hands, Starts, EnqueueLabel, ExamineLabel
    <2>2. pc[c] \notin RunLabel \union CancelLabel \union {"collect", "cancelDependents"}
      BY <1>3 DEF RunLabel, CancelLabel
    <2>3. ASSUME NEW u \in Task, Cancels(c, u)
          PROVE  Cancels(c, u)' \/ task[u].started
      <3>1. /\ pc[c] = "cancel" /\ pc'[c] \in {"cancel", "cancelCas"} /\ u \in ToSet(todo[c])
            /\ \/ todo'[c] = todo[c]
               \/ todo'[c] = Tail(todo[c]) /\ task[Head(todo[c])].canceled
            /\ todo[c] # <<>>
        BY <1>3, <2>3, OneSet DEF Cancels, CancelList
      <3>2. todo[c] \in Seq(Task)
        BY <1>1, <3>1, Held DEF TypeInv, ExamineLabel
      <3>3. ToSet(todo[c]) = {Head(todo[c])} \union ToSet(Tail(todo[c]))
        BY <3>1, <3>2, TailSet
      <3>4. CASE u \in ToSet(todo'[c])
        BY <3>1, <3>4 DEF Cancels, CancelList
      <3>5. CASE u \notin ToSet(todo'[c])
        <4>1. task[u].canceled
          BY <3>1, <3>3, <3>5
        <4>2. QED
          BY <4>1 DEF LifeInv, Life
      <3>6. QED
        BY <3>4, <3>5
    <2>4. QED
      BY <1>1, <1>2, <1>4, <2>1, <2>2, <2>3, SamePasses
  <1>6. \A u \in Task : \A k : ~Owing(c, k, u)
    BY <1>1, <1>3 DEF Owing, Left, ExamineLabel
  <1>7. QED
    BY <1>1, <1>3, <1>4, <1>5, <1>6, LightQuiet DEF Same, ExamineLabel

\* Launch reads the flags of a prerequisite.
LEMMA ExamineQuiet ==
    ASSUME TypeInv, GraphInv, DebtInv', QuietInv, NEW c \in Client,
           \/ ExamineCanceled(c) /\ ~Discount(c)
           \/ ExamineFinished(c) /\ ~Discount(c)
           \/ TryAddDependent(c) /\ task[Head(todo[c])].finished
    PROVE  QuietInv'
  <1>1. c \in Thread /\ c \notin Worker
    BY TaskAssumption DEF Thread
  <1>2. Others(c) /\ Queued' = Queued
    BY ClientSteady, QueuedFollows DEF Steady
  <1>3. /\ pc[c] \in ExamineLabel /\ pc'[c] \in ExamineLabel
        /\ cur'[c] = cur[c] /\ todo'[c] = todo[c] /\ task' = task
        /\ UNCHANGED <<created, prereqs>>
    BY <1>1 DEF TypeInv, ThreadInv, ExamineCanceled, ExamineFinished, TryAddDependent, Goto,
                ExamineLabel, historyVars
  <1>4. \A u \in Task : Same(u)
    BY <1>3 DEF Same
  <1>5. Passes(c)
    <2>1. \A u \in Task : ~Hands(c, u) /\ ~Cancels(c, u) /\ (Starts(c, u) => Starts(c, u)')
      BY <1>1, <1>3 DEF Hands, Starts, Cancels, CancelList, EnqueueLabel, ExamineLabel
    <2>2. pc[c] \notin RunLabel \union CancelLabel \union {"collect", "cancelDependents"}
      BY <1>3 DEF RunLabel, CancelLabel, ExamineLabel
    <2>3. QED
      BY <1>1, <1>2, <1>4, <2>1, <2>2, SamePasses
  <1>6. \A u \in Task : \A k : Owing(c, k, u) => Owing(c, k, u)'
    BY <1>1, <1>3 DEF Owing, Left, Debtor, ExamineLabel
  <1>7. QED
    BY <1>1, <1>3, <1>4, <1>5, <1>6, LightQuiet DEF Same

\* Launch cancels the new task, or enqueues it if its count is down to 0.
LEMMA DecideQuiet ==
    ASSUME TypeInv, GraphInv, DebtInv', QuietInv, NEW c \in Client,
           DecideCancel(c) \/ DecideEnqueue(c)
    PROVE  QuietInv'
  <1>1. c \in Thread /\ c \notin Worker
    BY TaskAssumption DEF Thread
  <1>2. Others(c) /\ Queued' = Queued
    BY ClientSteady, QueuedFollows DEF Steady
  <1>3. /\ task' = task /\ UNCHANGED <<created, prereqs>> /\ cur'[c] = cur[c]
        /\ \/ /\ pc[c] = "examine" /\ todo[c] = <<>>
              /\ \/ pc'[c] = "cancel" /\ todo'[c] = <<cur[c]>>
                 \/ pc'[c] = "decideEnqueue"
           \/ /\ pc[c] = "decideEnqueue" /\ pc'[c] = "enqueue"
              /\ todo'[c] = IF task[cur[c]].pending <= 0 THEN <<cur[c]>> ELSE <<>>
    BY <1>1 DEF TypeInv, ThreadInv, DecideCancel, DecideEnqueue, Goto, historyVars
  <1>4. \A u \in Task : Same(u)
    BY <1>3 DEF Same
  <1>5. Passes(c)
    <2>1. \A u \in Task : ~Hands(c, u) /\ ~Cancels(c, u)
      BY <1>1, <1>3 DEF Hands, Cancels, CancelList, EnqueueLabel
    <2>2. pc[c] \notin RunLabel \union CancelLabel \union {"collect", "cancelDependents"}
      BY <1>3 DEF RunLabel, CancelLabel
    <2>3. ASSUME NEW u \in Task, Starts(c, u), task[u].pending <= 0
          PROVE  Starts(c, u)' \/ Cancels(c, u)'
      <3>1. u = cur[c]
        BY <1>1, <1>3, <2>3 DEF Starts
      <3>2. CASE pc'[c] = "cancel" /\ todo'[c] = <<cur[c]>>
        BY <3>1, <3>2, OneSet DEF Cancels, CancelList
      <3>3. CASE pc'[c] = "decideEnqueue"
        BY <1>3, <3>1, <3>3 DEF Starts
      <3>4. CASE pc'[c] = "enqueue" /\ todo'[c] = <<cur[c]>>
        BY <1>3, <3>1, <3>4, OneSet DEF Starts
      <3>5. QED
        BY <1>3, <2>3, <3>1, <3>2, <3>3, <3>4
    <2>4. \A u \in Task : task[u].pending \in Int
      BY DEF TypeInv, SharedInv, TaskState
    <2>5. \A u \in Task : Starts(c, u) => \/ Starts(c, u)' \/ Cancels(c, u)'
                                          \/ task[u].pending > 0
      BY <2>3, <2>4
    <2>6. QED
      BY <1>1, <1>2, <1>4, <2>1, <2>2, <2>5, SamePasses
  <1>6. \A u \in Task : \A k : ~Owing(c, k, u)
    <2>1. todo[c] = <<>> => Len(todo[c]) = 0
      OBVIOUS
    <2>2. Left(c) = 0
      BY <1>1, <1>3, <2>1 DEF Left, ExamineLabel
    <2>3. QED
      BY <2>2 DEF Owing
  <1>7. QED
    BY <1>1, <1>3, <1>4, <1>5, <1>6, LightQuiet DEF Same, ExamineLabel

-----------------------------------------------------------------------------
\* Steps that write one flag of one task.

\* What is written, and what is not.
LEMMA FlagEffect ==
    ASSUME task \in [Task -> TaskState], NEW x \in Task, NEW t \in Task,
           \/ task' = [task EXCEPT ![x].queued = TRUE]
           \/ task' = [task EXCEPT ![x].started = TRUE]
           \/ task' = [task EXCEPT ![x].canceled = TRUE]
           \/ task' = [task EXCEPT ![x].finished = TRUE]
           \/ task' = [task EXCEPT ![x].done = @ + 1]
    PROVE  /\ task'[t].pending = task[t].pending
           /\ task'[t].dependents = task[t].dependents
           /\ t # x => task'[t] = task[t]
           /\ Kept(t)
  <1>1. task'[t].pending = task[t].pending /\ task'[t].dependents = task[t].dependents
    <2>1. CASE task' = [task EXCEPT ![x].queued = TRUE]
      BY <2>1 DEF TaskState
    <2>2. CASE task' = [task EXCEPT ![x].started = TRUE]
      BY <2>2 DEF TaskState
    <2>3. CASE task' = [task EXCEPT ![x].canceled = TRUE]
      BY <2>3 DEF TaskState
    <2>4. CASE task' = [task EXCEPT ![x].finished = TRUE]
      BY <2>4 DEF TaskState
    <2>5. CASE task' = [task EXCEPT ![x].done = @ + 1]
      BY <2>5 DEF TaskState
    <2>6. QED
      BY <2>1, <2>2, <2>3, <2>4, <2>5
  <1>2. t # x => task'[t] = task[t]
    BY DEF TaskState
  <1>3. Kept(t)
    BY WritesKeep
  <1>4. QED
    BY <1>1, <1>2, <1>3

\* Running or canceling a task does not claim it.
LEMMA FlagsButQueued ==
    ASSUME task \in [Task -> TaskState], NEW x \in Task, NEW t \in Task,
           \/ task' = [task EXCEPT ![x].started = TRUE]
           \/ task' = [task EXCEPT ![x].canceled = TRUE]
           \/ task' = [task EXCEPT ![x].finished = TRUE]
           \/ task' = [task EXCEPT ![x].done = @ + 1]
    PROVE  task'[t].queued = task[t].queued
  <1>1. CASE task' = [task EXCEPT ![x].started = TRUE]
    BY <1>1 DEF TaskState
  <1>2. CASE task' = [task EXCEPT ![x].canceled = TRUE]
    BY <1>2 DEF TaskState
  <1>3. CASE task' = [task EXCEPT ![x].finished = TRUE]
    BY <1>3 DEF TaskState
  <1>4. CASE task' = [task EXCEPT ![x].done = @ + 1]
    BY <1>4 DEF TaskState
  <1>5. QED
    BY <1>1, <1>2, <1>3, <1>4

\* A worker that goes on to the next dependent owes the others as before.
LEMMA OwingTail ==
    ASSUME TypeInv, NEW w \in Worker, todo[w] # <<>>, todo'[w] = Tail(todo[w]),
           pc'[w] = "schedule", NEW t, NEW k, Owing(w, k, t), k # Len(todo[w])
    PROVE  Owing(w, k, t)'
  <1>1. w \in Thread /\ w \notin Client
    BY TaskAssumption DEF Thread
  <1>2. todo[w] \in Seq(Task \union {NoTask})
    BY <1>1, Held DEF TypeInv
  <1> DEFINE n == Len(todo[w])
  <1>3. /\ n \in Nat \ {0} /\ Len(Tail(todo[w])) = n - 1
        /\ \A i \in 1 .. n - 1 : Tail(todo[w])[i] = todo[w][i + 1]
    BY <1>2, TailAt
  <1>4. Left(w)' = n - 1 /\ Left(w) \in {n, n - 1, 0}
    BY <1>3 DEF Left
  <1>5. k \in 1 .. n - 1 /\ todo[w][n + 1 - k] = t
    BY <1>1, <1>3, <1>4 DEF Owing, Debtor
  <1>6. n - k \in 1 .. n - 1 /\ n - 1 + 1 - k = n - k /\ n - k + 1 = n + 1 - k
    BY <1>3, <1>5
  <1>7. Tail(todo[w])[n - 1 + 1 - k] = t
    BY <1>3, <1>5, <1>6
  <1>8. QED
    BY <1>1, <1>3, <1>4, <1>5, <1>7 DEF Owing, Debtor

\* Enqueue claims the task, counts it and pushes it, or finds it claimed.
LEMMA EnqueueQuiet ==
    ASSUME TypeInv, InflightInv, GraphInv, DebtInv', QuietInv, NEW th \in Thread,
           EnqueueCas(th) \/ CountInflight(th) \/ PushTask(th)
    PROVE  QuietInv'
  <1>1. /\ pc[th] \in {"enqueue", "count", "push"} /\ todo[th] # <<>>
        /\ todo[th] \in Seq(Task) /\ Head(todo[th]) \in Task
        /\ ToSet(todo[th]) = {Head(todo[th])} \union ToSet(Tail(todo[th]))
    <2>1. pc[th] \in {"enqueue", "count", "push"} /\ todo[th] # <<>>
      BY Held DEF TypeInv, EnqueueCas, CountInflight, PushTask, HeadLabel
    <2>2. todo[th] \in Seq(Task)
      BY <2>1, Held DEF TypeInv, ExamineLabel
    <2>3. QED
      BY <2>1, <2>2, TailSet
  <1>2. PICK h \in Task : h = Head(todo[th])
    BY <1>1
  <1>3. Quiet(th) /\ Others(th)
    BY QuietEnqueue DEF Quiet
  <1>4. /\ cur'[th] = cur[th] /\ UNCHANGED <<created, prereqs>>
        /\ \/ /\ pc[th] = "enqueue" /\ task[h].queued /\ task' = task /\ Queued' = Queued
              /\ pc'[th] = Loop(th) /\ todo'[th] = Tail(todo[th])
           \/ /\ pc[th] = "enqueue" /\ task' = [task EXCEPT ![h].queued = TRUE]
              /\ Queued' = Queued /\ pc'[th] = "count" /\ todo'[th] = todo[th]
           \/ /\ pc[th] = "count" /\ task' = task /\ Queued' = Queued
              /\ pc'[th] = "push" /\ todo'[th] = todo[th]
           \/ /\ pc[th] = "push" /\ task' = task /\ Queued' = Queued \union {h}
              /\ pc'[th] = Loop(th) /\ todo'[th] = Tail(todo[th])
    <2>1. cur'[th] = cur[th] /\ UNCHANGED <<created, prereqs>>
      BY DEF TypeInv, ThreadInv, EnqueueCas, CountInflight, PushTask, Goto, historyVars
    <2>2. CASE EnqueueCas(th)
      <3>1. Queued' = Queued
        BY <2>2, QueuedFollows DEF EnqueueCas, queueVars
      <3>2. QED
        BY <1>2, <2>1, <2>2, <3>1 DEF TypeInv, ThreadInv, EnqueueCas, Goto
    <2>3. CASE CountInflight(th)
      <3>1. Queued' = Queued
        BY <2>3, QueuedFollows DEF CountInflight, queueVars
      <3>2. QED
        BY <2>1, <2>3, <3>1 DEF TypeInv, ThreadInv, CountInflight, Goto
    <2>4. CASE PushTask(th)
      <3>1. Queued' = Queued \union {h}
        BY <1>2, <2>4, PushQueued DEF PushTask, TypeInv, SharedInv, QueueInv
      <3>2. QED
        BY <2>1, <2>4, <3>1 DEF TypeInv, ThreadInv, PushTask, Goto
    <2>5. QED
      BY <2>2, <2>3, <2>4
  <1>5. /\ \A t \in Task : /\ task'[t].pending = task[t].pending
                           /\ task'[t].dependents = task[t].dependents
                           /\ task'[t].finished = task[t].finished
                           /\ task'[t].canceled = task[t].canceled
                           /\ task'[t].started = task[t].started
                           /\ Kept(t)
                           /\ task'[t].queued =>
                                 task[t].queued \/ (t = h /\ pc'[th] = "count")
        /\ pc'[th] = "count" => task'[h].queued
    <2>1. task \in [Task -> TaskState]
      BY DEF TypeInv, SharedInv
    <2>2. \A t \in Task : /\ task'[t].pending = task[t].pending
                          /\ task'[t].dependents = task[t].dependents
                          /\ Kept(t) /\ (t # h => task'[t] = task[t])
      <3>1. CASE task' = task
        BY <3>1 DEF Kept
      <3>2. CASE task' = [task EXCEPT ![h].queued = TRUE]
        BY <2>1, <3>2, FlagEffect
      <3>3. QED
        BY <1>4, <3>1, <3>2
    <2>3. pc'[th] = "count" => task' = [task EXCEPT ![h].queued = TRUE]
      BY <1>4 DEF Loop
    <2>4. pc'[th] # "count" => task' = task
      BY <1>4
    <2>5. pc'[th] = "count" => task'[h].queued
      BY <2>1, <2>3 DEF TaskState
    <2>6. \A t \in Task : task'[t].queued => task[t].queued \/ (t = h /\ pc'[th] = "count")
      BY <2>2, <2>4
    <2>7. QED
      BY <1>3, <2>2, <2>5, <2>6 DEF Quiet, Untouched
  <1>6. pc[th] \in {"count", "push"} => task[h].queued
    BY <1>2 DEF InflightInv, ClaimedOnce, EnqueueLabel
  <1>7. Passes(th)
    <2> SUFFICES ASSUME NEW t \in Task
                 PROVE  /\ Kept(t)
                        /\ task'[t].started => task[t].started \/ Owns(th, t)'
                        /\ Owns(th, t) => Owns(th, t)' \/ Over(t)'
                        /\ task'[t].queued => task[t].queued \/ Hands(th, t)'
                        /\ Hands(th, t) => \/ Hands(th, t)' \/ task'[t].started
                                           \/ t \in Queued'
                        /\ t \in Queued => t \in Queued' \/ Hands(th, t)'
                        /\ Over(t)' => Over(t) \/ Drains(th, t)'
                        /\ Drains(th, t) => Drains(th, t)' \/ Drained(t)'
                        /\ Drained(t) => Drained(t)'
                        /\ Cancels(th, t) => Cancels(th, t)' \/ task'[t].started
                        /\ Starts(th, t) => \/ Starts(th, t)' \/ Cancels(th, t)'
                                            \/ task'[t].started \/ task'[t].queued
                                            \/ task'[t].pending > 0
      BY <1>3 DEF Passes
    <2>1. ~Owns(th, t) /\ ~Drains(th, t) /\ ~Cancels(th, t)
      BY <1>1 DEF Owns, Drains, Cancels, CancelList, RunLabel, CancelLabel
    <2>2. Kept(t) /\ (Over(t)' <=> Over(t)) /\ (Drained(t)' <=> Drained(t))
      BY <1>5 DEF Over, Drained
    <2>3. task'[t].queued => task[t].queued \/ Hands(th, t)'
      BY <1>2, <1>4, <1>5 DEF Hands, EnqueueLabel, Loop
    <2>4. Hands(th, t) => Hands(th, t)' \/ t \in Queued'
      BY <1>1, <1>2, <1>4 DEF Hands, EnqueueLabel
    <2>5. Starts(th, t) => Starts(th, t)' \/ task'[t].queued
      <3>1. CASE th \in Client
        <4>1. th \notin Worker /\ Loop(th) = "enqueue"
          BY <3>1, TaskAssumption DEF Loop
        <4>2. Starts(th, t) => t = h \/ t \in ToSet(Tail(todo[th]))
          BY <1>1, <1>2, <4>1 DEF Starts, ExamineLabel
        <4>3. pc'[th] = "enqueue" => task[h].queued
          BY <1>4, <1>6
        <4>4. pc'[th] \in {"enqueue", "count", "push"}
          BY <1>4, <4>1
        <4>5. CASE t = h
          <5>1. CASE pc'[th] = "count"
            BY <1>5, <4>5, <5>1
          <5>2. CASE pc'[th] = "enqueue"
            BY <1>5, <4>3, <4>5, <5>2 DEF Kept
          <5>3. CASE pc'[th] = "push"
            <6>1. pc[th] = "count"
              BY <1>4, <4>1, <5>3
            <6>2. QED
              BY <1>5, <1>6, <4>5, <6>1 DEF Kept
          <5>4. QED
            BY <4>4, <5>1, <5>2, <5>3
        <4>6. CASE t \in ToSet(Tail(todo[th]))
          <5>1. todo'[th] = todo[th] \/ todo'[th] = Tail(todo[th])
            BY <1>4
          <5>2. t \in ToSet(todo'[th])
            BY <1>1, <4>6, <5>1
          <5>3. QED
            BY <3>1, <4>4, <5>2 DEF Starts
        <4>7. QED
          BY <4>2, <4>5, <4>6
      <3>2. CASE th \in Worker
        <4>1. th \notin Client /\ Loop(th) = "schedule"
          BY <3>2, TaskAssumption DEF Loop
        <4>2. Starts(th, t) => t = h /\ pc[th] = "enqueue"
          BY <1>1, <1>2, <4>1 DEF Starts, ExamineLabel
        <4>3. QED
          BY <1>4, <1>5, <4>2 DEF Kept
      <3>3. QED
        BY <3>1, <3>2 DEF Thread
    <2>6. QED
      BY <1>4, <1>5, <2>1, <2>2, <2>3, <2>4, <2>5
  <1>8. \A t \in Task : \A k : Owing(th, k, t) => Owing(th, k, t)'
    <2> SUFFICES ASSUME NEW t \in Task, NEW k, Owing(th, k, t) PROVE Owing(th, k, t)'
      OBVIOUS
    <2>1. th \in Worker /\ th \notin Client
      BY <1>1, TaskAssumption DEF Owing, Left, ExamineLabel, Thread
    <2>2. Len(todo[th]) \in Nat \ {0}
      BY <1>1, TailAt
    <2>3. Left(th) = Len(todo[th]) - 1 /\ k \in 1 .. Len(todo[th]) - 1
      BY <1>1, <2>1 DEF Left, Owing, ExamineLabel
    <2>4. CASE todo'[th] = todo[th] /\ pc'[th] \in {"count", "push"}
      BY <1>1, <2>1, <2>3, <2>4 DEF Owing, Left, Debtor, ExamineLabel
    <2>5. CASE todo'[th] = Tail(todo[th]) /\ pc'[th] = Loop(th)
      <3>1. pc'[th] = "schedule" /\ k # Len(todo[th])
        BY <2>1, <2>2, <2>3, <2>5 DEF Loop
      <3>2. QED
        BY <1>1, <2>1, <2>5, <3>1, OwingTail
    <2>6. QED
      BY <1>4, <2>4, <2>5
  <1>9. QED
    BY <1>4, <1>5, <1>7, <1>8, LightQuiet DEF Loop, ExamineLabel

\* A worker is done with a task.
LEMMA IdleQuiet ==
    ASSUME TypeInv, GraphInv, DebtInv', QuietInv, NEW w \in Worker,
           \/ PopFails(w) \/ ReadInflight(w) \/ ScheduleReturn(w) \/ TaskFinished(w)
           \/ NotifyShutdown(w)
    PROVE  QuietInv'
  <1>1. w \in Thread /\ w \notin Client
    BY TaskAssumption DEF Thread
  <1>2. Others(w)
    BY QuietWorker DEF Quiet
  <1>3. /\ \/ pc[w] \in {"pop", "readInflight", "taskFinished", "notify"}
           \/ pc[w] = "schedule" /\ todo[w] = <<>>
        /\ pc'[w] \in {"readInflight", "exited", "pop", "taskFinished", "notify"}
        /\ task' = task /\ UNCHANGED <<created, prereqs>> /\ queues' = queues
    BY <1>1 DEF TypeInv, ThreadInv, PopFails, ReadInflight, ScheduleReturn, TaskFinished,
                NotifyShutdown, Goto, historyVars, queueVars
  <1>4. Queued' = Queued /\ \A u \in Task : Same(u)
    BY <1>3, QueuedFollows DEF Same
  <1>5. Passes(w)
    <2>1. \A u \in Task : ~Hands(w, u) /\ ~Cancels(w, u) /\ ~Starts(w, u)
      BY <1>1, <1>3 DEF Hands, Cancels, Starts, EnqueueLabel, CancelList, ExamineLabel
    <2>2. pc[w] \notin RunLabel \union CancelLabel \union {"collect", "cancelDependents"}
      BY <1>3 DEF RunLabel, CancelLabel
    <2>3. QED
      BY <1>1, <1>2, <1>4, <2>1, <2>2, SamePasses
  <1>6. \A u \in Task : \A k : ~Owing(w, k, u)
    <2>1. todo[w] = <<>> => Len(todo[w]) = 0
      OBVIOUS
    <2>2. Left(w) = 0
      BY <1>1, <1>3, <2>1 DEF Left, ExamineLabel
    <2>3. QED
      BY <2>2 DEF Owing
  <1>7. QED
    BY <1>1, <1>3, <1>4, <1>5, <1>6, LightQuiet DEF Same, ExamineLabel

\* A worker takes a task from the queue.
LEMMA PopQuiet ==
    ASSUME TypeInv, InflightInv, GraphInv, DebtInv', QuietInv, NEW w \in Worker, PopTask(w)
    PROVE  QuietInv'
  <1>1. PICK t \in Queued : PopLocked(t) /\ cur' = [cur EXCEPT ![w] = t]
    BY DEF PopTask
  <1>2. w \in Thread /\ w \notin Client
    BY TaskAssumption DEF Thread
  <1>3. Others(w)
    BY QuietWorker DEF Quiet
  <1>4. /\ pc[w] = "pop" /\ pc'[w] = "run" /\ cur'[w] = t
        /\ task' = task /\ UNCHANGED <<created, prereqs>>
    BY <1>1, <1>2 DEF TypeInv, ThreadInv, PopTask, Goto, historyVars
  <1>5. Queued' = Queued \ {t} /\ \A u \in Task : Same(u)
    BY <1>1, <1>4, PopQueued DEF Same, TypeInv, SharedInv, QueueInv, InflightInv
  <1>6. Passes(w)
    <2>1. \A u \in Task : ~Hands(w, u) /\ ~Cancels(w, u) /\ ~Starts(w, u)
      BY <1>2, <1>4 DEF Hands, Cancels, Starts, EnqueueLabel, CancelList, ExamineLabel
    <2>2. pc[w] \notin RunLabel \union CancelLabel \union {"collect", "cancelDependents"}
      BY <1>4 DEF RunLabel, CancelLabel
    <2>3. \A u \in Task : u \in Queued => u \in Queued' \/ Hands(w, u)'
      BY <1>4, <1>5 DEF Hands
    <2>4. QED
      BY <1>2, <1>3, <1>5, <2>1, <2>2, <2>3, SamePasses
  <1>7. \A u \in Task : \A k : ~Owing(w, k, u)
    BY <1>2, <1>4 DEF Owing, Left, ExamineLabel
  <1>8. QED
    BY <1>2, <1>4, <1>5, <1>6, <1>7, LightQuiet DEF Same, ExamineLabel

\* A worker passes a dependent that is finished.
LEMMA WalkQuiet ==
    ASSUME TypeInv, GraphInv, DebtInv', QuietInv, NEW w \in Worker,
           SkipOrDecrement(w) \/ RecheckFinished(w)
    PROVE  QuietInv'
  <1>1. /\ w \in Thread /\ w \notin Client /\ todo[w] # <<>> /\ Head(todo[w]) \in Task
        /\ todo[w] \in Seq(Task)
    BY Held, TaskAssumption
       DEF Thread, SkipOrDecrement, RecheckFinished, HeadLabel, ExamineLabel, TypeInv
  <1>2. PICK h \in Task : h = Head(todo[w])
    BY <1>1
  <1>3. Others(w) /\ Queued' = Queued
    BY WorkerSteady, QueuedFollows DEF Steady
  <1>4. /\ cur'[w] = cur[w] /\ task' = task /\ UNCHANGED <<created, prereqs>>
        /\ \/ /\ pc[w] \in {"schedule", "recheck"} /\ pc'[w] = "schedule"
              /\ todo'[w] = Tail(todo[w]) /\ task[h].finished
           \/ pc[w] = "schedule" /\ pc'[w] = "decrement" /\ todo'[w] = todo[w]
           \/ pc[w] = "recheck" /\ pc'[w] = "enqueue" /\ todo'[w] = todo[w]
    BY <1>1, <1>2 DEF TypeInv, ThreadInv, SkipOrDecrement, RecheckFinished, Goto, historyVars
  <1>5. \A u \in Task : Same(u)
    BY <1>4 DEF Same
  <1>6. task[h].finished => task[h].started
    BY DEF GraphInv, FlagInv
  <1>7. Passes(w)
    <2>1. \A u \in Task : ~Hands(w, u) /\ ~Cancels(w, u)
      BY <1>1, <1>4 DEF Hands, Cancels, EnqueueLabel, CancelList
    <2>2. pc[w] \notin RunLabel \union CancelLabel \union {"collect", "cancelDependents"}
      BY <1>4 DEF RunLabel, CancelLabel
    <2>3. ASSUME NEW u \in Task, Starts(w, u)
          PROVE  Starts(w, u)' \/ task[u].started
      <3>1. pc[w] = "recheck" /\ u = h
        BY <1>1, <1>2, <1>4, <2>3 DEF Starts, ExamineLabel
      <3>2. QED
        BY <1>1, <1>2, <1>4, <1>6, <3>1 DEF Starts
    <2>4. QED
      BY <1>1, <1>3, <1>5, <2>1, <2>2, <2>3, SamePasses
  <1>8. ASSUME NEW t \in Task, NEW k, Owing(w, k, t)
        PROVE  Owing(w, k, t)' \/ task[t].started
    <2>1. Len(todo[w]) \in Nat \ {0} /\ Head(todo[w]) = todo[w][1]
      BY <1>1, TailAt
    <2>2. CASE /\ todo'[w] = todo[w]
               /\ \/ pc[w] = "schedule" /\ pc'[w] = "decrement"
                  \/ pc[w] = "recheck" /\ pc'[w] = "enqueue"
      <3>1. Left(w)' = Left(w)
        BY <2>2 DEF Left, ExamineLabel
      <3>2. QED
        BY <1>4, <1>8, <2>2, <3>1 DEF Owing, Debtor
    <2>3. CASE pc'[w] = "schedule" /\ todo'[w] = Tail(todo[w]) /\ task[h].finished
      <3>1. CASE k = Len(todo[w])
        <4>1. todo[w][1] = t
          BY <1>1, <1>8, <2>1, <3>1 DEF Owing, Debtor
        <4>2. QED
          BY <1>2, <1>6, <2>1, <2>3, <4>1
      <3>2. CASE k # Len(todo[w])
        BY <1>1, <1>8, <2>3, <3>2, OwingTail
      <3>3. QED
        BY <3>1, <3>2
    <2>4. QED
      BY <1>4, <2>2, <2>3
  <1>9. QED
    BY <1>1, <1>4, <1>5, <1>7, <1>8, LightQuiet DEF Same, ExamineLabel

\* A worker starts its task, runs it and satisfies its promise.
LEMMA RunQuiet ==
    ASSUME TypeInv, LifeInv, GraphInv, DebtInv', QuietInv, NEW w \in Worker,
           RunCas(w) \/ CallFunc(w) \/ RunFinished(w) \/ RunDone(w)
    PROVE  QuietInv'
  <1>1. w \in Thread /\ w \notin Client /\ cur[w] \in Task
    BY Held, TaskAssumption
       DEF Thread, TypeInv, RunCas, CallFunc, RunFinished, RunDone, TaskLabel
  <1>2. PICK x \in Task : x = cur[w]
    BY <1>1
  <1>3. Others(w) /\ Queued' = Queued
    BY WorkerSteady, QueuedFollows DEF Steady
  <1>4. /\ cur'[w] = x /\ UNCHANGED <<created, prereqs>>
        /\ \/ pc[w] = "run" /\ pc'[w] = "taskFinished" /\ task' = task /\ task[x].started
           \/ pc[w] = "run" /\ pc'[w] = "func" /\ task' = [task EXCEPT ![x].started = TRUE]
           \/ pc[w] = "func" /\ pc'[w] = "runFinished" /\ task' = task
           \/ /\ pc[w] = "runFinished" /\ pc'[w] = "runDone"
              /\ task' = [task EXCEPT ![x].finished = TRUE]
           \/ /\ pc[w] = "runDone" /\ pc'[w] = "collect"
              /\ task' = [task EXCEPT ![x].done = @ + 1]
    BY <1>1, <1>2 DEF TypeInv, ThreadInv, RunCas, CallFunc, RunFinished, RunDone, Goto,
                      historyVars
  <1>5. task \in [Task -> TaskState]
    BY DEF TypeInv, SharedInv
  <1>6. ASSUME NEW t \in Task
        PROVE  /\ task'[t].pending = task[t].pending
               /\ task'[t].dependents = task[t].dependents
               /\ t # x => task'[t] = task[t]
               /\ Kept(t) /\ task'[t].queued = task[t].queued
    <2>1. CASE task' = task
      BY <2>1 DEF Kept
    <2>2. CASE task' # task
      <3>1. /\ task'[t].pending = task[t].pending
            /\ task'[t].dependents = task[t].dependents
            /\ t # x => task'[t] = task[t]
            /\ Kept(t)
        BY <1>4, <1>5, <2>2, FlagEffect
      <3>2. task'[t].queued = task[t].queued
        BY <1>4, <1>5, <2>2, FlagsButQueued
      <3>3. QED
        BY <3>1, <3>2
    <2>3. QED
      BY <2>1, <2>2
  <1>7. /\ pc'[w] = "func" => task'[x].started
        /\ pc'[w] = "runDone" => task'[x].finished
        /\ pc'[w] # "runDone" => task'[x].finished = task[x].finished
        /\ pc'[w] # "func" => task'[x].started = task[x].started
        /\ task'[x].canceled = task[x].canceled
    <2>1. CASE task' = task /\ pc'[w] \notin {"func", "runDone"}
      BY <2>1
    <2>2. CASE pc'[w] = "func" /\ task' = [task EXCEPT ![x].started = TRUE]
      BY <1>5, <2>2 DEF TaskState
    <2>3. CASE pc'[w] = "runDone" /\ task' = [task EXCEPT ![x].finished = TRUE]
      BY <1>5, <2>3 DEF TaskState
    <2>4. CASE pc'[w] = "collect" /\ task' = [task EXCEPT ![x].done = @ + 1]
      BY <1>5, <2>4 DEF TaskState
    <2>5. QED
      BY <1>4, <2>1, <2>2, <2>3, <2>4, Zenon
  <1>8. pc[w] = "runDone" => task[x].finished
    BY <1>1, <1>2 DEF LifeInv, Life, Owns, RunLabel
  <1>9. Passes(w)
    <2> SUFFICES ASSUME NEW t \in Task
                 PROVE  /\ Kept(t)
                        /\ task'[t].started => task[t].started \/ Owns(w, t)'
                        /\ Owns(w, t) => Owns(w, t)' \/ Over(t)'
                        /\ task'[t].queued => task[t].queued \/ Hands(w, t)'
                        /\ Hands(w, t) => \/ Hands(w, t)' \/ task'[t].started
                                          \/ t \in Queued'
                        /\ t \in Queued => t \in Queued' \/ Hands(w, t)'
                        /\ Over(t)' => Over(t) \/ Drains(w, t)'
                        /\ Drains(w, t) => Drains(w, t)' \/ Drained(t)'
                        /\ Drained(t) => Drained(t)'
                        /\ Cancels(w, t) => Cancels(w, t)' \/ task'[t].started
                        /\ Starts(w, t) => \/ Starts(w, t)' \/ Cancels(w, t)'
                                           \/ task'[t].started \/ task'[t].queued
                                           \/ task'[t].pending > 0
      BY <1>3 DEF Passes
    <2>1. ~Cancels(w, t) /\ ~Starts(w, t)
      BY <1>1, <1>4 DEF Cancels, Starts, CancelList, ExamineLabel
    <2>2. task'[t].started => task[t].started \/ Owns(w, t)'
      BY <1>4, <1>6, <1>7 DEF Owns, RunLabel
    <2>3. Owns(w, t) => Owns(w, t)' \/ Over(t)'
      <3>1. Owns(w, t) => t = x /\ pc[w] \in RunLabel
        BY <1>2, <1>4 DEF Owns, CancelLabel
      <3>2. pc[w] = "runDone" => task'[x].finished
        BY <1>6, <1>8 DEF Kept
      <3>3. QED
        BY <1>4, <3>1, <3>2 DEF Owns, Over, RunLabel
    <2>4. Hands(w, t) => Hands(w, t)' \/ task'[t].started
      <3>1. Hands(w, t) => t = x /\ pc[w] = "run"
        BY <1>2, <1>4 DEF Hands, EnqueueLabel
      <3>2. QED
        BY <1>4, <1>7, <3>1
    <2>5. Over(t)' => Over(t) \/ Drains(w, t)'
      BY <1>4, <1>6, <1>7 DEF Over, Drains
    <2>6. Drains(w, t) => Drains(w, t)'
      BY <1>2, <1>4 DEF Drains
    <2>7. Drained(t) => Drained(t)'
      BY <1>6 DEF Drained, Kept
    <2>8. QED
      BY <1>3, <1>6, <2>1, <2>2, <2>3, <2>4, <2>5, <2>6, <2>7
  <1>10. \A t \in Task : \A k : ~Owing(w, k, t)
    BY <1>1, <1>4 DEF Owing, Left, ExamineLabel
  <1>11. QED
    BY <1>1, <1>4, <1>6, <1>9, <1>10, LightQuiet DEF ExamineLabel

\* A client wins the race for a task it cancels, and stores what Cancel stores.
LEMMA CancelQuiet ==
    ASSUME TypeInv, LifeInv, GraphInv, DebtInv', QuietInv, NEW c \in Client,
           CancelCas(c) \/ StoreCanceled(c) \/ StoreFinished(c) \/ SetDone(c)
    PROVE  QuietInv'
  <1>1. /\ c \in Thread /\ c \notin Worker /\ todo[c] \in Seq(Task) /\ todo[c] # <<>>
        /\ Head(todo[c]) \in Task
        /\ ToSet(todo[c]) = {Head(todo[c])} \union ToSet(Tail(todo[c]))
    <2>1. /\ c \in Thread /\ c \notin Worker /\ todo[c] \in Seq(Task) /\ todo[c] # <<>>
          /\ Head(todo[c]) \in Task
      BY Held, TaskAssumption
         DEF Thread, CancelCas, StoreCanceled, StoreFinished, SetDone, HeadLabel, ExamineLabel,
             TypeInv
    <2>2. QED
      BY <2>1, TailSet
  <1>2. PICK x \in Task : x = Head(todo[c])
    BY <1>1
  <1>3. Others(c) /\ Queued' = Queued
    BY ClientSteady, QueuedFollows DEF Steady
  <1>4. /\ cur'[c] = cur[c] /\ UNCHANGED <<created, prereqs>>
        /\ \/ /\ pc[c] = "cancelCas" /\ pc'[c] = "cancel" /\ task' = task
              /\ task[x].started /\ todo'[c] = Tail(todo[c])
           \/ /\ pc[c] = "cancelCas" /\ pc'[c] = "storeCanceled" /\ todo'[c] = todo[c]
              /\ task' = [task EXCEPT ![x].started = TRUE]
           \/ /\ pc[c] = "storeCanceled" /\ pc'[c] = "storeFinished" /\ todo'[c] = todo[c]
              /\ task' = [task EXCEPT ![x].canceled = TRUE]
           \/ /\ pc[c] = "storeFinished" /\ pc'[c] = "setDone" /\ todo'[c] = todo[c]
              /\ task' = [task EXCEPT ![x].finished = TRUE]
           \/ /\ pc[c] = "setDone" /\ pc'[c] = "cancelDependents" /\ todo'[c] = todo[c]
              /\ task' = [task EXCEPT ![x].done = @ + 1]
    BY <1>1, <1>2 DEF TypeInv, ThreadInv, CancelCas, StoreCanceled, StoreFinished, SetDone,
                      Goto, historyVars
  <1>5. task \in [Task -> TaskState]
    BY DEF TypeInv, SharedInv
  <1>6. ASSUME NEW t \in Task
        PROVE  /\ task'[t].pending = task[t].pending
               /\ task'[t].dependents = task[t].dependents
               /\ t # x => task'[t] = task[t]
               /\ Kept(t) /\ task'[t].queued = task[t].queued
    <2>1. CASE task' = task
      BY <2>1 DEF Kept
    <2>2. CASE task' # task
      <3>1. /\ task'[t].pending = task[t].pending
            /\ task'[t].dependents = task[t].dependents
            /\ t # x => task'[t] = task[t]
            /\ Kept(t)
        BY <1>4, <1>5, <2>2, FlagEffect
      <3>2. task'[t].queued = task[t].queued
        BY <1>4, <1>5, <2>2, FlagsButQueued
      <3>3. QED
        BY <3>1, <3>2
    <2>3. QED
      BY <2>1, <2>2
  <1>7. /\ pc'[c] \in {"storeFinished", "setDone"} \/ (Over(x)' => Over(x))
        /\ pc'[c] # "storeCanceled" => task'[x].started = task[x].started
        /\ pc[c] = "setDone" => task'[x].finished
    <2>1. CASE task' = task /\ pc[c] = "cancelCas" /\ pc'[c] = "cancel"
      BY <2>1 DEF Over
    <2>2. CASE pc'[c] = "storeCanceled" /\ task' = [task EXCEPT ![x].started = TRUE]
                 /\ pc[c] = "cancelCas"
      BY <1>5, <2>2 DEF TaskState, Over
    <2>3. CASE pc'[c] = "storeFinished" /\ task' = [task EXCEPT ![x].canceled = TRUE]
                 /\ pc[c] = "storeCanceled"
      BY <1>5, <2>3 DEF TaskState
    <2>4. CASE pc'[c] = "setDone" /\ task' = [task EXCEPT ![x].finished = TRUE]
                 /\ pc[c] = "storeFinished"
      BY <1>5, <2>4 DEF TaskState
    <2>5. CASE pc'[c] = "cancelDependents" /\ task' = [task EXCEPT ![x].done = @ + 1]
                 /\ pc[c] = "setDone"
      <3>1. /\ task'[x].started = task[x].started /\ task'[x].finished = task[x].finished
            /\ task'[x].canceled = task[x].canceled
        BY <1>5, <2>5 DEF TaskState
      <3>2. task[x].finished
        BY <1>1, <1>2, <2>5 DEF LifeInv, Life, Owns, CancelLabel
      <3>3. QED
        BY <2>5, <3>1, <3>2 DEF Over
    <2>6. QED
      BY <1>4, <2>1, <2>2, <2>3, <2>4, <2>5
  <1>8. Passes(c)
    <2> SUFFICES ASSUME NEW t \in Task
                 PROVE  /\ Kept(t)
                        /\ task'[t].started => task[t].started \/ Owns(c, t)'
                        /\ Owns(c, t) => Owns(c, t)' \/ Over(t)'
                        /\ task'[t].queued => task[t].queued \/ Hands(c, t)'
                        /\ Hands(c, t) => \/ Hands(c, t)' \/ task'[t].started
                                          \/ t \in Queued'
                        /\ t \in Queued => t \in Queued' \/ Hands(c, t)'
                        /\ Over(t)' => Over(t) \/ Drains(c, t)'
                        /\ Drains(c, t) => Drains(c, t)' \/ Drained(t)'
                        /\ Drained(t) => Drained(t)'
                        /\ Cancels(c, t) => Cancels(c, t)' \/ task'[t].started
                        /\ Starts(c, t) => \/ Starts(c, t)' \/ Cancels(c, t)'
                                           \/ task'[t].started \/ task'[t].queued
                                           \/ task'[t].pending > 0
      BY <1>3 DEF Passes
    <2>1. ~Hands(c, t) /\ ~Starts(c, t)
      BY <1>1, <1>4 DEF Hands, Starts, EnqueueLabel, ExamineLabel
    <2>2. task'[t].started => task[t].started \/ Owns(c, t)'
      BY <1>2, <1>4, <1>6, <1>7 DEF Owns, CancelLabel
    <2>3. Owns(c, t) => Owns(c, t)' \/ Over(t)'
      <3>1. Owns(c, t) => t = x /\ pc[c] \in CancelLabel
        BY <1>2, <1>4 DEF Owns, RunLabel
      <3>2. QED
        BY <1>2, <1>4, <1>7, <3>1 DEF Owns, Over, CancelLabel
    <2>4. Over(t)' => Over(t) \/ Drains(c, t)'
      BY <1>2, <1>4, <1>6, <1>7 DEF Over, Drains
    <2>5. Drains(c, t) => Drains(c, t)'
      BY <1>4 DEF Drains
    <2>6. Drained(t) => Drained(t)'
      BY <1>6 DEF Drained, Kept
    <2>7. Cancels(c, t) => Cancels(c, t)' \/ task'[t].started
      <3>1. CASE todo'[c] = todo[c]
        BY <1>4, <3>1 DEF Cancels, CancelList
      <3>2. CASE pc'[c] = "cancel" /\ todo'[c] = Tail(todo[c]) /\ task[x].started
        BY <1>1, <1>2, <1>6, <3>2 DEF Cancels, CancelList, Kept
      <3>3. QED
        BY <1>4, <3>1, <3>2
    <2>8. QED
      BY <1>3, <1>6, <2>1, <2>2, <2>3, <2>4, <2>5, <2>6, <2>7
  <1>9. \A t \in Task : \A k : ~Owing(c, k, t)
    BY <1>1, <1>4 DEF Owing, Left, ExamineLabel
  <1>10. QED
    BY <1>1, <1>4, <1>6, <1>8, <1>9, LightQuiet DEF ExamineLabel

-----------------------------------------------------------------------------
\* The steps that give, take or pass on a notice.

\* A step that only gives up notice n of its thread leaves the others.
LEMMA OwedTo ==
    ASSUME NEW t, NEW th \in Thread, Others(th), NEW n,
           \A p \in Task : \A i : Listed(p, i, t) => Listed(p, i, t)',
           \A k : Owing(th, k, t) => Owing(th, k, t)' \/ k = n
    PROVE  Owed(t) \ {<<"held", th, n>>} \subseteq Owed(t)'
  <1> SUFFICES ASSUME NEW x \in Owed(t), x # <<"held", th, n>> PROVE x \in Owed(t)'
    OBVIOUS
  <1>1. CASE \E p \in Task : \E i : Listed(p, i, t) /\ x = <<"listed", p, i>>
    BY <1>1, OwedTokensNext
  <1>2. CASE \E o \in Thread : \E k : Owing(o, k, t) /\ x = <<"held", o, k>>
    <2>1. PICK o \in Thread : \E k : Owing(o, k, t) /\ x = <<"held", o, k>>
      BY <1>2
    <2>2. PICK k : Owing(o, k, t) /\ x = <<"held", o, k>>
      BY <2>1
    <2>3. Owing(o, k, t)'
      <3>1. CASE o = th
        BY <2>2, <3>1
      <3>2. CASE o # th
        BY <2>2, <3>2, OwingStays DEF Others
      <3>3. QED
        BY <3>1, <3>2
    <2>4. QED
      BY <2>2, <2>3, OwedTokensNext
  <1>3. QED
    BY <1>1, <1>2, OwedTokens

\* A step that gives up none leaves them all.
LEMMA OwedStays ==
    ASSUME NEW t, NEW th \in Thread, Others(th),
           \A p \in Task : \A i : Listed(p, i, t) => Listed(p, i, t)',
           \A k : Owing(th, k, t) => Owing(th, k, t)'
    PROVE  Owed(t) \subseteq Owed(t)'
  <1>1. \A o \in Thread : \A k : Owing(o, k, t) => Owing(o, k, t)'
    BY OwingStays DEF Others
  <1>2. QED
    BY <1>1, OwedTokens, OwedTokensNext

\* As many notices are to come as before, ...
LEMMA PromiseKept ==
    ASSUME NEW t, Promised(t), task[t].pending \in Int, IsFiniteSet(Owed(t)'),
           Owed(t) \subseteq Owed(t)', task'[t].pending = task[t].pending
    PROVE  Promised(t)'
  <1>1. Cardinality(Owed(t)) <= Cardinality(Owed(t)') /\ IsFiniteSet(Owed(t))
    BY FS_Subset
  <1>2. Cardinality(Owed(t)) \in Nat /\ Cardinality(Owed(t)') \in Nat
    BY <1>1, FS_CardinalityType
  <1>3. QED
    BY <1>1, <1>2 DEF Promised

\* ... or one is not, and m_pending is counted down.
LEMMA PromiseCounted ==
    ASSUME NEW t, NEW x, Promised(t), task[t].pending \in Int, IsFiniteSet(Owed(t)),
           IsFiniteSet(Owed(t)'), Owed(t) \ {x} \subseteq Owed(t)',
           task'[t].pending = task[t].pending - 1
    PROVE  Promised(t)'
  <1> DEFINE R == Owed(t) \ {x}
  <1>1. /\ IsFiniteSet(R)
        /\ Cardinality(R) = IF x \in Owed(t) THEN Cardinality(Owed(t)) - 1
                                             ELSE Cardinality(Owed(t))
    BY FS_RemoveElement
  <1>2. Cardinality(R) <= Cardinality(Owed(t)')
    BY FS_Subset
  <1>3. /\ Cardinality(Owed(t)) \in Nat /\ Cardinality(Owed(t)') \in Nat
        /\ Cardinality(R) \in Nat
    BY <1>1, FS_CardinalityType
  <1>4. QED
    BY <1>1, <1>2, <1>3 DEF Promised

\* The step of th counts task u down by one ...
Counted(u) == task' = [task EXCEPT ![u].pending = @ - 1]

\* ... and th gives up at most one notice for it, the last it holds.
Loses(th, u) ==
    \A t, k : Owing(th, k, t) => Owing(th, k, t)' \/ (k = Len(todo[th]) /\ t = u)

\* A thread gives task u notice and counts it down.
LEMMA CountQuiet ==
    ASSUME TypeInv, GraphInv, DebtInv', QuietInv, NEW th \in Thread, Others(th),
           NEW u \in created, Counted(u), Loses(th, u),
           created' = created, prereqs' = prereqs, Queued' = Queued,
           pc[th] \notin RunLabel \union CancelLabel \union {"collect", "cancelDependents"},
           \A t \in Task : ~Hands(th, t) /\ ~Cancels(th, t)
                           /\ (Starts(th, t) => Starts(th, t)'),
           Starts(th, u)' \/ task'[u].pending > 0,
           pc'[th] \in ExamineLabel => ToSet(todo'[th]) \subseteq ToSet(prereqs'[cur'[th]])
    PROVE  QuietInv'
  <1>1. /\ u \in Task /\ created \subseteq Task /\ task \in [Task -> TaskState]
        /\ \A t \in Task : task[t].pending \in Int
    BY DEF TypeInv, SharedInv, TaskState
  <1>2. /\ task'[u].pending = task[u].pending - 1
        /\ \A t \in Task : /\ task'[t].queued = task[t].queued
                           /\ task'[t].dependents = task[t].dependents
        /\ \A t \in Task \ {u} : task'[t] = task[t]
    BY <1>1, PendingWrite DEF Counted
  <1>3. \A t \in Task : /\ task'[t].started = task[t].started
                        /\ task'[t].finished = task[t].finished
                        /\ task'[t].canceled = task[t].canceled
    BY <1>1 DEF TaskState, Counted
  <1>4. Passes(th)
    <2> SUFFICES ASSUME NEW t \in Task
                 PROVE  /\ Kept(t)
                        /\ task'[t].started => task[t].started \/ Owns(th, t)'
                        /\ Owns(th, t) => Owns(th, t)' \/ Over(t)'
                        /\ task'[t].queued => task[t].queued \/ Hands(th, t)'
                        /\ Hands(th, t) => \/ Hands(th, t)' \/ task'[t].started
                                           \/ t \in Queued'
                        /\ t \in Queued => t \in Queued' \/ Hands(th, t)'
                        /\ Over(t)' => Over(t) \/ Drains(th, t)'
                        /\ Drains(th, t) => Drains(th, t)' \/ Drained(t)'
                        /\ Drained(t) => Drained(t)'
                        /\ Cancels(th, t) => Cancels(th, t)' \/ task'[t].started
                        /\ Starts(th, t) => \/ Starts(th, t)' \/ Cancels(th, t)'
                                            \/ task'[t].started \/ task'[t].queued
                                            \/ task'[t].pending > 0
      BY DEF Passes
    <2>1. ~Owns(th, t) /\ ~Drains(th, t)
      BY DEF Owns, Drains, RunLabel, CancelLabel
    <2>2. Kept(t) /\ (Over(t)' <=> Over(t)) /\ (Drained(t)' <=> Drained(t))
      BY <1>2, <1>3 DEF Kept, Over, Drained
    <2>3. QED
      BY <1>2, <1>3, <2>1, <2>2
  <1>5. ASSUME NEW t \in created
        PROVE  /\ Promised(t) => Promised(t)'
               /\ task[t].pending > 0 => task'[t].pending > 0 \/ Starts(th, t)'
    <2>1. \A p \in Task : \A i : Listed(p, i, t) => Listed(p, i, t)'
      BY <1>2 DEF Listed
    <2>2. IsFiniteSet(Owed(t)) /\ IsFiniteSet(Owed(t)') /\ task[t].pending \in Int
      BY <1>1 DEF GraphInv, DebtInv, Paid
    <2>3. CASE t = u
      <3>1. PICK n : n = Len(todo[th])
        OBVIOUS
      <3>2. \A k : Owing(th, k, u) => Owing(th, k, u)' \/ k = n
        BY <3>1 DEF Loses
      <3>3. Owed(u) \ {<<"held", th, n>>} \subseteq Owed(u)'
        BY <2>1, <2>3, <3>2, OwedTo
      <3>4. Promised(u) => Promised(u)'
        BY <1>2, <2>2, <2>3, <3>3, PromiseCounted
      <3>5. QED
        BY <2>3, <3>4
    <2>4. CASE t # u
      <3>1. \A k : Owing(th, k, t) => Owing(th, k, t)'
        BY <2>4 DEF Loses
      <3>2. Owed(t) \subseteq Owed(t)'
        BY <2>1, <3>1, OwedStays
      <3>3. task'[t].pending = task[t].pending
        BY <1>1, <1>2, <2>4
      <3>4. QED
        BY <2>2, <3>2, <3>3, PromiseKept
    <2>5. QED
      BY <2>3, <2>4
  <1>6. QED
    BY <1>2, <1>4, <1>5, StepQuiet

\* Launch counts down for a prerequisite that is over or empty.
LEMMA DiscountQuiet ==
    ASSUME TypeInv, GraphInv, DebtInv', QuietInv, NEW c \in Client,
           ExamineCanceled(c) \/ ExamineFinished(c) \/ AddFailed(c), Discount(c)
    PROVE  QuietInv'
  <1>1. /\ c \in Thread /\ c \notin Worker
        /\ pc[c] \in ExamineLabel /\ cur[c] \in created /\ todo[c] # <<>>
        /\ todo[c] \in Seq(Task \union {NoTask})
    BY KnownTasks, Held, TaskAssumption
       DEF Thread, GraphInv, Local, ExamineCanceled, ExamineFinished, AddFailed, TypeInv,
           ExamineLabel, TaskLabel, HeadLabel
  <1>2. PICK t \in created : t = cur[c]
    BY <1>1
  <1>3. Others(c) /\ Queued' = Queued
    BY ClientSteady, QueuedFollows DEF Steady
  <1>4. /\ pc'[c] = "examine" /\ cur'[c] = t /\ todo'[c] = Tail(todo[c])
        /\ UNCHANGED <<created, prereqs>>
        /\ Counted(t)
    BY <1>1, <1>2 DEF TypeInv, ThreadInv, ExamineCanceled, ExamineFinished, AddFailed, Discount,
                      Goto, historyVars, Counted
  <1>5. pc[c] \notin RunLabel \union CancelLabel \union {"collect", "cancelDependents"}
    BY <1>1 DEF ExamineLabel, RunLabel, CancelLabel
  <1>6. \A u \in Task : ~Hands(c, u) /\ ~Cancels(c, u) /\ (Starts(c, u) => Starts(c, u)')
    <2>1. \A u \in Task : ~Hands(c, u) /\ ~Cancels(c, u)
      BY <1>1 DEF Hands, Cancels, EnqueueLabel, CancelList, ExamineLabel
    <2>2. \A u \in Task : Starts(c, u) => u = t
      BY <1>1, <1>2 DEF Starts, ExamineLabel
    <2>3. Starts(c, t)'
      BY <1>4 DEF Starts, ExamineLabel
    <2>4. QED
      BY <2>1, <2>2, <2>3
  <1>7. Starts(c, t)'
    BY <1>4 DEF Starts, ExamineLabel
  <1>8. PICK n : n = Len(todo[c])
    OBVIOUS
  <1>9. Loses(c, t)
    <2>1. n \in Nat \ {0} /\ Len(Tail(todo[c])) = n - 1
      BY <1>1, <1>8, TailAt
    <2>2. Left(c) = n /\ Left(c)' = n - 1
      BY <1>1, <1>4, <1>8, <2>1 DEF Left, ExamineLabel
    <2>3. QED
      BY <1>1, <1>2, <1>4, <1>8, <2>1, <2>2 DEF Owing, Debtor, Loses
  <1>10. ToSet(todo'[c]) \subseteq ToSet(prereqs'[cur'[c]])
    <2>1. ToSet(Tail(todo[c])) \subseteq ToSet(todo[c])
      BY <1>1, TailSet
    <2>2. QED
      BY <1>1, <1>2, <1>4, <2>1 DEF QuietInv, WaitedInv
  <1>11. QED
    BY <1>1, <1>3, <1>4, <1>5, <1>6, <1>7, <1>9, <1>10, CountQuiet

\* A worker gives notice.  When the count is down to 0 it looks whether the
\* task is to be enqueued.
LEMMA DecrementQuiet ==
    ASSUME TypeInv, GraphInv, DebtInv', QuietInv, NEW w \in Worker, DecrementPending(w)
    PROVE  QuietInv'
  <1>1. /\ w \in Thread /\ w \notin Client
        /\ pc[w] = "decrement" /\ todo[w] # <<>> /\ Head(todo[w]) \in created
        /\ todo[w] \in Seq(Task)
    BY KnownTasks, Held, TaskAssumption
       DEF Thread, GraphInv, Local, DecrementPending, TypeInv, ExamineLabel, HeadLabel
  <1>2. PICK h \in created : h = Head(todo[w])
    BY <1>1
  <1>3. Others(w) /\ Queued' = Queued
    BY WorkerSteady, QueuedFollows DEF Steady
  <1>4. /\ UNCHANGED <<created, prereqs>> /\ Counted(h)
        /\ \/ pc'[w] = "recheck" /\ todo'[w] = todo[w]
           \/ pc'[w] = "schedule" /\ todo'[w] = Tail(todo[w]) /\ ~(task[h].pending - 1 <= 0)
    BY <1>1, <1>2 DEF TypeInv, ThreadInv, DecrementPending, Goto, historyVars, Counted
  <1>5. pc[w] \notin RunLabel \union CancelLabel \union {"collect", "cancelDependents"}
    BY <1>1 DEF RunLabel, CancelLabel
  <1>6. \A u \in Task : ~Hands(w, u) /\ ~Cancels(w, u) /\ ~Starts(w, u)
    BY <1>1 DEF Hands, Cancels, Starts, EnqueueLabel, CancelList, ExamineLabel
  <1>7. Starts(w, h)' \/ task'[h].pending > 0
    <2>1. CASE pc'[w] = "recheck" /\ todo'[w] = todo[w]
      BY <1>2, <2>1 DEF Starts
    <2>2. CASE ~(task[h].pending - 1 <= 0)
      <3>1. task \in [Task -> TaskState] /\ h \in Task
        BY DEF TypeInv, SharedInv
      <3>2. task'[h].pending = task[h].pending - 1 /\ task[h].pending \in Int
        BY <1>4, <3>1, PendingWrite DEF TaskState, Counted
      <3>3. QED
        BY <2>2, <3>2
    <2>3. QED
      BY <1>4, <2>1, <2>2
  <1>8. PICK n : n = Len(todo[w])
    OBVIOUS
  <1>9. ASSUME NEW u, NEW k, Owing(w, k, u)
        PROVE  Owing(w, k, u)' \/ (k = n /\ u = h)
    <2>1. n \in Nat \ {0} /\ h = todo[w][1]
      BY <1>1, <1>2, <1>8, TailAt
    <2>2. Left(w) = n
      BY <1>1, <1>8 DEF Left
    <2>3. CASE k = n
      <3>1. todo[w][n + 1 - n] = u
        BY <1>1, <1>8, <1>9, <2>3 DEF Owing, Debtor
      <3>2. QED
        BY <2>1, <2>3, <3>1
    <2>4. CASE k # n /\ pc'[w] = "recheck" /\ todo'[w] = todo[w]
      <3>1. Left(w)' = n - 1
        BY <1>1, <1>8, <2>4 DEF Left, ExamineLabel
      <3>2. k \in 1 .. n - 1
        BY <1>9, <2>1, <2>2, <2>4 DEF Owing
      <3>3. QED
        BY <1>1, <1>9, <2>4, <3>1, <3>2 DEF Owing, Debtor
    <2>5. CASE k # n /\ pc'[w] = "schedule" /\ todo'[w] = Tail(todo[w])
      BY <1>1, <1>8, <1>9, <2>5, OwingTail
    <2>6. QED
      BY <1>4, <2>3, <2>4, <2>5
  <1>10. pc'[w] \notin ExamineLabel
    BY <1>4 DEF ExamineLabel
  <1>11. Loses(w, h)
    BY <1>8, <1>9 DEF Loses
  <1>12. QED
    BY <1>1, <1>3, <1>4, <1>5, <1>6, <1>7, <1>10, <1>11, CountQuiet

\* A notice may change its place.
LEMMA PromiseMoved ==
    ASSUME NEW t, NEW x, NEW y, Promised(t), task[t].pending \in Int, IsFiniteSet(Owed(t)),
           IsFiniteSet(Owed(t)'), Owed(t) \ {x} \subseteq Owed(t)',
           y \in Owed(t)', y \notin Owed(t), task'[t].pending = task[t].pending
    PROVE  Promised(t)'
  <1> DEFINE R == Owed(t) \ {x}
  <1>1. /\ IsFiniteSet(R)
        /\ Cardinality(R) = IF x \in Owed(t) THEN Cardinality(Owed(t)) - 1
                                             ELSE Cardinality(Owed(t))
    BY FS_RemoveElement
  <1>2. Cardinality(R \union {y}) = Cardinality(R) + 1
    BY <1>1, FS_AddElement
  <1>3. Cardinality(R \union {y}) <= Cardinality(Owed(t)')
    BY FS_Subset
  <1>4. /\ Cardinality(Owed(t)) \in Nat /\ Cardinality(Owed(t)') \in Nat
        /\ Cardinality(R) \in Nat
    BY <1>1, FS_CardinalityType
  <1>5. QED
    BY <1>1, <1>2, <1>3, <1>4 DEF Promised

\* What a step passes on that writes the dependents of a task u, and nothing else.
LEMMA ListPasses ==
    ASSUME task \in [Task -> TaskState], NEW th \in Thread, Others(th), Queued' = Queued,
           NEW u \in Task, NEW s, task' = [task EXCEPT ![u].dependents = s],
           pc[th] \notin RunLabel \union CancelLabel,
           Drained(u) => Drained(u)',
           \A t \in Task : ~Hands(th, t) /\ (Starts(th, t) => Starts(th, t)')
                           /\ (Drains(th, t) => Drained(t)')
                           /\ (Cancels(th, t) => Cancels(th, t)' \/ task[t].started)
    PROVE  Passes(th)
  <1>1. /\ \A t \in Task : /\ task'[t].queued = task[t].queued
                           /\ task'[t].pending = task[t].pending
        /\ \A t \in Task \ {u} : task'[t] = task[t]
    BY DependentsWrite
  <1>2. \A t \in Task : /\ task'[t].started = task[t].started
                        /\ task'[t].finished = task[t].finished
                        /\ task'[t].canceled = task[t].canceled
    BY DEF TaskState
  <1> SUFFICES ASSUME NEW t \in Task
               PROVE  /\ Kept(t)
                      /\ task'[t].started => task[t].started \/ Owns(th, t)'
                      /\ Owns(th, t) => Owns(th, t)' \/ Over(t)'
                      /\ task'[t].queued => task[t].queued \/ Hands(th, t)'
                      /\ Hands(th, t) => Hands(th, t)' \/ task'[t].started \/ t \in Queued'
                      /\ t \in Queued => t \in Queued' \/ Hands(th, t)'
                      /\ Over(t)' => Over(t) \/ Drains(th, t)'
                      /\ Drains(th, t) => Drains(th, t)' \/ Drained(t)'
                      /\ Drained(t) => Drained(t)'
                      /\ Cancels(th, t) => Cancels(th, t)' \/ task'[t].started
                      /\ Starts(th, t) => \/ Starts(th, t)' \/ Cancels(th, t)'
                                          \/ task'[t].started \/ task'[t].queued
                                          \/ task'[t].pending > 0
    BY DEF Passes
  <1>3. ~Owns(th, t)
    BY DEF Owns
  <1>4. Kept(t) /\ (Over(t)' <=> Over(t))
    BY <1>1, <1>2 DEF Kept, Over
  <1>5. Drained(t) => Drained(t)'
    BY <1>1 DEF Drained
  <1>6. QED
    BY <1>1, <1>2, <1>3, <1>4, <1>5

\* Launch leaves the notice to a prerequisite that is not over.
LEMMA AddQuiet ==
    ASSUME TypeInv, GraphInv, DebtInv', QuietInv, NEW c \in Client, TryAddDependent(c),
           ~task[Head(todo[c])].finished
    PROVE  QuietInv'
  <1>1. /\ c \in Thread /\ c \notin Worker /\ created \subseteq Task
        /\ pc[c] = "addDependent" /\ cur[c] \in created /\ todo[c] # <<>>
        /\ todo[c] \in Seq(Task \union {NoTask}) /\ Head(todo[c]) \in created
    BY KnownTasks, Held, TaskAssumption
       DEF Thread, GraphInv, Local, TryAddDependent, TypeInv, ExamineLabel, TaskLabel, HeadLabel
  <1>2. PICK t \in created : t = cur[c]
    BY <1>1
  <1>3. PICK h \in created : h = Head(todo[c])
    BY <1>1
  <1>4. PICK m : m = Len(task[h].dependents) + 1
    OBVIOUS
  <1>5. Others(c) /\ Queued' = Queued
    BY ClientSteady, QueuedFollows DEF Steady
  <1>6. /\ pc'[c] = "examine" /\ cur'[c] = t /\ todo'[c] = Tail(todo[c])
        /\ UNCHANGED <<created, prereqs>>
        /\ task' = [task EXCEPT ![h].dependents = Append(task[h].dependents, t)]
    BY <1>1, <1>2, <1>3
       DEF TypeInv, ThreadInv, TryAddDependent, Goto, historyVars
  <1>7. task \in [Task -> TaskState] /\ \A u \in Task : task[u].pending \in Int
    BY DEF TypeInv, SharedInv, TaskState
  <1>8. /\ task'[h].dependents = Append(task[h].dependents, t)
        /\ \A u \in Task : task'[u].pending = task[u].pending
        /\ \A u \in Task \ {h} : task'[u] = task[u]
    BY <1>1, <1>6, <1>7, DependentsWrite
  <1>9. /\ task[h].dependents \in Seq(Task) /\ m - 1 \in Nat /\ m \in Nat
        /\ DOMAIN task[h].dependents = 1 .. m - 1 /\ DOMAIN task'[h].dependents = 1 .. m
        /\ \A i \in 1 .. m - 1 : task'[h].dependents[i] = task[h].dependents[i]
        /\ task'[h].dependents[m] = t
    <2>1. task[h].dependents \in Seq(Task)
      BY <1>1, <1>7 DEF TaskState
    <2>2. QED
      BY <1>1, <1>4, <1>8, <2>1, AppendAt
  <1>10. ToSet(task'[h].dependents) \subseteq ToSet(task[h].dependents) \union {t}
    <2>1. \A i \in 1 .. m : i \in 1 .. m - 1 \/ i = m
      BY <1>9
    <2>2. QED
      BY <1>9, <2>1 DEF ToSet
  <1>11. ToSet(todo[c]) = {h} \union ToSet(Tail(todo[c]))
    BY <1>1, <1>3, TailSet
  <1>12. ToSet(todo[c]) \subseteq ToSet(prereqs[t])
    BY <1>1, <1>2 DEF QuietInv, WaitedInv, ExamineLabel
  <1>13. ASSUME NEW p \in Task, NEW u \in ToSet(task'[p].dependents)
         PROVE  u \in ToSet(task[p].dependents) \/ p \in WaitsFor(u)'
    <2>1. CASE p = h
      <3>1. h \in ToSet(prereqs[t]) /\ h # NoTask
        BY <1>1, <1>11, <1>12, TaskAssumption
      <3>2. h \in WaitsFor(t)'
        BY <1>6, <3>1 DEF WaitsFor
      <3>3. QED
        BY <1>10, <1>13, <2>1, <3>2
    <2>2. CASE p # h
      BY <1>8, <1>13, <2>2
    <2>3. QED
      BY <2>1, <2>2
  <1>14. Passes(c)
    <2>1. pc[c] \notin RunLabel \union CancelLabel
      BY <1>1 DEF RunLabel, CancelLabel
    <2>2. ~Drained(h)
      BY <1>3 DEF Drained
    <2>3. Starts(c, t)'
      BY <1>6 DEF Starts, ExamineLabel
    <2>4. ASSUME NEW u \in Task
          PROVE  ~Hands(c, u) /\ (Starts(c, u) => Starts(c, u)')
                 /\ ~Drains(c, u) /\ ~Cancels(c, u)
      <3>1. ~Hands(c, u) /\ ~Drains(c, u) /\ ~Cancels(c, u)
        BY <1>1 DEF Hands, Drains, Cancels, CancelList, EnqueueLabel
      <3>2. Starts(c, u) => u = t
        BY <1>1, <1>2 DEF Starts
      <3>3. QED
        BY <2>3, <3>1, <3>2
    <2>5. QED
      BY <1>1, <1>5, <1>6, <1>7, <2>1, <2>2, <2>4, ListPasses
  <1>15. ToSet(todo'[c]) \subseteq ToSet(prereqs'[cur'[c]])
    BY <1>6, <1>11, <1>12
  <1>16. ASSUME NEW u \in created, Promised(u)
         PROVE  Promised(u)'
    <2>1. PICK n : n = Len(todo[c])
      OBVIOUS
    <2>2. n \in Nat \ {0} /\ Len(Tail(todo[c])) = n - 1
      BY <1>1, <2>1, TailAt
    <2>3. Left(c) = n /\ Left(c)' = n - 1
      BY <1>1, <1>6, <2>1, <2>2 DEF Left, ExamineLabel
    <2>4. \A k : Owing(c, k, u) => u = t /\ (Owing(c, k, u)' \/ k = n)
      BY <1>1, <1>2, <1>6, <2>2, <2>3 DEF Owing, Debtor
    <2>5. \A p \in Task : \A i : Listed(p, i, u) => Listed(p, i, u)'
      <3> SUFFICES ASSUME NEW p \in Task, NEW i, Listed(p, i, u) PROVE Listed(p, i, u)'
        OBVIOUS
      <3>1. CASE p # h
        BY <1>8, <3>1 DEF Listed
      <3>2. CASE p = h
        <4>1. i \in 1 .. m - 1 /\ i \in 1 .. m
          BY <1>9, <3>2 DEF Listed
        <4>2. QED
          BY <1>9, <3>2, <4>1 DEF Listed
      <3>3. QED
        BY <3>1, <3>2
    <2>6. /\ IsFiniteSet(Owed(u)) /\ IsFiniteSet(Owed(u)') /\ task[u].pending \in Int
          /\ task'[u].pending = task[u].pending
      BY <1>1, <1>7, <1>8 DEF GraphInv, DebtInv, Paid
    <2>7. CASE u = t
      <3>1. Owed(u) \ {<<"held", c, n>>} \subseteq Owed(u)'
        BY <1>1, <1>5, <2>4, <2>5, OwedTo
      <3>2. <<"listed", h, m>> \in Owed(u)'
        <4>1. Listed(h, m, u)'
          BY <1>9, <2>7 DEF Listed
        <4>2. QED
          BY <1>1, <4>1, OwedTokensNext
      <3>3. <<"listed", h, m>> \notin Owed(u)
        <4> SUFFICES ASSUME <<"listed", h, m>> \in Owed(u) PROVE FALSE
          OBVIOUS
        <4>1. Listed(h, m, u)
          BY OwedTokens
        <4>2. QED
          BY <1>9, <4>1 DEF Listed
      <3>4. QED
        BY <1>16, <2>6, <3>1, <3>2, <3>3, PromiseMoved
    <2>8. CASE u # t
      <3>1. \A k : Owing(c, k, u) => Owing(c, k, u)'
        BY <2>4, <2>8
      <3>2. Owed(u) \subseteq Owed(u)'
        BY <1>1, <1>5, <2>5, <3>1, OwedStays
      <3>3. QED
        BY <1>16, <2>6, <3>2, PromiseKept
    <2>9. QED
      BY <2>7, <2>8
  <1>17. QED
    BY <1>1, <1>6, <1>8, <1>13, <1>14, <1>15, <1>16, StepQuiet

\* A worker takes the dependents of the task it finished: the notices they are
\* owed move from the task to the worker, one for one.
LEMMA CollectQuiet ==
    ASSUME TypeInv, GraphInv, DebtInv', QuietInv, NEW w \in Worker, CollectDependents(w)
    PROVE  QuietInv'
  <1>1. /\ w \in Thread /\ w \notin Client /\ Local(w) /\ created \subseteq Task
        /\ pc[w] = "collect" /\ cur[w] \in created
    BY KnownTasks, TaskAssumption
       DEF Thread, GraphInv, Local, CollectDependents, TaskLabel
  <1>2. PICK x \in created : x = cur[w]
    BY <1>1
  <1>3. Others(w) /\ Queued' = Queued /\ \A u \in Task : Kept(u)
    BY WorkerSteady, QueuedFollows DEF Steady
  <1>4. /\ pc'[w] = "schedule" /\ cur'[w] = x /\ todo'[w] = task[x].dependents
        /\ UNCHANGED <<created, prereqs>>
        /\ task' = [task EXCEPT ![x].dependents = <<>>]
    BY <1>1, <1>2
       DEF TypeInv, ThreadInv, CollectDependents, Goto, historyVars
  <1>5. task \in [Task -> TaskState] /\ \A u \in Task : task[u].pending \in Int
    BY DEF TypeInv, SharedInv, TaskState
  <1>6. /\ task'[x].dependents = <<>>
        /\ \A u \in Task : task'[u].pending = task[u].pending
        /\ \A u \in Task \ {x} : task'[u] = task[u]
    BY <1>1, <1>4, <1>5, DependentsWrite
  <1>7. Drained(x)'
    BY <1>1, <1>2, <1>3, <1>6 DEF Local, Seen, Drained, Kept
  <1>8. Passes(w)
    <2>1. pc[w] \notin RunLabel \union CancelLabel
      BY <1>1 DEF RunLabel, CancelLabel
    <2>2. ASSUME NEW u \in Task
          PROVE  ~Hands(w, u) /\ ~Starts(w, u) /\ (Drains(w, u) => Drained(u)')
                 /\ ~Cancels(w, u)
      <3>1. ~Hands(w, u) /\ ~Starts(w, u) /\ ~Cancels(w, u)
        BY <1>1 DEF Hands, Starts, Cancels, CancelList, EnqueueLabel, ExamineLabel
      <3>2. Drains(w, u) => u = x
        BY <1>1, <1>2 DEF Drains
      <3>3. QED
        BY <1>7, <3>1, <3>2
    <2>3. QED
      BY <1>1, <1>3, <1>4, <1>5, <1>7, <2>1, <2>2, ListPasses
  <1>9. PICK m : m = Len(task[x].dependents)
    OBVIOUS
  <1>10. m \in Nat /\ DOMAIN task[x].dependents = 1 .. m
    BY <1>1, <1>5, <1>9 DEF TaskState
  <1>11. ASSUME NEW u \in created, Promised(u)
         PROVE  Promised(u)'
    <2>1. /\ IsFiniteSet(Owed(u)) /\ IsFiniteSet(Owed(u)') /\ task[u].pending \in Int
          /\ task'[u].pending = task[u].pending
      BY <1>1, <1>5, <1>6 DEF GraphInv, DebtInv, Paid
    <2> DEFINE Moved(z) == z[1] = "listed" /\ z[2] = x
               Place(z) == IF Moved(z) THEN <<"held", w, m + 1 - z[3]>> ELSE z
    <2>2. \A k : ~Owing(w, k, u)
      BY <1>1 DEF Owing, Left, ExamineLabel
    <2>3. ASSUME NEW z \in Owed(u)
          PROVE  /\ Place(z) \in Owed(u)'
                 /\ Moved(z) => z[3] \in 1 .. m /\ z = <<"listed", x, z[3]>>
                 /\ ~Moved(z) => \A i : z # <<"held", w, i>>
      <3>1. CASE \E p \in Task : \E i : Listed(p, i, u) /\ z = <<"listed", p, i>>
        <4>1. PICK p \in Task : \E i : Listed(p, i, u) /\ z = <<"listed", p, i>>
          BY <3>1
        <4>2. PICK i : Listed(p, i, u) /\ z = <<"listed", p, i>>
          BY <4>1
        <4>3. CASE p = x
          <5>1. i \in 1 .. m /\ task[x].dependents[i] = u
            BY <1>10, <4>2, <4>3 DEF Listed
          <5>2. m + 1 - i \in 1 .. m /\ m + 1 - (m + 1 - i) = i
            BY <1>10, <5>1
          <5>3. Left(w)' = m /\ Debtor(w, m + 1 - i)' = u
            BY <1>1, <1>4, <1>9, <5>1, <5>2 DEF Left, Debtor
          <5>4. Owing(w, m + 1 - i, u)'
            BY <5>2, <5>3 DEF Owing
          <5>5. <<"held", w, m + 1 - i>> \in Owed(u)'
            BY <1>1, <5>4, OwedTokensNext
          <5>6. QED
            BY <4>2, <4>3, <5>1, <5>5
        <4>4. CASE p # x
          <5>1. Listed(p, i, u)'
            BY <1>6, <4>2, <4>4 DEF Listed
          <5>2. z \in Owed(u)'
            BY <4>2, <5>1, OwedTokensNext
          <5>3. QED
            BY <4>2, <4>4, <5>2
        <4>5. QED
          BY <4>3, <4>4
      <3>2. CASE \E o \in Thread : \E k : Owing(o, k, u) /\ z = <<"held", o, k>>
        <4>1. PICK o \in Thread : \E k : Owing(o, k, u) /\ z = <<"held", o, k>>
          BY <3>2
        <4>2. PICK k : Owing(o, k, u) /\ z = <<"held", o, k>>
          BY <4>1
        <4>3. o # w
          BY <2>2, <4>2
        <4>4. Owing(o, k, u)'
          BY <1>3, <4>2, <4>3, OwingStays DEF Others
        <4>5. z \in Owed(u)'
          BY <4>2, <4>4, OwedTokensNext
        <4>6. QED
          BY <4>2, <4>3, <4>5
      <3>3. QED
        BY <3>1, <3>2, OwedTokens
    <2>4. PICK f : f = [z \in Owed(u) |-> Place(z)]
      OBVIOUS
    <2>5. f \in [Owed(u) -> Owed(u)']
      BY <2>3, <2>4
    <2>6. ASSUME NEW y \in Owed(u), NEW z \in Owed(u), f[y] = f[z]
          PROVE  y = z
      <3>1. Place(y) = Place(z)
        BY <2>4, <2>6
      <3>2. CASE Moved(y) /\ Moved(z)
        <4>1. PICK a \in 1 .. m : y[3] = a
          BY <2>3, <3>2
        <4>2. PICK b \in 1 .. m : z[3] = b
          BY <2>3, <3>2
        <4>3. <<"held", w, m + 1 - a>> = <<"held", w, m + 1 - b>>
          BY <3>1, <3>2, <4>1, <4>2
        <4>4. m + 1 - a = m + 1 - b
          BY <4>3
        <4>5. a = b
          BY <1>10, <4>4
        <4>6. QED
          BY <2>3, <3>2, <4>1, <4>2, <4>5
      <3>3. CASE ~(Moved(y) /\ Moved(z))
        BY <2>3, <3>1, <3>3
      <3>4. QED
        BY <3>2, <3>3
    <2>7. Cardinality(Owed(u)) <= Cardinality(Owed(u)')
      BY <2>1, <2>5, <2>6, NoMore
    <2>8. Cardinality(Owed(u)') \in Nat /\ Cardinality(Owed(u)) \in Nat
      BY <2>1, FS_CardinalityType
    <2>9. QED
      BY <1>11, <2>1, <2>7, <2>8 DEF Promised
  <1>12. \A p \in Task : \A t \in ToSet(task'[p].dependents) : t \in ToSet(task[p].dependents)
    BY <1>6, OneSet
  <1>13. QED
    BY <1>1, <1>4, <1>6, <1>8, <1>11, <1>12, StepQuiet DEF ExamineLabel

\* Joining two lists loses no element.
LEMMA JoinKeeps ==
    ASSUME NEW S, NEW s \in Seq(S), NEW r \in Seq(S)
    PROVE  ToSet(s) \union ToSet(r) \subseteq ToSet(s \o r)
  <1>1. /\ Len(s) \in Nat /\ Len(r) \in Nat /\ DOMAIN s = 1 .. Len(s)
        /\ DOMAIN r = 1 .. Len(r) /\ DOMAIN (s \o r) = 1 .. Len(s) + Len(r)
        /\ \A i \in 1 .. Len(s) + Len(r) :
              (s \o r)[i] = IF i <= Len(s) THEN s[i] ELSE r[i - Len(s)]
    OBVIOUS
  <1>2. ASSUME NEW i \in 1 .. Len(s)
        PROVE  s[i] \in ToSet(s \o r)
    <2>1. i \in 1 .. Len(s) + Len(r) /\ i <= Len(s)
      BY <1>1
    <2>2. (s \o r)[i] = s[i] /\ i \in DOMAIN (s \o r)
      BY <1>1, <2>1
    <2>3. QED
      BY <2>2 DEF ToSet
  <1>3. ASSUME NEW i \in 1 .. Len(r)
        PROVE  r[i] \in ToSet(s \o r)
    <2>1. /\ Len(s) + i \in 1 .. Len(s) + Len(r) /\ ~(Len(s) + i <= Len(s))
          /\ Len(s) + i - Len(s) = i
      BY <1>1
    <2>2. (s \o r)[Len(s) + i] = r[i] /\ Len(s) + i \in DOMAIN (s \o r)
      BY <1>1, <2>1
    <2>3. QED
      BY <2>2 DEF ToSet
  <1>4. ToSet(s) \subseteq ToSet(s \o r)
    BY <1>1, <1>2 DEF ToSet
  <1>5. ToSet(r) \subseteq ToSet(s \o r)
    BY <1>1, <1>3 DEF ToSet
  <1>6. QED
    BY <1>4, <1>5

\* The dependents of a canceled task go on to be canceled.
LEMMA CancelDependentsQuiet ==
    ASSUME TypeInv, LifeInv, GraphInv, DebtInv', QuietInv, NEW c \in Client,
           CancelDependents(c)
    PROVE  QuietInv'
  <1>1. /\ c \in Thread /\ c \notin Worker /\ Local(c) /\ created \subseteq Task
        /\ pc[c] = "cancelDependents" /\ todo[c] # <<>> /\ Head(todo[c]) \in created
        /\ todo[c] \in Seq(Task)
    BY KnownTasks, Held, TaskAssumption
       DEF Thread, GraphInv, Local, CancelDependents, TypeInv, ExamineLabel, HeadLabel
  <1>2. PICK h \in created : h = Head(todo[c])
    BY <1>1
  <1>3. Others(c) /\ Queued' = Queued /\ \A u \in Task : Kept(u)
    BY ClientSteady, QueuedFollows DEF Steady
  <1>4. /\ pc'[c] = "cancel" /\ todo'[c] = task[h].dependents \o Tail(todo[c])
        /\ UNCHANGED <<created, prereqs>>
        /\ task' = [task EXCEPT ![h].dependents = <<>>]
    BY <1>1, <1>2
       DEF TypeInv, ThreadInv, CancelDependents, Goto, historyVars
  <1>5. task \in [Task -> TaskState] /\ \A u \in Task : task[u].pending \in Int
    BY DEF TypeInv, SharedInv, TaskState
  <1>6. /\ task'[h].dependents = <<>>
        /\ \A u \in Task : task'[u].pending = task[u].pending
        /\ \A u \in Task \ {h} : task'[u] = task[u]
    BY <1>1, <1>4, <1>5, DependentsWrite
  <1>7. Drained(h)' /\ task[h].started
    <2>1. task[h].canceled /\ task[h].finished
      BY <1>1, <1>2 DEF Local, Seen
    <2>2. Drained(h)'
      BY <1>1, <1>3, <1>6, <2>1 DEF Drained, Kept
    <2>3. QED
      BY <1>1, <2>1, <2>2 DEF GraphInv, FlagInv
  <1>8. /\ ToSet(task[h].dependents) \subseteq ToSet(todo'[c])
        /\ ToSet(Tail(todo[c])) \subseteq ToSet(todo'[c])
    <2>1. task[h].dependents \in Seq(Task) /\ Tail(todo[c]) \in Seq(Task)
      BY <1>1, <1>5 DEF TaskState
    <2>2. QED
      BY <1>4, <2>1, JoinKeeps
  <1>9. Passes(c)
    <2>1. pc[c] \notin RunLabel \union CancelLabel
      BY <1>1 DEF RunLabel, CancelLabel
    <2>2. ASSUME NEW u \in Task
          PROVE  ~Hands(c, u) /\ ~Starts(c, u) /\ (Drains(c, u) => Drained(u)')
                 /\ (Cancels(c, u) => Cancels(c, u)' \/ task[u].started)
      <3>1. ~Hands(c, u) /\ ~Starts(c, u)
        BY <1>1 DEF Hands, Starts, EnqueueLabel, ExamineLabel
      <3>2. Drains(c, u) => u = h
        BY <1>1, <1>2 DEF Drains
      <3>3. ToSet(todo[c]) = {h} \union ToSet(Tail(todo[c]))
        BY <1>1, <1>2, TailSet
      <3>4. Cancels(c, u) => u = h \/ u \in ToSet(todo'[c])
        BY <1>8, <3>3 DEF Cancels
      <3>5. Cancels(c, u) => u = h \/ Cancels(c, u)'
        BY <1>4, <3>4 DEF Cancels, CancelList
      <3>6. QED
        BY <1>7, <3>1, <3>2, <3>5
    <2>3. QED
      BY <1>1, <1>3, <1>4, <1>5, <1>7, <2>1, <2>2, ListPasses
  <1>10. ASSUME NEW u \in created, Promised(u)
         PROVE  Promised(u)' \/ Settled(u)'
    <2>1. CASE u \in ToSet(task[h].dependents)
      <3>1. Cancels(c, u)'
        BY <1>4, <1>8, <2>1 DEF Cancels, CancelList
      <3>2. QED
        BY <1>1, <3>1 DEF Settled
    <2>2. CASE u \notin ToSet(task[h].dependents)
      <3>1. \A p \in Task : \A i : Listed(p, i, u) => Listed(p, i, u)'
        BY <1>6, <2>2 DEF Listed, ToSet
      <3>2. \A k : ~Owing(c, k, u)
        BY <1>1 DEF Owing, Left, ExamineLabel
      <3>3. Owed(u) \subseteq Owed(u)'
        BY <1>1, <1>3, <3>1, <3>2, OwedStays
      <3>4. IsFiniteSet(Owed(u)') /\ task[u].pending \in Int
            /\ task'[u].pending = task[u].pending
        BY <1>1, <1>5, <1>6 DEF DebtInv, Paid
      <3>5. QED
        BY <1>10, <3>3, <3>4, PromiseKept
    <2>3. QED
      BY <2>1, <2>2
  <1>11. \A p \in Task : \A t \in ToSet(task'[p].dependents) : t \in ToSet(task[p].dependents)
    BY <1>6, OneSet
  <1>12. QED
    BY <1>1, <1>4, <1>6, <1>9, <1>10, <1>11, StepQuiet DEF ExamineLabel

-----------------------------------------------------------------------------
\* The steps that construct tasks.

\* A set is at least as large as the numbers that are mapped into it one to one.
LEMMA AtLeast ==
    ASSUME NEW n \in Nat, NEW T, IsFiniteSet(T), NEW f \in [1 .. n -> T],
           \A i, j \in 1 .. n : f[i] = f[j] => i = j
    PROVE  n <= Cardinality(T)
  <1>1. Cardinality(1 .. n) = n
    BY FS_Interval
  <1>2. PICK S : S = 1 .. n
    OBVIOUS
  <1>3. Cardinality(S) <= Cardinality(T)
    BY <1>2, NoMore
  <1>4. QED
    BY <1>1, <1>2, <1>3

\* The frame of these steps: what is left to show is what is promised.
LEMMA SubmitQuiet ==
    ASSUME TypeInv, GraphInv, DebtInv', QuietInv, NEW c \in Client, pc[c] = "idle", Others(c),
           queues' = queues, \A u \in Task : Untouched(u) /\ task'[u].queued = task[u].queued,
           created' \subseteq Task, \A u \in created : prereqs'[u] = prereqs[u],
           \A u \in created : /\ task'[u].pending = task[u].pending
                              /\ task'[u].dependents = task[u].dependents,
           \A p \in Task : \A t \in ToSet(task'[p].dependents) :
              t \in ToSet(task[p].dependents) \/ p \in WaitsFor(t)',
           pc'[c] \in ExamineLabel => ToSet(todo'[c]) \subseteq ToSet(prereqs'[cur'[c]]),
           \A t \in created' \ created :
              Promised(t)' /\ (task'[t].pending > 0 \/ Starts(c, t)')
    PROVE  QuietInv'
  <1>1. /\ c \in Thread /\ c \notin Worker /\ Queued' = Queued
        /\ created \subseteq Task /\ \A u \in Task : task[u].pending \in Int
    BY TaskAssumption, QueuedFollows DEF Thread, TypeInv, SharedInv, TaskState
  <1>2. \A u \in Task \ created : ~Drained(u) /\ task[u].dependents = <<>>
    BY DEF GraphInv, CreatedInv, NewTask, Drained
  <1>3. Passes(c)
    <2> SUFFICES ASSUME NEW t \in Task
                 PROVE  /\ Kept(t)
                        /\ task'[t].started => task[t].started \/ Owns(c, t)'
                        /\ Owns(c, t) => Owns(c, t)' \/ Over(t)'
                        /\ task'[t].queued => task[t].queued \/ Hands(c, t)'
                        /\ Hands(c, t) => Hands(c, t)' \/ task'[t].started \/ t \in Queued'
                        /\ t \in Queued => t \in Queued' \/ Hands(c, t)'
                        /\ Over(t)' => Over(t) \/ Drains(c, t)'
                        /\ Drains(c, t) => Drains(c, t)' \/ Drained(t)'
                        /\ Drained(t) => Drained(t)'
                        /\ Cancels(c, t) => Cancels(c, t)' \/ task'[t].started
                        /\ Starts(c, t) => \/ Starts(c, t)' \/ Cancels(c, t)'
                                           \/ task'[t].started \/ task'[t].queued
                                           \/ task'[t].pending > 0
      BY DEF Passes
    <2>1. ~Owns(c, t) /\ ~Hands(c, t) /\ ~Drains(c, t) /\ ~Cancels(c, t) /\ ~Starts(c, t)
      BY <1>1 DEF Owns, Hands, Drains, Cancels, Starts, RunLabel, CancelLabel, EnqueueLabel,
                  CancelList, ExamineLabel
    <2>2. Kept(t) /\ (Over(t)' <=> Over(t))
      BY DEF Untouched, Kept, Over
    <2>3. Drained(t) => Drained(t)'
      BY <1>2 DEF Drained, Untouched
    <2>4. QED
      BY <1>1, <2>1, <2>2, <2>3 DEF Untouched
  <1>4. StartedInv' /\ ClaimedInv' /\ DrainedInv'
    BY <1>1, <1>3, PassesOn DEF QuietInv
  <1>5. WaitedInv'
    BY <1>1, WaitedStays DEF QuietInv
  <1>6. PromisedInv'
    <2> SUFFICES ASSUME NEW t \in created' PROVE Settled(t)' \/ (Promised(t)' /\ Coming(t)')
      BY DEF PromisedInv
    <2>1. CASE t \in created
      <3>1. t \in Task /\ IsFiniteSet(Owed(t)')
        BY <1>1, <2>1 DEF DebtInv, Paid
      <3>2. \A p \in Task : \A i : Listed(p, i, t) => Listed(p, i, t)'
        BY <1>2 DEF Listed
      <3>3. \A k : ~Owing(c, k, t)
        BY <1>1 DEF Owing, Left, ExamineLabel
      <3>4. Owed(t) \subseteq Owed(t)'
        BY <1>1, <3>2, <3>3, OwedStays
      <3>5. Promised(t) => Promised(t)'
        BY <1>1, <2>1, <3>1, <3>4, PromiseKept
      <3>6. task[t].pending > 0 => task'[t].pending > 0
        BY <2>1
      <3>7. t \in created \intersect Task
        BY <2>1, <3>1
      <3>8. QED
        BY <1>1, <1>3, <3>5, <3>6, <3>7, PromiseStays DEF QuietInv
    <2>2. CASE t \notin created
      BY <1>1, <2>2 DEF Coming
    <2>3. QED
      BY <2>1, <2>2
  <1>7. QED
    BY <1>4, <1>5, <1>6 DEF QuietInv

\* Launch: the client looks after the new task, and owes it as many notices as
\* it counts.
LEMMA LaunchQuiet ==
    ASSUME TypeInv, GraphInv, DebtInv', QuietInv, NEW c \in Client, NEW t \in Task \ created,
           NEW ps \in Shapes[t], LaunchBegin(c, t, ps)
    PROVE  QuietInv'
  <1>1. /\ c \in Thread /\ c \notin Worker /\ created \subseteq Task /\ t \in Task
        /\ ps \in Seq(Task \union {NoTask}) /\ task \in [Task -> TaskState]
    BY TaskAssumption DEF Thread, TypeInv, SharedInv
  <1>2. PICK n : n = Len(ps)
    OBVIOUS
  <1>3. /\ pc[c] = "idle" /\ pc'[c] = "examine" /\ cur'[c] = t /\ todo'[c] = ps
        /\ queues' = queues /\ created' = created \union {t} /\ ran' = ran
        /\ task' = [task EXCEPT ![t].pending = n] /\ prereqs' = [prereqs EXCEPT ![t] = ps]
        /\ n \in Nat /\ Others(c)
    BY <1>1, <1>2 DEF TypeInv, ThreadInv, LaunchBegin, MayCall, Goto, queueVars, Others
  <1>4. /\ task'[t].pending = n
        /\ \A u \in Task : /\ task'[u].queued = task[u].queued
                           /\ task'[u].dependents = task[u].dependents
        /\ \A u \in Task \ {t} : task'[u] = task[u]
        /\ prereqs'[t] = ps /\ \A u \in Task \ {t} : prereqs'[u] = prereqs[u]
    BY <1>3 DEF TypeInv, SharedInv, TaskState
  <1>5. \A u \in Task : Untouched(u) /\ task'[u].queued = task[u].queued
    BY <1>1, <1>3 DEF Untouched, TaskState
  <1>6. Promised(t)'
    <2>1. PICK T : T = Owed(t)'
      OBVIOUS
    <2>2. IsFiniteSet(T)
      BY <1>1, <2>1 DEF DebtInv, Paid
    <2>3. PICK f : f = [k \in 1 .. n |-> <<"held", c, k>>]
      OBVIOUS
    <2>4. ASSUME NEW k \in 1 .. n
          PROVE  <<"held", c, k>> \in T
      <3>1. Owing(c, k, t)'
        BY <1>2, <1>3 DEF Owing, Left, Debtor, ExamineLabel
      <3>2. QED
        BY <1>1, <2>1, <3>1, OwedTokensNext
    <2>5. f \in [1 .. n -> T]
      BY <2>3, <2>4
    <2>6. \A i, j \in 1 .. n : f[i] = f[j] => i = j
      BY <2>3
    <2>7. n <= Cardinality(T)
      BY <1>3, <2>2, <2>5, <2>6, AtLeast
    <2>8. QED
      BY <1>4, <2>1, <2>7 DEF Promised
  <1>7. Starts(c, t)'
    BY <1>3 DEF Starts, ExamineLabel
  <1>8. QED
    BY <1>1, <1>3, <1>4, <1>5, <1>6, <1>7, SubmitQuiet

\* A parallel loop: the client enqueues every chunk, and each of them will
\* give the join the notice it counts.
LEMMA ParallelQuiet ==
    ASSUME TypeInv, GraphInv, DebtInv', QuietInv, NEW c \in Client, NEW join \in Task \ created,
           NEW chunks \in Shapes[join], chunks # <<>>, IsInjective(chunks),
           ToSet(chunks) \subseteq Task \ (created \union {join}),
           ParallelForBegin(c, join, chunks)
    PROVE  QuietInv'
  <1> DEFINE new == ToSet(chunks)
  <1>1. /\ c \in Thread /\ c \notin Worker /\ created \subseteq Task
        /\ new \subseteq Task /\ join \notin new /\ join \in Task
        /\ chunks \in Seq(Task \union {NoTask}) /\ task \in [Task -> TaskState]
    BY TaskAssumption DEF Thread, TypeInv, SharedInv
  <1>2. PICK n : n = Len(chunks)
    OBVIOUS
  <1>3. n \in Nat /\ DOMAIN chunks = 1 .. n /\ n > 0
    BY <1>1, <1>2
  <1>4. /\ pc[c] = "idle" /\ pc'[c] = "enqueue" /\ cur'[c] = join /\ todo'[c] = chunks
        /\ queues' = queues /\ ran' = ran /\ Others(c)
        /\ created' = created \union {join} \union new
        /\ prereqs' = [prereqs EXCEPT ![join] = chunks]
    BY <1>1 DEF TypeInv, ThreadInv, ParallelForBegin, MayCall, Goto, queueVars, Others
  <1>5. \A u \in Task :
           task'[u] = IF u = join THEN [task[u] EXCEPT !.pending = n, !.retrieved = TRUE]
                      ELSE IF u \in new THEN [task[u] EXCEPT !.dependents = <<join>>]
                      ELSE task[u]
    BY <1>2 DEF ParallelForBegin
  <1>6. /\ task'[join].pending = n /\ task'[join].dependents = task[join].dependents
        /\ \A u \in new : task'[u].dependents = <<join>>
        /\ \A u \in Task \ new : task'[u].dependents = task[u].dependents
        /\ \A u \in Task \ {join} : task'[u].pending = task[u].pending
        /\ \A u \in Task \ (new \union {join}) : task'[u] = task[u]
    BY <1>1, <1>5 DEF TaskState
  <1>7. ASSUME NEW u \in Task
        PROVE  Untouched(u) /\ task'[u].queued = task[u].queued
    <2>1. CASE u = join
      <3>1. task'[u] = [task[u] EXCEPT !.pending = n, !.retrieved = TRUE]
        BY <1>1, <1>5, <2>1
      <3>2. QED
        BY <1>1, <1>4, <3>1 DEF Untouched, TaskState
    <2>2. CASE u \in new
      <3>1. task'[u] = [task[u] EXCEPT !.dependents = <<join>>]
        BY <1>1, <1>5, <2>2
      <3>2. QED
        BY <1>1, <1>4, <3>1 DEF Untouched, TaskState
    <2>3. CASE u # join /\ u \notin new
      <3>1. task'[u] = task[u]
        BY <1>6, <2>3
      <3>2. QED
        BY <1>4, <3>1 DEF Untouched
    <2>4. QED
      BY <2>1, <2>2, <2>3
  <1>8. prereqs'[join] = chunks /\ \A u \in Task \ {join} : prereqs'[u] = prereqs[u]
    BY <1>4 DEF TypeInv, SharedInv
  <1>9. \A u \in created : u \notin new /\ u # join
    OBVIOUS
  <1>10. ASSUME NEW p \in Task, NEW t \in ToSet(task'[p].dependents)
         PROVE  t \in ToSet(task[p].dependents) \/ p \in WaitsFor(t)'
    <2>1. CASE p \in new
      <3>1. t = join
        BY <1>6, <1>10, <2>1, OneSet
      <3>2. p \in WaitsFor(join)'
        BY <1>8, <2>1, TaskAssumption DEF WaitsFor
      <3>3. QED
        BY <3>1, <3>2
    <2>2. CASE p \notin new
      BY <1>6, <1>10, <2>2
    <2>3. QED
      BY <2>1, <2>2
  <1>11. Promised(join)'
    <2>1. PICK T : T = Owed(join)'
      OBVIOUS
    <2>2. IsFiniteSet(T)
      BY <1>1, <2>1 DEF DebtInv, Paid
    <2>3. PICK f : f = [k \in 1 .. n |-> <<"listed", chunks[k], 1>>]
      OBVIOUS
    <2>4. ASSUME NEW k \in 1 .. n
          PROVE  <<"listed", chunks[k], 1>> \in T
      <3>1. chunks[k] \in new
        BY <1>3 DEF ToSet
      <3>2. Listed(chunks[k], 1, join)'
        BY <1>6, <3>1 DEF Listed
      <3>3. QED
        BY <1>1, <2>1, <3>1, <3>2, OwedTokensNext
    <2>5. f \in [1 .. n -> T]
      BY <2>3, <2>4
    <2>6. \A i, j \in 1 .. n : f[i] = f[j] => i = j
      BY <1>3, <2>3 DEF IsInjective
    <2>7. n <= Cardinality(T)
      BY <1>3, <2>2, <2>5, <2>6, AtLeast
    <2>8. QED
      BY <1>6, <2>1, <2>7 DEF Promised
  <1>12. ASSUME NEW u \in new
         PROVE  Promised(u)' /\ Starts(c, u)'
    <2>1. task'[u].pending = 0
      BY <1>1, <1>6 DEF GraphInv, CreatedInv, NewTask
    <2>2. Cardinality(Owed(u)') \in Nat
      BY <1>1, FS_CardinalityType DEF DebtInv, Paid
    <2>3. QED
      BY <1>4, <2>1, <2>2 DEF Promised, Starts
  <1>13. QED
    BY <1>1, <1>3, <1>4, <1>6, <1>7, <1>8, <1>9, <1>10, <1>11, <1>12, SubmitQuiet
       DEF ExamineLabel

-----------------------------------------------------------------------------
\* The owner, and the whole system.

\* The owner's steps change no task, and no thread that has a role moves.
LEMMA OwnerQuiet ==
    ASSUME TypeInv, InflightInv, QuietInv,
           \/ UNCHANGED taskVars
           \/ TerminateBegin \/ OwnerStep \/ ShutdownSpurious \/ Reinitialize
    PROVE  QuietInv'
  <1>1. /\ queues' = queues /\ task' = task /\ cur' = cur /\ todo' = todo
        /\ created' = created /\ prereqs' = prereqs
    BY DEF TerminateBegin, OwnerStep, ShutdownPredicate, ShutdownSleep, JoinWorkers,
           ShutdownSpurious, Reinitialize, queueVars, localVars, historyVars, taskVars
  <1>2. \A th \in Thread : pc'[th] = pc[th] \/ (pc[th] = "exited" /\ pc'[th] = "pop")
    <2>1. CASE Reinitialize
      <3>1. \A w \in Worker : pc[w] = "exited"
        BY <2>1 DEF Reinitialize, InflightInv, HandsFree
      <3>2. QED
        BY <2>1, <3>1 DEF Reinitialize
    <2>2. CASE UNCHANGED taskVars \/ TerminateBegin \/ OwnerStep \/ ShutdownSpurious
      BY <2>2 DEF TerminateBegin, OwnerStep, ShutdownPredicate, ShutdownSleep, JoinWorkers,
                  ShutdownSpurious, localVars, taskVars
    <2>3. QED
      BY <2>1, <2>2
  <1>3. Queued' = Queued
    BY <1>1, QueuedFollows
  <1>4. ASSUME NEW th \in Thread, NEW t
        PROVE  /\ Owns(th, t)' <=> Owns(th, t)
               /\ Hands(th, t)' <=> Hands(th, t)
               /\ Drains(th, t)' <=> Drains(th, t)
               /\ Cancels(th, t)' <=> Cancels(th, t)
               /\ Starts(th, t)' <=> Starts(th, t)
    BY <1>1, <1>2 DEF Owns, Hands, Drains, Cancels, Starts, RunLabel, CancelLabel, EnqueueLabel,
                      CancelList, ExamineLabel
  <1>5. StartedInv' /\ ClaimedInv' /\ DrainedInv'
    BY <1>1, <1>3, <1>4
       DEF QuietInv, StartedInv, ClaimedInv, DrainedInv, Over, Drained
  <1>6. WaitedInv'
    BY <1>1, <1>2 DEF QuietInv, WaitedInv, WaitsFor, ExamineLabel
  <1>7. PromisedInv'
    <2> SUFFICES ASSUME NEW t \in created PROVE Settled(t)' \/ (Promised(t)' /\ Coming(t)')
      BY <1>1 DEF PromisedInv
    <2>1. \A p \in Task : \A i : Listed(p, i, t)' <=> Listed(p, i, t)
      BY <1>1 DEF Listed
    <2>2. \A o \in Thread : \A k : Owing(o, k, t)' <=> Owing(o, k, t)
      BY <1>1, <1>2 DEF Owing, Left, Debtor, ExamineLabel
    <2>3. Owed(t)' = Owed(t)
      <3>1. \A x : x \in Owed(t)' <=> x \in Owed(t)
        BY <2>1, <2>2, OwedTokens, OwedTokensNext
      <3>2. QED
        BY <3>1
    <2>4. QED
      BY <1>1, <1>4, <2>3 DEF QuietInv, PromisedInv, Settled, Promised, Coming
  <1>8. QED
    BY <1>5, <1>6, <1>7 DEF QuietInv

\* It holds before the first call.
LEMMA InitQuiet == Init => QuietInv
  <1> SUFFICES ASSUME Init PROVE QuietInv
    OBVIOUS
  <1>1. /\ \A t \in Task : task[t] = NewTask
        /\ \A th \in Thread : pc[th] = (IF th \in Client THEN "idle" ELSE "pop")
        /\ created = {}
    BY DEF Init
  <1>2. /\ \A t \in Task : /\ ~task[t].started /\ ~task[t].queued /\ ~Over(t)
                           /\ task[t].dependents = <<>>
        /\ \A th \in Thread : pc[th] \notin ExamineLabel
    BY <1>1 DEF NewTask, Over, ExamineLabel
  <1>3. QED
    BY <1>1, <1>2, OneSet
       DEF QuietInv, StartedInv, ClaimedInv, DrainedInv, WaitedInv, PromisedInv

\* Every step of a client keeps it.
LEMMA ClientQuiet ==
    ASSUME TypeInv, LifeInv, InflightInv, GraphInv, DebtInv', QuietInv,
           NEW c \in Client, ClientCall(c) \/ ClientStep(c)
    PROVE  QuietInv'
  <1>1. c \in Thread
    BY DEF Thread
  <1>2. CASE ClientCall(c)
    BY <1>2, LaunchQuiet, ParallelQuiet, ClientCallQuiet DEF ClientCall
  <1>3. CASE ExamineCanceled(c) \/ ExamineFinished(c) \/ AddFailed(c)
    <2>1. CASE Discount(c)
      BY <1>3, <2>1, DiscountQuiet
    <2>2. CASE ~Discount(c)
      BY <1>3, <2>2, ExamineQuiet DEF AddFailed
    <2>3. QED
      BY <2>1, <2>2
  <1>4. CASE TryAddDependent(c)
    BY <1>4, AddQuiet, ExamineQuiet
  <1>5. QED
    BY <1>1, <1>2, <1>3, <1>4, DecideQuiet, ReturnQuiet, CancelQuiet, EnqueueQuiet,
       CancelDependentsQuiet DEF ClientStep

\* Every step of a worker keeps it.
LEMMA WorkerQuiet ==
    ASSUME TypeInv, LifeInv, InflightInv, GraphInv, DebtInv', QuietInv,
           NEW w \in Worker, WorkerStep(w)
    PROVE  QuietInv'
  <1>1. w \in Thread
    BY DEF Thread
  <1>2. QED
    BY <1>1, PopQuiet, IdleQuiet, RunQuiet, CollectQuiet, WalkQuiet, DecrementQuiet, EnqueueQuiet
       DEF WorkerStep

\* Every step keeps it.
LEMMA NextQuiet ==
    TypeInv /\ LifeInv /\ InflightInv /\ GraphInv /\ QuietInv /\ [Next]_taskVars => QuietInv'
  <1> SUFFICES ASSUME TypeInv, LifeInv, InflightInv, GraphInv, QuietInv, [Next]_taskVars
               PROVE  QuietInv'
    OBVIOUS
  <1>1. DebtInv'
    BY NextGraph DEF GraphInv
  <1>2. QED
    BY <1>1, ClientQuiet, WorkerQuiet, OwnerQuiet DEF Next

\* The inductive invariant of the hand-overs.
LEMMA QuietInvariant == Spec => [](TypeInv /\ LifeInv /\ InflightInv /\ GraphInv /\ QuietInv)
  BY InitQuiet, NextQuiet, GraphInvariant, PTL DEF Spec

-----------------------------------------------------------------------------
\* Nothing in flight means nothing to do.

\* When nothing is in flight, the queues are empty, no task is about to be
\* pushed, and no worker has one.
LEMMA NothingInflight ==
    ASSUME TypeInv, InflightInv, GraphInv, inflight = 0
    PROVE  /\ Queued = {}
           /\ \A th \in Thread : pc[th] # "push"
           /\ \A w \in Worker : cur[w] = NoTask /\ pc[w] \in IdleLabel
  <1>1. IsFiniteSet(Queued) /\ IsFiniteSet(Running) /\ IsFiniteSet(Pushing)
    BY CountsAreFinite DEF InflightInv
  <1>2. /\ Cardinality(Queued) \in Nat /\ Cardinality(Running) \in Nat
        /\ Cardinality(Pushing) \in Nat
    BY <1>1, FS_CardinalityType
  <1>3. Cardinality(Queued) = 0 /\ Cardinality(Running) = 0 /\ Cardinality(Pushing) = 0
    BY <1>2 DEF InflightInv, InflightExact
  <1>4. Queued = {} /\ Running = {} /\ Pushing = {}
    BY <1>1, <1>3, FS_EmptySet
  <1>5. \A w \in Worker : cur[w] = NoTask
    BY <1>4 DEF Running
  <1>6. ASSUME NEW w \in Worker
        PROVE  pc[w] \in IdleLabel
    <2>1. w \in Thread /\ pc[w] \in WorkerLabel /\ Known(w)
      BY TaskAssumption DEF Thread, TypeInv, ThreadInv, Label, GraphInv, Local
    <2>2. pc[w] \notin TaskLabel
      BY <1>5, <2>1, KnownTasks, TaskAssumption
    <2>3. QED
      BY <2>1, <2>2 DEF WorkerLabel, TaskLabel, IdleLabel
  <1>7. QED
    BY <1>4, <1>5, <1>6 DEF Pushing

\* Where no thread has a role, a task is over as soon as what it waits for is.
LEMMA RestingIsOver ==
    ASSUME TypeInv, QuietInv, Queued = {},
           \A th \in Thread : pc[th] \in IdleLabel \union {"idle", "wait", "threw"},
           NEW t \in created, \A p \in WaitsFor(t) : Over(p)
    PROVE  Over(t)
  <1> SUFFICES ASSUME ~Over(t) PROVE FALSE
    OBVIOUS
  <1>1. created \subseteq Task
    BY DEF TypeInv, SharedInv
  <1>2. \A th \in Thread, u \in Task :
           /\ ~Owns(th, u) /\ ~Hands(th, u) /\ ~Drains(th, u) /\ ~Cancels(th, u)
           /\ ~Starts(th, u)
    BY DEF Owns, Hands, Drains, Cancels, Starts, IdleLabel, RunLabel, CancelLabel, EnqueueLabel,
           CancelList, ExamineLabel
  <1>3. ~task[t].started
    BY <1>1, <1>2 DEF QuietInv, StartedInv
  <1>4. ~task[t].queued
    BY <1>1, <1>2, <1>3 DEF QuietInv, ClaimedInv
  <1>5. Promised(t) /\ task[t].pending > 0
    BY <1>1, <1>2, <1>3, <1>4 DEF QuietInv, PromisedInv, Settled, Coming
  <1>6. Owed(t) # {}
    <2>1. task[t].pending \in Int
      BY <1>1 DEF TypeInv, SharedInv, TaskState
    <2>2. SUFFICES ASSUME Owed(t) = {} PROVE FALSE
      OBVIOUS
    <2>3. Cardinality(Owed(t)) = 0
      BY <2>2, FS_EmptySet
    <2>4. QED
      BY <1>5, <2>1, <2>3 DEF Promised
  <1>7. \A th \in Thread : \A k : ~Owing(th, k, t)
    BY DEF Owing, Left, IdleLabel, ExamineLabel
  <1>8. PICK p \in Task : \E i : Listed(p, i, t)
    BY <1>6, <1>7, OwedTokens
  <1>9. t \in ToSet(task[p].dependents)
    BY <1>8 DEF Listed, ToSet
  <1>10. p \in WaitsFor(t)
    BY <1>9 DEF QuietInv, WaitedInv
  <1>11. Drained(p)
    BY <1>2, <1>10 DEF QuietInv, DrainedInv
  <1>12. QED
    BY <1>9, <1>11, OneSet DEF Drained

\* However the calls, the workers and the cancellations interleave: when
\* nothing is in flight and no client is inside the system, every task whose
\* prerequisites are over is over.  No hand-over between a task that ends and
\* the tasks that wait for it is ever lost.
THEOREM NoTaskForgotten == Spec => []QuiescentMeansDone
  <1>1. TypeInv /\ InflightInv /\ GraphInv /\ QuietInv => QuiescentMeansDone
    <2> SUFFICES ASSUME TypeInv, InflightInv, GraphInv, QuietInv, inflight = 0,
                        \A c \in Client : pc[c] \in {"idle", "wait", "threw"},
                        NEW t \in created, \A p \in WaitsFor(t) : Over(p)
                 PROVE  Over(t)
      BY DEF QuiescentMeansDone
    <2>1. Queued = {} /\ \A w \in Worker : pc[w] \in IdleLabel
      BY NothingInflight
    <2>2. \A th \in Thread : pc[th] \in IdleLabel \union {"idle", "wait", "threw"}
      BY <2>1 DEF Thread
    <2>3. QED
      BY <2>1, <2>2, RestingIsOver
  <1>2. QED
    BY <1>1, QuietInvariant, PTL

-----------------------------------------------------------------------------
\* The shutdown.

\* Once the owner has begun to terminate the system, no client is inside it,
\* and when it joins the workers, nothing is in flight.
ShutdownInv ==
    /\ Stopped => \A c \in Client : pc[c] \in {"idle", "threw"}
    /\ stopPc \in {"join", "terminated"} => inflight = 0

\* In an orderly program clients only move before the owner terminates.
LEMMA ClientShutdown ==
    ASSUME Orderly, TypeInv, ShutdownInv, NEW c \in Client, ClientCall(c) \/ ClientStep(c)
    PROVE  ShutdownInv'
  <1>1. stopPc' = stopPc
    BY DEF ClientCall, LaunchBegin, CancelBegin, WaitBegin, ParallelForBegin,
           ClientStep, ExamineCanceled, ExamineFinished, TryAddDependent, AddFailed,
           DecideCancel, DecideEnqueue, EnqueueCas, CountInflight, PushTask, EnqueueReturn,
           CancelCheck, CancelCas, StoreCanceled, StoreFinished, SetDone, CancelDependents,
           CancelReturn, WaitReturn
  <1>2. CASE ClientCall(c)
    BY <1>1, <1>2 DEF ClientCall, LaunchBegin, CancelBegin, WaitBegin, ParallelForBegin, MayCall,
                      ShutdownInv, Stopped
  <1>3. CASE ClientStep(c)
    <2>1. pc[c] \notin {"idle", "threw"}
      BY <1>3 DEF ClientStep, ExamineCanceled, ExamineFinished, TryAddDependent, AddFailed,
           DecideCancel, DecideEnqueue, EnqueueCas, CountInflight, PushTask, EnqueueReturn,
           CancelCheck, CancelCas, StoreCanceled, StoreFinished, SetDone, CancelDependents,
           CancelReturn, WaitReturn
    <2>2. QED
      BY <1>1, <2>1 DEF ShutdownInv, Stopped
  <1>4. QED
    BY <1>2, <1>3

\* The workers that the owner joins have nothing left to do but to leave.
LEMMA WorkerShutdown ==
    ASSUME TypeInv, InflightInv, GraphInv, ShutdownInv, NEW w \in Worker, WorkerStep(w)
    PROVE  ShutdownInv'
  <1>1. w \in Thread /\ w \notin Client
    BY TaskAssumption DEF Thread
  <1>2. \A c \in Client : pc'[c] = pc[c]
    <2>1. Others(w)
      BY <1>1, QuietEnqueue, QuietWorker, WorkerSteady DEF Quiet, Steady, WorkerStep
    <2>2. QED
      BY <1>1, <2>1 DEF Others, Thread
  <1>3. stopPc' = stopPc \/ (NotifyShutdown(w) /\ stopPc = "asleep" /\ stopPc' = "predicate")
    BY DEF WorkerStep, PopTask, PopFails, ReadInflight, RunCas, CallFunc, RunFinished, RunDone,
           CollectDependents, SkipOrDecrement, DecrementPending, RecheckFinished, EnqueueCas,
           CountInflight, PushTask, ScheduleReturn, TaskFinished, NotifyShutdown
  <1>4. ASSUME stopPc \in {"join", "terminated"}
        PROVE  inflight' = inflight
    <2>1. Queued = {} /\ pc[w] \in IdleLabel
      BY <1>4, NothingInflight DEF ShutdownInv
    <2>2. PopFails(w) \/ ReadInflight(w) \/ NotifyShutdown(w)
      BY <2>1
         DEF IdleLabel, WorkerStep, PopTask, RunCas, CallFunc, RunFinished, RunDone,
             CollectDependents, SkipOrDecrement, DecrementPending, RecheckFinished, EnqueueCas,
             CountInflight, PushTask, ScheduleReturn, TaskFinished
    <2>3. QED
      BY <2>2 DEF PopFails, ReadInflight, NotifyShutdown
  <1>5. QED
    BY <1>2, <1>3, <1>4 DEF ShutdownInv, Stopped

\* The owner begins when no client is inside, and joins when nothing is in flight.
LEMMA OwnerShutdown ==
    ASSUME Orderly, TypeInv, ShutdownInv,
           \/ UNCHANGED taskVars
           \/ TerminateBegin \/ OwnerStep \/ ShutdownSpurious \/ Reinitialize
    PROVE  ShutdownInv'
  <1>1. inflight' = inflight /\ \A c \in Client : pc'[c] = pc[c]
    BY TaskAssumption
       DEF TerminateBegin, OwnerStep, ShutdownPredicate, ShutdownSleep, JoinWorkers,
           ShutdownSpurious, Reinitialize, localVars, taskVars, Thread
  <1>2. CASE TerminateBegin
    BY <1>1, <1>2 DEF TerminateBegin, ShutdownInv, Stopped
  <1>3. CASE UNCHANGED taskVars \/ OwnerStep \/ ShutdownSpurious \/ Reinitialize
    BY <1>1, <1>3
       DEF OwnerStep, ShutdownPredicate, ShutdownSleep, JoinWorkers, ShutdownSpurious,
           Reinitialize, taskVars, ShutdownInv, Stopped
  <1>4. QED
    BY <1>2, <1>3

\* The prerequisites form no cycle: the tasks can be numbered in an order in
\* which each comes after all it waits for.
Ranked(f, n) ==
    \A t \in created : f[t] < n /\ \A p \in WaitsFor(t) : f[p] < f[t]

RankInv == \E f \in [Task -> Nat] : \E n \in Nat : Ranked(f, n)

\* Only launches and parallel loops construct tasks, and never one that an
\* earlier one waits for.
LEMMA NextRank == TypeInv /\ GraphInv /\ RankInv /\ [Next]_taskVars => RankInv'
  <1> SUFFICES ASSUME TypeInv, GraphInv, RankInv, [Next]_taskVars PROVE RankInv'
    OBVIOUS
  <1>1. PICK f \in [Task -> Nat], n \in Nat : Ranked(f, n)
    BY DEF RankInv
  <1>2. /\ created \subseteq Task /\ handles \subseteq created
        /\ \A t \in created : WaitsFor(t) \subseteq created
        /\ \A t \in Task \ created : prereqs[t] = <<>>
        /\ prereqs \in [Task -> Seq(Task \union {NoTask})]
    BY DEF TypeInv, SharedInv, GraphInv, CreatedInv
  <1>3. ASSUME created' = created, prereqs' = prereqs
        PROVE  RankInv'
    BY <1>1, <1>3 DEF RankInv, Ranked, WaitsFor
  <1>4. ASSUME NEW c \in Client, NEW t \in Task \ created, NEW ps \in Shapes[t],
               ToSet(ps) \subseteq handles \union {NoTask}, LaunchBegin(c, t, ps)
        PROVE  RankInv'
    <2>1. created' = created \union {t} /\ prereqs' = [prereqs EXCEPT ![t] = ps]
      BY <1>4 DEF LaunchBegin
    <2>2. PICK g \in [Task -> Nat] : g = [f EXCEPT ![t] = n]
      BY <1>1
    <2>3. g[t] = n /\ \A u \in created : g[u] = f[u]
      BY <1>1, <1>2, <2>2
    <2>4. WaitsFor(t)' \subseteq created
      BY <1>2, <1>4, <2>1 DEF WaitsFor
    <2>5. \A u \in created : WaitsFor(u)' = WaitsFor(u)
      BY <1>2, <2>1 DEF WaitsFor
    <2>6. \A u \in created : f[u] \in Nat
      BY <1>1, <1>2
    <2>7. Ranked(g, n + 1)'
      <3>1. g[t] < n + 1 /\ \A p \in WaitsFor(t)' : g[p] < g[t]
        BY <1>1, <2>3, <2>4, <2>6 DEF Ranked
      <3>2. ASSUME NEW u \in created
            PROVE  g[u] < n + 1 /\ \A p \in WaitsFor(u)' : g[p] < g[u]
        BY <1>1, <1>2, <2>3, <2>5, <2>6 DEF Ranked
      <3>3. QED
        BY <2>1, <3>1, <3>2 DEF Ranked
    <2>8. QED
      BY <2>7 DEF RankInv
  <1>5. ASSUME NEW c \in Client, NEW join \in Task \ created, NEW chunks \in Shapes[join],
               ToSet(chunks) \subseteq Task \ (created \union {join}),
               ParallelForBegin(c, join, chunks)
        PROVE  RankInv'
    <2> DEFINE new == ToSet(chunks)
    <2>1. /\ created' = created \union {join} \union new
          /\ prereqs' = [prereqs EXCEPT ![join] = chunks]
      BY <1>5 DEF ParallelForBegin
    <2>2. PICK g : g = [u \in Task |-> IF u = join THEN n + 1 ELSE IF u \in new THEN n ELSE f[u]]
      OBVIOUS
    <2>3. g \in [Task -> Nat]
      <3>1. \A u \in Task : g[u] \in Nat
        BY <1>1, <2>2
      <3>2. QED
        BY <2>2, <3>1
    <2>4. /\ g[join] = n + 1 /\ \A u \in new : g[u] = n
          /\ \A u \in created : g[u] = f[u]
      BY <1>1, <1>2, <1>5, <2>2
    <2>5. WaitsFor(join)' \subseteq new /\ \A u \in new : WaitsFor(u)' = {}
      <3>1. WaitsFor(join)' \subseteq new
        BY <1>2, <2>1 DEF WaitsFor
      <3>2. ASSUME NEW u \in new
            PROVE  WaitsFor(u)' = {}
        <4>1. prereqs'[u] = <<>>
          BY <1>2, <1>5, <2>1
        <4>2. QED
          BY <4>1, OneSet DEF WaitsFor
      <3>3. QED
        BY <3>1, <3>2
    <2>6. \A u \in created : WaitsFor(u)' = WaitsFor(u)
      BY <1>2, <1>5, <2>1 DEF WaitsFor
    <2>7. \A u \in created : f[u] \in Nat
      BY <1>1, <1>2
    <2> HIDE DEF new
    <2>8. Ranked(g, n + 2)'
      <3>1. g[join] < n + 2 /\ \A p \in WaitsFor(join)' : g[p] < g[join]
        BY <1>1, <2>4, <2>5
      <3>2. ASSUME NEW u \in new
            PROVE  g[u] < n + 2 /\ \A p \in WaitsFor(u)' : g[p] < g[u]
        BY <1>1, <2>4, <2>5
      <3>3. ASSUME NEW u \in created
            PROVE  g[u] < n + 2 /\ \A p \in WaitsFor(u)' : g[p] < g[u]
        BY <1>1, <1>2, <2>4, <2>6, <2>7 DEF Ranked
      <3>4. QED
        BY <2>1, <3>1, <3>2, <3>3 DEF Ranked
    <2>9. QED
      BY <1>1, <2>3, <2>8 DEF RankInv
  <1>6. ASSUME NEW c \in Client, ClientCall(c)
        PROVE  RankInv'
    <2>1. ASSUME NEW t \in handles, CancelBegin(c, t) \/ WaitBegin(c, t)
          PROVE  RankInv'
      BY <1>3, <2>1 DEF CancelBegin, WaitBegin, historyVars
    <2>2. QED
      BY <1>4, <1>5, <1>6, <2>1 DEF ClientCall
  <1>7. ASSUME NEW c \in Client, ClientStep(c)
        PROVE  RankInv'
    <2>1. created' = created /\ prereqs' = prereqs
      BY <1>7 DEF ClientStep, ExamineCanceled, ExamineFinished, TryAddDependent, AddFailed,
           DecideCancel, DecideEnqueue, EnqueueCas, CountInflight, PushTask, EnqueueReturn,
           CancelCheck, CancelCas, StoreCanceled, StoreFinished, SetDone, CancelDependents,
           CancelReturn, WaitReturn, historyVars
    <2>2. QED
      BY <1>3, <2>1
  <1>8. ASSUME NEW w \in Worker, WorkerStep(w)
        PROVE  RankInv'
    <2>1. created' = created /\ prereqs' = prereqs
      BY <1>8 DEF WorkerStep, PopTask, PopFails, ReadInflight, RunCas, CallFunc, RunFinished,
           RunDone, CollectDependents, SkipOrDecrement, DecrementPending, RecheckFinished,
           EnqueueCas, CountInflight, PushTask, ScheduleReturn, TaskFinished, NotifyShutdown,
           historyVars
    <2>2. QED
      BY <1>3, <2>1
  <1>9. CASE \/ UNCHANGED taskVars
             \/ TerminateBegin \/ OwnerStep \/ ShutdownSpurious \/ Reinitialize
    <2>1. created' = created /\ prereqs' = prereqs
      BY <1>9 DEF TerminateBegin, OwnerStep, ShutdownPredicate, ShutdownSleep, JoinWorkers,
                  ShutdownSpurious, Reinitialize, historyVars, taskVars
    <2>2. QED
      BY <1>3, <2>1
  <1>10. QED
    BY <1>6, <1>7, <1>8, <1>9 DEF Next

\* Among numbered things there is a first one.
LEMMA FirstOne ==
    ASSUME NEW S, S # {}, NEW f, \A x \in S : f[x] \in Nat
    PROVE  \E x \in S : \A y \in S : ~(f[y] < f[x])
  <1> DEFINE T == {f[x] : x \in S}
  <1>1. T \subseteq Nat /\ T # {}
    OBVIOUS
  <1>2. PICK R : R = OpToRel(<, Nat)
    OBVIOUS
  <1>3. IsWellFoundedOn(R, Nat)
    BY <1>2, NatLessThanWellFounded
  <1> HIDE DEF T
  <1>4. PICK m \in T : \A n \in T : ~(<<n, m>> \in R)
    BY <1>1, <1>3, WFMin
  <1>5. ASSUME NEW i \in Nat, NEW j \in Nat, i < j
        PROVE  <<i, j>> \in R
    BY <1>2, <1>5 DEF OpToRel
  <1>6. PICK x \in S : m = f[x]
    BY <1>4 DEF T
  <1>7. ASSUME NEW y \in S, f[y] < f[x]
        PROVE  FALSE
    <2>1. f[y] \in T /\ f[y] \in Nat /\ f[x] \in Nat
      BY DEF T
    <2>2. <<f[y], m>> \in R
      BY <1>5, <1>6, <1>7, <2>1
    <2>3. QED
      BY <1>4, <2>1, <2>2
  <1>8. QED
    BY <1>7

\* When nothing is in flight and no client is inside, every task is over: the
\* first that is not would have all it waits for over.
LEMMA AllOver ==
    ASSUME TypeInv, InflightInv, GraphInv, QuietInv, RankInv, inflight = 0,
           \A c \in Client : pc[c] \in {"idle", "threw"}
    PROVE  \A t \in created : Over(t)
  <1> DEFINE rest == {t \in created : ~Over(t)}
  <1> SUFFICES ASSUME rest # {} PROVE FALSE
    OBVIOUS
  <1>1. PICK f \in [Task -> Nat], n \in Nat : Ranked(f, n)
    BY DEF RankInv
  <1>2. created \subseteq Task
    BY DEF TypeInv, SharedInv
  <1>3. \A t \in rest : f[t] \in Nat
    BY <1>1, <1>2
  <1>4. PICK t \in rest : \A u \in rest : ~(f[u] < f[t])
    BY <1>3, FirstOne
  <1>5. \A p \in WaitsFor(t) : Over(p)
    BY <1>1, <1>4 DEF Ranked, GraphInv, CreatedInv
  <1>6. Queued = {} /\ \A w \in Worker : pc[w] \in IdleLabel
    BY NothingInflight
  <1>7. \A th \in Thread : pc[th] \in IdleLabel \union {"idle", "wait", "threw"}
    BY <1>6 DEF Thread
  <1>8. QED
    BY <1>4, <1>5, <1>6, <1>7, RestingIsOver

\* In a program that terminates the system only when no client uses it, the
\* workers are joined over empty queues, and every task ever launched is over
\* by then, run or canceled.
THEOREM ShutdownLeavesNothing ==
    ASSUME Orderly
    PROVE  Spec => []TerminateDrains
  <1> DEFINE IInv == /\ TypeInv /\ LifeInv /\ InflightInv /\ GraphInv /\ QuietInv
                     /\ ShutdownInv /\ RankInv
  <1>1. Init => ShutdownInv
    BY DEF Init, ShutdownInv, Stopped
  <1>2. Init => RankInv
    <2> SUFFICES ASSUME Init PROVE RankInv
      OBVIOUS
    <2>1. PICK f : f = [t \in Task |-> 0]
      OBVIOUS
    <2>2. f \in [Task -> Nat] /\ Ranked(f, 0)
      BY <2>1 DEF Init, Ranked
    <2>3. QED
      BY <2>2 DEF RankInv
  <1>3. TypeInv /\ InflightInv /\ GraphInv /\ ShutdownInv /\ [Next]_taskVars => ShutdownInv'
    BY ClientShutdown, WorkerShutdown, OwnerShutdown DEF Next
  <1>4. TypeInv /\ InflightInv /\ GraphInv /\ QuietInv /\ ShutdownInv /\ RankInv
           => TerminateDrains
    <2> SUFFICES ASSUME TypeInv, InflightInv, GraphInv, QuietInv, ShutdownInv, RankInv,
                        stopPc \in {"join", "terminated"}
                 PROVE  EmptyLocked /\ \A t \in created : Over(t)
      BY DEF TerminateDrains
    <2>1. inflight = 0 /\ \A c \in Client : pc[c] \in {"idle", "threw"}
      BY DEF ShutdownInv, Stopped
    <2>2. EmptyLocked
      <3>1. ASSUME NEW l \in Level, queues[l] # <<>>
            PROVE  FALSE
        <4>1. queues[l] \in Seq(Task)
          BY DEF TypeInv, SharedInv, QueueInv, QueueTypeOK
        <4>2. 1 \in DOMAIN queues[l]
          BY <3>1, <4>1
        <4>3. queues[l][1] \in Queued
          BY <4>2 DEF Queued
        <4>4. QED
          BY <2>1, <4>3, NothingInflight
      <3>2. QED
        BY <3>1 DEF EmptyLocked, NonEmpty
    <2>3. QED
      BY <2>1, <2>2, AllOver
  <1>5. QED
    BY <1>1, <1>2, <1>3, <1>4, NextRank, QuietInvariant, PTL DEF Spec

=============================================================================
