--------------------------- MODULE RefCountProofs ---------------------------
(***************************************************************************)
(* The reference counting keeps its promises for every finite number of    *)
(* threads and pointers and any number of objects.  The inductive          *)
(* invariant says what the two counters count (CountsMatch) and ties the   *)
(* life of an object and of its control block to them (LifeFollowsCounts). *)
(***************************************************************************)
EXTENDS RefCountProperties, FiniteSetTheorems, TLAPS

LockLabels == {"lockAlive", "lockLoad", "lockCas", "lockPointer"}
OwningLabels == {"decrement", "lockPointer"}
DyingLabels == {"markDead", "clearPointer", "destroy"}

\* The strong pointers that refer to o, the values of f that are o, and the
\* threads that are at one of `labels' with o.
Pointers(f, o) == {td \in Thread \X Slot : f[td[1]][td[2]] = o}
Holders(f, o) == {t \in Thread : f[t] = o}
Busy(tg, at, o, labels) == {t \in Thread : tg[t] = o /\ at[t] \in labels}

pointers == [o \in Object |-> Cardinality(Pointers(sp, o))]
raws == [o \in Object |-> Cardinality(Holders(raw, o))]
calls == [o \in Object |-> Cardinality(Busy(target, pc, o, OwningLabels))]
weakPointers == [o \in Object |-> Cardinality(Holders(wp, o))]
weakCalls == [o \in Object |-> Cardinality(Busy(target, pc, o, {"releaseWeak"}))]
dying == [o \in Object |-> Cardinality(Busy(target, pc, o, DyingLabels))]
freeing == [o \in Object |-> Cardinality(Busy(target, pc, o, {"freeControl"}))]

Bit(b) == IF b THEN 1 ELSE 0

\* m_strong counts the owners and the references that attach dropped; m_weak
\* counts the weak pointers, the ReleaseWeak calls and the object itself.
CountsOf(o) ==
    /\ strong[o] = pointers[o] + raws[o] + calls[o] + dropped[o]
    /\ weak[o] = weakPointers[o] + weakCalls[o] + Bit(object[o] = "live")

CountsMatch == \A o \in Object : CountsOf(o)

\* The object lives while it is counted or while the one thread that took the
\* count to 0 is destroying it; the control block is there while its count is
\* not 0 or while one thread is freeing it.
LifeOf(o) ==
    /\ object[o] = "live" => \/ strong[o] > 0 /\ dying[o] = 0 /\ pointer[o]
                             \/ strong[o] = 0 /\ dying[o] = 1
    /\ object[o] # "live" => strong[o] = 0 /\ dying[o] = 0
    /\ object[o] = "unborn" <=> control[o] = "unborn"
    /\ object[o] = "unborn" => weak[o] = 0 /\ freeing[o] = 0
    /\ object[o] # "unborn" =>
          \/ weak[o] > 0 /\ freeing[o] = 0 /\ control[o] = "live"
          \/ weak[o] = 0 /\ freeing[o] = 1 /\ control[o] = "live"
          \/ weak[o] = 0 /\ freeing[o] = 0 /\ control[o] = "freed"

LifeFollowsCounts == \A o \in Object : LifeOf(o)

\* lock() works on what the thread's weak pointer refers to, and tries to
\* exchange only a count that was not 0.
LocksThroughWeak ==
    \A t \in Thread :
        /\ pc[t] \in LockLabels => wp[t] = target[t]
        /\ pc[t] = "lockCas" => seen[t] # 0

RefInv == RefTypeOK /\ CountsMatch /\ LifeFollowsCounts /\ LocksThroughWeak

-----------------------------------------------------------------------------
(* Counting: what one assignment changes in the size of a set of holders.  *)

\* Two sets that differ at most in x differ in size by their bits for x.
LEMMA CardinalityChange ==
    ASSUME NEW S, NEW T, NEW x, IsFiniteSet(S), S \ {x} = T \ {x}
    PROVE  /\ IsFiniteSet(T)
           /\ Cardinality(T) = Cardinality(S) - Bit(x \in S) + Bit(x \in T)
<1> DEFINE R == S \ {x}
<1>1. IsFiniteSet(R) /\ Cardinality(R) \in Nat
  BY FS_RemoveElement, FS_CardinalityType
<1>2. ASSUME NEW U, U \ {x} = R
      PROVE  IsFiniteSet(U) /\ Cardinality(U) = Cardinality(R) + Bit(x \in U)
  <2>1. CASE x \in U
    <3>1. U = R \cup {x} /\ x \notin R
      BY <1>2, <2>1
    <3> QED
      BY <2>1, <3>1, <1>1, FS_AddElement DEF Bit
  <2>2. CASE x \notin U
    <3>1. U = R
      BY <1>2, <2>2
    <3> QED
      BY <2>2, <3>1, <1>1 DEF Bit
  <2> QED
    BY <2>1, <2>2
<1>3. IsFiniteSet(T) /\ Cardinality(T) = Cardinality(R) + Bit(x \in T)
  BY <1>2
<1>4. Cardinality(S) = Cardinality(R) + Bit(x \in S)
  BY <1>2
<1> QED
  BY <1>1, <1>3, <1>4 DEF Bit

\* Every set that is counted is finite.
LEMMA CountedAreFinite ==
    /\ \A f, o : IsFiniteSet(Pointers(f, o)) /\ IsFiniteSet(Holders(f, o))
    /\ \A tg, at, o, labels : IsFiniteSet(Busy(tg, at, o, labels))
<1>1. IsFiniteSet(Thread \X Slot)
  BY ThreadsAreFinite, FS_Product
<1>2. \A f, o : Pointers(f, o) \subseteq Thread \X Slot /\ Holders(f, o) \subseteq Thread
  BY DEF Pointers, Holders
<1>3. \A tg, at, o, labels : Busy(tg, at, o, labels) \subseteq Thread
  BY DEF Busy
<1> QED
  BY <1>1, <1>2, <1>3, ThreadsAreFinite, FS_Subset

\* Two numbers are 0 when their sum is.
LEMMA ZeroSum == \A a, b \in Nat : a + b = 0 => a = 0 /\ b = 0
  OBVIOUS

CountsAreNatOf(o) ==
    /\ pointers[o] \in Nat /\ raws[o] \in Nat /\ calls[o] \in Nat
    /\ weakPointers[o] \in Nat /\ weakCalls[o] \in Nat
    /\ dying[o] \in Nat /\ freeing[o] \in Nat

\* What is counted is a number.
LEMMA CountsAreNat == \A o \in Object : CountsAreNatOf(o)
  BY CountedAreFinite, FS_CardinalityType
     DEF pointers, raws, calls, weakPointers, weakCalls, dying, freeing, CountsAreNatOf

\* Thread t alone goes on to another step, and perhaps to another object.
MovedOf(t, o) ==
    /\ calls'[o] = calls[o] - Bit(target[t] = o /\ pc[t] \in OwningLabels)
                            + Bit(target'[t] = o /\ pc'[t] \in OwningLabels)
    /\ weakCalls'[o] = weakCalls[o] - Bit(target[t] = o /\ pc[t] \in {"releaseWeak"})
                                    + Bit(target'[t] = o /\ pc'[t] \in {"releaseWeak"})
    /\ dying'[o] = dying[o] - Bit(target[t] = o /\ pc[t] \in DyingLabels)
                            + Bit(target'[t] = o /\ pc'[t] \in DyingLabels)
    /\ freeing'[o] = freeing[o] - Bit(target[t] = o /\ pc[t] \in {"freeControl"})
                                + Bit(target'[t] = o /\ pc'[t] \in {"freeControl"})

\* What the move of one thread changes in the counts of calls.
LEMMA MovedCounts ==
    ASSUME NEW t \in Thread, NEW o \in Object,
           \A u \in Thread : u # t => pc'[u] = pc[u] /\ target'[u] = target[u]
    PROVE  MovedOf(t, o)
<1>1. ASSUME NEW labels
      PROVE  Cardinality(Busy(target', pc', o, labels)) =
                Cardinality(Busy(target, pc, o, labels))
                    - Bit(target[t] = o /\ pc[t] \in labels)
                    + Bit(target'[t] = o /\ pc'[t] \in labels)
  <2> DEFINE S == Busy(target, pc, o, labels)
             T == Busy(target', pc', o, labels)
  <2>1. S \ {t} = T \ {t}
    BY DEF Busy
  <2>2. /\ t \in S <=> target[t] = o /\ pc[t] \in labels
        /\ t \in T <=> target'[t] = o /\ pc'[t] \in labels
    BY DEF Busy
  <2>3. Cardinality(T) = Cardinality(S) - Bit(t \in S) + Bit(t \in T)
    BY <2>1, CountedAreFinite, CardinalityChange
  <2> QED
    BY <2>2, <2>3 DEF Bit
<1>2. /\ calls'[o] = Cardinality(Busy(target', pc', o, OwningLabels))
      /\ weakCalls'[o] = Cardinality(Busy(target', pc', o, {"releaseWeak"}))
      /\ dying'[o] = Cardinality(Busy(target', pc', o, DyingLabels))
      /\ freeing'[o] = Cardinality(Busy(target', pc', o, {"freeControl"}))
  BY DEF calls, weakCalls, dying, freeing, Busy
<1>3. /\ calls[o] = Cardinality(Busy(target, pc, o, OwningLabels))
      /\ weakCalls[o] = Cardinality(Busy(target, pc, o, {"releaseWeak"}))
      /\ dying[o] = Cardinality(Busy(target, pc, o, DyingLabels))
      /\ freeing[o] = Cardinality(Busy(target, pc, o, {"freeControl"}))
  BY DEF calls, weakCalls, dying, freeing
<1> QED
  BY <1>1, <1>2, <1>3 DEF MovedOf

\* What is held is counted.
LEMMA HeldIsCounted ==
    ASSUME NEW o \in Object
    PROVE  /\ \A t \in Thread, d \in Slot : sp[t][d] = o => pointers[o] > 0
           /\ \A t \in Thread : /\ raw[t] = o => raws[o] > 0
                                /\ wp[t] = o => weakPointers[o] > 0
           /\ \A t \in Thread : target[t] = o =>
                 /\ pc[t] \in OwningLabels => calls[o] > 0
                 /\ pc[t] = "releaseWeak" => weakCalls[o] > 0
                 /\ pc[t] \in DyingLabels => dying[o] > 0
                 /\ pc[t] = "freeControl" => freeing[o] > 0
<1>1. ASSUME NEW S, NEW x \in S, IsFiniteSet(S)
      PROVE  Cardinality(S) > 0
  BY <1>1, FS_CardinalityType, FS_EmptySet
<1>2. ASSUME NEW t \in Thread, NEW d \in Slot, sp[t][d] = o
      PROVE  pointers[o] > 0
  <2>1. <<t, d>> \in Pointers(sp, o)
    BY <1>2 DEF Pointers
  <2> QED
    BY <2>1, <1>1, CountedAreFinite DEF pointers
<1>3. ASSUME NEW t \in Thread
      PROVE  /\ raw[t] = o => raws[o] > 0
             /\ wp[t] = o => weakPointers[o] > 0
  <2>1. /\ raw[t] = o => t \in Holders(raw, o)
        /\ wp[t] = o => t \in Holders(wp, o)
    BY DEF Holders
  <2> QED
    BY <2>1, <1>1, CountedAreFinite DEF raws, weakPointers
<1>4. ASSUME NEW t \in Thread, NEW labels, target[t] = o, pc[t] \in labels
      PROVE  Cardinality(Busy(target, pc, o, labels)) > 0
  <2>1. t \in Busy(target, pc, o, labels)
    BY <1>4 DEF Busy
  <2> QED
    BY <2>1, <1>1, CountedAreFinite
<1>5. \A t \in Thread : target[t] = o =>
         /\ pc[t] \in OwningLabels => calls[o] > 0
         /\ pc[t] = "releaseWeak" => weakCalls[o] > 0
         /\ pc[t] \in DyingLabels => dying[o] > 0
         /\ pc[t] = "freeControl" => freeing[o] > 0
  BY <1>4 DEF calls, weakCalls, dying, freeing
<1> QED
  BY <1>2, <1>3, <1>5

\* One strong pointer is assigned.
LEMMA AssignedCounts ==
    ASSUME NEW t \in Thread, NEW d \in Slot, NEW o \in Object,
           \A u \in Thread, e \in Slot : u # t \/ e # d => sp'[u][e] = sp[u][e]
    PROVE  pointers'[o] = pointers[o] - Bit(sp[t][d] = o) + Bit(sp'[t][d] = o)
<1>1. Cardinality(Pointers(sp', o)) =
         Cardinality(Pointers(sp, o)) - Bit(sp[t][d] = o) + Bit(sp'[t][d] = o)
  <2> DEFINE x == <<t, d>>
             S == Pointers(sp, o)
             T == Pointers(sp', o)
  <2>1. ASSUME NEW td \in Thread \X Slot, td # x
        PROVE  td \in T <=> td \in S
    <3>1. PICK u \in Thread, e \in Slot : td = <<u, e>>
      BY <2>1
    <3>2. sp'[td[1]][td[2]] = sp[td[1]][td[2]]
      BY <2>1, <3>1
    <3> QED
      BY <3>2 DEF Pointers
  <2>2. S \ {x} = T \ {x}
    BY <2>1 DEF Pointers
  <2>3. (x \in S <=> sp[t][d] = o) /\ (x \in T <=> sp'[t][d] = o)
    BY DEF Pointers
  <2>4. Cardinality(T) = Cardinality(S) - Bit(x \in S) + Bit(x \in T)
    BY <2>2, CountedAreFinite, CardinalityChange
  <2> QED
    BY <2>3, <2>4 DEF Bit
<1>2. pointers'[o] = Cardinality(Pointers(sp', o))
  BY DEF pointers, Pointers
<1>3. pointers[o] = Cardinality(Pointers(sp, o))
  BY DEF pointers
<1> QED
  BY <1>1, <1>2, <1>3

\* The weak pointer of one thread is assigned.
LEMMA WeakCounts ==
    ASSUME NEW t \in Thread, NEW o \in Object,
           \A u \in Thread : u # t => wp'[u] = wp[u]
    PROVE  weakPointers'[o] = weakPointers[o] - Bit(wp[t] = o) + Bit(wp'[t] = o)
<1>1. Cardinality(Holders(wp', o)) =
         Cardinality(Holders(wp, o)) - Bit(wp[t] = o) + Bit(wp'[t] = o)
  <2> DEFINE S == Holders(wp, o)
             T == Holders(wp', o)
  <2>1. S \ {t} = T \ {t}
    BY DEF Holders
  <2>2. (t \in S <=> wp[t] = o) /\ (t \in T <=> wp'[t] = o)
    BY DEF Holders
  <2>3. Cardinality(T) = Cardinality(S) - Bit(t \in S) + Bit(t \in T)
    BY <2>1, CountedAreFinite, CardinalityChange
  <2> QED
    BY <2>2, <2>3 DEF Bit
<1>2. weakPointers'[o] = Cardinality(Holders(wp', o))
  BY DEF weakPointers, Holders
<1>3. weakPointers[o] = Cardinality(Holders(wp, o))
  BY DEF weakPointers
<1> QED
  BY <1>1, <1>2, <1>3

\* The reference a thread owns without a pointer is assigned.
LEMMA RawCounts ==
    ASSUME NEW t \in Thread, NEW o \in Object,
           \A u \in Thread : u # t => raw'[u] = raw[u]
    PROVE  raws'[o] = raws[o] - Bit(raw[t] = o) + Bit(raw'[t] = o)
<1>1. Cardinality(Holders(raw', o)) =
         Cardinality(Holders(raw, o)) - Bit(raw[t] = o) + Bit(raw'[t] = o)
  <2> DEFINE S == Holders(raw, o)
             T == Holders(raw', o)
  <2>1. S \ {t} = T \ {t}
    BY DEF Holders
  <2>2. (t \in S <=> raw[t] = o) /\ (t \in T <=> raw'[t] = o)
    BY DEF Holders
  <2>3. Cardinality(T) = Cardinality(S) - Bit(t \in S) + Bit(t \in T)
    BY <2>1, CountedAreFinite, CardinalityChange
  <2> QED
    BY <2>2, <2>3 DEF Bit
<1>2. raws'[o] = Cardinality(Holders(raw', o))
  BY DEF raws, Holders
<1>3. raws[o] = Cardinality(Holders(raw, o))
  BY DEF raws
<1> QED
  BY <1>1, <1>2, <1>3

\* What does not change is not counted anew.
LEMMA SameCounts ==
    /\ UNCHANGED sp => pointers' = pointers
    /\ UNCHANGED raw => raws' = raws
    /\ UNCHANGED wp => weakPointers' = weakPointers
    /\ UNCHANGED <<pc, target>> => /\ calls' = calls /\ weakCalls' = weakCalls
                                   /\ dying' = dying /\ freeing' = freeing
  BY DEF pointers, raws, weakPointers, calls, weakCalls, dying, freeing,
         Pointers, Holders, Busy

\* Moving the pointer s of a thread to its pointer d, and nulling s.
LEMMA TransferCounts ==
    ASSUME RefTypeOK, NEW t \in Thread, NEW d \in Slot, NEW s \in Slot, d # s,
           sp' = [sp EXCEPT ![t] = [@ EXCEPT ![d] = sp[t][s], ![s] = None]],
           NEW o \in Object
    PROVE  pointers'[o] = pointers[o] - Bit(sp[t][d] = o)
<1> DEFINE m == [sp EXCEPT ![t][d] = sp[t][s]]
           x == <<t, d>>
           y == <<t, s>>
           S == Pointers(sp, o)
           M == Pointers(m, o)
           T == Pointers(sp', o)
<1>1. /\ m[t][d] = sp[t][s] /\ m[t][s] = sp[t][s]
      /\ sp'[t][s] = None
      /\ \A u \in Thread, e \in Slot : u # t \/ e # d => m[u][e] = sp[u][e]
      /\ \A u \in Thread, e \in Slot : u # t \/ e # s => sp'[u][e] = m[u][e]
  BY DEF RefTypeOK
<1>2. ASSUME NEW td \in Thread \X Slot
      PROVE  /\ td # x => (td \in M <=> td \in S)
             /\ td # y => (td \in T <=> td \in M)
  <2>1. PICK u \in Thread, e \in Slot : td = <<u, e>>
    BY <1>2
  <2>2. /\ td # x => m[td[1]][td[2]] = sp[td[1]][td[2]]
        /\ td # y => sp'[td[1]][td[2]] = m[td[1]][td[2]]
    BY <1>1, <2>1
  <2> QED
    BY <2>2 DEF Pointers
<1>3. M \ {x} = S \ {x} /\ T \ {y} = M \ {y}
  BY <1>2 DEF Pointers
<1>4. /\ x \in S <=> sp[t][d] = o
      /\ x \in M <=> sp[t][s] = o
      /\ y \in M <=> sp[t][s] = o
      /\ y \notin T
  BY <1>1, NoneIsNoObject DEF Pointers
<1>5. /\ Cardinality(M) = Cardinality(S) - Bit(x \in S) + Bit(x \in M)
      /\ Cardinality(T) = Cardinality(M) - Bit(y \in M) + Bit(y \in T)
  BY <1>3, CountedAreFinite, CardinalityChange
<1>6. Cardinality(S) \in Nat
  BY CountedAreFinite, FS_CardinalityType
<1>7. Cardinality(T) = Cardinality(S) - Bit(sp[t][d] = o)
  BY <1>4, <1>5, <1>6 DEF Bit
<1> QED
  BY <1>7 DEF pointers, Pointers

-----------------------------------------------------------------------------
(* Every step keeps the invariant.                                         *)

\* The count that a Release or ReleaseWeak in progress is about to lower is
\* not 0, and neither is the one that lock() has raised.
LEMMA ReleasedIsCounted ==
    ASSUME RefInv, NEW t \in Thread
    PROVE  /\ pc[t] \in OwningLabels => target[t] \in Object /\ strong[target[t]] > 0
                                        /\ pointer[target[t]]
           /\ pc[t] = "releaseWeak" => target[t] \in Object /\ weak[target[t]] > 0
<1> USE DEF RefInv
<1>1. CASE pc[t] \in OwningLabels
  <2> DEFINE o == target[t]
  <2>1. o \in Object
    BY <1>1 DEF RefTypeOK, PointerOrNull, OwningLabels
  <2>2. calls[o] > 0 /\ CountsOf(o) /\ LifeOf(o) /\ CountsAreNatOf(o)
    BY <1>1, <2>1, HeldIsCounted, CountsAreNat DEF CountsMatch, LifeFollowsCounts
  <2>3. strong[o] \in Nat /\ dropped[o] \in Nat
    BY <2>1 DEF RefTypeOK
  <2>4. strong[o] > 0
    BY <2>2, <2>3 DEF CountsOf, CountsAreNatOf
  <2> QED
    BY <1>1, <2>1, <2>2, <2>4 DEF LifeOf, OwningLabels
<1>2. CASE pc[t] = "releaseWeak"
  <2> DEFINE o == target[t]
  <2>1. o \in Object
    BY <1>2 DEF RefTypeOK, PointerOrNull
  <2>2. weakCalls[o] > 0 /\ CountsOf(o) /\ CountsAreNatOf(o)
    BY <1>2, <2>1, HeldIsCounted, CountsAreNat DEF CountsMatch
  <2>3. weak[o] > 0
    BY <2>2 DEF CountsOf, CountsAreNatOf, Bit
  <2> QED
    BY <1>2, <2>1, <2>3 DEF OwningLabels
<1> QED
  BY <1>1, <1>2

\* The destructor of a strong pointer turns its reference into a Release call.
LEMMA ResetKeeps ==
    ASSUME RefInv, NEW t \in Thread, NEW d \in Slot,
           Reset(t, d), UNCHANGED dropped
    PROVE  RefInv'
<1> DEFINE p == sp[t][d]
<1> USE DEF RefInv
<1>1. /\ pc[t] = "idle" /\ target[t] = None /\ p \in Object
      /\ sp' = [sp EXCEPT ![t][d] = None]
      /\ pc' = [pc EXCEPT ![t] = "decrement"] /\ target' = [target EXCEPT ![t] = p]
      /\ UNCHANGED <<strong, weak, alive, pointer, object, control, wp,
                     raw, seen, dropped>>
  BY DEF Reset, At, Drop, RefTypeOK, PointerOrNull, blockVars
<1>2. RefTypeOK'
  BY <1>1, NoneIsNoObject DEF RefTypeOK, PointerOrNull, Label, LateLoads
<1>3. ASSUME NEW o \in Object
      PROVE  CountsOf(o)' /\ LifeOf(o)'
  <2>1. \A v \in Thread, e \in Slot : v # t \/ e # d => sp'[v][e] = sp[v][e]
    BY <1>1 DEF RefTypeOK
  <2>2. pointers'[o] = pointers[o] - Bit(sp[t][d] = o) + Bit(sp'[t][d] = o)
    BY <2>1, AssignedCounts
  <2>3. sp'[t][d] = None /\ pointers[o] \in Nat
    BY <1>1, CountsAreNat DEF RefTypeOK, CountsAreNatOf
  <2>4. pointers'[o] = pointers[o] - Bit(p = o)
    BY <1>1, <2>2, <2>3, NoneIsNoObject DEF Bit
  <2>5. \A v \in Thread : v # t => pc'[v] = pc[v] /\ target'[v] = target[v]
    BY <1>1 DEF RefTypeOK
  <2>6. MovedOf(t, o)
    BY <2>5, MovedCounts
  <2>7. /\ target'[t] = p
        /\ pc'[t] = "decrement"
        /\ CountsAreNatOf(o)
    BY <1>1, CountsAreNat DEF RefTypeOK
  <2>8. /\ calls'[o] = calls[o] + Bit(p = o)
        /\ weakCalls'[o] = weakCalls[o] /\ dying'[o] = dying[o]
        /\ freeing'[o] = freeing[o]
    BY <1>1, <2>6, <2>7, NoneIsNoObject
       DEF MovedOf, Bit, CountsAreNatOf, OwningLabels, DyingLabels
  <2>9. /\ strong'[o] = strong[o] /\ weak'[o] = weak[o] /\ pointer'[o] = pointer[o]
        /\ object'[o] = object[o] /\ control'[o] = control[o] /\ dropped'[o] = dropped[o]
    BY <1>1 DEF RefTypeOK, Bit
  <2>10. /\ raws'[o] = raws[o] /\ weakPointers'[o] = weakPointers[o]
    BY <1>1, SameCounts
  <2>11. /\ CountsAreNatOf(o) /\ CountsOf(o) /\ LifeOf(o)
        /\ strong[o] \in Nat /\ weak[o] \in Nat /\ dropped[o] \in Nat
    BY CountsAreNat DEF CountsMatch, LifeFollowsCounts, RefTypeOK
  <2>12. CountsOf(o)'
    <3>1. strong'[o] = pointers'[o] + raws'[o] + calls'[o] + dropped'[o]
      BY <2>4, <2>8, <2>9, <2>10, <2>11 DEF CountsOf, CountsAreNatOf, Bit
    <3>2. weak'[o] = weakPointers'[o] + weakCalls'[o] + Bit(object'[o] = "live")
      BY <2>4, <2>8, <2>9, <2>10, <2>11 DEF CountsOf, CountsAreNatOf, Bit
    <3> QED
      BY <3>1, <3>2 DEF CountsOf
  <2>13. LifeOf(o)'
    BY <2>8, <2>9, <2>11 DEF CountsOf, CountsAreNatOf, LifeOf, Bit
  <2> QED
    BY <2>12, <2>13
<1>4. LocksThroughWeak'
  BY <1>1 DEF LocksThroughWeak, LockLabels, RefTypeOK
<1> QED
  BY <1>2, <1>3, <1>4 DEF CountsMatch, LifeFollowsCounts

\* A new object starts with one strong pointer and its own weak reference.
LEMMA CreateKeeps ==
    ASSUME RefInv, NEW t \in Thread, NEW d \in Slot, NEW p \in Object,
           Create(t, d, p), UNCHANGED dropped
    PROVE  RefInv'
<1> USE DEF RefInv
<1>1. /\ object[p] = "unborn" /\ sp[t][d] = None
      /\ strong' = [strong EXCEPT ![p] = 1] /\ weak' = [weak EXCEPT ![p] = 1]
      /\ alive' = [alive EXCEPT ![p] = TRUE] /\ pointer' = [pointer EXCEPT ![p] = TRUE]
      /\ object' = [object EXCEPT ![p] = "live"]
      /\ control' = [control EXCEPT ![p] = "live"]
      /\ sp' = [sp EXCEPT ![t][d] = p]
      /\ UNCHANGED <<wp, raw, seen, pc, target, dropped>>
  BY DEF Create
<1>2. RefTypeOK'
  BY <1>1, NoneIsNoObject DEF RefTypeOK, PointerOrNull, Label, LateLoads
<1>3. ASSUME NEW o \in Object
      PROVE  CountsOf(o)' /\ LifeOf(o)'
  <2>1. \A v \in Thread, e \in Slot : v # t \/ e # d => sp'[v][e] = sp[v][e]
    BY <1>1 DEF RefTypeOK
  <2>2. pointers'[o] = pointers[o] - Bit(sp[t][d] = o) + Bit(sp'[t][d] = o)
    BY <2>1, AssignedCounts
  <2>3. sp'[t][d] = p /\ pointers[o] \in Nat
    BY <1>1, CountsAreNat DEF RefTypeOK, CountsAreNatOf
  <2>4. pointers'[o] = pointers[o] + Bit(p = o)
    BY <1>1, <2>2, <2>3, NoneIsNoObject DEF Bit
  <2>5. p = o => strong[o] = 0 /\ weak[o] = 0
    BY <1>1, HeldIsCounted DEF LifeFollowsCounts, LifeOf
  <2>6. /\ p # o => /\ strong'[o] = strong[o] /\ weak'[o] = weak[o]
                    /\ pointer'[o] = pointer[o] /\ object'[o] = object[o]
                    /\ control'[o] = control[o]
        /\ p = o => /\ strong'[o] = 1 /\ weak'[o] = 1 /\ pointer'[o]
                    /\ object'[o] = "live" /\ control'[o] = "live"
                    /\ object[o] = "unborn"
        /\ dropped'[o] = dropped[o]
    BY <1>1 DEF RefTypeOK, Bit
  <2>7. /\ calls'[o] = calls[o] /\ weakCalls'[o] = weakCalls[o]
        /\ dying'[o] = dying[o] /\ freeing'[o] = freeing[o]
        /\ raws'[o] = raws[o] /\ weakPointers'[o] = weakPointers[o]
    BY <1>1, SameCounts
  <2>8. /\ CountsAreNatOf(o) /\ CountsOf(o) /\ LifeOf(o)
        /\ strong[o] \in Nat /\ weak[o] \in Nat /\ dropped[o] \in Nat
    BY CountsAreNat DEF CountsMatch, LifeFollowsCounts, RefTypeOK
  <2>9. CountsOf(o)'
    <3>1. CASE p = o
      <4>1. /\ pointers[o] + raws[o] + calls[o] + dropped[o] = 0
            /\ weakPointers[o] + weakCalls[o] = 0
        BY <3>1, <1>1, <2>5, <2>6, <2>8 DEF CountsOf, CountsAreNatOf, Bit
      <4>2. pointers[o] = 0 /\ raws[o] = 0 /\ calls[o] = 0 /\ dropped[o] = 0
        <5>1. pointers[o] + raws[o] \in Nat /\ pointers[o] + raws[o] + calls[o] \in Nat
          BY <2>8 DEF CountsAreNatOf
        <5>2. pointers[o] + raws[o] + calls[o] = 0 /\ dropped[o] = 0
          BY <4>1, <5>1, <2>8, ZeroSum
        <5>3. pointers[o] + raws[o] = 0 /\ calls[o] = 0
          BY <5>1, <5>2, <2>8, ZeroSum DEF CountsAreNatOf
        <5> QED
          BY <5>2, <5>3, <2>8, ZeroSum DEF CountsAreNatOf
      <4>3. weakPointers[o] = 0 /\ weakCalls[o] = 0
        BY <4>1, <2>8, ZeroSum DEF CountsAreNatOf
      <4> QED
        BY <3>1, <4>2, <4>3, <2>4, <2>5, <2>6, <2>7, <2>8 DEF CountsOf, Bit
    <3>2. CASE p # o
      BY <3>2, <2>4, <2>5, <2>6, <2>7, <2>8 DEF CountsOf, CountsAreNatOf, Bit
    <3> QED
      BY <3>1, <3>2
  <2>10. LifeOf(o)'
    BY <2>5, <2>6, <2>7, <2>8 DEF CountsAreNatOf, CountsOf, LifeOf, Bit
  <2> QED
    BY <2>9, <2>10
<1>4. LocksThroughWeak'
  BY <1>1 DEF LocksThroughWeak, LockLabels, RefTypeOK
<1> QED
  BY <1>2, <1>3, <1>4 DEF CountsMatch, LifeFollowsCounts

\* Copy assignment: a reference for the new value, a Release of the old one.
LEMMA CopyAssignKeeps ==
    ASSUME RefInv, NEW t \in Thread, NEW d \in Slot, NEW s \in Slot,
           CopyAssign(t, d, s), UNCHANGED dropped
    PROVE  RefInv'
<1> DEFINE p == sp[t][d]
           q == sp[t][s]
<1> USE DEF RefInv
<1>1. /\ pc[t] = "idle" /\ target[t] = None /\ q \in Object
      /\ strong' = [strong EXCEPT ![q] = @ + 1]
      /\ sp' = [sp EXCEPT ![t][d] = q]
      /\ pc' = [pc EXCEPT ![t] = IF p = None THEN "idle" ELSE "decrement"]
      /\ target' = [target EXCEPT ![t] = p]
      /\ UNCHANGED <<weak, alive, pointer, object, control, wp, raw, seen,
                     dropped>>
  BY DEF CopyAssign, At, Drop, Added, RefTypeOK, PointerOrNull
<1>2. RefTypeOK'
  BY <1>1, NoneIsNoObject DEF RefTypeOK, PointerOrNull, Label, LateLoads
<1>3. ASSUME NEW o \in Object
      PROVE  CountsOf(o)' /\ LifeOf(o)'
  <2>1. \A v \in Thread, e \in Slot : v # t \/ e # d => sp'[v][e] = sp[v][e]
    BY <1>1 DEF RefTypeOK
  <2>2. pointers'[o] = pointers[o] - Bit(sp[t][d] = o) + Bit(sp'[t][d] = o)
    BY <2>1, AssignedCounts
  <2>3. sp'[t][d] = q /\ pointers[o] \in Nat
    BY <1>1, CountsAreNat DEF RefTypeOK, CountsAreNatOf
  <2>4. pointers'[o] = pointers[o] - Bit(p = o) + Bit(q = o)
    BY <1>1, <2>2, <2>3, NoneIsNoObject DEF Bit
  <2>5. \A v \in Thread : v # t => pc'[v] = pc[v] /\ target'[v] = target[v]
    BY <1>1 DEF RefTypeOK
  <2>6. MovedOf(t, o)
    BY <2>5, MovedCounts
  <2>7. /\ target'[t] = p
        /\ pc'[t] = (IF p = None THEN "idle" ELSE "decrement")
        /\ CountsAreNatOf(o)
    BY <1>1, CountsAreNat DEF RefTypeOK
  <2>8. /\ calls'[o] = calls[o] + Bit(p = o)
        /\ weakCalls'[o] = weakCalls[o] /\ dying'[o] = dying[o]
        /\ freeing'[o] = freeing[o]
    BY <1>1, <2>6, <2>7, NoneIsNoObject
       DEF MovedOf, Bit, CountsAreNatOf, OwningLabels, DyingLabels
  <2>9. q = o => pointers[o] > 0
    BY <1>1, HeldIsCounted
  <2>10. /\ strong'[o] = strong[o] + Bit(q = o)
        /\ weak'[o] = weak[o] /\ pointer'[o] = pointer[o] /\ object'[o] = object[o]
        /\ control'[o] = control[o] /\ dropped'[o] = dropped[o]
    BY <1>1 DEF RefTypeOK, Bit
  <2>11. /\ raws'[o] = raws[o] /\ weakPointers'[o] = weakPointers[o]
    BY <1>1, SameCounts
  <2>12. /\ CountsAreNatOf(o) /\ CountsOf(o) /\ LifeOf(o)
        /\ strong[o] \in Nat /\ weak[o] \in Nat /\ dropped[o] \in Nat
    BY CountsAreNat DEF CountsMatch, LifeFollowsCounts, RefTypeOK
  <2>13. CountsOf(o)'
    <3>1. strong'[o] = pointers'[o] + raws'[o] + calls'[o] + dropped'[o]
      BY <2>4, <2>8, <2>10, <2>11, <2>12 DEF CountsOf, CountsAreNatOf, Bit
    <3>2. weak'[o] = weakPointers'[o] + weakCalls'[o] + Bit(object'[o] = "live")
      BY <2>4, <2>8, <2>10, <2>11, <2>12 DEF CountsOf, CountsAreNatOf, Bit
    <3> QED
      BY <3>1, <3>2 DEF CountsOf
  <2>14. LifeOf(o)'
    BY <2>8, <2>9, <2>10, <2>12 DEF CountsOf, CountsAreNatOf, LifeOf, Bit
  <2> QED
    BY <2>13, <2>14
<1>4. LocksThroughWeak'
  BY <1>1 DEF LocksThroughWeak, LockLabels, RefTypeOK
<1> QED
  BY <1>2, <1>3, <1>4 DEF CountsMatch, LifeFollowsCounts

\* A copy for another thread's empty pointer.
LEMMA CopyToKeeps ==
    ASSUME RefInv, NEW t \in Thread, NEW s \in Slot, NEW u \in Thread, NEW d \in Slot,
           CopyTo(t, s, u, d), UNCHANGED dropped
    PROVE  RefInv'
<1> DEFINE q == sp[t][s]
<1> USE DEF RefInv
<1>1. /\ q \in Object /\ sp[u][d] = None
      /\ strong' = [strong EXCEPT ![q] = @ + 1]
      /\ sp' = [sp EXCEPT ![u][d] = q]
      /\ UNCHANGED <<weak, alive, pointer, object, control, wp, raw, seen,
                     pc, target, dropped>>
  BY DEF CopyTo, Added, RefTypeOK, PointerOrNull
<1>2. RefTypeOK'
  BY <1>1, NoneIsNoObject DEF RefTypeOK, PointerOrNull, Label, LateLoads
<1>3. ASSUME NEW o \in Object
      PROVE  CountsOf(o)' /\ LifeOf(o)'
  <2>1. \A v \in Thread, e \in Slot : v # u \/ e # d => sp'[v][e] = sp[v][e]
    BY <1>1 DEF RefTypeOK
  <2>2. pointers'[o] = pointers[o] - Bit(sp[u][d] = o) + Bit(sp'[u][d] = o)
    BY <2>1, AssignedCounts
  <2>3. sp'[u][d] = q /\ pointers[o] \in Nat
    BY <1>1, CountsAreNat DEF RefTypeOK, CountsAreNatOf
  <2>4. pointers'[o] = pointers[o] + Bit(q = o)
    BY <1>1, <2>2, <2>3, NoneIsNoObject DEF Bit
  <2>5. q = o => pointers[o] > 0
    BY <1>1, HeldIsCounted
  <2>6. /\ strong'[o] = strong[o] + Bit(q = o)
        /\ weak'[o] = weak[o] /\ pointer'[o] = pointer[o] /\ object'[o] = object[o]
        /\ control'[o] = control[o] /\ dropped'[o] = dropped[o]
    BY <1>1 DEF RefTypeOK, Bit
  <2>7. /\ calls'[o] = calls[o] /\ weakCalls'[o] = weakCalls[o]
        /\ dying'[o] = dying[o] /\ freeing'[o] = freeing[o]
        /\ raws'[o] = raws[o] /\ weakPointers'[o] = weakPointers[o]
    BY <1>1, SameCounts
  <2>8. /\ CountsAreNatOf(o) /\ CountsOf(o) /\ LifeOf(o)
        /\ strong[o] \in Nat /\ weak[o] \in Nat /\ dropped[o] \in Nat
    BY CountsAreNat DEF CountsMatch, LifeFollowsCounts, RefTypeOK
  <2>9. CountsOf(o)'
    <3>1. strong'[o] = pointers'[o] + raws'[o] + calls'[o] + dropped'[o]
      BY <2>4, <2>6, <2>7, <2>8 DEF CountsOf, CountsAreNatOf, Bit
    <3>2. weak'[o] = weakPointers'[o] + weakCalls'[o] + Bit(object'[o] = "live")
      BY <2>4, <2>6, <2>7, <2>8 DEF CountsOf, CountsAreNatOf, Bit
    <3> QED
      BY <3>1, <3>2 DEF CountsOf
  <2>10. LifeOf(o)'
    BY <2>5, <2>6, <2>7, <2>8 DEF CountsOf, CountsAreNatOf, LifeOf, Bit
  <2> QED
    BY <2>9, <2>10
<1>4. LocksThroughWeak'
  BY <1>1 DEF LocksThroughWeak, LockLabels, RefTypeOK
<1> QED
  BY <1>2, <1>3, <1>4 DEF CountsMatch, LifeFollowsCounts

\* Move assignment: the reference changes its pointer, the old one is released.
LEMMA MoveAssignKeeps ==
    ASSUME RefInv, NEW t \in Thread, NEW d \in Slot, NEW s \in Slot,
           MoveAssign(t, d, s), UNCHANGED dropped
    PROVE  RefInv'
<1> DEFINE p == sp[t][d]
<1> USE DEF RefInv
<1>1. /\ pc[t] = "idle" /\ target[t] = None /\ d # s /\ p \in PointerOrNull
      /\ sp' = [sp EXCEPT ![t] = [@ EXCEPT ![d] = sp[t][s], ![s] = None]]
      /\ pc' = [pc EXCEPT ![t] = IF p = None THEN "idle" ELSE "decrement"]
      /\ target' = [target EXCEPT ![t] = p]
      /\ UNCHANGED <<strong, weak, alive, pointer, object, control, wp,
                     raw, seen, dropped>>
  BY DEF MoveAssign, At, Drop, RefTypeOK, blockVars
<1>2. RefTypeOK'
  BY <1>1, NoneIsNoObject DEF RefTypeOK, PointerOrNull, Label, LateLoads
<1>3. ASSUME NEW o \in Object
      PROVE  CountsOf(o)' /\ LifeOf(o)'
  <2>1. pointers'[o] = pointers[o] - Bit(p = o)
    BY <1>1, TransferCounts
  <2>2. \A v \in Thread : v # t => pc'[v] = pc[v] /\ target'[v] = target[v]
    BY <1>1 DEF RefTypeOK
  <2>3. MovedOf(t, o)
    BY <2>2, MovedCounts
  <2>4. /\ target'[t] = p
        /\ pc'[t] = (IF p = None THEN "idle" ELSE "decrement")
        /\ CountsAreNatOf(o)
    BY <1>1, CountsAreNat DEF RefTypeOK
  <2>5. /\ calls'[o] = calls[o] + Bit(p = o)
        /\ weakCalls'[o] = weakCalls[o] /\ dying'[o] = dying[o]
        /\ freeing'[o] = freeing[o]
    BY <1>1, <2>3, <2>4, NoneIsNoObject
       DEF MovedOf, Bit, CountsAreNatOf, OwningLabels, DyingLabels
  <2>6. /\ strong'[o] = strong[o] /\ weak'[o] = weak[o] /\ pointer'[o] = pointer[o]
        /\ object'[o] = object[o] /\ control'[o] = control[o] /\ dropped'[o] = dropped[o]
    BY <1>1 DEF RefTypeOK, Bit
  <2>7. /\ raws'[o] = raws[o] /\ weakPointers'[o] = weakPointers[o]
    BY <1>1, SameCounts
  <2>8. /\ CountsAreNatOf(o) /\ CountsOf(o) /\ LifeOf(o)
        /\ strong[o] \in Nat /\ weak[o] \in Nat /\ dropped[o] \in Nat
    BY CountsAreNat DEF CountsMatch, LifeFollowsCounts, RefTypeOK
  <2>9. CountsOf(o)'
    <3>1. strong'[o] = pointers'[o] + raws'[o] + calls'[o] + dropped'[o]
      BY <2>1, <2>5, <2>6, <2>7, <2>8 DEF CountsOf, CountsAreNatOf, Bit
    <3>2. weak'[o] = weakPointers'[o] + weakCalls'[o] + Bit(object'[o] = "live")
      BY <2>1, <2>5, <2>6, <2>7, <2>8 DEF CountsOf, CountsAreNatOf, Bit
    <3> QED
      BY <3>1, <3>2 DEF CountsOf
  <2>10. LifeOf(o)'
    BY <2>5, <2>6, <2>8 DEF CountsOf, CountsAreNatOf, LifeOf, Bit
  <2> QED
    BY <2>9, <2>10
<1>4. LocksThroughWeak'
  BY <1>1 DEF LocksThroughWeak, LockLabels, RefTypeOK
<1> QED
  BY <1>2, <1>3, <1>4 DEF CountsMatch, LifeFollowsCounts

\* detach: the reference of the pointer is the caller's now.
LEMMA DetachKeeps ==
    ASSUME RefInv, NEW t \in Thread, NEW d \in Slot,
           Detach(t, d), UNCHANGED dropped
    PROVE  RefInv'
<1> DEFINE p == sp[t][d]
<1> USE DEF RefInv
<1>1. /\ p \in Object /\ raw[t] = None
      /\ raw' = [raw EXCEPT ![t] = p] /\ sp' = [sp EXCEPT ![t][d] = None]
      /\ UNCHANGED <<strong, weak, alive, pointer, object, control, wp,
                     seen, pc, target, dropped>>
  BY DEF Detach, RefTypeOK, PointerOrNull, blockVars
<1>2. RefTypeOK'
  BY <1>1, NoneIsNoObject DEF RefTypeOK, PointerOrNull, Label, LateLoads
<1>3. ASSUME NEW o \in Object
      PROVE  CountsOf(o)' /\ LifeOf(o)'
  <2>1. \A v \in Thread, e \in Slot : v # t \/ e # d => sp'[v][e] = sp[v][e]
    BY <1>1 DEF RefTypeOK
  <2>2. pointers'[o] = pointers[o] - Bit(sp[t][d] = o) + Bit(sp'[t][d] = o)
    BY <2>1, AssignedCounts
  <2>3. sp'[t][d] = None /\ pointers[o] \in Nat
    BY <1>1, CountsAreNat DEF RefTypeOK, CountsAreNatOf
  <2>4. pointers'[o] = pointers[o] - Bit(p = o)
    BY <1>1, <2>2, <2>3, NoneIsNoObject DEF Bit
  <2>5. \A v \in Thread : v # t => raw'[v] = raw[v]
    BY <1>1 DEF RefTypeOK
  <2>6. raws'[o] = raws[o] - Bit(raw[t] = o) + Bit(raw'[t] = o)
    BY <2>5, RawCounts
  <2>7. raw'[t] = p /\ raws[o] \in Nat
    BY <1>1, CountsAreNat DEF RefTypeOK, CountsAreNatOf
  <2>8. raws'[o] = raws[o] + Bit(p = o)
    BY <1>1, <2>6, <2>7, NoneIsNoObject DEF Bit
  <2>9. /\ strong'[o] = strong[o] /\ weak'[o] = weak[o] /\ pointer'[o] = pointer[o]
        /\ object'[o] = object[o] /\ control'[o] = control[o] /\ dropped'[o] = dropped[o]
    BY <1>1 DEF RefTypeOK, Bit
  <2>10. /\ calls'[o] = calls[o] /\ weakCalls'[o] = weakCalls[o]
        /\ dying'[o] = dying[o] /\ freeing'[o] = freeing[o]
        /\ weakPointers'[o] = weakPointers[o]
    BY <1>1, SameCounts
  <2>11. /\ CountsAreNatOf(o) /\ CountsOf(o) /\ LifeOf(o)
        /\ strong[o] \in Nat /\ weak[o] \in Nat /\ dropped[o] \in Nat
    BY CountsAreNat DEF CountsMatch, LifeFollowsCounts, RefTypeOK
  <2>12. CountsOf(o)'
    <3>1. strong'[o] = pointers'[o] + raws'[o] + calls'[o] + dropped'[o]
      BY <2>4, <2>8, <2>9, <2>10, <2>11 DEF CountsOf, CountsAreNatOf, Bit
    <3>2. weak'[o] = weakPointers'[o] + weakCalls'[o] + Bit(object'[o] = "live")
      BY <2>4, <2>8, <2>9, <2>10, <2>11 DEF CountsOf, CountsAreNatOf, Bit
    <3> QED
      BY <3>1, <3>2 DEF CountsOf
  <2>13. LifeOf(o)'
    BY <2>9, <2>10, <2>11 DEF CountsOf, CountsAreNatOf, LifeOf, Bit
  <2> QED
    BY <2>12, <2>13
<1>4. LocksThroughWeak'
  BY <1>1 DEF LocksThroughWeak, LockLabels, RefTypeOK
<1> QED
  BY <1>2, <1>3, <1>4 DEF CountsMatch, LifeFollowsCounts

\* attach: the caller's reference is the pointer's now, the old one is released.
LEMMA AttachKeeps ==
    ASSUME RefInv, NEW t \in Thread, NEW d \in Slot,
           Attach(t, d), UNCHANGED dropped
    PROVE  RefInv'
<1> DEFINE p == sp[t][d]
           q == raw[t]
<1> USE DEF RefInv
<1>1. /\ pc[t] = "idle" /\ target[t] = None /\ q \in Object /\ p \in PointerOrNull
      /\ raw' = [raw EXCEPT ![t] = None] /\ sp' = [sp EXCEPT ![t][d] = q]
      /\ pc' = [pc EXCEPT ![t] = IF p = None THEN "idle" ELSE "decrement"]
      /\ target' = [target EXCEPT ![t] = p]
      /\ UNCHANGED <<strong, weak, alive, pointer, object, control, wp,
                     seen, dropped>>
  BY DEF Attach, At, Drop, RefTypeOK, PointerOrNull, blockVars
<1>2. RefTypeOK'
  BY <1>1, NoneIsNoObject DEF RefTypeOK, PointerOrNull, Label, LateLoads
<1>3. ASSUME NEW o \in Object
      PROVE  CountsOf(o)' /\ LifeOf(o)'
  <2>1. \A v \in Thread, e \in Slot : v # t \/ e # d => sp'[v][e] = sp[v][e]
    BY <1>1 DEF RefTypeOK
  <2>2. pointers'[o] = pointers[o] - Bit(sp[t][d] = o) + Bit(sp'[t][d] = o)
    BY <2>1, AssignedCounts
  <2>3. sp'[t][d] = q /\ pointers[o] \in Nat
    BY <1>1, CountsAreNat DEF RefTypeOK, CountsAreNatOf
  <2>4. pointers'[o] = pointers[o] - Bit(p = o) + Bit(q = o)
    BY <1>1, <2>2, <2>3, NoneIsNoObject DEF Bit
  <2>5. \A v \in Thread : v # t => pc'[v] = pc[v] /\ target'[v] = target[v]
    BY <1>1 DEF RefTypeOK
  <2>6. MovedOf(t, o)
    BY <2>5, MovedCounts
  <2>7. /\ target'[t] = p
        /\ pc'[t] = (IF p = None THEN "idle" ELSE "decrement")
        /\ CountsAreNatOf(o)
    BY <1>1, CountsAreNat DEF RefTypeOK
  <2>8. /\ calls'[o] = calls[o] + Bit(p = o)
        /\ weakCalls'[o] = weakCalls[o] /\ dying'[o] = dying[o]
        /\ freeing'[o] = freeing[o]
    BY <1>1, <2>6, <2>7, NoneIsNoObject
       DEF MovedOf, Bit, CountsAreNatOf, OwningLabels, DyingLabels
  <2>9. \A v \in Thread : v # t => raw'[v] = raw[v]
    BY <1>1 DEF RefTypeOK
  <2>10. raws'[o] = raws[o] - Bit(raw[t] = o) + Bit(raw'[t] = o)
    BY <2>9, RawCounts
  <2>11. raw'[t] = None /\ raws[o] \in Nat
    BY <1>1, CountsAreNat DEF RefTypeOK, CountsAreNatOf
  <2>12. raws'[o] = raws[o] - Bit(q = o)
    BY <1>1, <2>10, <2>11, NoneIsNoObject DEF Bit
  <2>13. /\ strong'[o] = strong[o] /\ weak'[o] = weak[o] /\ pointer'[o] = pointer[o]
        /\ object'[o] = object[o] /\ control'[o] = control[o] /\ dropped'[o] = dropped[o]
    BY <1>1 DEF RefTypeOK, Bit
  <2>14. /\ weakPointers'[o] = weakPointers[o]
    BY <1>1, SameCounts
  <2>15. /\ CountsAreNatOf(o) /\ CountsOf(o) /\ LifeOf(o)
        /\ strong[o] \in Nat /\ weak[o] \in Nat /\ dropped[o] \in Nat
    BY CountsAreNat DEF CountsMatch, LifeFollowsCounts, RefTypeOK
  <2>16. CountsOf(o)'
    <3>1. strong'[o] = pointers'[o] + raws'[o] + calls'[o] + dropped'[o]
      BY <2>4, <2>8, <2>12, <2>13, <2>14, <2>15 DEF CountsOf, CountsAreNatOf, Bit
    <3>2. weak'[o] = weakPointers'[o] + weakCalls'[o] + Bit(object'[o] = "live")
      BY <2>4, <2>8, <2>12, <2>13, <2>14, <2>15 DEF CountsOf, CountsAreNatOf, Bit
    <3> QED
      BY <3>1, <3>2 DEF CountsOf
  <2>17. LifeOf(o)'
    BY <2>8, <2>13, <2>15 DEF CountsOf, CountsAreNatOf, LifeOf, Bit
  <2> QED
    BY <2>16, <2>17
<1>4. LocksThroughWeak'
  BY <1>1 DEF LocksThroughWeak, LockLabels, RefTypeOK
<1> QED
  BY <1>2, <1>3, <1>4 DEF CountsMatch, LifeFollowsCounts

\* attach of the object the pointer already has: the reference is dropped.
LEMMA AttachSameKeeps ==
    ASSUME RefInv, NEW t \in Thread, NEW d \in Slot,
           AttachSame(t, d)
    PROVE  RefInv'
<1> DEFINE q == raw[t]
<1> USE DEF RefInv
<1>1. /\ q \in Object
      /\ raw' = [raw EXCEPT ![t] = None] /\ dropped' = [dropped EXCEPT ![q] = @ + 1]
      /\ UNCHANGED <<strong, weak, alive, pointer, object, control, sp, wp,
                     seen, pc, target>>
  BY DEF AttachSame, RefTypeOK, PointerOrNull, blockVars
<1>2. RefTypeOK'
  BY <1>1, NoneIsNoObject DEF RefTypeOK, PointerOrNull, Label, LateLoads
<1>3. ASSUME NEW o \in Object
      PROVE  CountsOf(o)' /\ LifeOf(o)'
  <2>1. \A v \in Thread : v # t => raw'[v] = raw[v]
    BY <1>1 DEF RefTypeOK
  <2>2. raws'[o] = raws[o] - Bit(raw[t] = o) + Bit(raw'[t] = o)
    BY <2>1, RawCounts
  <2>3. raw'[t] = None /\ raws[o] \in Nat
    BY <1>1, CountsAreNat DEF RefTypeOK, CountsAreNatOf
  <2>4. raws'[o] = raws[o] - Bit(q = o)
    BY <1>1, <2>2, <2>3, NoneIsNoObject DEF Bit
  <2>5. /\ dropped'[o] = dropped[o] + Bit(q = o)
        /\ strong'[o] = strong[o] /\ weak'[o] = weak[o] /\ pointer'[o] = pointer[o]
        /\ object'[o] = object[o] /\ control'[o] = control[o]
    BY <1>1 DEF RefTypeOK, Bit
  <2>6. /\ pointers'[o] = pointers[o] /\ calls'[o] = calls[o]
        /\ weakCalls'[o] = weakCalls[o] /\ dying'[o] = dying[o]
        /\ freeing'[o] = freeing[o]
        /\ weakPointers'[o] = weakPointers[o]
    BY <1>1, SameCounts
  <2>7. /\ CountsAreNatOf(o) /\ CountsOf(o) /\ LifeOf(o)
        /\ strong[o] \in Nat /\ weak[o] \in Nat /\ dropped[o] \in Nat
    BY CountsAreNat DEF CountsMatch, LifeFollowsCounts, RefTypeOK
  <2>8. CountsOf(o)'
    <3>1. strong'[o] = pointers'[o] + raws'[o] + calls'[o] + dropped'[o]
      BY <2>4, <2>5, <2>6, <2>7 DEF CountsOf, CountsAreNatOf, Bit
    <3>2. weak'[o] = weakPointers'[o] + weakCalls'[o] + Bit(object'[o] = "live")
      BY <2>4, <2>5, <2>6, <2>7 DEF CountsOf, CountsAreNatOf, Bit
    <3> QED
      BY <3>1, <3>2 DEF CountsOf
  <2>9. LifeOf(o)'
    BY <2>5, <2>6, <2>7 DEF CountsOf, CountsAreNatOf, LifeOf, Bit
  <2> QED
    BY <2>8, <2>9
<1>4. LocksThroughWeak'
  BY <1>1 DEF LocksThroughWeak, LockLabels, RefTypeOK
<1> QED
  BY <1>2, <1>3, <1>4 DEF CountsMatch, LifeFollowsCounts

\* Release: the count goes down, and who brings it to 0 destroys the object.
LEMMA DecrementKeeps ==
    ASSUME RefInv, NEW t \in Thread,
           Decrement(t), UNCHANGED dropped
    PROVE  RefInv'
<1> DEFINE p == target[t]
           last == strong[p] = 1
<1> USE DEF RefInv
<1>1. /\ pc[t] = "decrement" /\ p \in Object /\ strong[p] > 0
      /\ strong' = [strong EXCEPT ![p] = @ - 1]
      /\ pc' = [pc EXCEPT ![t] = IF last THEN "markDead" ELSE "loadStrong"]
      /\ target' = target
      /\ UNCHANGED <<weak, alive, pointer, object, control, sp, wp, raw,
                     seen, dropped>>
  BY ReleasedIsCounted DEF Decrement, At, Goto, OwningLabels, RefTypeOK, localVars
<1>2. RefTypeOK'
  BY <1>1, NoneIsNoObject DEF RefTypeOK, PointerOrNull, Label, LateLoads
<1>3. ASSUME NEW o \in Object
      PROVE  CountsOf(o)' /\ LifeOf(o)'
  <2>1. \A v \in Thread : v # t => pc'[v] = pc[v] /\ target'[v] = target[v]
    BY <1>1 DEF RefTypeOK
  <2>2. MovedOf(t, o)
    BY <2>1, MovedCounts
  <2>3. /\ target'[t] = p
        /\ pc'[t] = (IF last THEN "markDead" ELSE "loadStrong")
        /\ CountsAreNatOf(o)
    BY <1>1, CountsAreNat DEF RefTypeOK
  <2>4. /\ calls'[o] = calls[o] - Bit(p = o)
        /\ dying'[o] = dying[o] + Bit(p = o /\ last)
        /\ weakCalls'[o] = weakCalls[o] /\ freeing'[o] = freeing[o]
    BY <1>1, <2>2, <2>3, NoneIsNoObject
       DEF MovedOf, Bit, CountsAreNatOf, OwningLabels, DyingLabels
  <2>5. p = o => calls[o] > 0
    BY <1>1, HeldIsCounted DEF OwningLabels
  <2>6. /\ strong'[o] = strong[o] - Bit(p = o)
        /\ p = o => (last <=> strong[o] = 1) /\ strong[o] > 0
        /\ weak'[o] = weak[o] /\ pointer'[o] = pointer[o] /\ object'[o] = object[o]
        /\ control'[o] = control[o] /\ dropped'[o] = dropped[o]
    BY <1>1 DEF RefTypeOK, Bit
  <2>7. /\ pointers'[o] = pointers[o] /\ raws'[o] = raws[o]
        /\ weakPointers'[o] = weakPointers[o]
    BY <1>1, SameCounts
  <2>8. /\ CountsAreNatOf(o) /\ CountsOf(o) /\ LifeOf(o)
        /\ strong[o] \in Nat /\ weak[o] \in Nat /\ dropped[o] \in Nat
    BY CountsAreNat DEF CountsMatch, LifeFollowsCounts, RefTypeOK
  <2>9. CountsOf(o)'
    <3>1. strong'[o] = pointers'[o] + raws'[o] + calls'[o] + dropped'[o]
      BY <2>4, <2>6, <2>7, <2>8 DEF CountsOf, CountsAreNatOf, Bit
    <3>2. weak'[o] = weakPointers'[o] + weakCalls'[o] + Bit(object'[o] = "live")
      BY <2>4, <2>6, <2>7, <2>8 DEF CountsOf, CountsAreNatOf, Bit
    <3> QED
      BY <3>1, <3>2 DEF CountsOf
  <2>10. LifeOf(o)'
    BY <2>4, <2>5, <2>6, <2>8 DEF CountsOf, CountsAreNatOf, LifeOf, Bit
  <2> QED
    BY <2>9, <2>10
<1>4. LocksThroughWeak'
  BY <1>1 DEF LocksThroughWeak, LockLabels, RefTypeOK
<1> QED
  BY <1>2, <1>3, <1>4 DEF CountsMatch, LifeFollowsCounts

\* The thread that took the count to 0 goes on destroying the object.
LEMMA MarkDeadKeeps ==
    ASSUME RefInv, NEW t \in Thread,
           MarkDead(t), UNCHANGED dropped
    PROVE  RefInv'
<1> DEFINE p == target[t]
<1> USE DEF RefInv
<1>1. /\ pc[t] = "markDead" /\ p \in Object
      /\ alive' = [alive EXCEPT ![p] = FALSE]
      /\ pc' = [pc EXCEPT ![t] = "clearPointer"]
      /\ UNCHANGED <<strong, weak, pointer, object, control, sp, wp, raw,
                     seen, target, dropped>>
  BY DEF MarkDead, At, Goto, RefTypeOK, PointerOrNull, localVars
<1>2. RefTypeOK'
  BY <1>1, NoneIsNoObject DEF RefTypeOK, PointerOrNull, Label, LateLoads
<1>3. ASSUME NEW o \in Object
      PROVE  CountsOf(o)' /\ LifeOf(o)'
  <2>1. \A v \in Thread : v # t => pc'[v] = pc[v] /\ target'[v] = target[v]
    BY <1>1 DEF RefTypeOK
  <2>2. MovedOf(t, o)
    BY <2>1, MovedCounts
  <2>3. /\ target'[t] = p
        /\ pc'[t] = "clearPointer"
        /\ CountsAreNatOf(o)
    BY <1>1, CountsAreNat DEF RefTypeOK
  <2>4. /\ calls'[o] = calls[o] /\ weakCalls'[o] = weakCalls[o]
        /\ dying'[o] = dying[o] /\ freeing'[o] = freeing[o]
    BY <1>1, <2>2, <2>3, NoneIsNoObject
       DEF MovedOf, Bit, CountsAreNatOf, OwningLabels, DyingLabels
  <2>5. /\ strong'[o] = strong[o] /\ weak'[o] = weak[o] /\ pointer'[o] = pointer[o]
        /\ object'[o] = object[o] /\ control'[o] = control[o] /\ dropped'[o] = dropped[o]
    BY <1>1 DEF RefTypeOK, Bit
  <2>6. /\ pointers'[o] = pointers[o] /\ raws'[o] = raws[o]
        /\ weakPointers'[o] = weakPointers[o]
    BY <1>1, SameCounts
  <2>7. /\ CountsAreNatOf(o) /\ CountsOf(o) /\ LifeOf(o)
        /\ strong[o] \in Nat /\ weak[o] \in Nat /\ dropped[o] \in Nat
    BY CountsAreNat DEF CountsMatch, LifeFollowsCounts, RefTypeOK
  <2>8. CountsOf(o)'
    <3>1. strong'[o] = pointers'[o] + raws'[o] + calls'[o] + dropped'[o]
      BY <2>4, <2>5, <2>6, <2>7 DEF CountsOf, CountsAreNatOf, Bit
    <3>2. weak'[o] = weakPointers'[o] + weakCalls'[o] + Bit(object'[o] = "live")
      BY <2>4, <2>5, <2>6, <2>7 DEF CountsOf, CountsAreNatOf, Bit
    <3> QED
      BY <3>1, <3>2 DEF CountsOf
  <2>9. LifeOf(o)'
    BY <2>4, <2>5, <2>7 DEF CountsOf, CountsAreNatOf, LifeOf, Bit
  <2> QED
    BY <2>8, <2>9
<1>4. LocksThroughWeak'
  BY <1>1 DEF LocksThroughWeak, LockLabels, RefTypeOK
<1> QED
  BY <1>2, <1>3, <1>4 DEF CountsMatch, LifeFollowsCounts

\* Nobody holds the object any more when its pointer is cleared.
LEMMA ClearPointerKeeps ==
    ASSUME RefInv, NEW t \in Thread,
           ClearPointer(t), UNCHANGED dropped
    PROVE  RefInv'
<1> DEFINE p == target[t]
<1> USE DEF RefInv
<1>1. /\ pc[t] = "clearPointer" /\ p \in Object
      /\ pointer' = [pointer EXCEPT ![p] = FALSE]
      /\ pc' = [pc EXCEPT ![t] = "destroy"]
      /\ UNCHANGED <<strong, weak, alive, object, control, sp, wp, raw,
                     seen, target, dropped>>
  BY DEF ClearPointer, At, Goto, RefTypeOK, PointerOrNull, localVars
<1>2. RefTypeOK'
  BY <1>1, NoneIsNoObject DEF RefTypeOK, PointerOrNull, Label, LateLoads
<1>3. ASSUME NEW o \in Object
      PROVE  CountsOf(o)' /\ LifeOf(o)'
  <2>1. \A v \in Thread : v # t => pc'[v] = pc[v] /\ target'[v] = target[v]
    BY <1>1 DEF RefTypeOK
  <2>2. MovedOf(t, o)
    BY <2>1, MovedCounts
  <2>3. /\ target'[t] = p
        /\ pc'[t] = "destroy"
        /\ CountsAreNatOf(o)
    BY <1>1, CountsAreNat DEF RefTypeOK
  <2>4. /\ calls'[o] = calls[o] /\ weakCalls'[o] = weakCalls[o]
        /\ dying'[o] = dying[o] /\ freeing'[o] = freeing[o]
    BY <1>1, <2>2, <2>3, NoneIsNoObject
       DEF MovedOf, Bit, CountsAreNatOf, OwningLabels, DyingLabels
  <2>5. p = o => dying[o] > 0
    BY <1>1, HeldIsCounted DEF DyingLabels
  <2>6. /\ p # o => pointer'[o] = pointer[o]
        /\ strong'[o] = strong[o] /\ weak'[o] = weak[o] /\ object'[o] = object[o]
        /\ control'[o] = control[o] /\ dropped'[o] = dropped[o]
    BY <1>1 DEF RefTypeOK, Bit
  <2>7. /\ pointers'[o] = pointers[o] /\ raws'[o] = raws[o]
        /\ weakPointers'[o] = weakPointers[o]
    BY <1>1, SameCounts
  <2>8. /\ CountsAreNatOf(o) /\ CountsOf(o) /\ LifeOf(o)
        /\ strong[o] \in Nat /\ weak[o] \in Nat /\ dropped[o] \in Nat
    BY CountsAreNat DEF CountsMatch, LifeFollowsCounts, RefTypeOK
  <2>9. CountsOf(o)'
    <3>1. strong'[o] = pointers'[o] + raws'[o] + calls'[o] + dropped'[o]
      BY <2>4, <2>6, <2>7, <2>8 DEF CountsOf, CountsAreNatOf, Bit
    <3>2. weak'[o] = weakPointers'[o] + weakCalls'[o] + Bit(object'[o] = "live")
      BY <2>4, <2>6, <2>7, <2>8 DEF CountsOf, CountsAreNatOf, Bit
    <3> QED
      BY <3>1, <3>2 DEF CountsOf
  <2>10. LifeOf(o)'
    BY <2>4, <2>5, <2>6, <2>8 DEF CountsOf, CountsAreNatOf, LifeOf, Bit
  <2> QED
    BY <2>9, <2>10
<1>4. LocksThroughWeak'
  BY <1>1 DEF LocksThroughWeak, LockLabels, RefTypeOK
<1> QED
  BY <1>2, <1>3, <1>4 DEF CountsMatch, LifeFollowsCounts

\* The object's own weak reference becomes a ReleaseWeak call.
LEMMA DestroyKeeps ==
    ASSUME RefInv, NEW t \in Thread,
           Destroy(t), UNCHANGED dropped
    PROVE  RefInv'
<1> DEFINE p == target[t]
<1> USE DEF RefInv
<1>1. /\ pc[t] = "destroy" /\ p \in Object
      /\ object' = [object EXCEPT ![p] = "destroyed"]
      /\ alive' = [alive EXCEPT ![p] = FALSE] /\ pointer' = [pointer EXCEPT ![p] = FALSE]
      /\ pc' = [pc EXCEPT ![t] = "releaseWeak"]
      /\ UNCHANGED <<strong, weak, control, sp, wp, raw, seen, target, dropped>>
  BY DEF Destroy, At, Goto, RefTypeOK, PointerOrNull, localVars
<1>2. RefTypeOK'
  BY <1>1, NoneIsNoObject DEF RefTypeOK, PointerOrNull, Label, LateLoads
<1>3. ASSUME NEW o \in Object
      PROVE  CountsOf(o)' /\ LifeOf(o)'
  <2>1. \A v \in Thread : v # t => pc'[v] = pc[v] /\ target'[v] = target[v]
    BY <1>1 DEF RefTypeOK
  <2>2. MovedOf(t, o)
    BY <2>1, MovedCounts
  <2>3. /\ target'[t] = p
        /\ pc'[t] = "releaseWeak"
        /\ CountsAreNatOf(o)
    BY <1>1, CountsAreNat DEF RefTypeOK
  <2>4. /\ dying'[o] = dying[o] - Bit(p = o)
        /\ weakCalls'[o] = weakCalls[o] + Bit(p = o)
        /\ calls'[o] = calls[o] /\ freeing'[o] = freeing[o]
    BY <1>1, <2>2, <2>3, NoneIsNoObject
       DEF MovedOf, Bit, CountsAreNatOf, OwningLabels, DyingLabels
  <2>5. p = o => dying[o] > 0
    BY <1>1, HeldIsCounted DEF DyingLabels
  <2>6. /\ p # o => pointer'[o] = pointer[o] /\ object'[o] = object[o]
        /\ p = o => object'[o] = "destroyed"
        /\ strong'[o] = strong[o] /\ weak'[o] = weak[o] /\ control'[o] = control[o]
        /\ dropped'[o] = dropped[o]
    BY <1>1 DEF RefTypeOK, Bit
  <2>7. /\ pointers'[o] = pointers[o] /\ raws'[o] = raws[o]
        /\ weakPointers'[o] = weakPointers[o]
    BY <1>1, SameCounts
  <2>8. /\ CountsAreNatOf(o) /\ CountsOf(o) /\ LifeOf(o)
        /\ strong[o] \in Nat /\ weak[o] \in Nat /\ dropped[o] \in Nat
    BY CountsAreNat DEF CountsMatch, LifeFollowsCounts, RefTypeOK
  <2>9. CountsOf(o)'
    <3>1. strong'[o] = pointers'[o] + raws'[o] + calls'[o] + dropped'[o]
      BY <2>4, <2>5, <2>6, <2>7, <2>8 DEF CountsOf, CountsAreNatOf, LifeOf, Bit
    <3>2. weak'[o] = weakPointers'[o] + weakCalls'[o] + Bit(object'[o] = "live")
      BY <2>4, <2>5, <2>6, <2>7, <2>8 DEF CountsOf, CountsAreNatOf, LifeOf, Bit
    <3> QED
      BY <3>1, <3>2 DEF CountsOf
  <2>10. LifeOf(o)'
    <3>1. CASE p = o
      BY <3>1, <2>4, <2>5, <2>6, <2>8 DEF CountsOf, CountsAreNatOf, LifeOf, Bit
    <3>2. CASE p # o
      BY <3>2, <2>4, <2>5, <2>6, <2>8 DEF CountsOf, CountsAreNatOf, LifeOf, Bit
    <3> QED
      BY <3>1, <3>2
  <2> QED
    BY <2>9, <2>10
<1>4. LocksThroughWeak'
  BY <1>1 DEF LocksThroughWeak, LockLabels, RefTypeOK
<1> QED
  BY <1>2, <1>3, <1>4 DEF CountsMatch, LifeFollowsCounts

\* ReleaseWeak: who brings the count to 0 frees the control block.
LEMMA ReleaseWeakKeeps ==
    ASSUME RefInv, NEW t \in Thread,
           ReleaseWeak(t), UNCHANGED dropped
    PROVE  RefInv'
<1> DEFINE p == target[t]
           last == weak[p] = 1
<1> USE DEF RefInv
<1>1. /\ pc[t] = "releaseWeak" /\ p \in Object /\ weak[p] > 0
      /\ weak' = [weak EXCEPT ![p] = @ - 1]
      /\ pc' = [pc EXCEPT ![t] = IF last THEN "freeControl" ELSE "loadWeak"]
      /\ target' = target
      /\ UNCHANGED <<strong, alive, pointer, object, control, sp, wp, raw,
                     seen, dropped>>
  BY ReleasedIsCounted DEF ReleaseWeak, At, Goto, RefTypeOK, localVars
<1>2. RefTypeOK'
  BY <1>1, NoneIsNoObject DEF RefTypeOK, PointerOrNull, Label, LateLoads
<1>3. ASSUME NEW o \in Object
      PROVE  CountsOf(o)' /\ LifeOf(o)'
  <2>1. \A v \in Thread : v # t => pc'[v] = pc[v] /\ target'[v] = target[v]
    BY <1>1 DEF RefTypeOK
  <2>2. MovedOf(t, o)
    BY <2>1, MovedCounts
  <2>3. /\ target'[t] = p
        /\ pc'[t] = (IF last THEN "freeControl" ELSE "loadWeak")
        /\ CountsAreNatOf(o)
    BY <1>1, CountsAreNat DEF RefTypeOK
  <2>4. /\ weakCalls'[o] = weakCalls[o] - Bit(p = o)
        /\ freeing'[o] = freeing[o] + Bit(p = o /\ last)
        /\ calls'[o] = calls[o] /\ dying'[o] = dying[o]
    BY <1>1, <2>2, <2>3, NoneIsNoObject
       DEF MovedOf, Bit, CountsAreNatOf, OwningLabels, DyingLabels
  <2>5. p = o => weakCalls[o] > 0
    BY <1>1, HeldIsCounted
  <2>6. /\ weak'[o] = weak[o] - Bit(p = o)
        /\ p = o => (last <=> weak[o] = 1) /\ weak[o] > 0
        /\ strong'[o] = strong[o] /\ pointer'[o] = pointer[o] /\ object'[o] = object[o]
        /\ control'[o] = control[o] /\ dropped'[o] = dropped[o]
    BY <1>1 DEF RefTypeOK, Bit
  <2>7. /\ pointers'[o] = pointers[o] /\ raws'[o] = raws[o]
        /\ weakPointers'[o] = weakPointers[o]
    BY <1>1, SameCounts
  <2>8. /\ CountsAreNatOf(o) /\ CountsOf(o) /\ LifeOf(o)
        /\ strong[o] \in Nat /\ weak[o] \in Nat /\ dropped[o] \in Nat
    BY CountsAreNat DEF CountsMatch, LifeFollowsCounts, RefTypeOK
  <2>9. CountsOf(o)'
    <3>1. strong'[o] = pointers'[o] + raws'[o] + calls'[o] + dropped'[o]
      BY <2>4, <2>6, <2>7, <2>8 DEF CountsOf, CountsAreNatOf, Bit
    <3>2. weak'[o] = weakPointers'[o] + weakCalls'[o] + Bit(object'[o] = "live")
      BY <2>4, <2>6, <2>7, <2>8 DEF CountsOf, CountsAreNatOf, Bit
    <3> QED
      BY <3>1, <3>2 DEF CountsOf
  <2>10. LifeOf(o)'
    <3>1. CASE p = o /\ last
      BY <3>1, <2>4, <2>5, <2>6, <2>8 DEF CountsOf, CountsAreNatOf, LifeOf, Bit
    <3>2. CASE p = o /\ ~last
      BY <3>2, <2>4, <2>5, <2>6, <2>8 DEF CountsOf, CountsAreNatOf, LifeOf, Bit
    <3>3. CASE p # o
      BY <3>3, <2>4, <2>5, <2>6, <2>8 DEF CountsOf, CountsAreNatOf, LifeOf, Bit
    <3> QED
      BY <3>1, <3>2, <3>3
  <2> QED
    BY <2>9, <2>10
<1>4. LocksThroughWeak'
  BY <1>1 DEF LocksThroughWeak, LockLabels, RefTypeOK
<1> QED
  BY <1>2, <1>3, <1>4 DEF CountsMatch, LifeFollowsCounts

\* The load of a count after a release changes nothing.
LEMMA LateLoadKeeps ==
    ASSUME RefInv, NEW t \in Thread,
           LoadStrong(t) \/ LoadWeak(t), UNCHANGED dropped
    PROVE  RefInv'
<1> DEFINE p == target[t]
<1> USE DEF RefInv
<1>1. /\ pc[t] \in LateLoads
      /\ pc' = [pc EXCEPT ![t] = "idle"] /\ target' = [target EXCEPT ![t] = None]
      /\ UNCHANGED <<strong, weak, alive, pointer, object, control, sp, wp,
                     raw, seen, dropped>>
  BY DEF LoadStrong, LoadWeak, At, Goto, LateLoads, blockVars, localVars
<1>2. RefTypeOK'
  BY <1>1, NoneIsNoObject DEF RefTypeOK, PointerOrNull, Label, LateLoads
<1>3. ASSUME NEW o \in Object
      PROVE  CountsOf(o)' /\ LifeOf(o)'
  <2>1. \A v \in Thread : v # t => pc'[v] = pc[v] /\ target'[v] = target[v]
    BY <1>1 DEF RefTypeOK
  <2>2. MovedOf(t, o)
    BY <2>1, MovedCounts
  <2>3. target'[t] = None /\ pc'[t] = "idle" /\ CountsAreNatOf(o)
    BY <1>1, CountsAreNat DEF RefTypeOK
  <2>4. /\ calls'[o] = calls[o] /\ weakCalls'[o] = weakCalls[o]
        /\ dying'[o] = dying[o] /\ freeing'[o] = freeing[o]
    BY <1>1, <2>2, <2>3, NoneIsNoObject
       DEF MovedOf, Bit, CountsAreNatOf, OwningLabels, DyingLabels, LateLoads
  <2>5. /\ pointers'[o] = pointers[o] /\ raws'[o] = raws[o]
        /\ weakPointers'[o] = weakPointers[o]
    BY <1>1, SameCounts
  <2>6. CountsOf(o) /\ LifeOf(o)
    BY DEF CountsMatch, LifeFollowsCounts
  <2> QED
    BY <1>1, <2>4, <2>5, <2>6 DEF CountsOf, LifeOf
<1>4. LocksThroughWeak'
  BY <1>1 DEF LocksThroughWeak, LockLabels, RefTypeOK
<1> QED
  BY <1>2, <1>3, <1>4 DEF CountsMatch, LifeFollowsCounts

\* Only one thread frees a control block, and nothing refers to it.
LEMMA FreeControlKeeps ==
    ASSUME RefInv, NEW t \in Thread,
           FreeControl(t), UNCHANGED dropped
    PROVE  RefInv'
<1> DEFINE p == target[t]
<1> USE DEF RefInv
<1>1. /\ pc[t] = "freeControl" /\ p \in Object
      /\ control' = [control EXCEPT ![p] = "freed"]
      /\ pc' = [pc EXCEPT ![t] = "idle"] /\ target' = [target EXCEPT ![t] = None]
      /\ UNCHANGED <<strong, weak, alive, pointer, object, sp, wp, raw,
                     seen, dropped>>
  BY DEF FreeControl, At, Goto, RefTypeOK, PointerOrNull, localVars
<1>2. RefTypeOK'
  BY <1>1, NoneIsNoObject DEF RefTypeOK, PointerOrNull, Label, LateLoads
<1>3. ASSUME NEW o \in Object
      PROVE  CountsOf(o)' /\ LifeOf(o)'
  <2>1. \A v \in Thread : v # t => pc'[v] = pc[v] /\ target'[v] = target[v]
    BY <1>1 DEF RefTypeOK
  <2>2. MovedOf(t, o)
    BY <2>1, MovedCounts
  <2>3. /\ target'[t] = None
        /\ pc'[t] = "idle"
        /\ CountsAreNatOf(o)
    BY <1>1, CountsAreNat DEF RefTypeOK
  <2>4. /\ freeing'[o] = freeing[o] - Bit(p = o)
        /\ calls'[o] = calls[o] /\ weakCalls'[o] = weakCalls[o]
        /\ dying'[o] = dying[o]
    BY <1>1, <2>2, <2>3, NoneIsNoObject
       DEF MovedOf, Bit, CountsAreNatOf, OwningLabels, DyingLabels
  <2>5. p = o => freeing[o] > 0
    BY <1>1, HeldIsCounted
  <2>6. /\ p # o => control'[o] = control[o]
        /\ p = o => control'[o] = "freed"
        /\ strong'[o] = strong[o] /\ weak'[o] = weak[o] /\ pointer'[o] = pointer[o]
        /\ object'[o] = object[o] /\ dropped'[o] = dropped[o]
    BY <1>1 DEF RefTypeOK, Bit
  <2>7. /\ pointers'[o] = pointers[o] /\ raws'[o] = raws[o]
        /\ weakPointers'[o] = weakPointers[o]
    BY <1>1, SameCounts
  <2>8. /\ CountsAreNatOf(o) /\ CountsOf(o) /\ LifeOf(o)
        /\ strong[o] \in Nat /\ weak[o] \in Nat /\ dropped[o] \in Nat
    BY CountsAreNat DEF CountsMatch, LifeFollowsCounts, RefTypeOK
  <2>9. CountsOf(o)'
    <3>1. strong'[o] = pointers'[o] + raws'[o] + calls'[o] + dropped'[o]
      BY <2>4, <2>6, <2>7, <2>8 DEF CountsOf, CountsAreNatOf, Bit
    <3>2. weak'[o] = weakPointers'[o] + weakCalls'[o] + Bit(object'[o] = "live")
      BY <2>4, <2>6, <2>7, <2>8 DEF CountsOf, CountsAreNatOf, Bit
    <3> QED
      BY <3>1, <3>2 DEF CountsOf
  <2>10. LifeOf(o)'
    <3>1. CASE p = o
      BY <3>1, <2>4, <2>5, <2>6, <2>8 DEF CountsAreNatOf, LifeOf, Bit
    <3>2. CASE p # o
      BY <3>2, <2>4, <2>5, <2>6, <2>8 DEF CountsAreNatOf, LifeOf, Bit
    <3> QED
      BY <3>1, <3>2
  <2> QED
    BY <2>9, <2>10
<1>4. LocksThroughWeak'
  BY <1>1 DEF LocksThroughWeak, LockLabels, RefTypeOK
<1> QED
  BY <1>2, <1>3, <1>4 DEF CountsMatch, LifeFollowsCounts

\* Weak assignment: the strong pointer keeps the control block meanwhile.
LEMMA WeakAssignKeeps ==
    ASSUME RefInv, NEW t \in Thread, NEW s \in Slot,
           WeakAssign(t, s), UNCHANGED dropped
    PROVE  RefInv'
<1> DEFINE p == wp[t]
           q == sp[t][s]
<1> USE DEF RefInv
<1>1. /\ pc[t] = "idle" /\ target[t] = None /\ q \in Object /\ p \in PointerOrNull
      /\ weak' = [weak EXCEPT ![q] = @ + 1]
      /\ wp' = [wp EXCEPT ![t] = q]
      /\ pc' = [pc EXCEPT ![t] = IF p = None THEN "idle" ELSE "releaseWeak"]
      /\ target' = [target EXCEPT ![t] = p]
      /\ UNCHANGED <<strong, alive, pointer, object, control, sp, raw,
                     seen, dropped>>
  BY DEF WeakAssign, At, Drop, Added, RefTypeOK, PointerOrNull
<1>2. RefTypeOK'
  BY <1>1, NoneIsNoObject DEF RefTypeOK, PointerOrNull, Label, LateLoads
<1>3. ASSUME NEW o \in Object
      PROVE  CountsOf(o)' /\ LifeOf(o)'
  <2>1. \A v \in Thread : v # t => pc'[v] = pc[v] /\ target'[v] = target[v]
    BY <1>1 DEF RefTypeOK
  <2>2. MovedOf(t, o)
    BY <2>1, MovedCounts
  <2>3. /\ target'[t] = p
        /\ pc'[t] = (IF p = None THEN "idle" ELSE "releaseWeak")
        /\ CountsAreNatOf(o)
    BY <1>1, CountsAreNat DEF RefTypeOK
  <2>4. /\ weakCalls'[o] = weakCalls[o] + Bit(p = o)
        /\ calls'[o] = calls[o] /\ dying'[o] = dying[o]
        /\ freeing'[o] = freeing[o]
    BY <1>1, <2>2, <2>3, NoneIsNoObject
       DEF MovedOf, Bit, CountsAreNatOf, OwningLabels, DyingLabels
  <2>5. \A v \in Thread : v # t => wp'[v] = wp[v]
    BY <1>1 DEF RefTypeOK
  <2>6. weakPointers'[o] = weakPointers[o] - Bit(wp[t] = o) + Bit(wp'[t] = o)
    BY <2>5, WeakCounts
  <2>7. wp'[t] = q /\ weakPointers[o] \in Nat
    BY <1>1, CountsAreNat DEF RefTypeOK, CountsAreNatOf
  <2>8. weakPointers'[o] = weakPointers[o] - Bit(p = o) + Bit(q = o)
    BY <1>1, <2>6, <2>7, NoneIsNoObject DEF Bit
  <2>9. q = o => pointers[o] > 0
    BY <1>1, HeldIsCounted
  <2>10. /\ weak'[o] = weak[o] + Bit(q = o)
        /\ strong'[o] = strong[o] /\ pointer'[o] = pointer[o] /\ object'[o] = object[o]
        /\ control'[o] = control[o] /\ dropped'[o] = dropped[o]
    BY <1>1 DEF RefTypeOK, Bit
  <2>11. /\ pointers'[o] = pointers[o] /\ raws'[o] = raws[o]
    BY <1>1, SameCounts
  <2>12. /\ CountsAreNatOf(o) /\ CountsOf(o) /\ LifeOf(o)
        /\ strong[o] \in Nat /\ weak[o] \in Nat /\ dropped[o] \in Nat
    BY CountsAreNat DEF CountsMatch, LifeFollowsCounts, RefTypeOK
  <2>13. CountsOf(o)'
    <3>1. strong'[o] = pointers'[o] + raws'[o] + calls'[o] + dropped'[o]
      BY <2>4, <2>8, <2>10, <2>11, <2>12 DEF CountsOf, CountsAreNatOf, Bit
    <3>2. weak'[o] = weakPointers'[o] + weakCalls'[o] + Bit(object'[o] = "live")
      BY <2>4, <2>8, <2>10, <2>11, <2>12 DEF CountsOf, CountsAreNatOf, Bit
    <3> QED
      BY <3>1, <3>2 DEF CountsOf
  <2>14. LifeOf(o)'
    <3>1. CASE q = o
      BY <3>1, <2>4, <2>9, <2>10, <2>12 DEF CountsOf, CountsAreNatOf, LifeOf, Bit
    <3>2. CASE q # o
      BY <3>2, <2>4, <2>9, <2>10, <2>12 DEF CountsOf, CountsAreNatOf, LifeOf, Bit
    <3> QED
      BY <3>1, <3>2
  <2> QED
    BY <2>13, <2>14
<1>4. LocksThroughWeak'
  BY <1>1 DEF LocksThroughWeak, LockLabels, RefTypeOK
<1> QED
  BY <1>2, <1>3, <1>4 DEF CountsMatch, LifeFollowsCounts

\* A copy of a weak pointer for another thread.
LEMMA WeakCopyToKeeps ==
    ASSUME RefInv, NEW t \in Thread, NEW u \in Thread,
           WeakCopyTo(t, u), UNCHANGED dropped
    PROVE  RefInv'
<1> DEFINE p == wp[t]
<1> USE DEF RefInv
<1>1. /\ pc[u] = "idle" /\ p \in Object /\ wp[u] = None
      /\ weak' = [weak EXCEPT ![p] = @ + 1]
      /\ wp' = [wp EXCEPT ![u] = p]
      /\ UNCHANGED <<strong, alive, pointer, object, control, sp, raw,
                     seen, pc, target, dropped>>
  BY DEF WeakCopyTo, At, Added, RefTypeOK, PointerOrNull
<1>2. RefTypeOK'
  BY <1>1, NoneIsNoObject DEF RefTypeOK, PointerOrNull, Label, LateLoads
<1>3. ASSUME NEW o \in Object
      PROVE  CountsOf(o)' /\ LifeOf(o)'
  <2>1. \A v \in Thread : v # u => wp'[v] = wp[v]
    BY <1>1 DEF RefTypeOK
  <2>2. weakPointers'[o] = weakPointers[o] - Bit(wp[u] = o) + Bit(wp'[u] = o)
    BY <2>1, WeakCounts
  <2>3. wp'[u] = p /\ weakPointers[o] \in Nat
    BY <1>1, CountsAreNat DEF RefTypeOK, CountsAreNatOf
  <2>4. weakPointers'[o] = weakPointers[o] + Bit(p = o)
    BY <1>1, <2>2, <2>3, NoneIsNoObject DEF Bit
  <2>5. p = o => weakPointers[o] > 0
    BY <1>1, HeldIsCounted
  <2>6. /\ weak'[o] = weak[o] + Bit(p = o)
        /\ strong'[o] = strong[o] /\ pointer'[o] = pointer[o] /\ object'[o] = object[o]
        /\ control'[o] = control[o] /\ dropped'[o] = dropped[o]
    BY <1>1 DEF RefTypeOK, Bit
  <2>7. /\ pointers'[o] = pointers[o] /\ calls'[o] = calls[o]
        /\ weakCalls'[o] = weakCalls[o] /\ dying'[o] = dying[o]
        /\ freeing'[o] = freeing[o] /\ raws'[o] = raws[o]
    BY <1>1, SameCounts
  <2>8. /\ CountsAreNatOf(o) /\ CountsOf(o) /\ LifeOf(o)
        /\ strong[o] \in Nat /\ weak[o] \in Nat /\ dropped[o] \in Nat
    BY CountsAreNat DEF CountsMatch, LifeFollowsCounts, RefTypeOK
  <2>9. CountsOf(o)'
    <3>1. strong'[o] = pointers'[o] + raws'[o] + calls'[o] + dropped'[o]
      BY <2>4, <2>6, <2>7, <2>8 DEF CountsOf, CountsAreNatOf, Bit
    <3>2. weak'[o] = weakPointers'[o] + weakCalls'[o] + Bit(object'[o] = "live")
      BY <2>4, <2>6, <2>7, <2>8 DEF CountsOf, CountsAreNatOf, Bit
    <3> QED
      BY <3>1, <3>2 DEF CountsOf
  <2>10. LifeOf(o)'
    <3>1. CASE p = o
      BY <3>1, <2>5, <2>6, <2>7, <2>8 DEF CountsOf, CountsAreNatOf, LifeOf, Bit
    <3>2. CASE p # o
      BY <3>2, <2>5, <2>6, <2>7, <2>8 DEF CountsOf, CountsAreNatOf, LifeOf, Bit
    <3> QED
      BY <3>1, <3>2
  <2> QED
    BY <2>9, <2>10
<1>4. LocksThroughWeak'
  BY <1>1 DEF LocksThroughWeak, LockLabels, RefTypeOK
<1> QED
  BY <1>2, <1>3, <1>4 DEF CountsMatch, LifeFollowsCounts

\* The reference of a weak pointer becomes a ReleaseWeak call.
LEMMA WeakResetKeeps ==
    ASSUME RefInv, NEW t \in Thread,
           WeakReset(t), UNCHANGED dropped
    PROVE  RefInv'
<1> DEFINE p == wp[t]
<1> USE DEF RefInv
<1>1. /\ pc[t] = "idle" /\ target[t] = None /\ p \in Object
      /\ wp' = [wp EXCEPT ![t] = None]
      /\ pc' = [pc EXCEPT ![t] = "releaseWeak"] /\ target' = [target EXCEPT ![t] = p]
      /\ UNCHANGED <<strong, weak, alive, pointer, object, control, sp,
                     raw, seen, dropped>>
  BY DEF WeakReset, At, Drop, RefTypeOK, PointerOrNull, blockVars
<1>2. RefTypeOK'
  BY <1>1, NoneIsNoObject DEF RefTypeOK, PointerOrNull, Label, LateLoads
<1>3. ASSUME NEW o \in Object
      PROVE  CountsOf(o)' /\ LifeOf(o)'
  <2>1. \A v \in Thread : v # t => pc'[v] = pc[v] /\ target'[v] = target[v]
    BY <1>1 DEF RefTypeOK
  <2>2. MovedOf(t, o)
    BY <2>1, MovedCounts
  <2>3. /\ target'[t] = p
        /\ pc'[t] = "releaseWeak"
        /\ CountsAreNatOf(o)
    BY <1>1, CountsAreNat DEF RefTypeOK
  <2>4. /\ weakCalls'[o] = weakCalls[o] + Bit(p = o)
        /\ calls'[o] = calls[o] /\ dying'[o] = dying[o]
        /\ freeing'[o] = freeing[o]
    BY <1>1, <2>2, <2>3, NoneIsNoObject
       DEF MovedOf, Bit, CountsAreNatOf, OwningLabels, DyingLabels
  <2>5. \A v \in Thread : v # t => wp'[v] = wp[v]
    BY <1>1 DEF RefTypeOK
  <2>6. weakPointers'[o] = weakPointers[o] - Bit(wp[t] = o) + Bit(wp'[t] = o)
    BY <2>5, WeakCounts
  <2>7. wp'[t] = None /\ weakPointers[o] \in Nat
    BY <1>1, CountsAreNat DEF RefTypeOK, CountsAreNatOf
  <2>8. weakPointers'[o] = weakPointers[o] - Bit(p = o)
    BY <1>1, <2>6, <2>7, NoneIsNoObject DEF Bit
  <2>9. /\ strong'[o] = strong[o] /\ weak'[o] = weak[o] /\ pointer'[o] = pointer[o]
        /\ object'[o] = object[o] /\ control'[o] = control[o] /\ dropped'[o] = dropped[o]
    BY <1>1 DEF RefTypeOK, Bit
  <2>10. /\ pointers'[o] = pointers[o] /\ raws'[o] = raws[o]
    BY <1>1, SameCounts
  <2>11. /\ CountsAreNatOf(o) /\ CountsOf(o) /\ LifeOf(o)
        /\ strong[o] \in Nat /\ weak[o] \in Nat /\ dropped[o] \in Nat
    BY CountsAreNat DEF CountsMatch, LifeFollowsCounts, RefTypeOK
  <2>12. CountsOf(o)'
    <3>1. strong'[o] = pointers'[o] + raws'[o] + calls'[o] + dropped'[o]
      BY <2>4, <2>8, <2>9, <2>10, <2>11 DEF CountsOf, CountsAreNatOf, Bit
    <3>2. weak'[o] = weakPointers'[o] + weakCalls'[o] + Bit(object'[o] = "live")
      BY <2>4, <2>8, <2>9, <2>10, <2>11 DEF CountsOf, CountsAreNatOf, Bit
    <3> QED
      BY <3>1, <3>2 DEF CountsOf
  <2>13. LifeOf(o)'
    BY <2>4, <2>9, <2>11 DEF CountsOf, CountsAreNatOf, LifeOf, Bit
  <2> QED
    BY <2>12, <2>13
<1>4. LocksThroughWeak'
  BY <1>1 DEF LocksThroughWeak, LockLabels, RefTypeOK
<1> QED
  BY <1>2, <1>3, <1>4 DEF CountsMatch, LifeFollowsCounts

\* lock() starts on the control block of the thread's own weak pointer.
LEMMA LockKeeps ==
    ASSUME RefInv, NEW t \in Thread,
           Lock(t), UNCHANGED dropped
    PROVE  RefInv'
<1> DEFINE p == wp[t]
<1> USE DEF RefInv
<1>1. /\ pc[t] = "idle" /\ target[t] = None /\ p \in Object
      /\ pc' = [pc EXCEPT ![t] = "lockAlive"] /\ target' = [target EXCEPT ![t] = p]
      /\ UNCHANGED <<strong, weak, alive, pointer, object, control, sp, wp,
                     raw, seen, dropped>>
  BY DEF Lock, At, Drop, RefTypeOK, PointerOrNull, blockVars, localVars
<1>2. RefTypeOK'
  BY <1>1, NoneIsNoObject DEF RefTypeOK, PointerOrNull, Label, LateLoads
<1>3. ASSUME NEW o \in Object
      PROVE  CountsOf(o)' /\ LifeOf(o)'
  <2>1. \A v \in Thread : v # t => pc'[v] = pc[v] /\ target'[v] = target[v]
    BY <1>1 DEF RefTypeOK
  <2>2. MovedOf(t, o)
    BY <2>1, MovedCounts
  <2>3. /\ target'[t] = p
        /\ pc'[t] = "lockAlive"
        /\ CountsAreNatOf(o)
    BY <1>1, CountsAreNat DEF RefTypeOK
  <2>4. /\ calls'[o] = calls[o] /\ weakCalls'[o] = weakCalls[o]
        /\ dying'[o] = dying[o] /\ freeing'[o] = freeing[o]
    BY <1>1, <2>2, <2>3, NoneIsNoObject
       DEF MovedOf, Bit, CountsAreNatOf, OwningLabels, DyingLabels
  <2>5. /\ strong'[o] = strong[o] /\ weak'[o] = weak[o] /\ pointer'[o] = pointer[o]
        /\ object'[o] = object[o] /\ control'[o] = control[o] /\ dropped'[o] = dropped[o]
    BY <1>1 DEF RefTypeOK, Bit
  <2>6. /\ pointers'[o] = pointers[o] /\ raws'[o] = raws[o]
        /\ weakPointers'[o] = weakPointers[o]
    BY <1>1, SameCounts
  <2>7. /\ CountsAreNatOf(o) /\ CountsOf(o) /\ LifeOf(o)
        /\ strong[o] \in Nat /\ weak[o] \in Nat /\ dropped[o] \in Nat
    BY CountsAreNat DEF CountsMatch, LifeFollowsCounts, RefTypeOK
  <2>8. CountsOf(o)'
    <3>1. strong'[o] = pointers'[o] + raws'[o] + calls'[o] + dropped'[o]
      BY <2>4, <2>5, <2>6, <2>7 DEF CountsOf, CountsAreNatOf, Bit
    <3>2. weak'[o] = weakPointers'[o] + weakCalls'[o] + Bit(object'[o] = "live")
      BY <2>4, <2>5, <2>6, <2>7 DEF CountsOf, CountsAreNatOf, Bit
    <3> QED
      BY <3>1, <3>2 DEF CountsOf
  <2>9. LifeOf(o)'
    BY <2>4, <2>5, <2>7 DEF CountsOf, CountsAreNatOf, LifeOf, Bit
  <2> QED
    BY <2>8, <2>9
<1>4. LocksThroughWeak'
  BY <1>1 DEF LocksThroughWeak, LockLabels, RefTypeOK
<1> QED
  BY <1>2, <1>3, <1>4 DEF CountsMatch, LifeFollowsCounts

\* It gives up when the object is dead.
LEMMA LockAliveKeeps ==
    ASSUME RefInv, NEW t \in Thread,
           LockAlive(t), UNCHANGED dropped
    PROVE  RefInv'
<1> DEFINE p == target[t]
<1> USE DEF RefInv
<1>1. /\ pc[t] = "lockAlive" /\ p \in Object /\ wp[t] = p
      /\ pc' = [pc EXCEPT ![t] = IF alive[p] THEN "lockLoad" ELSE "idle"]
      /\ target' = [target EXCEPT ![t] = IF alive[p] THEN p ELSE None]
      /\ UNCHANGED <<strong, weak, alive, pointer, object, control, sp, wp,
                     raw, seen, dropped>>
  BY DEF LockAlive, At, Goto, RefTypeOK, PointerOrNull, blockVars, localVars,
         LocksThroughWeak, LockLabels
<1>2. RefTypeOK'
  BY <1>1, NoneIsNoObject DEF RefTypeOK, PointerOrNull, Label, LateLoads
<1>3. ASSUME NEW o \in Object
      PROVE  CountsOf(o)' /\ LifeOf(o)'
  <2>1. \A v \in Thread : v # t => pc'[v] = pc[v] /\ target'[v] = target[v]
    BY <1>1 DEF RefTypeOK
  <2>2. MovedOf(t, o)
    BY <2>1, MovedCounts
  <2>3. /\ target'[t] = (IF alive[p] THEN p ELSE None)
        /\ pc'[t] = (IF alive[p] THEN "lockLoad" ELSE "idle")
        /\ CountsAreNatOf(o)
    BY <1>1, CountsAreNat DEF RefTypeOK
  <2>4. /\ calls'[o] = calls[o] /\ weakCalls'[o] = weakCalls[o]
        /\ dying'[o] = dying[o] /\ freeing'[o] = freeing[o]
    BY <1>1, <2>2, <2>3, NoneIsNoObject
       DEF MovedOf, Bit, CountsAreNatOf, OwningLabels, DyingLabels
  <2>5. /\ strong'[o] = strong[o] /\ weak'[o] = weak[o] /\ pointer'[o] = pointer[o]
        /\ object'[o] = object[o] /\ control'[o] = control[o] /\ dropped'[o] = dropped[o]
    BY <1>1 DEF RefTypeOK, Bit
  <2>6. /\ pointers'[o] = pointers[o] /\ raws'[o] = raws[o]
        /\ weakPointers'[o] = weakPointers[o]
    BY <1>1, SameCounts
  <2>7. /\ CountsAreNatOf(o) /\ CountsOf(o) /\ LifeOf(o)
        /\ strong[o] \in Nat /\ weak[o] \in Nat /\ dropped[o] \in Nat
    BY CountsAreNat DEF CountsMatch, LifeFollowsCounts, RefTypeOK
  <2>8. CountsOf(o)'
    <3>1. strong'[o] = pointers'[o] + raws'[o] + calls'[o] + dropped'[o]
      BY <2>4, <2>5, <2>6, <2>7 DEF CountsOf, CountsAreNatOf, Bit
    <3>2. weak'[o] = weakPointers'[o] + weakCalls'[o] + Bit(object'[o] = "live")
      BY <2>4, <2>5, <2>6, <2>7 DEF CountsOf, CountsAreNatOf, Bit
    <3> QED
      BY <3>1, <3>2 DEF CountsOf
  <2>9. LifeOf(o)'
    BY <2>4, <2>5, <2>7 DEF CountsOf, CountsAreNatOf, LifeOf, Bit
  <2> QED
    BY <2>8, <2>9
<1>4. LocksThroughWeak'
  BY <1>1 DEF LocksThroughWeak, LockLabels, RefTypeOK
<1> QED
  BY <1>2, <1>3, <1>4 DEF CountsMatch, LifeFollowsCounts

\* The count it has read is not 0 when it goes on to exchange it.
LEMMA RetryKeeps ==
    ASSUME RefInv, NEW t \in Thread,
           pc[t] \in {"lockLoad", "lockCas"}, Retry(t),
           UNCHANGED <<strong, weak, alive, pointer, object, control, sp,
                       wp, raw, dropped>>
    PROVE  RefInv'
<1> DEFINE p == target[t]
           go == strong[p] # 0
<1> USE DEF RefInv
<1>1. /\ pc[t] \in {"lockLoad", "lockCas"} /\ p \in Object /\ wp[t] = p
      /\ pc' = [pc EXCEPT ![t] = IF go THEN "lockCas" ELSE "idle"]
      /\ target' = [target EXCEPT ![t] = IF go THEN p ELSE None]
      /\ seen' = [seen EXCEPT ![t] = strong[p]]
      /\ UNCHANGED <<strong, weak, alive, pointer, object, control, sp, wp,
                     raw, dropped>>
  BY DEF Retry, Goto, RefTypeOK, PointerOrNull, LocksThroughWeak, LockLabels
<1>2. RefTypeOK'
  BY <1>1, NoneIsNoObject DEF RefTypeOK, PointerOrNull, Label, LateLoads
<1>3. ASSUME NEW o \in Object
      PROVE  CountsOf(o)' /\ LifeOf(o)'
  <2>1. \A v \in Thread : v # t => pc'[v] = pc[v] /\ target'[v] = target[v]
    BY <1>1 DEF RefTypeOK
  <2>2. MovedOf(t, o)
    BY <2>1, MovedCounts
  <2>3. /\ target'[t] = (IF go THEN p ELSE None)
        /\ pc'[t] = (IF go THEN "lockCas" ELSE "idle")
        /\ CountsAreNatOf(o)
    BY <1>1, CountsAreNat DEF RefTypeOK
  <2>4. /\ calls'[o] = calls[o] /\ weakCalls'[o] = weakCalls[o]
        /\ dying'[o] = dying[o] /\ freeing'[o] = freeing[o]
    BY <1>1, <2>2, <2>3, NoneIsNoObject
       DEF MovedOf, Bit, CountsAreNatOf, OwningLabels, DyingLabels
  <2>5. /\ strong'[o] = strong[o] /\ weak'[o] = weak[o] /\ pointer'[o] = pointer[o]
        /\ object'[o] = object[o] /\ control'[o] = control[o] /\ dropped'[o] = dropped[o]
    BY <1>1 DEF RefTypeOK, Bit
  <2>6. /\ pointers'[o] = pointers[o] /\ raws'[o] = raws[o]
        /\ weakPointers'[o] = weakPointers[o]
    BY <1>1, SameCounts
  <2>7. /\ CountsAreNatOf(o) /\ CountsOf(o) /\ LifeOf(o)
        /\ strong[o] \in Nat /\ weak[o] \in Nat /\ dropped[o] \in Nat
    BY CountsAreNat DEF CountsMatch, LifeFollowsCounts, RefTypeOK
  <2>8. CountsOf(o)'
    <3>1. strong'[o] = pointers'[o] + raws'[o] + calls'[o] + dropped'[o]
      BY <2>4, <2>5, <2>6, <2>7 DEF CountsOf, CountsAreNatOf, Bit
    <3>2. weak'[o] = weakPointers'[o] + weakCalls'[o] + Bit(object'[o] = "live")
      BY <2>4, <2>5, <2>6, <2>7 DEF CountsOf, CountsAreNatOf, Bit
    <3> QED
      BY <3>1, <3>2 DEF CountsOf
  <2>9. LifeOf(o)'
    BY <2>4, <2>5, <2>7 DEF CountsOf, CountsAreNatOf, LifeOf, Bit
  <2> QED
    BY <2>8, <2>9
<1>4. LocksThroughWeak'
  BY <1>1 DEF LocksThroughWeak, LockLabels, RefTypeOK
<1> QED
  BY <1>2, <1>3, <1>4 DEF CountsMatch, LifeFollowsCounts

\* A successful exchange: the count was not 0, so the object is alive.
LEMMA ExchangeKeeps ==
    ASSUME RefInv, NEW t \in Thread,
           LockCas(t), strong[target[t]] = seen[t], UNCHANGED dropped
    PROVE  RefInv'
<1> DEFINE p == target[t]
<1> USE DEF RefInv
<1>1. /\ pc[t] = "lockCas" /\ p \in Object /\ wp[t] = p /\ strong[p] # 0
      /\ strong' = [strong EXCEPT ![p] = @ + 1]
      /\ pc' = [pc EXCEPT ![t] = "lockPointer"]
      /\ seen' = [seen EXCEPT ![t] = 0]
      /\ UNCHANGED <<weak, alive, pointer, object, control, sp, wp, raw,
                     target, dropped>>
  BY DEF LockCas, At, Goto, RefTypeOK, PointerOrNull, LocksThroughWeak, LockLabels
<1>2. RefTypeOK'
  BY <1>1, NoneIsNoObject DEF RefTypeOK, PointerOrNull, Label, LateLoads
<1>3. ASSUME NEW o \in Object
      PROVE  CountsOf(o)' /\ LifeOf(o)'
  <2>1. \A v \in Thread : v # t => pc'[v] = pc[v] /\ target'[v] = target[v]
    BY <1>1 DEF RefTypeOK
  <2>2. MovedOf(t, o)
    BY <2>1, MovedCounts
  <2>3. /\ target'[t] = p
        /\ pc'[t] = "lockPointer"
        /\ CountsAreNatOf(o)
    BY <1>1, CountsAreNat DEF RefTypeOK
  <2>4. /\ calls'[o] = calls[o] + Bit(p = o)
        /\ weakCalls'[o] = weakCalls[o] /\ dying'[o] = dying[o]
        /\ freeing'[o] = freeing[o]
    BY <1>1, <2>2, <2>3, NoneIsNoObject
       DEF MovedOf, Bit, CountsAreNatOf, OwningLabels, DyingLabels
  <2>5. /\ strong'[o] = strong[o] + Bit(p = o)
        /\ p = o => strong[o] # 0
        /\ weak'[o] = weak[o] /\ pointer'[o] = pointer[o] /\ object'[o] = object[o]
        /\ control'[o] = control[o] /\ dropped'[o] = dropped[o]
    BY <1>1 DEF RefTypeOK, Bit
  <2>6. /\ pointers'[o] = pointers[o] /\ raws'[o] = raws[o]
        /\ weakPointers'[o] = weakPointers[o]
    BY <1>1, SameCounts
  <2>7. /\ CountsAreNatOf(o) /\ CountsOf(o) /\ LifeOf(o)
        /\ strong[o] \in Nat /\ weak[o] \in Nat /\ dropped[o] \in Nat
    BY CountsAreNat DEF CountsMatch, LifeFollowsCounts, RefTypeOK
  <2>8. CountsOf(o)'
    <3>1. strong'[o] = pointers'[o] + raws'[o] + calls'[o] + dropped'[o]
      BY <2>4, <2>5, <2>6, <2>7 DEF CountsOf, CountsAreNatOf, Bit
    <3>2. weak'[o] = weakPointers'[o] + weakCalls'[o] + Bit(object'[o] = "live")
      BY <2>4, <2>5, <2>6, <2>7 DEF CountsOf, CountsAreNatOf, Bit
    <3> QED
      BY <3>1, <3>2 DEF CountsOf
  <2>9. LifeOf(o)'
    BY <2>4, <2>5, <2>7 DEF CountsOf, CountsAreNatOf, LifeOf, Bit
  <2> QED
    BY <2>8, <2>9
<1>4. LocksThroughWeak'
  BY <1>1 DEF LocksThroughWeak, LockLabels, RefTypeOK
<1> QED
  BY <1>2, <1>3, <1>4 DEF CountsMatch, LifeFollowsCounts

\* What lock() has counted is alive, so its object_ptr is never null here.
LEMMA LockPointerKeeps ==
    ASSUME RefInv, NEW t \in Thread, NEW d \in Slot,
           LockPointer(t), sp[t][d] = None,
           sp' = [sp EXCEPT ![t][d] = target[t]], UNCHANGED <<strong, dropped>>
    PROVE  RefInv'
<1> DEFINE p == target[t]
<1> USE DEF RefInv
<1>1. /\ pc[t] = "lockPointer" /\ p \in Object /\ sp[t][d] = None
      /\ sp' = [sp EXCEPT ![t][d] = p]
      /\ pc' = [pc EXCEPT ![t] = "idle"] /\ target' = [target EXCEPT ![t] = None]
      /\ UNCHANGED <<strong, weak, alive, pointer, object, control, wp,
                     raw, seen, dropped>>
  BY DEF LockPointer, At, Goto, RefTypeOK, PointerOrNull, LocksThroughWeak, LockLabels
<1>2. RefTypeOK'
  BY <1>1, NoneIsNoObject DEF RefTypeOK, PointerOrNull, Label, LateLoads
<1>3. ASSUME NEW o \in Object
      PROVE  CountsOf(o)' /\ LifeOf(o)'
  <2>1. \A v \in Thread, e \in Slot : v # t \/ e # d => sp'[v][e] = sp[v][e]
    BY <1>1 DEF RefTypeOK
  <2>2. pointers'[o] = pointers[o] - Bit(sp[t][d] = o) + Bit(sp'[t][d] = o)
    BY <2>1, AssignedCounts
  <2>3. sp'[t][d] = p /\ pointers[o] \in Nat
    BY <1>1, CountsAreNat DEF RefTypeOK, CountsAreNatOf
  <2>4. pointers'[o] = pointers[o] + Bit(p = o)
    BY <1>1, <2>2, <2>3, NoneIsNoObject DEF Bit
  <2>5. \A v \in Thread : v # t => pc'[v] = pc[v] /\ target'[v] = target[v]
    BY <1>1 DEF RefTypeOK
  <2>6. MovedOf(t, o)
    BY <2>5, MovedCounts
  <2>7. /\ target'[t] = None
        /\ pc'[t] = "idle"
        /\ CountsAreNatOf(o)
    BY <1>1, CountsAreNat DEF RefTypeOK
  <2>8. /\ calls'[o] = calls[o] - Bit(p = o)
        /\ weakCalls'[o] = weakCalls[o] /\ dying'[o] = dying[o]
        /\ freeing'[o] = freeing[o]
    BY <1>1, <2>6, <2>7, NoneIsNoObject
       DEF MovedOf, Bit, CountsAreNatOf, OwningLabels, DyingLabels
  <2>9. /\ strong'[o] = strong[o] /\ weak'[o] = weak[o] /\ pointer'[o] = pointer[o]
        /\ object'[o] = object[o] /\ control'[o] = control[o] /\ dropped'[o] = dropped[o]
    BY <1>1 DEF RefTypeOK, Bit
  <2>10. /\ raws'[o] = raws[o] /\ weakPointers'[o] = weakPointers[o]
    BY <1>1, SameCounts
  <2>11. /\ CountsAreNatOf(o) /\ CountsOf(o) /\ LifeOf(o)
        /\ strong[o] \in Nat /\ weak[o] \in Nat /\ dropped[o] \in Nat
    BY CountsAreNat DEF CountsMatch, LifeFollowsCounts, RefTypeOK
  <2>12. CountsOf(o)'
    <3>1. strong'[o] = pointers'[o] + raws'[o] + calls'[o] + dropped'[o]
      BY <2>4, <2>8, <2>9, <2>10, <2>11 DEF CountsOf, CountsAreNatOf, Bit
    <3>2. weak'[o] = weakPointers'[o] + weakCalls'[o] + Bit(object'[o] = "live")
      BY <2>4, <2>8, <2>9, <2>10, <2>11 DEF CountsOf, CountsAreNatOf, Bit
    <3> QED
      BY <3>1, <3>2 DEF CountsOf
  <2>13. LifeOf(o)'
    BY <2>8, <2>9, <2>11 DEF CountsOf, CountsAreNatOf, LifeOf, Bit
  <2> QED
    BY <2>12, <2>13
<1>4. LocksThroughWeak'
  BY <1>1 DEF LocksThroughWeak, LockLabels, RefTypeOK
<1> QED
  BY <1>2, <1>3, <1>4 DEF CountsMatch, LifeFollowsCounts

\* The two outcomes of the compare-and-exchange.
LEMMA LockCasKeeps ==
    ASSUME RefInv, NEW t \in Thread, LockCas(t), UNCHANGED dropped
    PROVE  RefInv'
<1>1. CASE strong[target[t]] = seen[t]
  BY <1>1, ExchangeKeeps
<1>2. CASE strong[target[t]] # seen[t]
  BY <1>2, RetryKeeps DEF LockCas, At
<1> QED
  BY <1>1, <1>2

\* Reading the count for the first time.
LEMMA LockLoadKeeps ==
    ASSUME RefInv, NEW t \in Thread, LockLoad(t), UNCHANGED dropped
    PROVE  RefInv'
  BY RetryKeeps DEF LockLoad, At, blockVars

\* The other outcome of LockPointer, a null object_ptr, does not happen.
LEMMA LockPointerAlways ==
    ASSUME RefInv, NEW t \in Thread, LockPointer(t), UNCHANGED dropped
    PROVE  RefInv'
<1>1. pointer[target[t]]
  BY ReleasedIsCounted DEF LockPointer, At, OwningLabels
<1>2. PICK d \in Slot : sp[t][d] = None /\ sp' = [sp EXCEPT ![t][d] = target[t]]
  BY <1>1 DEF LockPointer
<1> QED
  BY <1>1, <1>2, LockPointerKeeps DEF LockPointer

-----------------------------------------------------------------------------

\* Nothing is counted at first.
LEMMA RefInit == Init => RefInv
<1> SUFFICES ASSUME Init PROVE RefInv
  OBVIOUS
<1>1. RefTypeOK /\ LocksThroughWeak
  BY DEF Init, RefTypeOK, LocksThroughWeak, LockLabels, Label, LateLoads, PointerOrNull
<1>2. ASSUME NEW o \in Object
      PROVE  /\ pointers[o] = 0 /\ raws[o] = 0 /\ calls[o] = 0
             /\ weakPointers[o] = 0 /\ weakCalls[o] = 0
             /\ dying[o] = 0 /\ freeing[o] = 0
  <2>1. \A td \in Thread \X Slot : sp[td[1]][td[2]] # o
    BY NoneIsNoObject DEF Init
  <2>2. Pointers(sp, o) = {} /\ Holders(raw, o) = {} /\ Holders(wp, o) = {}
    BY <2>1, NoneIsNoObject DEF Init, Pointers, Holders
  <2>3. \A labels : Busy(target, pc, o, labels) = {}
    BY NoneIsNoObject DEF Init, Busy
  <2> QED
    BY <2>2, <2>3, FS_EmptySet
       DEF pointers, raws, calls, weakPointers, weakCalls, dying, freeing
<1>3. CountsMatch
  BY <1>2 DEF CountsMatch, CountsOf, Init, Bit
<1>4. LifeFollowsCounts
  BY <1>2 DEF LifeFollowsCounts, LifeOf, Init
<1> QED
  BY <1>1, <1>3, <1>4 DEF RefInv

\* Every step of every thread keeps the invariant.
LEMMA RefNext == RefInv /\ [Next]_vars => RefInv'
<1> SUFFICES ASSUME RefInv, [Next]_vars PROVE RefInv'
  OBVIOUS
<1>1. ASSUME NEW t \in Thread, Call(t), UNCHANGED dropped
      PROVE  RefInv'
  <2>1. CASE \E d \in Slot : Reset(t, d) \/ Detach(t, d) \/ Attach(t, d) \/ WeakAssign(t, d)
    BY <1>1, <2>1, ResetKeeps, DetachKeeps, AttachKeeps, WeakAssignKeeps
  <2>2. CASE \E d \in Slot, o \in Object : Create(t, d, o)
    BY <1>1, <2>2, CreateKeeps
  <2>3. CASE \E d, s \in Slot : CopyAssign(t, d, s) \/ MoveAssign(t, d, s)
    BY <1>1, <2>3, CopyAssignKeeps, MoveAssignKeeps
  <2>4. CASE \E u \in Thread, s, d \in Slot : CopyTo(t, s, u, d)
    BY <1>1, <2>4, CopyToKeeps
  <2>5. CASE (\E u \in Thread : WeakCopyTo(t, u)) \/ WeakReset(t) \/ Lock(t)
    BY <1>1, <2>5, WeakCopyToKeeps, WeakResetKeeps, LockKeeps
  <2> QED
    BY <1>1, <2>1, <2>2, <2>3, <2>4, <2>5 DEF Call
<1>2. ASSUME NEW t \in Thread, Step(t), UNCHANGED dropped
      PROVE  RefInv'
  <2>4. CASE LoadStrong(t) \/ LoadWeak(t)
    BY <1>2, <2>4, LateLoadKeeps
  <2>1. CASE Decrement(t) \/ MarkDead(t) \/ ClearPointer(t) \/ Destroy(t)
    BY <1>2, <2>1, DecrementKeeps, MarkDeadKeeps, ClearPointerKeeps, DestroyKeeps
  <2>2. CASE ReleaseWeak(t) \/ FreeControl(t)
    BY <1>2, <2>2, ReleaseWeakKeeps, FreeControlKeeps
  <2>3. CASE LockAlive(t) \/ LockLoad(t) \/ LockCas(t) \/ LockPointer(t)
    BY <1>2, <2>3, LockAliveKeeps, LockLoadKeeps, LockCasKeeps, LockPointerAlways
  <2> QED
    BY <1>2, <2>1, <2>2, <2>3, <2>4 DEF Step
<1>3. ASSUME NEW t \in Thread, NEW d \in Slot, AttachSame(t, d)
      PROVE  RefInv'
  BY <1>3, AttachSameKeeps
<1>4. CASE UNCHANGED vars
  <2>1. RefTypeOK' /\ LocksThroughWeak'
    BY <1>4 DEF vars, blockVars, localVars, RefInv, RefTypeOK, LocksThroughWeak
  <2>2. /\ pointers' = pointers /\ raws' = raws /\ weakPointers' = weakPointers
        /\ calls' = calls /\ weakCalls' = weakCalls
        /\ dying' = dying /\ freeing' = freeing
    BY <1>4, SameCounts DEF vars, localVars
  <2>3. CountsMatch' /\ LifeFollowsCounts'
    BY <1>4, <2>2 DEF vars, blockVars, localVars, RefInv, CountsMatch, CountsOf,
                      LifeFollowsCounts, LifeOf
  <2> QED
    BY <2>1, <2>3 DEF RefInv
<1> QED
  BY <1>1, <1>2, <1>3, <1>4 DEF Next

\* What the users see follows from what the counters count.
LEMMA RefPromises == RefInv => HeldStaysAlive /\ ControlOutlivesWeak /\ NothingLeaks
<1> SUFFICES ASSUME RefInv PROVE HeldStaysAlive /\ ControlOutlivesWeak /\ NothingLeaks
  OBVIOUS
<1>1. ASSUME NEW o \in Object
      PROVE  /\ CountsAreNatOf(o) /\ CountsOf(o) /\ LifeOf(o)
             /\ strong[o] \in Nat /\ weak[o] \in Nat /\ dropped[o] \in Nat
  BY CountsAreNat DEF RefInv, CountsMatch, LifeFollowsCounts, RefTypeOK
<1>2. ASSUME NEW o \in Object
      PROVE  Owners(o) # {} <=> pointers[o] + raws[o] + calls[o] > 0
  <2>1. Owners(o) # {} <=> \/ Pointers(sp, o) # {} \/ Holders(raw, o) # {}
                           \/ Busy(target, pc, o, OwningLabels) # {}
    <3> DEFINE A == Pointers(sp, o)
               B == Holders(raw, o)
               C == Busy(target, pc, o, OwningLabels)
    <3>1. Owners(o) = ({"pointer"} \X A) \cup ({"raw"} \X B) \cup ({"call"} \X C)
      BY DEF Owners, Pointers, Holders, Busy, OwningLabels
    <3> HIDE DEF A, B, C
    <3>2. ASSUME Owners(o) # {}
          PROVE  A # {} \/ B # {} \/ C # {}
      BY <3>1, <3>2
    <3>3. /\ \A a \in A : <<"pointer", a>> \in Owners(o)
          /\ \A a \in B : <<"raw", a>> \in Owners(o)
          /\ \A a \in C : <<"call", a>> \in Owners(o)
      BY <3>1
    <3>4. A # {} \/ B # {} \/ C # {} => Owners(o) # {}
      BY <3>3
    <3> QED
      BY <3>2, <3>4 DEF A, B, C
  <2>2. \A S : IsFiniteSet(S) => Cardinality(S) \in Nat /\ (S # {} <=> Cardinality(S) > 0)
    BY FS_EmptySet, FS_CardinalityType
  <2>3. /\ Pointers(sp, o) # {} <=> pointers[o] > 0
        /\ Holders(raw, o) # {} <=> raws[o] > 0
        /\ Busy(target, pc, o, OwningLabels) # {} <=> calls[o] > 0
    BY <2>2, CountedAreFinite DEF pointers, raws, calls
  <2> QED
    BY <2>1, <2>3, <1>1 DEF CountsAreNatOf
<1>3. HeldStaysAlive
  BY <1>1, <1>2 DEF HeldStaysAlive, CountsOf, CountsAreNatOf, LifeOf
<1>4. ASSUME NEW o \in Object
      PROVE  /\ object[o] = "live" \/ (\E t \in Thread : wp[t] = o) => control[o] = "live"
             /\ \A t \in Users(o) : control[o] = "live"
  <2>1. object[o] = "live" => control[o] = "live"
    BY <1>1 DEF CountsOf, CountsAreNatOf, LifeOf, Bit
  <2>2. ASSUME NEW t \in Thread, wp[t] = o
        PROVE  control[o] = "live"
    <3>1. weakPointers[o] > 0
      BY <2>2, HeldIsCounted
    <3>2. weak[o] > 0
      BY <3>1, <1>1 DEF CountsOf, CountsAreNatOf, Bit
    <3> QED
      BY <3>2, <1>1 DEF LifeOf
  <2>3. ASSUME NEW t \in Users(o)
        PROVE  control[o] = "live"
    <3>1. t \in Thread /\ target[t] = o /\ pc[t] \in Label \ (LateLoads \cup {"idle"})
      BY <2>3 DEF Users, RefInv, RefTypeOK
    <3>2. CASE pc[t] \in LockLabels
      BY <3>1, <3>2, <2>2 DEF RefInv, LocksThroughWeak
    <3>3. CASE pc[t] \in OwningLabels \cup DyingLabels
      <4>1. calls[o] > 0 \/ dying[o] > 0
        BY <3>1, <3>3, HeldIsCounted
      <4>2. object[o] = "live"
        BY <4>1, <1>1 DEF CountsOf, CountsAreNatOf, LifeOf
      <4> QED
        BY <4>2, <2>1
    <3>4. CASE pc[t] = "releaseWeak"
      <4>1. weakCalls[o] > 0
        BY <3>1, <3>4, HeldIsCounted
      <4>2. weak[o] > 0
        BY <4>1, <1>1 DEF CountsOf, CountsAreNatOf, Bit
      <4> QED
        BY <4>2, <1>1 DEF LifeOf
    <3>5. CASE pc[t] = "freeControl"
      <4>1. freeing[o] > 0
        BY <3>1, <3>5, HeldIsCounted
      <4> QED
        BY <4>1, <1>1 DEF LifeOf
    <3> QED
      BY <3>1, <3>2, <3>3, <3>4, <3>5 DEF Label, LockLabels, OwningLabels, DyingLabels
  <2> QED
    BY <2>1, <2>2, <2>3
<1>5. ControlOutlivesWeak
  BY <1>4 DEF ControlOutlivesWeak
<1>6. NothingLeaks
  <2> SUFFICES ASSUME NEW o \in Object, object[o] # "unborn", dropped[o] = 0,
                      Owners(o) = {}, Users(o) = {}
               PROVE  /\ object[o] = "destroyed"
                      /\ (\A t \in Thread : wp[t] # o) => control[o] = "freed"
    BY DEF NothingLeaks
  <2>1. /\ \A t \in Thread : ~(target[t] = o /\ pc[t] \notin LateLoads \cup {"idle"})
        /\ Cardinality({}) = 0
    BY FS_EmptySet DEF Users
  <2>2. ASSUME NEW labels, labels \cap (LateLoads \cup {"idle"}) = {}
        PROVE  Busy(target, pc, o, labels) = {}
    BY <2>1, <2>2 DEF Busy
  <2>3. dying[o] = 0 /\ freeing[o] = 0 /\ weakCalls[o] = 0
    BY <2>1, <2>2 DEF dying, freeing, weakCalls, DyingLabels, LateLoads
  <2>4. strong[o] = 0
    BY <1>1, <1>2 DEF CountsOf, CountsAreNatOf
  <2>5. object[o] = "destroyed"
    BY <1>1, <2>3, <2>4 DEF LifeOf, RefInv, RefTypeOK
  <2>6. ASSUME \A t \in Thread : wp[t] # o
        PROVE  control[o] = "freed"
    <3>1. Holders(wp, o) = {}
      BY <2>6 DEF Holders
    <3>2. weakPointers[o] = 0
      BY <3>1, <2>1 DEF weakPointers
    <3>3. weak[o] = 0
      BY <3>2, <2>3, <2>5, <1>1 DEF CountsOf, Bit
    <3> QED
      BY <3>3, <2>3, <2>5, <1>1 DEF LifeOf
  <2> QED
    BY <2>5, <2>6
<1> QED
  BY <1>3, <1>5, <1>6

\* The counts and the life of every object, and what they promise.
LEMMA RefInvariant ==
    Spec => [](RefTypeOK /\ HeldStaysAlive /\ ControlOutlivesWeak /\ NothingLeaks)
<1>1. RefInv => RefTypeOK
  BY DEF RefInv
<1> QED
  BY <1>1, RefInit, RefNext, RefPromises, PTL DEF Spec

\* Whatever lock() and the last Release do to each other, the object a strong
\* pointer refers to has not been destroyed.
THEOREM HeldObjectsLive == Spec => []HeldStaysAlive
  BY RefInvariant, PTL

\* The control block is there for the weak pointers, for the object itself and
\* for every step of a call under way but one: the load of a count after the
\* thread's own fetch_sub (ReferencePtr.hpp:149 and :82), which may come too late.
THEOREM ControlBlocksLive == Spec => []ControlOutlivesWeak
  BY RefInvariant, PTL

\* When the last pointer is gone the object has been destroyed, and its
\* control block freed, unless attach() has dropped a reference.
THEOREM NoReferenceIsLost == Spec => []NothingLeaks
  BY RefInvariant, PTL

=============================================================================
