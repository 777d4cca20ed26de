------------------------ MODULE PackFileSystemProofs ------------------------
(***************************************************************************)
(* For any builds, bytes, names, priorities and threads, and any number of *)
(* packs:                                                                  *)
(*                                                                         *)
(*  - a search answers with a pack of the highest priority among those     *)
(*    that were mounted when it began and that have the id;                *)
(*  - Mount accepts the files that one Build wrote, and an asset or a      *)
(*    chunk that is found and read is what was added with its id.          *)
(*                                                                         *)
(* The first rests on an invariant of the packs: the snapshot holds the    *)
(* mounted packs in the order of their priorities, a search walks a        *)
(* snapshot that nobody changes, and what Umount and later calls of Mount  *)
(* do to the packs of that snapshot leaves their priorities and their      *)
(* tables as they were.                                                    *)
(*                                                                         *)
(* The second needs no more of the steps than that packs keep their files, *)
(* and what the loops of the builder, of the codec and of LoadToc compute  *)
(* for every input.  A loop is a recursive function, so this is an         *)
(* induction over its rounds: by the set of the rounds after which a       *)
(* statement holds (AllUpTo), one lemma for the round (CompressInverse's   *)
(* PackedNext, AddChunkKeeps, PlaceChunkKeeps, TabulateAssetKeeps).        *)
(***************************************************************************)
EXTENDS PackFileSystem, FiniteSetTheorems, SequenceTheorems, WellFoundedInduction,
        TLAPS

-----------------------------------------------------------------------------
\* Numbers.

\* A set of numbers that is not empty has a least one.
LEMMA LeastOf ==
    ASSUME NEW S, S \subseteq Nat, S # {}
    PROVE  Min(S) \in S /\ \A j \in S : Min(S) <= j
  <1>1. PICK R : R = OpToRel(<, Nat)
    OBVIOUS
  <1>2. IsWellFoundedOn(R, Nat)
    BY <1>1, NatLessThanWellFounded
  <1>3. PICK i \in S : \A j \in S : ~(<<j, i>> \in R)
    BY <1>2, WFMin
  <1>4. ASSUME NEW m \in Nat, NEW n \in Nat, m < n
        PROVE  <<m, n>> \in R
    BY <1>1, <1>4 DEF OpToRel
  <1>5. ASSUME NEW j \in S
        PROVE  i <= j
    <2>1. i \in Nat /\ j \in Nat
      OBVIOUS
    <2>2. ~(j < i)
      BY <1>3, <1>4, <2>1
    <2> QED
      BY <2>1, <2>2
  <1> QED
    BY <1>3, <1>5 DEF Min

\* Induction: a set of numbers with 0 and the successor of each is all of them.
LEMMA AllUpTo ==
    ASSUME NEW N \in Nat, NEW P, 0 \in P, \A n \in 0 .. N - 1 : n \in P => n + 1 \in P
    PROVE  0 .. N \subseteq P
  <1> SUFFICES ASSUME (0 .. N) \ P # {}
               PROVE  FALSE
    OBVIOUS
  <1> DEFINE m == Min((0 .. N) \ P)
  <1>1. m \in (0 .. N) \ P /\ \A j \in (0 .. N) \ P : m <= j
    BY LeastOf
  <1> HIDE DEF m
  <1>2. m # 0 /\ m - 1 \in 0 .. N - 1
    BY <1>1
  <1>3. m - 1 \in P
    BY <1>1, <1>2
  <1> QED
    BY <1>1, <1>2, <1>3

LEMMA GreatestOf ==
    ASSUME NEW n \in Nat, NEW S, S \subseteq 1 .. n, S # {}
    PROVE  Max(S) \in S /\ \A j \in S : j <= Max(S)
  <1> DEFINE T == {n - j : j \in S}
  <1>1. T \subseteq Nat /\ T # {}
    <2>1. \A j \in S : n - j \in Nat
      OBVIOUS
    <2> QED
      BY <2>1
  <1>2. Min(T) \in T /\ \A k \in T : Min(T) <= k
    BY <1>1, LeastOf
  <1>3. PICK m \in S : Min(T) = n - m
    BY <1>2
  <1>4. \A j \in S : n - m <= n - j
    BY <1>2, <1>3
  <1>5. \A j \in S : j <= m
    BY <1>4
  <1> QED
    BY <1>3, <1>5 DEF Max

-----------------------------------------------------------------------------
\* The codecs.

\* A run is not empty, not longer than a byte counts, and all of one byte.
LEMMA RunLengthFits ==
    ASSUME NEW src \in Seq(Nat), NEW i \in 1 .. Len(src)
    PROVE  /\ RunLength(src, i) \in 1 .. MaxRunLength
           /\ i + RunLength(src, i) - 1 <= Len(src)
           /\ \A k \in i .. i + RunLength(src, i) - 1 : src[k] = src[i]
  <1> DEFINE S == {n \in 1 .. MaxRunLength :
                    /\ i + n - 1 <= Len(src)
                    /\ \A k \in i .. i + n - 1 : src[k] = src[i]}
  <1>1. MaxRunLength \in Nat \ {0} /\ Len(src) \in Nat
    BY FormatAssumption
  <1>2. 1 \in S
    BY <1>1
  <1>3. PICK n \in S : \A m \in S : m <= n
    BY <1>1, <1>2, GreatestOf
  <1>4. n = MaxRunLength \/ i + n > Len(src) \/ src[i + n] # src[i]
    <2> SUFFICES ASSUME n # MaxRunLength, ~(i + n > Len(src)), src[i + n] = src[i]
                 PROVE  FALSE
      OBVIOUS
    <2>1. n + 1 \in 1 .. MaxRunLength /\ i + (n + 1) - 1 <= Len(src)
      BY <1>1, <1>3
    <2>2. ASSUME NEW k \in i .. i + (n + 1) - 1
          PROVE  src[k] = src[i]
      <3>1. k \in i .. i + n - 1 \/ k = i + n
        BY <1>1, <1>3
      <3> QED
        BY <3>1, <1>3
    <2>3. n + 1 \in S
      BY <2>1, <2>2
    <2>4. n \in Nat
      BY <1>1
    <2> HIDE DEF S
    <2>5. n + 1 <= n
      BY <2>3, <1>3
    <2> QED
      BY <2>4, <2>5
  <1>5. \E m \in 1 .. MaxRunLength :
            /\ i + m - 1 <= Len(src)
            /\ \A k \in i .. i + m - 1 : src[k] = src[i]
            /\ m = MaxRunLength \/ i + m > Len(src) \/ src[i + m] # src[i]
    BY <1>3, <1>4
  <1> QED
    BY <1>5 DEF RunLength

Run(count, byte) == [n \in 1 .. count |-> byte]

\* The pairs of s, p of them, unroll to u.
Unrolls(s, p, u) ==
    \E out : /\ out = [k \in 0 .. p |-> IF k = 0 THEN <<>>
                                        ELSE out[k - 1] \o Run(s[2 * k - 1], s[2 * k])]
             /\ out[p] = u

LEMMA UnrollsNothing == Unrolls(<<>>, 0, <<>>)
  <1> DEFINE out == [k \in 0 .. 0 |-> <<>>]
  <1>1. out = [k \in 0 .. 0 |-> IF k = 0 THEN <<>>
                                ELSE out[k - 1] \o Run(<<>>[2 * k - 1], <<>>[2 * k])]
    OBVIOUS
  <1>2. out[0] = <<>>
    OBVIOUS
  <1> HIDE DEF out
  <1> QED
    BY <1>1, <1>2 DEF Unrolls

\* One more pair unrolls to one more run.
LEMMA UnrollsMore ==
    ASSUME NEW s \in Seq(Nat), NEW p \in Nat, Len(s) = 2 * p, NEW u, Unrolls(s, p, u),
           NEW count \in Nat, NEW byte \in Nat
    PROVE  Unrolls(s \o <<count, byte>>, p + 1, u \o Run(count, byte))
  <1> DEFINE t == s \o <<count, byte>>
  <1>1. /\ \A k \in 1 .. 2 * p : t[k] = s[k]
        /\ t[2 * p + 1] = count /\ t[2 * p + 2] = byte
    OBVIOUS
  <1> HIDE DEF t
  <1>2. PICK out : /\ out = [k \in 0 .. p |-> IF k = 0 THEN <<>>
                                    ELSE out[k - 1] \o Run(s[2 * k - 1], s[2 * k])]
                   /\ out[p] = u
    BY DEF Unrolls
  <1>3. \A k \in 0 .. p : out[k] = IF k = 0 THEN <<>>
                                  ELSE out[k - 1] \o Run(s[2 * k - 1], s[2 * k])
    BY <1>2
  <1> DEFINE next == [k \in 0 .. p + 1 |-> IF k <= p THEN out[k] ELSE u \o Run(count, byte)]
  <1>4. /\ \A k \in 0 .. p : next[k] = out[k]
        /\ next[p + 1] = u \o Run(count, byte)
    OBVIOUS
  <1>5. next = [k \in 0 .. p + 1 |-> next[k]]
    OBVIOUS
  <1> HIDE DEF next
  <1>6. ASSUME NEW k \in 0 .. p + 1
        PROVE  next[k] = IF k = 0 THEN <<>>
                         ELSE next[k - 1] \o Run(t[2 * k - 1], t[2 * k])
    <2>1. CASE k = 0
      <3>1. 0 \in 0 .. p
        OBVIOUS
      <3> QED
        BY <2>1, <3>1, <1>3, <1>4
    <2>2. CASE k \in 1 .. p
      <3>1. 2 * k - 1 \in 1 .. 2 * p /\ 2 * k \in 1 .. 2 * p
        BY <2>2
      <3>2. k \in 0 .. p /\ k - 1 \in 0 .. p /\ k # 0
        BY <2>2
      <3>3. t[2 * k - 1] = s[2 * k - 1] /\ t[2 * k] = s[2 * k]
        BY <3>1, <1>1
      <3>4. out[k] = out[k - 1] \o Run(s[2 * k - 1], s[2 * k])
        BY <3>2, <1>3
      <3> QED
        BY <3>2, <3>3, <3>4, <1>4
    <2>3. CASE k = p + 1
      <3>1. 2 * k - 1 = 2 * p + 1 /\ 2 * k = 2 * p + 2 /\ k - 1 = p /\ k # 0
        BY <2>3
      <3>2. t[2 * k - 1] = count /\ t[2 * k] = byte
        BY <3>1, <1>1
      <3>3. p \in 0 .. p
        OBVIOUS
      <3>4. next[k - 1] = u
        BY <3>1, <3>3, <1>2, <1>4
      <3> QED
        BY <2>3, <3>1, <3>2, <3>4, <1>4
    <2> QED
      BY <2>1, <2>2, <2>3
  <1>7. next = [k \in 0 .. p + 1 |-> IF k = 0 THEN <<>>
                             ELSE next[k - 1] \o Run(t[2 * k - 1], t[2 * k])]
    BY <1>5, <1>6
  <1>8. Unrolls(t, p + 1, u \o Run(count, byte))
    BY <1>4, <1>7 DEF Unrolls
  <1> QED
    BY <1>8 DEF t

\* What pairs unroll to is what Decompress makes of them.
LEMMA UnrollsDecompressed ==
    ASSUME NEW s \in Seq(Nat), NEW p \in Nat, Len(s) = 2 * p, NEW u, Unrolls(s, p, u)
    PROVE  Unrun(s, Len(u)) = Done(u)
  <1> DEFINE h == Len(s) \div 2
             To(f) == f = [k \in 0 .. h |-> IF k = 0 THEN <<>>
                             ELSE f[k - 1] \o [n \in 1 .. s[2 * k - 1] |-> s[2 * k]]]
             chosen == CHOOSE f : To(f)
  <1>1. h = p /\ Len(s) % 2 = 0
    OBVIOUS
  <1>2. Unrun(s, Len(u)) = IF Len(s) % 2 = 0 /\ Len(chosen[h]) = Len(u)
                           THEN Done(chosen[h]) ELSE Failed
    BY DEF Unrun
  <1> HIDE DEF h
  <1>3. PICK out : To(out) /\ out[p] = u
    BY <1>1 DEF Unrolls, Run
  <1>4. To(chosen)
    BY <1>3
  <1> HIDE DEF chosen
  <1> DEFINE next(v, k) == v \o [n \in 1 .. s[2 * k - 1] |-> s[2 * k]]
  <1>5. ASSUME NEW f, To(f)
        PROVE  f[0] = <<>> /\ \A k \in 0 .. p - 1 : f[k + 1] = next(f[k], k + 1)
    <2>1. f[0] = <<>>
      BY <1>1, <1>5
    <2>2. ASSUME NEW k \in 0 .. p - 1
          PROVE  f[k + 1] = next(f[k], k + 1)
      <3>1. k + 1 \in 0 .. h /\ k + 1 # 0 /\ (k + 1) - 1 = k
        BY <1>1
      <3> QED
        BY <3>1, <1>5
    <2> QED
      BY <2>1, <2>2
  <1>6. /\ chosen[0] = <<>> /\ out[0] = <<>>
        /\ \A k \in 0 .. p - 1 : /\ chosen[k + 1] = next(chosen[k], k + 1)
                                  /\ out[k + 1] = next(out[k], k + 1)
    BY <1>3, <1>4, <1>5
  <1> HIDE DEF To, next
  <1> DEFINE P == {k \in 0 .. p : chosen[k] = out[k]}
  <1>7. 0 \in P
    BY <1>6
  <1>8. ASSUME NEW k \in 0 .. p - 1, k \in P
        PROVE  k + 1 \in P
    BY <1>6, <1>8
  <1>9. chosen[p] = u
    <2> HIDE DEF P
    <2>1. 0 .. p \subseteq P
      BY <1>7, <1>8, AllUpTo
    <2>2. p \in 0 .. p
      OBVIOUS
    <2>3. p \in P
      BY <2>1, <2>2
    <2> QED
      BY <2>3, <1>3 DEF P
  <1> QED
    BY <1>1, <1>2, <1>9
\* The loop of Compress.
LEMMA RunsOfLoop ==
    ASSUME NEW src, Len(src) \in Nat
    PROVE  \E after :
            /\ after = [n \in 0 .. Len(src) |->
                            IF n = 0 THEN [i |-> 1, out |-> <<>>]
                            ELSE NextRun(src, after[n - 1])]
            /\ RunsOf(src) = after[Len(src)].out
  <1> DEFINE N == Len(src)
             To(f, m) == f = [n \in 0 .. m |->
                            IF n = 0 THEN [i |-> 1, out |-> <<>>]
                            ELSE NextRun(src, f[n - 1])]
             P == {m \in 0 .. N : \E f : To(f, m)}
  <1>1. 0 \in P
    <2>1. To([n \in 0 .. 0 |-> [i |-> 1, out |-> <<>>]], 0)
      OBVIOUS
    <2> HIDE DEF To
    <2> QED
      BY <2>1
  <1>2. ASSUME NEW m \in 0 .. N - 1, m \in P
        PROVE  m + 1 \in P
    <2>1. PICK f : To(f, m)
      BY <1>2
    <2> DEFINE g == [n \in 0 .. m + 1 |->
                        IF n <= m THEN f[n]
                        ELSE NextRun(src, f[m])]
    <2>2. ASSUME NEW n \in 0 .. m + 1
          PROVE  g[n] = IF n = 0 THEN [i |-> 1, out |-> <<>>]
                        ELSE NextRun(src, g[n - 1])
      BY <2>1
    <2>3. To(g, m + 1)
      BY <2>2
    <2>4. m + 1 \in 0 .. N
      OBVIOUS
    <2> HIDE DEF To, g
    <2> QED
      BY <2>3, <2>4
  <1>3. N \in P
    <2>1. N \in Nat
      OBVIOUS
    <2> HIDE DEF P, N
    <2>2. 0 .. N \subseteq P
      BY <2>1, <1>1, <1>2, AllUpTo
    <2>3. N \in 0 .. N
      BY <2>1
    <2> QED
      BY <2>2, <2>3
  <1>4. PICK f : To(f, N)
    BY <1>3
  <1> DEFINE after == CHOOSE g : To(g, N)
  <1>5. To(after, N)
    BY <1>4
  <1>6. RunsOf(src) = after[Len(src)].out
    BY DEF RunsOf
  <1> QED
    BY <1>5, <1>6

\* After n rounds at least n bytes are packed, and the pairs unroll to them.
PackedTo(src, n, loop) ==
    /\ loop.i \in 1 .. Len(src) + 1
    /\ loop.i > n
    /\ n > 0 => loop.out # <<>>
    /\ loop.out \in Seq(Nat)
    /\ \E p \in Nat : /\ Len(loop.out) = 2 * p
                      /\ Unrolls(loop.out, p, SubSeq(src, 1, loop.i - 1))

\* A sequence up to a later place.
LEMMA SubSeqGrows ==
    ASSUME NEW src \in Seq(Nat), NEW i \in 1 .. Len(src), NEW count \in Nat,
           i + count - 1 <= Len(src), \A k \in i .. i + count - 1 : src[k] = src[i]
    PROVE  SubSeq(src, 1, i + count - 1) = SubSeq(src, 1, i - 1) \o Run(count, src[i])
  <1> DEFINE a == SubSeq(src, 1, i - 1)
             b == Run(count, src[i])
             c == SubSeq(src, 1, i + count - 1)
  <1>1. Len(src) \in Nat /\ src[i] \in Nat
    OBVIOUS
  <1>2. a \in Seq(Nat) /\ Len(a) = i - 1 /\ \A k \in 1 .. i - 1 : a[k] = src[k]
    BY <1>1, SubSeqProperties
  <1>3. b \in Seq(Nat) /\ Len(b) = count /\ \A k \in 1 .. count : b[k] = src[i]
    BY <1>1 DEF Run
  <1>4. /\ c \in Seq(Nat) /\ Len(c) = i + count - 1
        /\ \A k \in 1 .. i + count - 1 : c[k] = src[k]
    BY <1>1, SubSeqProperties
  <1> HIDE DEF a, b, c
  <1>5. /\ a \o b \in Seq(Nat) /\ Len(a \o b) = Len(a) + Len(b)
        /\ \A k \in 1 .. Len(a) + Len(b) :
            (a \o b)[k] = IF k <= Len(a) THEN a[k] ELSE b[k - Len(a)]
    BY <1>2, <1>3, ConcatProperties
  <1>6. ASSUME NEW k \in 1 .. i + count - 1
        PROVE  c[k] = (a \o b)[k]
    <2>1. CASE k <= i - 1
      BY <2>1, <1>1, <1>2, <1>3, <1>4, <1>5
    <2>2. CASE ~(k <= i - 1)
      <3>1. k \in i .. i + count - 1 /\ k - (i - 1) \in 1 .. count
        BY <2>2, <1>1
      <3>2. (a \o b)[k] = b[k - (i - 1)]
        BY <2>2, <1>1, <1>2, <1>3, <1>5
      <3> QED
        BY <3>1, <3>2, <1>3, <1>4
    <2> QED
      BY <2>1, <2>2
  <1>7. Len(c) = Len(a \o b)
    BY <1>1, <1>2, <1>3, <1>4, <1>5
  <1> QED
    BY <1>4, <1>5, <1>6, <1>7, SeqEqual DEF a, b, c

LEMMA PackedNext ==
    ASSUME NEW src \in Seq(Nat), NEW n \in 0 .. Len(src) - 1, NEW loop,
           PackedTo(src, n, loop)
    PROVE  PackedTo(src, n + 1, NextRun(src, loop))
  <1> DEFINE i == loop.i
             count == RunLength(src, i)
             next == [i |-> i + count, out |-> loop.out \o <<count, src[i]>>]
  <1>1. Len(src) \in Nat /\ i \in 1 .. Len(src) + 1 /\ i > n
    BY DEF PackedTo
  <1>2. CASE i > Len(src)
    <2>1. NextRun(src, loop) = loop
      BY <1>2 DEF NextRun
    <2>2. i > n + 1
      BY <1>1, <1>2
    <2>3. loop.out # <<>>
      <3> SUFFICES ASSUME loop.out = <<>>
                   PROVE  FALSE
        OBVIOUS
      <3>1. PICK p \in Nat : /\ Len(loop.out) = 2 * p
                             /\ Unrolls(loop.out, p, SubSeq(src, 1, i - 1))
        BY DEF PackedTo
      <3>2. p = 0
        BY <3>1
      <3>3. SubSeq(src, 1, i - 1) = <<>>
        BY <3>1, <3>2 DEF Unrolls
      <3>4. Len(SubSeq(src, 1, i - 1)) = i - 1
        BY <1>1
      <3> QED
        BY <3>3, <3>4, <1>1, <1>2
    <2> QED
      BY <2>1, <2>2, <2>3 DEF PackedTo
  <1>3. CASE ~(i > Len(src))
    <2>1. NextRun(src, loop) = next
      BY <1>3 DEF NextRun
    <2>2. i \in 1 .. Len(src) /\ src[i] \in Nat
      BY <1>1, <1>3
    <2>3. /\ count \in Nat /\ count >= 1
          /\ i + count - 1 <= Len(src)
          /\ \A k \in i .. i + count - 1 : src[k] = src[i]
      <3> HIDE DEF i
      <3>1. /\ count \in 1 .. MaxRunLength
            /\ i + count - 1 <= Len(src)
            /\ \A k \in i .. i + count - 1 : src[k] = src[i]
        BY <2>2, RunLengthFits
      <3> HIDE DEF count
      <3> QED
        BY <3>1, FormatAssumption
    <2>4. next.i = i + count /\ next.out = loop.out \o <<count, src[i]>>
      OBVIOUS
    <2> HIDE DEF i, count, next
    <2>5. next.i \in 1 .. Len(src) + 1 /\ next.i > n + 1 /\ next.i - 1 = i + count - 1
      <3>1. i \in Nat /\ n \in Nat
        BY <1>1
      <3> QED
        BY <3>1, <1>1, <2>2, <2>3, <2>4
    <2>6. loop.out \in Seq(Nat)
      BY DEF PackedTo
    <2>7. next.out \in Seq(Nat) /\ next.out # <<>> /\ Len(next.out) = Len(loop.out) + 2
      BY <2>2, <2>3, <2>4, <2>6
    <2>8. PICK p \in Nat : /\ Len(loop.out) = 2 * p
                           /\ Unrolls(loop.out, p, SubSeq(src, 1, i - 1))
      BY DEF PackedTo, i
    <2>9. Unrolls(next.out, p + 1, SubSeq(src, 1, i - 1) \o Run(count, src[i]))
      BY <2>2, <2>3, <2>4, <2>6, <2>8, UnrollsMore
    <2>10. SubSeq(src, 1, i - 1) \o Run(count, src[i]) = SubSeq(src, 1, next.i - 1)
      BY <2>2, <2>3, <2>5, SubSeqGrows
    <2>11. Len(next.out) = 2 * (p + 1) /\ p + 1 \in Nat
      BY <2>7, <2>8
    <2> QED
      BY <2>1, <2>5, <2>7, <2>9, <2>10, <2>11 DEF PackedTo
  <1> QED
    BY <1>2, <1>3

\* RLECompressor::Compress writes pairs that unroll to the bytes it was given.
LEMMA RunsUnroll ==
    ASSUME NEW src \in Seq(Nat), src # <<>>
    PROVE  /\ RunsOf(src) \in Seq(Nat) /\ RunsOf(src) # <<>>
           /\ Unrun(RunsOf(src), Len(src)) = Done(src)
  <1>1. Len(src) \in Nat \ {0}
    OBVIOUS
  <1>2. PICK after : /\ after = [n \in 0 .. Len(src) |->
                                    IF n = 0 THEN [i |-> 1, out |-> <<>>]
                                    ELSE NextRun(src, after[n - 1])]
                     /\ RunsOf(src) = after[Len(src)].out
    BY <1>1, RunsOfLoop
  <1> DEFINE P == {n \in 0 .. Len(src) : PackedTo(src, n, after[n])}
  <1>3. 0 \in P
    <2>1. after[0] = [i |-> 1, out |-> <<>>]
      BY <1>1, <1>2
    <2>2. after[0].i = 1 /\ after[0].out = <<>>
      BY <2>1
    <2>3. SubSeq(src, 1, after[0].i - 1) = <<>>
      BY <2>2
    <2>4. /\ Unrolls(after[0].out, 0, SubSeq(src, 1, after[0].i - 1))
          /\ Len(after[0].out) = 2 * 0
      <3>1. Unrolls(after[0].out, 0, <<>>)
        BY <2>2, UnrollsNothing
      <3>2. Unrolls(after[0].out, 0, SubSeq(src, 1, after[0].i - 1))
        BY <3>1, <2>3
      <3>3. Len(after[0].out) = 2 * 0
        BY <2>2
      <3> QED
        BY <3>2, <3>3
    <2>5. after[0].i \in 1 .. Len(src) + 1 /\ after[0].i > 0 /\ after[0].out \in Seq(Nat)
      BY <1>1, <2>2
    <2>6. PackedTo(src, 0, after[0])
      BY <2>4, <2>5 DEF PackedTo
    <2> QED
      BY <1>1, <2>6
  <1>4. ASSUME NEW n \in 0 .. Len(src) - 1, n \in P
        PROVE  n + 1 \in P
    <2>1. n + 1 \in 0 .. Len(src) /\ n + 1 # 0 /\ (n + 1) - 1 = n
      BY <1>1
    <2>2. after[n + 1] = NextRun(src, after[n])
      BY <1>2, <2>1
    <2>3. PackedTo(src, n + 1, after[n + 1])
      BY <1>4, <2>2, PackedNext
    <2> QED
      BY <2>1, <2>3
  <1>5. Len(src) \in P
    <2> HIDE DEF P
    <2>1. 0 .. Len(src) \subseteq P
      BY <1>1, <1>3, <1>4, AllUpTo
    <2> QED
      BY <1>1, <2>1
  <1> DEFINE last == after[Len(src)]
  <1>6. PackedTo(src, Len(src), last)
    BY <1>5
  <1>7. last.i = Len(src) + 1 /\ last.out # <<>> /\ last.out \in Seq(Nat)
    BY <1>1, <1>6 DEF PackedTo
  <1>8. SubSeq(src, 1, last.i - 1) = src
    BY <1>1, <1>7, SubSeqFull
  <1>9. Unrun(last.out, Len(src)) = Done(src)
    BY <1>6, <1>7, <1>8, UnrollsDecompressed DEF PackedTo
  <1> QED
    BY <1>2, <1>7, <1>9

\* Whatever the codec, what is packed can be unpacked.
LEMMA CompressInverse ==
    ASSUME NEW data \in Seq(Nat), data # <<>>, NEW compression \in {"None", "RLE"}
    PROVE  /\ Compress(compression, data) \in Seq(Nat) /\ Compress(compression, data) # <<>>
           /\ Decompress(compression, Compress(compression, data), Len(data)) = Done(data)
  BY RunsUnroll DEF Compress, Decompress
-----------------------------------------------------------------------------
\* What a builder holds after it was given descriptions.

ChunkDesc == [chunkId : Nat, data : Seq(Nat), alignment : Nat, compression : {"None", "RLE"}]
AssetDesc == [assetId : Nat, metadataChunkId : Nat, dependencies : Seq(Nat), name : Seq(Nat)]

\* What AddChunk and AddAsset accept, if the id is new.
ValidChunk(d) == d.chunkId # InvalidId /\ d.data # <<>> /\ d.alignment \in 1 .. MaxAlignment
ValidAsset(d) == d.assetId # InvalidId /\ d.metadataChunkId # InvalidId

\* The n-th description is the first valid one with its id.
FirstChunk(descs, n) ==
    /\ ValidChunk(descs[n])
    /\ \A j \in 1 .. n - 1 : ~(ValidChunk(descs[j]) /\ descs[j].chunkId = descs[n].chunkId)
FirstAsset(descs, n) ==
    /\ ValidAsset(descs[n])
    /\ \A j \in 1 .. n - 1 : ~(ValidAsset(descs[j]) /\ descs[j].assetId = descs[n].assetId)

\* The chunk a description becomes.
ChunkOf(d) ==
    [chunkId |-> d.chunkId, compression |-> d.compression, alignment |-> d.alignment,
     uncompressedSize |-> Len(d.data), compressedData |-> Compress(d.compression, d.data)]

\* c is what the first valid description of its id became.
AddedAs(descs, n, c) ==
    \E j \in 1 .. n : j \in DOMAIN descs /\ FirstChunk(descs, j) /\ c = ChunkOf(descs[j])

Chunk == [chunkId : Nat \ {0}, compression : {"None", "RLE"}, alignment : 1 .. MaxAlignment,
          uncompressedSize : Nat \ {0}, compressedData : Seq(Nat) \ {<<>>}]

\* The calls of AddChunk one after the other.
LEMMA AddChunksLoop ==
    ASSUME NEW b, NEW descs, Len(descs) \in Nat
    PROVE  \E after :
            /\ after = [n \in 0 .. Len(descs) |->
                            IF n = 0 THEN b
                            ELSE AddChunk(after[n - 1], descs[n])]
            /\ AddChunks(b, descs) = after[Len(descs)]
  <1> DEFINE N == Len(descs)
             To(f, m) == f = [n \in 0 .. m |->
                            IF n = 0 THEN b
                            ELSE AddChunk(f[n - 1], descs[n])]
             P == {m \in 0 .. N : \E f : To(f, m)}
  <1>1. 0 \in P
    <2>1. To([n \in 0 .. 0 |-> b], 0)
      OBVIOUS
    <2> HIDE DEF To
    <2> QED
      BY <2>1
  <1>2. ASSUME NEW m \in 0 .. N - 1, m \in P
        PROVE  m + 1 \in P
    <2>1. PICK f : To(f, m)
      BY <1>2
    <2> DEFINE g == [n \in 0 .. m + 1 |->
                        IF n <= m THEN f[n]
                        ELSE AddChunk(f[m], descs[m + 1])]
    <2>2. ASSUME NEW n \in 0 .. m + 1
          PROVE  g[n] = IF n = 0 THEN b
                        ELSE AddChunk(g[n - 1], descs[n])
      BY <2>1
    <2>3. To(g, m + 1)
      BY <2>2
    <2>4. m + 1 \in 0 .. N
      OBVIOUS
    <2> HIDE DEF To, g
    <2> QED
      BY <2>3, <2>4
  <1>3. N \in P
    <2>1. N \in Nat
      OBVIOUS
    <2> HIDE DEF P, N
    <2>2. 0 .. N \subseteq P
      BY <2>1, <1>1, <1>2, AllUpTo
    <2>3. N \in 0 .. N
      BY <2>1
    <2> QED
      BY <2>2, <2>3
  <1>4. PICK f : To(f, N)
    BY <1>3
  <1> DEFINE after == CHOOSE g : To(g, N)
  <1>5. To(after, N)
    BY <1>4
  <1>6. AddChunks(b, descs) = after[Len(descs)]
    BY DEF AddChunks
  <1> QED
    BY <1>5, <1>6

\* The calls of AddAsset one after the other.
LEMMA AddAssetsLoop ==
    ASSUME NEW b, NEW descs, Len(descs) \in Nat
    PROVE  \E after :
            /\ after = [n \in 0 .. Len(descs) |->
                            IF n = 0 THEN b
                            ELSE AddAsset(after[n - 1], descs[n])]
            /\ AddAssets(b, descs) = after[Len(descs)]
  <1> DEFINE N == Len(descs)
             To(f, m) == f = [n \in 0 .. m |->
                            IF n = 0 THEN b
                            ELSE AddAsset(f[n - 1], descs[n])]
             P == {m \in 0 .. N : \E f : To(f, m)}
  <1>1. 0 \in P
    <2>1. To([n \in 0 .. 0 |-> b], 0)
      OBVIOUS
    <2> HIDE DEF To
    <2> QED
      BY <2>1
  <1>2. ASSUME NEW m \in 0 .. N - 1, m \in P
        PROVE  m + 1 \in P
    <2>1. PICK f : To(f, m)
      BY <1>2
    <2> DEFINE g == [n \in 0 .. m + 1 |->
                        IF n <= m THEN f[n]
                        ELSE AddAsset(f[m], descs[m + 1])]
    <2>2. ASSUME NEW n \in 0 .. m + 1
          PROVE  g[n] = IF n = 0 THEN b
                        ELSE AddAsset(g[n - 1], descs[n])
      BY <2>1
    <2>3. To(g, m + 1)
      BY <2>2
    <2>4. m + 1 \in 0 .. N
      OBVIOUS
    <2> HIDE DEF To, g
    <2> QED
      BY <2>3, <2>4
  <1>3. N \in P
    <2>1. N \in Nat
      OBVIOUS
    <2> HIDE DEF P, N
    <2>2. 0 .. N \subseteq P
      BY <2>1, <1>1, <1>2, AllUpTo
    <2>3. N \in 0 .. N
      BY <2>1
    <2> QED
      BY <2>2, <2>3
  <1>4. PICK f : To(f, N)
    BY <1>3
  <1> DEFINE after == CHOOSE g : To(g, N)
  <1>5. To(after, N)
    BY <1>4
  <1>6. AddAssets(b, descs) = after[Len(descs)]
    BY DEF AddAssets
  <1> QED
    BY <1>5, <1>6

\* The builder after n descriptions of chunks: the first valid ones of their ids,
\* each once, and no id is missing.
ChunksTo(descs, n, b) ==
    /\ b = [chunks |-> b.chunks, assets |-> <<>>]
    /\ b.chunks \in Seq(Chunk)
    /\ \A k \in DOMAIN b.chunks : AddedAs(descs, n, b.chunks[k])
    /\ \A k, j \in DOMAIN b.chunks : k # j => b.chunks[k].chunkId # b.chunks[j].chunkId
    /\ \A j \in 1 .. n : ValidChunk(descs[j]) =>
            \E k \in DOMAIN b.chunks : b.chunks[k].chunkId = descs[j].chunkId

\* A valid description becomes a chunk with bytes in it.
LEMMA ChunkOfType ==
    ASSUME NEW d \in ChunkDesc, ValidChunk(d)
    PROVE  ChunkOf(d) \in Chunk
  <1>1. /\ d.chunkId \in Nat \ {0} /\ d.compression \in {"None", "RLE"}
        /\ d.alignment \in 1 .. MaxAlignment /\ d.data \in Seq(Nat) /\ d.data # <<>>
    BY DEF ChunkDesc, ValidChunk, InvalidId
  <1>2. Len(d.data) \in Nat \ {0}
    BY <1>1
  <1>3. Compress(d.compression, d.data) \in Seq(Nat) \ {<<>>}
    BY <1>1, CompressInverse
  <1> QED
    BY <1>1, <1>2, <1>3 DEF ChunkOf, Chunk

\* AddChunk
LEMMA AddChunkKeeps ==
    ASSUME NEW descs \in Seq(ChunkDesc), NEW n \in 0 .. Len(descs) - 1, NEW b,
           ChunksTo(descs, n, b)
    PROVE  ChunksTo(descs, n + 1, AddChunk(b, descs[n + 1]))
  <1> DEFINE d == descs[n + 1]
             next == AddChunk(b, d)
  <1>1. /\ Len(descs) \in Nat /\ n \in Nat /\ n + 1 \in DOMAIN descs /\ d \in ChunkDesc
        /\ 1 .. n + 1 = (1 .. n) \cup {n + 1}
    OBVIOUS
  <1>2. /\ b = [chunks |-> b.chunks, assets |-> <<>>] /\ b.chunks \in Seq(Chunk)
        /\ \A k \in DOMAIN b.chunks : AddedAs(descs, n, b.chunks[k])
        /\ \A k, j \in DOMAIN b.chunks : k # j => b.chunks[k].chunkId # b.chunks[j].chunkId
        /\ \A j \in 1 .. n : ValidChunk(descs[j]) =>
                \E k \in DOMAIN b.chunks : b.chunks[k].chunkId = descs[j].chunkId
    BY DEF ChunksTo
  <1>3. ASSUME NEW c, AddedAs(descs, n, c)
        PROVE  AddedAs(descs, n + 1, c)
    BY <1>1, <1>3 DEF AddedAs
  <1>4. CASE ~ValidChunk(d) \/ \E k \in DOMAIN b.chunks : b.chunks[k].chunkId = d.chunkId
    <2>1. next = b
      BY <1>4 DEF AddChunk, ValidChunk
    <2>2. ValidChunk(d) => \E k \in DOMAIN b.chunks : b.chunks[k].chunkId = d.chunkId
      BY <1>4
    <2> HIDE DEF next
    <2>3. \A j \in 1 .. n + 1 : ValidChunk(descs[j]) =>
                \E k \in DOMAIN b.chunks : b.chunks[k].chunkId = descs[j].chunkId
      BY <1>1, <1>2, <2>2
    <2>4. ChunksTo(descs, n + 1, b)
      BY <1>2, <1>3, <2>3 DEF ChunksTo
    <2> QED
      BY <2>1, <2>4 DEF next
  <1>5. CASE ValidChunk(d) /\ \A k \in DOMAIN b.chunks : b.chunks[k].chunkId # d.chunkId
    <2> DEFINE c == ChunkOf(d)
               chunks == Append(b.chunks, c)
    <2>1. next = [b EXCEPT !.chunks = chunks]
      BY <1>5 DEF AddChunk, ValidChunk, ChunkOf
    <2> HIDE DEF chunks
    <2>2. c \in Chunk /\ c.chunkId = d.chunkId
      BY <1>1, <1>5, ChunkOfType DEF ChunkOf
    <2>3. FirstChunk(descs, n + 1)
      BY <1>1, <1>2, <1>5 DEF FirstChunk
    <2>4. AddedAs(descs, n + 1, c)
      BY <1>1, <2>3 DEF AddedAs
    <2> HIDE DEF c, next
    <2>5. next.chunks = chunks /\ next = [chunks |-> chunks, assets |-> <<>>]
      <3>1. next = [[chunks |-> b.chunks, assets |-> <<>>] EXCEPT !.chunks = chunks]
        BY <1>2, <2>1
      <3> QED
        BY <3>1
    <2>6. /\ chunks \in Seq(Chunk)
          /\ Len(b.chunks) \in Nat
          /\ DOMAIN b.chunks = 1 .. Len(b.chunks)
          /\ DOMAIN chunks = 1 .. Len(b.chunks) + 1
          /\ \A k \in DOMAIN b.chunks : chunks[k] = b.chunks[k]
          /\ chunks[Len(b.chunks) + 1] = c
      BY <1>2, <2>2 DEF chunks
    <2>7. \A k \in DOMAIN chunks : k \in DOMAIN b.chunks \/ k = Len(b.chunks) + 1
      BY <2>6
    <2>8. \A k \in DOMAIN chunks : AddedAs(descs, n + 1, chunks[k])
      BY <1>2, <1>3, <2>4, <2>6, <2>7
    <2>9. \A k, j \in DOMAIN chunks : k # j => chunks[k].chunkId # chunks[j].chunkId
      <3>1. \A k \in DOMAIN b.chunks : chunks[k].chunkId # d.chunkId
        BY <1>5, <2>6
      <3>2. chunks[Len(b.chunks) + 1].chunkId = d.chunkId
        BY <2>2, <2>6
      <3>3. \A k, j \in DOMAIN b.chunks : k # j => chunks[k].chunkId # chunks[j].chunkId
        BY <1>2, <2>6
      <3> HIDE DEF d
      <3> QED
        BY <2>7, <3>1, <3>2, <3>3
    <2>10. \A k \in DOMAIN b.chunks : k \in DOMAIN chunks
      BY <2>6
    <2>11. Len(b.chunks) + 1 \in DOMAIN chunks
      BY <2>6
    <2>12. \A j \in 1 .. n + 1 : ValidChunk(descs[j]) =>
                \E k \in DOMAIN chunks : chunks[k].chunkId = descs[j].chunkId
      BY <1>1, <1>2, <2>2, <2>6, <2>10, <2>11
    <2>13. ChunksTo(descs, n + 1, next)
      BY <2>5, <2>6, <2>8, <2>9, <2>12 DEF ChunksTo
    <2> QED
      BY <2>13 DEF next
  <1> QED
    BY <1>4, <1>5

LEMMA ChunksAdded ==
    ASSUME NEW descs \in Seq(ChunkDesc)
    PROVE  ChunksTo(descs, Len(descs), AddChunks(EmptyBuilder, descs))
  <1>1. Len(descs) \in Nat
    OBVIOUS
  <1>2. PICK after : /\ after = [n \in 0 .. Len(descs) |->
                                    IF n = 0 THEN EmptyBuilder
                                    ELSE AddChunk(after[n - 1], descs[n])]
                     /\ AddChunks(EmptyBuilder, descs) = after[Len(descs)]
    BY <1>1, AddChunksLoop
  <1> DEFINE P == {n \in 0 .. Len(descs) : ChunksTo(descs, n, after[n])}
  <1>3. 0 \in P
    <2>1. after[0] = EmptyBuilder
      BY <1>1, <1>2
    <2>2. EmptyBuilder.chunks = <<>> /\ EmptyBuilder = [chunks |-> <<>>, assets |-> <<>>]
      BY DEF EmptyBuilder
    <2>3. ChunksTo(descs, 0, EmptyBuilder)
      BY <2>2 DEF ChunksTo
    <2> QED
      BY <1>1, <2>1, <2>3
  <1>4. ASSUME NEW n \in 0 .. Len(descs) - 1, n \in P
        PROVE  n + 1 \in P
    <2>1. n + 1 \in 0 .. Len(descs) /\ n + 1 # 0 /\ (n + 1) - 1 = n
      BY <1>1
    <2>2. after[n + 1] = AddChunk(after[n], descs[n + 1])
      BY <1>2, <2>1
    <2>3. ChunksTo(descs, n + 1, after[n + 1])
      BY <1>4, <2>2, AddChunkKeeps
    <2> QED
      BY <2>1, <2>3
  <1>5. Len(descs) \in P
    <2> HIDE DEF P
    <2>1. 0 .. Len(descs) \subseteq P
      BY <1>1, <1>3, <1>4, AllUpTo
    <2> QED
      BY <1>1, <2>1
  <1> QED
    BY <1>2, <1>5

\* The builder after n descriptions of assets.
AssetsTo(descs, n, chunks, b) ==
    /\ b = [chunks |-> chunks, assets |-> b.assets]
    /\ b.assets \in Seq(AssetDesc)
    /\ \A k \in DOMAIN b.assets :
            \E j \in 1 .. n : /\ j \in DOMAIN descs
                             /\ FirstAsset(descs, j) /\ b.assets[k] = descs[j]
    /\ \A k, j \in DOMAIN b.assets : k # j => b.assets[k].assetId # b.assets[j].assetId
    /\ \A j \in 1 .. n : ValidAsset(descs[j]) =>
            \E k \in DOMAIN b.assets : b.assets[k].assetId = descs[j].assetId

\* AddAsset
LEMMA AddAssetKeeps ==
    ASSUME NEW descs \in Seq(AssetDesc), NEW n \in 0 .. Len(descs) - 1, NEW chunks, NEW b,
           AssetsTo(descs, n, chunks, b)
    PROVE  AssetsTo(descs, n + 1, chunks, AddAsset(b, descs[n + 1]))
  <1> DEFINE d == descs[n + 1]
             next == AddAsset(b, d)
             From(a, m) == \E j \in 1 .. m : /\ j \in DOMAIN descs
                                             /\ FirstAsset(descs, j) /\ a = descs[j]
  <1>1. /\ Len(descs) \in Nat /\ n \in Nat /\ n + 1 \in DOMAIN descs /\ d \in AssetDesc
        /\ 1 .. n + 1 = (1 .. n) \cup {n + 1}
    OBVIOUS
  <1>2. /\ b = [chunks |-> chunks, assets |-> b.assets] /\ b.assets \in Seq(AssetDesc)
        /\ \A k \in DOMAIN b.assets : From(b.assets[k], n)
        /\ \A k, j \in DOMAIN b.assets : k # j => b.assets[k].assetId # b.assets[j].assetId
        /\ \A j \in 1 .. n : ValidAsset(descs[j]) =>
                \E k \in DOMAIN b.assets : b.assets[k].assetId = descs[j].assetId
    BY DEF AssetsTo
  <1>3. ASSUME NEW a, From(a, n)
        PROVE  From(a, n + 1)
    BY <1>1, <1>3
  <1>4. CASE ~ValidAsset(d) \/ \E k \in DOMAIN b.assets : b.assets[k].assetId = d.assetId
    <2>1. next = b
      BY <1>4 DEF AddAsset, ValidAsset
    <2>2. ValidAsset(d) => \E k \in DOMAIN b.assets : b.assets[k].assetId = d.assetId
      BY <1>4
    <2> HIDE DEF next
    <2>3. \A j \in 1 .. n + 1 : ValidAsset(descs[j]) =>
                \E k \in DOMAIN b.assets : b.assets[k].assetId = descs[j].assetId
      BY <1>1, <1>2, <2>2
    <2>4. AssetsTo(descs, n + 1, chunks, b)
      BY <1>2, <1>3, <2>3 DEF AssetsTo
    <2> QED
      BY <2>1, <2>4 DEF next
  <1>5. CASE ValidAsset(d) /\ \A k \in DOMAIN b.assets : b.assets[k].assetId # d.assetId
    <2> DEFINE assets == Append(b.assets, d)
    <2>1. next = [b EXCEPT !.assets = assets]
      BY <1>5 DEF AddAsset, ValidAsset
    <2> HIDE DEF assets
    <2>2. FirstAsset(descs, n + 1)
      BY <1>1, <1>2, <1>5 DEF FirstAsset
    <2>3. From(d, n + 1)
      BY <1>1, <2>2
    <2> HIDE DEF next, From
    <2>4. next.assets = assets /\ next = [chunks |-> chunks, assets |-> assets]
      <3>1. next = [[chunks |-> chunks, assets |-> b.assets] EXCEPT !.assets = assets]
        BY <1>2, <2>1
      <3> QED
        BY <3>1
    <2>5. /\ assets \in Seq(AssetDesc)
          /\ Len(b.assets) \in Nat
          /\ DOMAIN b.assets = 1 .. Len(b.assets)
          /\ DOMAIN assets = 1 .. Len(b.assets) + 1
          /\ \A k \in DOMAIN b.assets : assets[k] = b.assets[k]
          /\ assets[Len(b.assets) + 1] = d
      BY <1>1, <1>2 DEF assets
    <2>6. \A k \in DOMAIN assets : k \in DOMAIN b.assets \/ k = Len(b.assets) + 1
      BY <2>5
    <2>7. \A k \in DOMAIN assets : From(assets[k], n + 1)
      BY <1>2, <1>3, <2>3, <2>5, <2>6
    <2>8. \A k, j \in DOMAIN assets : k # j => assets[k].assetId # assets[j].assetId
      <3>1. \A k \in DOMAIN b.assets : assets[k].assetId # d.assetId
        BY <1>5, <2>5
      <3>2. assets[Len(b.assets) + 1].assetId = d.assetId
        BY <2>5
      <3>3. \A k, j \in DOMAIN b.assets : k # j => assets[k].assetId # assets[j].assetId
        BY <1>2, <2>5
      <3> HIDE DEF d
      <3> QED
        BY <2>6, <3>1, <3>2, <3>3
    <2>9. \A k \in DOMAIN b.assets : k \in DOMAIN assets
      BY <2>5
    <2>10. Len(b.assets) + 1 \in DOMAIN assets
      BY <2>5
    <2>11. \A j \in 1 .. n + 1 : ValidAsset(descs[j]) =>
                \E k \in DOMAIN assets : assets[k].assetId = descs[j].assetId
      BY <1>1, <1>2, <2>5, <2>9, <2>10
    <2>12. AssetsTo(descs, n + 1, chunks, next)
      BY <2>4, <2>5, <2>7, <2>8, <2>11 DEF AssetsTo, From
    <2> QED
      BY <2>12 DEF next
  <1> QED
    BY <1>4, <1>5

LEMMA AssetsAdded ==
    ASSUME NEW descs \in Seq(AssetDesc), NEW chunks, NEW b,
           b = [chunks |-> chunks, assets |-> <<>>]
    PROVE  AssetsTo(descs, Len(descs), chunks, AddAssets(b, descs))
  <1>1. Len(descs) \in Nat
    OBVIOUS
  <1>2. PICK after : /\ after = [n \in 0 .. Len(descs) |->
                                    IF n = 0 THEN b
                                    ELSE AddAsset(after[n - 1], descs[n])]
                     /\ AddAssets(b, descs) = after[Len(descs)]
    BY <1>1, AddAssetsLoop
  <1> DEFINE P == {n \in 0 .. Len(descs) : AssetsTo(descs, n, chunks, after[n])}
  <1>3. 0 \in P
    <2>1. after[0] = b
      BY <1>1, <1>2
    <2>2. b.assets = <<>>
      OBVIOUS
    <2>3. AssetsTo(descs, 0, chunks, b)
      BY <2>2 DEF AssetsTo
    <2> QED
      BY <1>1, <2>1, <2>3
  <1>4. ASSUME NEW n \in 0 .. Len(descs) - 1, n \in P
        PROVE  n + 1 \in P
    <2>1. n + 1 \in 0 .. Len(descs) /\ n + 1 # 0 /\ (n + 1) - 1 = n
      BY <1>1
    <2>2. after[n + 1] = AddAsset(after[n], descs[n + 1])
      BY <1>2, <2>1
    <2>3. AssetsTo(descs, n + 1, chunks, after[n + 1])
      BY <1>4, <2>2, AddAssetKeeps
    <2> QED
      BY <2>1, <2>3
  <1>5. Len(descs) \in P
    <2> HIDE DEF P
    <2>1. 0 .. Len(descs) \subseteq P
      BY <1>1, <1>3, <1>4, AllUpTo
    <2> QED
      BY <1>1, <2>1
  <1> QED
    BY <1>2, <1>5

-----------------------------------------------------------------------------
\* What Build writes.

\* The bytes, or cells, of `part' lie in a file from `offset' on.
Lies(file, offset, part) ==
    /\ offset \in Nat
    /\ offset + Len(part) <= Len(file)
    /\ \A k \in 1 .. Len(part) : file[offset + k] = part[k]

LEMMA LiesRead ==
    ASSUME NEW S, NEW file \in Seq(S), NEW part \in Seq(S), NEW offset,
           Lies(file, offset, part)
    PROVE  SubSeq(file, offset + 1, offset + Len(part)) = part
  <1> DEFINE n == Len(part)
             s == SubSeq(file, offset + 1, offset + n)
  <1>1. Len(file) \in Nat /\ n \in Nat /\ offset \in Nat /\ offset + n <= Len(file)
    BY DEF Lies
  <1>2. \A k \in offset + 1 .. offset + n : file[k] \in S
    BY <1>1
  <1>3. /\ s \in Seq(S)
        /\ Len(s) = IF offset + 1 <= offset + n THEN (offset + n) - (offset + 1) + 1 ELSE 0
        /\ \A k \in 1 .. (offset + n) - (offset + 1) + 1 : s[k] = file[(offset + 1) + k - 1]
    BY <1>1, <1>2, SubSeqProperties
  <1> HIDE DEF s
  <1>4. Len(s) = n
    BY <1>1, <1>3
  <1>5. ASSUME NEW k \in 1 .. n
        PROVE  s[k] = part[k]
    <2>1. (offset + 1) + k - 1 = offset + k /\ k \in 1 .. (offset + n) - (offset + 1) + 1
      BY <1>1
    <2> QED
      BY <1>3, <2>1 DEF Lies
  <1> HIDE DEF n
  <1> QED
    BY <1>3, <1>4, <1>5, SeqEqual DEF s, n

LEMMA LiesStill ==
    ASSUME NEW S, NEW file \in Seq(S), NEW more \in Seq(S), NEW part, Len(part) \in Nat,
           NEW offset, Lies(file, offset, part)
    PROVE  Lies(file \o more, offset, part)
  <1>1. Len(file) \in Nat /\ Len(more) \in Nat
    OBVIOUS
  <1>2. /\ Len(file \o more) = Len(file) + Len(more)
        /\ \A i \in 1 .. Len(file) + Len(more) :
            (file \o more)[i] = IF i <= Len(file) THEN file[i] ELSE more[i - Len(file)]
    BY ConcatProperties
  <1>3. ASSUME NEW k \in 1 .. Len(part)
        PROVE  (file \o more)[offset + k] = part[k]
    <2>1. offset + k \in 1 .. Len(file) + Len(more) /\ offset + k <= Len(file)
      BY <1>1 DEF Lies
    <2> QED
      BY <1>2, <2>1 DEF Lies
  <1> QED
    BY <1>1, <1>2, <1>3 DEF Lies

LEMMA LiesLast ==
    ASSUME NEW S, NEW file \in Seq(S), NEW part \in Seq(S)
    PROVE  Lies(file \o part, Len(file), part)
  <1>1. Len(file) \in Nat /\ Len(part) \in Nat
    OBVIOUS
  <1>2. /\ Len(file \o part) = Len(file) + Len(part)
        /\ \A i \in 1 .. Len(file) + Len(part) :
            (file \o part)[i] = IF i <= Len(file) THEN file[i] ELSE part[i - Len(file)]
    BY ConcatProperties
  <1>3. ASSUME NEW k \in 1 .. Len(part)
        PROVE  (file \o part)[Len(file) + k] = part[k]
    <2>1. Len(file) + k \in 1 .. Len(file) + Len(part) /\ ~(Len(file) + k <= Len(file))
          /\ (Len(file) + k) - Len(file) = k
      BY <1>1
    <2> QED
      BY <1>2, <2>1
  <1> QED
    BY <1>1, <1>2, <1>3 DEF Lies

\* Concatenations of bytes may be regrouped.
LEMMA Regrouped ==
    ASSUME NEW s \in Seq(Nat), NEW t \in Seq(Nat), NEW u \in Seq(Nat)
    PROVE  (s \o t) \o u = s \o (t \o u)
  BY ConcatAssociative

\* Padding
LEMMA PaddingAligns ==
    ASSUME NEW size \in Nat, NEW alignment \in Nat \ {0}
    PROVE  /\ Padding(size, alignment) \in Nat
           /\ ChunkOffset(size, alignment) = size + Padding(size, alignment)
           /\ ChunkOffset(size, alignment) % alignment = 0
  <1> DEFINE r == size % alignment
             q == size \div alignment
  <1>1. r \in 0 .. alignment - 1 /\ q \in Nat /\ size = alignment * q + r
    OBVIOUS
  <1> HIDE DEF r, q
  <1>2. CASE r = 0
    <2>1. Padding(size, alignment) = 0
      BY <1>2 DEF Padding, r
    <2> QED
      BY <1>2, <2>1 DEF ChunkOffset, r
  <1>3. CASE r # 0
    <2>1. Padding(size, alignment) = alignment - r
      BY <1>3 DEF Padding, r
    <2>2. alignment * (q + 1) = alignment * q + alignment /\ q + 1 \in Nat
      BY <1>1
    <2> DEFINE m == alignment * q
    <2>3. m \in Nat
      BY <1>1
    <2>4. size + (alignment - r) = alignment * (q + 1)
      <3> HIDE DEF m
      <3>1. size = m + r /\ alignment * (q + 1) = m + alignment
        BY <1>1, <2>2 DEF m
      <3> QED
        BY <1>1, <2>3, <3>1
    <2>5. (alignment * (q + 1)) % alignment = 0
      BY <2>2
    <2>6. ChunkOffset(size, alignment) = alignment * (q + 1)
      BY <2>1, <2>4 DEF ChunkOffset
    <2> QED
      BY <1>1, <1>3, <2>1, <2>5, <2>6 DEF ChunkOffset
  <1> QED
    BY <1>2, <1>3

\* The record of a chunk, and where its bytes are.
ChunkRecord == [chunkId : Nat \ {0}, offset : Nat, compressedSize : Nat \ {0},
                uncompressedSize : Nat \ {0}, compression : {"None", "RLE"},
                alignment : 1 .. MaxAlignment]

Placed(data, record, c) ==
    /\ record = [chunkId |-> c.chunkId, offset |-> record.offset,
                 compressedSize |-> Len(c.compressedData),
                 uncompressedSize |-> c.uncompressedSize,
                 compression |-> c.compression, alignment |-> c.alignment]
    /\ record.offset % c.alignment = 0
    /\ Lies(data, record.offset, c.compressedData)

\* The data file after n chunks.
FileTo(chunks, n, file) ==
    /\ file = [data |-> file.data, records |-> file.records]
    /\ file.data \in Seq(Nat) /\ Len(file.data) # 0
    /\ file.records \in Seq(ChunkRecord) /\ Len(file.records) = n
    /\ \A k \in 1 .. n : Placed(file.data, file.records[k], chunks[k])

\* The loop of BuildDataFile over one more chunk.
LEMMA PlaceChunkKeeps ==
    ASSUME NEW chunks \in Seq(Chunk), NEW n \in 0 .. Len(chunks) - 1, NEW file,
           FileTo(chunks, n, file)
    PROVE  FileTo(chunks, n + 1, PlaceChunk(file, chunks[n + 1]))
  <1> DEFINE c == chunks[n + 1]
             size == Len(file.data)
             padding == Padding(size, c.alignment)
             padded == file.data \o Zeros(padding)
             data == padded \o c.compressedData
             record == [chunkId |-> c.chunkId, offset |-> ChunkOffset(size, c.alignment),
                        compressedSize |-> Len(c.compressedData),
                        uncompressedSize |-> c.uncompressedSize,
                        compression |-> c.compression, alignment |-> c.alignment]
             records == Append(file.records, record)
             next == [data |-> data, records |-> records]
  <1>1. PlaceChunk(file, c) = next
    BY DEF PlaceChunk
  <1>2. Len(chunks) \in Nat /\ n \in Nat /\ c \in Chunk
    OBVIOUS
  <1>3. /\ c.chunkId \in Nat \ {0} /\ c.compression \in {"None", "RLE"}
        /\ c.alignment \in 1 .. MaxAlignment /\ c.uncompressedSize \in Nat \ {0}
        /\ c.compressedData \in Seq(Nat) /\ c.compressedData # <<>>
    BY <1>2 DEF Chunk
  <1> HIDE DEF c
  <1>4. c.alignment \in Nat \ {0} /\ Len(c.compressedData) \in Nat \ {0}
    BY <1>3, FormatAssumption
  <1>5. /\ file.data \in Seq(Nat) /\ size \in Nat
        /\ file.records \in Seq(ChunkRecord) /\ Len(file.records) = n
    BY DEF FileTo
  <1> HIDE DEF size
  <1>6. /\ padding \in Nat /\ ChunkOffset(size, c.alignment) = size + padding
        /\ ChunkOffset(size, c.alignment) % c.alignment = 0
    BY <1>4, <1>5, PaddingAligns
  <1> HIDE DEF padding
  <1>7. Zeros(padding) \in Seq(Nat) /\ Len(Zeros(padding)) = padding
    BY <1>6 DEF Zeros
  <1>8. padded \in Seq(Nat) /\ Len(padded) = size + padding
    BY <1>5, <1>7 DEF size
  <1>9. data = file.data \o (Zeros(padding) \o c.compressedData)
    <2>1. file.data \in Seq(Nat) /\ Zeros(padding) \in Seq(Nat) /\ c.compressedData \in Seq(Nat)
      BY <1>3, <1>5, <1>7
    <2> QED
      BY <2>1, Regrouped
  <1>10. data \in Seq(Nat) /\ Len(data) = size + padding + Len(c.compressedData)
    <2> HIDE DEF padded
    <2>1. data \in Seq(Nat) /\ Len(data) = Len(padded) + Len(c.compressedData)
      BY <1>3, <1>8, ConcatProperties
    <2> QED
      BY <1>8, <2>1
  <1>11. Lies(data, Len(padded), c.compressedData)
    BY <1>3, <1>8, LiesLast
  <1> HIDE DEF data, padded
  <1>12. record \in ChunkRecord /\ record.offset = size + padding
    BY <1>3, <1>4, <1>5, <1>6 DEF ChunkRecord
  <1>13. Placed(data, record, c)
    BY <1>6, <1>8, <1>11 DEF Placed
  <1> HIDE DEF record
  <1>14. /\ records \in Seq(ChunkRecord) /\ Len(records) = n + 1
         /\ \A k \in 1 .. n : records[k] = file.records[k]
         /\ records[n + 1] = record
    BY <1>5, <1>12
  <1> HIDE DEF records
  <1>15. next.data = data /\ next.records = records
    OBVIOUS
  <1>16. ASSUME NEW k \in 1 .. n + 1
         PROVE  Placed(data, records[k], chunks[k])
    <2>1. CASE k = n + 1
      BY <2>1, <1>13, <1>14 DEF c
    <2>2. CASE k \in 1 .. n
      <3>1. Placed(file.data, file.records[k], chunks[k])
        BY <2>2 DEF FileTo
      <3>2. chunks[k].compressedData \in Seq(Nat)
        <4>1. k \in 1 .. Len(chunks)
          BY <1>2, <2>2
        <4>2. chunks[k] \in Chunk
          BY <4>1
        <4> QED
          BY <4>2 DEF Chunk
      <3>3. Zeros(padding) \o c.compressedData \in Seq(Nat)
        BY <1>3, <1>7
      <3>4. Lies(data, file.records[k].offset, chunks[k].compressedData)
        <4> DEFINE part == chunks[k].compressedData
                   offset == file.records[k].offset
        <4>1. Lies(file.data, offset, part) /\ Len(part) \in Nat
          BY <3>1, <3>2 DEF Placed
        <4> HIDE DEF part, offset
        <4>2. Lies(file.data \o (Zeros(padding) \o c.compressedData), offset, part)
          BY <1>5, <3>3, <4>1, LiesStill
        <4> QED
          BY <1>9, <4>2 DEF part, offset
      <3> QED
        BY <2>2, <1>14, <3>1, <3>4 DEF Placed
    <2> QED
      BY <1>2, <2>1, <2>2
  <1>17. Len(data) # 0
    <2> DEFINE total == Len(data)
               bytes == Len(c.compressedData)
    <2>1. bytes \in Nat \ {0} /\ padding \in Nat /\ size \in Nat
      BY <1>4, <1>5, <1>6
    <2>2. total = size + padding + bytes
      BY <1>10
    <2> HIDE DEF next, total, bytes
    <2>3. total # 0
      BY <2>1, <2>2
    <2> QED
      BY <2>3 DEF total
  <1>18. FileTo(chunks, n + 1, next)
    BY <1>10, <1>14, <1>15, <1>16, <1>17 DEF FileTo
  <1> QED
    BY <1>1, <1>18 DEF c

\* The rounds of the loop of BuildDataFile.
LEMMA DataFileLoop ==
    ASSUME NEW b, Len(b.chunks) \in Nat
    PROVE  \E after :
            /\ after = [n \in 0 .. Len(b.chunks) |->
                            IF n = 0
                            THEN [data |-> Zeros(DataHeaderSize), records |-> <<>>]
                            ELSE PlaceChunk(after[n - 1], b.chunks[n])]
            /\ BuildDataFile(b) = after[Len(b.chunks)]
  <1> DEFINE N == Len(b.chunks)
             To(f, m) == f = [n \in 0 .. m |->
                            IF n = 0
                            THEN [data |-> Zeros(DataHeaderSize), records |-> <<>>]
                            ELSE PlaceChunk(f[n - 1], b.chunks[n])]
             P == {m \in 0 .. N : \E f : To(f, m)}
  <1>1. 0 \in P
    <2>1. To([n \in 0 .. 0 |-> [data |-> Zeros(DataHeaderSize), records |-> <<>>]], 0)
      OBVIOUS
    <2> HIDE DEF To
    <2> QED
      BY <2>1
  <1>2. ASSUME NEW m \in 0 .. N - 1, m \in P
        PROVE  m + 1 \in P
    <2>1. PICK f : To(f, m)
      BY <1>2
    <2> DEFINE g == [n \in 0 .. m + 1 |->
                        IF n <= m THEN f[n]
                        ELSE PlaceChunk(f[m], b.chunks[m + 1])]
    <2>2. ASSUME NEW n \in 0 .. m + 1
          PROVE  g[n] = IF n = 0
                        THEN [data |-> Zeros(DataHeaderSize), records |-> <<>>]
                        ELSE PlaceChunk(g[n - 1], b.chunks[n])
      BY <2>1
    <2>3. To(g, m + 1)
      BY <2>2
    <2>4. m + 1 \in 0 .. N
      OBVIOUS
    <2> HIDE DEF To, g
    <2> QED
      BY <2>3, <2>4
  <1>3. N \in P
    <2>1. N \in Nat
      OBVIOUS
    <2> HIDE DEF P, N
    <2>2. 0 .. N \subseteq P
      BY <2>1, <1>1, <1>2, AllUpTo
    <2>3. N \in 0 .. N
      BY <2>1
    <2> QED
      BY <2>2, <2>3
  <1>4. PICK f : To(f, N)
    BY <1>3
  <1> DEFINE after == CHOOSE g : To(g, N)
  <1>5. To(after, N)
    BY <1>4
  <1>6. BuildDataFile(b) = after[Len(b.chunks)]
    BY DEF BuildDataFile
  <1> QED
    BY <1>5, <1>6

\* The data file holds every chunk where its record says.
LEMMA DataFileBuilt ==
    ASSUME NEW b, b.chunks \in Seq(Chunk)
    PROVE  FileTo(b.chunks, Len(b.chunks), BuildDataFile(b))
  <1> DEFINE chunks == b.chunks
             N == Len(chunks)
  <1>1. N \in Nat
    OBVIOUS
  <1>2. PICK after : /\ after = [n \in 0 .. N |->
                                    IF n = 0
                                    THEN [data |-> Zeros(DataHeaderSize), records |-> <<>>]
                                    ELSE PlaceChunk(after[n - 1], chunks[n])]
                     /\ BuildDataFile(b) = after[N]
    BY <1>1, DataFileLoop
  <1>3. chunks \in Seq(Chunk)
    OBVIOUS
  <1> DEFINE P == {n \in 0 .. N : FileTo(chunks, n, after[n])}
  <1>4. 0 \in P
    <2>1. after[0] = [data |-> Zeros(DataHeaderSize), records |-> <<>>]
      BY <1>1, <1>2
    <2> DEFINE zeros == Zeros(DataHeaderSize)
    <2>2. zeros \in Seq(Nat) /\ Len(zeros) # 0
      BY FormatAssumption DEF Zeros
    <2>3. after[0].data = zeros /\ after[0].records = <<>>
      BY <2>1
    <2> HIDE DEF zeros
    <2>9. FileTo(chunks, 0, after[0])
      BY <2>1, <2>2, <2>3 DEF FileTo, zeros
    <2> QED
      BY <1>1, <2>9
  <1>5. ASSUME NEW n \in 0 .. N - 1, n \in P
        PROVE  n + 1 \in P
    <2>1. n + 1 \in 0 .. N /\ n + 1 # 0 /\ (n + 1) - 1 = n
      BY <1>1
    <2>2. after[n + 1] = PlaceChunk(after[n], chunks[n + 1])
      BY <1>2, <2>1
    <2> HIDE DEF chunks
    <2>3. FileTo(chunks, n + 1, after[n + 1])
      BY <1>3, <1>5, <2>2, PlaceChunkKeeps
    <2> QED
      BY <2>1, <2>3
  <1>6. N \in P
    <2> HIDE DEF P, N
    <2>1. 0 .. N \subseteq P
      BY <1>1, <1>4, <1>5, AllUpTo
    <2>2. N \in 0 .. N
      BY <1>1
    <2> QED
      BY <2>1, <2>2
  <1> QED
    BY <1>2, <1>6

\* The record of an asset, and what it refers to.
AssetRecord == [assetId : Nat, metadataChunkId : Nat, firstDependency : Nat,
                dependencyCount : Nat, nameOffset : Nat]

Tabulated(tables, record, asset) ==
    /\ record = [assetId |-> asset.assetId, metadataChunkId |-> asset.metadataChunkId,
                 firstDependency |-> record.firstDependency,
                 dependencyCount |-> Len(asset.dependencies),
                 nameOffset |-> record.nameOffset]
    /\ Lies(tables.dependencies, record.firstDependency, asset.dependencies)
    /\ Lies(tables.strings, record.nameOffset, NameEntry(asset.name))

\* The tables after n assets.
TablesTo(assets, n, tables) ==
    /\ tables = [records |-> tables.records, dependencies |-> tables.dependencies,
                 strings |-> tables.strings]
    /\ tables.records \in Seq(AssetRecord) /\ Len(tables.records) = n
    /\ tables.dependencies \in Seq(Nat) /\ tables.strings \in Seq(Nat)
    /\ \A k \in 1 .. n : Tabulated(tables, tables.records[k], assets[k])

\* The loop of BuildTables over one more asset.
LEMMA TabulateAssetKeeps ==
    ASSUME NEW assets \in Seq(AssetDesc), NEW n \in 0 .. Len(assets) - 1, NEW tables,
           TablesTo(assets, n, tables)
    PROVE  TablesTo(assets, n + 1, TabulateAsset(tables, assets[n + 1]))
  <1> DEFINE a == assets[n + 1]
             entry == NameEntry(a.name)
             record == [assetId |-> a.assetId, metadataChunkId |-> a.metadataChunkId,
                        firstDependency |-> Len(tables.dependencies),
                        dependencyCount |-> Len(a.dependencies),
                        nameOffset |-> Len(tables.strings)]
             records == Append(tables.records, record)
             dependencies == tables.dependencies \o a.dependencies
             strings == tables.strings \o entry
             next == [records |-> records, dependencies |-> dependencies,
                      strings |-> strings]
  <1>1. TabulateAsset(tables, a) = next
    BY DEF TabulateAsset
  <1>2. Len(assets) \in Nat /\ n \in Nat /\ a \in AssetDesc
    OBVIOUS
  <1>3. /\ a.assetId \in Nat /\ a.metadataChunkId \in Nat
        /\ a.dependencies \in Seq(Nat) /\ a.name \in Seq(Nat)
    BY <1>2 DEF AssetDesc
  <1> HIDE DEF a
  <1>4. entry \in Seq(Nat)
    BY <1>3 DEF NameEntry
  <1> HIDE DEF entry
  <1>5. /\ tables.records \in Seq(AssetRecord) /\ Len(tables.records) = n
        /\ tables.dependencies \in Seq(Nat) /\ tables.strings \in Seq(Nat)
    BY DEF TablesTo
  <1>6. dependencies \in Seq(Nat) /\ strings \in Seq(Nat)
    BY <1>3, <1>4, <1>5
  <1>7. /\ Lies(dependencies, Len(tables.dependencies), a.dependencies)
        /\ Lies(strings, Len(tables.strings), entry)
    BY <1>3, <1>4, <1>5, LiesLast
  <1>8. record \in AssetRecord
    BY <1>3, <1>5 DEF AssetRecord
  <1>9. /\ record.firstDependency = Len(tables.dependencies)
        /\ record.nameOffset = Len(tables.strings)
    OBVIOUS
  <1>10. /\ next.records = records /\ next.dependencies = dependencies
         /\ next.strings = strings
    OBVIOUS
  <1>11. Tabulated(next, record, a)
    <2> HIDE DEF next, dependencies, strings, records
    <2> QED
      BY <1>7, <1>9, <1>10 DEF Tabulated, entry
  <1> HIDE DEF record
  <1>12. /\ records \in Seq(AssetRecord) /\ Len(records) = n + 1
         /\ \A k \in 1 .. n : records[k] = tables.records[k]
         /\ records[n + 1] = record
    BY <1>5, <1>8
  <1>13. ASSUME NEW k \in 1 .. n + 1
         PROVE  Tabulated(next, records[k], assets[k])
    <2>1. CASE k = n + 1
      BY <2>1, <1>11, <1>12 DEF a
    <2>2. CASE k \in 1 .. n
      <3> DEFINE r == tables.records[k]
                 old == assets[k]
      <3>1. Tabulated(tables, r, old)
        BY <2>2 DEF TablesTo
      <3>2. old.dependencies \in Seq(Nat) /\ NameEntry(old.name) \in Seq(Nat)
        <4>1. k \in 1 .. Len(assets)
          BY <1>2, <2>2
        <4>2. old \in AssetDesc
          BY <4>1
        <4>3. old.dependencies \in Seq(Nat) /\ old.name \in Seq(Nat)
          BY <4>2 DEF AssetDesc
        <4> QED
          BY <4>3 DEF NameEntry
      <3>3. Len(old.dependencies) \in Nat /\ Len(NameEntry(old.name)) \in Nat
        BY <3>2
      <3> HIDE DEF r, old
      <3>4. Lies(dependencies, r.firstDependency, old.dependencies)
        BY <1>3, <1>5, <3>1, <3>3, LiesStill DEF Tabulated
      <3>5. Lies(strings, r.nameOffset, NameEntry(old.name))
        BY <1>4, <1>5, <3>1, <3>3, LiesStill DEF Tabulated
      <3>6. records[k] = r
        BY <2>2, <1>12 DEF r
      <3> HIDE DEF next, dependencies, strings, records
      <3>7. Tabulated(next, r, old)
        BY <1>10, <3>1, <3>4, <3>5 DEF Tabulated
      <3> QED
        BY <3>6, <3>7 DEF old
    <2>3. k = n + 1 \/ k \in 1 .. n
      BY <1>2
    <2> QED
      BY <2>1, <2>2, <2>3
  <1> HIDE DEF records, dependencies, strings
  <1>14. TablesTo(assets, n + 1, next)
    <2>1. next = [records |-> next.records, dependencies |-> next.dependencies,
                  strings |-> next.strings]
      BY <1>10
    <2> HIDE DEF next
    <2> QED
      BY <1>6, <1>10, <1>12, <1>13, <2>1 DEF TablesTo
  <1> QED
    BY <1>1, <1>14 DEF a

\* The rounds of the loop of BuildTables.
LEMMA TablesLoop ==
    ASSUME NEW b, Len(b.assets) \in Nat
    PROVE  \E after :
            /\ after = [n \in 0 .. Len(b.assets) |->
                            IF n = 0
                            THEN [records |-> <<>>, dependencies |-> <<>>, strings |-> <<>>]
                            ELSE TabulateAsset(after[n - 1], b.assets[n])]
            /\ BuildTables(b) = after[Len(b.assets)]
  <1> DEFINE N == Len(b.assets)
             To(f, m) == f = [n \in 0 .. m |->
                            IF n = 0
                            THEN [records |-> <<>>, dependencies |-> <<>>, strings |-> <<>>]
                            ELSE TabulateAsset(f[n - 1], b.assets[n])]
             P == {m \in 0 .. N : \E f : To(f, m)}
  <1>1. 0 \in P
    <2>1. To([n \in 0 .. 0 |-> [records |-> <<>>, dependencies |-> <<>>, strings |-> <<>>]], 0)
      OBVIOUS
    <2> HIDE DEF To
    <2> QED
      BY <2>1
  <1>2. ASSUME NEW m \in 0 .. N - 1, m \in P
        PROVE  m + 1 \in P
    <2>1. PICK f : To(f, m)
      BY <1>2
    <2> DEFINE g == [n \in 0 .. m + 1 |->
                        IF n <= m THEN f[n]
                        ELSE TabulateAsset(f[m], b.assets[m + 1])]
    <2>2. ASSUME NEW n \in 0 .. m + 1
          PROVE  g[n] = IF n = 0
                        THEN [records |-> <<>>, dependencies |-> <<>>, strings |-> <<>>]
                        ELSE TabulateAsset(g[n - 1], b.assets[n])
      BY <2>1
    <2>3. To(g, m + 1)
      BY <2>2
    <2>4. m + 1 \in 0 .. N
      OBVIOUS
    <2> HIDE DEF To, g
    <2> QED
      BY <2>3, <2>4
  <1>3. N \in P
    <2>1. N \in Nat
      OBVIOUS
    <2> HIDE DEF P, N
    <2>2. 0 .. N \subseteq P
      BY <2>1, <1>1, <1>2, AllUpTo
    <2>3. N \in 0 .. N
      BY <2>1
    <2> QED
      BY <2>2, <2>3
  <1>4. PICK f : To(f, N)
    BY <1>3
  <1> DEFINE after == CHOOSE g : To(g, N)
  <1>5. To(after, N)
    BY <1>4
  <1>6. BuildTables(b) = after[Len(b.assets)]
    BY DEF BuildTables
  <1> QED
    BY <1>5, <1>6

\* The tables hold what the records of the assets refer to.
LEMMA TablesBuilt ==
    ASSUME NEW b, b.assets \in Seq(AssetDesc)
    PROVE  TablesTo(b.assets, Len(b.assets), BuildTables(b))
  <1> DEFINE assets == b.assets
             N == Len(assets)
  <1>1. N \in Nat
    OBVIOUS
  <1>2. PICK after :
             /\ after = [n \in 0 .. N |->
                   IF n = 0
                   THEN [records |-> <<>>, dependencies |-> <<>>, strings |-> <<>>]
                   ELSE TabulateAsset(after[n - 1], assets[n])]
             /\ BuildTables(b) = after[N]
    BY <1>1, TablesLoop
  <1>3. assets \in Seq(AssetDesc)
    OBVIOUS
  <1> DEFINE P == {n \in 0 .. N : TablesTo(assets, n, after[n])}
  <1>4. 0 \in P
    <2>1. after[0] = [records |-> <<>>, dependencies |-> <<>>, strings |-> <<>>]
      BY <1>1, <1>2
    <2>2. /\ after[0].records = <<>> /\ after[0].dependencies = <<>>
          /\ after[0].strings = <<>>
      BY <2>1
    <2>9. TablesTo(assets, 0, after[0])
      BY <2>1, <2>2 DEF TablesTo
    <2> QED
      BY <1>1, <2>9
  <1>5. ASSUME NEW n \in 0 .. N - 1, n \in P
        PROVE  n + 1 \in P
    <2>1. n + 1 \in 0 .. N /\ n + 1 # 0 /\ (n + 1) - 1 = n
      BY <1>1
    <2>2. after[n + 1] = TabulateAsset(after[n], assets[n + 1])
      BY <1>2, <2>1
    <2> HIDE DEF assets
    <2>3. TablesTo(assets, n + 1, after[n + 1])
      BY <1>3, <1>5, <2>2, TabulateAssetKeeps
    <2> QED
      BY <2>1, <2>3
  <1>6. N \in P
    <2> HIDE DEF P, N
    <2>1. 0 .. N \subseteq P
      BY <1>1, <1>4, <1>5, AllUpTo
    <2>2. N \in 0 .. N
      BY <1>1
    <2> QED
      BY <2>1, <2>2
  <1> QED
    BY <1>2, <1>6

-----------------------------------------------------------------------------
\* What LoadToc and BuildIndex make of it.

LEMMA SeqWiden ==
    ASSUME NEW S, NEW T, S \subseteq T, NEW s \in Seq(S)
    PROVE  s \in Seq(T)
  OBVIOUS

\* The cells of a TOC with header h and the tables p, q, r and s.
Parts(S, toc, h, p, q, r, s) ==
    /\ h \in S /\ p \in Seq(S) /\ q \in Seq(S) /\ r \in Seq(S) /\ s \in Seq(S)
    /\ toc = <<h>> \o p \o q \o r \o s

\* The tables lie one after the other.
LEMMA PartsLie ==
    ASSUME NEW S, NEW toc, NEW h, NEW p, NEW q, NEW r, NEW s, Parts(S, toc, h, p, q, r, s)
    PROVE  /\ toc \in Seq(S) /\ toc # <<>> /\ toc[1] = h
           /\ Lies(toc, 1, p)
           /\ Lies(toc, 1 + Len(p), q)
           /\ Lies(toc, 1 + Len(p) + Len(q), r)
           /\ Lies(toc, 1 + Len(p) + Len(q) + Len(r), s)
  <1> DEFINE one == <<h>>
             two == one \o p
             three == two \o q
             four == three \o r
             five == four \o s
  <1>0. /\ h \in S /\ p \in Seq(S) /\ q \in Seq(S) /\ r \in Seq(S) /\ s \in Seq(S)
        /\ toc = <<h>> \o p \o q \o r \o s
    BY DEF Parts
  <1>1. one \in Seq(S) /\ Len(one) = 1 /\ one[1] = h
    BY <1>0
  <1> HIDE DEF one
  <1>2. Len(p) \in Nat /\ Len(q) \in Nat /\ Len(r) \in Nat /\ Len(s) \in Nat
    BY <1>0
  <1>3. two \in Seq(S) /\ Len(two) = 1 + Len(p)
    BY <1>0, <1>1, ConcatProperties
  <1>4. Lies(two, 1, p) /\ two[1] = h
    <2>1. Lies(two, Len(one), p)
      BY <1>0, <1>1, LiesLast
    <2>2. two[1] = h
      BY <1>0, <1>1, <1>2, ConcatProperties
    <2> QED
      BY <1>1, <2>1, <2>2
  <1> HIDE DEF two
  <1>5. three \in Seq(S) /\ Len(three) = 1 + Len(p) + Len(q)
    <2>1. three \in Seq(S) /\ Len(three) = Len(two) + Len(q)
      BY <1>0, <1>3, ConcatProperties
    <2> QED
      BY <1>2, <1>3, <2>1
  <1>6. Lies(three, 1, p) /\ Lies(three, 1 + Len(p), q) /\ three[1] = h
    <2>1. Lies(three, Len(two), q)
      BY <1>0, <1>3, LiesLast
    <2>2. Lies(three, 1, p)
      BY <1>0, <1>2, <1>3, <1>4, LiesStill
    <2>3. three[1] = h
      BY <1>0, <1>2, <1>3, <1>4, ConcatProperties
    <2> QED
      BY <1>3, <2>1, <2>2, <2>3
  <1> HIDE DEF three
  <1>7. four \in Seq(S) /\ Len(four) = 1 + Len(p) + Len(q) + Len(r)
    <2>1. four \in Seq(S) /\ Len(four) = Len(three) + Len(r)
      BY <1>0, <1>5, ConcatProperties
    <2> QED
      BY <1>2, <1>5, <2>1
  <1>8. /\ Lies(four, 1, p) /\ Lies(four, 1 + Len(p), q)
        /\ Lies(four, 1 + Len(p) + Len(q), r) /\ four[1] = h
    <2>1. Lies(four, Len(three), r)
      BY <1>0, <1>5, LiesLast
    <2>2. Lies(four, 1, p) /\ Lies(four, 1 + Len(p), q)
      BY <1>0, <1>2, <1>5, <1>6, LiesStill
    <2>3. four[1] = h
      BY <1>0, <1>2, <1>5, <1>6, ConcatProperties
    <2> QED
      BY <1>5, <2>1, <2>2, <2>3
  <1> HIDE DEF four
  <1>9. /\ five \in Seq(S) /\ five # <<>> /\ five[1] = h
        /\ Lies(five, 1 + Len(p) + Len(q) + Len(r), s)
    <2>1. five \in Seq(S) /\ Len(five) = Len(four) + Len(s)
      BY <1>0, <1>7, ConcatProperties
    <2>2. Lies(five, Len(four), s)
      BY <1>0, <1>7, LiesLast
    <2>3. five[1] = h
      BY <1>0, <1>2, <1>7, <1>8, ConcatProperties
    <2>4. five # <<>>
      <3>1. Len(five) # 0
        BY <1>2, <1>7, <2>1
      <3> QED
        BY <3>1
    <2> QED
      BY <1>7, <2>1, <2>2, <2>3, <2>4
  <1>10. /\ Lies(five, 1, p) /\ Lies(five, 1 + Len(p), q)
         /\ Lies(five, 1 + Len(p) + Len(q), r)
    BY <1>0, <1>2, <1>7, <1>8, LiesStill
  <1>11. toc = five
    BY <1>0 DEF one, two, three, four
  <1> HIDE DEF five
  <1> QED
    BY <1>9, <1>10, <1>11

\* ReadTable
LEMMA TableRead ==
    ASSUME NEW S, NEW toc \in Seq(S), NEW part \in Seq(S), NEW offset,
           Lies(toc, offset, part)
    PROVE  ReadTable(toc, offset, Len(part)) = Done(part)
  <1>1. Len(toc) \in Nat /\ Len(part) \in Nat /\ offset \in Nat
        /\ offset + Len(part) <= Len(toc)
    BY DEF Lies
  <1>2. CASE Len(part) = 0
    <2>1. part = <<>>
      BY <1>2
    <2> QED
      BY <1>2, <2>1 DEF ReadTable
  <1>3. CASE Len(part) # 0
    <2>1. ReadTable(toc, offset, Len(part))
            = Done(SubSeq(toc, offset + 1, offset + Len(part)))
      BY <1>1, <1>3 DEF ReadTable
    <2>2. SubSeq(toc, offset + 1, offset + Len(part)) = part
      BY LiesRead
    <2> QED
      BY <2>1, <2>2
  <1> QED
    BY <1>2, <1>3

\* outMaxAlignment is never 0.
LEMMA AlignmentPositive ==
    ASSUME NEW b, b.chunks \in Seq(Chunk)
    PROVE  LargestAlignment(b) \in 1 .. MaxAlignment
  <1> DEFINE S == {1} \cup {b.chunks[k].alignment : k \in DOMAIN b.chunks}
  <1>1. ASSUME NEW k \in DOMAIN b.chunks
        PROVE  b.chunks[k].alignment \in 1 .. MaxAlignment
    <2>1. b.chunks[k] \in Chunk
      OBVIOUS
    <2> QED
      BY <2>1 DEF Chunk
  <1>2. MaxAlignment \in Nat /\ 1 \in 1 .. MaxAlignment
    BY FormatAssumption
  <1>3. S \subseteq 1 .. MaxAlignment /\ S # {}
    BY <1>1, <1>2
  <1> HIDE DEF S
  <1>4. Max(S) \in S
    BY <1>2, <1>3, GreatestOf
  <1> QED
    BY <1>3, <1>4 DEF LargestAlignment, S

\* A builder without bad or double ids, which is what AddChunk and AddAsset leave.
GoodBuilder(b) ==
    /\ b.chunks \in Seq(Chunk) /\ b.assets \in Seq(AssetDesc)
    /\ \A k, j \in DOMAIN b.chunks : k # j => b.chunks[k].chunkId # b.chunks[j].chunkId
    /\ \A k \in DOMAIN b.assets : ValidAsset(b.assets[k])
    /\ \A k, j \in DOMAIN b.assets : k # j => b.assets[k].assetId # b.assets[j].assetId

\* The tables that LoadToc makes of what Build writes.
TablesOf(b) ==
    [assets |-> BuildTables(b).records, chunks |-> BuildDataFile(b).records,
     dependencies |-> BuildTables(b).dependencies, strings |-> BuildTables(b).strings,
     dataFileSize |-> Len(BuildDataFile(b).data)]

LEMMA BuiltLoads ==
    ASSUME NEW b, GoodBuilder(b), Build(b).ok
    PROVE  /\ Build(b).value.data = BuildDataFile(b).data
           /\ LoadToc(Build(b).value.toc) = Done(TablesOf(b))
  <1> DEFINE file == BuildDataFile(b)
             tables == BuildTables(b)
             assets == tables.records
             chunks == file.records
             dependencies == tables.dependencies
             strings == tables.strings
             chunksAt == 1 + Len(assets)
             dependenciesAt == chunksAt + Len(chunks)
             stringsAt == dependenciesAt + Len(dependencies)
             size == Len(file.data)
             alignment == LargestAlignment(b)
             header ==
                [version |-> FormatVersion, layout |-> ThisLayout,
                 assetTableOffset |-> 1, assetCount |-> Len(assets),
                 chunkTableOffset |-> chunksAt, chunkCount |-> Len(chunks),
                 dependencyTableOffset |-> dependenciesAt,
                 dependencyCount |-> Len(dependencies),
                 stringTableOffset |-> stringsAt, stringTableSize |-> Len(strings),
                 dataFileSize |-> size, alignment |-> alignment]
             toc == <<header>> \o assets \o chunks \o dependencies \o strings
             S == {header} \cup AssetRecord \cup ChunkRecord \cup Nat
  <1>1. Build(b) = Done([toc |-> toc, data |-> file.data])
    BY DEF Build, Failed
  <1>2. Build(b).value.toc = toc /\ Build(b).value.data = file.data
    <2> HIDE DEF toc, file
    <2>1. Build(b).value = [toc |-> toc, data |-> file.data]
      BY <1>1 DEF Done
    <2> QED
      BY <2>1
  <1>3. FileTo(b.chunks, Len(b.chunks), file) /\ TablesTo(b.assets, Len(b.assets), tables)
    BY DataFileBuilt, TablesBuilt DEF GoodBuilder
  <1>4. /\ assets \in Seq(AssetRecord) /\ chunks \in Seq(ChunkRecord)
        /\ dependencies \in Seq(Nat) /\ strings \in Seq(Nat)
        /\ file.data \in Seq(Nat) /\ size # 0
    BY <1>3 DEF FileTo, TablesTo
  <1>5. alignment # 0
    BY AlignmentPositive DEF GoodBuilder
  <1> HIDE DEF file, tables, assets, chunks, dependencies, strings, size, alignment
  <1>6. /\ header.version = FormatVersion /\ header.layout = ThisLayout
        /\ header.assetTableOffset = 1 /\ header.assetCount = Len(assets)
        /\ header.chunkTableOffset = chunksAt /\ header.chunkCount = Len(chunks)
        /\ header.dependencyTableOffset = dependenciesAt
        /\ header.dependencyCount = Len(dependencies)
        /\ header.stringTableOffset = stringsAt /\ header.stringTableSize = Len(strings)
        /\ header.dataFileSize = size /\ header.alignment = alignment
    OBVIOUS
  <1>7. /\ header \in S /\ assets \in Seq(S) /\ chunks \in Seq(S)
        /\ dependencies \in Seq(S) /\ strings \in Seq(S)
    <2>1. /\ header \in S /\ AssetRecord \subseteq S /\ ChunkRecord \subseteq S
          /\ Nat \subseteq S
      OBVIOUS
    <2> HIDE DEF header, S
    <2> QED
      BY <1>4, <2>1, SeqWiden
  <1> HIDE DEF S
  <1>8. /\ toc \in Seq(S) /\ toc # <<>> /\ toc[1] = header
        /\ Lies(toc, 1, assets) /\ Lies(toc, chunksAt, chunks)
        /\ Lies(toc, dependenciesAt, dependencies) /\ Lies(toc, stringsAt, strings)
    <2> HIDE DEF header
    <2>1. toc = <<header>> \o assets \o chunks \o dependencies \o strings
      OBVIOUS
    <2> HIDE DEF toc
    <2>2. Parts(S, toc, header, assets, chunks, dependencies, strings)
      BY <1>7, <2>1 DEF Parts
    <2>3. /\ toc \in Seq(S) /\ toc # <<>> /\ toc[1] = header
          /\ Lies(toc, 1, assets)
          /\ Lies(toc, 1 + Len(assets), chunks)
          /\ Lies(toc, 1 + Len(assets) + Len(chunks), dependencies)
          /\ Lies(toc, 1 + Len(assets) + Len(chunks) + Len(dependencies), strings)
      BY <2>2, PartsLie
    <2> QED
      BY <2>3
  <1> HIDE DEF toc, header, chunksAt, dependenciesAt, stringsAt
  <1>9. /\ ReadTable(toc, 1, Len(assets)) = Done(assets)
        /\ ReadTable(toc, chunksAt, Len(chunks)) = Done(chunks)
        /\ ReadTable(toc, dependenciesAt, Len(dependencies)) = Done(dependencies)
        /\ ReadTable(toc, stringsAt, Len(strings)) = Done(strings)
    BY <1>7, <1>8, TableRead
  <1>10. ValidateHeader(toc[1])
    BY <1>4, <1>5, <1>6, <1>8 DEF ValidateHeader, FormatVersion
  <1>11. LoadToc(toc) = Done([assets |-> assets, chunks |-> chunks,
                              dependencies |-> dependencies, strings |-> strings,
                              dataFileSize |-> size])
    <2> DEFINE h == toc[1]
    <2>1. /\ ReadTable(toc, h.assetTableOffset, h.assetCount) = Done(assets)
          /\ ReadTable(toc, h.chunkTableOffset, h.chunkCount) = Done(chunks)
          /\ ReadTable(toc, h.dependencyTableOffset, h.dependencyCount) = Done(dependencies)
          /\ ReadTable(toc, h.stringTableOffset, h.stringTableSize) = Done(strings)
          /\ h.dataFileSize = size
      BY <1>6, <1>8, <1>9
    <2>2. /\ Done(assets).ok /\ Done(chunks).ok /\ Done(dependencies).ok /\ Done(strings).ok
          /\ Done(assets).value = assets /\ Done(chunks).value = chunks
          /\ Done(dependencies).value = dependencies /\ Done(strings).value = strings
      BY DEF Done
    <2>3. toc # <<>> /\ ValidateHeader(h)
      BY <1>8, <1>10
    <2> QED
      BY <2>1, <2>2, <2>3 DEF LoadToc
  <1> QED
    BY <1>2, <1>11 DEF TablesOf, file, tables, assets, chunks, dependencies, strings, size

\* BuildIndex
LEMMA BuiltIndexes ==
    ASSUME NEW b, GoodBuilder(b)
    PROVE  Indexable(TablesOf(b))
  <1> DEFINE file == BuildDataFile(b)
             tables == BuildTables(b)
             all == TablesOf(b)
  <1>1. FileTo(b.chunks, Len(b.chunks), file) /\ TablesTo(b.assets, Len(b.assets), tables)
    BY DataFileBuilt, TablesBuilt DEF GoodBuilder
  <1>2. all.assets = tables.records /\ all.chunks = file.records
        /\ all.dataFileSize = Len(file.data)
    BY DEF TablesOf
  <1>3. /\ DOMAIN tables.records = DOMAIN b.assets
        /\ DOMAIN file.records = DOMAIN b.chunks
        /\ DOMAIN b.assets = 1 .. Len(b.assets)
        /\ DOMAIN b.chunks = 1 .. Len(b.chunks)
        /\ Len(b.assets) \in Nat /\ Len(b.chunks) \in Nat
    BY <1>1 DEF FileTo, TablesTo, GoodBuilder
  <1> HIDE DEF file, tables, all
  <1>4. ASSUME NEW k \in DOMAIN b.assets
        PROVE  /\ tables.records[k].assetId = b.assets[k].assetId
               /\ tables.records[k].metadataChunkId = b.assets[k].metadataChunkId
    <2>1. Tabulated(tables, tables.records[k], b.assets[k])
      BY <1>1, <1>3 DEF TablesTo
    <2> QED
      BY <2>1 DEF Tabulated
  <1>5. ASSUME NEW k \in DOMAIN b.assets
        PROVE  /\ InvalidId \notin {tables.records[k].assetId,
                                    tables.records[k].metadataChunkId}
               /\ \A j \in 1 .. k - 1 :
                    tables.records[j].assetId # tables.records[k].assetId
    <2>1. ValidAsset(b.assets[k])
      BY DEF GoodBuilder
    <2>2. ASSUME NEW j \in 1 .. k - 1
          PROVE  tables.records[j].assetId # tables.records[k].assetId
      <3>1. j \in DOMAIN b.assets /\ j # k
        BY <1>3
      <3>2. b.assets[j].assetId # b.assets[k].assetId
        BY <3>1 DEF GoodBuilder
      <3> QED
        BY <1>4, <3>1, <3>2
    <2> QED
      BY <1>4, <2>1, <2>2 DEF ValidAsset
  <1>6. ASSUME NEW k \in DOMAIN b.chunks
        PROVE  file.records[k].chunkId = b.chunks[k].chunkId
    <2>1. Placed(file.data, file.records[k], b.chunks[k])
      BY <1>1, <1>3 DEF FileTo
    <2> QED
      BY <2>1 DEF Placed
  <1>7. ASSUME NEW k \in DOMAIN b.chunks
        PROVE  LET record == file.records[k] IN
               /\ record.chunkId # InvalidId
               /\ record.compressedSize # 0 /\ record.uncompressedSize # 0
               /\ EndsWithin(record, Len(file.data))
               /\ \A j \in 1 .. k - 1 : file.records[j].chunkId # record.chunkId
    <2>1. Placed(file.data, file.records[k], b.chunks[k])
      BY <1>1, <1>3 DEF FileTo
    <2>2. file.records[k] \in ChunkRecord
      <3>1. k \in 1 .. Len(file.records) /\ file.records \in Seq(ChunkRecord)
        BY <1>1, <1>3 DEF FileTo
      <3> QED
        BY <3>1
    <2>3. /\ file.records[k].chunkId # InvalidId
          /\ file.records[k].compressedSize # 0 /\ file.records[k].uncompressedSize # 0
      BY <2>2 DEF ChunkRecord, InvalidId
    <2>4. EndsWithin(file.records[k], Len(file.data))
      BY <2>1 DEF Placed, Lies, EndsWithin
    <2>5. ASSUME NEW j \in 1 .. k - 1
          PROVE  file.records[j].chunkId # file.records[k].chunkId
      <3>1. j \in DOMAIN b.chunks /\ j # k
        BY <1>3
      <3>2. b.chunks[j].chunkId # b.chunks[k].chunkId
        BY <3>1 DEF GoodBuilder
      <3> QED
        BY <1>6, <3>1, <3>2
    <2> QED
      BY <2>3, <2>4, <2>5
  <1> QED
    BY <1>2, <1>3, <1>5, <1>7 DEF Indexable, all

-----------------------------------------------------------------------------
\* From the descriptions to the records.

LEMMA BuilderGood ==
    ASSUME NEW chunks \in Seq(ChunkDesc), NEW assets \in Seq(AssetDesc), NEW b,
           b = AddAssets(AddChunks(EmptyBuilder, chunks), assets)
    PROVE  /\ GoodBuilder(b)
           /\ \A k \in DOMAIN b.chunks : AddedAs(chunks, Len(chunks), b.chunks[k])
           /\ \A k \in DOMAIN b.assets : \E j \in DOMAIN assets :
                    FirstAsset(assets, j) /\ b.assets[k] = assets[j]
  <1> DEFINE first == AddChunks(EmptyBuilder, chunks)
  <1>1. ChunksTo(chunks, Len(chunks), first)
    BY ChunksAdded
  <1> HIDE DEF first
  <1>2. /\ first = [chunks |-> first.chunks, assets |-> <<>>]
        /\ first.chunks \in Seq(Chunk)
        /\ \A k \in DOMAIN first.chunks : AddedAs(chunks, Len(chunks), first.chunks[k])
        /\ \A k, j \in DOMAIN first.chunks :
                k # j => first.chunks[k].chunkId # first.chunks[j].chunkId
    BY <1>1 DEF ChunksTo
  <1>3. b = AddAssets(first, assets)
    BY DEF first
  <1> DEFINE held == first.chunks
  <1>4. first = [chunks |-> held, assets |-> <<>>]
    BY <1>2
  <1> HIDE DEF held
  <1>5. AssetsTo(assets, Len(assets), held, b)
    BY <1>3, <1>4, AssetsAdded
  <1>6. /\ b = [chunks |-> held, assets |-> b.assets]
        /\ b.assets \in Seq(AssetDesc)
        /\ \A k \in DOMAIN b.assets : \E j \in 1 .. Len(assets) :
                j \in DOMAIN assets /\ FirstAsset(assets, j) /\ b.assets[k] = assets[j]
        /\ \A k, j \in DOMAIN b.assets : k # j => b.assets[k].assetId # b.assets[j].assetId
    BY <1>5 DEF AssetsTo
  <1>7. b.chunks = held
    BY <1>6
  <1>8. \A k \in DOMAIN b.assets : ValidAsset(b.assets[k])
    BY <1>6 DEF FirstAsset
  <1>9. GoodBuilder(b)
    BY <1>2, <1>6, <1>7, <1>8 DEF GoodBuilder, held
  <1> QED
    BY <1>2, <1>6, <1>7, <1>9 DEF held

\* The record of a chunk leads to the bytes of a chunk with its id.
LEMMA ChunkFound ==
    ASSUME NEW b, GoodBuilder(b), NEW id, NEW record \in ChunkRecordsOf(TablesOf(b), id)
    PROVE  \E j \in DOMAIN b.chunks : /\ b.chunks[j].chunkId = id
                                      /\ Placed(BuildDataFile(b).data, record, b.chunks[j])
  <1> DEFINE file == BuildDataFile(b)
             tables == TablesOf(b)
  <1>1. FileTo(b.chunks, Len(b.chunks), file) /\ tables.chunks = file.records
    BY DataFileBuilt DEF GoodBuilder, TablesOf
  <1>2. b.chunks \in Seq(Chunk)
    BY DEF GoodBuilder
  <1>3. record \in ToSet(tables.chunks) /\ record.chunkId = id
    BY DEF ChunkRecordsOf
  <1> HIDE DEF file, tables
  <1>4. PICK j \in DOMAIN file.records : record = file.records[j]
    BY <1>1, <1>3 DEF ToSet
  <1>5. j \in 1 .. Len(b.chunks) /\ j \in DOMAIN b.chunks
    BY <1>1, <1>2 DEF FileTo
  <1>6. Placed(file.data, record, b.chunks[j])
    BY <1>1, <1>4, <1>5 DEF FileTo
  <1>7. record.chunkId = b.chunks[j].chunkId
    BY <1>6 DEF Placed
  <1> QED
    BY <1>3, <1>5, <1>6, <1>7 DEF file

\* The record of an asset leads to what was added with its id.
LEMMA AssetFound ==
    ASSUME NEW b, GoodBuilder(b), NEW id, NEW record \in AssetRecordsOf(TablesOf(b), id)
    PROVE  \E j \in DOMAIN b.assets : /\ b.assets[j].assetId = id
                                      /\ Tabulated(BuildTables(b), record, b.assets[j])
  <1> DEFINE built == BuildTables(b)
             tables == TablesOf(b)
  <1>1. TablesTo(b.assets, Len(b.assets), built) /\ tables.assets = built.records
    BY TablesBuilt DEF GoodBuilder, TablesOf
  <1>2. b.assets \in Seq(AssetDesc)
    BY DEF GoodBuilder
  <1>3. record \in ToSet(tables.assets) /\ record.assetId = id
    BY DEF AssetRecordsOf
  <1> HIDE DEF built, tables
  <1>4. PICK j \in DOMAIN built.records : record = built.records[j]
    BY <1>1, <1>3 DEF ToSet
  <1>5. j \in 1 .. Len(b.assets) /\ j \in DOMAIN b.assets
    BY <1>1, <1>2 DEF TablesTo
  <1>6. Tabulated(built, record, b.assets[j])
    BY <1>1, <1>4, <1>5 DEF TablesTo
  <1>7. record.assetId = b.assets[j].assetId
    BY <1>6 DEF Tabulated
  <1> QED
    BY <1>3, <1>5, <1>6, <1>7 DEF built

-----------------------------------------------------------------------------
\* The invariant.

\* Packs in the order in which a search walks them.
Ordered(s) ==
    \A i, j \in DOMAIN s : i < j => packs[s[i]].priority >= packs[s[j]].priority

PacksOf(s) == s \in Seq(DOMAIN packs) /\ Ordered(s)

PacksInv ==
    /\ nextPackId \in Nat
    /\ DOMAIN packs \subseteq 0 .. nextPackId - 1
    /\ \A id \in DOMAIN packs : packs[id].priority \in Int

SnapshotInv ==
    /\ PacksOf(snapshot)
    /\ \A i, j \in DOMAIN snapshot : i # j => snapshot[i] # snapshot[j]
    /\ ToSet(snapshot) = mounted

\* What a call c holds.
CallOK(c) ==
    /\ c.pc = "opening" => c.id \in 0 .. nextPackId - 1 /\ c.priority \in Int
    /\ c.pc = "publishing" => c.id \in DOMAIN packs
    /\ c.pc = "walking" =>
        /\ PacksOf(c.snapshot)
        /\ c.expected = Answers(ToSet(c.snapshot), c.kind, c.key, c.within)
    /\ c.pc \in {"copying", "located"} => c.id \in c.expected

CallInv == DOMAIN call = Threads /\ \A t \in Threads : CallOK(call[t])

\* An id that Mount has taken is of no pack yet and of no other call.
FreshInv ==
    \A t \in Threads : call[t].pc = "opening" =>
        /\ call[t].id \notin DOMAIN packs
        /\ \A u \in Threads \ {t} : call[u].pc = "opening" => call[u].id # call[t].id

PackInv == PacksInv /\ SnapshotInv /\ CallInv /\ FreshInv

-----------------------------------------------------------------------------
\* What no step does to a pack.

\* Packs are never forgotten, and keep their priorities and their tables.
Kept ==
    /\ scope' = scope
    /\ nextPackId' \in Nat /\ nextPackId <= nextPackId'
    /\ \A id \in DOMAIN packs : /\ id \in DOMAIN packs'
                                /\ packs'[id].priority = packs[id].priority
                                /\ packs'[id].toc = packs[id].toc

\* The answers among packs that are kept stay the same.
LEMMA AnswersKept ==
    ASSUME Kept, NEW ids, ids \subseteq DOMAIN packs,
           NEW kind, NEW key, NEW within
    PROVE  Answers(ids, kind, key, within)' = Answers(ids, kind, key, within)
  <1>1. \A id \in ids : RecordsIn(id, kind, key)' = RecordsIn(id, kind, key)
    BY DEF Kept, RecordsIn, TocOf, Loaded
  <1>2. \A id \in ids : packs'[id].priority = packs[id].priority
    BY DEF Kept
  <1> QED
    BY <1>1, <1>2 DEF Answers

\* A sequence of packs that are kept stays in order.
LEMMA PacksOfKept ==
    ASSUME Kept, NEW s, PacksOf(s)
    PROVE  PacksOf(s)'
  <1>1. \A i \in DOMAIN s : s[i] \in DOMAIN packs
    BY DEF PacksOf
  <1>2. s \in Seq(DOMAIN packs')
    BY <1>1 DEF PacksOf, Kept
  <1>3. Ordered(s)'
    BY <1>1 DEF PacksOf, Kept, Ordered
  <1> QED
    BY <1>2, <1>3 DEF PacksOf

\* So does what a call holds.
LEMMA CallKept ==
    ASSUME Kept, PacksInv, NEW c, CallOK(c)
    PROVE  CallOK(c)'
  <1>1. c.pc = "opening" => c.id \in 0 .. nextPackId' - 1 /\ c.priority \in Int
    BY DEF CallOK, Kept, PacksInv
  <1>2. c.pc = "publishing" => c.id \in DOMAIN packs'
    BY DEF CallOK, Kept
  <1>3. ASSUME c.pc = "walking"
        PROVE  /\ PacksOf(c.snapshot)'
               /\ c.expected = Answers(ToSet(c.snapshot), c.kind, c.key, c.within)'
    <2>1. PacksOf(c.snapshot)
      BY <1>3 DEF CallOK
    <2>2. ToSet(c.snapshot) \subseteq DOMAIN packs
      BY <2>1 DEF PacksOf, ToSet
    <2>3. c.expected = Answers(ToSet(c.snapshot), c.kind, c.key, c.within)
      BY <1>3 DEF CallOK
    <2> QED
      BY <2>1, <2>2, <2>3, PacksOfKept, AnswersKept
  <1>4. c.pc \in {"copying", "located"} => c.id \in c.expected
    BY DEF CallOK
  <1> QED
    BY <1>1, <1>2, <1>3, <1>4 DEF CallOK

\* And what a thread holds while another one works.
LEMMA OthersKept ==
    ASSUME Kept, PackInv, NEW u \in Threads, call'[u] = call[u]
    PROVE  CallOK(call[u])'
  <1>1. PICK c : c = call[u]
    OBVIOUS
  <1>2. CallOK(c)'
    BY <1>1, CallKept DEF PackInv, CallInv
  <1>3. c = call'[u]
    BY <1>1
  <1> QED
    BY <1>2, <1>3 DEF CallOK, PacksOf, Ordered

-----------------------------------------------------------------------------
\* Steps that change what one thread holds, or what none does.

LEMMA OneCall ==
    ASSUME Kept, PackInv, NEW t \in Threads, NEW c, Becomes(t, c), CallOK(c)'
    PROVE  CallInv'
  <1>1. DOMAIN call = Threads
    BY DEF PackInv, CallInv
  <1>2. /\ DOMAIN call' = Threads
        /\ call'[t] = c
        /\ \A u \in Threads : u # t => call'[u] = call[u]
    BY <1>1 DEF Becomes
  <1>3. ASSUME NEW u \in Threads
        PROVE  CallOK(call[u])'
    <2>1. CASE u = t
      <3>1. c = call'[u]
        BY <2>1, <1>2
      <3> QED
        BY <3>1 DEF CallOK, PacksOf, Ordered
    <2>2. CASE u # t
      BY <2>2, <1>2, OthersKept
    <2> QED
      BY <2>1, <2>2
  <1> QED
    BY <1>2, <1>3 DEF CallInv

LEMMA NoCall ==
    ASSUME Kept, PackInv, call' = call
    PROVE  CallInv'
  <1>1. ASSUME NEW u \in Threads
        PROVE  CallOK(call[u])'
    BY OthersKept
  <1> QED
    BY <1>1 DEF CallInv, PackInv

\* A step that changes neither the packs nor the snapshot.
LEMMA SnapshotStays ==
    ASSUME PackInv, UNCHANGED <<scope, nextPackId, packs, snapshot, mounted>>
    PROVE  Kept /\ PacksInv' /\ SnapshotInv'
  BY DEF PackInv, Kept, PacksInv, SnapshotInv, PacksOf, Ordered

LEMMA CallStep ==
    ASSUME PackInv, NEW t \in Threads, NEW c, Becomes(t, c), CallOK(c),
           c.pc # "opening",
           UNCHANGED <<scope, nextPackId, packs, snapshot, mounted>>
    PROVE  PackInv'
  <1>1. Kept /\ PacksInv' /\ SnapshotInv'
    BY SnapshotStays
  <1>2. CallOK(c)'
    BY <1>1, CallKept DEF PackInv
  <1>3. FreshInv'
    BY DEF PackInv, CallInv, FreshInv, Becomes
  <1> QED
    BY <1>1, <1>2, <1>3, OneCall DEF PackInv

-----------------------------------------------------------------------------
\* The actions.

LEMMA BeginMountInv ==
    ASSUME PackInv, NEW t \in Threads, NEW name, NEW priority \in Priorities,
           BeginMount(t, name, priority)
    PROVE  PackInv'
  <1>1. nextPackId \in Nat /\ nextPackId' = nextPackId + 1
    BY DEF BeginMount, PackInv, PacksInv
  <1>2. PacksInv' /\ SnapshotInv' /\ Kept
    BY <1>1 DEF BeginMount, PackInv, PacksInv, SnapshotInv, Kept, PacksOf, Ordered
  <1>3. PICK c : /\ Becomes(t, c)
                 /\ c = IF disk[name].toc # 0 /\ TocOf(disk[name].toc).ok
                        THEN [pc |-> "opening", id |-> nextPackId, name |-> name,
                              priority |-> priority, toc |-> disk[name].toc]
                        ELSE [pc |-> "refused", toc |-> disk[name].toc,
                              data |-> disk[name].toc]
    BY DEF BeginMount
  <1>4. \/ c.pc = "refused"
        \/ c.pc = "opening" /\ c.id = nextPackId /\ c.priority = priority
    BY <1>3
  <1>5. CallOK(c)'
    BY <1>1, <1>4, PriorityAssumption DEF CallOK
  <1>6. FreshInv'
    <2>1. \A u \in Threads : call[u].pc = "opening" => call[u].id # nextPackId
      BY <1>1 DEF PackInv, CallInv, CallOK
    <2>2. nextPackId \notin DOMAIN packs
      BY <1>1 DEF PackInv, PacksInv
    <2> QED
      BY <1>3, <1>4, <2>1, <2>2 DEF BeginMount, PackInv, CallInv, FreshInv, Becomes
  <1> QED
    BY <1>2, <1>3, <1>5, <1>6, OneCall DEF PackInv

LEMMA OpenDataInv ==
    ASSUME PackInv, NEW t \in Threads, OpenData(t)
    PROVE  PackInv'
  <1> DEFINE c == call[t]
             data == disk[c.name].data
             pack == [name |-> c.name, priority |-> c.priority, toc |-> c.toc,
                      data |-> data, hasFile |-> TRUE]
  <1>1. /\ c.id \in 0 .. nextPackId - 1 /\ c.priority \in Int
        /\ c.pc = "opening" /\ c.id \notin DOMAIN packs
    BY DEF OpenData, At, PackInv, CallInv, CallOK, FreshInv
  <1>2. CASE Becomes(t, [pc |-> "refused", toc |-> c.toc, data |-> data]) /\ UNCHANGED packs
    <2>1. PICK r : r = [pc |-> "refused", toc |-> c.toc, data |-> data]
      OBVIOUS
    <2>2. CallOK(r) /\ r.pc # "opening"
      BY <2>1 DEF CallOK
    <2> QED
      BY <1>2, <2>1, <2>2, CallStep DEF OpenData
  <1>3. CASE /\ packs' = [id \in DOMAIN packs \cup {c.id} |->
                            IF id = c.id THEN pack ELSE packs[id]]
             /\ Becomes(t, [pc |-> "publishing", id |-> c.id])
    <2>1. pack.priority = c.priority
      OBVIOUS
    <2> HIDE DEF pack
    <2>2. PacksInv'
      BY <1>1, <1>3, <2>1 DEF OpenData, PackInv, PacksInv
    <2>3. Kept
      BY <1>1, <1>3 DEF OpenData, Kept, PackInv, PacksInv
    <2>4. SnapshotInv'
      BY <2>3, PacksOfKept DEF OpenData, PackInv, SnapshotInv, PacksOf, Ordered
    <2>5. PICK r : r = [pc |-> "publishing", id |-> c.id]
      OBVIOUS
    <2>6. CallOK(r)'
      BY <1>3, <2>5 DEF CallOK
    <2>7. FreshInv'
      BY <1>1, <1>3, <2>5 DEF PackInv, CallInv, FreshInv, Becomes
    <2> QED
      BY <1>3, <2>2, <2>3, <2>4, <2>5, <2>6, <2>7, OneCall DEF PackInv
  <1> QED
    BY <1>2, <1>3 DEF OpenData

\* The orders that SortByPriority may leave hold each pack once and no other.
LEMMA SortedIds ==
    ASSUME NEW ids, IsFiniteSet(ids), ids \subseteq DOMAIN packs, NEW s \in Sorted(ids)
    PROVE  /\ PacksOf(s)
           /\ \A i, j \in DOMAIN s : i # j => s[i] # s[j]
           /\ ToSet(s) = ids
  <1> DEFINE n == Cardinality(ids)
  <1>1. n \in Nat
    BY FS_CardinalityType
  <1>2. /\ s \in [1 .. n -> ids]
        /\ \A i, j \in 1 .. n : i # j => s[i] # s[j]
        /\ Ordered(s)
    BY DEF Sorted, SetToSeqs, Ordered
  <1> HIDE DEF n
  <1>3. PacksOf(s)
    BY <1>1, <1>2 DEF PacksOf
  <1>4. s \in Injection(1 .. n, ids)
    BY <1>2 DEF Injection, IsInjective
  <1>5. IsFiniteSet(1 .. n) /\ Cardinality(1 .. n) = n
    BY <1>1, FS_Interval
  <1>6. s \in Surjection(1 .. n, ids)
    BY <1>4, <1>5, FS_Injection DEF n
  <1>7. ToSet(s) = ids
    BY <1>2, <1>6 DEF ToSet, Surjection
  <1> QED
    BY <1>2, <1>3, <1>7

\* The elements of a sequence are finitely many.
LEMMA ToSetFinite ==
    ASSUME NEW S, NEW s \in Seq(S)
    PROVE  IsFiniteSet(ToSet(s))
  <1>1. s \in Surjection(1 .. Len(s), ToSet(s))
    BY DEF Surjection, ToSet
  <1>2. IsFiniteSet(1 .. Len(s))
    BY FS_Interval
  <1> QED
    BY <1>1, <1>2, FS_Surjection

LEMMA PublishInv ==
    ASSUME PackInv, NEW t \in Threads, Publish(t)
    PROVE  PackInv'
  <1> DEFINE id == call[t].id
             ids == ToSet(snapshot) \cup {id}
  <1>1. id \in DOMAIN packs
    BY DEF Publish, At, PackInv, CallInv, CallOK
  <1>2. ids \subseteq DOMAIN packs
    BY <1>1 DEF PackInv, SnapshotInv, PacksOf, ToSet
  <1>3. IsFiniteSet(ids)
    BY ToSetFinite, FS_AddElement DEF PackInv, SnapshotInv, PacksOf
  <1>4. snapshot' \in Sorted(ids)
    BY DEF Publish
  <1>5. PICK s : s = snapshot'
    OBVIOUS
  <1>6. ids = mounted'
    BY DEF Publish, PackInv, SnapshotInv
  <1> HIDE DEF ids
  <1>7. /\ PacksOf(s)
        /\ \A i, j \in DOMAIN s : i # j => s[i] # s[j]
        /\ ToSet(s) = ids
    BY <1>2, <1>3, <1>4, <1>5, SortedIds
  <1>8. SnapshotInv'
    BY <1>5, <1>6, <1>7 DEF Publish, SnapshotInv, PacksOf, Ordered
  <1>9. Kept /\ PacksInv'
    BY DEF Publish, Kept, PackInv, PacksInv
  <1>10. CallOK(Idle)' /\ Idle.pc # "opening"
    BY DEF CallOK, Idle
  <1>11. FreshInv'
    BY <1>10 DEF Publish, PackInv, CallInv, FreshInv, Becomes
  <1> QED
    BY <1>8, <1>9, <1>10, <1>11, OneCall DEF Publish, PackInv

\* A sequence without one of its elements.
LEMMA RemoveAtKeeps ==
    ASSUME NEW S, NEW s \in Seq(S), NEW n \in DOMAIN s
    PROVE  /\ RemoveAt(s, n) \in Seq(S)
           /\ DOMAIN RemoveAt(s, n) = 1 .. Len(s) - 1
           /\ \A i \in 1 .. Len(s) - 1 :
                RemoveAt(s, n)[i] = s[IF i < n THEN i ELSE i + 1]
  <1> DEFINE a == SubSeq(s, 1, n - 1)
             b == SubSeq(s, n + 1, Len(s))
  <1>1. Len(s) \in Nat /\ n \in 1 .. Len(s)
    OBVIOUS
  <1>2. /\ a \in Seq(S) /\ Len(a) = n - 1
        /\ \A i \in 1 .. n - 1 : a[i] = s[i]
    BY <1>1, SubSeqProperties
  <1>3. /\ b \in Seq(S) /\ Len(b) = Len(s) - n
        /\ \A i \in 1 .. Len(s) - n : b[i] = s[i + n]
    BY <1>1, SubSeqProperties
  <1> HIDE DEF a, b
  <1>4. /\ a \o b \in Seq(S) /\ Len(a \o b) = Len(s) - 1
        /\ \A i \in 1 .. Len(s) - 1 :
            (a \o b)[i] = IF i <= n - 1 THEN a[i] ELSE b[i - (n - 1)]
    <2>1. /\ a \o b \in Seq(S)
          /\ Len(a \o b) = Len(a) + Len(b)
          /\ \A i \in 1 .. Len(a) + Len(b) :
                (a \o b)[i] = IF i <= Len(a) THEN a[i] ELSE b[i - Len(a)]
      BY <1>2, <1>3, ConcatProperties
    <2>2. Len(a) + Len(b) = Len(s) - 1
      BY <1>1, <1>2, <1>3
    <2> QED
      BY <1>2, <2>1, <2>2
  <1>5. ASSUME NEW i \in 1 .. Len(s) - 1
        PROVE  (a \o b)[i] = s[IF i < n THEN i ELSE i + 1]
    <2>1. CASE i < n
      BY <2>1, <1>1, <1>2, <1>4
    <2>2. CASE ~(i < n)
      <3>1. i - (n - 1) \in 1 .. Len(s) - n /\ i - (n - 1) + n = i + 1 /\ ~(i <= n - 1)
        BY <2>2, <1>1
      <3> QED
        BY <2>2, <3>1, <1>3, <1>4
    <2> QED
      BY <2>1, <2>2
  <1>6. RemoveAt(s, n) = a \o b
    BY DEF RemoveAt, a, b
  <1> QED
    BY <1>1, <1>4, <1>5, <1>6

LEMMA UmountInv ==
    ASSUME PackInv, NEW t \in Threads, NEW id \in DOMAIN packs, Umount(t, id)
    PROVE  PackInv'
  <1>1. PICK n \in DOMAIN snapshot : snapshot[n] = id /\ snapshot' = RemoveAt(snapshot, n)
    BY DEF Umount
  <1>2. packs' = [packs EXCEPT ![id].hasFile = FALSE]
    BY DEF Umount
  <1>3. DOMAIN packs' = DOMAIN packs
        /\ \A other \in DOMAIN packs : /\ packs'[other].priority = packs[other].priority
                                       /\ packs'[other].toc = packs[other].toc
    BY <1>2
  <1>4. Kept /\ PacksInv'
    BY <1>3 DEF Umount, Kept, PackInv, PacksInv
  <1> DEFINE move(i) == IF i < n THEN i ELSE i + 1
  <1>5. /\ snapshot \in Seq(DOMAIN packs) /\ Ordered(snapshot)
        /\ \A i, j \in DOMAIN snapshot : i # j => snapshot[i] # snapshot[j]
        /\ ToSet(snapshot) = mounted
    BY DEF PackInv, SnapshotInv, PacksOf
  <1>6. Len(snapshot) \in Nat /\ DOMAIN snapshot = 1 .. Len(snapshot)
    BY <1>5
  <1>7. /\ snapshot' \in Seq(DOMAIN packs)
        /\ DOMAIN snapshot' = 1 .. Len(snapshot) - 1
        /\ \A i \in DOMAIN snapshot' : snapshot'[i] = snapshot[move(i)]
    BY <1>1, <1>5, RemoveAtKeeps
  <1>8. \A i \in DOMAIN snapshot' : move(i) \in DOMAIN snapshot /\ move(i) # n
    BY <1>1, <1>6, <1>7
  <1>9. \A i, j \in DOMAIN snapshot' : i < j => move(i) < move(j)
    BY <1>1, <1>6, <1>7
  <1>10. \A k \in DOMAIN snapshot \ {n} : \E i \in DOMAIN snapshot' : move(i) = k
    <2> TAKE k \in DOMAIN snapshot \ {n}
    <2>1. CASE k < n
      <3>1. k \in DOMAIN snapshot' /\ move(k) = k
        BY <2>1, <1>1, <1>6, <1>7
      <3> QED
        BY <3>1
    <2>2. CASE ~(k < n)
      <3>1. k - 1 \in DOMAIN snapshot' /\ move(k - 1) = k
        BY <2>2, <1>1, <1>6, <1>7
      <3> QED
        BY <3>1
    <2> QED
      BY <2>1, <2>2
  <1> HIDE DEF move
  <1>11. PacksOf(snapshot)'
    <2>1. ASSUME NEW i \in DOMAIN snapshot', NEW j \in DOMAIN snapshot', i < j
          PROVE  packs'[snapshot'[i]].priority >= packs'[snapshot'[j]].priority
      <3>1. /\ move(i) \in DOMAIN snapshot /\ move(j) \in DOMAIN snapshot
            /\ move(i) < move(j)
        BY <2>1, <1>8, <1>9
      <3>2. packs[snapshot[move(i)]].priority >= packs[snapshot[move(j)]].priority
        BY <3>1, <1>5 DEF Ordered
      <3>3. snapshot[move(i)] \in DOMAIN packs /\ snapshot[move(j)] \in DOMAIN packs
        BY <3>1, <1>5
      <3> QED
        BY <3>2, <3>3, <1>3, <1>7
    <2> QED
      BY <2>1, <1>3, <1>7 DEF PacksOf, Ordered
  <1>12. \A i, j \in DOMAIN snapshot' : i # j => snapshot'[i] # snapshot'[j]
    <2>1. \A i \in DOMAIN snapshot' : i \in Int
      BY <1>7
    <2>2. \A i, j \in DOMAIN snapshot' : i # j => move(i) # move(j)
      BY <2>1, <1>6, <1>8, <1>9
    <2> QED
      BY <2>2, <1>5, <1>7, <1>8
  <1>13. ToSet(snapshot') = mounted'
    <2>1. mounted' = {snapshot[k] : k \in DOMAIN snapshot \ {n}}
      BY <1>1, <1>5 DEF Umount, ToSet
    <2> QED
      BY <2>1, <1>7, <1>8, <1>10 DEF ToSet
  <1>14. SnapshotInv'
    BY <1>11, <1>12, <1>13 DEF SnapshotInv
  <1>15. FreshInv' /\ CallInv'
    BY <1>3, <1>4, NoCall DEF Umount, PackInv, FreshInv
  <1> QED
    BY <1>4, <1>14, <1>15 DEF PackInv

LEMMA UnmountAllInv ==
    ASSUME PackInv, NEW t \in Threads, UnmountAll(t)
    PROVE  PackInv'
  <1>1. Kept /\ PacksInv'
    BY DEF UnmountAll, Kept, PackInv, PacksInv
  <1>2. SnapshotInv'
    BY DEF UnmountAll, SnapshotInv, PacksOf, Ordered, ToSet
  <1>3. FreshInv' /\ CallInv'
    BY <1>1, NoCall DEF UnmountAll, PackInv, FreshInv
  <1> QED
    BY <1>1, <1>2, <1>3 DEF PackInv

\* The search begins with the packs that are mounted, and expects what they hold.
LEMMA BeginFindInv ==
    ASSUME PackInv, NEW t \in Threads, NEW kind, NEW key, NEW within,
           BeginFind(t, kind, key, within)
    PROVE  PackInv'
  <1>1. PICK c : c = [pc |-> "walking", kind |-> kind, key |-> key, within |-> within,
                      snapshot |-> snapshot,
                      expected |-> Answers(mounted, kind, key, within)]
    OBVIOUS
  <1>2. /\ c.pc = "walking" /\ c.kind = kind /\ c.key = key /\ c.within = within
        /\ c.snapshot = snapshot /\ c.expected = Answers(mounted, kind, key, within)
    BY <1>1
  <1>3. CallOK(c)
    BY <1>2 DEF CallOK, PackInv, SnapshotInv
  <1> QED
    BY <1>1, <1>2, <1>3, CallStep DEF BeginFind

\* The first pack of the walk that has the id is one of those that may answer.
LEMMA FirstHit ==
    ASSUME PacksInv, NEW s, PacksOf(s), NEW kind, NEW key, NEW within,
           NEW hits, hits = {i \in DOMAIN s : /\ within \in {None, s[i]}
                                              /\ RecordsIn(s[i], kind, key) # {}},
           hits # {}
    PROVE  s[Min(hits)] \in Answers(ToSet(s), kind, key, within)
  <1> DEFINE having == {id \in ToSet(s) : /\ within \in {None, id}
                                          /\ RecordsIn(id, kind, key) # {}}
             found == Min(hits)
  <1>1. hits \subseteq Nat /\ DOMAIN s \subseteq Nat
    BY DEF PacksOf
  <1>2. found \in hits /\ \A j \in hits : found <= j
    BY <1>1, LeastOf
  <1> HIDE DEF found
  <1>3. s[found] \in having
    BY <1>2 DEF ToSet
  <1>4. ASSUME NEW other \in having
        PROVE  packs[s[found]].priority >= packs[other].priority
    <2>1. PICK j \in DOMAIN s : other = s[j]
      BY DEF ToSet
    <2>2. j \in hits
      BY <2>1
    <2>3. found = j \/ found < j
      BY <1>1, <1>2, <2>2
    <2>4. packs[s[j]].priority \in Int
      BY <2>1 DEF PacksOf, PacksInv
    <2> QED
      BY <1>2, <2>1, <2>3, <2>4 DEF PacksOf, Ordered
  <1>5. Answers(ToSet(s), kind, key, within) =
            {id \in having : \A other \in having :
                packs[id].priority >= packs[other].priority}
    BY <1>3 DEF Answers
  <1> QED
    BY <1>3, <1>4, <1>5 DEF found

\* A walk that finds nothing is right to.
LEMMA NoHit ==
    ASSUME NEW s, NEW kind, NEW key, NEW within,
           {i \in DOMAIN s : /\ within \in {None, s[i]}
                             /\ RecordsIn(s[i], kind, key) # {}} = {}
    PROVE  None \in Answers(ToSet(s), kind, key, within)
  <1>1. {id \in ToSet(s) : /\ within \in {None, id}
                           /\ RecordsIn(id, kind, key) # {}} = {}
    BY DEF ToSet
  <1> QED
    BY <1>1 DEF Answers

LEMMA WalkInv ==
    ASSUME PackInv, NEW t \in Threads, Walk(t)
    PROVE  PackInv'
  <1> DEFINE c == call[t]
             hits == {i \in DOMAIN c.snapshot :
                        /\ c.within \in {None, c.snapshot[i]}
                        /\ RecordsIn(c.snapshot[i], c.kind, c.key) # {}}
             found == c.snapshot[Min(hits)]
             next == IF hits = {} THEN Located(c, None, "null")
                     ELSE IF c.kind = "asset" THEN Located(c, found, "null")
                     ELSE [pc |-> "copying", kind |-> c.kind, key |-> c.key,
                           snapshot |-> c.snapshot, expected |-> c.expected,
                           id |-> found, hasFile |-> packs[found].hasFile]
  <1>1. /\ PacksOf(c.snapshot) /\ PacksInv
        /\ c.expected = Answers(ToSet(c.snapshot), c.kind, c.key, c.within)
    BY DEF Walk, At, PackInv, CallInv, CallOK
  <1>2. hits = {} => None \in c.expected
    BY <1>1, NoHit
  <1>3. hits # {} => found \in c.expected
    BY <1>1, FirstHit
  <1>4. Becomes(t, next)
    BY DEF Walk
  <1> HIDE DEF c, hits, found
  <1>5. PICK r : r = next
    OBVIOUS
  <1>6. /\ r.pc \in {"copying", "located"} /\ r.expected = c.expected
        /\ hits = {} => r.id = None
        /\ hits # {} => r.id = found
    BY <1>5 DEF Located
  <1>7. CallOK(r) /\ r.pc # "opening"
    BY <1>2, <1>3, <1>6 DEF CallOK
  <1> HIDE DEF next
  <1> QED
    BY <1>4, <1>5, <1>7, CallStep DEF Walk

LEMMA CopyFileInv ==
    ASSUME PackInv, NEW t \in Threads, CopyFile(t)
    PROVE  PackInv'
  <1> DEFINE c == call[t]
  <1>1. c.id \in c.expected
    BY DEF CopyFile, At, PackInv, CallInv, CallOK
  <1>2. PICK file : Becomes(t, Located(c, c.id, file))
    BY DEF CopyFile
  <1> HIDE DEF c
  <1>3. PICK r : r = Located(c, c.id, file)
    OBVIOUS
  <1>4. r.pc = "located" /\ r.id = c.id /\ r.expected = c.expected
    BY <1>3 DEF Located
  <1>5. CallOK(r)
    BY <1>1, <1>4 DEF CallOK
  <1> QED
    BY <1>2, <1>3, <1>4, <1>5, CallStep DEF CopyFile

\* Reads and the return of a call leave nothing to be kept.
LEMMA DoneStep ==
    ASSUME PackInv, NEW t \in Threads, NEW c, Becomes(t, c),
           c.pc \in {"idle", "refused", "reading", "read"},
           UNCHANGED <<scope, nextPackId, packs, snapshot, mounted>>
    PROVE  PackInv'
  <1>1. CallOK(c) /\ c.pc # "opening"
    BY DEF CallOK
  <1> QED
    BY <1>1, CallStep

LEMMA ReadInv ==
    ASSUME PackInv, NEW t \in Threads, NEW dstSize,
           ReadSync(t, dstSize) \/ LaunchRead(t, dstSize) \/ RunRead(t) \/ Return(t)
    PROVE  PackInv'
  <1>1. \E c : Becomes(t, c) /\ c.pc \in {"idle", "reading", "read"}
    <2>1. CASE ReadSync(t, dstSize)
      <3>1. PICK result : Becomes(t, Read(call[t], "sync", dstSize, result))
        BY <2>1 DEF ReadSync
      <3> QED
        BY <3>1 DEF Read
    <2>2. CASE LaunchRead(t, dstSize)
      BY <2>2 DEF LaunchRead, Read
    <2>3. CASE RunRead(t)
      <3>1. PICK result : Becomes(t, Read(call[t], "async", call[t].dstSize, result))
        BY <2>3 DEF RunRead
      <3> QED
        BY <3>1 DEF Read
    <2>4. CASE Return(t)
      BY <2>4 DEF Return, Idle
    <2> QED
      BY <2>1, <2>2, <2>3, <2>4
  <1>2. UNCHANGED <<scope, nextPackId, packs, snapshot, mounted>>
    BY DEF ReadSync, LaunchRead, RunRead, Return
  <1> QED
    BY <1>1, <1>2, DoneStep

-----------------------------------------------------------------------------
\* The theorem.

LEMMA Init_Inv == Init => PackInv
  <1> SUFFICES ASSUME Init
               PROVE  PackInv
    OBVIOUS
  <1>1. PacksInv /\ SnapshotInv
    BY DEF Init, PacksInv, SnapshotInv, PacksOf, Ordered, ToSet
  <1>2. Idle.pc = "idle"
    BY DEF Idle
  <1>3. CallInv /\ FreshInv
    BY <1>2 DEF Init, CallInv, CallOK, FreshInv
  <1> QED
    BY <1>1, <1>3 DEF PackInv

\* Steps that change the files only, and steps that change nothing.
LEMMA FilesInv ==
    ASSUME PackInv, UNCHANGED <<scope, nextPackId, packs, snapshot, call, mounted>>
    PROVE  PackInv'
  <1>1. Kept /\ PacksInv' /\ SnapshotInv'
    BY SnapshotStays
  <1>2. FreshInv' /\ CallInv'
    BY <1>1, NoCall DEF PackInv, FreshInv
  <1> QED
    BY <1>1, <1>2 DEF PackInv

LEMMA Next_Inv == PackInv /\ [Next]_vars => PackInv'
  <1> SUFFICES ASSUME PackInv, [Next]_vars
               PROVE  PackInv'
    OBVIOUS
  <1>1. CASE UNCHANGED vars
    BY <1>1, FilesInv DEF vars
  <1>2. CASE WriteData \/ \E name \in Names, k \in Builds : WriteToc(name, k)
    BY <1>2, FilesInv DEF WriteData, WriteToc
  <1>3. ASSUME NEW t \in Threads, NEW name \in Names, NEW priority \in Priorities,
               BeginMount(t, name, priority)
        PROVE  PackInv'
    BY <1>3, BeginMountInv
  <1>4. ASSUME NEW t \in Threads, OpenData(t)
        PROVE  PackInv'
    BY <1>4, OpenDataInv
  <1>5. ASSUME NEW t \in Threads, Publish(t)
        PROVE  PackInv'
    BY <1>5, PublishInv
  <1>6. ASSUME NEW t \in Threads, NEW id \in DOMAIN packs, Umount(t, id)
        PROVE  PackInv'
    BY <1>6, UmountInv
  <1>7. ASSUME NEW t \in Threads, UnmountAll(t)
        PROVE  PackInv'
    BY <1>7, UnmountAllInv
  <1>8. ASSUME NEW t \in Threads, NEW kind, NEW key, NEW within,
               BeginFind(t, kind, key, within)
        PROVE  PackInv'
    BY <1>8, BeginFindInv
  <1>9. ASSUME NEW t \in Threads, Walk(t) \/ CopyFile(t)
        PROVE  PackInv'
    BY <1>9, WalkInv, CopyFileInv
  <1>10. ASSUME NEW t \in Threads, NEW dstSize,
                ReadSync(t, dstSize) \/ LaunchRead(t, dstSize) \/ RunRead(t) \/ Return(t)
         PROVE  PackInv'
    BY <1>10, ReadInv
  <1> QED
    BY <1>1, <1>2, <1>3, <1>4, <1>5, <1>6, <1>7, <1>8, <1>9, <1>10 DEF Next

\* TryFindAsset, TryFindChunk and TryFindChunkInPack answer with a pack of the
\* highest priority among those mounted when they began that have the id, or with
\* none if none has it, whatever is mounted and unmounted while they walk.
THEOREM SearchesAnswerTruly == Spec => []FindAnswersTruly
  <1>1. PackInv => FindAnswersTruly
    BY DEF PackInv, CallInv, CallOK, FindAnswersTruly
  <1> QED
    BY <1>1, Init_Inv, Next_Inv, PTL DEF Spec

-----------------------------------------------------------------------------
\* The files of the builds of a behaviour.

Files == DOMAIN Loaded[scope]

BuilderOf(k) ==
    AddAssets(AddChunks(EmptyBuilder, scope.builds[k].chunks), scope.builds[k].assets)

LEMMA FilesGood ==
    ASSUME scope \in Scopes, NEW k \in Files
    PROVE  /\ k # 0 /\ k \in DOMAIN scope.builds
           /\ scope.builds[k].chunks \in Seq(ChunkDesc)
           /\ scope.builds[k].assets \in Seq(AssetDesc)
           /\ GoodBuilder(BuilderOf(k))
           /\ TocOf(k) = Done(TablesOf(BuilderOf(k)))
           /\ DataOf(k) = BuildDataFile(BuilderOf(k)).data
  <1>1. k \in DOMAIN scope.builds /\ Written[scope][k].ok
    BY DEF Files, Loaded
  <1>2. /\ k # 0
        /\ scope.builds[k].chunks \in Seq(ChunkDesc)
        /\ scope.builds[k].assets \in Seq(AssetDesc)
    BY <1>1, ScopesAssumption DEF ChunkDesc, AssetDesc
  <1>3. GoodBuilder(BuilderOf(k))
    BY <1>2, BuilderGood DEF BuilderOf
  <1>4. Written[scope][k] = Build(BuilderOf(k))
    BY <1>1 DEF Written, BuilderOf
  <1>5. TocOf(k) = LoadToc(Build(BuilderOf(k)).value.toc)
    <2>1. Loaded[scope][k] = LoadToc(Written[scope][k].value.toc)
      BY DEF Files, Loaded
    <2> QED
      BY <1>4, <2>1 DEF TocOf
  <1>6. DataOf(k) = Build(BuilderOf(k)).value.data
    BY <1>4 DEF DataOf
  <1> QED
    BY <1>1, <1>2, <1>3, <1>4, <1>5, <1>6, BuiltLoads

\* AddedChunk and AddedAsset are the descriptions that the builder took.
LEMMA AddedChunkIs ==
    ASSUME NEW k, NEW j \in DOMAIN scope.builds[k].chunks,
           scope.builds[k].chunks \in Seq(ChunkDesc),
           FirstChunk(scope.builds[k].chunks, j)
    PROVE  AddedChunk(k, scope.builds[k].chunks[j].chunkId) = scope.builds[k].chunks[j]
  <1> DEFINE descs == scope.builds[k].chunks
             key == descs[j].chunkId
             Valid(d) == /\ d.chunkId = key /\ d.data # <<>>
                         /\ d.alignment \in 1 .. MaxAlignment
             First(n) == Valid(descs[n]) /\ \A i \in 1 .. n - 1 : ~Valid(descs[i])
             n == CHOOSE n \in DOMAIN descs : First(n)
  <1>1. AddedChunk(k, key) = descs[n]
    BY DEF AddedChunk, FirstOf
  <1>2. DOMAIN descs = 1 .. Len(descs) /\ Len(descs) \in Nat
    OBVIOUS
  <1>3. j \in DOMAIN descs /\ FirstChunk(descs, j)
    OBVIOUS
  <1>4. key # InvalidId
    BY <1>3 DEF FirstChunk, ValidChunk
  <1>5. \A i : Valid(descs[i]) <=> ValidChunk(descs[i]) /\ descs[i].chunkId = key
    BY <1>4 DEF ValidChunk
  <1>6. First(j)
    BY <1>3, <1>5 DEF FirstChunk
  <1> HIDE DEF First
  <1>7. n \in DOMAIN descs /\ First(n)
    BY <1>3, <1>6
  <1> HIDE DEF n, descs, Valid
  <1>8. n = j
    BY <1>2, <1>3, <1>6, <1>7 DEF First
  <1> QED
    BY <1>1, <1>8 DEF descs, key

LEMMA AddedAssetIs ==
    ASSUME NEW k, NEW j \in DOMAIN scope.builds[k].assets,
           scope.builds[k].assets \in Seq(AssetDesc),
           FirstAsset(scope.builds[k].assets, j)
    PROVE  AddedAsset(k, scope.builds[k].assets[j].assetId) = scope.builds[k].assets[j]
  <1> DEFINE descs == scope.builds[k].assets
             key == descs[j].assetId
             Valid(d) == d.assetId = key /\ d.metadataChunkId # InvalidId
             First(n) == Valid(descs[n]) /\ \A i \in 1 .. n - 1 : ~Valid(descs[i])
             n == CHOOSE n \in DOMAIN descs : First(n)
  <1>1. AddedAsset(k, key) = descs[n]
    BY DEF AddedAsset, FirstOf
  <1>2. DOMAIN descs = 1 .. Len(descs) /\ Len(descs) \in Nat
    OBVIOUS
  <1>3. j \in DOMAIN descs /\ FirstAsset(descs, j)
    OBVIOUS
  <1>4. key # InvalidId
    BY <1>3 DEF FirstAsset, ValidAsset
  <1>5. \A i : Valid(descs[i]) <=> ValidAsset(descs[i]) /\ descs[i].assetId = key
    BY <1>4 DEF ValidAsset
  <1>6. First(j)
    BY <1>3, <1>5 DEF FirstAsset
  <1> HIDE DEF First
  <1>7. n \in DOMAIN descs /\ First(n)
    BY <1>3, <1>6
  <1> HIDE DEF n, descs, Valid
  <1>8. n = j
    BY <1>2, <1>3, <1>6, <1>7 DEF First
  <1> QED
    BY <1>1, <1>8 DEF descs, key

\* A record that is found in a TOC is of what was added with the id.
LEMMA ChunkRecordGood ==
    ASSUME scope \in Scopes, NEW k \in Files, NEW key,
           NEW record \in ChunkRecordsOf(TocOf(k).value, key)
    PROVE  /\ AddedChunk(k, key) \in ChunkDesc
           /\ ValidChunk(AddedChunk(k, key))
           /\ Placed(DataOf(k), record, ChunkOf(AddedChunk(k, key)))
  <1> DEFINE b == BuilderOf(k)
             descs == scope.builds[k].chunks
  <1>1. /\ GoodBuilder(b) /\ TocOf(k) = Done(TablesOf(b))
        /\ DataOf(k) = BuildDataFile(b).data
        /\ descs \in Seq(ChunkDesc) /\ scope.builds[k].assets \in Seq(AssetDesc)
    BY FilesGood
  <1>2. \A c \in DOMAIN b.chunks : AddedAs(descs, Len(descs), b.chunks[c])
    BY <1>1, BuilderGood DEF BuilderOf
  <1> HIDE DEF b
  <1>3. TocOf(k).value = TablesOf(b)
    BY <1>1 DEF Done
  <1>4. PICK c \in DOMAIN b.chunks : /\ b.chunks[c].chunkId = key
                                     /\ Placed(DataOf(k), record, b.chunks[c])
    BY <1>1, <1>3, ChunkFound
  <1>5. PICK j \in DOMAIN descs : FirstChunk(descs, j) /\ b.chunks[c] = ChunkOf(descs[j])
    BY <1>2, <1>4 DEF AddedAs
  <1>6. descs[j].chunkId = key
    BY <1>4, <1>5 DEF ChunkOf
  <1>7. AddedChunk(k, key) = descs[j]
    BY <1>1, <1>5, <1>6, AddedChunkIs
  <1>8. descs[j] \in ChunkDesc /\ ValidChunk(descs[j])
    BY <1>1, <1>5 DEF FirstChunk
  <1> QED
    BY <1>4, <1>5, <1>7, <1>8

LEMMA AssetRecordGood ==
    ASSUME scope \in Scopes, NEW k \in Files, NEW key,
           NEW record \in AssetRecordsOf(TocOf(k).value, key)
    PROVE  /\ AddedAsset(k, key) \in AssetDesc
           /\ record.dependencyCount = Len(AddedAsset(k, key).dependencies)
           /\ TocOf(k).value.dependencies \in Seq(Nat)
           /\ Lies(TocOf(k).value.dependencies, record.firstDependency,
                   AddedAsset(k, key).dependencies)
           /\ TocOf(k).value.strings \in Seq(Nat)
           /\ Lies(TocOf(k).value.strings, record.nameOffset,
                   NameEntry(AddedAsset(k, key).name))
  <1> DEFINE b == BuilderOf(k)
             descs == scope.builds[k].assets
             tables == BuildTables(b)
  <1>1. /\ GoodBuilder(b) /\ TocOf(k) = Done(TablesOf(b))
        /\ descs \in Seq(AssetDesc) /\ scope.builds[k].chunks \in Seq(ChunkDesc)
    BY FilesGood
  <1>2. \A a \in DOMAIN b.assets : \E j \in DOMAIN descs :
            FirstAsset(descs, j) /\ b.assets[a] = descs[j]
    BY <1>1, BuilderGood DEF BuilderOf
  <1> HIDE DEF b
  <1>3. /\ TocOf(k).value = TablesOf(b)
        /\ TocOf(k).value.dependencies = tables.dependencies
        /\ TocOf(k).value.strings = tables.strings
    BY <1>1 DEF Done, TablesOf
  <1>4. TablesTo(b.assets, Len(b.assets), tables)
    BY <1>1, TablesBuilt DEF GoodBuilder
  <1>5. PICK a \in DOMAIN b.assets : /\ b.assets[a].assetId = key
                                     /\ Tabulated(tables, record, b.assets[a])
    BY <1>1, <1>3, AssetFound
  <1> HIDE DEF tables
  <1>6. PICK j \in DOMAIN descs : FirstAsset(descs, j) /\ b.assets[a] = descs[j]
    BY <1>2, <1>5
  <1>7. AddedAsset(k, key) = descs[j]
    BY <1>1, <1>5, <1>6, AddedAssetIs
  <1>8. descs[j] \in AssetDesc
    BY <1>1, <1>6
  <1>9. tables.dependencies \in Seq(Nat) /\ tables.strings \in Seq(Nat)
    BY <1>4 DEF TablesTo
  <1>10. /\ record.dependencyCount = Len(descs[j].dependencies)
         /\ Lies(tables.dependencies, record.firstDependency, descs[j].dependencies)
         /\ Lies(tables.strings, record.nameOffset, NameEntry(descs[j].name))
    BY <1>5, <1>6 DEF Tabulated
  <1> QED
    BY <1>3, <1>7, <1>8, <1>9, <1>10

-----------------------------------------------------------------------------
\* What is on disk, in the packs and in the calls, besides what searches need.

DiskInv ==
    /\ scope \in Scopes
    /\ disk \in [Names -> [toc : Files \cup {0}, data : Files \cup {0}]]
    /\ building # <<>> => building[1] \in Names /\ building[2] \in Files

\* A pack is of files that were written, and one that is mounted has its data file.
MountInv ==
    /\ \A id \in DOMAIN packs : packs[id].toc \in Files /\ packs[id].data \in Files
    /\ \A id \in mounted : packs[id].hasFile

\* Nobody can unmount a pack that is not published yet.
PublishingInv ==
    \A t \in Threads : call[t].pc = "publishing" =>
        /\ packs[call[t].id].hasFile
        /\ call[t].id \notin mounted
        /\ \A u \in Threads \ {t} : call[u].pc = "publishing" => call[u].id # call[t].id

\* A search has found a pack that has the id.
Found(id, kind, key) == id \in DOMAIN packs /\ RecordsIn(id, kind, key) # {}

\* What a read gave.
ReadGood(c) ==
    packs[c.id].toc = packs[c.id].data =>
        LET r == Record(c)
            added == AddedChunk(packs[c.id].toc, c.key)
            fits == IF c.mode = "sync" THEN c.dstSize >= r.compressedSize
                    ELSE c.dstSize = r.compressedSize
        IN  /\ r.offset % added.alignment = 0
            /\ c.result.ok =>
                Decompress(r.compression, SubSeq(c.result.value, 1, r.compressedSize),
                           r.uncompressedSize) = Done(added.data)
            /\ ~c.result.ok /\ fits => c.file = "null"

DataOK(c) ==
    /\ c.pc = "opening" => c.name \in Names /\ c.toc \in Files
    /\ c.pc = "refused" => c.toc # c.data \/ c.toc = 0
    /\ c.pc = "walking" => c.kind \in {"asset", "chunk"}
    /\ c.pc = "copying" =>
        /\ c.kind = "chunk" /\ Found(c.id, "chunk", c.key)
        /\ ~c.hasFile => ~packs[c.id].hasFile
    /\ c.pc = "located" /\ c.id # None =>
        /\ Found(c.id, c.kind, c.key)
        /\ c.kind = "chunk" /\ c.file = "null" => ~packs[c.id].hasFile
    /\ c.pc = "located" => c.file \in {"null", "open", "dangling"}
    /\ c.pc = "reading" =>
        /\ Found(c.id, "chunk", c.key) /\ c.file = "open"
        /\ c.dstSize \in Nat /\ c.dstSize >= Record(c).compressedSize
    /\ c.pc = "read" =>
        /\ Found(c.id, "chunk", c.key) /\ ReadGood(c)
        /\ c.file = "null" => ~packs[c.id].hasFile

\* (The call is named, so that what it is after a step can be named too.)
CallsOK == \A t \in Threads : \A c : c = call[t] => DataOK(c)

DataInv == DiskInv /\ MountInv /\ PublishingInv /\ CallsOK

-----------------------------------------------------------------------------
\* What follows from it.

LEMMA MountsBuilt ==
    ASSUME DataInv
    PROVE  BuiltPacksMount
  BY DEF DataInv, CallsOK, DataOK, BuiltPacksMount

\* A part that lies in a sequence is a prefix of what follows its place.
LEMMA LiesPrefix ==
    ASSUME NEW s \in Seq(Nat), NEW part \in Seq(Nat), NEW offset, Lies(s, offset, part)
    PROVE  IsPrefix(part, SubSeq(s, offset + 1, Len(s)))
  <1> DEFINE t == SubSeq(s, offset + 1, Len(s))
             n == Len(part)
  <1>1. Len(s) \in Nat /\ n \in Nat /\ offset \in Nat /\ offset + n <= Len(s)
    BY DEF Lies
  <1>2. \A i \in offset + 1 .. Len(s) : s[i] \in Nat
    BY <1>1
  <1>3. /\ t \in Seq(Nat)
        /\ Len(t) = IF offset + 1 <= Len(s) THEN Len(s) - (offset + 1) + 1 ELSE 0
        /\ \A i \in 1 .. Len(s) - (offset + 1) + 1 : t[i] = s[(offset + 1) + i - 1]
    BY <1>1, <1>2, SubSeqProperties
  <1> HIDE DEF t
  <1>4. Len(t) \in Nat /\ n <= Len(t)
    BY <1>1, <1>3
  <1>5. ASSUME NEW i \in 1 .. n
        PROVE  t[i] = part[i]
    <2>1. i \in 1 .. Len(s) - (offset + 1) + 1 /\ (offset + 1) + i - 1 = offset + i
      BY <1>1
    <2> QED
      BY <1>3, <2>1 DEF Lies
  <1>6. SubSeq(part, 1, n) = part
    BY SubSeqFull
  <1>7. SubSeq(t, 1, n) = part
    <2> DEFINE u == SubSeq(t, 1, n)
    <2>1. \A i \in 1 .. n : t[i] \in Nat
      BY <1>3, <1>4
    <2>2. /\ u \in Seq(Nat)
          /\ Len(u) = IF 1 <= n THEN n - 1 + 1 ELSE 0
          /\ \A i \in 1 .. n - 1 + 1 : u[i] = t[1 + i - 1]
      BY <1>1, <2>1, SubSeqProperties
    <2> HIDE DEF u
    <2>3. Len(u) = n
      BY <1>1, <2>2
    <2>4. ASSUME NEW i \in 1 .. n
          PROVE  u[i] = part[i]
      <3>1. i \in 1 .. n - 1 + 1 /\ 1 + i - 1 = i
        BY <1>1
      <3> QED
        BY <1>5, <2>2, <3>1
    <2> HIDE DEF n
    <2> QED
      BY <2>2, <2>3, <2>4, SeqEqual DEF u, n
  <1>8. IsPrefix(part, t)
    BY <1>4, <1>6, <1>7 DEF IsPrefix
  <1> QED
    BY <1>8 DEF t

LEMMA AssetsGood ==
    ASSUME DataInv
    PROVE  AssetsAsAdded
  <1> SUFFICES ASSUME NEW t \in Threads, call[t].pc = "located", call[t].kind = "asset",
                      call[t].id # None
               PROVE  LET c == call[t]
                          k == packs[c.id].toc
                          tables == TocOf(k).value
                          r == CHOOSE a \in RecordsIn(c.id, "asset", c.key) : TRUE
                          added == AddedAsset(k, c.key)
                          From(s, n) == SubSeq(s, n + 1, Len(s))
                      IN  /\ r.dependencyCount = Len(added.dependencies)
                          /\ IsPrefix(added.dependencies,
                                      From(tables.dependencies, r.firstDependency))
                          /\ IsPrefix(Append(added.name, 0), From(tables.strings, r.nameOffset))
    BY DEF AssetsAsAdded
  <1> DEFINE c == call[t]
             k == packs[c.id].toc
             tables == TocOf(k).value
             r == CHOOSE a \in RecordsIn(c.id, "asset", c.key) : TRUE
             added == AddedAsset(k, c.key)
  <1>1. Found(c.id, "asset", c.key) /\ scope \in Scopes
    BY DEF DataInv, CallsOK, DataOK, DiskInv
  <1>2. k \in Files
    BY <1>1 DEF Found, DataInv, MountInv
  <1>3. r \in AssetRecordsOf(tables, c.key)
    BY <1>1 DEF Found, RecordsIn
  <1> HIDE DEF c, k, r
  <1>4. /\ added \in AssetDesc /\ r.dependencyCount = Len(added.dependencies)
        /\ tables.dependencies \in Seq(Nat) /\ tables.strings \in Seq(Nat)
        /\ Lies(tables.dependencies, r.firstDependency, added.dependencies)
        /\ Lies(tables.strings, r.nameOffset, Append(added.name, 0))
    BY <1>1, <1>2, <1>3, AssetRecordGood DEF NameEntry
  <1> HIDE DEF added, tables
  <1>5. added.dependencies \in Seq(Nat) /\ Append(added.name, 0) \in Seq(Nat)
    BY <1>4 DEF AssetDesc
  <1>6. /\ IsPrefix(added.dependencies,
                    SubSeq(tables.dependencies, r.firstDependency + 1,
                           Len(tables.dependencies)))
        /\ IsPrefix(Append(added.name, 0),
                    SubSeq(tables.strings, r.nameOffset + 1, Len(tables.strings)))
    BY <1>4, <1>5, LiesPrefix
  <1> QED
    BY <1>4, <1>6 DEF c, k, r, added, tables

LEMMA ReadsGood ==
    ASSUME DataInv
    PROVE  ReadsWhatWasAdded
  <1>1. ASSUME NEW t \in Threads, call[t].pc = "read"
        PROVE  /\ ReadGood(call[t])
               /\ call[t].file = "null" => call[t].id \notin mounted
    BY <1>1 DEF DataInv, CallsOK, DataOK, MountInv
  <1> QED
    BY <1>1 DEF ReadsWhatWasAdded, ReadGood

-----------------------------------------------------------------------------
\* Reading a chunk.

\* The first bytes of what was read from where a part lies are the part.
LEMMA ReadBegins ==
    ASSUME NEW data \in Seq(Nat), NEW part \in Seq(Nat), NEW offset,
           Lies(data, offset, part), NEW size \in Nat, Len(part) <= size,
           offset + size <= Len(data)
    PROVE  SubSeq(SubSeq(data, offset + 1, offset + size), 1, Len(part)) = part
  <1> DEFINE s == SubSeq(data, offset + 1, offset + size)
             n == Len(part)
             u == SubSeq(s, 1, n)
  <1>1. Len(data) \in Nat /\ n \in Nat /\ offset \in Nat /\ n <= size
    BY DEF Lies
  <1>2. \A i \in offset + 1 .. offset + size : data[i] \in Nat
    BY <1>1
  <1>3. /\ s \in Seq(Nat)
        /\ Len(s) = IF offset + 1 <= offset + size
                    THEN (offset + size) - (offset + 1) + 1 ELSE 0
        /\ \A i \in 1 .. (offset + size) - (offset + 1) + 1 :
                s[i] = data[(offset + 1) + i - 1]
    <2> DEFINE first == offset + 1
               last == offset + size
    <2>1. first \in Int /\ last \in Int /\ \A i \in first .. last : data[i] \in Nat
      BY <1>1, <1>2
    <2> HIDE DEF first, last
    <2>2. /\ SubSeq(data, first, last) \in Seq(Nat)
          /\ Len(SubSeq(data, first, last)) = IF first <= last THEN last - first + 1 ELSE 0
          /\ \A i \in 1 .. last - first + 1 :
                SubSeq(data, first, last)[i] = data[first + i - 1]
      BY <2>1, SubSeqProperties
    <2> QED
      BY <2>2 DEF first, last
  <1> HIDE DEF s
  <1>4. Len(s) = size
    BY <1>1, <1>3
  <1>5. ASSUME NEW i \in 1 .. n
        PROVE  s[i] = part[i] /\ s[i] \in Nat
    <2>1. /\ i \in 1 .. (offset + size) - (offset + 1) + 1
          /\ (offset + 1) + i - 1 = offset + i
          /\ i \in 1 .. size
      BY <1>1
    <2>2. s[i] = part[i]
      BY <1>3, <2>1 DEF Lies
    <2> QED
      BY <2>2
  <1>6. /\ u \in Seq(Nat)
        /\ Len(u) = IF 1 <= n THEN n - 1 + 1 ELSE 0
        /\ \A i \in 1 .. n - 1 + 1 : u[i] = s[1 + i - 1]
    BY <1>1, <1>5, SubSeqProperties
  <1> HIDE DEF u
  <1>7. Len(u) = n
    BY <1>1, <1>6
  <1>8. ASSUME NEW i \in 1 .. n
        PROVE  u[i] = part[i]
    <2>1. i \in 1 .. n - 1 + 1 /\ 1 + i - 1 = i
      BY <1>1
    <2> QED
      BY <1>5, <1>6, <2>1
  <1> HIDE DEF n
  <1>9. u = part
    BY <1>6, <1>7, <1>8, SeqEqual DEF n
  <1> QED
    BY <1>9 DEF u, s, n

\* Reading the record of a chunk gives, decompressed, what was added.
LEMMA ReadAnswers ==
    ASSUME scope \in Scopes, NEW k \in Files, NEW key,
           NEW r \in ChunkRecordsOf(TocOf(k).value, key),
           NEW size \in Nat, size >= r.compressedSize,
           NEW result, result = ReadAt(DataOf(k), r.offset, size)
    PROVE  /\ result.ok =>
                Decompress(r.compression, SubSeq(result.value, 1, r.compressedSize),
                           r.uncompressedSize) = Done(AddedChunk(k, key).data)
           /\ size = r.compressedSize => result.ok
  <1> DEFINE added == AddedChunk(k, key)
             data == DataOf(k)
             part == Compress(added.compression, added.data)
  <1>1. added \in ChunkDesc /\ ValidChunk(added) /\ Placed(data, r, ChunkOf(added))
    BY ChunkRecordGood
  <1> HIDE DEF added
  <1>2. data \in Seq(Nat)
    <2>1. DataOf(k) = BuildDataFile(BuilderOf(k)).data /\ GoodBuilder(BuilderOf(k))
      BY FilesGood
    <2> QED
      BY <2>1, DataFileBuilt DEF GoodBuilder, FileTo
  <1>3. result = ReadAt(data, r.offset, size)
    OBVIOUS
  <1> HIDE DEF data
  <1>4. /\ added.data \in Seq(Nat) /\ added.data # <<>>
        /\ added.compression \in {"None", "RLE"}
    BY <1>1 DEF ChunkDesc, ValidChunk
  <1>5. /\ part \in Seq(Nat)
        /\ Decompress(added.compression, part, Len(added.data)) = Done(added.data)
    BY <1>4, CompressInverse
  <1>6. /\ r.compressedSize = Len(part) /\ r.uncompressedSize = Len(added.data)
        /\ r.compression = added.compression
        /\ Lies(data, r.offset, part)
    BY <1>1 DEF Placed, ChunkOf
  <1> HIDE DEF part
  <1>7. /\ Len(part) \in Nat /\ Len(data) \in Nat /\ r.offset \in Nat
        /\ r.offset + Len(part) <= Len(data)
    BY <1>2, <1>5, <1>6 DEF Lies
  <1>8. CASE r.offset + size > Len(data)
    <2>1. result.ok = FALSE
      BY <1>3, <1>8 DEF ReadAt, Failed
    <2>2. size # r.compressedSize
      BY <1>6, <1>7, <1>8
    <2> QED
      BY <2>1, <2>2
  <1>9. CASE ~(r.offset + size > Len(data))
    <2>1. result.ok /\ result.value = SubSeq(data, r.offset + 1, r.offset + size)
      <3> DEFINE read == SubSeq(data, r.offset + 1, r.offset + size)
      <3>1. result = Done(read)
        BY <1>3, <1>9 DEF ReadAt
      <3> HIDE DEF read
      <3>2. Done(read).ok /\ Done(read).value = read
        BY DEF Done
      <3> QED
        BY <3>1, <3>2 DEF read
    <2>2. Len(part) <= size /\ r.offset + size <= Len(data)
      BY <1>6, <1>7, <1>9
    <2>3. SubSeq(result.value, 1, Len(part)) = part
      <3> DEFINE offset == r.offset
      <3>1. Lies(data, offset, part) /\ offset + size <= Len(data)
        BY <1>6, <2>2
      <3>2. result.value = SubSeq(data, offset + 1, offset + size)
        BY <2>1
      <3> HIDE DEF offset
      <3>3. SubSeq(SubSeq(data, offset + 1, offset + size), 1, Len(part)) = part
        BY <1>2, <1>5, <2>2, <3>1, ReadBegins
      <3> QED
        BY <3>2, <3>3
    <2>4. Decompress(r.compression, SubSeq(result.value, 1, r.compressedSize),
                     r.uncompressedSize) = Done(added.data)
      BY <1>5, <1>6, <2>3
    <2> QED
      BY <2>1, <2>4 DEF added
  <1> QED
    BY <1>8, <1>9

\* The record that Record chooses is one of those of the pack.
LEMMA RecordFound ==
    ASSUME NEW c, Found(c.id, "chunk", c.key)
    PROVE  Record(c) \in ChunkRecordsOf(TocOf(packs[c.id].toc).value, c.key)
  BY DEF Found, RecordsIn, Record

\* Its place is aligned, and a read of it gives what was added.
LEMMA RecordReads ==
    ASSUME DiskInv, MountInv, NEW c, Found(c.id, "chunk", c.key),
           packs[c.id].toc = packs[c.id].data, NEW r, r = Record(c)
    PROVE  /\ r.offset % AddedChunk(packs[c.id].toc, c.key).alignment = 0
           /\ r.compressedSize \in Nat
           /\ \A size \in Nat : \A result :
                /\ size >= r.compressedSize
                /\ result = ReadAt(DataOf(packs[c.id].data), r.offset, size)
                => /\ result.ok =>
                        Decompress(r.compression,
                                   SubSeq(result.value, 1, r.compressedSize),
                                   r.uncompressedSize)
                            = Done(AddedChunk(packs[c.id].toc, c.key).data)
                   /\ size = r.compressedSize => result.ok
  <1> DEFINE k == packs[c.id].toc
  <1>1. k \in Files /\ scope \in Scopes /\ packs[c.id].data = k
    BY DEF Found, MountInv, DiskInv
  <1>2. r \in ChunkRecordsOf(TocOf(k).value, c.key)
    BY RecordFound
  <1> HIDE DEF k
  <1>3. /\ AddedChunk(k, c.key) \in ChunkDesc /\ ValidChunk(AddedChunk(k, c.key))
        /\ Placed(DataOf(k), r, ChunkOf(AddedChunk(k, c.key)))
    BY <1>1, <1>2, ChunkRecordGood
  <1>4. r.offset % AddedChunk(k, c.key).alignment = 0
    BY <1>3 DEF Placed, ChunkOf
  <1>5. r.compressedSize \in Nat
    <2> DEFINE added == AddedChunk(k, c.key)
    <2>1. /\ added.data \in Seq(Nat) /\ added.data # <<>>
          /\ added.compression \in {"None", "RLE"}
      BY <1>3 DEF ChunkDesc, ValidChunk
    <2>2. Compress(added.compression, added.data) \in Seq(Nat)
      BY <2>1, CompressInverse
    <2>3. r.compressedSize = Len(Compress(added.compression, added.data))
      BY <1>3 DEF Placed, ChunkOf
    <2> QED
      BY <2>2, <2>3
  <1>6. \A size \in Nat : \A result :
            /\ size >= r.compressedSize
            /\ result = ReadAt(DataOf(k), r.offset, size)
            => /\ result.ok =>
                    Decompress(r.compression, SubSeq(result.value, 1, r.compressedSize),
                               r.uncompressedSize) = Done(AddedChunk(k, c.key).data)
               /\ size = r.compressedSize => result.ok
    BY <1>1, <1>2, ReadAnswers
  <1> QED
    BY <1>1, <1>4, <1>5, <1>6 DEF k

-----------------------------------------------------------------------------
\* What no step does to the files of a pack.

DataKept ==
    /\ scope' = scope
    /\ \A id \in DOMAIN packs : /\ id \in DOMAIN packs'
                                /\ packs'[id].toc = packs[id].toc
                                /\ packs'[id].data = packs[id].data
                                /\ packs'[id].hasFile => packs[id].hasFile

LEMMA BuildsKept ==
    ASSUME scope' = scope
    PROVE  /\ Files' = Files
           /\ \A k, key : AddedChunk(k, key)' = AddedChunk(k, key)
           /\ \A k : TocOf(k)' = TocOf(k)
  BY DEF Files, AddedChunk, FirstOf, TocOf, Loaded

LEMMA FoundKept ==
    ASSUME DataKept, NEW id, NEW kind, NEW key, Found(id, kind, key)
    PROVE  /\ Found(id, kind, key)'
           /\ RecordsIn(id, kind, key)' = RecordsIn(id, kind, key)
  <1>1. id \in DOMAIN packs /\ packs'[id].toc = packs[id].toc /\ id \in DOMAIN packs'
    BY DEF Found, DataKept
  <1>2. TocOf(packs[id].toc)' = TocOf(packs[id].toc)
    BY <1>1 DEF TocOf, Loaded, DataKept
  <1>3. RecordsIn(id, kind, key)' = RecordsIn(id, kind, key)
    BY <1>2 DEF RecordsIn
  <1> QED
    BY <1>1, <1>3 DEF Found

LEMMA RecordKept ==
    ASSUME DataKept, NEW c, Found(c.id, "chunk", c.key)
    PROVE  Record(c)' = Record(c)
  BY FoundKept DEF Record

LEMMA ReadKept ==
    ASSUME DataKept, NEW c, Found(c.id, "chunk", c.key), ReadGood(c)
    PROVE  ReadGood(c)'
  <1>1. /\ packs'[c.id].toc = packs[c.id].toc
        /\ packs'[c.id].data = packs[c.id].data
    BY DEF Found, DataKept
  <1>3. Record(c)' = Record(c)
    BY RecordKept
  <1>4. AddedChunk(packs[c.id].toc, c.key)' = AddedChunk(packs[c.id].toc, c.key)
    BY <1>1 DEF AddedChunk, FirstOf, DataKept
  <1> QED
    BY <1>1, <1>3, <1>4 DEF ReadGood

LEMMA DataOKKept ==
    ASSUME DataKept, NEW c, DataOK(c)
    PROVE  DataOK(c)'
  <1>1. Files' = Files
    BY BuildsKept DEF DataKept
  <1>2. c.pc = "opening" => c.name \in Names /\ c.toc \in Files'
    BY <1>1 DEF DataOK
  <1>3. c.pc = "copying" =>
            /\ c.kind = "chunk" /\ Found(c.id, "chunk", c.key)'
            /\ ~c.hasFile => ~packs'[c.id].hasFile
    BY FoundKept DEF DataOK, DataKept, Found
  <1>4. c.pc = "located" /\ c.id # None =>
            /\ Found(c.id, c.kind, c.key)'
            /\ c.kind = "chunk" /\ c.file = "null" => ~packs'[c.id].hasFile
    BY FoundKept DEF DataOK, DataKept, Found
  <1>5. c.pc = "reading" =>
            /\ Found(c.id, "chunk", c.key)' /\ c.file = "open"
            /\ c.dstSize \in Nat /\ c.dstSize >= Record(c)'.compressedSize
    BY FoundKept, RecordKept DEF DataOK
  <1>6. c.pc = "read" =>
            /\ Found(c.id, "chunk", c.key)' /\ ReadGood(c)'
            /\ c.file = "null" => ~packs'[c.id].hasFile
    BY FoundKept, ReadKept DEF DataOK, DataKept, Found
  <1>7. /\ c.pc = "refused" => c.toc # c.data \/ c.toc = 0
        /\ c.pc = "walking" => c.kind \in {"asset", "chunk"}
        /\ c.pc = "located" => c.file \in {"null", "open", "dangling"}
    BY DEF DataOK
  <1> QED
    BY <1>2, <1>3, <1>4, <1>5, <1>6, <1>7 DEF DataOK

\* A step of one thread.
LEMMA DataOneCall ==
    ASSUME DataKept, DataInv, CallInv, NEW t \in Threads, NEW c, Becomes(t, c), DataOK(c)'
    PROVE  CallsOK'
  <1>1. /\ call'[t] = c
        /\ \A u \in Threads : u # t => call'[u] = call[u]
    BY DEF Becomes, CallInv
  <1>2. ASSUME NEW u \in Threads, NEW held, held = call'[u]
        PROVE  DataOK(held)'
    <2>1. CASE u = t
      <3>1. held = c
        BY <2>1, <1>1, <1>2
      <3> QED
        BY <3>1
    <2>2. CASE u # t
      <3>1. held = call[u]
        BY <2>2, <1>1, <1>2
      <3>2. DataOK(held)
        BY <3>1 DEF DataInv, CallsOK
      <3> QED
        BY <3>2, DataOKKept
    <2> QED
      BY <2>1, <2>2
  <1> QED
    BY <1>2 DEF CallsOK

LEMMA DataNoCall ==
    ASSUME DataKept, DataInv, call' = call
    PROVE  CallsOK'
  <1>1. ASSUME NEW u \in Threads, NEW held, held = call'[u]
        PROVE  DataOK(held)'
    <2>1. DataOK(held)
      BY <1>1 DEF DataInv, CallsOK
    <2> QED
      BY <2>1, DataOKKept
  <1> QED
    BY <1>1 DEF CallsOK

\* A step of a thread that changes neither files nor packs.
LEMMA DataCallStep ==
    ASSUME DataInv, CallInv, NEW t \in Threads, NEW c, Becomes(t, c), DataOK(c),
           c.pc # "publishing",
           UNCHANGED <<scope, disk, building, packs, mounted>>
    PROVE  DataInv'
  <1>1. DataKept /\ Files' = Files
    BY BuildsKept DEF DataKept
  <1>2. DataOK(c)'
    BY <1>1, DataOKKept
  <1>3. CallsOK'
    BY <1>1, <1>2, DataOneCall
  <1>4. DiskInv' /\ MountInv'
    BY <1>1 DEF DataInv, DiskInv, MountInv
  <1>5. PublishingInv'
    BY DEF DataInv, PublishingInv, CallInv, Becomes
  <1> QED
    BY <1>3, <1>4, <1>5 DEF DataInv

\* Steps that change the files only.
LEMMA DataFilesStep ==
    ASSUME DataInv, UNCHANGED <<scope, packs, call, mounted>>, DiskInv'
    PROVE  DataInv'
  <1>1. DataKept /\ Files' = Files
    BY BuildsKept DEF DataKept
  <1>2. CallsOK'
    BY <1>1, DataNoCall
  <1>3. MountInv'
    BY <1>1 DEF DataInv, MountInv
  <1>4. PublishingInv'
    BY DEF DataInv, PublishingInv
  <1> QED
    BY <1>2, <1>3, <1>4 DEF DataInv

-----------------------------------------------------------------------------
\* The actions, once more.

LEMMA Init_Data == Init => DataInv
  <1> SUFFICES ASSUME Init
               PROVE  DataInv
    OBVIOUS
  <1>1. DiskInv
    BY DEF Init, DiskInv, Files
  <1>2. MountInv
    BY DEF Init, MountInv
  <1>3. \A t \in Threads : call[t].pc = "idle"
    BY DEF Init, Idle
  <1> QED
    BY <1>1, <1>2, <1>3 DEF DataInv, PublishingInv, CallsOK, DataOK

LEMMA WriteData_Data ==
    ASSUME DataInv, WriteData
    PROVE  DataInv'
  <1> DEFINE name == building[1]
             k == building[2]
  <1>1. /\ name \in Names /\ k \in Files /\ scope \in Scopes
        /\ disk \in [Names -> [toc : Files \cup {0}, data : Files \cup {0}]]
    BY DEF WriteData, DataInv, DiskInv
  <1>2. disk' = disk \/ disk' = [disk EXCEPT ![name].data = k]
    BY DEF WriteData
  <1>3. Files' = Files
    BY DEF WriteData, Files
  <1> HIDE DEF name, k
  <1> DEFINE F == Files \cup {0}
  <1>4. k \in F /\ disk \in [Names -> [toc : F, data : F]]
    BY <1>1
  <1> HIDE DEF F
  <1>5. disk' \in [Names -> [toc : F, data : F]]
    BY <1>1, <1>2, <1>4
  <1>6. DiskInv'
    BY <1>1, <1>3, <1>5 DEF WriteData, DiskInv, F
  <1> QED
    BY <1>6, DataFilesStep DEF WriteData

LEMMA WriteToc_Data ==
    ASSUME DataInv, NEW name \in Names, NEW k \in Builds, WriteToc(name, k)
    PROVE  DataInv'
  <1>1. /\ scope \in Scopes
        /\ disk \in [Names -> [toc : Files \cup {0}, data : Files \cup {0}]]
    BY DEF DataInv, DiskInv
  <1>2. k \in Files
    BY <1>1 DEF WriteToc, Builds, Files, Loaded
  <1>3. disk' = [disk EXCEPT ![name].toc = k] /\ building' = <<name, k>>
    BY DEF WriteToc
  <1>4. Files' = Files
    BY DEF WriteToc, Files
  <1> DEFINE F == Files \cup {0}
  <1>5. k \in F /\ disk \in [Names -> [toc : F, data : F]]
    BY <1>1, <1>2
  <1> HIDE DEF F
  <1>6. disk' \in [Names -> [toc : F, data : F]]
    BY <1>3, <1>5
  <1>7. building'[1] = name /\ building'[2] = k
    BY <1>3
  <1>8. DiskInv'
    BY <1>1, <1>2, <1>4, <1>6, <1>7 DEF WriteToc, DiskInv, F
  <1> QED
    BY <1>8, DataFilesStep DEF WriteToc

LEMMA BeginMount_Data ==
    ASSUME PackInv, DataInv, NEW t \in Threads, NEW name \in Names, NEW priority,
           BeginMount(t, name, priority)
    PROVE  DataInv'
  <1> DEFINE k == disk[name].toc
             next == IF k # 0 /\ TocOf(k).ok
                     THEN [pc |-> "opening", id |-> nextPackId, name |-> name,
                           priority |-> priority, toc |-> k]
                     ELSE [pc |-> "refused", toc |-> k, data |-> k]
  <1>1. Becomes(t, next) /\ UNCHANGED <<scope, disk, building, packs, mounted>>
    BY DEF BeginMount
  <1>2. k \in Files \cup {0} /\ scope \in Scopes
    BY DEF DataInv, DiskInv
  <1> HIDE DEF k
  <1>3. k \in Files => TocOf(k).ok
    <2> SUFFICES ASSUME k \in Files
                 PROVE  TocOf(k).ok
      OBVIOUS
    <2> DEFINE tables == TablesOf(BuilderOf(k))
    <2>1. TocOf(k) = Done(tables)
      BY <1>2, FilesGood
    <2> HIDE DEF tables
    <2>2. Done(tables).ok
      BY DEF Done
    <2> QED
      BY <2>1, <2>2
  <1>4. PICK c : c = next
    OBVIOUS
  <1>5. \/ k \in Files /\ c.pc = "opening" /\ c.name = name /\ c.toc = k
        \/ k = 0 /\ c.pc = "refused" /\ c.toc = k
    BY <1>2, <1>3, <1>4
  <1>6. DataOK(c) /\ c.pc # "publishing"
    BY <1>5 DEF DataOK
  <1> HIDE DEF next
  <1> QED
    BY <1>1, <1>4, <1>6, DataCallStep DEF PackInv

LEMMA OpenData_Data ==
    ASSUME PackInv, DataInv, NEW t \in Threads, OpenData(t)
    PROVE  DataInv'
  <1> DEFINE c == call[t]
             data == disk[c.name].data
             pack == [name |-> c.name, priority |-> c.priority, toc |-> c.toc,
                      data |-> data, hasFile |-> TRUE]
  <1>1. /\ c.pc = "opening" /\ c.id \notin DOMAIN packs
        /\ c.name \in Names /\ c.toc \in Files /\ scope \in Scopes
    BY DEF OpenData, At, PackInv, FreshInv, DataInv, CallsOK, DataOK, DiskInv
  <1>2. data \in Files \cup {0}
    BY <1>1 DEF DataInv, DiskInv
  <1>3. Indexable(TocOf(c.toc).value) /\ c.toc # 0
    <2> DEFINE toc == c.toc
    <2>1. /\ TocOf(toc) = Done(TablesOf(BuilderOf(toc)))
          /\ GoodBuilder(BuilderOf(toc)) /\ toc # 0
      BY <1>1, FilesGood
    <2> HIDE DEF toc
    <2>2. TocOf(toc).value = TablesOf(BuilderOf(toc))
      BY <2>1 DEF Done
    <2>3. Indexable(TocOf(toc).value)
      BY <2>1, <2>2, BuiltIndexes
    <2> QED
      BY <2>1, <2>3 DEF toc
  <1>4. CASE data = 0
    <2>1. Becomes(t, [pc |-> "refused", toc |-> c.toc, data |-> data]) /\ UNCHANGED packs
      BY <1>4 DEF OpenData
    <2>2. PICK r : r = [pc |-> "refused", toc |-> c.toc, data |-> data]
      OBVIOUS
    <2>3. DataOK(r) /\ r.pc # "publishing"
      BY <1>3, <1>4, <2>2 DEF DataOK
    <2> QED
      BY <2>1, <2>2, <2>3, DataCallStep DEF OpenData, PackInv
  <1>5. CASE data # 0
    <2>1. /\ packs' = [id \in DOMAIN packs \cup {c.id} |->
                            IF id = c.id THEN pack ELSE packs[id]]
          /\ Becomes(t, [pc |-> "publishing", id |-> c.id])
      BY <1>3, <1>5 DEF OpenData
    <2>2. pack.toc = c.toc /\ pack.data = data /\ pack.hasFile
      OBVIOUS
    <2> HIDE DEF pack
    <2>3. /\ DOMAIN packs' = DOMAIN packs \cup {c.id}
          /\ packs'[c.id] = pack
          /\ \A id \in DOMAIN packs : packs'[id] = packs[id]
      BY <1>1, <2>1
    <2>4. UNCHANGED <<scope, disk, building, mounted>>
      BY DEF OpenData
    <2>5. DataKept /\ Files' = Files
      BY <2>3, <2>4, BuildsKept DEF DataKept
    <2>6. PICK r : r = [pc |-> "publishing", id |-> c.id]
      OBVIOUS
    <2>7. DataOK(r)' /\ r.pc = "publishing" /\ r.id = c.id
      BY <2>6 DEF DataOK
    <2>8. CallsOK'
      BY <2>1, <2>5, <2>6, <2>7, DataOneCall DEF PackInv
    <2>9. DiskInv'
      BY <2>4, <2>5 DEF DataInv, DiskInv
    <2>10. mounted \subseteq DOMAIN packs
      BY DEF PackInv, SnapshotInv, PacksOf, ToSet
    <2>11. MountInv'
      BY <1>1, <1>2, <1>5, <2>2, <2>3, <2>4, <2>5, <2>10 DEF DataInv, MountInv
    <2>12. PublishingInv'
      <3>1. \A u \in Threads : call[u].pc = "publishing" => call[u].id \in DOMAIN packs
        BY DEF PackInv, CallInv, CallOK
      <3>2. call'[t] = r /\ \A u \in Threads : u # t => call'[u] = call[u]
        BY <2>1, <2>6 DEF Becomes, PackInv, CallInv
      <3> HIDE DEF c
      <3>3. c.id \notin mounted
        BY <1>1, <2>10
      <3> QED
        BY <1>1, <2>2, <2>3, <2>4, <2>7, <3>1, <3>2, <3>3 DEF DataInv, PublishingInv
    <2> QED
      BY <2>8, <2>9, <2>11, <2>12 DEF DataInv
  <1> QED
    BY <1>4, <1>5

LEMMA Publish_Data ==
    ASSUME PackInv, DataInv, NEW t \in Threads, Publish(t)
    PROVE  DataInv'
  <1> DEFINE id == call[t].id
  <1>1. /\ call[t].pc = "publishing" /\ mounted' = mounted \cup {id} /\ Becomes(t, Idle)
        /\ UNCHANGED <<scope, disk, building, packs>>
    BY DEF Publish, At
  <1>2. DataKept /\ Files' = Files
    BY <1>1, BuildsKept DEF DataKept
  <1>3. Idle.pc = "idle" /\ DataOK(Idle)'
    BY DEF Idle, DataOK
  <1>4. CallsOK'
    BY <1>1, <1>2, <1>3, DataOneCall DEF PackInv
  <1>5. DiskInv' /\ MountInv'
    BY <1>1, <1>2 DEF DataInv, DiskInv, MountInv, PublishingInv
  <1>6. call'[t] = Idle /\ \A u \in Threads : u # t => call'[u] = call[u]
    BY <1>1 DEF Becomes, PackInv, CallInv
  <1>7. PublishingInv'
    BY <1>1, <1>3, <1>6 DEF DataInv, PublishingInv
  <1> QED
    BY <1>4, <1>5, <1>7 DEF DataInv

LEMMA Umount_Data ==
    ASSUME PackInv, DataInv, NEW t \in Threads, NEW id \in DOMAIN packs, Umount(t, id)
    PROVE  DataInv'
  <1>1. /\ packs' = [packs EXCEPT ![id].hasFile = FALSE]
        /\ mounted' = mounted \ {id}
        /\ UNCHANGED <<scope, disk, building, call>>
    BY DEF Umount
  <1>2. id \in mounted
    BY DEF Umount, PackInv, SnapshotInv, ToSet
  <1>3. /\ DOMAIN packs' = DOMAIN packs
        /\ packs'[id] = [packs[id] EXCEPT !.hasFile = FALSE]
        /\ \A other \in DOMAIN packs : other # id => packs'[other] = packs[other]
    BY <1>1
  <1>4. /\ packs'[id].toc = packs[id].toc /\ packs'[id].data = packs[id].data
        /\ packs'[id].hasFile => packs[id].hasFile
    BY <1>2, <1>3 DEF DataInv, MountInv
  <1>5. DataKept /\ Files' = Files
    BY <1>1, <1>3, <1>4, BuildsKept DEF DataKept
  <1>6. CallsOK'
    BY <1>1, <1>5, DataNoCall
  <1>7. mounted \subseteq DOMAIN packs
    BY DEF PackInv, SnapshotInv, PacksOf, ToSet
  <1>8. DiskInv' /\ MountInv'
    BY <1>1, <1>3, <1>4, <1>5, <1>7 DEF DataInv, DiskInv, MountInv
  <1>9. PublishingInv'
    <2>1. \A u \in Threads : call[u].pc = "publishing" =>
                call[u].id \in DOMAIN packs /\ call[u].id # id
      BY <1>2 DEF PackInv, CallInv, CallOK, DataInv, PublishingInv
    <2> QED
      BY <1>1, <1>3, <2>1 DEF DataInv, PublishingInv
  <1> QED
    BY <1>6, <1>8, <1>9 DEF DataInv

LEMMA UnmountAll_Data ==
    ASSUME DataInv, NEW t \in Threads, UnmountAll(t)
    PROVE  DataInv'
  <1>1. mounted' = {} /\ UNCHANGED <<scope, disk, building, packs, call>>
    BY DEF UnmountAll
  <1>2. DataKept /\ Files' = Files
    BY <1>1, BuildsKept DEF DataKept
  <1>3. CallsOK'
    BY <1>1, <1>2, DataNoCall
  <1>4. DiskInv' /\ MountInv' /\ PublishingInv'
    BY <1>1, <1>2 DEF DataInv, DiskInv, MountInv, PublishingInv
  <1> QED
    BY <1>3, <1>4 DEF DataInv

LEMMA BeginFind_Data ==
    ASSUME PackInv, DataInv, NEW t \in Threads, NEW kind \in {"asset", "chunk"},
           NEW key, NEW within, BeginFind(t, kind, key, within)
    PROVE  DataInv'
  <1>1. PICK c : c = [pc |-> "walking", kind |-> kind, key |-> key, within |-> within,
                      snapshot |-> snapshot,
                      expected |-> Answers(mounted, kind, key, within)]
    OBVIOUS
  <1>2. c.pc = "walking" /\ c.kind = kind
    BY <1>1
  <1>3. DataOK(c)
    BY <1>2 DEF DataOK
  <1> QED
    BY <1>1, <1>2, <1>3, DataCallStep DEF BeginFind, PackInv

\* The pack that a walk finds has the id.
LEMMA HitFound ==
    ASSUME NEW s, PacksOf(s), NEW kind, NEW key, NEW within,
           NEW hits, hits = {i \in DOMAIN s : /\ within \in {None, s[i]}
                                              /\ RecordsIn(s[i], kind, key) # {}},
           hits # {}
    PROVE  Found(s[Min(hits)], kind, key)
  <1> DEFINE first == Min(hits)
  <1>1. hits \subseteq Nat
    BY DEF PacksOf
  <1>2. first \in hits
    BY <1>1, LeastOf
  <1> HIDE DEF first
  <1>3. s[first] \in DOMAIN packs /\ RecordsIn(s[first], kind, key) # {}
    BY <1>2 DEF PacksOf
  <1> QED
    BY <1>3 DEF Found, first

LEMMA Walk_Data ==
    ASSUME PackInv, DataInv, NEW t \in Threads, Walk(t)
    PROVE  DataInv'
  <1> DEFINE c == call[t]
             hits == {i \in DOMAIN c.snapshot :
                        /\ c.within \in {None, c.snapshot[i]}
                        /\ RecordsIn(c.snapshot[i], c.kind, c.key) # {}}
             found == c.snapshot[Min(hits)]
             next == IF hits = {} THEN Located(c, None, "null")
                     ELSE IF c.kind = "asset" THEN Located(c, found, "null")
                     ELSE [pc |-> "copying", kind |-> c.kind, key |-> c.key,
                           snapshot |-> c.snapshot, expected |-> c.expected,
                           id |-> found, hasFile |-> packs[found].hasFile]
  <1>1. PacksOf(c.snapshot) /\ c.kind \in {"asset", "chunk"}
    BY DEF Walk, At, PackInv, CallInv, CallOK, DataInv, CallsOK, DataOK
  <1>2. hits # {} => Found(found, c.kind, c.key)
    BY <1>1, HitFound
  <1>3. Becomes(t, next) /\ UNCHANGED <<scope, disk, building, packs, mounted>>
    BY DEF Walk
  <1> HIDE DEF c, hits, found
  <1>4. PICK r : r = next
    OBVIOUS
  <1>5. CASE hits = {}
    <2>1. r.pc = "located" /\ r.id = None /\ r.file = "null"
      BY <1>4, <1>5 DEF Located
    <2>2. DataOK(r) /\ r.pc # "publishing"
      BY <2>1 DEF DataOK
    <2> HIDE DEF next
    <2> QED
      BY <1>3, <1>4, <2>2, DataCallStep DEF PackInv
  <1>6. CASE hits # {} /\ c.kind = "asset"
    <2>1. /\ r.pc = "located" /\ r.id = found /\ r.kind = "asset" /\ r.key = c.key
          /\ r.file = "null"
      BY <1>4, <1>6 DEF Located
    <2>2. DataOK(r) /\ r.pc # "publishing"
      BY <1>2, <1>6, <2>1 DEF DataOK
    <2> HIDE DEF next
    <2> QED
      BY <1>3, <1>4, <2>2, DataCallStep DEF PackInv
  <1>7. CASE hits # {} /\ c.kind = "chunk"
    <2>1. /\ r.pc = "copying" /\ r.id = found /\ r.kind = "chunk" /\ r.key = c.key
          /\ r.hasFile = packs[found].hasFile
      BY <1>4, <1>7
    <2>2. DataOK(r) /\ r.pc # "publishing"
      BY <1>2, <1>7, <2>1 DEF DataOK
    <2> HIDE DEF next
    <2> QED
      BY <1>3, <1>4, <2>2, DataCallStep DEF PackInv
  <1> QED
    BY <1>1, <1>5, <1>6, <1>7

LEMMA CopyFile_Data ==
    ASSUME PackInv, DataInv, NEW t \in Threads, CopyFile(t)
    PROVE  DataInv'
  <1> DEFINE c == call[t]
             file == IF ~c.hasFile THEN "null"
                     ELSE IF FileOpen(c.id) THEN "open" ELSE "dangling"
  <1>1. /\ c.kind = "chunk" /\ Found(c.id, "chunk", c.key)
        /\ ~c.hasFile => ~packs[c.id].hasFile
    BY DEF CopyFile, At, DataInv, CallsOK, DataOK
  <1>2. /\ Becomes(t, Located(c, c.id, file))
        /\ UNCHANGED <<scope, disk, building, packs, mounted>>
    BY DEF CopyFile
  <1>3. file \in {"null", "open", "dangling"} /\ (file = "null" => ~c.hasFile)
    OBVIOUS
  <1> HIDE DEF c, file
  <1>4. PICK r : r = Located(c, c.id, file)
    OBVIOUS
  <1>5. /\ r.pc = "located" /\ r.id = c.id /\ r.kind = c.kind /\ r.key = c.key
        /\ r.file = file
    BY <1>4 DEF Located
  <1>6. DataOK(r) /\ r.pc # "publishing"
    BY <1>1, <1>3, <1>5 DEF DataOK
  <1> QED
    BY <1>2, <1>4, <1>6, DataCallStep DEF PackInv

\* What a location says that is read.
LEMMA LocatedChunk ==
    ASSUME DataInv, NEW t \in Threads, NEW dstSize, Reads(t, dstSize)
    PROVE  /\ Found(call[t].id, "chunk", call[t].key)
           /\ call[t].file \in {"null", "open"}
           /\ call[t].file = "null" => ~packs[call[t].id].hasFile
  BY DEF Reads, At, DataInv, CallsOK, DataOK

\* The size in the record of a chunk.
LEMMA RecordSize ==
    ASSUME DiskInv, MountInv, NEW c, Found(c.id, "chunk", c.key)
    PROVE  Record(c).compressedSize \in Nat
  <1> DEFINE k == packs[c.id].toc
             added == AddedChunk(k, c.key)
  <1>1. k \in Files /\ scope \in Scopes
    BY DEF Found, MountInv, DiskInv
  <1>2. Record(c) \in ChunkRecordsOf(TocOf(k).value, c.key)
    BY RecordFound
  <1> HIDE DEF k
  <1>3. added \in ChunkDesc /\ ValidChunk(added) /\ Placed(DataOf(k), Record(c), ChunkOf(added))
    BY <1>1, <1>2, ChunkRecordGood
  <1> HIDE DEF added
  <1>4. /\ added.data \in Seq(Nat) /\ added.data # <<>>
        /\ added.compression \in {"None", "RLE"}
    BY <1>3 DEF ChunkDesc, ValidChunk
  <1>5. Compress(added.compression, added.data) \in Seq(Nat)
    BY <1>4, CompressInverse
  <1>6. Record(c).compressedSize = Len(Compress(added.compression, added.data))
    BY <1>3 DEF Placed, ChunkOf
  <1> QED
    BY <1>5, <1>6

\* A read that was refused because of its buffer, or for want of a file.
LEMMA RefusedRead ==
    ASSUME DataInv, NEW c, Found(c.id, "chunk", c.key),
           c.pc = "read", c.result = Failed,
           c.file = "null" => ~packs[c.id].hasFile,
           NEW dstSize \in Nat, c.dstSize = dstSize,
           c.file = "null" \/ dstSize < Record(c).compressedSize
    PROVE  DataOK(c)
  <1>1. ~c.result.ok
    BY DEF Failed
  <1>2. ReadGood(c)
    <2> SUFFICES ASSUME packs[c.id].toc = packs[c.id].data
                 PROVE  ReadGood(c)
      BY DEF ReadGood
    <2> DEFINE r == Record(c)
    <2>1. /\ r.offset % AddedChunk(packs[c.id].toc, c.key).alignment = 0
          /\ r.compressedSize \in Nat
      BY RecordReads DEF DataInv
    <2> HIDE DEF r
    <2>2. c.file = "null" \/ dstSize < r.compressedSize
      BY DEF r
    <2>3. c.file = "null" \/ ~(c.dstSize >= r.compressedSize \/ c.dstSize = r.compressedSize)
      BY <2>1, <2>2
    <2> QED
      BY <1>1, <2>1, <2>3 DEF ReadGood, r
  <1> QED
    BY <1>2 DEF DataOK

\* A read of `size' bytes from where the chunk lies.
LEMMA PerformedRead ==
    ASSUME DataInv, NEW c, Found(c.id, "chunk", c.key),
           c.pc = "read", c.file # "null",
           NEW size \in Nat, size >= Record(c).compressedSize,
           c.mode = "sync" => size = Record(c).compressedSize,
           c.mode # "sync" => size = c.dstSize,
           c.result = ReadAt(DataOf(packs[c.id].data), Record(c).offset, size)
    PROVE  DataOK(c)
  <1>1. ReadGood(c)
    <2> SUFFICES ASSUME packs[c.id].toc = packs[c.id].data
                 PROVE  ReadGood(c)
      BY DEF ReadGood
    <2> DEFINE r == Record(c)
               added == AddedChunk(packs[c.id].toc, c.key)
    <2>1. r.offset % added.alignment = 0
      BY RecordReads DEF DataInv
    <2>2. /\ c.result.ok =>
                Decompress(r.compression, SubSeq(c.result.value, 1, r.compressedSize),
                           r.uncompressedSize) = Done(added.data)
          /\ size = r.compressedSize => c.result.ok
      BY RecordReads DEF DataInv
    <2> HIDE DEF r, added
    <2>3. ~c.result.ok => ~(c.mode = "sync") /\ c.dstSize # r.compressedSize
      BY <2>2 DEF r
    <2> QED
      BY <2>1, <2>2, <2>3 DEF ReadGood, r, added
  <1> QED
    BY <1>1 DEF DataOK

LEMMA ReadSync_Data ==
    ASSUME PackInv, DataInv, NEW t \in Threads, NEW dstSize \in Nat, ReadSync(t, dstSize)
    PROVE  DataInv'
  <1> DEFINE c == call[t]
             r == Record(c)
             result == IF c.file = "null" \/ dstSize < r.compressedSize THEN Failed
                       ELSE ReadAt(DataOf(packs[c.id].data), r.offset, r.compressedSize)
  <1>1. /\ Becomes(t, Read(c, "sync", dstSize, result))
        /\ UNCHANGED <<scope, disk, building, packs, mounted>>
    BY DEF ReadSync
  <1>2. /\ Found(c.id, "chunk", c.key) /\ c.file \in {"null", "open"}
        /\ c.file = "null" => ~packs[c.id].hasFile
    BY LocatedChunk DEF ReadSync
  <1>3. r.compressedSize \in Nat
    BY <1>2, RecordSize DEF DataInv
  <1> HIDE DEF c
  <1>4. PICK d : d = Read(c, "sync", dstSize, result)
    OBVIOUS
  <1> HIDE DEF result
  <1>5. /\ d.pc = "read" /\ d.mode = "sync" /\ d.key = c.key /\ d.id = c.id
        /\ d.dstSize = dstSize /\ d.file = c.file /\ d.result = result
    BY <1>4 DEF Read
  <1>6. Record(d) = r
    BY <1>5 DEF Record
  <1>7. DataOK(d)
    <2>1. CASE c.file = "null" \/ dstSize < r.compressedSize
      <3>1. d.result = Failed
        BY <1>5, <2>1 DEF result
      <3> HIDE DEF r
      <3> QED
        BY <1>2, <1>5, <1>6, <2>1, <3>1, RefusedRead
    <2>2. CASE ~(c.file = "null" \/ dstSize < r.compressedSize)
      <3>1. d.result = ReadAt(DataOf(packs[d.id].data), Record(d).offset, r.compressedSize)
        BY <1>5, <1>6, <2>2 DEF result
      <3> HIDE DEF r
      <3>2. r.compressedSize >= Record(d).compressedSize
        BY <1>3, <1>6
      <3> QED
        BY <1>2, <1>3, <1>5, <1>6, <2>2, <3>1, <3>2, PerformedRead
    <2> QED
      BY <2>1, <2>2
  <1>8. d.pc # "publishing"
    BY <1>5
  <1> QED
    BY <1>1, <1>4, <1>7, <1>8, DataCallStep DEF PackInv

LEMMA LaunchRead_Data ==
    ASSUME PackInv, DataInv, NEW t \in Threads, NEW dstSize \in Nat, LaunchRead(t, dstSize)
    PROVE  DataInv'
  <1> DEFINE c == call[t]
             next == IF c.file = "null" \/ dstSize < Record(c).compressedSize
                     THEN Read(c, "async", dstSize, Failed)
                     ELSE [pc |-> "reading", key |-> c.key, id |-> c.id, file |-> c.file,
                           dstSize |-> dstSize]
  <1>1. Becomes(t, next) /\ UNCHANGED <<scope, disk, building, packs, mounted>>
    BY DEF LaunchRead
  <1>2. /\ Found(c.id, "chunk", c.key) /\ c.file \in {"null", "open"}
        /\ c.file = "null" => ~packs[c.id].hasFile
    BY LocatedChunk DEF LaunchRead
  <1>3. Record(c).compressedSize \in Nat
    BY <1>2, RecordSize DEF DataInv
  <1> HIDE DEF c
  <1>4. PICK d : d = next
    OBVIOUS
  <1>5. CASE c.file = "null" \/ dstSize < Record(c).compressedSize
    <2>1. /\ d.pc = "read" /\ d.key = c.key /\ d.id = c.id
          /\ d.dstSize = dstSize /\ d.file = c.file /\ d.result = Failed
      BY <1>4, <1>5 DEF Read
    <2>2. Record(d) = Record(c)
      BY <2>1 DEF Record
    <2>3. DataOK(d) /\ d.pc # "publishing"
      BY <1>2, <1>5, <2>1, <2>2, RefusedRead
    <2> HIDE DEF next
    <2> QED
      BY <1>1, <1>4, <2>3, DataCallStep DEF PackInv
  <1>6. CASE ~(c.file = "null" \/ dstSize < Record(c).compressedSize)
    <2>1. /\ d.pc = "reading" /\ d.key = c.key /\ d.id = c.id
          /\ d.dstSize = dstSize /\ d.file = c.file
      BY <1>4, <1>6
    <2>2. Record(d) = Record(c)
      BY <2>1 DEF Record
    <2>3. d.dstSize \in Nat /\ d.dstSize >= Record(d).compressedSize
      BY <1>3, <1>6, <2>1, <2>2
    <2>4. DataOK(d) /\ d.pc # "publishing"
      BY <1>2, <1>6, <2>1, <2>3 DEF DataOK
    <2> HIDE DEF next
    <2> QED
      BY <1>1, <1>4, <2>4, DataCallStep DEF PackInv
  <1> QED
    BY <1>5, <1>6

LEMMA RunRead_Data ==
    ASSUME PackInv, DataInv, NEW t \in Threads, RunRead(t)
    PROVE  DataInv'
  <1> DEFINE c == call[t]
             result == ReadAt(DataOf(packs[c.id].data), Record(c).offset, c.dstSize)
  <1>1. /\ Becomes(t, Read(c, "async", c.dstSize, result))
        /\ UNCHANGED <<scope, disk, building, packs, mounted>>
    BY DEF RunRead
  <1>2. /\ Found(c.id, "chunk", c.key) /\ c.file = "open"
        /\ c.dstSize \in Nat /\ c.dstSize >= Record(c).compressedSize
    BY DEF RunRead, At, DataInv, CallsOK, DataOK
  <1> HIDE DEF c
  <1>3. PICK d : d = Read(c, "async", c.dstSize, result)
    OBVIOUS
  <1> HIDE DEF result
  <1>4. /\ d.pc = "read" /\ d.mode = "async" /\ d.key = c.key /\ d.id = c.id
        /\ d.dstSize = c.dstSize /\ d.file = c.file /\ d.result = result
    BY <1>3 DEF Read
  <1>5. Record(d) = Record(c)
    BY <1>4 DEF Record
  <1>6. d.result = ReadAt(DataOf(packs[d.id].data), Record(d).offset, c.dstSize)
    BY <1>4, <1>5 DEF result
  <1>7. DataOK(d) /\ d.pc # "publishing"
    BY <1>2, <1>4, <1>5, <1>6, PerformedRead
  <1> QED
    BY <1>1, <1>3, <1>7, DataCallStep DEF PackInv

LEMMA Return_Data ==
    ASSUME PackInv, DataInv, NEW t \in Threads, Return(t)
    PROVE  DataInv'
  <1>1. DataOK(Idle) /\ Idle.pc # "publishing"
    BY DEF Idle, DataOK
  <1> QED
    BY <1>1, DataCallStep DEF Return, PackInv

LEMMA Next_Data == PackInv /\ DataInv /\ [Next]_vars => DataInv'
  <1> SUFFICES ASSUME PackInv, DataInv, [Next]_vars
               PROVE  DataInv'
    OBVIOUS
  <1>1. CASE UNCHANGED vars
    <2>1. DiskInv'
      BY <1>1 DEF vars, DataInv, DiskInv, Files
    <2> QED
      BY <1>1, <2>1, DataFilesStep DEF vars
  <1>2. CASE WriteData
    BY <1>2, WriteData_Data
  <1>3. ASSUME NEW name \in Names, NEW k \in Builds, WriteToc(name, k)
        PROVE  DataInv'
    BY <1>3, WriteToc_Data
  <1>4. ASSUME NEW t \in Threads, NEW name \in Names, NEW priority \in Priorities,
               BeginMount(t, name, priority)
        PROVE  DataInv'
    BY <1>4, BeginMount_Data
  <1>5. ASSUME NEW t \in Threads, OpenData(t)
        PROVE  DataInv'
    BY <1>5, OpenData_Data
  <1>6. ASSUME NEW t \in Threads, Publish(t)
        PROVE  DataInv'
    BY <1>6, Publish_Data
  <1>7. ASSUME NEW t \in Threads, NEW id \in DOMAIN packs, Umount(t, id)
        PROVE  DataInv'
    BY <1>7, Umount_Data
  <1>8. ASSUME NEW t \in Threads, UnmountAll(t)
        PROVE  DataInv'
    BY <1>8, UnmountAll_Data
  <1>9. ASSUME NEW t \in Threads, NEW kind \in {"asset", "chunk"}, NEW key, NEW within,
               BeginFind(t, kind, key, within)
        PROVE  DataInv'
    BY <1>9, BeginFind_Data
  <1>10. ASSUME NEW t \in Threads, Walk(t) \/ CopyFile(t) \/ RunRead(t) \/ Return(t)
         PROVE  DataInv'
    BY <1>10, Walk_Data, CopyFile_Data, RunRead_Data, Return_Data
  <1>11. ASSUME NEW t \in Threads, NEW dstSize \in 0 .. MaxBuffer,
                ReadSync(t, dstSize) \/ LaunchRead(t, dstSize)
         PROVE  DataInv'
    <2>1. dstSize \in Nat
      BY DEF MaxBuffer
    <2> QED
      BY <1>11, <2>1, ReadSync_Data, LaunchRead_Data
  <1> QED
    BY <1>1, <1>2, <1>3, <1>4, <1>5, <1>6, <1>7, <1>8, <1>9, <1>10, <1>11 DEF Next

LEMMA DataAlways == Spec => []DataInv
  BY Init_Inv, Next_Inv, Init_Data, Next_Data, PTL DEF Spec

-----------------------------------------------------------------------------
\* The theorems about what is read.

\* Mount accepts whatever pair of files one Build wrote: LoadToc finds each table
\* where Build put it, and BuildIndex no bad id and no chunk beyond the data file.
THEOREM BuiltPacksMountAlways == Spec => []BuiltPacksMount
  <1>1. DataInv => BuiltPacksMount
    BY MountsBuilt
  <1> QED
    BY <1>1, DataAlways, PTL

\* The record of an asset that a search found gives the dependencies and the name
\* of the asset that was added first with its id.
THEOREM AssetsAreAsAdded == Spec => []AssetsAsAdded
  <1>1. DataInv => AssetsAsAdded
    BY AssetsGood
  <1> QED
    BY <1>1, DataAlways, PTL

\* A chunk is read as it was added, for all data, codecs and alignments, whatever
\* is mounted, unmounted and rebuilt meanwhile; and a read with a fitting buffer
\* fails only if the pack was unmounted before its file was copied.
THEOREM ReadsAreAsAdded == Spec => []ReadsWhatWasAdded
  <1>1. DataInv => ReadsWhatWasAdded
    BY ReadsGood
  <1> QED
    BY <1>1, DataAlways, PTL

=============================================================================
