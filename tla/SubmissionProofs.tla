-------------------------- MODULE SubmissionProofs --------------------------
(***************************************************************************)
(* What SubmissionProperties states, for any queues, lists, resources and  *)
(* queries, any sizes and alignments, and any number of submissions.       *)
(***************************************************************************)
EXTENDS SubmissionProperties, FiniteSetTheorems, WellFoundedInduction, TLAPS

-----------------------------------------------------------------------------
\* Types.

Marked == Readback \cup Timer \cup Event
Manager == [current : Chunk \cup {None}, pool : Seq(Chunk)]
Piece == [list : List, kind : Kinds, chunk : Nat, lo : Nat, hi : Nat, written : BOOLEAN,
          recording : Nat, number : Nat]
Recorder == [objects : SUBSET Object, chunks : SUBSET Nat, regions : SUBSET Piece]
Allocator == [allocator : Nat, submitted : Nat]
ListState ==
    [state : {"idle", "open", "closed", "gone"}, version : Nat, instance : Recorder,
     active : Nat, pool : Seq(Allocator), uploadBuffer : Nat \cup {None},
     upload : Manager, scratch : Manager]
Instance == [list : List, submitted : Nat, objects : SUBSET Object, chunks : SUBSET Nat]
QueueState == [submitted : Nat, completed : Nat, recording : Nat \ {0},
               inFlight : Seq(Instance)]
WorkItem == [kind : {"work"}, value : Nat, objects : SUBSET Object,
             allocators : SUBSET (List \X Nat), regions : SUBSET Piece]
WaitItem == [kind : {"wait"}, on : Queue, value : Nat]
Mark == [started : BOOLEAN, resolved : BOOLEAN, fence : BOOLEAN, value : Nat]
Host == [state : {"run", "wait", "idle"}, queue : Queue \cup {None}, value : Nat,
         object : Object \cup {None}, left : Seq(Queue)]

WorkOf(q) == {i \in Items(q) : i.kind = "work"}

TypeInv ==
    /\ work \in [Queue -> Seq(WorkItem \cup WaitItem)]
    /\ fence \in [Queue -> Nat]
    /\ queue \in [Queue -> QueueState]
    /\ list \in [List -> ListState]
    /\ mark \in [Marked -> Mark]
    /\ host \in Host
    /\ host.state = "idle" => host.left # <<>>
    /\ \A l \in List : IsFiniteSet(list[l].instance.regions)
    /\ \A q \in Queue : \A i \in WorkOf(q) : IsFiniteSet(i.allocators)


-----------------------------------------------------------------------------
\* Upload memory.

LEMMA AlignUp ==
  ASSUME NEW x \in Nat, NEW a \in Nat \ {0}
  PROVE  Align(x, a) \in Nat /\ Align(x, a) >= x
  <1> DEFINE y == x + a - 1
             d == y \div a
  <1>1. y \in Nat /\ d \in Nat
    OBVIOUS
  <1>2. y = d * a + (y % a) /\ y % a \in 0 .. a - 1
    OBVIOUS
  <1>3. d * a \in Nat /\ d * a >= x
    BY <1>1, <1>2
  <1>4. QED
    BY <1>3 DEF Align

Count(m) == Len(m.pool) + (IF m.current = None THEN 0 ELSE 1)

\* The chunks of a manager are told apart by their numbers, all below n.
Apart(p, n) ==
    /\ \A i \in DOMAIN p : p[i].id < n
    /\ \A i, j \in DOMAIN p : i # j => p[i].id # p[j].id
Numbered(m, n) ==
    /\ Apart(m.pool, n)
    /\ m.current # None => /\ m.current.id < n
                           /\ \A i \in DOMAIN m.pool : m.pool[i].id # m.current.id

\* The current chunk carries the version of a recording, so that nobody takes
\* it before it has been submitted.
Sound(m) ==
    /\ Numbered(m, Count(m))
    /\ m.current # None => m.current.version[1] > 0 /\ ~m.current.version[2]

\* The pool with the current chunk put back.
Retired(m) == m.pool \o (IF m.current = None THEN <<>> ELSE <<m.current>>)

LEMMA RetiredPool ==
  ASSUME NEW m \in Manager, NEW n \in Nat, Numbered(m, n)
  PROVE  /\ Retired(m) \in Seq(Chunk)
         /\ Len(Retired(m)) = Count(m)
         /\ Apart(Retired(m), n)
         /\ Range(Retired(m)) = ChunksOf(m)
         /\ m.current = None => Retired(m) = m.pool
         /\ m.current # None => Retired(m) = Append(m.pool, m.current)
  <1>0. m.pool \in Seq(Chunk) /\ m.current \in Chunk \cup {None}
    BY DEF Manager
  <1>1. CASE m.current = None
    <2>1. Retired(m) = m.pool
      BY <1>0, <1>1 DEF Retired
    <2>2. ChunksOf(m) = Range(m.pool)
      BY <1>1 DEF ChunksOf
    <2>3. QED
      BY <1>0, <1>1, <2>1, <2>2 DEF Count, Numbered
  <1>2. CASE m.current # None
    <2> DEFINE p == Append(m.pool, m.current)
    <2>1. Retired(m) = p /\ p \in Seq(Chunk) /\ Len(p) = Len(m.pool) + 1
      BY <1>0, <1>2 DEF Retired
    <2>2. DOMAIN p = 1 .. Len(m.pool) + 1 /\ DOMAIN m.pool = 1 .. Len(m.pool)
      BY <1>0, <2>1
    <2>3. /\ \A i \in DOMAIN m.pool : p[i] = m.pool[i]
          /\ p[Len(m.pool) + 1] = m.current
      BY <1>0, <1>2
    <2> HIDE DEF p
    <2>4. \A i \in DOMAIN p : i \in DOMAIN m.pool \/ i = Len(m.pool) + 1
      BY <2>2, <1>0
    <2>5. \A i \in DOMAIN m.pool : i \in DOMAIN p
      BY <2>2, <1>0
    <2>6. Len(m.pool) + 1 \in DOMAIN p
      BY <2>2, <1>0
    <2>7. Apart(p, n)
      BY <2>3, <2>4, <1>2 DEF Apart, Numbered
    <2>8. Range(p) = ChunksOf(m)
      BY <2>3, <2>4, <2>5, <2>6, <1>2 DEF Range, ChunksOf
    <2>9. QED
      BY <1>2, <2>1, <2>7, <2>8 DEF p, Count
  <1>3. QED
    BY <1>1, <1>2

LEMMA RemoveOne ==
  ASSUME NEW S, NEW s \in Seq(S), NEW k \in DOMAIN s
  PROVE  /\ RemoveAt(s, k) \in Seq(S)
         /\ Len(RemoveAt(s, k)) = Len(s) - 1
         /\ \A i \in 1 .. Len(s) - 1 : RemoveAt(s, k)[i] = s[IF i < k THEN i ELSE i + 1]
  <1>1. k \in 1 .. Len(s) /\ Len(s) \in Nat
    OBVIOUS
  <1> DEFINE a == SubSeq(s, 1, k - 1)
             b == SubSeq(s, k + 1, Len(s))
  <1>2. /\ a \in Seq(S) /\ Len(a) = k - 1
        /\ \A i \in 1 .. k - 1 : a[i] = s[i]
    BY <1>1
  <1>3. /\ b \in Seq(S) /\ Len(b) = Len(s) - k
        /\ \A i \in 1 .. Len(s) - k : b[i] = s[i + k]
    BY <1>1
  <1>4. RemoveAt(s, k) = a \o b
    BY DEF RemoveAt
  <1> HIDE DEF a, b
  <1>5. a \o b \in Seq(S) /\ Len(a \o b) = Len(s) - 1
    BY <1>1, <1>2, <1>3
  <1>6. ASSUME NEW i \in 1 .. Len(s) - 1
        PROVE  (a \o b)[i] = s[IF i < k THEN i ELSE i + 1]
    <2>1. CASE i < k
      BY <1>1, <1>2, <1>3, <2>1
    <2>2. CASE ~(i < k)
      <3>1. (a \o b)[i] = b[i - (k - 1)]
        BY <1>1, <1>2, <1>3, <2>2
      <3>2. i - (k - 1) \in 1 .. Len(s) - k
        BY <1>1, <2>2
      <3>3. b[i - (k - 1)] = s[i + 1]
        BY <1>1, <1>3, <3>2
      <3>4. QED
        BY <2>2, <3>1, <3>3
    <2>3. QED
      BY <2>1, <2>2
  <1>7. QED
    BY <1>4, <1>5, <1>6

LEMMA LeastOf ==
  ASSUME NEW S \in SUBSET Nat, S # {}
  PROVE  Min(S) \in S /\ \A y \in S : Min(S) <= y
  <1>1. PICK R : R = OpToRel(<, Nat)
    OBVIOUS
  <1>2. IsWellFoundedOn(R, Nat)
    BY <1>1, NatLessThanWellFounded
  <1>3. PICK x \in S : \A y \in S : ~(<<y, x>> \in R)
    BY <1>2, WFMin
  <1>4. ASSUME NEW i \in Nat, NEW j \in Nat, i < j
        PROVE  <<i, j>> \in R
    BY <1>1, <1>4 DEF OpToRel
  <1>5. ASSUME NEW y \in S
        PROVE  x <= y
    <2>1. x \in Nat /\ y \in Nat
      OBVIOUS
    <2>2. ~(y < x)
      BY <1>3, <1>4, <2>1
    <2>3. QED
      BY <2>1, <2>2
  <1>6. QED
    BY <1>5 DEF Min

LEMMA GreatestOf ==
  ASSUME NEW n \in Nat, NEW S \in SUBSET (1 .. n), S # {}
  PROVE  Max(S) \in S /\ \A y \in S : y <= Max(S)
  <1> DEFINE T == {n - x : x \in S}
  <1>1. T \in SUBSET Nat /\ T # {}
    <2>1. \A x \in S : n - x \in Nat
      OBVIOUS
    <2>2. QED
      BY <2>1
  <1>2. Min(T) \in T /\ \A y \in T : Min(T) <= y
    BY <1>1, LeastOf
  <1>3. PICK x \in S : Min(T) = n - x
    BY <1>2
  <1>4. \A y \in S : n - x <= n - y
    BY <1>2, <1>3
  <1>5. \A y \in S : y <= x
    BY <1>4
  <1>6. QED
    BY <1>5 DEF Max
\* What a suballocation of `size' that begins at `at' makes of manager m: the
\* piece ends where the chunk is used up, and every chunk that could not be
\* taken is there with its version, used no less, the piece behind its uses.
Suballocates(m, n, at, size, done) ==
    /\ n \in Manager /\ Sound(n)
    /\ at \in Nat => n.current \in Chunk /\ n.current.used = at + size
    /\ \A c \in ChunksOf(m) : ~Reusable(c, size, done) =>
         \E d \in ChunksOf(n) :
           /\ d.id = c.id /\ d.version = c.version /\ d.used >= c.used
           /\ at \in Nat /\ n.current.id = c.id => at >= c.used

LEMMA UsedChunk ==
  ASSUME NEW c \in Chunk, NEW u \in Nat, NEW d, d = [c EXCEPT !.used = u]
  PROVE  /\ d \in Chunk /\ d.id = c.id /\ d.version = c.version /\ d.used = u
         /\ c.id \in Nat /\ c.used \in Nat /\ c.version[1] \in Nat /\ c.version[2] \in BOOLEAN
  BY DEF Chunk

LEMMA SuballocateCurrent ==
  ASSUME NEW m \in Manager, Sound(m), m.current # None, NEW size \in Nat, NEW done,
         NEW at \in Nat, at >= m.current.used,
         NEW n, n = [m EXCEPT !.current.used = at + size]
  PROVE  Suballocates(m, n, at, size, done)
  <1> DEFINE c == [m.current EXCEPT !.used = at + size]
  <1>1. /\ m.current \in Chunk /\ m.pool \in Seq(Chunk)
        /\ m = [current |-> m.current, pool |-> m.pool]
    BY DEF Manager
  <1>2. /\ c \in Chunk /\ c.id = m.current.id /\ c.version = m.current.version
        /\ c.used = at + size /\ c # None
    <2>1. /\ c \in Chunk /\ c.id = m.current.id /\ c.version = m.current.version
          /\ c.used = at + size
      <3>1. at + size \in Nat /\ m.current \in Chunk
        BY <1>1
      <3>2. QED
        BY <3>1, UsedChunk
    <2>2. QED
      BY <2>1, SubmissionAssumption
  <1>3. n.current = c /\ n.pool = m.pool /\ n \in Manager
    <2>1. n = [m EXCEPT !.current = c]
      BY <1>1 DEF Manager
    <2> HIDE DEF c
    <2>2. QED
      BY <1>1, <1>2, <2>1 DEF Manager
  <1> HIDE DEF c
  <1>4. Count(n) = Count(m)
    BY <1>2, <1>3 DEF Count
  <1>5. Sound(n)
    BY <1>2, <1>3, <1>4 DEF Sound, Numbered
  <1>6. ASSUME NEW d \in ChunksOf(m)
        PROVE  \E e \in ChunksOf(n) :
                 /\ e.id = d.id /\ e.version = d.version /\ e.used >= d.used
                 /\ n.current.id = d.id => at >= d.used
    <2>1. CASE d = m.current
      <3>1. c \in ChunksOf(n)
        BY <1>2, <1>3 DEF ChunksOf
      <3>2. m.current.used \in Nat /\ at + size >= m.current.used
        BY <1>1 DEF Chunk
      <3>3. QED
        BY <1>2, <2>1, <3>1, <3>2
    <2>2. CASE d \in Range(m.pool)
      <3>1. PICK i \in DOMAIN m.pool : d = m.pool[i]
        BY <2>2 DEF Range
      <3>2. d.id # m.current.id
        BY <3>1 DEF Sound, Numbered
      <3>3. d \in ChunksOf(n)
        BY <1>3, <2>2 DEF ChunksOf
      <3>4. d \in Chunk /\ d.used \in Nat
        <4>1. d \in Chunk
          BY <1>1, <3>1
        <4>2. QED
          BY <4>1 DEF Chunk
      <3>5. QED
        BY <1>2, <1>3, <3>2, <3>3, <3>4
    <2>3. QED
      BY <2>1, <2>2 DEF ChunksOf
  <1>7. QED
    BY <1>2, <1>3, <1>5, <1>6 DEF Suballocates

LEMMA SuballocateFails ==
  ASSUME NEW m \in Manager, Sound(m), NEW size, NEW done
  PROVE  Suballocates(m, [current |-> None, pool |-> Retired(m)], -1, size, done)
  <1> DEFINE n == [current |-> None, pool |-> Retired(m)]
  <1>1. Count(m) \in Nat
    BY DEF Count, Manager
  <1>2. /\ Retired(m) \in Seq(Chunk) /\ Len(Retired(m)) = Count(m)
        /\ Apart(Retired(m), Count(m)) /\ Range(Retired(m)) = ChunksOf(m)
    BY <1>1, RetiredPool DEF Sound
  <1>3. n \in Manager /\ n.current = None /\ n.pool = Retired(m)
    BY <1>2 DEF Manager
  <1> HIDE DEF n
  <1>4. Count(n) = Count(m)
    <2>1. Count(n) = Len(n.pool) + 0
      BY <1>3 DEF Count
    <2>2. QED
      BY <1>1, <1>2, <1>3, <2>1
  <1>5. Sound(n)
    BY <1>2, <1>3, <1>4 DEF Sound, Numbered
  <1>6. ChunksOf(n) = ChunksOf(m)
    BY <1>2, <1>3 DEF ChunksOf
  <1>7. \A c \in ChunksOf(m) : c.used \in Nat
    <2>1. ChunksOf(m) \subseteq Chunk
      BY DEF ChunksOf, Manager, Range
    <2>2. QED
      BY <2>1 DEF Chunk
  <1>8. -1 \notin Nat
    OBVIOUS
  <1>9. QED
    BY <1>3, <1>5, <1>6, <1>7, <1>8 DEF Suballocates, n

LEMMA SuballocateNew ==
  ASSUME NEW m \in Manager, Sound(m), NEW size \in Nat, NEW done,
         NEW v \in Nat \ {0}, NEW version, version = <<v, FALSE>>, NEW room \in Nat,
         NEW n, n = [current |-> [CreateChunk(Retired(m), room)
                                     EXCEPT !.version = version, !.used = size],
                     pool |-> Retired(m)]
  PROVE  Suballocates(m, n, 0, size, done)
  <1>1. Count(m) \in Nat
    BY DEF Count, Manager
  <1>2. /\ Retired(m) \in Seq(Chunk) /\ Len(Retired(m)) = Count(m)
        /\ Apart(Retired(m), Count(m)) /\ Range(Retired(m)) = ChunksOf(m)
    BY <1>1, RetiredPool DEF Sound
  <1> DEFINE c == n.current
  <1>3. /\ c.id = Count(m) /\ c.version = version /\ c.used = size
        /\ c \in Chunk
    <2>1. Align(room, ChunkAlignment) \in Nat
      BY AlignUp, SubmissionAssumption
    <2>2. QED
      BY <1>1, <1>2, <2>1 DEF CreateChunk, Chunk
  <1>4. c # None
    BY <1>3, SubmissionAssumption
  <1>5. n \in Manager /\ n.pool = Retired(m)
    BY <1>2, <1>3 DEF Manager
  <1> HIDE DEF c
  <1>6. Count(n) = Count(m) + 1
    <2>1. Count(n) = Len(n.pool) + 1
      BY <1>4 DEF Count, c
    <2>2. QED
      BY <1>2, <1>5, <2>1
  <1>7. Apart(n.pool, Count(n)) /\ \A i \in DOMAIN n.pool : n.pool[i].id # c.id
    <2>1. \A i \in DOMAIN n.pool : n.pool[i].id \in Nat /\ n.pool[i].id < Count(m)
      <3>1. \A i \in DOMAIN n.pool : n.pool[i] \in Chunk
        BY <1>2, <1>5
      <3>2. QED
        BY <1>2, <1>5, <3>1 DEF Apart, Chunk
    <2>2. QED
      BY <1>1, <1>2, <1>3, <1>5, <1>6, <2>1 DEF Apart
  <1>8. Sound(n)
    <2>1. c.id < Count(n)
      BY <1>1, <1>3, <1>6
    <2>2. c.version[1] > 0 /\ ~c.version[2]
      BY <1>3
    <2>3. QED
      BY <1>7, <2>1, <2>2 DEF Sound, Numbered, c
  <1>9. ASSUME NEW d \in ChunksOf(m)
        PROVE  d \in ChunksOf(n) /\ d.used \in Nat /\ d.id # c.id
    <2>1. PICK i \in DOMAIN Retired(m) : d = Retired(m)[i]
      BY <1>2 DEF Range
    <2>2. d \in Chunk /\ d.id < Count(m)
      BY <1>2, <2>1 DEF Apart
    <2>3. d.id \in Nat /\ d.used \in Nat
      BY <2>2 DEF Chunk
    <2>4. d \in ChunksOf(n)
      BY <1>2, <1>5 DEF ChunksOf
    <2>5. QED
      BY <1>1, <1>3, <2>2, <2>3, <2>4
  <1>10. \A d \in ChunksOf(m) : d.used >= d.used
    BY <1>9
  <1>11. QED
    BY <1>3, <1>5, <1>8, <1>9, <1>10 DEF Suballocates, c

LEMMA SuballocateReused ==
  ASSUME NEW m \in Manager, Sound(m), NEW size \in Nat, NEW done,
         NEW v \in Nat \ {0}, NEW version, version = <<v, FALSE>>,
         NEW k \in DOMAIN m.pool, Reusable(m.pool[k], size, done),
         NEW rest, rest = [m EXCEPT !.pool = RemoveAt(m.pool, k)],
         NEW n, n = [current |-> [m.pool[k] EXCEPT !.version = version, !.used = size],
                     pool |-> Retired(rest)]
  PROVE  Suballocates(m, n, 0, size, done)
  <1>1. Count(m) \in Nat /\ m.pool \in Seq(Chunk) /\ Len(m.pool) \in Nat
        /\ m.current \in Chunk \cup {None} /\ m.pool[k] \in Chunk
    BY DEF Count, Manager
  <1> DEFINE p == RemoveAt(m.pool, k)
  <1>2. /\ p \in Seq(Chunk) /\ Len(p) = Len(m.pool) - 1
        /\ \A i \in 1 .. Len(m.pool) - 1 : p[i] = m.pool[IF i < k THEN i ELSE i + 1]
    BY <1>1, RemoveOne
  <1>3. rest.pool = p /\ rest.current = m.current /\ rest \in Manager
    BY <1>1, <1>2 DEF Manager
  <1> HIDE DEF p
  <1>4. k \in 1 .. Len(m.pool) /\ DOMAIN p = 1 .. Len(m.pool) - 1
        /\ DOMAIN m.pool = 1 .. Len(m.pool)
    BY <1>1, <1>2
  <1> DEFINE at(i) == IF i < k THEN i ELSE i + 1
  <1>5. \A i \in DOMAIN p : at(i) \in DOMAIN m.pool /\ at(i) # k /\ p[i] = m.pool[at(i)]
    BY <1>2, <1>4
  <1>6. \A i, j \in DOMAIN p : i # j => at(i) # at(j)
    BY <1>4
  <1>7. \A j \in DOMAIN m.pool : j # k => \E i \in DOMAIN p : at(i) = j
    <2> SUFFICES ASSUME NEW j \in DOMAIN m.pool, j # k
                 PROVE  \E i \in DOMAIN p : at(i) = j
      OBVIOUS
    <2>1. CASE j < k
      BY <1>4, <2>1
    <2>2. CASE j > k
      <3>1. j - 1 \in DOMAIN p /\ at(j - 1) = j
        BY <1>4, <2>2
      <3>2. QED
        BY <3>1
    <2>3. QED
      BY <1>4, <2>1, <2>2
  <1> HIDE DEF at
  <1>8. Numbered(rest, Count(m)) /\ \A i \in DOMAIN p : p[i].id # m.pool[k].id
    <2>1. Apart(p, Count(m))
      BY <1>5, <1>6 DEF Sound, Numbered, Apart
    <2>2. \A i \in DOMAIN p : p[i].id # m.pool[k].id
      BY <1>5 DEF Sound, Numbered, Apart
    <2>3. QED
      BY <1>3, <1>5, <2>1, <2>2 DEF Sound, Numbered
  <1>9. /\ Retired(rest) \in Seq(Chunk) /\ Len(Retired(rest)) = Count(m) - 1
        /\ Apart(Retired(rest), Count(m)) /\ Range(Retired(rest)) = ChunksOf(rest)
    <2>1. Count(rest) = Count(m) - 1
      <3>1. CASE m.current = None
        BY <1>1, <1>2, <1>3, <3>1 DEF Count
      <3>2. CASE m.current # None
        BY <1>1, <1>2, <1>3, <3>2 DEF Count
      <3>3. QED
        BY <3>1, <3>2
    <2>2. QED
      BY <1>1, <1>3, <1>8, <2>1, RetiredPool
  <1> DEFINE c == n.current
  <1>10. /\ c.id = m.pool[k].id /\ c.version = version /\ c.used = size /\ c \in Chunk
    BY <1>1 DEF Chunk
  <1>11. c # None
    BY <1>10, SubmissionAssumption
  <1>12. n \in Manager /\ n.pool = Retired(rest)
    BY <1>9, <1>10 DEF Manager
  <1> HIDE DEF c
  <1>13. Count(n) = Count(m)
    <2>1. Count(n) = Len(n.pool) + 1
      BY <1>11 DEF Count, c
    <2>2. QED
      BY <1>1, <1>9, <1>12, <2>1
  <1>14. \A d \in ChunksOf(rest) : d.id # c.id
    <2>1. \A d \in Range(p) : d.id # c.id
      BY <1>8, <1>10 DEF Range
    <2>2. m.current # None => m.current.id # c.id
      BY <1>10 DEF Sound, Numbered
    <2>3. QED
      BY <1>3, <2>1, <2>2 DEF ChunksOf
  <1>15. Sound(n)
    <2>1. c.id < Count(n)
      BY <1>10, <1>13 DEF Sound, Numbered, Apart
    <2>4. c.version[1] > 0 /\ ~c.version[2]
      BY <1>10
    <2>2. \A i \in DOMAIN n.pool : n.pool[i].id # c.id
      BY <1>9, <1>12, <1>14 DEF Range
    <2>3. QED
      BY <1>9, <1>12, <1>13, <2>1, <2>2, <2>4 DEF Sound, Numbered, c
  <1>16. ASSUME NEW d \in ChunksOf(m), ~Reusable(d, size, done)
         PROVE  d \in ChunksOf(n) /\ d.used \in Nat /\ d.id # c.id
    <2>1. d \in ChunksOf(rest)
      <3>1. CASE d \in Range(m.pool)
        <4>1. PICK j \in DOMAIN m.pool : d = m.pool[j]
          BY <3>1 DEF Range
        <4>2. j # k
          BY <1>16, <4>1
        <4>3. PICK i \in DOMAIN p : at(i) = j
          BY <1>7, <4>2
        <4>4. d \in Range(p)
          BY <1>5, <4>1, <4>3 DEF Range
        <4>5. QED
          BY <1>3, <4>4 DEF ChunksOf
      <3>2. CASE d \in {m.current} \ {None}
        BY <1>3, <3>2 DEF ChunksOf
      <3>3. QED
        BY <3>1, <3>2 DEF ChunksOf
    <2>2. d \in ChunksOf(n)
      BY <1>9, <1>12, <2>1 DEF ChunksOf
    <2>3. d \in Chunk
      BY <1>1, <1>16 DEF ChunksOf, Range
    <2>4. QED
      BY <1>14, <2>1, <2>2, <2>3 DEF Chunk
  <1>17. \A d \in ChunksOf(m) : ~Reusable(d, size, done) => d.used >= d.used
    BY <1>16
  <1>18. QED
    BY <1>10, <1>12, <1>15, <1>16, <1>17 DEF Suballocates, c

\* What SuballocateBuffer answers, and that it fails only against a limit.
LEMMA Suballocation ==
  ASSUME NEW m \in Manager, Sound(m), NEW size \in Nat, NEW alignment \in Nat \ {0},
         NEW v \in Nat \ {0}, NEW version, version = <<v, FALSE>>,
         NEW done \in Nat, NEW limit \in Nat,
         NEW got, got = SuballocateBuffer(m, size, alignment, version, done, limit)
  PROVE  /\ Suballocates(m, got.manager, got.at, size, done)
         /\ got.at \in Nat \/ got.at = -1
         /\ limit = 0 => got.at \in Nat
  <1> DEFINE start == Align(m.current.used, alignment)
             hits == {i \in DOMAIN m.pool : Reusable(m.pool[i], size, done)}
             room == IF size > ChunkSize THEN size ELSE ChunkSize
             need == Align(room, ChunkAlignment)
             fresh == [CreateChunk(Retired(m), need) EXCEPT !.version = version, !.used = size]
             rest == [m EXCEPT !.pool = RemoveAt(m.pool, Min(hits))]
             reused == [m.pool[Min(hits)] EXCEPT !.version = version, !.used = size]
  <1>1. m.current \in Chunk \cup {None} /\ m.pool \in Seq(Chunk)
    BY DEF Manager
  <1>2. room \in Nat /\ need \in Nat
    <2>1. room \in Nat
      BY SubmissionAssumption
    <2> HIDE DEF room
    <2>2. QED
      BY <2>1, SubmissionAssumption, AlignUp
  <1>3. CASE m.current # None /\ start + size <= m.current.size
    <2>1. m.current.used \in Nat
      BY <1>1, <1>3 DEF Chunk
    <2>2. start \in Nat /\ start >= m.current.used
      BY <2>1, AlignUp
    <2>3. got.at = start /\ got.manager = [m EXCEPT !.current.used = start + size]
      BY <1>3 DEF SuballocateBuffer
    <2> HIDE DEF start
    <2>4. Suballocates(m, got.manager, start, size, done)
      BY <1>3, <2>2, <2>3, SuballocateCurrent
    <2>5. QED
      BY <2>2, <2>3, <2>4
  <1>4. CASE ~(m.current # None /\ start + size <= m.current.size)
    <2>1. CASE hits = {} /\ limit > 0 /\ need > limit
      <3>1. got = [at |-> -1, manager |-> [current |-> None, pool |-> Retired(m)]]
        BY <1>4, <2>1 DEF SuballocateBuffer, Retired
      <3>2. QED
        BY <2>1, <3>1, SuballocateFails
    <2>2. CASE hits = {} /\ ~(limit > 0 /\ need > limit)
      <3>1. got = [at |-> 0, manager |-> [current |-> fresh, pool |-> Retired(m)]]
        BY <1>4, <2>2 DEF SuballocateBuffer, Retired
      <3> HIDE DEF need
      <3>2. Suballocates(m, [current |-> fresh, pool |-> Retired(m)], 0, size, done)
        BY <1>2, SuballocateNew
      <3>3. QED
        BY <3>1, <3>2
    <2>3. CASE hits # {}
      <3>1. rest.current = m.current /\ rest.pool = RemoveAt(m.pool, Min(hits))
        BY DEF Manager
      <3>2. Retired(rest) = RemoveAt(m.pool, Min(hits))
                              \o (IF m.current = None THEN <<>> ELSE <<m.current>>)
        BY <3>1 DEF Retired
      <3>3. got = [at |-> 0, manager |-> [current |-> reused, pool |-> Retired(rest)]]
        BY <1>4, <2>3, <3>2 DEF SuballocateBuffer
      <3>4. Min(hits) \in DOMAIN m.pool /\ Reusable(m.pool[Min(hits)], size, done)
        <4>1. hits \in SUBSET Nat
          BY <1>1
        <4>2. Min(hits) \in hits
          BY <2>3, <4>1, LeastOf
        <4>3. QED
          BY <4>2
      <3> HIDE DEF hits
      <3>5. Suballocates(m, [current |-> reused, pool |-> Retired(rest)], 0, size, done)
        BY <3>4, SuballocateReused
      <3>6. QED
        BY <3>3, <3>5
    <2>4. QED
      BY <2>1, <2>2, <2>3
  <1>5. QED
    BY <1>3, <1>4

\* What submission makes of a manager: nothing is open, and every chunk stays
\* with what is used of it, under the version of the submission if it carried
\* that of the recording.
Submits(m, n, recording, submitted) ==
    /\ n \in Manager /\ Sound(n) /\ n.current = None
    /\ \A c \in ChunksOf(m) :
         \E d \in ChunksOf(n) :
           /\ d.id = c.id /\ d.used = c.used
           /\ d.version = IF c.version = recording THEN submitted ELSE c.version

LEMMA SubmittedChunks ==
  ASSUME NEW m \in Manager, Sound(m), NEW recording, NEW submitted \in Nat \X BOOLEAN
  PROVE  Submits(m, SubmitChunks(m, recording, submitted), recording, submitted)
  <1> DEFINE all == IF m.current = None THEN m.pool ELSE Append(m.pool, m.current)
             n == SubmitChunks(m, recording, submitted)
             turned(c) == IF c.version = recording THEN [c EXCEPT !.version = submitted] ELSE c
  <1>1. Count(m) \in Nat
    BY DEF Count, Manager
  <1>2. /\ Retired(m) \in Seq(Chunk) /\ Len(Retired(m)) = Count(m)
        /\ Apart(Retired(m), Count(m)) /\ Range(Retired(m)) = ChunksOf(m)
        /\ all = Retired(m)
    BY <1>1, RetiredPool DEF Sound
  <1>3. n.current = None /\ n.pool = [i \in DOMAIN all |-> turned(all[i])]
        /\ n = [current |-> n.current, pool |-> n.pool]
    BY DEF SubmitChunks
  <1> HIDE DEF all, n
  <1>4. ASSUME NEW c \in Chunk
        PROVE  /\ turned(c) \in Chunk /\ turned(c).id = c.id /\ turned(c).used = c.used
               /\ turned(c).version = IF c.version = recording THEN submitted ELSE c.version
    BY DEF Chunk
  <1> HIDE DEF turned
  <1>5. /\ n.pool \in Seq(Chunk) /\ Len(n.pool) = Count(m) /\ DOMAIN n.pool = DOMAIN all
        /\ \A i \in DOMAIN all : n.pool[i] = turned(all[i]) /\ all[i] \in Chunk
    <2>1. all \in Seq(Chunk) /\ DOMAIN all = 1 .. Count(m)
      BY <1>1, <1>2
    <2>2. \A i \in DOMAIN all : all[i] \in Chunk
      <3>1. all \in Seq(Chunk)
        BY <2>1
      <3>2. QED
        BY <3>1
    <2>3. n.pool \in [1 .. Count(m) -> Chunk]
      BY <1>3, <1>4, <2>1, <2>2
    <2>4. n.pool \in Seq(Chunk) /\ Len(n.pool) = Count(m)
      BY <1>1, <2>3
    <2>5. QED
      BY <1>3, <2>1, <2>2, <2>4
  <1>6. n \in Manager
    BY <1>3, <1>5 DEF Manager
  <1>7. Sound(n)
    <2>1. Count(n) = Count(m)
      <3>1. Count(n) = Len(n.pool) + 0
        BY <1>3 DEF Count
      <3>2. QED
        BY <1>1, <1>5, <3>1
    <2>2. Apart(n.pool, Count(n))
      BY <1>2, <1>4, <1>5, <2>1 DEF Apart
    <2>3. QED
      BY <1>3, <2>2 DEF Sound, Numbered
  <1>8. ASSUME NEW c \in ChunksOf(m)
        PROVE  \E d \in ChunksOf(n) :
                 /\ d.id = c.id /\ d.used = c.used
                 /\ d.version = IF c.version = recording THEN submitted ELSE c.version
    <2>1. PICK i \in DOMAIN all : c = all[i]
      BY <1>2 DEF Range
    <2>2. n.pool[i] \in ChunksOf(n)
      BY <1>5 DEF ChunksOf, Range
    <2>3. QED
      BY <1>4, <1>5, <2>1, <2>2
  <1>9. QED
    BY <1>3, <1>6, <1>7, <1>8 DEF Submits, n

-----------------------------------------------------------------------------
\* The steps, and what each does to the lists.

\* A command that only names objects.
Records(l, s) ==
    /\ Recording(l)
    /\ s \subseteq Object
    /\ \A x \in s \cap Marked : x \notin Event /\ UsedOn[x] = QueueOf[l]
    /\ list' = [list EXCEPT ![l].instance.objects = @ \cup s]
    /\ UNCHANGED <<work, fence, queue, held, mark, host, scope>>

ListStep(l) ==
    \/ Open(l) \/ Close(l) \/ DropList(l)
    \/ \E s \in SUBSET Object : Records(l, s)
    \/ \E x \in Resource, size \in Nat, a \in Nat \ {0} : Write(l, x, size, a)
    \/ \E kind \in Kinds, size \in Nat : Allocate(l, kind, size)

QueueStep(q) ==
    \/ \E lists \in SUBSET List : ExecuteCommandLists(lists, q)
    \/ \E on \in Queue : QueueWaitForCommandList(q, on)
    \/ WaitForQueue(q) \/ GpuStep(q)

MarkStep(x) ==
    \/ WaitForFence(x)
    \/ x \in Event /\ SetEventQuery(x)
    \/ x \in Timer \cup Event /\ \E resolved \in BOOLEAN : Poll(x, resolved)
    \/ x \in Timer \cup Event /\ ResetQuery(x)

Step ==
    \/ \E l \in List : ListStep(l)
    \/ \E q \in Queue : QueueStep(q)
    \/ \E x \in Marked : MarkStep(x)
    \/ RunGarbageCollection \/ WaitForIdle \/ WaitReturns
    \/ \E x \in Object : Drop(x)

LEMMA ReferenceRecords ==
  ASSUME TypeInv, NEW l \in List, NEW s \in SUBSET (Object \ Event), Reference(l, s)
  PROVE  ListStep(l)
  <1>1. DOMAIN mark = Marked
    BY DEF TypeInv
  <1>2. Records(l, s)
    BY <1>1 DEF Reference, Records
  <1>3. QED
    BY <1>2 DEF ListStep

LEMMA NextIsStep ==
  ASSUME TypeInv, Next
  PROVE  Step
  <1>0. /\ Buffer \subseteq Resource /\ Texture \subseteq Resource
        /\ StagingBuffer \subseteq Marked /\ StagingTexture \subseteq Marked
        /\ Timer \subseteq Marked /\ Event \subseteq Marked
        /\ Texture \cup StagingTexture \subseteq Object \ Event
        /\ Buffer \cup StagingBuffer \subseteq Object \ Event
        /\ Timer \subseteq Object \ Event
    BY SubmissionAssumption DEF Resource, Marked, Readback, Object
  <1>1. ASSUME NEW l \in List,
               \/ Open(l) \/ Close(l) \/ DropList(l)
               \/ \E b \in Buffer, size \in Sizes : WriteBuffer(l, b, size)
               \/ \E kind \in Kinds, size \in Sizes : Allocate(l, kind, size)
               \/ \E t \in Texture, size \in Sizes : WriteTexture(l, t, size)
        PROVE  ListStep(l)
    <2>1. CASE Open(l) \/ Close(l) \/ DropList(l)
      BY <2>1 DEF ListStep
    <2>2. ASSUME NEW b \in Buffer, NEW size \in Sizes, WriteBuffer(l, b, size)
          PROVE  ListStep(l)
      BY <1>0, <2>2, SubmissionAssumption DEF ListStep, WriteBuffer
    <2>3. ASSUME NEW kind \in Kinds, NEW size \in Sizes, Allocate(l, kind, size)
          PROVE  ListStep(l)
      BY <2>3, SubmissionAssumption DEF ListStep
    <2>4. ASSUME NEW t \in Texture, NEW size \in Sizes, WriteTexture(l, t, size)
          PROVE  ListStep(l)
      BY <1>0, <2>4, SubmissionAssumption DEF ListStep, WriteTexture
    <2>5. QED
      BY <1>1, <2>1, <2>2, <2>3, <2>4
  <1>2. ASSUME NEW l \in List,
               \/ \E t \in Texture : ClearTexture(l, t)
               \/ \E src, dst \in Texture \cup StagingTexture : CopyTexture(l, src, dst)
               \/ \E src, dst \in Buffer \cup StagingBuffer : CopyBuffer(l, src, dst)
               \/ \E t \in Timer : TimerQuery(l, t)
        PROVE  ListStep(l)
    <2>1. PICK s \in SUBSET (Object \ Event) : Reference(l, s)
      <3>1. ASSUME NEW t \in Texture \cup Timer, ClearTexture(l, t) \/ TimerQuery(l, t)
            PROVE  \E s \in SUBSET (Object \ Event) : Reference(l, s)
        <4>1. {t} \in SUBSET (Object \ Event) /\ Reference(l, {t})
          BY <1>0, <3>1 DEF ClearTexture, TimerQuery
        <4>2. QED
          BY <4>1
      <3>2. ASSUME NEW src \in Object \ Event, NEW dst \in Object \ Event,
                   CopyTexture(l, src, dst) \/ CopyBuffer(l, src, dst)
            PROVE  \E s \in SUBSET (Object \ Event) : Reference(l, s)
        <4>1. {src, dst} \in SUBSET (Object \ Event) /\ Reference(l, {src, dst})
          BY <3>2 DEF CopyTexture, CopyBuffer
        <4>2. QED
          BY <4>1
      <3>3. QED
        BY <1>0, <1>2, <3>1, <3>2
    <2>2. QED
      BY <2>1, ReferenceRecords
  <1>3. ASSUME NEW x \in Marked,
               \/ x \in StagingTexture /\ MapStagingTexture(x)
               \/ x \in StagingBuffer /\ MapBuffer(x)
               \/ x \in Timer /\ (GetTimerQueryTime(x) \/ PollTimerQuery(x) \/ ResetQuery(x))
               \/ x \in Event /\ (SetEventQuery(x) \/ PollEventQuery(x)
                                    \/ WaitEventQuery(x) \/ ResetQuery(x))
        PROVE  MarkStep(x)
    <2>1. mark[x].resolved \in BOOLEAN
      BY DEF TypeInv, Mark
    <2>2. QED
      BY <1>3, <2>1 DEF MarkStep, MapStagingTexture, MapBuffer, GetTimerQueryTime,
                        PollTimerQuery, PollEventQuery, WaitEventQuery
  <1>4. QED
    <2>1. CASE \E l \in List :
                 \/ Open(l) \/ Close(l) \/ DropList(l)
                 \/ \E b \in Buffer, size \in Sizes : WriteBuffer(l, b, size)
                 \/ \E kind \in Kinds, size \in Sizes : Allocate(l, kind, size)
                 \/ \E t \in Texture, size \in Sizes : WriteTexture(l, t, size)
      BY <1>1, <2>1 DEF Step
    <2>2. CASE \E l \in List :
                 \/ \E t \in Texture : ClearTexture(l, t)
                 \/ \E src, dst \in Texture \cup StagingTexture : CopyTexture(l, src, dst)
                 \/ \E src, dst \in Buffer \cup StagingBuffer : CopyBuffer(l, src, dst)
                 \/ \E t \in Timer : TimerQuery(l, t)
      BY <1>2, <2>2 DEF Step
    <2>3. CASE \/ \E t \in StagingTexture : MapStagingTexture(t)
               \/ \E b \in StagingBuffer : MapBuffer(b)
               \/ \E t \in Timer : GetTimerQueryTime(t) \/ PollTimerQuery(t) \/ ResetQuery(t)
               \/ \E e \in Event :
                    SetEventQuery(e) \/ PollEventQuery(e) \/ WaitEventQuery(e) \/ ResetQuery(e)
      BY <1>0, <1>3, <2>3 DEF Step
    <2>4. CASE \E q \in Queue :
                 \/ \E lists \in SUBSET List : ExecuteCommandLists(lists, q)
                 \/ \E on \in Queue : QueueWaitForCommandList(q, on)
                 \/ WaitForQueue(q) \/ GpuStep(q)
      BY <2>4 DEF Step, QueueStep
    <2>5. CASE \/ RunGarbageCollection \/ WaitForIdle \/ WaitReturns
               \/ \E x \in Object : Drop(x)
      BY <2>5 DEF Step
    <2>6. QED
      BY <2>1, <2>2, <2>3, <2>4, <2>5 DEF Next

-----------------------------------------------------------------------------
\* Finite sets and sequences.

LEMMA ImageFinite ==
  ASSUME NEW S, IsFiniteSet(S), NEW f, DOMAIN f = S
  PROVE  IsFiniteSet({f[x] : x \in S})
  <1> DEFINE T == {f[x] : x \in S}
             g == [x \in S |-> f[x]]
  <1>1. g \in Surjection(S, T)
    BY DEF Surjection
  <1>2. QED
    BY <1>1, FS_Surjection

LEMMA RangeFinite ==
  ASSUME NEW S, NEW s \in Seq(S)
  PROVE  IsFiniteSet(Range(s))
  <1>1. DOMAIN s = 1 .. Len(s) /\ Len(s) \in Nat
    OBVIOUS
  <1>2. IsFiniteSet(1 .. Len(s))
    BY <1>1, FS_Interval
  <1>3. IsFiniteSet({s[i] : i \in 1 .. Len(s)})
    BY <1>1, <1>2, ImageFinite
  <1>4. QED
    BY <1>1, <1>3 DEF Range

LEMMA NewAllocatorFree ==
  ASSUME TypeInv, NEW l \in List
  PROVE  /\ NewAllocator(l) \in Nat \ {0}
         /\ \A i \in DOMAIN list[l].pool : list[l].pool[i].allocator # NewAllocator(l)
         /\ \A q \in Queue : \A i \in WorkOf(q) : <<l, NewAllocator(l)>> \notin i.allocators
  <1> DEFINE pool == list[l].pool
             A == {p.allocator : p \in Range(pool)}
             all == UNION {i.allocators : i \in WorkItems}
             mine == {b \in all : b[1] = l}
             B == {a[2] : a \in mine}
             taken == A \cup B
  <1>1. IsFiniteSet(A)
    <2>1. IsFiniteSet(Range(pool))
      <3>1. pool \in Seq(Allocator)
        BY DEF TypeInv, ListState
      <3>2. QED
        BY <3>1, RangeFinite
    <2> DEFINE f == [p \in Range(pool) |-> p.allocator]
    <2>2. A = {f[p] : p \in Range(pool)}
      OBVIOUS
    <2> HIDE DEF A
    <2>3. DOMAIN f = Range(pool)
      OBVIOUS
    <2> HIDE DEF f
    <2>4. QED
      BY <2>1, <2>2, <2>3, ImageFinite
  <1>2. IsFiniteSet(all)
    <2>1. IsFiniteSet(WorkItems)
      <3>1. IsFiniteSet(Queue)
        BY SubmissionAssumption, RangeFinite DEF Queue
      <3> DEFINE f == [q \in Queue |-> Items(q)]
      <3>2. IsFiniteSet({f[q] : q \in Queue})
        BY <3>1, ImageFinite
      <3>3. \A T \in {f[q] : q \in Queue} : IsFiniteSet(T)
        BY RangeFinite DEF TypeInv, Items
      <3>4. IsFiniteSet(UNION {f[q] : q \in Queue})
        BY <3>2, <3>3, FS_UNION
      <3>5. WorkItems \in SUBSET UNION {f[q] : q \in Queue}
        BY DEF WorkItems
      <3>6. QED
        BY <3>4, <3>5, FS_Subset
    <2> DEFINE g == [i \in WorkItems |-> i.allocators]
    <2>2. IsFiniteSet({g[i] : i \in WorkItems})
      BY <2>1, ImageFinite
    <2>3. \A T \in {g[i] : i \in WorkItems} : IsFiniteSet(T)
      BY DEF TypeInv, WorkItems, WorkOf
    <2>4. IsFiniteSet(UNION {g[i] : i \in WorkItems})
      BY <2>2, <2>3, FS_UNION
    <2>5. UNION {g[i] : i \in WorkItems} = all
      OBVIOUS
    <2>6. QED
      BY <2>4, <2>5
  <1>3. IsFiniteSet(B)
    <2>1. mine \in SUBSET all
      OBVIOUS
    <2> HIDE DEF all
    <2>2. IsFiniteSet(mine)
      BY <1>2, <2>1, FS_Subset
    <2> HIDE DEF mine
    <2> DEFINE h == [a \in mine |-> a[2]]
    <2>3. IsFiniteSet({h[a] : a \in mine})
      BY <2>2, ImageFinite
    <2>4. B = {h[a] : a \in mine}
      OBVIOUS
    <2>5. QED
      BY <2>3, <2>4
  <1>4. IsFiniteSet(taken) /\ Cardinality(taken) \in Nat
    <2> HIDE DEF A, B
    <2>1. IsFiniteSet(taken)
      BY <1>1, <1>3, FS_Union
    <2>2. QED
      BY <2>1, FS_CardinalityType
  <1>5. NewAllocator(l) = CHOOSE a \in 1 .. Cardinality(taken) + 1 : a \notin taken
    BY DEF NewAllocator
  <1> DEFINE n == Cardinality(taken)
  <1>6. \E a \in 1 .. n + 1 : a \notin taken
    <2> SUFFICES ASSUME 1 .. n + 1 \in SUBSET taken
                 PROVE  FALSE
      OBVIOUS
    <2>1. Cardinality(1 .. n + 1) <= n
      BY <1>4, FS_Subset
    <2>2. Cardinality(1 .. n + 1) = n + 1
      <3>1. n \in Nat
        BY <1>4
      <3> HIDE DEF n
      <3>2. QED
        BY <3>1, FS_Interval
    <2>3. QED
      BY <1>4, <2>1, <2>2
  <1>7. NewAllocator(l) \in 1 .. n + 1 /\ NewAllocator(l) \notin taken
    <2> HIDE DEF taken
    <2>1. QED
      BY <1>5, <1>6
  <1>8. NewAllocator(l) \in Nat \ {0}
    BY <1>4, <1>7
  <1>9. ASSUME NEW i \in DOMAIN pool
        PROVE  pool[i].allocator # NewAllocator(l)
    BY <1>7 DEF Range
  <1>10. ASSUME NEW q \in Queue, NEW i \in WorkOf(q), <<l, NewAllocator(l)>> \in i.allocators
         PROVE  FALSE
    <2> DEFINE a == NewAllocator(l)
    <2> HIDE DEF a
    <2>1. i \in WorkItems
      BY DEF WorkItems, WorkOf
    <2>2. <<l, a>> \in mine
      BY <1>10, <2>1 DEF a
    <2>3. <<l, a>>[2] = a
      OBVIOUS
    <2> HIDE DEF mine
    <2>4. a \in B
      BY <2>2, <2>3
    <2>5. QED
      BY <1>7, <2>4 DEF a
  <1>11. QED
    BY <1>8, <1>9, <1>10

-----------------------------------------------------------------------------
\* What the steps of a list leave.

Others(l) == \A k \in List \ {l} : list'[k] = list[k]

LEMMA OpenList ==
  ASSUME TypeInv, NEW l \in List, Open(l), NEW done,
         done = UpdateLastCompletedInstance(QueueOf[l])
  PROVE  /\ list' \in [List -> ListState] /\ Others(l)
         /\ list'[l].state = "open" /\ list'[l].version = queue[QueueOf[l]].recording
         /\ list'[l].instance = EmptyInstance
         /\ list'[l].uploadBuffer = list[l].uploadBuffer
         /\ \A kind \in Kinds : list'[l][kind] = list[l][kind]
         /\ IF PoolReady(l, done)
            THEN /\ list'[l].active = Head(list[l].pool).allocator
                 /\ list'[l].pool = Tail(list[l].pool)
            ELSE list'[l].active = NewAllocator(l) /\ list'[l].pool = list[l].pool
  <1> DEFINE active == IF PoolReady(l, done) THEN Head(list[l].pool).allocator
                       ELSE NewAllocator(l)
             pool == IF PoolReady(l, done) THEN Tail(list[l].pool) ELSE list[l].pool
             version == queue[QueueOf[l]].recording
  <1>1. list \in [List -> ListState] /\ list[l] \in ListState
    BY DEF TypeInv
  <1>2. list' = [list EXCEPT ![l].state = "open", ![l].version = version,
                             ![l].instance = EmptyInstance,
                             ![l].active = active, ![l].pool = pool]
    <2>1. list' = [list EXCEPT ![l].state = "open", ![l].version = version,
                               ![l].instance = EmptyInstance, ![l].active = active,
                               ![l].pool = IF PoolReady(l, done) THEN Tail(@) ELSE @]
      BY DEF Open
    <2>2. QED
      BY <1>1, <2>1
  <1>3. active \in Nat /\ pool \in Seq(Allocator)
    <2>1. list[l].pool \in Seq(Allocator)
      BY <1>1 DEF ListState
    <2>2. CASE PoolReady(l, done)
      <3>1. list[l].pool # <<>>
        BY <2>2 DEF PoolReady
      <3>2. Head(list[l].pool) \in Allocator /\ Tail(list[l].pool) \in Seq(Allocator)
        BY <2>1, <3>1
      <3>3. QED
        BY <2>2, <3>2 DEF Allocator
    <2>3. CASE ~PoolReady(l, done)
      BY <2>1, <2>3, NewAllocatorFree
    <2>4. QED
      BY <2>2, <2>3
  <1>4. version \in Nat
    BY SubmissionAssumption DEF TypeInv, QueueState
  <1>5. EmptyInstance \in Recorder
    BY DEF EmptyInstance, Recorder
  <1> HIDE DEF active, pool, version
  <1>6. /\ list' \in [List -> ListState] /\ Others(l)
        /\ list'[l].state = "open" /\ list'[l].version = version
        /\ list'[l].instance = EmptyInstance
        /\ list'[l].uploadBuffer = list[l].uploadBuffer
        /\ list'[l].upload = list[l].upload /\ list'[l].scratch = list[l].scratch
        /\ list'[l].active = active /\ list'[l].pool = pool
    BY <1>1, <1>2, <1>3, <1>4, <1>5 DEF ListState, Others
  <1>7. \A kind \in Kinds : list'[l][kind] = list[l][kind]
    BY <1>6 DEF Kinds
  <1>8. QED
    BY <1>6, <1>7 DEF active, pool, version

LEMMA CloseList ==
  ASSUME TypeInv, NEW l \in List, Close(l)
  PROVE  /\ list' \in [List -> ListState] /\ Others(l)
         /\ list'[l].state = "closed" /\ list'[l].uploadBuffer = None
         /\ list'[l].version = list[l].version /\ list'[l].instance = list[l].instance
         /\ list'[l].active = list[l].active /\ list'[l].pool = list[l].pool
         /\ \A kind \in Kinds : list'[l][kind] = list[l][kind]
  <1>1. list \in [List -> ListState] /\ list[l] \in ListState
    BY DEF TypeInv
  <1>2. list' = [list EXCEPT ![l].state = "closed", ![l].uploadBuffer = None]
    BY DEF Close
  <1>3. QED
    BY <1>1, <1>2 DEF ListState, Others, Kinds

LEMMA DroppedList ==
  ASSUME TypeInv, NEW l \in List, DropList(l)
  PROVE  /\ list' \in [List -> ListState] /\ Others(l)
         /\ list'[l].state = "gone" /\ list'[l].uploadBuffer = None
         /\ list'[l].instance = EmptyInstance
         /\ list'[l].active = 0 /\ list'[l].pool = <<>>
         /\ \A kind \in Kinds : list'[l][kind] = [current |-> None, pool |-> <<>>]
  <1>1. list \in [List -> ListState]
    BY DEF TypeInv
  <1>2. list' = [list EXCEPT ![l] = [NewList EXCEPT !.state = "gone"]]
    BY DEF DropList
  <1>3. EmptyInstance \in Recorder
    BY DEF EmptyInstance, Recorder
  <1>4. [current |-> None, pool |-> <<>>] \in Manager
    BY DEF Manager
  <1> DEFINE gone == [NewList EXCEPT !.state = "gone"]
             m == [current |-> None, pool |-> <<>>]
  <1>5. /\ gone.state = "gone" /\ gone.uploadBuffer = None /\ gone.instance = EmptyInstance
        /\ gone.active = 0 /\ gone.pool = <<>> /\ gone.upload = m /\ gone.scratch = m
        /\ gone \in ListState
    <2> HIDE DEF m
    <2>1. gone = [state |-> "gone", version |-> 0, instance |-> EmptyInstance, active |-> 0,
                  pool |-> <<>>, uploadBuffer |-> None, upload |-> m, scratch |-> m]
      BY DEF NewList, m
    <2>2. <<>> \in Seq(Allocator) /\ m \in Manager
      BY <1>4 DEF m
    <2> HIDE DEF gone
    <2>3. QED
      BY <1>3, <2>1, <2>2 DEF ListState
  <1> HIDE DEF gone
  <1>6. list'[l] = gone /\ list' \in [List -> ListState] /\ Others(l)
    BY <1>1, <1>2, <1>5 DEF Others, gone
  <1>7. \A kind \in Kinds : list'[l][kind] = m
    BY <1>5, <1>6 DEF Kinds
  <1>8. QED
    BY <1>5, <1>6, <1>7

LEMMA RecordsList ==
  ASSUME TypeInv, NEW l \in List, NEW s \in SUBSET Object, Records(l, s)
  PROVE  /\ list' \in [List -> ListState] /\ Others(l)
         /\ list'[l].state = list[l].state /\ list'[l].uploadBuffer = list[l].uploadBuffer
         /\ list'[l].version = list[l].version
         /\ list'[l].instance.objects = list[l].instance.objects \cup s
         /\ list'[l].instance.chunks = list[l].instance.chunks
         /\ list'[l].instance.regions = list[l].instance.regions
         /\ list'[l].active = list[l].active /\ list'[l].pool = list[l].pool
         /\ \A kind \in Kinds : list'[l][kind] = list[l][kind]
  <1>1. list \in [List -> ListState] /\ list[l] \in ListState /\ list[l].instance \in Recorder
    BY DEF TypeInv, ListState
  <1> DEFINE o == list[l].instance.objects \cup s
             i == [list[l].instance EXCEPT !.objects = o]
  <1>2. o \in SUBSET Object
    BY <1>1 DEF Recorder
  <1>3. list' = [list EXCEPT ![l].instance = i]
    BY <1>1 DEF Records
  <1> HIDE DEF o
  <1>4. /\ i \in Recorder /\ i.objects = o /\ i.chunks = list[l].instance.chunks
        /\ i.regions = list[l].instance.regions
    BY <1>1, <1>2 DEF Recorder
  <1> HIDE DEF i
  <1>5. /\ list' \in [List -> ListState] /\ Others(l) /\ list'[l].instance = i
        /\ list'[l].state = list[l].state /\ list'[l].uploadBuffer = list[l].uploadBuffer
        /\ list'[l].version = list[l].version
        /\ list'[l].active = list[l].active /\ list'[l].pool = list[l].pool
        /\ \A kind \in Kinds : list'[l][kind] = list[l][kind]
    BY <1>1, <1>3, <1>4 DEF ListState, Others, Kinds
  <1>6. QED
    BY <1>4, <1>5 DEF o

SoundInv ==
    \A l \in List :
      /\ \A kind \in Kinds : Sound(list[l][kind])
      /\ list[l].state \in {"open", "closed"} => list[l].version > 0

\* A piece of memory of `kind' is taken, at `at' if there is one.
TakesPiece(l, kind, at, size, written) ==
    /\ Recording(l) /\ kind \in Kinds /\ size \in Nat /\ (at \in Nat \/ at = -1)
    /\ list' \in [List -> ListState] /\ Others(l)
    /\ Suballocates(list[l][kind], list'[l][kind], at, size, queue[QueueOf[l]].completed)
    /\ \A k \in Kinds \ {kind} : list'[l][k] = list[l][k]
    /\ at = -1 => list'[l].instance.regions = list[l].instance.regions
    /\ at \in Nat => list'[l].instance.regions = list[l].instance.regions
            \cup {Region(l, kind, list'[l][kind].current, at, size, written)}
    /\ list'[l].state = list[l].state /\ list'[l].version = list[l].version
    /\ list'[l].active = list[l].active /\ list'[l].pool = list[l].pool
    /\ UNCHANGED <<work, fence, queue, held, mark, host, scope>>

LEMMA RegionPiece ==
  ASSUME TypeInv, NEW l \in List, NEW kind \in Kinds, NEW c \in Chunk,
         NEW at \in Nat, NEW size \in Nat, NEW written \in BOOLEAN
  PROVE  LET r == Region(l, kind, c, at, size, written)
         IN  /\ r \in Piece /\ r.list = l /\ r.kind = kind /\ r.chunk = c.id
             /\ r.lo = at /\ r.hi = at + size /\ r.written = written
  <1>1. Cardinality(list[l].instance.regions) \in Nat
    BY FS_CardinalityType DEF TypeInv
  <1>2. list[l].version \in Nat /\ c.id \in Nat
    BY DEF TypeInv, ListState, Chunk
  <1>3. QED
    BY <1>1, <1>2 DEF Region, Piece

LEMMA SuballocatedPiece ==
  ASSUME TypeInv, SoundInv, NEW l \in List, Recording(l), NEW kind \in Kinds,
         NEW size \in Nat, NEW a \in Nat \ {0},
         NEW got, got = Suballocated(l, kind, size, a)
  PROVE  /\ Suballocates(list[l][kind], got.manager, got.at, size, queue[QueueOf[l]].completed)
         /\ got.at \in Nat \/ got.at = -1
         /\ kind = "upload" => got.at \in Nat
         /\ got.at \in Nat <=> ~(got.at < 0)
  <1> DEFINE m == list[l][kind]
             done == queue[QueueOf[l]].completed
             limit == IF kind = "scratch" THEN ScratchLimit ELSE 0
             v == list[l].version
  <1>1. list[l] \in ListState
    BY DEF TypeInv
  <1>2. m \in Manager /\ Sound(m)
    BY <1>1 DEF ListState, Kinds, SoundInv
  <1>3. v \in Nat \ {0}
    BY <1>1 DEF ListState, SoundInv, Recording
  <1>4. done \in Nat
    BY SubmissionAssumption DEF TypeInv, QueueState
  <1>5. limit \in Nat /\ (kind = "upload" => limit = 0)
    BY SubmissionAssumption
  <1>6. got = SuballocateBuffer(m, size, a, <<v, FALSE>>, done, limit)
    BY DEF Suballocated, MakeVersion
  <1> HIDE DEF m, done, limit, v
  <1>7. /\ Suballocates(m, got.manager, got.at, size, done)
        /\ got.at \in Nat \/ got.at = -1
        /\ limit = 0 => got.at \in Nat
    BY <1>2, <1>3, <1>4, <1>5, <1>6, Suballocation
  <1>8. got.at \in Nat <=> ~(got.at < 0)
    BY <1>7
  <1>9. QED
    BY <1>5, <1>7, <1>8 DEF m, done

LEMMA WriteList ==
  ASSUME TypeInv, SoundInv, NEW l \in List, NEW x \in Resource, NEW size \in Nat,
         NEW a \in Nat \ {0}, Write(l, x, size, a)
  PROVE  \E at \in Nat :
           /\ TakesPiece(l, "upload", at, size, TRUE)
           /\ list'[l].upload.current.id \in Nat
           /\ list'[l].uploadBuffer = list'[l].upload.current.id
           /\ list'[l].instance.objects = list[l].instance.objects \cup {x}
           /\ list'[l].instance.chunks =
                IF list'[l].uploadBuffer = list[l].uploadBuffer THEN list[l].instance.chunks
                ELSE list[l].instance.chunks \cup {list'[l].uploadBuffer}
  <1> DEFINE got == Suballocated(l, "upload", size, a)
             chunk == got.manager.current
             i == list[l].instance
             chunks == IF chunk.id = list[l].uploadBuffer THEN i.chunks
                       ELSE i.chunks \cup {chunk.id}
             r == Region(l, "upload", chunk, got.at, size, TRUE)
             j == [objects |-> i.objects \cup {x}, chunks |-> chunks,
                   regions |-> i.regions \cup {r}]
  <1>1. list \in [List -> ListState] /\ list[l] \in ListState /\ i \in Recorder
    BY DEF TypeInv, ListState
  <1>2. Recording(l)
    BY DEF Write, RoomFor
  <1>3. /\ Suballocates(list[l].upload, got.manager, got.at, size, queue[QueueOf[l]].completed)
        /\ got.at \in Nat
    <2>1. "upload" \in Kinds
      BY DEF Kinds
    <2> DEFINE g == got
    <2> HIDE DEF g
    <2>2. g = Suballocated(l, "upload", size, a)
      BY DEF g
    <2>3. /\ Suballocates(list[l]["upload"], g.manager, g.at, size, queue[QueueOf[l]].completed)
          /\ g.at \in Nat
      BY <1>2, <2>1, <2>2, SuballocatedPiece
    <2>4. list[l]["upload"] = list[l].upload
      BY <1>1 DEF ListState
    <2>5. QED
      BY <2>3, <2>4 DEF g
  <1>4. /\ list'[l].upload = got.manager /\ list'[l].uploadBuffer = chunk.id
        /\ list'[l].scratch = list[l].scratch /\ list'[l].state = list[l].state
        /\ list'[l].version = list[l].version /\ list'[l].active = list[l].active
        /\ list'[l].pool = list[l].pool /\ list'[l].instance = j
        /\ list'[l] = [state |-> list'[l].state, version |-> list'[l].version,
                       instance |-> list'[l].instance, active |-> list'[l].active,
                       pool |-> list'[l].pool, uploadBuffer |-> list'[l].uploadBuffer,
                       upload |-> list'[l].upload, scratch |-> list'[l].scratch]
        /\ list' = [k \in List |-> list'[k]] /\ Others(l)
    <2>1. list' = [list EXCEPT
              ![l].upload = got.manager,
              ![l].instance.chunks = IF chunk.id = list[l].uploadBuffer THEN @
                                     ELSE @ \cup {chunk.id},
              ![l].uploadBuffer = chunk.id,
              ![l].instance.regions = @ \cup {r},
              ![l].instance.objects = @ \cup {x}]
      BY DEF Write
    <2> HIDE DEF got, r, chunk
    <2> DEFINE regions == i.regions \cup {r}
               objects == i.objects \cup {x}
    <2>2. list' = [list EXCEPT
              ![l].upload = got.manager,
              ![l].instance.chunks = chunks,
              ![l].uploadBuffer = chunk.id,
              ![l].instance.regions = regions,
              ![l].instance.objects = objects]
      BY <1>1, <2>1 DEF ListState, Recorder
    <2>3. j = [objects |-> objects, chunks |-> chunks, regions |-> regions]
      OBVIOUS
    <2> HIDE DEF chunks, regions, objects, j
    <2>4. /\ list'[l].instance.objects = objects /\ list'[l].instance.chunks = chunks
          /\ list'[l].instance.regions = regions
          /\ list'[l].instance = [objects |-> list'[l].instance.objects,
                                  chunks |-> list'[l].instance.chunks,
                                  regions |-> list'[l].instance.regions]
      BY <1>1, <2>2 DEF ListState, Recorder
    <2>5. list'[l].instance = j
      BY <2>3, <2>4
    <2>6. /\ list'[l].upload = got.manager /\ list'[l].uploadBuffer = chunk.id
          /\ list'[l].scratch = list[l].scratch /\ list'[l].state = list[l].state
          /\ list'[l].version = list[l].version /\ list'[l].active = list[l].active
          /\ list'[l].pool = list[l].pool /\ Others(l) /\ DOMAIN list' = List
          /\ list'[l] = [state |-> list'[l].state, version |-> list'[l].version,
                         instance |-> list'[l].instance, active |-> list'[l].active,
                         pool |-> list'[l].pool, uploadBuffer |-> list'[l].uploadBuffer,
                         upload |-> list'[l].upload, scratch |-> list'[l].scratch]
          /\ list' = [k \in List |-> list'[k]]
      BY <1>1, <2>2 DEF ListState, Others
    <2>7. QED
      BY <2>5, <2>6
  <1> HIDE DEF got
  <1>5. got.manager \in Manager /\ chunk \in Chunk /\ chunk.id \in Nat
    BY <1>3 DEF Suballocates, Chunk
  <1>6. r \in Piece
    BY <1>3, <1>5, RegionPiece DEF Kinds
  <1> HIDE DEF r, chunk
  <1>7. chunks \in SUBSET Nat /\ x \in Object
    BY <1>1, <1>5 DEF Recorder, Object
  <1> HIDE DEF chunks
  <1>8. /\ j \in Recorder /\ j.chunks = chunks /\ j.regions = i.regions \cup {r}
        /\ j.objects = i.objects \cup {x}
    BY <1>1, <1>6, <1>7 DEF Recorder
  <1> HIDE DEF j
  <1>9. /\ list' \in [List -> ListState] /\ Others(l)
        /\ list'[l].upload = got.manager /\ list'[l].scratch = list[l].scratch
        /\ list'[l].uploadBuffer = chunk.id /\ list'[l].instance = j
        /\ list'[l].state = list[l].state /\ list'[l].version = list[l].version
        /\ list'[l].active = list[l].active /\ list'[l].pool = list[l].pool
    <2>1. list'[l] \in ListState
      BY <1>1, <1>4, <1>5, <1>8 DEF ListState
    <2>2. list' \in [List -> ListState]
      BY <1>1, <1>4, <2>1 DEF Others
    <2>3. QED
      BY <1>4, <2>2
  <1>10. /\ list'[l]["upload"] = got.manager /\ list[l]["upload"] = list[l].upload
         /\ \A k \in Kinds \ {"upload"} : list'[l][k] = list[l][k]
    BY <1>1, <1>9 DEF ListState, Kinds
  <1>11. TakesPiece(l, "upload", got.at, size, TRUE)
    <2>1. got.at # -1
      BY <1>3
    <2>2. "upload" \in Kinds
      BY DEF Kinds
    <2>3. UNCHANGED <<work, fence, queue, held, mark, host, scope>>
      BY DEF Write
    <2>4. list'[l].instance.regions = list[l].instance.regions
            \cup {Region(l, "upload", list'[l]["upload"].current, got.at, size, TRUE)}
      BY <1>8, <1>9, <1>10 DEF r, chunk
    <2>5. QED
      BY <1>2, <1>3, <1>9, <1>10, <2>1, <2>2, <2>3, <2>4 DEF TakesPiece
  <1>12. QED
    BY <1>3, <1>5, <1>8, <1>9, <1>11 DEF chunks, chunk

LEMMA AllocateList ==
  ASSUME TypeInv, SoundInv, NEW l \in List, NEW kind \in Kinds, NEW size \in Nat,
         Allocate(l, kind, size)
  PROVE  \E at \in Nat \cup {-1} :
           /\ TakesPiece(l, kind, at, size, FALSE)
           /\ list'[l].uploadBuffer = list[l].uploadBuffer
           /\ list'[l].instance.objects = list[l].instance.objects
           /\ list'[l].instance.chunks = list[l].instance.chunks
  <1> DEFINE got == Suballocated(l, kind, size, Alignment)
             chunk == got.manager.current
             i == list[l].instance
             r == Region(l, kind, chunk, got.at, size, FALSE)
             regions == IF got.at < 0 THEN i.regions ELSE i.regions \cup {r}
             j == [objects |-> i.objects, chunks |-> i.chunks, regions |-> regions]
  <1>1. list \in [List -> ListState] /\ list[l] \in ListState /\ i \in Recorder
    BY DEF TypeInv, ListState
  <1>2. Recording(l)
    BY DEF Allocate, RoomFor
  <1>3. /\ Suballocates(list[l][kind], got.manager, got.at, size, queue[QueueOf[l]].completed)
        /\ got.at \in Nat \/ got.at = -1
        /\ got.at \in Nat <=> ~(got.at < 0)
    <2> DEFINE g == got
    <2> HIDE DEF g
    <2>1. g = Suballocated(l, kind, size, Alignment)
      BY DEF g
    <2>2. Alignment \in Nat \ {0}
      BY SubmissionAssumption
    <2>3. /\ Suballocates(list[l][kind], g.manager, g.at, size, queue[QueueOf[l]].completed)
          /\ g.at \in Nat \/ g.at = -1
          /\ g.at \in Nat <=> ~(g.at < 0)
      BY <1>2, <2>1, <2>2, SuballocatedPiece
    <2>4. QED
      BY <2>3 DEF g
  <1>4. /\ list'[l][kind] = got.manager
        /\ \A k \in Kinds \ {kind} : list'[l][k] = list[l][k]
        /\ list'[l].state = list[l].state
        /\ list'[l].version = list[l].version /\ list'[l].active = list[l].active
        /\ list'[l].uploadBuffer = list[l].uploadBuffer
        /\ list'[l].pool = list[l].pool /\ list'[l].instance = j
        /\ list'[l] = [state |-> list'[l].state, version |-> list'[l].version,
                       instance |-> list'[l].instance, active |-> list'[l].active,
                       pool |-> list'[l].pool, uploadBuffer |-> list'[l].uploadBuffer,
                       upload |-> list'[l].upload, scratch |-> list'[l].scratch]
        /\ list' = [k \in List |-> list'[k]] /\ Others(l)
    <2>1. list' = [list EXCEPT
              ![l][kind] = got.manager,
              ![l].instance.regions = IF got.at < 0 THEN @ ELSE @ \cup {r}]
      BY DEF Allocate
    <2> HIDE DEF got, r
    <2>2. list' = [list EXCEPT ![l][kind] = got.manager, ![l].instance.regions = regions]
      BY <1>1, <2>1 DEF ListState, Recorder, Kinds
    <2> HIDE DEF regions
    <2>3. /\ list'[l].instance.objects = i.objects /\ list'[l].instance.chunks = i.chunks
          /\ list'[l].instance.regions = regions
          /\ list'[l].instance = [objects |-> list'[l].instance.objects,
                                  chunks |-> list'[l].instance.chunks,
                                  regions |-> list'[l].instance.regions]
      BY <1>1, <2>2 DEF ListState, Recorder, Kinds
    <2>4. list'[l].instance = j
      BY <2>3
    <2>5. /\ list'[l][kind] = got.manager
          /\ \A k \in Kinds \ {kind} : list'[l][k] = list[l][k]
          /\ list'[l].state = list[l].state
          /\ list'[l].version = list[l].version /\ list'[l].active = list[l].active
          /\ list'[l].uploadBuffer = list[l].uploadBuffer
          /\ list'[l].pool = list[l].pool
      BY <1>1, <2>2 DEF ListState, Kinds
    <2>6. /\ list'[l] = [state |-> list'[l].state, version |-> list'[l].version,
                         instance |-> list'[l].instance, active |-> list'[l].active,
                         pool |-> list'[l].pool, uploadBuffer |-> list'[l].uploadBuffer,
                         upload |-> list'[l].upload, scratch |-> list'[l].scratch]
          /\ list' = [k \in List |-> list'[k]] /\ Others(l)
      BY <1>1, <2>2 DEF ListState, Others, Kinds
    <2>7. QED
      BY <2>4, <2>5, <2>6
  <1> HIDE DEF got
  <1>5. got.manager \in Manager /\ (got.at \in Nat => chunk \in Chunk)
    BY <1>3 DEF Suballocates
  <1>6. got.at \in Nat => r \in Piece
    BY <1>5, RegionPiece
  <1> HIDE DEF r, chunk
  <1>7. regions \in SUBSET Piece
    <2>1. i.regions \in SUBSET Piece
      BY <1>1 DEF Recorder
    <2>2. QED
      BY <1>3, <1>6, <2>1
  <1> HIDE DEF regions
  <1>8. j \in Recorder /\ j.chunks = i.chunks /\ j.regions = regions /\ j.objects = i.objects
    BY <1>1, <1>7 DEF Recorder
  <1> HIDE DEF j
  <1>9. list' \in [List -> ListState]
    <2>1. list'[l].upload \in Manager /\ list'[l].scratch \in Manager
      <3>1. list[l].upload \in Manager /\ list[l].scratch \in Manager
        BY <1>1 DEF ListState
      <3>2. \A k \in Kinds : list'[l][k] \in Manager
        BY <1>4, <1>5, <3>1 DEF Kinds
      <3>3. list'[l].upload = list'[l]["upload"] /\ list'[l].scratch = list'[l]["scratch"]
        BY <1>4
      <3>4. QED
        BY <3>2, <3>3 DEF Kinds
    <2>2. list'[l] \in ListState
      BY <1>1, <1>4, <1>8, <2>1 DEF ListState
    <2>3. QED
      BY <1>1, <1>4, <2>2 DEF Others
  <1>10. TakesPiece(l, kind, got.at, size, FALSE)
    <2>1. UNCHANGED <<work, fence, queue, held, mark, host, scope>>
      BY DEF Allocate
    <2>2. /\ got.at = -1 => list'[l].instance.regions = i.regions
          /\ got.at \in Nat => list'[l].instance.regions = i.regions
            \cup {Region(l, kind, list'[l][kind].current, got.at, size, FALSE)}
      <3>1. list'[l].instance.regions = regions /\ list'[l][kind].current = chunk
        BY <1>4, <1>8 DEF chunk
      <3>2. got.at = -1 => regions = i.regions
        BY <1>3 DEF regions
      <3>3. got.at \in Nat => regions = i.regions \cup {r}
        BY <1>3 DEF regions
      <3>4. QED
        BY <3>1, <3>2, <3>3 DEF r
    <2>3. QED
      BY <1>2, <1>3, <1>4, <1>9, <2>1, <2>2 DEF TakesPiece
  <1>11. QED
    BY <1>3, <1>4, <1>8, <1>10

\* The sequence made of a finite set runs through it.
LEMMA SetSequence ==
  ASSUME NEW S, IsFiniteSet(S)
  PROVE  /\ Cardinality(S) \in Nat
         /\ SetToSeq(S) \in [1 .. Cardinality(S) -> S]
         /\ \A x \in S : \E i \in 1 .. Cardinality(S) : SetToSeq(S)[i] = x
  <1> DEFINE n == Cardinality(S)
             f == SetToSeq(S)
  <1>1. n \in Nat /\ ExistsBijection(1 .. n, S)
    BY FS_CardinalityType
  <1>2. PICK g : g \in Bijection(1 .. n, S)
    BY <1>1 DEF ExistsBijection
  <1>3. g \in [1 .. n -> S] /\ IsInjective(g)
    BY <1>2 DEF Bijection, Injection, IsInjective
  <1>4. f \in [1 .. n -> S] /\ IsInjective(f)
    BY <1>3 DEF SetToSeq
  <1>5. f \in Injection(1 .. n, S)
    BY <1>4 DEF Injection, IsInjective
  <1>6. Cardinality(1 .. n) = n
    <2> HIDE DEF n
    <2>1. QED
      BY <1>1, FS_Interval
  <1>7. f \in Surjection(1 .. n, S)
    BY <1>5, <1>6, FS_Injection
  <1>8. QED
    BY <1>1, <1>4, <1>7 DEF Surjection

LEMMA FunctionIsSequence ==
  ASSUME NEW S, NEW n \in Nat, NEW s \in [1 .. n -> S]
  PROVE  s \in Seq(S) /\ Len(s) = n
  OBVIOUS

\* The instances of a submission, newest first in front of those in flight.
LEMMA InstancesInFlight ==
  ASSUME NEW S, IsFiniteSet(S), NEW T, NEW f, \A x \in S : f[x] \in T,
         NEW flying \in Seq(T), NEW instances,
         instances = [i \in 1 .. Cardinality(S) |-> f[SetToSeq(S)[i]]]
  PROVE  /\ Reverse(instances) \o flying \in Seq(T)
         /\ Range(Reverse(instances) \o flying) = {f[x] : x \in S} \cup Range(flying)
  <1> DEFINE n == Cardinality(S)
             e == SetToSeq(S)
             back == Reverse(instances)
             all == back \o flying
  <1>1. /\ n \in Nat /\ \A i \in 1 .. n : e[i] \in S
        /\ \A x \in S : \E i \in 1 .. n : e[i] = x
    BY SetSequence
  <1> HIDE DEF n, e
  <1>2. /\ instances = [i \in 1 .. n |-> f[e[i]]]
        /\ instances \in Seq(T) /\ Len(instances) = n
    <2>1. instances = [i \in 1 .. n |-> f[e[i]]]
      BY DEF n, e
    <2>2. \A i \in 1 .. n : f[e[i]] \in T
      BY <1>1
    <2>3. instances \in [1 .. n -> T]
      BY <2>1, <2>2
    <2>4. instances \in Seq(T) /\ Len(instances) = n
      BY <1>1, <2>3, FunctionIsSequence
    <2>5. QED
      BY <2>1, <2>4
  <1>3. /\ back \in Seq(T) /\ Len(back) = n
        /\ \A i \in 1 .. n : back[i] = f[e[n - i + 1]]
    <2>1. back = [i \in 1 .. n |-> instances[n - i + 1]]
      BY <1>2 DEF Reverse
    <2>2. \A i \in 1 .. n : n - i + 1 \in 1 .. n
      BY <1>1
    <2> HIDE DEF back
    <2>3. ASSUME NEW i \in 1 .. n
          PROVE  back[i] = f[e[n - i + 1]] /\ back[i] \in T
      <3>1. back[i] = instances[n - i + 1]
        BY <2>1
      <3>2. instances[n - i + 1] = f[e[n - i + 1]] /\ e[n - i + 1] \in S
        BY <1>1, <1>2, <2>2
      <3>3. QED
        BY <3>1, <3>2
    <2>4. back \in [1 .. n -> T]
      BY <2>1, <2>3
    <2>5. QED
      BY <1>1, <2>3, <2>4
  <1> HIDE DEF back
  <1>4. /\ all \in Seq(T) /\ Len(all) = n + Len(flying)
        /\ \A i \in 1 .. n : all[i] = back[i]
        /\ \A i \in 1 .. Len(flying) : all[n + i] = flying[i]
    <2>1. all \in Seq(T) /\ Len(all) = n + Len(flying)
      <3>1. back \in Seq(T) /\ Len(back) = n
        BY <1>3
      <3>2. QED
        BY <3>1
    <2>2. ASSUME NEW i \in 1 .. n
          PROVE  all[i] = back[i]
      BY <1>1, <1>3
    <2>3. ASSUME NEW i \in 1 .. Len(flying)
          PROVE  all[n + i] = flying[i]
      BY <1>1, <1>3
    <2>4. QED
      BY <2>1, <2>2, <2>3
  <1> HIDE DEF all
  <1>5. /\ DOMAIN all = 1 .. n + Len(flying)
        /\ DOMAIN flying = 1 .. Len(flying) /\ Len(flying) \in Nat
    BY <1>4
  <1>6. ASSUME NEW x \in S
        PROVE  f[x] \in Range(all)
    <2>1. PICK i \in 1 .. n : e[i] = x
      BY <1>1
    <2>2. n - i + 1 \in 1 .. n /\ n - (n - i + 1) + 1 = i
      BY <1>1
    <2>3. all[n - i + 1] = f[x] /\ n - i + 1 \in DOMAIN all
      BY <1>1, <1>3, <1>4, <1>5, <2>1, <2>2
    <2>4. QED
      BY <2>3 DEF Range
  <1>7. ASSUME NEW y \in Range(flying)
        PROVE  y \in Range(all)
    <2>1. PICK i \in 1 .. Len(flying) : flying[i] = y
      BY <1>5 DEF Range
    <2>2. all[n + i] = y /\ n + i \in DOMAIN all
      BY <1>1, <1>4, <1>5, <2>1
    <2>3. QED
      BY <2>2 DEF Range
  <1>8. ASSUME NEW y \in Range(all)
        PROVE  y \in {f[x] : x \in S} \cup Range(flying)
    <2>1. PICK i \in 1 .. n + Len(flying) : all[i] = y
      BY <1>5 DEF Range
    <2>2. CASE i <= n
      <3>1. i \in 1 .. n /\ n - i + 1 \in 1 .. n
        BY <1>1, <2>2
      <3>2. QED
        BY <1>1, <1>3, <1>4, <2>1, <3>1
    <2>3. CASE i > n
      <3>1. i - n \in 1 .. Len(flying) /\ n + (i - n) = i
        BY <1>1, <1>5, <2>3
      <3>2. flying[i - n] = y
        BY <1>4, <2>1, <3>1
      <3>3. QED
        BY <1>5, <3>1, <3>2 DEF Range
    <2>4. QED
      BY <1>1, <1>5, <2>2, <2>3
  <1>9. QED
    BY <1>4, <1>6, <1>7, <1>8 DEF all, back

-----------------------------------------------------------------------------
\* What a submission leaves.

\* List l was submitted to queue q as submission n.
IsExecuted(l, q, n) ==
    /\ list[l].state = "closed" /\ QueueOf[l] = q
    /\ list'[l].state = "idle" /\ list'[l].version = 0
    /\ list'[l].instance = EmptyInstance /\ list'[l].active = 0
    /\ list'[l].pool = Append(list[l].pool, [allocator |-> list[l].active, submitted |-> n])
    /\ list'[l].uploadBuffer = list[l].uploadBuffer
    /\ \A kind \in Kinds : Submits(list[l][kind], list'[l][kind],
                                   <<list[l].version, FALSE>>, <<n, TRUE>>)

\* The work a queue is given for submission n of some lists, and the instance
\* that is kept for one of them.
IsWork(item, lists, n) ==
    /\ item.kind = "work" /\ item.value = n
    /\ item.objects = UNION {list[l].instance.objects : l \in lists}
    /\ item.allocators = {<<l, list[l].active>> : l \in lists}
    /\ item.regions = UNION {list[l].instance.regions : l \in lists}
    /\ IsFiniteSet(item.allocators)
IsInstance(f, l, n) ==
    /\ f.list = l /\ f.submitted = n /\ f.objects = list[l].instance.objects
    /\ f.chunks = list[l].instance.chunks

LEMMA ExecutedList ==
  ASSUME TypeInv, SoundInv, NEW lists \in SUBSET List, NEW q \in Queue,
         ExecuteCommandLists(lists, q), NEW n, n = queue[q].submitted + 1
  PROVE  /\ n \in Nat \ {0} /\ lists # {}
         /\ list' \in [List -> ListState]
         /\ \A l \in List \ lists : list'[l] = list[l]
         /\ \A l \in lists : IsExecuted(l, q, n)
  <1>1. list \in [List -> ListState] /\ n \in Nat \ {0}
    BY DEF TypeInv, QueueState
  <1>2. list' = [l \in List |-> IF l \in lists THEN Executed(l, n) ELSE list[l]]
    BY DEF ExecuteCommandLists
  <1>3. lists # {} /\ \A l \in lists : list[l].state = "closed" /\ QueueOf[l] = q
    BY DEF ExecuteCommandLists
  <1>4. ASSUME NEW l \in lists
        PROVE  /\ Executed(l, n) \in ListState
               /\ Executed(l, n).state = "idle" /\ Executed(l, n).version = 0
               /\ Executed(l, n).instance = EmptyInstance /\ Executed(l, n).active = 0
               /\ Executed(l, n).pool = Append(list[l].pool,
                                           [allocator |-> list[l].active, submitted |-> n])
               /\ Executed(l, n).uploadBuffer = list[l].uploadBuffer
               /\ \A kind \in Kinds : Submits(list[l][kind], Executed(l, n)[kind],
                                              <<list[l].version, FALSE>>, <<n, TRUE>>)
    <2> DEFINE r == <<list[l].version, FALSE>>
               s == <<n, TRUE>>
               up == SubmitChunks(list[l].upload, r, s)
               down == SubmitChunks(list[l].scratch, r, s)
               pool == Append(list[l].pool, [allocator |-> list[l].active, submitted |-> n])
               x == Executed(l, n)
    <2>1. list[l] \in ListState
      BY <1>1
    <2>2. s \in Nat \X BOOLEAN
      BY <1>1
    <2>3. /\ list[l].upload \in Manager /\ list[l].scratch \in Manager
          /\ list[l].upload = list[l]["upload"] /\ list[l].scratch = list[l]["scratch"]
      BY <2>1 DEF ListState
    <2>4. Sound(list[l].upload) /\ Sound(list[l].scratch)
      BY <2>3 DEF SoundInv, Kinds
    <2>5. Submits(list[l].upload, up, r, s) /\ Submits(list[l].scratch, down, r, s)
      BY <2>2, <2>3, <2>4, SubmittedChunks
    <2>6. pool \in Seq(Allocator)
      BY <1>1, <2>1 DEF ListState, Allocator
    <2>7. x = [list[l] EXCEPT !.state = "idle", !.version = 0, !.instance = EmptyInstance,
                              !.active = 0, !.pool = pool, !.upload = up, !.scratch = down]
      BY <2>1 DEF Executed, MakeVersion, ListState
    <2>8. EmptyInstance \in Recorder
      BY DEF EmptyInstance, Recorder
    <2> HIDE DEF pool, up, down, r, s, x
    <2>9. /\ x.state = "idle" /\ x.version = 0 /\ x.instance = EmptyInstance /\ x.active = 0
          /\ x.pool = pool /\ x.uploadBuffer = list[l].uploadBuffer
          /\ x.upload = up /\ x.scratch = down
          /\ x["upload"] = up /\ x["scratch"] = down
      BY <2>1, <2>7 DEF ListState
    <2>10. up \in Manager /\ down \in Manager
      BY <2>5 DEF Submits
    <2>11. x \in ListState
      BY <2>1, <2>6, <2>7, <2>8, <2>10 DEF ListState
    <2>12. \A kind \in Kinds : Submits(list[l][kind], x[kind], r, s)
      BY <2>3, <2>5, <2>9 DEF Kinds
    <2>13. QED
      BY <2>9, <2>11, <2>12 DEF pool, r, s, x
  <1>5. \A l \in lists : list'[l] = Executed(l, n)
    BY <1>2
  <1>6. \A l \in List \ lists : list'[l] = list[l]
    BY <1>2
  <1>7. list' \in [List -> ListState]
    BY <1>1, <1>2, <1>4
  <1>8. \A l \in lists : IsExecuted(l, q, n)
    BY <1>3, <1>4, <1>5 DEF IsExecuted
  <1>9. QED
    BY <1>1, <1>3, <1>6, <1>7, <1>8

LEMMA ExecutedQueue ==
  ASSUME TypeInv, NEW lists \in SUBSET List, NEW q \in Queue, ExecuteCommandLists(lists, q),
         NEW n, n = queue[q].submitted + 1
  PROVE  /\ queue' \in [Queue -> QueueState]
         /\ \A p \in Queue \ {q} : queue'[p] = queue[p]
         /\ queue'[q].submitted = n /\ queue'[q].completed = queue[q].completed
         /\ queue'[q].recording = queue[q].recording
         /\ \A l \in lists : \E f \in Range(queue'[q].inFlight) : IsInstance(f, l, n)
         /\ \A f \in Range(queue[q].inFlight) : f \in Range(queue'[q].inFlight)
         /\ \A f \in Range(queue'[q].inFlight) :
              f \in Range(queue[q].inFlight) \/ f.submitted = n
  <1> DEFINE e == SetToSeq(lists)
             one(l) == [list |-> l, submitted |-> n, objects |-> list[l].instance.objects,
                        chunks |-> list[l].instance.chunks]
             f == [l \in lists |-> one(l)]
             instances == [i \in 1 .. Cardinality(lists) |-> f[e[i]]]
             flying == queue[q].inFlight
             all == Reverse(instances) \o flying
  <1>1. queue \in [Queue -> QueueState] /\ n \in Nat /\ flying \in Seq(Instance)
    BY DEF TypeInv, QueueState
  <1>2. \A l \in lists : f[l] = one(l) /\ one(l) \in Instance
    BY <1>1 DEF TypeInv, ListState, Recorder, Instance
  <1>3. IsFiniteSet(lists)
    BY SubmissionAssumption, FS_Subset
  <1>4. /\ all \in Seq(Instance)
        /\ Range(all) = {f[l] : l \in lists} \cup Range(flying)
    <2>1. \A l \in lists : f[l] \in Instance
      BY <1>2
    <2> HIDE DEF f
    <2>2. instances = [i \in 1 .. Cardinality(lists) |-> f[SetToSeq(lists)[i]]]
      OBVIOUS
    <2> HIDE DEF instances, flying, e
    <2>3. /\ Reverse(instances) \o flying \in Seq(Instance)
          /\ Range(Reverse(instances) \o flying) = {f[l] : l \in lists} \cup Range(flying)
      BY ONLY <1>1, <1>3, <2>1, <2>2, InstancesInFlight
    <2>4. QED
      BY <2>3
  <1>5. queue' = [queue EXCEPT ![q].submitted = n, ![q].inFlight = all]
    <2>1. [i \in 1 .. Cardinality(lists) |-> one(e[i])] = instances
      BY <1>3, SetSequence
    <2>2. queue' = [queue EXCEPT ![q].submitted = n,
                      ![q].inFlight =
                         Reverse([i \in 1 .. Cardinality(lists) |-> one(e[i])]) \o @]
      BY DEF ExecuteCommandLists
    <2> HIDE DEF instances, one
    <2>3. QED
      BY <1>1, <2>1, <2>2 DEF QueueState
  <1> HIDE DEF all
  <1>6. /\ queue' \in [Queue -> QueueState]
        /\ \A p \in Queue \ {q} : queue'[p] = queue[p]
        /\ queue'[q].submitted = n /\ queue'[q].completed = queue[q].completed
        /\ queue'[q].recording = queue[q].recording /\ queue'[q].inFlight = all
    BY <1>1, <1>4, <1>5 DEF QueueState
  <1>7. ASSUME NEW l \in lists
        PROVE  \E g \in Range(queue'[q].inFlight) : IsInstance(g, l, n)
    <2>1. f[l] \in Range(queue'[q].inFlight)
      BY <1>4, <1>6
    <2>2. f[l] = one(l)
      BY <1>2
    <2>3. IsInstance(f[l], l, n)
      BY <2>2 DEF IsInstance
    <2> HIDE DEF f
    <2>4. QED
      BY <2>1, <2>3
  <1>8. ASSUME NEW g \in Range(queue'[q].inFlight)
        PROVE  g \in Range(flying) \/ g.submitted = n
    BY <1>2, <1>4, <1>6
  <1>9. \A g \in Range(flying) : g \in Range(queue'[q].inFlight)
    BY <1>4, <1>6
  <1>10. QED
    BY <1>6, <1>7, <1>8, <1>9

LEMMA ExecutedWork ==
  ASSUME TypeInv, NEW lists \in SUBSET List, NEW q \in Queue, ExecuteCommandLists(lists, q),
         NEW n, n = queue[q].submitted + 1
  PROVE  \E item \in WorkItem :
           /\ work' = [work EXCEPT ![q] = Append(work[q], item)]
           /\ IsWork(item, lists, n)
  <1> DEFINE item == [kind |-> "work", value |-> n,
                      objects |-> UNION {list[l].instance.objects : l \in lists},
                      allocators |-> {<<l, list[l].active>> : l \in lists},
                      regions |-> UNION {list[l].instance.regions : l \in lists}]
  <1>1. n \in Nat
    BY DEF TypeInv, QueueState
  <1>2. \A l \in lists : /\ list[l].instance.objects \in SUBSET Object
                         /\ list[l].instance.regions \in SUBSET Piece
                         /\ list[l].active \in Nat
    BY DEF TypeInv, ListState, Recorder
  <1>3. item \in WorkItem
    <2>1. UNION {list[l].instance.objects : l \in lists} \in SUBSET Object
      BY <1>2
    <2>2. UNION {list[l].instance.regions : l \in lists} \in SUBSET Piece
      BY <1>2
    <2>3. {<<l, list[l].active>> : l \in lists} \in SUBSET (List \X Nat)
      BY <1>2
    <2>4. QED
      BY <1>1, <2>1, <2>2, <2>3 DEF WorkItem
  <1>4. IsFiniteSet(item.allocators)
    <2> DEFINE f == [l \in lists |-> <<l, list[l].active>>]
    <2>1. IsFiniteSet(lists)
      BY SubmissionAssumption, FS_Subset
    <2>2. IsFiniteSet({f[l] : l \in lists})
      BY <2>1, ImageFinite
    <2>3. {f[l] : l \in lists} = item.allocators
      OBVIOUS
    <2>4. QED
      BY <2>2, <2>3
  <1>5. work' = [work EXCEPT ![q] = Append(work[q], item)]
    BY DEF ExecuteCommandLists, TypeInv
  <1>6. IsWork(item, lists, n)
    BY <1>4 DEF IsWork
  <1> HIDE DEF item
  <1>7. QED
    BY <1>3, <1>5, <1>6

-----------------------------------------------------------------------------
\* The types are kept.

LEMMA AppendRange ==
  ASSUME NEW S, NEW s \in Seq(S), NEW x \in S
  PROVE  Append(s, x) \in Seq(S) /\ Range(Append(s, x)) = Range(s) \cup {x}
  <1>1. /\ Append(s, x) \in Seq(S) /\ Len(Append(s, x)) = Len(s) + 1
        /\ Append(s, x)[Len(s) + 1] = x /\ \A i \in 1 .. Len(s) : Append(s, x)[i] = s[i]
    OBVIOUS
  <1>2. DOMAIN Append(s, x) = 1 .. Len(s) + 1 /\ DOMAIN s = 1 .. Len(s) /\ Len(s) \in Nat
    BY <1>1
  <1>3. /\ \A i \in 1 .. Len(s) + 1 : i \in 1 .. Len(s) \/ i = Len(s) + 1
        /\ \A i \in 1 .. Len(s) : i \in 1 .. Len(s) + 1
        /\ Len(s) + 1 \in 1 .. Len(s) + 1
    BY <1>2
  <1>4. QED
    BY <1>1, <1>2, <1>3 DEF Range

LEMMA TailRange ==
  ASSUME NEW S, NEW s \in Seq(S), s # <<>>
  PROVE  /\ Tail(s) \in Seq(S) /\ Head(s) \in S
         /\ Range(s) = Range(Tail(s)) \cup {Head(s)}
         /\ Len(Tail(s)) = Len(s) - 1 /\ \A i \in 1 .. Len(s) - 1 : Tail(s)[i] = s[i + 1]
  <1>1. /\ Tail(s) \in Seq(S) /\ Len(Tail(s)) = Len(s) - 1 /\ Len(s) \in Nat /\ Len(s) # 0
        /\ Head(s) = s[1] /\ Head(s) \in S
        /\ \A i \in 1 .. Len(s) - 1 : Tail(s)[i] = s[i + 1]
    OBVIOUS
  <1>2. DOMAIN Tail(s) = 1 .. Len(s) - 1 /\ DOMAIN s = 1 .. Len(s)
    BY <1>1
  <1>3. ASSUME NEW x \in Range(s)
        PROVE  x \in Range(Tail(s)) \cup {Head(s)}
    <2>1. PICK i \in 1 .. Len(s) : s[i] = x
      BY <1>2 DEF Range
    <2>2. CASE i # 1
      <3>1. i - 1 \in 1 .. Len(s) - 1 /\ (i - 1) + 1 = i
        BY <1>1, <2>2
      <3>2. Tail(s)[i - 1] = x
        BY <1>1, <2>1, <3>1
      <3>3. QED
        BY <1>2, <3>1, <3>2 DEF Range
    <2>3. QED
      BY <1>1, <2>1, <2>2
  <1>4. ASSUME NEW x \in Range(Tail(s)) \cup {Head(s)}
        PROVE  x \in Range(s)
    <2>1. CASE x \in Range(Tail(s))
      <3>1. PICK i \in 1 .. Len(s) - 1 : Tail(s)[i] = x
        BY <1>2, <2>1 DEF Range
      <3>2. i + 1 \in 1 .. Len(s) /\ s[i + 1] = x
        BY <1>1, <3>1
      <3>3. QED
        BY <1>2, <3>2 DEF Range
    <2>2. CASE x = Head(s)
      <3>1. 1 \in DOMAIN s
        BY <1>1, <1>2
      <3>2. QED
        BY <1>1, <2>2, <3>1 DEF Range
    <2>3. QED
      BY <2>1, <2>2
  <1>5. QED
    BY <1>1, <1>3, <1>4

LEMMA EmptyRecorder ==
  /\ EmptyInstance \in Recorder /\ IsFiniteSet(EmptyInstance.regions)
  /\ EmptyInstance.objects = {} /\ EmptyInstance.chunks = {} /\ EmptyInstance.regions = {}
  <1>1. /\ EmptyInstance.objects = {} /\ EmptyInstance.chunks = {} /\ EmptyInstance.regions = {}
        /\ EmptyInstance \in Recorder
    BY DEF EmptyInstance, Recorder
  <1>2. QED
    BY <1>1, FS_EmptySet

LEMMA CompletedType ==
  ASSUME TypeInv, NEW q \in Queue
  PROVE  UpdateLastCompletedInstance(q) \in Nat
  BY DEF UpdateLastCompletedInstance, TypeInv, QueueState

LEMMA TypesOfListStep ==
  ASSUME TypeInv, SoundInv, NEW l \in List, ListStep(l)
  PROVE  TypeInv'
  <1>0. /\ list \in [List -> ListState] /\ queue \in [Queue -> QueueState]
        /\ QueueOf[l] \in Queue
    BY SubmissionAssumption DEF TypeInv
  <1>1. CASE Open(l)
    <2> DEFINE q == QueueOf[l]
               done == UpdateLastCompletedInstance(q)
    <2>1. list' \in [List -> ListState] /\ Others(l) /\ list'[l].instance = EmptyInstance
      BY <1>1, OpenList
    <2>2. queue' = [queue EXCEPT ![q].completed = done, ![q].recording = @ + 1]
      BY <1>1 DEF Open
    <2>3. queue' \in [Queue -> QueueState]
      <3>1. done \in Nat /\ queue[q].recording + 1 \in Nat \ {0}
        BY <1>0, CompletedType DEF QueueState
      <3> HIDE DEF done, q
      <3>2. QED
        BY <1>0, <2>2, <3>1 DEF QueueState
    <2>4. \A k \in List : IsFiniteSet(list'[k].instance.regions)
      BY <2>1, EmptyRecorder DEF Others, TypeInv
    <2>5. UNCHANGED <<work, fence, mark, host>>
      BY <1>1 DEF Open
    <2>6. QED
      BY <2>1, <2>3, <2>4, <2>5 DEF TypeInv, WorkOf, Items
  <1>2. CASE Close(l)
    <2>1. list' \in [List -> ListState] /\ Others(l) /\ list'[l].instance = list[l].instance
      BY <1>2, CloseList
    <2>2. \A k \in List : IsFiniteSet(list'[k].instance.regions)
      BY <2>1 DEF Others, TypeInv
    <2>3. UNCHANGED <<work, fence, queue, mark, host>>
      BY <1>2 DEF Close
    <2>4. QED
      BY <2>1, <2>2, <2>3 DEF TypeInv, WorkOf, Items
  <1>3. CASE DropList(l)
    <2>1. list' \in [List -> ListState] /\ Others(l) /\ list'[l].instance = EmptyInstance
      BY <1>3, DroppedList
    <2>2. \A k \in List : IsFiniteSet(list'[k].instance.regions)
      BY <2>1, EmptyRecorder DEF Others, TypeInv
    <2>3. UNCHANGED <<work, fence, queue, mark, host>>
      BY <1>3 DEF DropList
    <2>4. QED
      BY <2>1, <2>2, <2>3 DEF TypeInv, WorkOf, Items
  <1>4. ASSUME NEW s \in SUBSET Object, Records(l, s)
        PROVE  TypeInv'
    <2>1. /\ list' \in [List -> ListState] /\ Others(l)
          /\ list'[l].instance.regions = list[l].instance.regions
      BY <1>4, RecordsList
    <2>2. \A k \in List : IsFiniteSet(list'[k].instance.regions)
      BY <2>1 DEF Others, TypeInv
    <2>3. UNCHANGED <<work, fence, queue, mark, host>>
      BY <1>4 DEF Records
    <2>4. QED
      BY <2>1, <2>2, <2>3 DEF TypeInv, WorkOf, Items
  <1>5. ASSUME NEW kind, NEW at \in Nat \cup {-1}, NEW size, NEW written,
               TakesPiece(l, kind, at, size, written)
        PROVE  TypeInv'
    <2>1. list' \in [List -> ListState] /\ Others(l)
      BY <1>5 DEF TakesPiece
    <2>2. IsFiniteSet(list'[l].instance.regions)
      <3>1. IsFiniteSet(list[l].instance.regions)
        BY DEF TypeInv
      <3>2. CASE at = -1
        BY <1>5, <3>1, <3>2 DEF TakesPiece
      <3>3. CASE at \in Nat
        <4> DEFINE r == Region(l, kind, list'[l][kind].current, at, size, written)
        <4>1. list'[l].instance.regions = list[l].instance.regions \cup {r}
          BY <1>5, <3>3 DEF TakesPiece
        <4> HIDE DEF r
        <4>2. QED
          BY <3>1, <4>1, FS_AddElement
      <3>4. QED
        BY <3>2, <3>3
    <2>3. \A k \in List : IsFiniteSet(list'[k].instance.regions)
      BY <2>1, <2>2 DEF Others, TypeInv
    <2>4. UNCHANGED <<work, fence, queue, mark, host>>
      BY <1>5 DEF TakesPiece
    <2>5. QED
      BY <2>1, <2>3, <2>4 DEF TypeInv, WorkOf, Items
  <1>6. ASSUME NEW x \in Resource, NEW size \in Nat, NEW a \in Nat \ {0}, Write(l, x, size, a)
        PROVE  TypeInv'
    BY <1>5, <1>6, WriteList
  <1>7. ASSUME NEW kind \in Kinds, NEW size \in Nat, Allocate(l, kind, size)
        PROVE  TypeInv'
    BY <1>5, <1>7, AllocateList
  <1>8. QED
    BY <1>1, <1>2, <1>3, <1>4, <1>6, <1>7 DEF ListStep

LEMMA TypesOfQueueStep ==
  ASSUME TypeInv, SoundInv, NEW q \in Queue, QueueStep(q)
  PROVE  TypeInv'
  <1>0. /\ list \in [List -> ListState] /\ queue \in [Queue -> QueueState]
        /\ work \in [Queue -> Seq(WorkItem \cup WaitItem)] /\ fence \in [Queue -> Nat]
        /\ host \in Host /\ mark \in [Marked -> Mark]
    BY DEF TypeInv
  <1>1. ASSUME NEW lists \in SUBSET List, ExecuteCommandLists(lists, q)
        PROVE  TypeInv'
    <2>0. PICK n : n = queue[q].submitted + 1
      OBVIOUS
    <2>1. n \in Nat
      BY <1>0, <2>0 DEF QueueState
    <2>2. list' \in [List -> ListState]
      BY <1>1, <2>0, ExecutedList
    <2>3. \A k \in List : IsFiniteSet(list'[k].instance.regions)
      <3>1. \A k \in lists : IsExecuted(k, q, n)
        BY <1>1, <2>0, ExecutedList
      <3>2. \A k \in List \ lists : list'[k] = list[k]
        BY <1>1, <2>0, ExecutedList
      <3>3. QED
        BY <3>1, <3>2, EmptyRecorder DEF TypeInv, IsExecuted
    <2>4. queue' \in [Queue -> QueueState]
      BY <1>1, <2>0, ExecutedQueue
    <2>5. PICK item \in WorkItem : /\ work' = [work EXCEPT ![q] = Append(work[q], item)]
                                   /\ IsWork(item, lists, n)
      BY <1>1, <2>0, ExecutedWork
    <2>6. /\ work' \in [Queue -> Seq(WorkItem \cup WaitItem)]
          /\ \A p \in Queue : IF p = q THEN Range(work'[p]) = Range(work[p]) \cup {item}
                              ELSE work'[p] = work[p]
      <3>1. /\ Append(work[q], item) \in Seq(WorkItem \cup WaitItem)
            /\ Range(Append(work[q], item)) = Range(work[q]) \cup {item}
        <4>1. work[q] \in Seq(WorkItem \cup WaitItem) /\ item \in WorkItem \cup WaitItem
          BY <1>0
        <4>2. QED
          BY <4>1, AppendRange
      <3>2. QED
        BY <1>0, <2>5, <3>1
    <2>7. \A p \in Queue : \A i \in (WorkOf(p))' : IsFiniteSet(i.allocators)
      BY <2>5, <2>6 DEF TypeInv, WorkOf, Items, IsWork
    <2>8. mark' \in [Marked -> Mark]
      <3>1. mark' = [x \in Marked |->
                       IF x \in UNION {list[l].instance.objects : l \in lists}
                       THEN MarkExecuted(x, n) ELSE mark[x]]
        BY <1>0, <1>1, <2>0 DEF ExecuteCommandLists
      <3>2. \A x \in Marked : MarkExecuted(x, n) \in Mark
        BY <2>1 DEF MarkExecuted, Mark
      <3>3. QED
        BY <1>0, <3>1, <3>2
    <2>9. UNCHANGED <<fence, host>>
      BY <1>1 DEF ExecuteCommandLists
    <2>10. QED
      BY <2>2, <2>3, <2>4, <2>6, <2>7, <2>8, <2>9 DEF TypeInv
  <1>2. ASSUME NEW on \in Queue, QueueWaitForCommandList(q, on)
        PROVE  TypeInv'
    <2>1. PICK n \in WaitedInstance(on) :
            work' = [work EXCEPT ![q] =
                       Append(@, [kind |-> "wait", on |-> on, value |-> n])]
      BY <1>2 DEF QueueWaitForCommandList
    <2> DEFINE item == [kind |-> "wait", on |-> on, value |-> n]
    <2>2. item \in WaitItem /\ item.kind # "work"
      BY <1>0, <2>1 DEF WaitedInstance, QueueState, WaitItem
    <2> HIDE DEF item
    <2>3. /\ work' \in [Queue -> Seq(WorkItem \cup WaitItem)]
          /\ \A p \in Queue : IF p = q THEN Range(work'[p]) = Range(work[p]) \cup {item}
                              ELSE work'[p] = work[p]
      <3>1. /\ Append(work[q], item) \in Seq(WorkItem \cup WaitItem)
            /\ Range(Append(work[q], item)) = Range(work[q]) \cup {item}
        BY <1>0, <2>2, AppendRange
      <3>2. work' = [work EXCEPT ![q] = Append(work[q], item)]
        BY <1>0, <2>1 DEF item
      <3>3. QED
        BY <1>0, <3>1, <3>2
    <2>4. \A p \in Queue : \A i \in (WorkOf(p))' : IsFiniteSet(i.allocators)
      BY <2>2, <2>3 DEF TypeInv, WorkOf, Items
    <2>5. UNCHANGED <<fence, queue, list, mark, host>>
      BY <1>2 DEF QueueWaitForCommandList
    <2>6. QED
      BY <2>3, <2>4, <2>5 DEF TypeInv
  <1>3. CASE WaitForQueue(q)
    <2> DEFINE done == UpdateLastCompletedInstance(q)
               left == Tail(host.left)
    <2>1. host.state = "idle" /\ host.left # <<>> /\ host.left \in Seq(Queue)
      BY <1>0, <1>3 DEF WaitForQueue, TypeInv, Host
    <2>2. left \in Seq(Queue)
      BY <2>1
    <2>3. queue' = [queue EXCEPT ![q].completed = done]
      BY <1>3 DEF WaitForQueue
    <2>4. queue' \in [Queue -> QueueState]
      BY <1>0, <2>3, CompletedType DEF QueueState
    <2>5. host' = IF done < queue[q].submitted
                  THEN [Blocked(q, queue[q].submitted, None) EXCEPT !.left = left]
                  ELSE IF left = <<>> THEN Running ELSE [host EXCEPT !.left = left]
      BY <1>3 DEF WaitForQueue
    <2>6. queue[q].submitted \in Nat
      BY <1>0 DEF QueueState
    <2> HIDE DEF done, left
    <2>7. host' \in Host /\ (host'.state = "idle" => host'.left # <<>>)
      <3>1. CASE done < queue[q].submitted
        BY <2>2, <2>5, <2>6, <3>1 DEF Blocked, Host
      <3>2. CASE ~(done < queue[q].submitted) /\ left = <<>>
        BY <2>5, <3>2 DEF Running, Host
      <3>3. CASE ~(done < queue[q].submitted) /\ left # <<>>
        BY <1>0, <2>2, <2>5, <3>3 DEF Host
      <3>4. QED
        BY <3>1, <3>2, <3>3
    <2>8. UNCHANGED <<work, fence, list, mark>>
      BY <1>3 DEF WaitForQueue
    <2>9. QED
      BY <2>4, <2>7, <2>8 DEF TypeInv, WorkOf, Items
  <1>4. CASE GpuStep(q)
    <2>1. work[q] # <<>> /\ work' = [work EXCEPT ![q] = Tail(@)]
      BY <1>4 DEF GpuStep
    <2>2. work[q] \in Seq(WorkItem \cup WaitItem)
      BY <1>0
    <2>3. /\ Tail(work[q]) \in Seq(WorkItem \cup WaitItem)
          /\ Head(work[q]) \in WorkItem \cup WaitItem
          /\ Range(work[q]) = Range(Tail(work[q])) \cup {Head(work[q])}
      BY <2>1, <2>2, TailRange
    <2>4. /\ work' \in [Queue -> Seq(WorkItem \cup WaitItem)]
          /\ \A p \in Queue : Range(work'[p]) \subseteq Range(work[p])
      BY <1>0, <2>1, <2>3
    <2>5. \A p \in Queue : \A i \in (WorkOf(p))' : IsFiniteSet(i.allocators)
      BY <2>4 DEF TypeInv, WorkOf, Items
    <2>6. Head(work[q]).value \in Nat
      BY <2>3 DEF WorkItem, WaitItem
    <2>7. fence' \in [Queue -> Nat]
      BY <1>0, <1>4, <2>6 DEF GpuStep
    <2>8. UNCHANGED <<queue, list, mark, host>>
      BY <1>4 DEF GpuStep
    <2>9. QED
      BY <2>4, <2>5, <2>7, <2>8 DEF TypeInv
  <1>5. QED
    BY <1>1, <1>2, <1>3, <1>4 DEF QueueStep

LEMMA Prefix ==
  ASSUME NEW S, NEW s \in Seq(S), NEW n \in 1 .. Len(s)
  PROVE  /\ SubSeq(s, 1, n) \in Seq(S) /\ Len(SubSeq(s, 1, n)) = n
         /\ \A i \in 1 .. n : SubSeq(s, 1, n)[i] = s[i]
  OBVIOUS

\* A collection keeps whatever the GPU has not finished, and nothing if it has
\* finished all.
Collects(q) ==
    LET done == UpdateLastCompletedInstance(q)
        flying == queue[q].inFlight
        left == queue'[q].inFlight
    IN  /\ queue'[q] \in QueueState
        /\ queue'[q].submitted = queue[q].submitted
        /\ queue'[q].recording = queue[q].recording /\ queue'[q].completed = done
        /\ Range(left) \subseteq Range(flying)
        /\ \A f \in Range(flying) : f.submitted > done => f \in Range(left)
        /\ (\A f \in Range(flying) : f.submitted <= done) => left = <<>>

LEMMA CollectedQueue ==
  ASSUME TypeInv, RunGarbageCollection, NEW q \in Queue
  PROVE  Collects(q) /\ queue' = [p \in Queue |-> queue'[p]]
  <1> DEFINE done == UpdateLastCompletedInstance(q)
             flying == queue[q].inFlight
             kept == {i \in DOMAIN flying : ~Finished(q, done, flying[i])}
             left == IF kept = {} THEN <<>> ELSE SubSeq(flying, 1, Max(kept))
  <1>1. queue[q] \in QueueState /\ flying \in Seq(Instance) /\ done \in Nat
    BY CompletedType DEF TypeInv, QueueState
  <1>2. /\ queue'[q] = [queue[q] EXCEPT !.completed = done, !.inFlight = left]
        /\ queue' = [p \in Queue |-> queue'[p]]
    BY DEF RunGarbageCollection
  <1>3. kept = {i \in DOMAIN flying : ~(done >= flying[i].submitted)}
    BY DEF Finished
  <1>4. /\ DOMAIN flying = 1 .. Len(flying) /\ Len(flying) \in Nat
        /\ \A i \in DOMAIN flying : flying[i] \in Instance /\ flying[i].submitted \in Nat
    <2>1. flying \in Seq(Instance)
      BY <1>1
    <2> HIDE DEF flying
    <2>2. \A i \in DOMAIN flying : flying[i] \in Instance
      BY <2>1
    <2>3. QED
      BY <2>1, <2>2 DEF Instance
  <1> HIDE DEF kept, done, flying
  <1>5. /\ left \in Seq(Instance) /\ Range(left) \subseteq Range(flying)
        /\ \A i \in kept : flying[i] \in Range(left)
        /\ kept = {} => left = <<>>
    <2>1. CASE kept = {}
      <3>1. left = <<>> /\ Range(left) = {}
        BY <2>1 DEF Range
      <3>2. QED
        BY <2>1, <3>1
    <2>2. CASE kept # {}
      <3> DEFINE n == Max(kept)
      <3>1. kept \in SUBSET (1 .. Len(flying))
        BY <1>3, <1>4
      <3>2. n \in kept /\ \A i \in kept : i <= n
        BY <1>4, <2>2, <3>1, GreatestOf
      <3>3. n \in 1 .. Len(flying)
        BY <3>1, <3>2
      <3> HIDE DEF n
      <3>4. left = SubSeq(flying, 1, n)
        BY <2>2 DEF n
      <3>5. /\ left \in Seq(Instance) /\ Len(left) = n
            /\ \A i \in 1 .. n : left[i] = flying[i]
        BY <1>1, <3>3, <3>4, Prefix
      <3> HIDE DEF left
      <3>6. DOMAIN left = 1 .. n
        BY <3>5
      <3>7. Range(left) \subseteq Range(flying)
        <4>1. \A i \in 1 .. n : i \in DOMAIN flying
          BY <1>4, <3>3
        <4>2. QED
          BY <3>5, <3>6, <4>1 DEF Range
      <3>8. \A i \in kept : flying[i] \in Range(left)
        <4>1. \A i \in kept : i \in 1 .. n
          BY <1>4, <3>1, <3>2, <3>3
        <4>2. QED
          BY <3>5, <3>6, <4>1 DEF Range
      <3>9. QED
        BY <2>2, <3>5, <3>7, <3>8
    <2>3. QED
      BY <2>1, <2>2
  <1> HIDE DEF left
  <1>6. /\ queue'[q] \in QueueState
        /\ queue'[q].submitted = queue[q].submitted
        /\ queue'[q].recording = queue[q].recording /\ queue'[q].completed = done
        /\ queue'[q].inFlight = left
    BY <1>1, <1>2, <1>5 DEF QueueState
  <1>7. ASSUME NEW f \in Range(flying), f.submitted > done
        PROVE  f \in Range(left)
    <2>1. PICK i \in DOMAIN flying : f = flying[i]
      BY DEF Range
    <2>2. i \in kept
      BY <1>1, <1>3, <1>4, <1>7, <2>1
    <2>3. QED
      BY <1>5, <2>1, <2>2
  <1>8. ASSUME \A f \in Range(flying) : f.submitted <= done
        PROVE  left = <<>>
    <2>1. \A i \in DOMAIN flying : flying[i].submitted <= done
      BY <1>8 DEF Range
    <2>2. kept = {}
      BY <1>1, <1>3, <1>4, <2>1
    <2>3. QED
      BY <1>5, <2>2
  <1>9. QED
    BY <1>2, <1>5, <1>6, <1>7, <1>8 DEF Collects, done, flying

LEMMA TypesOfMarkStep ==
  ASSUME TypeInv, NEW x \in Marked, MarkStep(x)
  PROVE  TypeInv'
  <1>0. /\ queue \in [Queue -> QueueState] /\ host \in Host
        /\ mark \in [Marked -> Mark] /\ mark[x] \in Mark
        /\ UsedOn[x] \in Queue /\ x \in Object
    BY SubmissionAssumption DEF TypeInv, Marked, Object
  <1>1. CASE WaitForFence(x)
    <2> DEFINE v == IF mark[x].fence THEN mark[x].value ELSE 0
    <2>1. v \in Nat
      BY <1>0 DEF Mark
    <2>2. host' = Blocked(UsedOn[x], v, x)
      BY <1>1 DEF WaitForFence
    <2> HIDE DEF v
    <2>3. host' \in Host /\ host'.state # "idle"
      BY <1>0, <2>1, <2>2 DEF Blocked, Host
    <2>4. UNCHANGED <<work, fence, queue, list, mark>>
      BY <1>1 DEF WaitForFence
    <2>5. QED
      BY <2>3, <2>4 DEF TypeInv, WorkOf, Items
  <1>2. ASSUME mark' \in [Marked -> Mark], UNCHANGED <<work, fence, queue, list, host>>
        PROVE  TypeInv'
    BY <1>2 DEF TypeInv, WorkOf, Items
  <1>3. CASE SetEventQuery(x)
    <2>1. queue[UsedOn[x]].submitted \in Nat
      BY <1>0 DEF QueueState
    <2>2. mark' \in [Marked -> Mark]
      BY <1>0, <1>3, <2>1 DEF SetEventQuery, Mark
    <2>3. QED
      BY <1>2, <1>3, <2>2 DEF SetEventQuery
  <1>4. ASSUME NEW resolved \in BOOLEAN, Poll(x, resolved)
        PROVE  TypeInv'
    <2>1. mark' \in [Marked -> Mark]
      BY <1>0, <1>4 DEF Poll, Mark
    <2>2. QED
      BY <1>2, <1>4, <2>1 DEF Poll
  <1>5. CASE ResetQuery(x)
    <2>1. mark' \in [Marked -> Mark]
      BY <1>0, <1>5 DEF ResetQuery, Mark
    <2>2. QED
      BY <1>2, <1>5, <2>1 DEF ResetQuery
  <1>6. QED
    BY <1>1, <1>3, <1>4, <1>5 DEF MarkStep

LEMMA TypesOfHost ==
  ASSUME TypeInv,
         RunGarbageCollection \/ WaitForIdle \/ WaitReturns \/ \E x \in Object : Drop(x)
  PROVE  TypeInv'
  <1>0. /\ queue \in [Queue -> QueueState] /\ host \in Host /\ mark \in [Marked -> Mark]
    BY DEF TypeInv
  <1>1. CASE RunGarbageCollection
    <2>1. \A q \in Queue : queue'[q] \in QueueState /\ queue' = [p \in Queue |-> queue'[p]]
      BY <1>1, CollectedQueue DEF Collects
    <2>2. queue' \in [Queue -> QueueState]
      <3>1. queue' = [p \in Queue |-> queue'[p]]
        BY <1>1 DEF RunGarbageCollection
      <3>2. QED
        BY <2>1, <3>1
    <2>3. UNCHANGED <<work, fence, list, mark, host>>
      BY <1>1 DEF RunGarbageCollection
    <2>4. QED
      BY <2>2, <2>3 DEF TypeInv, WorkOf, Items
  <1>2. CASE WaitForIdle
    <2>1. host' \in Host /\ host'.left # <<>>
      BY <1>2, SubmissionAssumption DEF WaitForIdle, Running, Host
    <2>2. UNCHANGED <<work, fence, queue, list, mark>>
      BY <1>2 DEF WaitForIdle
    <2>3. QED
      BY <2>1, <2>2 DEF TypeInv, WorkOf, Items
  <1>3. CASE WaitReturns
    <2>1. host' \in Host /\ (host'.state = "idle" => host'.left # <<>>)
      <3>1. CASE host.left = <<>>
        BY <1>3, <3>1 DEF WaitReturns, Running, Host
      <3>2. CASE host.left # <<>>
        BY <1>0, <1>3, <3>2 DEF WaitReturns, Host
      <3>3. QED
        BY <3>1, <3>2
    <2>2. mark' \in [Marked -> Mark]
      <3> DEFINE b == host.object \in Timer
      <3>1. b \in BOOLEAN
        OBVIOUS
      <3>2. mark' = IF host.object \in Readback \cup Timer
                    THEN [mark EXCEPT ![host.object].fence = FALSE,
                                      ![host.object].resolved = b]
                    ELSE mark
        BY <1>3 DEF WaitReturns
      <3> HIDE DEF b
      <3>3. host.object \in Readback \cup Timer => mark[host.object] \in Mark
        BY <1>0 DEF Marked
      <3>4. QED
        BY <1>0, <3>1, <3>2, <3>3 DEF Mark
    <2>3. UNCHANGED <<work, fence, queue, list>>
      BY <1>3 DEF WaitReturns
    <2>4. QED
      BY <2>1, <2>2, <2>3 DEF TypeInv, WorkOf, Items
  <1>4. CASE \E x \in Object : Drop(x)
    BY <1>4 DEF Drop, TypeInv, WorkOf, Items
  <1>5. QED
    BY <1>1, <1>2, <1>3, <1>4

\* A fresh manager, and one that has none of its chunks current.
LEMMA FreshManager ==
  Sound([current |-> None, pool |-> <<>>])
  <1> DEFINE m == [current |-> None, pool |-> <<>>]
  <1>1. m.current = None /\ m.pool = <<>>
    OBVIOUS
  <1>2. DOMAIN m.pool = {}
    BY <1>1
  <1> HIDE DEF m
  <1>3. Sound(m)
    BY <1>1, <1>2 DEF Sound, Numbered, Apart
  <1>4. QED
    BY <1>3 DEF m

LEMMA SoundOfListStep ==
  ASSUME TypeInv, SoundInv, NEW l \in List, ListStep(l)
  PROVE  SoundInv'
  <1>0. \A k \in List : list[k] \in ListState
    BY DEF TypeInv
  <1>1. CASE Open(l)
    <2>1. /\ Others(l) /\ list'[l].version = queue[QueueOf[l]].recording
          /\ \A kind \in Kinds : list'[l][kind] = list[l][kind]
      BY <1>1, OpenList
    <2>2. queue[QueueOf[l]].recording > 0
      BY SubmissionAssumption DEF TypeInv, QueueState
    <2>3. QED
      BY <2>1, <2>2 DEF SoundInv, Others
  <1>2. CASE Close(l)
    <2>1. list[l].state = "open"
      BY <1>2 DEF Close
    <2>2. /\ Others(l) /\ list'[l].version = list[l].version
          /\ \A kind \in Kinds : list'[l][kind] = list[l][kind]
      BY <1>2, CloseList
    <2>3. QED
      BY <2>1, <2>2 DEF SoundInv, Others
  <1>3. CASE DropList(l)
    <2>1. /\ Others(l) /\ list'[l].state = "gone"
          /\ \A kind \in Kinds : list'[l][kind] = [current |-> None, pool |-> <<>>]
      BY <1>3, DroppedList
    <2>2. QED
      BY <2>1, FreshManager DEF SoundInv, Others
  <1>4. ASSUME NEW s \in SUBSET Object, Records(l, s)
        PROVE  SoundInv'
    <2>1. /\ Others(l) /\ list'[l].version = list[l].version
          /\ list'[l].state = list[l].state
          /\ \A kind \in Kinds : list'[l][kind] = list[l][kind]
      BY <1>4, RecordsList
    <2>2. QED
      BY <2>1 DEF SoundInv, Others
  <1>5. ASSUME NEW kind, NEW at \in Nat \cup {-1}, NEW size, NEW written,
               TakesPiece(l, kind, at, size, written)
        PROVE  SoundInv'
    <2>1. /\ Others(l) /\ list'[l].version = list[l].version
          /\ list'[l].state = list[l].state
          /\ \A k \in Kinds \ {kind} : list'[l][k] = list[l][k]
          /\ Sound(list'[l][kind])
      BY <1>5 DEF TakesPiece, Suballocates
    <2>2. QED
      BY <2>1 DEF SoundInv, Others
  <1>6. ASSUME NEW x \in Resource, NEW size \in Nat, NEW a \in Nat \ {0}, Write(l, x, size, a)
        PROVE  SoundInv'
    BY <1>5, <1>6, WriteList
  <1>7. ASSUME NEW kind \in Kinds, NEW size \in Nat, Allocate(l, kind, size)
        PROVE  SoundInv'
    BY <1>5, <1>7, AllocateList
  <1>8. QED
    BY <1>1, <1>2, <1>3, <1>4, <1>6, <1>7 DEF ListStep

LEMMA BaseKept ==
  ASSUME TypeInv, SoundInv, [Next]_vars
  PROVE  TypeInv' /\ SoundInv'
  <1>1. CASE UNCHANGED vars
    <2>1. SoundInv'
      BY <1>1 DEF vars, SoundInv
    <2>2. TypeInv'
      BY <1>1 DEF vars, TypeInv, WorkOf, Items
    <2>3. QED
      BY <2>1, <2>2
  <1>2. ASSUME NEW l \in List, ListStep(l)
        PROVE  TypeInv' /\ SoundInv'
    BY <1>2, TypesOfListStep, SoundOfListStep
  <1>3. ASSUME NEW q \in Queue, QueueStep(q)
        PROVE  TypeInv' /\ SoundInv'
    <2>1. TypeInv'
      BY <1>3, TypesOfQueueStep
    <2>2. ASSUME NEW lists \in SUBSET List, ExecuteCommandLists(lists, q)
          PROVE  SoundInv'
      <3>0. PICK n : n = queue[q].submitted + 1
        OBVIOUS
      <3>1. /\ \A k \in List \ lists : list'[k] = list[k]
            /\ \A k \in lists : IsExecuted(k, q, n)
        BY <2>2, <3>0, ExecutedList
      <3>2. \A k \in lists : /\ list'[k].state = "idle"
                             /\ \A kind \in Kinds : Sound(list'[k][kind])
        BY <3>1 DEF IsExecuted, Submits
      <3>3. QED
        BY <3>1, <3>2 DEF SoundInv
    <2>3. CASE \/ \E on \in Queue : QueueWaitForCommandList(q, on)
               \/ WaitForQueue(q) \/ GpuStep(q)
      <3>1. UNCHANGED list
        BY <2>3 DEF QueueWaitForCommandList, WaitForQueue, GpuStep
      <3>2. QED
        BY <2>1, <3>1 DEF SoundInv
    <2>4. QED
      BY <1>3, <2>1, <2>2, <2>3 DEF QueueStep
  <1>4. ASSUME NEW x \in Marked, MarkStep(x)
        PROVE  TypeInv' /\ SoundInv'
    <2>1. UNCHANGED list
      BY <1>4 DEF MarkStep, WaitForFence, SetEventQuery, Poll, ResetQuery
    <2>2. QED
      BY <1>4, <2>1, TypesOfMarkStep DEF SoundInv
  <1>5. CASE RunGarbageCollection \/ WaitForIdle \/ WaitReturns \/ \E x \in Object : Drop(x)
    <2>1. UNCHANGED list
      BY <1>5 DEF RunGarbageCollection, WaitForIdle, WaitReturns, Drop
    <2>2. QED
      BY <1>5, <2>1, TypesOfHost DEF SoundInv
  <1>6. QED
    BY <1>1, <1>2, <1>3, <1>4, <1>5, NextIsStep DEF Step

LEMMA BaseAtStart ==
  ASSUME Init
  PROVE  TypeInv /\ SoundInv
  <1> DEFINE m == [current |-> None, pool |-> <<>>]
  <1>1. /\ work = [q \in Queue |-> <<>>] /\ fence = [q \in Queue |-> 0]
        /\ queue = [q \in Queue |-> [submitted |-> 0, completed |-> 0, recording |-> 1,
                                     inFlight |-> <<>>]]
        /\ list = [l \in List |-> IF l \in scope.lists THEN NewList
                                  ELSE [NewList EXCEPT !.state = "gone"]]
        /\ mark = [x \in Marked |->
                     [started |-> FALSE, resolved |-> FALSE, fence |-> FALSE, value |-> 0]]
        /\ host = Running
    BY DEF Init, Marked
  <1>2. NewList \in ListState /\ [NewList EXCEPT !.state = "gone"] \in ListState
    <2>1. m \in Manager /\ <<>> \in Seq(Allocator)
      BY DEF Manager
    <2>2. NewList = [state |-> "idle", version |-> 0, instance |-> EmptyInstance, active |-> 0,
                     pool |-> <<>>, uploadBuffer |-> None, upload |-> m, scratch |-> m]
      BY DEF NewList
    <2> HIDE DEF m
    <2>3. QED
      BY <2>1, <2>2, EmptyRecorder DEF ListState
  <1>3. \A l \in List : /\ list[l] \in ListState /\ list[l].instance = EmptyInstance
                        /\ list[l].state \in {"idle", "gone"}
                        /\ \A kind \in Kinds : list[l][kind] = m
    BY <1>1, <1>2 DEF NewList, Kinds
  <1>4. SoundInv
    BY <1>3, FreshManager DEF SoundInv
  <1>5. \A q \in Queue : work[q] = <<>> /\ WorkOf(q) = {}
    BY <1>1 DEF WorkOf, Items, Range
  <1>6. TypeInv
    <2>1. list \in [List -> ListState]
      BY <1>1, <1>2
    <2>2. queue \in [Queue -> QueueState]
      BY <1>1 DEF QueueState
    <2>3. work \in [Queue -> Seq(WorkItem \cup WaitItem)] /\ fence \in [Queue -> Nat]
      BY <1>1
    <2>4. mark \in [Marked -> Mark]
      BY <1>1 DEF Mark
    <2>5. host \in Host /\ host.state = "run"
      BY <1>1 DEF Running, Host
    <2>6. QED
      BY <1>3, <1>5, <2>1, <2>2, <2>3, <2>4, <2>5, EmptyRecorder DEF TypeInv
  <1>7. QED
    BY <1>4, <1>6

-----------------------------------------------------------------------------
\* The fences: what has been submitted to a queue and is not finished lies, in
\* order, between the fence and the number of submissions.

InOrder(s, low, high) ==
    /\ \A i \in DOMAIN s : s[i].kind = "work" => low < s[i].value /\ s[i].value <= high
    /\ \A i, j \in DOMAIN s :
         i < j /\ s[i].kind = "work" /\ s[j].kind = "work" => s[i].value < s[j].value

FenceInv ==
    \A q \in Queue :
      /\ queue[q].completed <= fence[q] /\ fence[q] <= queue[q].submitted
      /\ InOrder(work[q], fence[q], queue[q].submitted)
      /\ \A f \in Range(queue[q].inFlight) : f.submitted <= queue[q].submitted

LEMMA InOrderAppended ==
  ASSUME NEW s \in Seq(WorkItem \cup WaitItem), NEW low \in Nat, NEW high \in Nat,
         low <= high, InOrder(s, low, high), NEW x \in WorkItem \cup WaitItem
  PROVE  /\ x.kind = "work" /\ x.value = high + 1 => InOrder(Append(s, x), low, high + 1)
         /\ x.kind # "work" => InOrder(Append(s, x), low, high)
  <1> DEFINE t == Append(s, x)
  <1>1. /\ DOMAIN t = 1 .. Len(s) + 1 /\ DOMAIN s = 1 .. Len(s) /\ Len(s) \in Nat
        /\ t[Len(s) + 1] = x /\ \A i \in 1 .. Len(s) : t[i] = s[i]
    OBVIOUS
  <1>2. \A i \in DOMAIN s : s[i].value \in Nat
    <2>1. \A i \in DOMAIN s : s[i] \in WorkItem \cup WaitItem
      OBVIOUS
    <2>2. QED
      BY <2>1 DEF WorkItem, WaitItem
  <1> HIDE DEF t
  <1>3. \A i \in DOMAIN t : i \in DOMAIN s \/ i = Len(s) + 1
    BY <1>1
  <1>4. \A i, j \in DOMAIN t : i < j => i \in DOMAIN s /\ (j \in DOMAIN s \/ j = Len(s) + 1)
    BY <1>1
  <1>5. \A i \in DOMAIN s : t[i] = s[i]
    BY <1>1
  <1>6. ASSUME x.kind = "work", x.value = high + 1
        PROVE  InOrder(t, low, high + 1)
    <2>1. \A i \in DOMAIN t : t[i].kind = "work" => low < t[i].value /\ t[i].value <= high + 1
      BY <1>1, <1>2, <1>3, <1>5, <1>6 DEF InOrder
    <2>2. \A i, j \in DOMAIN t :
            i < j /\ t[i].kind = "work" /\ t[j].kind = "work" => t[i].value < t[j].value
      <3> SUFFICES ASSUME NEW i \in DOMAIN t, NEW j \in DOMAIN t, i < j,
                          t[i].kind = "work", t[j].kind = "work"
                   PROVE  t[i].value < t[j].value
        OBVIOUS
      <3>1. i \in DOMAIN s /\ t[i] = s[i]
        BY <1>4, <1>5
      <3>2. CASE j \in DOMAIN s
        BY <1>5, <3>1, <3>2 DEF InOrder
      <3>3. CASE j = Len(s) + 1
        <4>1. s[i].value <= high /\ s[i].value \in Nat
          BY <1>2, <3>1 DEF InOrder
        <4>2. t[j].value = high + 1
          BY <1>1, <1>6, <3>3
        <4>3. QED
          BY <3>1, <4>1, <4>2
      <3>4. QED
        BY <1>4, <3>2, <3>3
    <2>3. QED
      BY <2>1, <2>2 DEF InOrder
  <1>7. ASSUME x.kind # "work"
        PROVE  InOrder(t, low, high)
    <2>1. \A i \in DOMAIN t : t[i].kind = "work" => i \in DOMAIN s
      BY <1>1, <1>3, <1>7
    <2>2. QED
      BY <1>5, <2>1 DEF InOrder
  <1>8. QED
    BY <1>6, <1>7 DEF t

LEMMA InOrderTail ==
  ASSUME NEW s \in Seq(WorkItem \cup WaitItem), s # <<>>, NEW low \in Nat, NEW high \in Nat,
         InOrder(s, low, high)
  PROVE  /\ Head(s).kind = "work" => /\ low < Head(s).value /\ Head(s).value <= high
                                     /\ InOrder(Tail(s), Head(s).value, high)
         /\ InOrder(Tail(s), low, high)
  <1> DEFINE t == Tail(s)
  <1>1. /\ Len(s) \in Nat /\ DOMAIN s = 1 .. Len(s) /\ 1 \in DOMAIN s /\ Head(s) = s[1]
        /\ Len(t) = Len(s) - 1 /\ \A i \in 1 .. Len(s) - 1 : t[i] = s[i + 1]
        /\ DOMAIN t = 1 .. Len(s) - 1
    BY TailRange
  <1> HIDE DEF t
  <1>2. \A i \in DOMAIN t : i + 1 \in DOMAIN s /\ 1 < i + 1 /\ t[i] = s[i + 1]
    BY <1>1
  <1>3. \A i, j \in DOMAIN t : i < j => i + 1 < j + 1
    BY <1>1
  <1>4. InOrder(t, low, high)
    BY <1>2, <1>3 DEF InOrder
  <1>5. ASSUME Head(s).kind = "work"
        PROVE  /\ low < Head(s).value /\ Head(s).value <= high
               /\ InOrder(t, Head(s).value, high)
    <2>1. low < s[1].value /\ s[1].value <= high
      BY <1>1, <1>5 DEF InOrder
    <2>2. \A i \in DOMAIN t : t[i].kind = "work" => s[1].value < t[i].value
      BY <1>1, <1>2, <1>5 DEF InOrder
    <2>3. QED
      BY <1>1, <1>4, <2>1, <2>2 DEF InOrder
  <1>6. QED
    BY <1>4, <1>5 DEF t

\* What the host has seen of a fence lies between what it had seen and the fence.
LEMMA CompletedBounds ==
  ASSUME TypeInv, FenceInv, NEW q \in Queue
  PROVE  /\ queue[q].completed <= UpdateLastCompletedInstance(q)
         /\ UpdateLastCompletedInstance(q) <= fence[q]
         /\ UpdateLastCompletedInstance(q) \in Nat
         /\ fence[q] = queue[q].submitted => UpdateLastCompletedInstance(q) = fence[q]
  BY DEF UpdateLastCompletedInstance, TypeInv, QueueState, FenceInv

LEMMA FencesKept ==
  ASSUME TypeInv, SoundInv, FenceInv, [Next]_vars
  PROVE  FenceInv'
  <1>0. /\ queue \in [Queue -> QueueState] /\ fence \in [Queue -> Nat]
        /\ work \in [Queue -> Seq(WorkItem \cup WaitItem)]
        /\ \A q \in Queue : queue[q].submitted \in Nat /\ queue[q].completed \in Nat
    BY DEF TypeInv, QueueState
  <1>1. ASSUME UNCHANGED <<work, fence, queue>>
        PROVE  FenceInv'
    BY <1>1 DEF FenceInv
  <1>2. ASSUME NEW q \in Queue, UNCHANGED <<work, fence>>,
               \A p \in Queue :
                 /\ queue'[p].submitted = queue[p].submitted
                 /\ Range(queue'[p].inFlight) \subseteq Range(queue[p].inFlight)
                 /\ queue'[p].completed = IF p = q THEN UpdateLastCompletedInstance(q)
                                          ELSE queue[p].completed
        PROVE  FenceInv'
    BY <1>2, CompletedBounds DEF FenceInv
  <1>3. ASSUME NEW l \in List, ListStep(l)
        PROVE  FenceInv'
    <2>1. CASE Open(l)
      <3> DEFINE q == QueueOf[l]
                 done == UpdateLastCompletedInstance(q)
      <3>1. q \in Queue
        BY SubmissionAssumption
      <3>2. queue' = [queue EXCEPT ![q].completed = done, ![q].recording = @ + 1]
        BY <2>1 DEF Open
      <3>3. UNCHANGED <<work, fence>>
        BY <2>1 DEF Open
      <3> HIDE DEF q
      <3>4. \A p \in Queue :
              /\ queue'[p].submitted = queue[p].submitted
              /\ queue'[p].inFlight = queue[p].inFlight
              /\ queue'[p].completed = IF p = q THEN done ELSE queue[p].completed
        <4> HIDE DEF done
        <4>1. QED
          BY <1>0, <3>1, <3>2 DEF QueueState
      <3>5. QED
        BY <1>2, <3>1, <3>3, <3>4
    <2>2. CASE ~Open(l)
      <3>1. CASE Close(l) \/ DropList(l) \/ \E s \in SUBSET Object : Records(l, s)
        BY <1>1, <3>1 DEF Close, DropList, Records
      <3>2. ASSUME NEW x \in Resource, NEW size \in Nat, NEW a \in Nat \ {0},
                   Write(l, x, size, a)
            PROVE  FenceInv'
        BY <1>1, <3>2 DEF Write
      <3>3. ASSUME NEW kind \in Kinds, NEW size \in Nat, Allocate(l, kind, size)
            PROVE  FenceInv'
        BY <1>1, <3>3 DEF Allocate
      <3>4. QED
        BY <1>3, <2>2, <3>1, <3>2, <3>3 DEF ListStep
    <2>3. QED
      BY <2>1, <2>2
  <1>4. ASSUME NEW q \in Queue, NEW lists \in SUBSET List, ExecuteCommandLists(lists, q)
        PROVE  FenceInv'
    <2>0. PICK n : n = queue[q].submitted + 1
      OBVIOUS
    <2>1. /\ \A p \in Queue \ {q} : queue'[p] = queue[p]
          /\ queue'[q].submitted = n /\ queue'[q].completed = queue[q].completed
          /\ \A f \in Range(queue'[q].inFlight) :
               f \in Range(queue[q].inFlight) \/ f.submitted = n
      BY <1>4, <2>0, ExecutedQueue
    <2>2. PICK item \in WorkItem : /\ work' = [work EXCEPT ![q] = Append(work[q], item)]
                                   /\ IsWork(item, lists, n)
      BY <1>4, <2>0, ExecutedWork
    <2>3. UNCHANGED fence
      BY <1>4 DEF ExecuteCommandLists
    <2>4. InOrder(work'[q], fence[q], n)
      <3>1. InOrder(Append(work[q], item), fence[q], n)
        <4>1. fence[q] <= queue[q].submitted /\ InOrder(work[q], fence[q], queue[q].submitted)
          BY DEF FenceInv
        <4>2. item \in WorkItem \cup WaitItem /\ item.kind = "work"
              /\ item.value = queue[q].submitted + 1
          BY <2>0, <2>2 DEF IsWork
        <4>3. InOrder(Append(work[q], item), fence[q], queue[q].submitted + 1)
          BY <1>0, <4>1, <4>2, InOrderAppended
        <4>4. QED
          BY <2>0, <4>3
      <3>2. QED
        BY <1>0, <2>2, <3>1
    <2>5. \A p \in Queue \ {q} : work'[p] = work[p]
      BY <1>0, <2>2
    <2>6. \A f \in Range(queue[q].inFlight) : f.submitted <= n
      <3>1. \A f \in Range(queue[q].inFlight) : f.submitted \in Nat
        <4>1. queue[q].inFlight \in Seq(Instance)
          BY <1>0 DEF QueueState
        <4>2. \A f \in Range(queue[q].inFlight) : f \in Instance
          BY <4>1 DEF Range
        <4>3. QED
          BY <4>2 DEF Instance
      <3>2. QED
        BY <1>0, <2>0, <3>1 DEF FenceInv
    <2>7. ASSUME NEW p \in Queue
          PROVE  /\ queue'[p].completed <= fence'[p] /\ fence'[p] <= queue'[p].submitted
                 /\ InOrder(work'[p], fence'[p], queue'[p].submitted)
                 /\ \A f \in Range(queue'[p].inFlight) : f.submitted <= queue'[p].submitted
      <3>1. CASE p = q
        <4>1. fence[q] <= n /\ n <= n
          BY <1>0, <2>0 DEF FenceInv
        <4>2. QED
          BY <2>1, <2>3, <2>4, <2>6, <3>1, <4>1 DEF FenceInv
      <3>2. CASE p # q
        BY <2>1, <2>3, <2>5, <3>2 DEF FenceInv
      <3>3. QED
        BY <3>1, <3>2
    <2>8. QED
      BY <2>7 DEF FenceInv
  <1>5. ASSUME NEW q \in Queue, NEW on \in Queue, QueueWaitForCommandList(q, on)
        PROVE  FenceInv'
    <2>1. PICK m \in WaitedInstance(on) :
            work' = [work EXCEPT ![q] =
                       Append(@, [kind |-> "wait", on |-> on, value |-> m])]
      BY <1>5 DEF QueueWaitForCommandList
    <2> DEFINE item == [kind |-> "wait", on |-> on, value |-> m]
    <2>2. item \in WaitItem /\ item.kind # "work"
      BY <1>0, <2>1 DEF WaitedInstance, WaitItem
    <2>3. work' = [work EXCEPT ![q] = Append(work[q], item)]
      BY <1>0, <2>1
    <2> HIDE DEF item
    <2>4. InOrder(Append(work[q], item), fence[q], queue[q].submitted)
      <3>1. fence[q] <= queue[q].submitted /\ InOrder(work[q], fence[q], queue[q].submitted)
        BY DEF FenceInv
      <3>2. QED
        BY <1>0, <2>2, <3>1, InOrderAppended
    <2>5. UNCHANGED <<fence, queue>>
      BY <1>5 DEF QueueWaitForCommandList
    <2>6. \A p \in Queue : InOrder(work'[p], fence[p], queue[p].submitted)
      BY <1>0, <2>3, <2>4 DEF FenceInv
    <2>7. QED
      BY <2>5, <2>6 DEF FenceInv
  <1>6. ASSUME NEW q \in Queue, WaitForQueue(q)
        PROVE  FenceInv'
    <2> DEFINE done == UpdateLastCompletedInstance(q)
    <2>1. queue' = [queue EXCEPT ![q].completed = done] /\ UNCHANGED <<work, fence>>
      BY <1>6 DEF WaitForQueue
    <2>2. \A p \in Queue :
            /\ queue'[p].submitted = queue[p].submitted
            /\ queue'[p].inFlight = queue[p].inFlight
            /\ queue'[p].completed = IF p = q THEN done ELSE queue[p].completed
      <3> HIDE DEF done
      <3>1. QED
        BY <1>0, <2>1 DEF QueueState
    <2>3. QED
      BY <1>2, <2>1, <2>2
  <1>7. ASSUME NEW q \in Queue, GpuStep(q)
        PROVE  FenceInv'
    <2>1. work[q] # <<>> /\ work' = [work EXCEPT ![q] = Tail(@)] /\ UNCHANGED queue
      BY <1>7 DEF GpuStep
    <2>2. /\ Head(work[q]).kind = "work" =>
               /\ fence[q] < Head(work[q]).value /\ Head(work[q]).value <= queue[q].submitted
               /\ InOrder(Tail(work[q]), Head(work[q]).value, queue[q].submitted)
          /\ InOrder(Tail(work[q]), fence[q], queue[q].submitted)
      <3>1. InOrder(work[q], fence[q], queue[q].submitted)
        BY DEF FenceInv
      <3>2. QED
        BY <1>0, <2>1, <3>1, InOrderTail
    <2>3. \/ /\ Head(work[q]).kind = "work"
             /\ fence' = [fence EXCEPT ![q] = Head(work[q]).value]
          \/ UNCHANGED fence
      BY <1>7 DEF GpuStep
    <2>4. Head(work[q]).value \in Nat
      <3>1. Head(work[q]) \in WorkItem \cup WaitItem
        BY <1>0, <2>1, TailRange
      <3>2. QED
        BY <3>1 DEF WorkItem, WaitItem
    <2>5. \A p \in Queue : IF p = q THEN work'[p] = Tail(work[q]) ELSE work'[p] = work[p]
      BY <1>0, <2>1
    <2>6. /\ queue[q].completed <= fence'[q] /\ fence'[q] <= queue[q].submitted
          /\ InOrder(work'[q], fence'[q], queue[q].submitted)
          /\ \A p \in Queue \ {q} : fence'[p] = fence[p]
      <3>1. CASE UNCHANGED fence
        BY <2>2, <2>5, <3>1 DEF FenceInv
      <3>2. CASE /\ Head(work[q]).kind = "work"
                 /\ fence' = [fence EXCEPT ![q] = Head(work[q]).value]
        <4>1. fence'[q] = Head(work[q]).value /\ \A p \in Queue \ {q} : fence'[p] = fence[p]
          BY <1>0, <3>2
        <4>2. queue[q].completed <= fence[q] /\ fence[q] \in Nat
          BY <1>0 DEF FenceInv
        <4>3. work'[q] = Tail(work[q])
          BY <2>5
        <4>4. /\ fence[q] < fence'[q] /\ fence'[q] <= queue[q].submitted
              /\ InOrder(work'[q], fence'[q], queue[q].submitted)
          BY <2>2, <3>2, <4>1, <4>3
        <4>5. queue[q].completed <= fence'[q]
          BY <1>0, <2>4, <4>1, <4>2, <4>4
        <4>6. QED
          BY <4>1, <4>4, <4>5
      <3>3. QED
        BY <2>3, <3>1, <3>2
    <2>7. QED
      BY <2>1, <2>5, <2>6 DEF FenceInv
  <1>8. CASE RunGarbageCollection
    <2>1. \A q \in Queue : Collects(q)
      BY <1>8, CollectedQueue
    <2>2. UNCHANGED <<work, fence>>
      BY <1>8 DEF RunGarbageCollection
    <2>3. QED
      BY <2>1, <2>2, CompletedBounds DEF FenceInv, Collects
  <1>9. CASE UNCHANGED vars
    BY <1>1, <1>9 DEF vars
  <1>10. CASE \/ \E x \in Marked : MarkStep(x)
              \/ WaitForIdle \/ WaitReturns \/ \E x \in Object : Drop(x)
    BY <1>1, <1>10 DEF MarkStep, WaitForFence, SetEventQuery, Poll, ResetQuery,
                       WaitForIdle, WaitReturns, Drop
  <1>11. QED
    BY <1>3, <1>4, <1>5, <1>6, <1>7, <1>8, <1>9, <1>10, NextIsStep DEF Step, QueueStep

-----------------------------------------------------------------------------
\* The work of a queue after a step was there before, or is what the step
\* submits.

LEMMA PendingAhead ==
  ASSUME TypeInv, FenceInv, NEW q \in Queue, NEW i \in WorkOf(q)
  PROVE  /\ i \in WorkItem /\ i.value \in Nat
         /\ fence[q] \in Nat /\ queue[q].submitted \in Nat
         /\ fence[q] < i.value /\ i.value <= queue[q].submitted
  <1>1. work[q] \in Seq(WorkItem \cup WaitItem)
    BY DEF TypeInv
  <1>2. PICK k \in DOMAIN work[q] : work[q][k] = i
    BY DEF WorkOf, Items, Range
  <1>3. i.kind = "work"
    BY DEF WorkOf
  <1>4. i \in WorkItem
    <2>1. i \in WorkItem \cup WaitItem
      BY <1>1, <1>2
    <2>2. QED
      BY <1>3, <2>1 DEF WaitItem
  <1>5. fence[q] < i.value /\ i.value <= queue[q].submitted
    BY <1>2, <1>3 DEF FenceInv, InOrder
  <1>6. i.value \in Nat
    BY <1>4 DEF WorkItem
  <1>7. fence[q] \in Nat /\ queue[q].submitted \in Nat
    BY DEF TypeInv, QueueState
  <1>8. QED
    BY <1>4, <1>5, <1>6, <1>7

LEMMA PendingOrigin ==
  ASSUME TypeInv, [Next]_vars, NEW q \in Queue, NEW i \in (WorkOf(q))'
  PROVE  i \in WorkOf(q) \/ \E lists \in SUBSET List :
                              /\ ExecuteCommandLists(lists, q)
                              /\ IsWork(i, lists, queue[q].submitted + 1)
  <1>0. work \in [Queue -> Seq(WorkItem \cup WaitItem)] /\ i.kind = "work"
        /\ i \in Range(work'[q])
    BY DEF TypeInv, WorkOf, Items
  <1>1. ASSUME Range(work'[q]) \subseteq Range(work[q])
        PROVE  i \in WorkOf(q)
    BY <1>0, <1>1 DEF WorkOf, Items
  <1>2. ASSUME UNCHANGED work
        PROVE  i \in WorkOf(q)
    BY <1>0, <1>2 DEF WorkOf, Items
  <1>3. ASSUME NEW p \in Queue, NEW x \in WorkItem \cup WaitItem,
               work' = [work EXCEPT ![p] = Append(work[p], x)]
        PROVE  i \in WorkOf(q) \/ (p = q /\ i = x)
    <2>1. CASE p = q
      <3>1. work'[q] = Append(work[q], x)
        BY <1>0, <1>3, <2>1
      <3>2. Range(Append(work[q], x)) = Range(work[q]) \cup {x}
        BY <1>0, AppendRange
      <3>3. QED
        BY <1>0, <2>1, <3>1, <3>2 DEF WorkOf, Items
    <2>2. CASE p # q
      <3>1. work'[q] = work[q]
        BY <1>0, <1>3, <2>2
      <3>2. QED
        BY <1>1, <3>1
    <2>3. QED
      BY <2>1, <2>2
  <1>4. ASSUME NEW p \in Queue, NEW lists \in SUBSET List, ExecuteCommandLists(lists, p)
        PROVE  \/ i \in WorkOf(q)
               \/ ExecuteCommandLists(lists, q) /\ IsWork(i, lists, queue[q].submitted + 1)
    <2>0. PICK n : n = queue[p].submitted + 1
      OBVIOUS
    <2>1. PICK item \in WorkItem : /\ work' = [work EXCEPT ![p] = Append(work[p], item)]
                                   /\ IsWork(item, lists, n)
      BY <1>4, <2>0, ExecutedWork
    <2>2. QED
      BY <1>3, <1>4, <2>0, <2>1
  <1>5. ASSUME NEW p \in Queue, NEW on \in Queue, QueueWaitForCommandList(p, on)
        PROVE  i \in WorkOf(q)
    <2>1. PICK m \in WaitedInstance(on) :
            work' = [work EXCEPT ![p] =
                       Append(@, [kind |-> "wait", on |-> on, value |-> m])]
      BY <1>5 DEF QueueWaitForCommandList
    <2> DEFINE item == [kind |-> "wait", on |-> on, value |-> m]
    <2>2. item \in WaitItem /\ item.kind # "work"
      BY <2>1 DEF WaitedInstance, WaitItem, TypeInv, QueueState
    <2>3. work' = [work EXCEPT ![p] = Append(work[p], item)]
      BY <1>0, <2>1
    <2> HIDE DEF item
    <2>4. i \in WorkOf(q) \/ (p = q /\ i = item)
      BY <1>3, <2>2, <2>3
    <2>5. QED
      BY <1>0, <2>2, <2>4
  <1>6. ASSUME NEW p \in Queue, GpuStep(p)
        PROVE  i \in WorkOf(q)
    <2>1. work[p] # <<>> /\ work' = [work EXCEPT ![p] = Tail(@)]
      BY <1>6 DEF GpuStep
    <2>2. Range(Tail(work[p])) \subseteq Range(work[p])
      BY <1>0, <2>1, TailRange
    <2>3. Range(work'[q]) \subseteq Range(work[q])
      BY <1>0, <2>1, <2>2
    <2>4. QED
      BY <1>1, <2>3
  <1>7. ASSUME NEW l \in List, ListStep(l)
        PROVE  i \in WorkOf(q)
    <2>1. CASE Open(l) \/ Close(l) \/ DropList(l) \/ \E s \in SUBSET Object : Records(l, s)
      BY <1>2, <2>1 DEF Open, Close, DropList, Records
    <2>2. ASSUME NEW x \in Resource, NEW size \in Nat, NEW a \in Nat \ {0},
                 Write(l, x, size, a)
          PROVE  i \in WorkOf(q)
      BY <1>2, <2>2 DEF Write
    <2>3. ASSUME NEW kind \in Kinds, NEW size \in Nat, Allocate(l, kind, size)
          PROVE  i \in WorkOf(q)
      BY <1>2, <2>3 DEF Allocate
    <2>4. QED
      BY <1>7, <2>1, <2>2, <2>3 DEF ListStep
  <1>8. CASE \/ UNCHANGED vars \/ \E x \in Marked : MarkStep(x)
             \/ \E p \in Queue : WaitForQueue(p)
             \/ RunGarbageCollection \/ WaitForIdle \/ WaitReturns \/ \E x \in Object : Drop(x)
    BY <1>2, <1>8 DEF vars, MarkStep, WaitForFence, SetEventQuery, Poll, ResetQuery,
                      WaitForQueue, RunGarbageCollection, WaitForIdle, WaitReturns, Drop
  <1>9. QED
    BY <1>4, <1>5, <1>6, <1>7, <1>8, NextIsStep DEF Step, QueueStep

-----------------------------------------------------------------------------
\* The theorems.

LEMMA FencesAtStart ==
  ASSUME Init
  PROVE  FenceInv
  <1>1. \A q \in Queue : /\ queue[q].completed = 0 /\ queue[q].submitted = 0 /\ fence[q] = 0
                         /\ work[q] = <<>> /\ queue[q].inFlight = <<>>
    BY DEF Init
  <1>2. \A q \in Queue : DOMAIN work[q] = {} /\ Range(queue[q].inFlight) = {}
    BY <1>1 DEF Range
  <1>3. QED
    BY <1>1, <1>2 DEF FenceInv, InOrder

BaseInv == TypeInv /\ SoundInv /\ FenceInv

LEMMA BaseAlways ==
  Spec => []BaseInv
  <1>1. Init => BaseInv
    BY BaseAtStart, FencesAtStart DEF BaseInv
  <1>2. BaseInv /\ [Next]_vars => BaseInv'
    BY BaseKept, FencesKept DEF BaseInv
  <1>3. QED
    BY <1>1, <1>2, PTL DEF Spec

\* RunGarbageCollection lets go of every instance when the GPU is idle: what
\* is in flight was submitted, and the fence has reached the last submission.
THEOREM IdleIsCollected ==
  Spec => IdleCollectsAll
  <1>1. ASSUME BaseInv, RunGarbageCollection, NEW q \in Queue,
               fence[q] = queue[q].submitted
        PROVE  queue'[q].inFlight = <<>>
    <2>1. Collects(q)
      BY <1>1, CollectedQueue DEF BaseInv
    <2>2. UpdateLastCompletedInstance(q) = queue[q].submitted
      BY <1>1, CompletedBounds DEF BaseInv
    <2>3. QED
      BY <1>1, <2>1, <2>2 DEF BaseInv, FenceInv, Collects
  <1>2. BaseInv /\ [Next]_vars =>
          [RunGarbageCollection =>
             \A q \in Queue : fence[q] = queue[q].submitted => queue'[q].inFlight = <<>>]_vars
    BY <1>1
  <1>3. QED
    BY <1>2, BaseAlways, PTL DEF Spec, IdleCollectsAll

-----------------------------------------------------------------------------
\* Readback: what a list writes to belongs to its queue, what is pending has
\* its fence on the object, and whoever waits for an object waits for that.

Writes(x) == x \in Readback \/ (x \in Timer /\ mark[x].started)

RecordedOn ==
    \A l \in List : \A x \in list[l].instance.objects \cap Marked : UsedOn[x] = QueueOf[l]
PendingMarked ==
    \A q \in Queue : \A i \in WorkOf(q) : \A x \in i.objects \cap Marked :
      /\ UsedOn[x] = q
      /\ Writes(x) => mark[x].fence /\ mark[x].value >= i.value
WaitsForMark ==
    host.state = "wait" /\ host.object \in Marked =>
      /\ host.queue = UsedOn[host.object]
      /\ host.value = IF mark[host.object].fence THEN mark[host.object].value ELSE 0
ResolvedDone == \A e \in Event : mark[e].resolved => fence[UsedOn[e]] >= mark[e].value

ReadInv == RecordedOn /\ PendingMarked /\ WaitsForMark /\ ResolvedDone

LEMMA ListStepKeeps ==
  ASSUME NEW l \in List, ListStep(l)
  PROVE  host.state = "run" /\ UNCHANGED <<work, fence, held, mark, host, scope>>
  <1>1. CASE Open(l) \/ Close(l) \/ DropList(l) \/ \E s \in SUBSET Object : Records(l, s)
    BY <1>1 DEF Open, Close, DropList, Records, Recording
  <1>2. ASSUME NEW x \in Resource, NEW size \in Nat, NEW a \in Nat \ {0}, Write(l, x, size, a)
        PROVE  host.state = "run" /\ UNCHANGED <<work, fence, held, mark, host, scope>>
    BY <1>2 DEF Write, RoomFor, Recording
  <1>3. ASSUME NEW kind \in Kinds, NEW size \in Nat, Allocate(l, kind, size)
        PROVE  host.state = "run" /\ UNCHANGED <<work, fence, held, mark, host, scope>>
    BY <1>3 DEF Allocate, RoomFor, Recording
  <1>4. QED
    BY <1>1, <1>2, <1>3 DEF ListStep

LEMMA FenceGrows ==
  ASSUME BaseInv, [Next]_vars, NEW q \in Queue
  PROVE  fence[q] <= fence'[q] /\ fence[q] \in Nat /\ fence'[q] \in Nat
  <1>0. fence \in [Queue -> Nat] /\ fence' \in [Queue -> Nat]
    BY BaseKept DEF BaseInv, TypeInv
  <1>1. ASSUME UNCHANGED fence
        PROVE  fence[q] <= fence'[q]
    BY <1>0, <1>1
  <1>2. ASSUME NEW p \in Queue, GpuStep(p)
        PROVE  fence[q] <= fence'[q]
    <2>1. work[p] # <<>> /\ work[p] \in Seq(WorkItem \cup WaitItem)
      BY <1>2 DEF GpuStep, BaseInv, TypeInv
    <2>2. \/ UNCHANGED fence
          \/ /\ Head(work[p]).kind = "work"
             /\ fence' = [fence EXCEPT ![p] = Head(work[p]).value]
      BY <1>2 DEF GpuStep
    <2>3. Head(work[p]).kind = "work" => fence[p] < Head(work[p]).value
      <3>1. InOrder(work[p], fence[p], queue[p].submitted)
        BY DEF BaseInv, FenceInv
      <3>2. queue[p].submitted \in Nat /\ fence[p] \in Nat
        BY DEF BaseInv, TypeInv, QueueState
      <3>3. QED
        BY <2>1, <3>1, <3>2, InOrderTail
    <2>4. ASSUME fence' = [fence EXCEPT ![p] = Head(work[p]).value], Head(work[p]).kind = "work"
          PROVE  fence[q] <= fence'[q]
      <3>1. fence'[q] = IF q = p THEN Head(work[p]).value ELSE fence[q]
        BY <1>0, <2>4
      <3>2. QED
        BY <1>0, <2>3, <2>4, <3>1
    <2>5. QED
      BY <1>1, <2>2, <2>4
  <1>3. ASSUME NEW p \in Queue, NEW lists \in SUBSET List, ExecuteCommandLists(lists, p)
        PROVE  fence[q] <= fence'[q]
    BY <1>1, <1>3 DEF ExecuteCommandLists
  <1>4. ASSUME \/ UNCHANGED vars \/ \E x \in Marked : MarkStep(x)
               \/ \E p \in Queue : WaitForQueue(p)
               \/ \E p, on \in Queue : QueueWaitForCommandList(p, on)
               \/ \E l \in List : ListStep(l)
               \/ RunGarbageCollection \/ WaitForIdle \/ WaitReturns
               \/ \E x \in Object : Drop(x)
        PROVE  fence[q] <= fence'[q]
    BY <1>1, <1>4, ListStepKeeps
       DEF vars, MarkStep, WaitForFence, SetEventQuery, Poll, ResetQuery,
           QueueWaitForCommandList,
           WaitForQueue, RunGarbageCollection, WaitForIdle, WaitReturns, Drop
  <1>5. fence[q] <= fence'[q]
    BY <1>2, <1>3, <1>4, NextIsStep DEF Step, QueueStep, BaseInv
  <1>6. QED
    BY <1>0, <1>5

LEMMA RecordedOnKept ==
  ASSUME BaseInv, RecordedOn, [Next]_vars
  PROVE  RecordedOn'
  <1>0. \A l \in List : list[l] \in ListState
    BY DEF BaseInv, TypeInv
  <1>1. ASSUME UNCHANGED list
        PROVE  RecordedOn'
    BY <1>1 DEF RecordedOn
  <1>2. ASSUME NEW l \in List, Others(l),
               \A x \in list'[l].instance.objects \cap Marked :
                 x \in list[l].instance.objects \/ UsedOn[x] = QueueOf[l]
        PROVE  RecordedOn'
    BY <1>2 DEF RecordedOn, Others
  <1>3. ASSUME NEW l \in List, ListStep(l)
        PROVE  RecordedOn'
    <2>1. CASE Open(l) \/ DropList(l)
      <3>1. Others(l) /\ list'[l].instance = EmptyInstance
        BY <2>1, OpenList, DroppedList DEF BaseInv
      <3>2. QED
        BY <1>2, <3>1, EmptyRecorder
    <2>2. CASE Close(l)
      <3>1. Others(l) /\ list'[l].instance = list[l].instance
        BY <2>2, CloseList DEF BaseInv
      <3>2. QED
        BY <1>2, <3>1
    <2>3. ASSUME NEW s \in SUBSET Object, Records(l, s)
          PROVE  RecordedOn'
      <3>1. Others(l) /\ list'[l].instance.objects = list[l].instance.objects \cup s
        BY <2>3, RecordsList DEF BaseInv
      <3>2. QED
        BY <1>2, <2>3, <3>1 DEF Records
    <2>4. ASSUME NEW x \in Resource, NEW size \in Nat, NEW a \in Nat \ {0},
                 Write(l, x, size, a)
          PROVE  RecordedOn'
      <3>1. /\ Others(l)
            /\ list'[l].instance.objects = list[l].instance.objects \cup {x}
        BY <2>4, WriteList DEF BaseInv, TakesPiece
      <3>2. x \notin Marked
        BY SubmissionAssumption DEF Marked
      <3>3. QED
        BY <1>2, <3>1, <3>2
    <2>5. ASSUME NEW kind \in Kinds, NEW size \in Nat, Allocate(l, kind, size)
          PROVE  RecordedOn'
      <3>1. Others(l) /\ list'[l].instance.objects = list[l].instance.objects
        BY <2>5, AllocateList DEF BaseInv, TakesPiece
      <3>2. QED
        BY <1>2, <3>1
    <2>6. QED
      BY <1>3, <2>1, <2>2, <2>3, <2>4, <2>5 DEF ListStep
  <1>4. ASSUME NEW q \in Queue, NEW lists \in SUBSET List, ExecuteCommandLists(lists, q)
        PROVE  RecordedOn'
    <2>0. PICK n : n = queue[q].submitted + 1
      OBVIOUS
    <2>1. /\ \A k \in List \ lists : list'[k] = list[k]
          /\ \A k \in lists : IsExecuted(k, q, n)
      BY <1>4, <2>0, ExecutedList DEF BaseInv
    <2>2. \A k \in lists : list'[k].instance.objects = {}
      BY <2>1, EmptyRecorder DEF IsExecuted
    <2>3. QED
      BY <2>1, <2>2 DEF RecordedOn
  <1>5. CASE \/ UNCHANGED vars \/ \E x \in Marked : MarkStep(x)
             \/ \E p \in Queue : WaitForQueue(p) \/ GpuStep(p)
             \/ \E p, on \in Queue : QueueWaitForCommandList(p, on)
             \/ RunGarbageCollection \/ WaitForIdle \/ WaitReturns \/ \E x \in Object : Drop(x)
    BY <1>1, <1>5 DEF vars, MarkStep, WaitForFence, SetEventQuery, Poll, ResetQuery,
                      QueueWaitForCommandList, GpuStep,
                      WaitForQueue, RunGarbageCollection, WaitForIdle, WaitReturns, Drop
  <1>6. QED
    BY <1>3, <1>4, <1>5, NextIsStep DEF Step, QueueStep, BaseInv

LEMMA PendingMarkedKept ==
  ASSUME BaseInv, ReadInv, [Next]_vars
  PROVE  PendingMarked'
  <1>0. /\ mark \in [Marked -> Mark] /\ mark' \in [Marked -> Mark]
        /\ \A q \in Queue : queue[q].submitted \in Nat /\ fence[q] \in Nat
    BY BaseKept DEF BaseInv, TypeInv, QueueState
  <1> SUFFICES ASSUME NEW q \in Queue, NEW i \in (WorkOf(q))', NEW x \in i.objects \cap Marked
               PROVE  /\ UsedOn[x] = q
                      /\ Writes(x)' => mark'[x].fence /\ mark'[x].value >= i.value
    BY DEF PendingMarked
  <1>1. ASSUME NEW lists \in SUBSET List, NEW p \in Queue, ExecuteCommandLists(lists, p),
               NEW l \in lists, x \in list[l].instance.objects
        PROVE  /\ UsedOn[x] = p
               /\ mark'[x].fence /\ mark'[x].value = queue[p].submitted + 1
    <2>1. QueueOf[l] = p /\ UsedOn[x] = p
      BY <1>1 DEF ExecuteCommandLists, ReadInv, RecordedOn
    <2>2. x \in UNION {list[k].instance.objects : k \in lists}
      BY <1>1
    <2>3. mark'[x] = MarkExecuted(x, queue[p].submitted + 1)
      BY <1>0, <1>1, <2>2 DEF ExecuteCommandLists
    <2>4. QED
      BY <2>1, <2>3 DEF MarkExecuted
  <1>2. ASSUME NEW lists \in SUBSET List, ExecuteCommandLists(lists, q),
               IsWork(i, lists, queue[q].submitted + 1)
        PROVE  /\ UsedOn[x] = q
               /\ Writes(x)' => mark'[x].fence /\ mark'[x].value >= i.value
    <2>1. /\ i.value = queue[q].submitted + 1
          /\ i.objects = UNION {list[k].instance.objects : k \in lists}
      BY <1>2 DEF IsWork
    <2>2. PICK l \in lists : x \in list[l].instance.objects
      BY <2>1
    <2>3. QED
      BY <1>0, <1>1, <1>2, <2>1, <2>2
  <1>3. ASSUME i \in WorkOf(q)
        PROVE  /\ UsedOn[x] = q
               /\ Writes(x)' => mark'[x].fence /\ mark'[x].value >= i.value
    <2>1. /\ UsedOn[x] = q
          /\ Writes(x) => mark[x].fence /\ mark[x].value >= i.value
      BY <1>3 DEF ReadInv, PendingMarked
    <2>2. /\ i.value \in Nat /\ fence[q] < i.value /\ i.value <= queue[q].submitted
          /\ mark[x] \in Mark
      BY <1>0, <1>3, PendingAhead DEF BaseInv
    <2>3. ASSUME mark'[x] = mark[x]
          PROVE  Writes(x)' => mark'[x].fence /\ mark'[x].value >= i.value
      BY <2>1, <2>3 DEF Writes
    <2>4. ASSUME NEW lists \in SUBSET List, NEW p \in Queue, ExecuteCommandLists(lists, p)
          PROVE  Writes(x)' => mark'[x].fence /\ mark'[x].value >= i.value
      <3>1. CASE \E l \in lists : x \in list[l].instance.objects
        BY <1>0, <1>1, <2>1, <2>2, <2>4, <3>1
      <3>2. CASE ~\E l \in lists : x \in list[l].instance.objects
        <4>1. x \notin UNION {list[k].instance.objects : k \in lists}
          BY <3>2
        <4>2. mark'[x] = mark[x]
          BY <1>0, <2>4, <4>1 DEF ExecuteCommandLists
        <4>3. QED
          BY <2>3, <4>2
      <3>3. QED
        BY <3>1, <3>2
    <2>5. ASSUME NEW y \in Marked, MarkStep(y)
          PROVE  Writes(x)' => mark'[x].fence /\ mark'[x].value >= i.value
      <3>1. CASE WaitForFence(y)
        BY <2>3, <3>1 DEF WaitForFence
      <3>2. CASE y # x
        <4>1. mark'[x] = mark[x]
          BY <1>0, <2>5, <3>2 DEF MarkStep, WaitForFence, SetEventQuery, Poll, ResetQuery
        <4>2. QED
          BY <2>3, <4>1
      <3>3. ASSUME y = x, y \in Event
            PROVE  Writes(x)' => mark'[x].fence /\ mark'[x].value >= i.value
        BY <3>3, SubmissionAssumption DEF Writes
      <3>4. ASSUME y = x, y \in Timer, NEW resolved \in BOOLEAN, Poll(y, resolved)
            PROVE  Writes(x)' => mark'[x].fence /\ mark'[x].value >= i.value
        <4>1. Writes(x) /\ fence[q] >= mark[x].value /\ mark[x].value \in Nat
          BY <2>1, <2>2, <3>4 DEF Poll, Writes, Mark
        <4>2. QED
          BY <1>0, <2>1, <2>2, <4>1
      <3>5. ASSUME y = x, y \in Timer, ResetQuery(y)
            PROVE  Writes(x)' => mark'[x].fence /\ mark'[x].value >= i.value
        <4>1. ~mark'[x].started /\ x \notin Readback
          BY <1>0, <2>2, <3>5, SubmissionAssumption DEF ResetQuery, Mark
        <4>2. QED
          BY <4>1 DEF Writes
      <3>6. QED
        BY <2>5, <3>1, <3>2, <3>3, <3>4, <3>5 DEF MarkStep
    <2>6. ASSUME WaitReturns
          PROVE  Writes(x)' => mark'[x].fence /\ mark'[x].value >= i.value
      <3>1. CASE mark'[x] = mark[x]
        BY <2>3, <3>1
      <3>2. CASE mark'[x] # mark[x]
        <4>1. /\ host.state = "wait" /\ fence[host.queue] >= host.value
              /\ mark' = [mark EXCEPT ![host.object].fence = FALSE,
                                      ![host.object].resolved = host.object \in Timer]
          BY <2>6, <3>2 DEF WaitReturns
        <4>2. host.object = x
          BY <1>0, <3>2, <4>1
        <4>3. host.queue = q /\ (mark[x].fence => fence[q] >= mark[x].value)
          BY <2>1, <4>1, <4>2 DEF ReadInv, WaitsForMark
        <4>4. ~Writes(x)
          BY <1>0, <2>1, <2>2, <4>3 DEF Mark
        <4>5. mark'[x].started = mark[x].started
          BY <1>0, <2>2, <4>1, <4>2 DEF Mark
        <4>6. QED
          BY <4>4, <4>5 DEF Writes
      <3>3. QED
        BY <3>1, <3>2
    <2>7. ASSUME \/ UNCHANGED vars \/ \E p \in Queue : WaitForQueue(p) \/ GpuStep(p)
                 \/ \E p, on \in Queue : QueueWaitForCommandList(p, on)
                 \/ \E l \in List : ListStep(l)
                 \/ RunGarbageCollection \/ WaitForIdle \/ \E y \in Object : Drop(y)
          PROVE  Writes(x)' => mark'[x].fence /\ mark'[x].value >= i.value
      BY <2>3, <2>7, ListStepKeeps DEF vars, WaitForQueue, GpuStep, QueueWaitForCommandList,
           RunGarbageCollection, WaitForIdle, Drop
    <2>8. Writes(x)' => mark'[x].fence /\ mark'[x].value >= i.value
      BY <2>4, <2>5, <2>6, <2>7, NextIsStep DEF Step, QueueStep, BaseInv
    <2>9. QED
      BY <2>1, <2>8
  <1>4. QED
    BY <1>2, <1>3, PendingOrigin DEF BaseInv

LEMMA WaitsForMarkKept ==
  ASSUME BaseInv, WaitsForMark, [Next]_vars
  PROVE  WaitsForMark'
  <1>0. host \in Host /\ None \notin Marked
    BY SubmissionAssumption DEF BaseInv, TypeInv, Marked, Object
  <1>1. ASSUME host.state # "wait" \/ UNCHANGED mark, UNCHANGED host
        PROVE  WaitsForMark'
    BY <1>1 DEF WaitsForMark
  <1>2. ASSUME host'.state # "wait" \/ host'.object \notin Marked
        PROVE  WaitsForMark'
    BY <1>2 DEF WaitsForMark
  <1>3. ASSUME NEW x \in Marked, MarkStep(x)
        PROVE  WaitsForMark'
    <2>1. CASE WaitForFence(x)
      <3>1. host' = Blocked(UsedOn[x], IF mark[x].fence THEN mark[x].value ELSE 0, x)
            /\ mark' = mark
        BY <2>1 DEF WaitForFence
      <3>2. QED
        BY <3>1 DEF WaitsForMark, Blocked
    <2>2. CASE ~WaitForFence(x)
      <3>1. host.state = "run" /\ UNCHANGED host
        BY <1>3, <2>2 DEF MarkStep, SetEventQuery, Poll, ResetQuery
      <3>2. QED
        BY <1>1, <3>1
    <2>3. QED
      BY <2>1, <2>2
  <1>4. ASSUME NEW q \in Queue, WaitForQueue(q)
        PROVE  WaitsForMark'
    <2>1. \/ host'.object = None
          \/ host' = Running
          \/ host.state = "idle" /\ host' = [host EXCEPT !.left = Tail(host.left)]
      BY <1>4 DEF WaitForQueue, Blocked
    <2>2. host'.object = None \/ host'.state # "wait"
      BY <1>0, <2>1 DEF Running, Host
    <2>3. QED
      BY <1>0, <1>2, <2>2
  <1>5. ASSUME WaitForIdle \/ WaitReturns
        PROVE  WaitsForMark'
    <2>1. \/ host' = [Running EXCEPT !.state = "idle", !.left = Queues] \/ host' = Running
          \/ host' = [host EXCEPT !.state = "idle"]
      BY <1>5 DEF WaitForIdle, WaitReturns
    <2>3. Running \in Host /\ Running.state = "run"
      BY SubmissionAssumption DEF Running, Host, Queue
    <2>4. host'.state # "wait"
      BY <1>0, <2>1, <2>3 DEF Host
    <2>2. QED
      BY <1>2, <2>4
  <1>6. ASSUME NEW lists \in SUBSET List, NEW q \in Queue, ExecuteCommandLists(lists, q)
        PROVE  WaitsForMark'
    BY <1>1, <1>6 DEF ExecuteCommandLists
  <1>7. ASSUME \/ UNCHANGED vars \/ \E q \in Queue : GpuStep(q)
               \/ \E q, on \in Queue : QueueWaitForCommandList(q, on)
               \/ \E l \in List : ListStep(l)
               \/ RunGarbageCollection \/ \E x \in Object : Drop(x)
        PROVE  WaitsForMark'
    BY <1>1, <1>7, ListStepKeeps DEF vars, GpuStep, QueueWaitForCommandList,
         RunGarbageCollection, Drop
  <1>8. QED
    BY <1>3, <1>4, <1>5, <1>6, <1>7, NextIsStep DEF Step, QueueStep, BaseInv

LEMMA ResolvedDoneKept ==
  ASSUME BaseInv, ResolvedDone, [Next]_vars
  PROVE  ResolvedDone'
  <1>0. mark \in [Marked -> Mark] /\ mark' \in [Marked -> Mark] /\ Event \subseteq Marked
    BY BaseKept DEF BaseInv, TypeInv, Marked
  <1> SUFFICES ASSUME NEW e \in Event, mark'[e].resolved
               PROVE  fence'[UsedOn[e]] >= mark'[e].value
    BY DEF ResolvedDone
  <1>1. UsedOn[e] \in Queue
    BY SubmissionAssumption DEF Readback
  <1>2. /\ fence[UsedOn[e]] <= fence'[UsedOn[e]]
        /\ fence[UsedOn[e]] \in Nat /\ fence'[UsedOn[e]] \in Nat
    BY <1>1, FenceGrows
  <1>3. mark[e] \in Mark /\ mark'[e] \in Mark /\ mark[e].value \in Nat
    BY <1>0 DEF Mark
  <1>4. ASSUME mark'[e] = mark[e]
        PROVE  fence'[UsedOn[e]] >= mark'[e].value
    <2>1. fence[UsedOn[e]] >= mark[e].value
      BY <1>4 DEF ResolvedDone
    <2>2. QED
      BY <1>2, <1>3, <1>4, <2>1
  <1>5. ASSUME NEW lists \in SUBSET List, NEW q \in Queue, ExecuteCommandLists(lists, q)
        PROVE  mark'[e] = mark[e]
    <2>1. mark'[e] = mark[e] \/ mark'[e] = MarkExecuted(e, queue[q].submitted + 1)
      BY <1>0, <1>5 DEF ExecuteCommandLists
    <2>2. QED
      BY <2>1 DEF MarkExecuted
  <1>6. ASSUME NEW y \in Marked, MarkStep(y)
        PROVE  mark'[e] = mark[e] \/ fence'[UsedOn[e]] >= mark'[e].value
    <2>1. CASE WaitForFence(y) \/ y # e
      BY <1>0, <1>6, <2>1 DEF MarkStep, WaitForFence, SetEventQuery, Poll, ResetQuery
    <2>2. ASSUME y = e, SetEventQuery(y) \/ ResetQuery(y)
          PROVE  FALSE
      <3>1. CASE SetEventQuery(y)
        BY <1>0, <2>2, <3>1 DEF SetEventQuery
      <3>2. CASE ResetQuery(y)
        <4>1. mark'[e] = [mark[e] EXCEPT !.started = FALSE, !.resolved = FALSE, !.fence = FALSE]
          BY <1>0, <2>2, <3>2 DEF ResetQuery
        <4>2. QED
          BY <1>3, <4>1 DEF Mark
      <3>3. QED
        BY <2>2, <3>1, <3>2
    <2>3. ASSUME y = e, NEW resolved \in BOOLEAN, Poll(y, resolved)
          PROVE  fence'[UsedOn[e]] >= mark'[e].value
      <3>1. mark'[e].value = mark[e].value /\ fence[UsedOn[e]] >= mark[e].value
        BY <1>0, <1>3, <2>3 DEF Poll, Mark
      <3>2. QED
        BY <1>2, <1>3, <3>1
    <2>4. QED
      BY <1>6, <2>1, <2>2, <2>3 DEF MarkStep
  <1>7. ASSUME WaitReturns
        PROVE  mark'[e] = mark[e]
    <2>1. e \notin Readback \cup Timer
      BY SubmissionAssumption
    <2>2. QED
      BY <1>0, <1>7, <2>1 DEF WaitReturns
  <1>8. ASSUME \/ UNCHANGED vars \/ \E p \in Queue : WaitForQueue(p) \/ GpuStep(p)
               \/ \E p, on \in Queue : QueueWaitForCommandList(p, on)
               \/ \E l \in List : ListStep(l)
               \/ RunGarbageCollection \/ WaitForIdle \/ \E y \in Object : Drop(y)
        PROVE  mark'[e] = mark[e]
    BY <1>8, ListStepKeeps DEF vars, WaitForQueue, GpuStep, QueueWaitForCommandList,
         RunGarbageCollection, WaitForIdle, Drop
  <1>9. QED
    BY <1>4, <1>5, <1>6, <1>7, <1>8, NextIsStep DEF Step, QueueStep, BaseInv

LEMMA ReadAlways ==
  Spec => [](BaseInv /\ ReadInv)
  <1>1. ASSUME Init
        PROVE  ReadInv
    <2>1. \A l \in List : list[l].instance.objects = {}
      BY <1>1, EmptyRecorder DEF Init, NewList
    <2>2. \A q \in Queue : work[q] = <<>>
      BY <1>1 DEF Init
    <2>3. \A q \in Queue : WorkOf(q) = {}
      BY <2>2 DEF WorkOf, Items, Range
    <2>4. host.state # "wait" /\ \A e \in Event : ~mark[e].resolved
      BY <1>1 DEF Init, Running
    <2>5. QED
      BY <2>1, <2>3, <2>4 DEF ReadInv, RecordedOn, PendingMarked, WaitsForMark, ResolvedDone
  <1>2. BaseInv /\ ReadInv /\ [Next]_vars => ReadInv'
    BY RecordedOnKept, PendingMarkedKept, WaitsForMarkKept, ResolvedDoneKept DEF ReadInv
  <1>3. QED
    BY <1>1, <1>2, BaseAlways, PTL DEF Spec

\* What is read without waiting for a fence -- a staging resource, a timer, a
\* resolved event -- is not written by anything that is still pending.
THEOREM ReadbackIsFinished ==
  Spec => []ReadbackFinished
  <1>1. BaseInv /\ ReadInv => ReadbackFinished
    <2> SUFFICES ASSUME BaseInv, ReadInv, NEW x \in Marked
                 PROVE  /\ (IF x \in Timer THEN mark[x].started /\ ~mark[x].fence
                            ELSE x \in Readback /\ ~mark[x].fence)
                             => \A i \in WorkOf(UsedOn[x]) : x \notin i.objects
                        /\ x \in Event /\ mark[x].resolved
                             => \A i \in WorkOf(UsedOn[x]) : i.value > mark[x].value
      BY DEF ReadbackFinished, WorkOf, BaseInv, TypeInv
    <2>1. UsedOn[x] \in Queue /\ mark[x] \in Mark
      BY SubmissionAssumption DEF Marked, BaseInv, TypeInv
    <2>2. \A i \in WorkOf(UsedOn[x]) : x \in i.objects /\ Writes(x) => mark[x].fence
      BY <2>1 DEF ReadInv, PendingMarked
    <2>3. ASSUME x \in Event, mark[x].resolved, NEW i \in WorkOf(UsedOn[x])
          PROVE  i.value > mark[x].value
      <3>1. fence[UsedOn[x]] >= mark[x].value /\ mark[x].value \in Nat
        BY <2>1, <2>3 DEF ReadInv, ResolvedDone, Mark
      <3>2. QED
        BY <2>1, <3>1, PendingAhead DEF BaseInv
    <2>4. QED
      BY <2>2, <2>3 DEF Writes
  <1>2. QED
    BY <1>1, ReadAlways, PTL

-----------------------------------------------------------------------------
\* What is kept: an instance in flight holds what a pending submission uses,
\* and the allocators a list may take are not those of its pending ones.

\* The allocators of the pool are apart from each other and from the one in use.
PoolApart(l) ==
    /\ \A i, j \in DOMAIN list[l].pool :
         i # j => list[l].pool[i].allocator # list[l].pool[j].allocator
    /\ \A i \in DOMAIN list[l].pool : /\ list[l].pool[i].allocator > 0
                                      /\ list[l].pool[i].allocator # list[l].active
ListOwns(l) ==
    /\ list[l].state \in {"open", "closed"} <=> list[l].active > 0
    /\ list[l].state # "open" => list[l].uploadBuffer = None
    /\ list[l].uploadBuffer # None => list[l].uploadBuffer \in list[l].instance.chunks
RegionsOwned(l) ==
    \A r \in list[l].instance.regions :
      r.list = l /\ (r.written => r.chunk \in list[l].instance.chunks)
ListKept(l) == PoolApart(l) /\ ListOwns(l) /\ RegionsOwned(l)

Holds(f, i) == f.submitted = i.value
ItemKept(q, i) ==
    /\ \A x \in i.objects : \E f \in Range(queue[q].inFlight) : Holds(f, i) /\ x \in f.objects
    /\ \A r \in i.regions :
         /\ QueueOf[r.list] = q
         /\ r.written => \E f \in Range(queue[q].inFlight) :
                           Holds(f, i) /\ f.list = r.list /\ r.chunk \in f.chunks
    /\ \A a \in i.allocators :
         /\ QueueOf[a[1]] = q
         /\ list[a[1]].state # "gone" =>
              \E p \in Range(list[a[1]].pool) : p.allocator = a[2] /\ p.submitted = i.value
ItemsKept == \A q \in Queue : \A i \in WorkOf(q) : ItemKept(q, i)

KeptInv == (\A l \in List : ListKept(l)) /\ ItemsKept

LEMMA SameList ==
  ASSUME NEW l \in List, list'[l] = list[l], ListKept(l)
  PROVE  ListKept(l)'
  BY DEF ListKept, PoolApart, ListOwns, RegionsOwned

LEMMA OpenKept ==
  ASSUME BaseInv, NEW l \in List, ListKept(l), Open(l)
  PROVE  ListKept(l)'
  <1>0. list[l] \in ListState /\ list[l].pool \in Seq(Allocator)
    BY DEF BaseInv, TypeInv, ListState
  <1>1. PICK done : done = UpdateLastCompletedInstance(QueueOf[l])
    OBVIOUS
  <1>2. /\ list[l].state # "open" /\ list'[l].state = "open"
        /\ list'[l].instance = EmptyInstance
        /\ list'[l].uploadBuffer = list[l].uploadBuffer
        /\ IF PoolReady(l, done)
           THEN /\ list'[l].active = Head(list[l].pool).allocator
                /\ list'[l].pool = Tail(list[l].pool)
           ELSE list'[l].active = NewAllocator(l) /\ list'[l].pool = list[l].pool
    BY <1>1, OpenList DEF BaseInv, Open
  <1>3. PoolApart(l)' /\ list'[l].active > 0
    <2>1. CASE PoolReady(l, done)
      <3>1. list[l].pool # <<>>
        BY <2>1 DEF PoolReady
      <3>2. /\ Len(list'[l].pool) = Len(list[l].pool) - 1 /\ list'[l].pool \in Seq(Allocator)
            /\ \A i \in 1 .. Len(list[l].pool) - 1 : list'[l].pool[i] = list[l].pool[i + 1]
        BY <1>0, <1>2, <2>1, <3>1, TailRange
      <3>3. list'[l].active = list[l].pool[1].allocator /\ 1 \in DOMAIN list[l].pool
        BY <1>0, <1>2, <2>1, <3>1
      <3>4. \A i \in DOMAIN list'[l].pool :
              /\ i + 1 \in DOMAIN list[l].pool /\ i + 1 # 1
              /\ list'[l].pool[i] = list[l].pool[i + 1]
        <4>1. /\ Len(list[l].pool) \in Nat /\ DOMAIN list[l].pool = 1 .. Len(list[l].pool)
              /\ DOMAIN list'[l].pool = 1 .. Len(list[l].pool) - 1
          BY <1>0, <3>2
        <4>2. QED
          BY <3>2, <4>1
      <3>5. \A i, j \in DOMAIN list'[l].pool : i # j => i + 1 # j + 1
        BY <3>2
      <3>6. QED
        BY <3>3, <3>4, <3>5 DEF ListKept, PoolApart
    <2>2. CASE ~PoolReady(l, done)
      <3>1. list'[l].active = NewAllocator(l) /\ list'[l].pool = list[l].pool
        BY <1>2, <2>2
      <3>2. /\ NewAllocator(l) \in Nat \ {0}
            /\ \A i \in DOMAIN list[l].pool : list[l].pool[i].allocator # NewAllocator(l)
        BY NewAllocatorFree DEF BaseInv
      <3>3. QED
        BY <3>1, <3>2 DEF ListKept, PoolApart
    <2>3. QED
      BY <2>1, <2>2
  <1>4. QED
    BY <1>2, <1>3, EmptyRecorder DEF ListKept, ListOwns, RegionsOwned

LEMMA ListsKept ==
  ASSUME BaseInv, \A l \in List : ListKept(l), [Next]_vars
  PROVE  \A l \in List : ListKept(l)'
  <1>0. \A l \in List : list[l] \in ListState
    BY DEF BaseInv, TypeInv
  <1>1. ASSUME UNCHANGED list
        PROVE  \A l \in List : ListKept(l)'
    BY <1>1, SameList
  <1>2. ASSUME NEW l \in List, ListStep(l)
        PROVE  \A k \in List : ListKept(k)'
    <2>1. ASSUME Others(l), ListKept(l)'
          PROVE  \A k \in List : ListKept(k)'
      BY <2>1, SameList DEF Others
    <2>2. CASE Open(l)
      BY <2>1, <2>2, OpenKept, OpenList DEF BaseInv
    <2>3. CASE Close(l)
      <3>0. /\ list[l].state = "open" /\ list'[l].state = "closed"
            /\ list'[l].uploadBuffer = None /\ list'[l].instance = list[l].instance
            /\ list'[l].active = list[l].active /\ list'[l].pool = list[l].pool
        BY <2>3, CloseList DEF BaseInv, Close
      <3>1. ListKept(l)'
        BY <3>0 DEF ListKept, PoolApart, ListOwns, RegionsOwned
      <3>2. QED
        BY <2>1, <2>3, <3>1, CloseList DEF BaseInv
    <2>4. CASE DropList(l)
      <3>0. /\ list'[l].state = "gone" /\ list'[l].uploadBuffer = None
            /\ list'[l].instance = EmptyInstance
            /\ list'[l].active = 0 /\ list'[l].pool = <<>>
        BY <2>4, DroppedList DEF BaseInv
      <3>1. PoolApart(l)' /\ ListOwns(l)' /\ RegionsOwned(l)'
        BY <3>0, EmptyRecorder DEF PoolApart, ListOwns, RegionsOwned
      <3>2. QED
        BY <2>1, <2>4, <3>1, DroppedList DEF BaseInv, ListKept
    <2>5. ASSUME NEW s \in SUBSET Object, Records(l, s)
          PROVE  \A k \in List : ListKept(k)'
      <3>0. /\ list'[l].state = list[l].state /\ list'[l].uploadBuffer = list[l].uploadBuffer
            /\ list'[l].instance.chunks = list[l].instance.chunks
            /\ list'[l].instance.regions = list[l].instance.regions
            /\ list'[l].active = list[l].active /\ list'[l].pool = list[l].pool
        BY <2>5, RecordsList DEF BaseInv
      <3>1. ListKept(l)'
        BY <3>0 DEF ListKept, PoolApart, ListOwns, RegionsOwned
      <3>2. QED
        BY <2>1, <2>5, <3>1, RecordsList DEF BaseInv
    <2>6. ASSUME NEW x \in Resource, NEW size \in Nat, NEW a \in Nat \ {0},
                 Write(l, x, size, a)
          PROVE  \A k \in List : ListKept(k)'
      <3>1. PICK at \in Nat :
              /\ TakesPiece(l, "upload", at, size, TRUE)
              /\ list'[l].upload.current.id \in Nat
              /\ list'[l].uploadBuffer = list'[l].upload.current.id
              /\ list'[l].instance.chunks =
                   IF list'[l].uploadBuffer = list[l].uploadBuffer THEN list[l].instance.chunks
                   ELSE list[l].instance.chunks \cup {list'[l].uploadBuffer}
        BY <2>6, WriteList DEF BaseInv
      <3>2. /\ Others(l) /\ list[l].state = "open" /\ list'[l].state = "open"
            /\ list'[l].active = list[l].active /\ list'[l].pool = list[l].pool
        BY <3>1 DEF TakesPiece, Recording
      <3> DEFINE r0 == Region(l, "upload", list'[l].upload.current, at, size, TRUE)
      <3>3. /\ list'[l].instance.regions = list[l].instance.regions \cup {r0}
            /\ r0.list = l /\ r0.chunk = list'[l].uploadBuffer
        <4>1. list'[l].instance.regions = list[l].instance.regions \cup
                {Region(l, "upload", list'[l]["upload"].current, at, size, TRUE)}
          BY <3>1 DEF TakesPiece
        <4>2. r0.list = l /\ r0.chunk = list'[l].upload.current.id
          BY DEF Region
        <4>3. QED
          BY <3>1, <4>1, <4>2
      <3> HIDE DEF r0
      <3>4. list'[l].uploadBuffer \in Nat /\ list'[l].uploadBuffer # None
        BY <3>1, SubmissionAssumption
      <3>5. /\ list'[l].uploadBuffer \in list'[l].instance.chunks
            /\ list[l].instance.chunks \subseteq list'[l].instance.chunks
        BY <3>1, <3>4 DEF ListKept, ListOwns
      <3>6. RegionsOwned(l)'
        BY <3>3, <3>5 DEF ListKept, RegionsOwned
      <3>7. PoolApart(l)' /\ ListOwns(l)'
        BY <3>2, <3>5 DEF ListKept, PoolApart, ListOwns
      <3>8. QED
        BY <2>1, <3>2, <3>6, <3>7 DEF ListKept
    <2>7. ASSUME NEW kind \in Kinds, NEW size \in Nat, Allocate(l, kind, size)
          PROVE  \A k \in List : ListKept(k)'
      <3>1. PICK at \in Nat \cup {-1} :
              /\ TakesPiece(l, kind, at, size, FALSE)
              /\ list'[l].uploadBuffer = list[l].uploadBuffer
              /\ list'[l].instance.chunks = list[l].instance.chunks
        BY <2>7, AllocateList DEF BaseInv
      <3>2. /\ Others(l) /\ list'[l].state = list[l].state
            /\ list'[l].active = list[l].active /\ list'[l].pool = list[l].pool
        BY <3>1 DEF TakesPiece
      <3>3. \A r \in list'[l].instance.regions :
              r \in list[l].instance.regions \/ (r.list = l /\ ~r.written)
        BY <3>1 DEF TakesPiece, Region
      <3>4. RegionsOwned(l)'
        BY <3>1, <3>3 DEF ListKept, RegionsOwned
      <3>5. PoolApart(l)' /\ ListOwns(l)'
        BY <3>1, <3>2 DEF ListKept, PoolApart, ListOwns
      <3>6. QED
        BY <2>1, <3>2, <3>4, <3>5 DEF ListKept
    <2>8. QED
      BY <1>2, <2>2, <2>3, <2>4, <2>5, <2>6, <2>7 DEF ListStep
  <1>3. ASSUME NEW q \in Queue, NEW lists \in SUBSET List, ExecuteCommandLists(lists, q)
        PROVE  \A l \in List : ListKept(l)'
    <2>0. PICK n : n = queue[q].submitted + 1
      OBVIOUS
    <2>1. /\ n \in Nat /\ \A k \in List \ lists : list'[k] = list[k]
          /\ \A k \in lists : IsExecuted(k, q, n)
      BY <1>3, <2>0, ExecutedList DEF BaseInv
    <2>2. ASSUME NEW l \in lists
          PROVE  ListKept(l)'
      <3> DEFINE e == [allocator |-> list[l].active, submitted |-> n]
      <3>1. /\ list[l].state = "closed" /\ list'[l].state = "idle"
            /\ list'[l].instance = EmptyInstance /\ list'[l].active = 0
            /\ list'[l].pool = Append(list[l].pool, e)
            /\ list'[l].uploadBuffer = list[l].uploadBuffer
        BY <2>1 DEF IsExecuted
      <3>2. list[l].pool \in Seq(Allocator) /\ list[l].active \in Nat
        BY <1>0 DEF ListState
      <3>3. e.allocator = list[l].active
        OBVIOUS
      <3> HIDE DEF e
      <3>4. /\ ListKept(l) /\ list[l].active > 0
        BY <3>1 DEF ListKept, ListOwns
      <3>5. \A i \in DOMAIN list'[l].pool :
              IF i = Len(list[l].pool) + 1 THEN list'[l].pool[i] = e
              ELSE i \in DOMAIN list[l].pool /\ list'[l].pool[i] = list[l].pool[i]
        BY <3>1, <3>2
      <3>6. PoolApart(l)'
        BY <3>1, <3>3, <3>4, <3>5 DEF ListKept, PoolApart
      <3>7. QED
        BY <3>1, <3>4, <3>6, EmptyRecorder DEF ListKept, ListOwns, RegionsOwned
    <2>3. QED
      BY <2>1, <2>2, SameList
  <1>4. ASSUME \/ UNCHANGED vars \/ \E x \in Marked : MarkStep(x)
               \/ \E q \in Queue : WaitForQueue(q) \/ GpuStep(q)
               \/ \E q, on \in Queue : QueueWaitForCommandList(q, on)
               \/ RunGarbageCollection \/ WaitForIdle \/ WaitReturns
               \/ \E x \in Object : Drop(x)
        PROVE  \A l \in List : ListKept(l)'
    BY <1>1, <1>4 DEF vars, MarkStep, WaitForFence, SetEventQuery, Poll, ResetQuery,
         WaitForQueue, GpuStep, QueueWaitForCommandList, RunGarbageCollection,
         WaitForIdle, WaitReturns, Drop
  <1>5. QED
    BY <1>2, <1>3, <1>4, NextIsStep DEF Step, QueueStep, BaseInv

\* What the GPU has not reached stays in flight and in the pool.
LEMMA FlightKept ==
  ASSUME BaseInv, [Next]_vars, NEW q \in Queue, NEW f \in Range(queue[q].inFlight),
         f.submitted > fence[q]
  PROVE  f \in Range(queue'[q].inFlight)
  <1>0. queue \in [Queue -> QueueState] /\ QueueOf \in [List -> Queue]
    BY SubmissionAssumption DEF BaseInv, TypeInv
  <1>1. ASSUME queue'[q].inFlight = queue[q].inFlight
        PROVE  f \in Range(queue'[q].inFlight)
    BY <1>1
  <1>2. CASE RunGarbageCollection
    <2>1. Collects(q)
      BY <1>2, CollectedQueue DEF BaseInv
    <2>2. /\ UpdateLastCompletedInstance(q) \in Nat /\ fence[q] \in Nat
          /\ UpdateLastCompletedInstance(q) <= fence[q]
      BY CompletedBounds DEF BaseInv, TypeInv
    <2>3. f.submitted \in Nat
      <3>1. f \in Instance
        BY <1>0 DEF QueueState, Range
      <3>2. QED
        BY <3>1 DEF Instance
    <2>4. f.submitted > UpdateLastCompletedInstance(q)
      BY <2>2, <2>3
    <2>5. QED
      BY <2>1, <2>4 DEF Collects
  <1>3. ASSUME NEW lists \in SUBSET List, NEW p \in Queue, ExecuteCommandLists(lists, p)
        PROVE  f \in Range(queue'[q].inFlight)
    BY <1>1, <1>3, ExecutedQueue DEF BaseInv
  <1>4. ASSUME NEW p \in Queue, WaitForQueue(p)
        PROVE  f \in Range(queue'[q].inFlight)
    BY <1>0, <1>1, <1>4 DEF WaitForQueue, QueueState
  <1>5. ASSUME NEW l \in List, ListStep(l)
        PROVE  f \in Range(queue'[q].inFlight)
    <2>1. CASE Open(l)
      BY <1>0, <1>1, <2>1 DEF Open, QueueState
    <2>2. CASE ~Open(l)
      <3>1. CASE Close(l) \/ DropList(l) \/ \E s \in SUBSET Object : Records(l, s)
        BY <1>1, <3>1 DEF Close, DropList, Records
      <3>2. ASSUME NEW x \in Resource, NEW size \in Nat, NEW a \in Nat \ {0},
                   Write(l, x, size, a)
            PROVE  f \in Range(queue'[q].inFlight)
        BY <1>1, <3>2 DEF Write
      <3>3. ASSUME NEW kind \in Kinds, NEW size \in Nat, Allocate(l, kind, size)
            PROVE  f \in Range(queue'[q].inFlight)
        BY <1>1, <3>3 DEF Allocate
      <3>4. QED
        BY <1>5, <2>2, <3>1, <3>2, <3>3 DEF ListStep
    <2>3. QED
      BY <2>1, <2>2
  <1>6. ASSUME \/ UNCHANGED vars \/ \E x \in Marked : MarkStep(x)
               \/ \E p \in Queue : GpuStep(p)
               \/ \E p, on \in Queue : QueueWaitForCommandList(p, on)
               \/ WaitForIdle \/ WaitReturns \/ \E x \in Object : Drop(x)
        PROVE  f \in Range(queue'[q].inFlight)
    BY <1>1, <1>6 DEF vars, MarkStep, WaitForFence, SetEventQuery, Poll, ResetQuery,
         GpuStep, QueueWaitForCommandList, WaitForIdle, WaitReturns, Drop
  <1>7. QED
    BY <1>2, <1>3, <1>4, <1>5, <1>6, NextIsStep DEF Step, QueueStep, BaseInv

LEMMA PoolKept ==
  ASSUME BaseInv, [Next]_vars, NEW l \in List, list'[l].state # "gone"
  PROVE  /\ list[l].state # "gone"
         /\ \A p \in Range(list[l].pool) :
              p.submitted > fence[QueueOf[l]] => p \in Range(list'[l].pool)
  <1> DEFINE Held == /\ list[l].state # "gone"
                     /\ \A p \in Range(list[l].pool) :
                          p.submitted > fence[QueueOf[l]] => p \in Range(list'[l].pool)
  <1> SUFFICES Held
    OBVIOUS
  <1>0. /\ list[l].pool \in Seq(Allocator) /\ list \in [List -> ListState]
        /\ QueueOf[l] \in Queue /\ fence[QueueOf[l]] \in Nat
    BY SubmissionAssumption DEF BaseInv, TypeInv, ListState
  <1>1. ASSUME list'[l] = list[l]
        PROVE  Held
    BY <1>1
  <1>2. ASSUME list[l].state # "gone", list'[l].pool = list[l].pool
        PROVE  Held
    BY <1>2
  <1>3. ASSUME NEW k \in List, ListStep(k)
        PROVE  Held
    <2>1. CASE k # l
      <3>1. Others(k)
        <4>1. CASE Open(k)
          BY <4>1, OpenList DEF BaseInv
        <4>2. CASE Close(k)
          BY <4>2, CloseList DEF BaseInv
        <4>3. CASE DropList(k)
          BY <4>3, DroppedList DEF BaseInv
        <4>4. ASSUME NEW s \in SUBSET Object, Records(k, s)
              PROVE  Others(k)
          BY <4>4, RecordsList DEF BaseInv
        <4>5. ASSUME NEW x \in Resource, NEW size \in Nat, NEW a \in Nat \ {0},
                     Write(k, x, size, a)
              PROVE  Others(k)
          BY <4>5, WriteList DEF BaseInv, TakesPiece
        <4>6. ASSUME NEW kind \in Kinds, NEW size \in Nat, Allocate(k, kind, size)
              PROVE  Others(k)
          BY <4>6, AllocateList DEF BaseInv, TakesPiece
        <4>7. QED
          BY <1>3, <4>1, <4>2, <4>3, <4>4, <4>5, <4>6 DEF ListStep
      <3>2. QED
        BY <1>1, <2>1, <3>1 DEF Others
    <2>2. CASE k = l /\ Open(l)
      <3>0. list[l].state # "gone"
        BY <2>2 DEF Open
      <3>1. PICK done : done = UpdateLastCompletedInstance(QueueOf[l])
        OBVIOUS
      <3>2. \/ list'[l].pool = list[l].pool
            \/ PoolReady(l, done) /\ list'[l].pool = Tail(list[l].pool)
        BY <2>2, <3>1, OpenList DEF BaseInv
      <3>3. CASE PoolReady(l, done) /\ list'[l].pool = Tail(list[l].pool)
        <4>1. /\ list[l].pool # <<>> /\ Head(list[l].pool).submitted <= done
              /\ done \in Nat /\ done <= fence[QueueOf[l]]
          BY <1>0, <3>1, <3>3, CompletedBounds DEF PoolReady, BaseInv
        <4>2. /\ Head(list[l].pool) \in Allocator
              /\ Range(list[l].pool) = Range(Tail(list[l].pool)) \cup {Head(list[l].pool)}
          BY <1>0, <4>1, TailRange
        <4>3. ~(Head(list[l].pool).submitted > fence[QueueOf[l]])
          BY <1>0, <4>1, <4>2 DEF Allocator
        <4>4. QED
          BY <3>0, <3>3, <4>2, <4>3
      <3>4. QED
        BY <1>2, <3>0, <3>2, <3>3
    <2>3. CASE k = l /\ Close(l)
      BY <1>2, <2>3, CloseList DEF BaseInv, Close
    <2>4. CASE k = l /\ DropList(l)
      BY <2>4, DroppedList DEF BaseInv
    <2>5. ASSUME k = l, NEW s \in SUBSET Object, Records(l, s)
          PROVE  Held
      <3>1. list[l].state # "gone" /\ list'[l].pool = list[l].pool
        BY <2>5, RecordsList DEF BaseInv, Records, Recording
      <3>2. QED
        BY <1>2, <3>1
    <2>6. ASSUME k = l, NEW x \in Resource, NEW size \in Nat, NEW a \in Nat \ {0},
                 Write(l, x, size, a)
          PROVE  Held
      <3>1. list[l].state # "gone" /\ list'[l].pool = list[l].pool
        BY <2>6, WriteList DEF BaseInv, TakesPiece, Recording
      <3>2. QED
        BY <1>2, <3>1
    <2>7. ASSUME k = l, NEW kind \in Kinds, NEW size \in Nat, Allocate(l, kind, size)
          PROVE  Held
      <3>1. list[l].state # "gone" /\ list'[l].pool = list[l].pool
        BY <2>7, AllocateList DEF BaseInv, TakesPiece, Recording
      <3>2. QED
        BY <1>2, <3>1
    <2>8. QED
      BY <1>3, <2>1, <2>2, <2>3, <2>4, <2>5, <2>6, <2>7 DEF ListStep
  <1>4. ASSUME NEW q \in Queue, NEW lists \in SUBSET List, ExecuteCommandLists(lists, q)
        PROVE  Held
    <2>0. PICK n : n = queue[q].submitted + 1
      OBVIOUS
    <2>1. /\ \A k \in List \ lists : list'[k] = list[k]
          /\ \A k \in lists : IsExecuted(k, q, n)
          /\ n \in Nat
      BY <1>4, <2>0, ExecutedList DEF BaseInv
    <2>2. CASE l \in lists
      <3>1. /\ list[l].state = "closed"
            /\ list'[l].pool =
                 Append(list[l].pool, [allocator |-> list[l].active, submitted |-> n])
        BY <2>1, <2>2 DEF IsExecuted
      <3>2. [allocator |-> list[l].active, submitted |-> n] \in Allocator
        BY <1>0, <2>1 DEF Allocator, ListState
      <3>3. Range(list[l].pool) \subseteq Range(list'[l].pool)
        BY <1>0, <3>1, <3>2, AppendRange
      <3>4. QED
        BY <3>1, <3>3
    <2>3. QED
      BY <1>1, <2>1, <2>2
  <1>5. ASSUME \/ UNCHANGED vars \/ \E x \in Marked : MarkStep(x)
               \/ \E q \in Queue : WaitForQueue(q) \/ GpuStep(q)
               \/ \E q, on \in Queue : QueueWaitForCommandList(q, on)
               \/ RunGarbageCollection \/ WaitForIdle \/ WaitReturns
               \/ \E x \in Object : Drop(x)
        PROVE  Held
    BY <1>1, <1>5 DEF vars, MarkStep, WaitForFence, SetEventQuery, Poll, ResetQuery,
         WaitForQueue, GpuStep, QueueWaitForCommandList, RunGarbageCollection,
         WaitForIdle, WaitReturns, Drop
  <1>6. QED
    BY <1>3, <1>4, <1>5, NextIsStep DEF Step, QueueStep, BaseInv

LEMMA NewItemKept ==
  ASSUME BaseInv, \A l \in List : ListKept(l), NEW q \in Queue, NEW lists \in SUBSET List,
         ExecuteCommandLists(lists, q), NEW i, IsWork(i, lists, queue[q].submitted + 1)
  PROVE  ItemKept(q, i)'
  <1>0. PICK n : n = queue[q].submitted + 1
    OBVIOUS
  <1>1. /\ i.value = n
        /\ i.objects = UNION {list[l].instance.objects : l \in lists}
        /\ i.allocators = {<<l, list[l].active>> : l \in lists}
        /\ i.regions = UNION {list[l].instance.regions : l \in lists}
    BY <1>0 DEF IsWork
  <1>2. \A l \in lists : IsExecuted(l, q, n)
    BY <1>0, ExecutedList DEF BaseInv
  <1>3. \A l \in lists : \E f \in Range(queue'[q].inFlight) : IsInstance(f, l, n)
    BY <1>0, ExecutedQueue DEF BaseInv
  <1>4. ASSUME NEW x \in i.objects
        PROVE  \E f \in Range(queue'[q].inFlight) : Holds(f, i) /\ x \in f.objects
    <2>1. PICK l \in lists : x \in list[l].instance.objects
      BY <1>1
    <2>2. PICK f \in Range(queue'[q].inFlight) : IsInstance(f, l, n)
      BY <1>3
    <2>3. QED
      BY <1>1, <2>1, <2>2 DEF IsInstance, Holds
  <1>5. ASSUME NEW r \in i.regions
        PROVE  /\ QueueOf[r.list] = q
               /\ r.written => \E f \in Range(queue'[q].inFlight) :
                                 Holds(f, i) /\ f.list = r.list /\ r.chunk \in f.chunks
    <2>1. PICK l \in lists : r \in list[l].instance.regions
      BY <1>1
    <2>2. r.list = l /\ (r.written => r.chunk \in list[l].instance.chunks)
      BY <2>1 DEF ListKept, RegionsOwned
    <2>3. PICK f \in Range(queue'[q].inFlight) : IsInstance(f, l, n)
      BY <1>3
    <2>4. QueueOf[l] = q
      BY <1>2 DEF IsExecuted
    <2>5. QED
      BY <1>1, <2>2, <2>3, <2>4 DEF IsInstance, Holds
  <1>6. ASSUME NEW a \in i.allocators
        PROVE  /\ QueueOf[a[1]] = q
               /\ \E p \in Range(list'[a[1]].pool) : p.allocator = a[2] /\ p.submitted = i.value
    <2>1. PICK l \in lists : a = <<l, list[l].active>>
      BY <1>1
    <2> DEFINE p == [allocator |-> list[l].active, submitted |-> n]
    <2>2. QueueOf[l] = q /\ list'[l].pool = Append(list[l].pool, p)
      BY <1>2 DEF IsExecuted
    <2>3. list[l].pool \in Seq(Allocator) /\ p \in Allocator
      BY <1>0 DEF BaseInv, TypeInv, ListState, Allocator, QueueState
    <2>4. p \in Range(list'[l].pool) /\ p.allocator = a[2] /\ p.submitted = i.value
      BY <1>1, <2>1, <2>2, <2>3, AppendRange
    <2>5. a[1] = l
      BY <2>1
    <2>6. QED
      BY <2>2, <2>4, <2>5
  <1>7. QED
    BY <1>4, <1>5, <1>6 DEF ItemKept

LEMMA OldItemKept ==
  ASSUME BaseInv, [Next]_vars, NEW q \in Queue, NEW i \in WorkOf(q), ItemKept(q, i)
  PROVE  ItemKept(q, i)'
  <1>1. /\ i \in WorkItem /\ i.value \in Nat /\ fence[q] \in Nat /\ fence[q] < i.value
        /\ i.value > fence[q]
    BY PendingAhead DEF BaseInv
  <1>2. \A f \in Range(queue[q].inFlight) : Holds(f, i) => f \in Range(queue'[q].inFlight)
    BY <1>1, FlightKept DEF Holds
  <1>3. ASSUME NEW x \in i.objects
        PROVE  \E f \in Range(queue'[q].inFlight) : Holds(f, i) /\ x \in f.objects
    BY <1>2 DEF ItemKept
  <1>4. ASSUME NEW r \in i.regions
        PROVE  /\ QueueOf[r.list] = q
               /\ r.written => \E f \in Range(queue'[q].inFlight) :
                                 Holds(f, i) /\ f.list = r.list /\ r.chunk \in f.chunks
    BY <1>2 DEF ItemKept
  <1>5. ASSUME NEW a \in i.allocators
        PROVE  /\ QueueOf[a[1]] = q
               /\ list'[a[1]].state # "gone" =>
                    \E p \in Range(list'[a[1]].pool) :
                      p.allocator = a[2] /\ p.submitted = i.value
    <2>1. a[1] \in List /\ QueueOf[a[1]] = q
      BY <1>1 DEF WorkItem, ItemKept
    <2>2. ASSUME list'[a[1]].state # "gone"
          PROVE  \E p \in Range(list'[a[1]].pool) : p.allocator = a[2] /\ p.submitted = i.value
      <3>1. /\ list[a[1]].state # "gone"
            /\ \A p \in Range(list[a[1]].pool) :
                 p.submitted > fence[q] => p \in Range(list'[a[1]].pool)
        BY <2>1, <2>2, PoolKept
      <3>2. PICK p \in Range(list[a[1]].pool) : p.allocator = a[2] /\ p.submitted = i.value
        BY <3>1 DEF ItemKept
      <3>3. QED
        BY <1>1, <3>1, <3>2
    <2>3. QED
      BY <2>1, <2>2
  <1>6. QED
    BY <1>3, <1>4, <1>5 DEF ItemKept

LEMMA KeptAlways ==
  Spec => [](BaseInv /\ KeptInv)
  <1>1. ASSUME Init
        PROVE  KeptInv
    <2>1. \A q \in Queue : work[q] = <<>>
      BY <1>1 DEF Init
    <2>2. \A q \in Queue : WorkOf(q) = {}
      BY <2>1 DEF WorkOf, Items, Range
    <2>3. ASSUME NEW l \in List
          PROVE  ListKept(l)
      <3>1. /\ list[l].state \in {"idle", "gone"} /\ list[l].active = 0 /\ list[l].pool = <<>>
            /\ list[l].uploadBuffer = None /\ list[l].instance = EmptyInstance
        BY <1>1 DEF Init, NewList
      <3>2. QED
        BY <3>1, EmptyRecorder DEF ListKept, PoolApart, ListOwns, RegionsOwned
    <2>4. QED
      BY <2>2, <2>3 DEF KeptInv, ItemsKept
  <1>2. ASSUME BaseInv, KeptInv, [Next]_vars
        PROVE  KeptInv'
    <2>1. \A l \in List : ListKept(l)'
      BY <1>2, ListsKept DEF KeptInv
    <2>2. ASSUME NEW q \in Queue, NEW i \in (WorkOf(q))'
          PROVE  ItemKept(q, i)'
      <3>1. CASE i \in WorkOf(q)
        BY <1>2, <3>1, OldItemKept DEF KeptInv, ItemsKept
      <3>2. CASE i \notin WorkOf(q)
        BY <1>2, <3>2, PendingOrigin, NewItemKept DEF KeptInv, BaseInv
      <3>3. QED
        BY <3>1, <3>2
    <2>3. QED
      BY <2>1, <2>2 DEF KeptInv, ItemsKept
  <1>3. QED
    BY <1>1, <1>2, BaseAlways, PTL DEF Spec

-----------------------------------------------------------------------------
\* Upload memory: every piece that is recorded or pending lies in the used
\* part of a chunk that the manager does not hand out again.

Backs(c, r) == c.id = r.chunk /\ r.hi <= c.used
Written(c) == ~c.version[2] /\ c.version[1] > 0
InUse(c, n) == IF c.version[2] THEN c.version[1] >= n ELSE c.version[1] > 0

RecordedBacked ==
    \A l \in List : \A r \in list[l].instance.regions :
      \E c \in ChunksOf(list[l][r.kind]) : Backs(c, r) /\ Written(c)
ItemBacked(i) ==
    \A r \in i.regions : list[r.list].state # "gone" =>
      \E c \in ChunksOf(list[r.list][r.kind]) : Backs(c, r) /\ InUse(c, i.value)
PendingBacked == \A q \in Queue : \A i \in WorkOf(q) : ItemBacked(i)

\* A chunk that is not taken while the fence stands at `done'.
Firm(c, done) == c.version # Unused /\ ~(c.version[2] /\ c.version[1] <= done)
Carries(m, n, done) ==
    \A c \in ChunksOf(m) : Firm(c, done) =>
      \E d \in ChunksOf(n) : d.id = c.id /\ d.version = c.version /\ d.used >= c.used
NewPiece(l, r) ==
    /\ list'[l].instance.regions = list[l].instance.regions \cup {r}
    /\ r \in Piece /\ r.list = l /\ list[l].state = "open"
    /\ list'[l][r.kind].current \in ChunksOf(list'[l][r.kind])
    /\ Backs(list'[l][r.kind].current, r) /\ Written(list'[l][r.kind].current)
    /\ \A c \in ChunksOf(list[l][r.kind]) :
         Firm(c, queue[QueueOf[l]].completed) /\ c.id = r.chunk => c.used <= r.lo

LEMMA ChunkTypes ==
  ASSUME NEW m \in Manager, NEW c \in ChunksOf(m)
  PROVE  /\ c \in Chunk /\ c.id \in Nat /\ c.used \in Nat
         /\ c.version \in Nat \X BOOLEAN /\ c.version[1] \in Nat /\ c.version[2] \in BOOLEAN
  <1>1. c \in Chunk
    BY DEF ChunksOf, Manager, Range
  <1>2. QED
    BY <1>1 DEF Chunk

LEMMA FirmChunk ==
  ASSUME NEW m \in Manager, NEW c \in ChunksOf(m), NEW done \in Nat
  PROVE  /\ Written(c) => Firm(c, done)
         /\ \A n \in Nat : done < n /\ InUse(c, n) => Firm(c, done)
         /\ \A size : Firm(c, done) => ~Reusable(c, size, done)
  <1>1. c.version \in Nat \X BOOLEAN /\ c.version[1] \in Nat /\ c.version[2] \in BOOLEAN
    BY ChunkTypes
  <1>2. Unused[1] = 0 /\ Unused[2] = FALSE
    BY DEF Unused
  <1>3. Written(c) => Firm(c, done)
    BY <1>1, <1>2 DEF Written, Firm
  <1>4. ASSUME NEW n \in Nat, done < n, InUse(c, n)
        PROVE  Firm(c, done)
    <2>1. CASE c.version[2]
      BY <1>1, <1>2, <1>4, <2>1 DEF InUse, Firm
    <2>2. CASE ~c.version[2]
      BY <1>1, <1>2, <1>4, <2>2 DEF InUse, Firm
    <2>3. QED
      BY <2>1, <2>2
  <1>5. \A size : Firm(c, done) => ~Reusable(c, size, done)
    BY DEF Firm, Reusable
  <1>6. QED
    BY <1>3, <1>4, <1>5

LEMMA SameCarries ==
  ASSUME NEW m \in Manager, NEW done
  PROVE  Carries(m, m, done)
  BY ChunkTypes DEF Carries

LEMMA TakenPiece ==
  ASSUME BaseInv, NEW l \in List, NEW kind \in Kinds, NEW at \in Nat \cup {-1},
         NEW size \in Nat, NEW written \in BOOLEAN, TakesPiece(l, kind, at, size, written)
  PROVE  /\ list'[l].state # "gone"
         /\ \A k \in Kinds : Carries(list[l][k], list'[l][k], queue[QueueOf[l]].completed)
         /\ \/ list'[l].instance.regions = list[l].instance.regions
            \/ \E r \in Piece : NewPiece(l, r)
  <1> DEFINE done == queue[QueueOf[l]].completed
             m == list[l][kind]
             n == list'[l][kind]
  <1>0. /\ list[l] \in ListState /\ list'[l] \in ListState /\ done \in Nat
        /\ \A k \in Kinds : list[l][k] \in Manager
        /\ n \in Manager
    BY SubmissionAssumption DEF BaseInv, TypeInv, QueueState, ListState, Kinds, TakesPiece
  <1>1. Suballocates(m, n, at, size, done)
    BY DEF TakesPiece
  <1> HIDE DEF done, m, n
  <1>2. \A c \in ChunksOf(m) : Firm(c, done) =>
          \E d \in ChunksOf(n) :
            /\ d.id = c.id /\ d.version = c.version /\ d.used >= c.used
            /\ at \in Nat /\ n.current.id = c.id => at >= c.used
    <2>1. m \in Manager
      BY <1>0 DEF m
    <2>2. QED
      BY <1>0, <1>1, <2>1, FirmChunk DEF Suballocates
  <1>3. Carries(m, n, done)
    BY <1>2 DEF Carries
  <1>4. ASSUME NEW k \in Kinds
        PROVE  Carries(list[l][k], list'[l][k], done)
    BY <1>0, <1>3, SameCarries DEF m, n, TakesPiece
  <1>5. ASSUME at \in Nat
        PROVE  \E r \in Piece : NewPiece(l, r)
    <2>1. /\ n.current \in Chunk /\ n.current.used = at + size
          /\ n.current # None /\ Sound(n)
      BY <1>1, <1>5, SubmissionAssumption DEF Suballocates
    <2>2. PICK r : r = Region(l, kind, n.current, at, size, written)
      OBVIOUS
    <2>3. /\ r \in Piece /\ r.list = l /\ r.kind = kind /\ r.chunk = n.current.id
          /\ r.lo = at /\ r.hi = at + size
      BY <1>5, <2>1, <2>2, RegionPiece DEF BaseInv
    <2>4. list'[l].instance.regions = list[l].instance.regions \cup {r}
      BY <1>5, <2>2 DEF TakesPiece, n
    <2>5. n.current \in ChunksOf(n) /\ Backs(n.current, r) /\ Written(n.current)
      BY <1>5, <2>1, <2>3 DEF ChunksOf, Backs, Written, Sound
    <2>6. \A c \in ChunksOf(m) : Firm(c, done) /\ c.id = r.chunk => c.used <= r.lo
      <3>1. m \in Manager
        BY <1>0 DEF m
      <3>2. QED
        BY <1>2, <1>5, <2>3, <3>1, ChunkTypes
    <2>7. list[l].state = "open"
      <3>1. Recording(l)
        BY DEF TakesPiece
      <3>2. QED
        BY <3>1 DEF Recording
    <2>8. NewPiece(l, r)
      BY <2>3, <2>4, <2>5, <2>6, <2>7 DEF NewPiece, m, n, done
    <2>9. QED
      BY <2>3, <2>8
  <1>6. at = -1 => list'[l].instance.regions = list[l].instance.regions
    BY DEF TakesPiece
  <1>7. list'[l].state # "gone"
    <2>1. Recording(l) /\ list'[l].state = list[l].state
      BY DEF TakesPiece
    <2>2. QED
      BY <2>1 DEF Recording
  <1>8. QED
    BY <1>4, <1>5, <1>6, <1>7 DEF done

LEMMA GoneForGood ==
  ASSUME BaseInv, NEW l \in List, ListStep(l), list'[l].state # "gone"
  PROVE  list[l].state # "gone"
  <1>1. CASE Open(l) \/ Close(l) \/ DropList(l)
    BY <1>1 DEF Open, Close, DropList
  <1>2. CASE \E s \in SUBSET Object : Records(l, s)
    BY <1>2 DEF Records, Recording
  <1>3. CASE \E x \in Resource, size \in Nat, a \in Nat \ {0} : Write(l, x, size, a)
    <2>0. PICK x \in Resource, size \in Nat, a \in Nat \ {0} : Write(l, x, size, a)
      BY <1>3
    <2>1. list[l].state = "open"
      BY <2>0 DEF Write, RoomFor, Recording
    <2>2. QED
      BY <2>1 DEF Recording
  <1>4. CASE \E kind \in Kinds, size \in Nat : Allocate(l, kind, size)
    BY <1>4 DEF Allocate, RoomFor, Recording
  <1>5. QED
    BY <1>1, <1>2, <1>3, <1>4 DEF ListStep

LEMMA ListCarries ==
  ASSUME BaseInv, NEW l \in List, ListStep(l)
  PROVE  /\ Others(l) /\ UNCHANGED work
         /\ IF list'[l].state = "gone" THEN list'[l].instance.regions = {}
            ELSE /\ list[l].state # "gone"
                 /\ \A k \in Kinds :
                      Carries(list[l][k], list'[l][k], queue[QueueOf[l]].completed)
         /\ \/ list'[l].instance.regions \subseteq list[l].instance.regions
            \/ \E r \in Piece : NewPiece(l, r)
  <1>0. \A k \in Kinds : list[l][k] \in Manager
    BY DEF BaseInv, TypeInv, ListState, Kinds
  <1>1. UNCHANGED work /\ (list'[l].state # "gone" => list[l].state # "gone")
    BY ListStepKeeps, GoneForGood
  <1>2. ASSUME Others(l), list'[l].instance.regions \subseteq list[l].instance.regions,
               \/ list'[l].state = "gone" /\ list'[l].instance.regions = {}
               \/ list'[l].state # "gone" /\ \A k \in Kinds : list'[l][k] = list[l][k]
        PROVE  /\ Others(l)
               /\ IF list'[l].state = "gone" THEN list'[l].instance.regions = {}
                  ELSE \A k \in Kinds :
                         Carries(list[l][k], list'[l][k], queue[QueueOf[l]].completed)
               /\ list'[l].instance.regions \subseteq list[l].instance.regions
    BY <1>0, <1>2, SameCarries
  <1>3. CASE Open(l)
    BY <1>1, <1>2, <1>3, OpenList, EmptyRecorder DEF BaseInv
  <1>4. CASE Close(l)
    BY <1>1, <1>2, <1>4, CloseList DEF BaseInv
  <1>5. CASE DropList(l)
    BY <1>1, <1>2, <1>5, DroppedList, EmptyRecorder DEF BaseInv
  <1>6. CASE \E s \in SUBSET Object : Records(l, s)
    <2>1. PICK s \in SUBSET Object : Records(l, s)
      BY <1>6
    <2>2. list[l].state = "open"
      BY <2>1 DEF Records, Recording
    <2>3. QED
      BY <1>1, <1>2, <2>1, <2>2, RecordsList DEF BaseInv
  <1>7. CASE \E x \in Resource, size \in Nat, a \in Nat \ {0} : Write(l, x, size, a)
    <2>1. PICK size \in Nat, at \in Nat : TakesPiece(l, "upload", at, size, TRUE)
      BY <1>7, WriteList DEF BaseInv
    <2>2. Others(l) /\ "upload" \in Kinds
      BY <2>1 DEF TakesPiece, Kinds
    <2>3. QED
      BY <1>1, <2>1, <2>2, TakenPiece
  <1>8. CASE \E kind \in Kinds, size \in Nat : Allocate(l, kind, size)
    <2>1. PICK kind \in Kinds, size \in Nat, at \in Nat \cup {-1} :
            TakesPiece(l, kind, at, size, FALSE)
      BY <1>8, AllocateList DEF BaseInv
    <2>2. Others(l)
      BY <2>1 DEF TakesPiece
    <2>3. QED
      BY <1>1, <2>1, <2>2, TakenPiece
  <1>9. QED
    BY <1>3, <1>4, <1>5, <1>6, <1>7, <1>8 DEF ListStep

BackInv == RecordedBacked /\ PendingBacked /\ RegionsIntact

\* Where the regions are, and of what type.
LEMMA RegionsOf ==
  ASSUME BaseInv, KeptInv
  PROVE  /\ \A l \in List : \A r \in list[l].instance.regions :
              r \in Recorded /\ r \in Piece /\ r.list = l /\ r.kind \in Kinds
         /\ \A q \in Queue : \A i \in WorkOf(q) : \A r \in i.regions :
              r \in Pending /\ r \in Piece /\ r.list \in List /\ r.kind \in Kinds
              /\ QueueOf[r.list] = q
         /\ \A r \in Recorded : \E l \in List : r \in list[l].instance.regions
         /\ \A r \in Pending : \E q \in Queue : \E i \in WorkOf(q) : r \in i.regions
  <1>1. ASSUME NEW l \in List, NEW r \in list[l].instance.regions
        PROVE  r \in Recorded /\ r \in Piece /\ r.list = l /\ r.kind \in Kinds
    <2>1. list[l].instance \in Recorder
      BY DEF BaseInv, TypeInv, ListState
    <2>2. r \in Piece
      BY <1>1, <2>1 DEF Recorder
    <2>3. QED
      BY <1>1, <2>2 DEF Recorded, Piece, KeptInv, ListKept, RegionsOwned
  <1>2. ASSUME NEW q \in Queue, NEW i \in WorkOf(q), NEW r \in i.regions
        PROVE  r \in Pending /\ r \in Piece /\ r.list \in List /\ r.kind \in Kinds
               /\ QueueOf[r.list] = q
    <2>1. i \in WorkItem /\ ItemKept(q, i)
      BY PendingAhead DEF BaseInv, KeptInv, ItemsKept
    <2>2. r \in Piece /\ QueueOf[r.list] = q
      BY <1>2, <2>1 DEF WorkItem, ItemKept
    <2>3. r \in Pending
      BY <1>2 DEF Pending, WorkItems, WorkOf
    <2>4. QED
      BY <2>2, <2>3 DEF Piece
  <1>3. \A r \in Recorded : \E l \in List : r \in list[l].instance.regions
    BY DEF Recorded
  <1>4. \A r \in Pending : \E q \in Queue : \E i \in WorkOf(q) : r \in i.regions
    BY DEF Pending, WorkItems, WorkOf
  <1>5. QED
    BY <1>1, <1>2, <1>3, <1>4

\* A chunk that backs a piece which is recorded or pending is not taken.
LEMMA FirmBacking ==
  ASSUME BaseInv, KeptInv, BackInv, NEW l \in List
  PROVE  /\ \A r \in list[l].instance.regions : \E c \in ChunksOf(list[l][r.kind]) :
              Backs(c, r) /\ Written(c) /\ Firm(c, queue[QueueOf[l]].completed)
         /\ \A q \in Queue : \A i \in WorkOf(q) : \A r \in i.regions :
              r.list = l /\ list[l].state # "gone" => \E c \in ChunksOf(list[l][r.kind]) :
                Backs(c, r) /\ InUse(c, i.value) /\ Firm(c, queue[QueueOf[l]].completed)
  <1> DEFINE done == queue[QueueOf[l]].completed
  <1>0. /\ \A k \in Kinds : list[l][k] \in Manager
        /\ QueueOf[l] \in Queue /\ done \in Nat /\ fence[QueueOf[l]] \in Nat
        /\ done <= fence[QueueOf[l]]
    BY SubmissionAssumption DEF BaseInv, TypeInv, ListState, Kinds, QueueState, FenceInv
  <1> HIDE DEF done
  <1>1. ASSUME NEW r \in list[l].instance.regions
        PROVE  \E c \in ChunksOf(list[l][r.kind]) : Backs(c, r) /\ Written(c) /\ Firm(c, done)
    <2>1. PICK c \in ChunksOf(list[l][r.kind]) : Backs(c, r) /\ Written(c)
      BY <1>1 DEF BackInv, RecordedBacked
    <2>2. list[l][r.kind] \in Manager
      BY <1>0, <1>1, RegionsOf
    <2>3. QED
      BY <1>0, <2>1, <2>2, FirmChunk
  <1>2. ASSUME NEW q \in Queue, NEW i \in WorkOf(q), NEW r \in i.regions,
               r.list = l, list[l].state # "gone"
        PROVE  \E c \in ChunksOf(list[l][r.kind]) :
                 Backs(c, r) /\ InUse(c, i.value) /\ Firm(c, done)
    <2>1. PICK c \in ChunksOf(list[l][r.kind]) : Backs(c, r) /\ InUse(c, i.value)
      BY <1>2 DEF BackInv, PendingBacked, ItemBacked
    <2>2. list[l][r.kind] \in Manager /\ q = QueueOf[l]
      BY <1>0, <1>2, RegionsOf
    <2>3. i.value \in Nat /\ fence[q] < i.value
      BY <1>2, PendingAhead DEF BaseInv
    <2>4. done < i.value
      BY <1>0, <2>2, <2>3
    <2>5. QED
      BY <1>0, <2>1, <2>2, <2>3, <2>4, FirmChunk
  <1>3. QED
    BY <1>1, <1>2 DEF done

LEMMA NewPieceApart ==
  ASSUME BaseInv, KeptInv, BackInv, NEW l \in List, NEW new \in Piece, NewPiece(l, new),
         NEW r \in Pending \cup Recorded, SameChunk(r, new)
  PROVE  r.hi <= new.lo
  <1>1. r.list = l /\ r.kind = new.kind /\ r.chunk = new.chunk /\ list[l].state # "gone"
    BY DEF NewPiece, SameChunk
  <1>2. \E c \in ChunksOf(list[l][r.kind]) : Backs(c, r) /\ Firm(c, queue[QueueOf[l]].completed)
    <2>1. CASE r \in Recorded
      <3>1. r \in list[l].instance.regions
        BY <1>1, <2>1, RegionsOf
      <3>2. QED
        BY <3>1, FirmBacking
    <2>2. CASE r \in Pending
      <3>1. PICK q \in Queue : \E i \in WorkOf(q) : r \in i.regions
        BY <2>2, RegionsOf
      <3>2. PICK i \in WorkOf(q) : r \in i.regions
        BY <3>1
      <3>3. QED
        BY <1>1, <3>2, FirmBacking
    <2>3. QED
      BY <2>1, <2>2
  <1>3. PICK c \in ChunksOf(list[l][r.kind]) :
          Backs(c, r) /\ Firm(c, queue[QueueOf[l]].completed)
    BY <1>2
  <1>4. c.used <= new.lo /\ r.hi <= c.used
    BY <1>1, <1>3 DEF NewPiece, Backs
  <1>5. c.used \in Nat /\ new.lo \in Nat /\ r.hi \in Nat
    <2>1. r \in Piece
      BY RegionsOf
    <2>2. \A k \in Kinds : list[l][k] \in Manager
      BY DEF BaseInv, TypeInv, ListState, Kinds
    <2>3. r.kind \in Kinds /\ r.hi \in Nat /\ new.lo \in Nat
      BY <2>1 DEF Piece
    <2>4. QED
      BY <2>2, <2>3, <1>3, ChunkTypes
  <1>6. QED
    BY <1>4, <1>5

LEMMA IntactShrinks ==
  ASSUME RegionsIntact, (Pending \cup Recorded)' \subseteq Pending \cup Recorded
  PROVE  RegionsIntact'
  BY DEF RegionsIntact, SameChunk

LEMMA BackedByList ==
  ASSUME BaseInv, KeptInv, BackInv, NEW l \in List, ListStep(l)
  PROVE  BackInv'
  <1>0. /\ Others(l) /\ work' = work
        /\ IF list'[l].state = "gone" THEN list'[l].instance.regions = {}
           ELSE /\ list[l].state # "gone"
                /\ \A k \in Kinds :
                     Carries(list[l][k], list'[l][k], queue[QueueOf[l]].completed)
        /\ \/ list'[l].instance.regions \subseteq list[l].instance.regions
           \/ \E r \in Piece : NewPiece(l, r)
    BY ListCarries
  <1>1. ASSUME NEW c, NEW d, NEW r \in Piece, c.used \in Nat, d.used \in Nat,
               d.id = c.id, d.version = c.version, d.used >= c.used, Backs(c, r)
        PROVE  Backs(d, r)
    BY <1>1 DEF Backs, Piece
  <1>2. \A k \in Kinds : list[l][k] \in Manager /\ list'[l][k] \in Manager
    <2>1. list[l] \in ListState /\ list'[l] \in ListState
      BY TypesOfListStep DEF BaseInv, TypeInv
    <2>2. QED
      BY <2>1 DEF ListState, Kinds
  <1>3. RecordedBacked'
    <2>1. ASSUME NEW k \in List \ {l}, NEW r \in list'[k].instance.regions
          PROVE  \E c \in ChunksOf(list'[k][r.kind]) : Backs(c, r) /\ Written(c)
      BY <1>0, <2>1 DEF Others, BackInv, RecordedBacked
    <2>2. ASSUME NEW r \in list[l].instance.regions, list'[l].state # "gone"
          PROVE  \E c \in ChunksOf(list'[l][r.kind]) : Backs(c, r) /\ Written(c)
      <3>1. r \in Piece /\ r.kind \in Kinds
        BY <2>2, RegionsOf
      <3>2. PICK c \in ChunksOf(list[l][r.kind]) :
              Backs(c, r) /\ Written(c) /\ Firm(c, queue[QueueOf[l]].completed)
        BY <2>2, FirmBacking
      <3>3. PICK d \in ChunksOf(list'[l][r.kind]) :
              d.id = c.id /\ d.version = c.version /\ d.used >= c.used
        BY <1>0, <2>2, <3>1, <3>2 DEF Carries
      <3>4. c.used \in Nat /\ d.used \in Nat
        BY <1>2, <3>1, <3>2, <3>3, ChunkTypes
      <3>5. Backs(d, r) /\ Written(d)
        BY <1>1, <3>1, <3>2, <3>3, <3>4 DEF Written
      <3>6. QED
        BY <3>5
    <2>3. ASSUME NEW r \in list'[l].instance.regions
          PROVE  \E c \in ChunksOf(list'[l][r.kind]) : Backs(c, r) /\ Written(c)
      <3>1. CASE r \in list[l].instance.regions
        BY <1>0, <2>2, <2>3, <3>1
      <3>2. CASE r \notin list[l].instance.regions
        <4>1. NewPiece(l, r)
          BY <1>0, <2>3, <3>2 DEF NewPiece
        <4>2. QED
          BY <4>1 DEF NewPiece
      <3>3. QED
        BY <3>1, <3>2
    <2>4. QED
      BY <2>1, <2>3 DEF RecordedBacked
  <1>4. PendingBacked'
    <2> SUFFICES ASSUME NEW q \in Queue, NEW i \in WorkOf(q), NEW r \in i.regions,
                        list'[r.list].state # "gone"
                 PROVE  \E c \in ChunksOf(list'[r.list][r.kind]) :
                          Backs(c, r) /\ InUse(c, i.value)
      BY <1>0 DEF PendingBacked, ItemBacked, WorkOf, Items
    <2>1. r \in Piece /\ r.list \in List /\ r.kind \in Kinds
      BY RegionsOf
    <2>2. CASE r.list # l
      BY <1>0, <2>1, <2>2 DEF Others, BackInv, PendingBacked, ItemBacked
    <2>3. CASE r.list = l
      <3>1. PICK c \in ChunksOf(list[l][r.kind]) :
              Backs(c, r) /\ InUse(c, i.value) /\ Firm(c, queue[QueueOf[l]].completed)
        BY <1>0, <2>3, FirmBacking
      <3>2. PICK d \in ChunksOf(list'[l][r.kind]) :
              d.id = c.id /\ d.version = c.version /\ d.used >= c.used
        BY <1>0, <2>1, <2>3, <3>1 DEF Carries
      <3>3. c.used \in Nat /\ d.used \in Nat
        BY <1>2, <2>1, <3>1, <3>2, ChunkTypes
      <3>4. Backs(d, r) /\ InUse(d, i.value)
        BY <1>1, <2>1, <3>1, <3>2, <3>3 DEF InUse
      <3>5. QED
        BY <2>3, <3>4
    <2>4. QED
      BY <2>2, <2>3
  <1>5. RegionsIntact'
    <2>1. Pending' = Pending
      BY <1>0 DEF Pending, WorkItems, Items
    <2>2. CASE list'[l].instance.regions \subseteq list[l].instance.regions
      <3>1. Recorded' \subseteq Recorded
        BY <1>0, <2>2 DEF Recorded, Others
      <3>2. QED
        BY <2>1, <3>1, IntactShrinks DEF BackInv
    <2>3. CASE \E r \in Piece : NewPiece(l, r)
      <3>1. PICK new \in Piece : NewPiece(l, new)
        BY <2>3
      <3>2. Recorded' \subseteq Recorded \cup {new}
        BY <1>0, <3>1 DEF Recorded, Others, NewPiece
      <3>3. ASSUME NEW r \in (Pending \cup Recorded)', NEW s \in (Pending \cup Recorded)',
                   r # s, SameChunk(r, s)
            PROVE  r.hi <= s.lo \/ s.hi <= r.lo
        <4>1. CASE r \in Pending \cup Recorded /\ s \in Pending \cup Recorded
          BY <3>3, <4>1 DEF BackInv, RegionsIntact
        <4>2. CASE s = new /\ r \in Pending \cup Recorded
          BY <3>1, <3>3, <4>2, NewPieceApart
        <4>3. CASE r = new /\ s \in Pending \cup Recorded
          BY <3>1, <3>3, <4>3, NewPieceApart DEF SameChunk
        <4>4. QED
          BY <2>1, <3>2, <3>3, <4>1, <4>2, <4>3
      <3>4. QED
        BY <3>3 DEF RegionsIntact, SameChunk
    <2>4. QED
      BY <1>0, <2>2, <2>3
  <1>6. QED
    BY <1>3, <1>4, <1>5 DEF BackInv

LEMMA BackedByExecution ==
  ASSUME BaseInv, KeptInv, BackInv, [Next]_vars, NEW q \in Queue, NEW lists \in SUBSET List,
         ExecuteCommandLists(lists, q)
  PROVE  BackInv'
  <1>0. PICK n : n = queue[q].submitted + 1
    OBVIOUS
  <1>1. /\ n \in Nat \ {0}
        /\ \A l \in List \ lists : list'[l] = list[l]
        /\ \A l \in lists : IsExecuted(l, q, n)
    BY <1>0, ExecutedList DEF BaseInv
  <1>2. \A l \in lists : list'[l].instance.regions = {}
    BY <1>1, EmptyRecorder DEF IsExecuted
  <1>3. RecordedBacked'
    BY <1>1, <1>2 DEF BackInv, RecordedBacked
  <1>4. ASSUME NEW l \in lists, NEW k \in Kinds, NEW c \in ChunksOf(list[l][k]),
               NEW r, Backs(c, r)
        PROVE  \E d \in ChunksOf(list'[l][k]) :
                 Backs(d, r) /\ (d.version = c.version \/ d.version = <<n, TRUE>>)
    <2>1. Submits(list[l][k], list'[l][k], <<list[l].version, FALSE>>, <<n, TRUE>>)
      BY <1>1, <1>4 DEF IsExecuted
    <2>2. PICK d \in ChunksOf(list'[l][k]) :
            /\ d.id = c.id /\ d.used = c.used
            /\ d.version = IF c.version = <<list[l].version, FALSE>> THEN <<n, TRUE>>
                           ELSE c.version
      BY <1>4, <2>1 DEF Submits
    <2>3. QED
      BY <1>4, <2>2 DEF Backs
  <1>5. ASSUME NEW p \in Queue, NEW i \in (WorkOf(p))'
        PROVE  \/ i \in WorkOf(p)
               \/ p = q /\ IsWork(i, lists, n)
    <2>1. i \in WorkOf(p) \/ \E some \in SUBSET List :
                               /\ ExecuteCommandLists(some, p)
                               /\ IsWork(i, some, queue[p].submitted + 1)
      BY PendingOrigin DEF BaseInv
    <2>2. PICK item \in WorkItem :
            work' = [work EXCEPT ![q] = Append(work[q], item)] /\ IsWork(item, lists, n)
      BY <1>0, ExecutedWork DEF BaseInv
    <2>3. work \in [Queue -> Seq(WorkItem \cup WaitItem)] /\ item \in WorkItem \cup WaitItem
      BY DEF BaseInv, TypeInv
    <2>4. CASE p # q
      <3>1. work'[p] = work[p]
        BY <2>2, <2>3, <2>4
      <3>2. QED
        BY <3>1 DEF WorkOf, Items
    <2>5. CASE p = q
      <3>1. Range(work'[q]) = Range(work[q]) \cup {item}
        BY <2>2, <2>3, AppendRange
      <3>2. i \in WorkOf(q) \/ i = item
        BY <2>5, <3>1 DEF WorkOf, Items
      <3>3. QED
        BY <2>2, <2>5, <3>2
    <2>6. QED
      BY <2>4, <2>5
  <1>6. PendingBacked'
    <2>1. ASSUME NEW p \in Queue, NEW i \in WorkOf(p), NEW r \in i.regions,
                 list'[r.list].state # "gone"
          PROVE  \E c \in ChunksOf(list'[r.list][r.kind]) : Backs(c, r) /\ InUse(c, i.value)
      <3>1. r \in Piece /\ r.list \in List /\ r.kind \in Kinds /\ QueueOf[r.list] = p
        BY <2>1, RegionsOf
      <3>2. i.value \in Nat /\ queue[p].submitted \in Nat /\ i.value <= queue[p].submitted
        BY <2>1, PendingAhead DEF BaseInv
      <3>3. list[r.list].state # "gone"
        BY <1>1, <2>1, <3>1 DEF IsExecuted
      <3>4. PICK c \in ChunksOf(list[r.list][r.kind]) : Backs(c, r) /\ InUse(c, i.value)
        BY <2>1, <3>1, <3>3 DEF BackInv, PendingBacked, ItemBacked
      <3>5. CASE r.list \in lists
        <4>1. PICK d \in ChunksOf(list'[r.list][r.kind]) :
                Backs(d, r) /\ (d.version = c.version \/ d.version = <<n, TRUE>>)
          BY <1>4, <3>1, <3>4, <3>5
        <4>2. IsExecuted(r.list, q, n)
          BY <1>1, <3>5
        <4>3. p = q
          BY <3>1, <4>2 DEF IsExecuted
        <4>4. n >= i.value
          BY <1>0, <1>1, <3>2, <4>3
        <4>5. InUse(d, i.value)
          <5>1. CASE d.version = c.version
            BY <3>4, <5>1 DEF InUse
          <5>2. CASE d.version = <<n, TRUE>>
            <6>1. d.version[1] = n /\ d.version[2] = TRUE
              BY <5>2
            <6>2. QED
              BY <4>4, <6>1 DEF InUse
          <5>3. QED
            BY <4>1, <5>1, <5>2
        <4>6. QED
          BY <4>1, <4>5
      <3>6. QED
        BY <1>1, <3>1, <3>4, <3>5
    <2>2. ASSUME NEW i, IsWork(i, lists, n), NEW r \in i.regions
          PROVE  \E c \in ChunksOf(list'[r.list][r.kind]) : Backs(c, r) /\ InUse(c, i.value)
      <3>1. PICK l \in lists : r \in list[l].instance.regions
        BY <2>2 DEF IsWork
      <3>2. r.list = l /\ r.kind \in Kinds
        BY <3>1, RegionsOf
      <3>3. PICK c \in ChunksOf(list[l][r.kind]) : Backs(c, r) /\ Written(c)
        BY <3>1 DEF BackInv, RecordedBacked
      <3>4. PICK d \in ChunksOf(list'[l][r.kind]) :
              Backs(d, r) /\ (d.version = c.version \/ d.version = <<n, TRUE>>)
        BY <1>4, <3>2, <3>3
      <3>5. InUse(d, i.value)
        <4>1. CASE d.version = c.version
          BY <3>3, <4>1 DEF InUse, Written
        <4>2. CASE d.version = <<n, TRUE>>
          <5>1. d.version[1] = n /\ d.version[2] = TRUE /\ i.value = n
            BY <2>2, <4>2 DEF IsWork
          <5>2. QED
            BY <1>1, <5>1 DEF InUse
        <4>3. QED
          BY <3>4, <4>1, <4>2
      <3>6. QED
        BY <3>2, <3>4, <3>5
    <2>3. QED
      BY <1>5, <2>1, <2>2 DEF PendingBacked, ItemBacked
  <1>7. (Pending \cup Recorded)' \subseteq Pending \cup Recorded
    <2>1. Recorded' \subseteq Recorded
      BY <1>1, <1>2 DEF Recorded
    <2>2. ASSUME NEW r \in Pending'
          PROVE  r \in Pending \cup Recorded
      <3>1. PICK p \in Queue : \E i \in (WorkOf(p))' : r \in i.regions
        BY <2>2 DEF Pending, WorkItems, WorkOf
      <3>2. PICK i \in (WorkOf(p))' : r \in i.regions
        BY <3>1
      <3>3. CASE i \in WorkOf(p)
        BY <3>2, <3>3, RegionsOf
      <3>4. CASE IsWork(i, lists, n)
        BY <3>2, <3>4, RegionsOf DEF IsWork
      <3>5. QED
        BY <1>5, <3>3, <3>4
    <2>3. QED
      BY <2>1, <2>2
  <1>8. QED
    BY <1>3, <1>6, <1>7, IntactShrinks DEF BackInv

LEMMA BackKept ==
  ASSUME BaseInv, KeptInv, BackInv, [Next]_vars
  PROVE  BackInv'
  <1>1. ASSUME NEW q \in Queue, NEW lists \in SUBSET List, ExecuteCommandLists(lists, q)
        PROVE  BackInv'
    BY <1>1, BackedByExecution
  <1>2. ASSUME NEW l \in List, ListStep(l)
        PROVE  BackInv'
    BY <1>2, BackedByList
  <1>3. ASSUME UNCHANGED list,
               \A q \in Queue : ~\E lists \in SUBSET List : ExecuteCommandLists(lists, q)
        PROVE  BackInv'
    <2>1. \A q \in Queue : (WorkOf(q))' \subseteq WorkOf(q)
      BY <1>3, PendingOrigin DEF BaseInv
    <2>2. RecordedBacked' /\ PendingBacked'
      BY <1>3, <2>1 DEF BackInv, RecordedBacked, PendingBacked, ItemBacked
    <2>3. Recorded' = Recorded
      BY <1>3 DEF Recorded
    <2>4. Pending' \subseteq Pending
      BY <2>1 DEF Pending, WorkItems, WorkOf
    <2>5. QED
      BY <2>2, <2>3, <2>4, IntactShrinks DEF BackInv
  <1>4. \/ UNCHANGED list \/ \E l \in List : ListStep(l)
        \/ \E q \in Queue : \E lists \in SUBSET List : ExecuteCommandLists(lists, q)
    BY NextIsStep DEF Step, QueueStep, BaseInv, vars, MarkStep, WaitForFence, SetEventQuery,
         Poll, ResetQuery, WaitForQueue, GpuStep, QueueWaitForCommandList, RunGarbageCollection,
         WaitForIdle, WaitReturns, Drop
  <1>5. QED
    BY <1>1, <1>2, <1>3, <1>4

\* Together with the invariants it rests on.
LEMMA BackAlways ==
  Spec => [](BaseInv /\ KeptInv /\ BackInv)
  <1>1. ASSUME Init
        PROVE  BackInv
    <2>1. \A q \in Queue : work[q] = <<>>
      BY <1>1 DEF Init
    <2>2. \A q \in Queue : WorkOf(q) = {}
      BY <2>1 DEF WorkOf, Items, Range
    <2>3. \A l \in List : list[l].instance.regions = {}
      BY <1>1, EmptyRecorder DEF Init, NewList
    <2>4. Pending \cup Recorded = {}
      BY <2>2, <2>3 DEF Pending, WorkItems, WorkOf, Recorded
    <2>5. QED
      BY <2>2, <2>3, <2>4 DEF BackInv, RecordedBacked, PendingBacked, RegionsIntact
  <1>2. BaseInv /\ KeptInv /\ BackInv /\ [Next]_vars => BackInv'
    BY BackKept
  <1>3. QED
    BY <1>1, <1>2, KeptAlways, PTL DEF Spec

\* Upload and scratch memory is not written again before the commands that
\* use it have been executed.
THEOREM RegionsStayIntact ==
  Spec => []RegionsIntact
  <1>1. BackInv => RegionsIntact
    BY DEF BackInv
  <1>2. QED
    BY <1>1, BackAlways, PTL

\* What a queue has not finished is kept: its objects by an instance in flight,
\* its memory by the list and, where WriteBuffer or WriteTexture took it, by an
\* instance in flight, and its allocators by the pools of their lists.  Memory
\* that the list alone keeps goes with the list.
THEOREM PendingIsKept ==
  Spec => []PendingKept
  <1>1. KeptInv /\ BackInv => PendingKept
    <2> SUFFICES ASSUME KeptInv, BackInv, NEW item \in WorkItems
                 PROVE  /\ \A x \in item.objects : \E f \in InFlight : x \in f.objects
                        /\ \A r \in item.regions : list[r.list].state # "gone" =>
                             \E c \in ChunksOf(list[r.list][r.kind]) : c.id = r.chunk
                        /\ \A r \in item.regions : r.written =>
                             \E f \in InFlight : f.list = r.list /\ r.chunk \in f.chunks
                        /\ \A l \in List : list[l].active > 0 =>
                             <<l, list[l].active>> \notin item.allocators
      BY DEF PendingKept, KeptByListAlone
    <2>1. PICK q \in Queue : item \in WorkOf(q)
      BY DEF WorkItems, WorkOf
    <2>2. ItemKept(q, item) /\ Range(queue[q].inFlight) \subseteq InFlight
      BY <2>1 DEF KeptInv, ItemsKept, InFlight
    <2>5. ItemBacked(item)
      BY <2>1 DEF BackInv, PendingBacked
    <2>3. ASSUME NEW l \in List, list[l].active > 0, <<l, list[l].active>> \in item.allocators
          PROVE  FALSE
      <3>1. ListKept(l) /\ list[l].state # "gone"
        BY <2>3 DEF KeptInv, ListKept, ListOwns
      <3>2. \E p \in Range(list[l].pool) : p.allocator = list[l].active
        BY <2>2, <2>3, <3>1 DEF ItemKept
      <3>3. QED
        BY <3>1, <3>2 DEF ListKept, PoolApart, Range
    <2>4. QED
      BY <2>2, <2>3, <2>5 DEF ItemKept, ItemBacked, Backs
  <1>2. QED
    BY <1>1, BackAlways, PTL

=============================================================================
