------------------------ MODULE ServiceProviderProofs ------------------------
(***************************************************************************)
(* For any services, wirings and instances: a singleton exists once,       *)
(* GetService decides what can be built, and a clean-up leaves what the    *)
(* caller keeps.                                                           *)
(***************************************************************************)
EXTENDS ServiceProviderProperties, FiniteSetTheorems, TLAPS

\* The calls in progress: a service and the dependencies it has been given.
Got == UNION {[D -> Instance] : D \in SUBSET Id}
Frame == [id : Id, got : Got]

ProviderTypeOK ==
    /\ needs \in [Id -> SUBSET Id]
    /\ descriptor \in [Id -> {"none", "singleton", "transient"}]
    /\ singleton \in [Id -> Instance \cup {None}]
    /\ creating \subseteq Id
    /\ stack \in Seq(Frame)
    /\ live \subseteq Instance
    /\ of \in [Instance -> Id \cup {None}]
    /\ uses \in [Instance -> SUBSET Instance]
    /\ held \subseteq Instance /\ wasSingle \subseteq live
    /\ unvisited \subseteq Id

\* No service is created twice at a time or beside an instance in the map, and
\* cleaning waits for the creations.
StackInv ==
    /\ \A k \in DOMAIN stack : stack[k].id \in creating /\ ~Available(stack[k].id)
    /\ \A k, l \in DOMAIN stack : stack[k].id = stack[l].id => k = l
    /\ stack # <<>> => cleaning = "no"

\* The instances made by a singleton's descriptor are those in the map.
MapInv == \A i \in wasSingle : of[i] \in Id /\ singleton[of[i]] = i

SingleInv == ProviderTypeOK /\ StackInv /\ MapInv

-----------------------------------------------------------------------------
\* References.

\* What is kept: the roots, what others in it use, and nothing else.
LEMMA KeptFacts ==
    ASSUME NEW candidates, NEW using, NEW roots
    PROVE  LET kept == Kept(candidates, using, roots) IN
           /\ kept \subseteq candidates
           /\ candidates \cap roots \subseteq kept
           /\ \A i \in kept : i \in roots \/ \E j \in kept : i \in using[j]
           /\ \A j \in kept : \A i \in using[j] \cap candidates : i \in kept
  <1> DEFINE Supported(K) == \A i \in K : i \in roots \/ \E j \in K : i \in using[j]
             kept == Kept(candidates, using, roots)
  <1>1. kept = UNION {K \in SUBSET candidates : Supported(K)}
    BY DEF Kept
  <1>2. \A K \in SUBSET candidates : Supported(K) => K \subseteq kept
    BY <1>1
  <1>3. \A i \in kept : \E K \in SUBSET candidates : Supported(K) /\ i \in K
    BY <1>1
  <1>4. kept \subseteq candidates /\ Supported(kept)
    BY <1>2, <1>3
  <1>5. candidates \cap roots \subseteq kept
    <2>1. Supported(candidates \cap roots)
      OBVIOUS
    <2>2. QED
      BY <1>2, <2>1
  <1>6. ASSUME NEW j \in kept, NEW i \in using[j] \cap candidates PROVE i \in kept
    <2>1. Supported(kept \cup {i}) /\ kept \cup {i} \in SUBSET candidates
      BY <1>4
    <2>2. QED
      BY <1>2, <2>1
  <1>7. QED
    BY <1>4, <1>5, <1>6

\* A release destroys instances and forgets them, and changes no other.
LEMMA ReleaseType ==
    ASSUME ProviderTypeOK, NEW entries, NEW keptByCaller, NEW frames,
           Release(live, uses, entries, keptByCaller, frames)
    PROVE  /\ live' \subseteq live
           /\ of' \in [Instance -> Id \cup {None}]
           /\ uses' \in [Instance -> SUBSET Instance]
           /\ wasSingle' = wasSingle \cap live'
           /\ \A i \in live' : of'[i] = of[i] /\ uses'[i] = uses[i]
  <1>1. live' \subseteq live
    BY KeptFacts DEF Release
  <1>2. QED
    BY <1>1 DEF Release, ProviderTypeOK

\* With one reference, that of its entry, nothing else refers to an instance.
LEMMA OnlyReference ==
    ASSUME ProviderTypeOK, NEW id \in Id, singleton[id] \in Instance,
           References(singleton[id]) = 1
    PROVE  LET i == singleton[id] IN
           /\ \A other \in Id : singleton[other] = i => other = id
           /\ i \notin held
           /\ \A j \in live : i \notin uses[j]
  <1> DEFINE i == singleton[id]
             entriesOf == {other \in Id : singleton[other] = i}
             users == {j \in live : i \in uses[j]}
  <1>1. IsFiniteSet(entriesOf) /\ IsFiniteSet(users)
    <2>1. entriesOf \in SUBSET Id /\ users \in SUBSET Instance
      BY DEF ProviderTypeOK
    <2>2. QED
      BY <2>1, FiniteAssumption, FS_Subset
  <1>2. /\ Cardinality(entriesOf) \in Nat /\ Cardinality(users) \in Nat
        /\ Cardinality(entriesOf) # 0
    BY <1>1, FS_CardinalityType, FS_EmptySet
  <1>3. PICK h, c \in {0, 1} : /\ i \in held => h = 1
                               /\ Cardinality(entriesOf) + h + c + Cardinality(users) = 1
    <2>1. References(i) = Cardinality(entriesOf) + (IF i \in held THEN 1 ELSE 0)
                          + (IF i \in InHand(stack) THEN 1 ELSE 0) + Cardinality(users)
      BY DEF References
    <2>2. PICK h \in {0, 1} : h = IF i \in held THEN 1 ELSE 0
      OBVIOUS
    <2>3. PICK c \in {0, 1} : c = IF i \in InHand(stack) THEN 1 ELSE 0
      OBVIOUS
    <2>4. QED
      BY <2>1, <2>2, <2>3
  <1>4. Cardinality(entriesOf) = 1 /\ h = 0 /\ Cardinality(users) = 0
    BY <1>2, <1>3
  <1>5. users = {}
    BY <1>1, <1>4, FS_EmptySet
  <1>6. \A other \in entriesOf : other = id
    <2>1. \E x : entriesOf = {x}
      BY <1>1, <1>4, FS_Singleton
    <2>2. QED
      BY <2>1
  <1>7. QED
    BY <1>3, <1>4, <1>5, <1>6

-----------------------------------------------------------------------------
\* The stack of creations.

\* The frames have their type.
LEMMA FrameType ==
    ASSUME ProviderTypeOK
    PROVE  /\ Len(stack) \in Nat /\ DOMAIN stack = 1 .. Len(stack)
           /\ stack # <<>> <=> Len(stack) # 0
           /\ \A k \in DOMAIN stack : /\ stack[k] \in Frame /\ stack[k].id \in Id
                                      /\ stack[k].got \in Got
  <1>1. stack \in Seq(Frame)
    BY DEF ProviderTypeOK
  <1>2. \A f \in Frame : f.id \in Id /\ f.got \in Got
    BY DEF Frame
  <1>3. QED
    BY <1>1, <1>2

\* Another dependency is given to a frame.
LEMMA GotMore ==
    ASSUME NEW got \in Got, NEW d \in Id, NEW i \in Instance
    PROVE  /\ [e \in DOMAIN got \cup {d} |-> IF e = d THEN i ELSE got[e]] \in Got
           /\ DOMAIN got \subseteq Id
           /\ {got[e] : e \in DOMAIN got} \subseteq Instance
  <1>1. PICK D \in SUBSET Id : got \in [D -> Instance]
    BY DEF Got
  <1>2. [e \in DOMAIN got \cup {d} |-> IF e = d THEN i ELSE got[e]] \in [D \cup {d} -> Instance]
    BY <1>1
  <1>3. D \cup {d} \in SUBSET Id
    OBVIOUS
  <1>4. QED
    BY <1>1, <1>2, <1>3 DEF Got

\* A creation begins with nothing.
LEMMA PushFrame ==
    ASSUME ProviderTypeOK, NEW id \in Id, BeginCreate(id)
    PROVE  /\ stack' \in Seq(Frame)
           /\ Len(stack') = Len(stack) + 1 /\ DOMAIN stack' = 1 .. Len(stack) + 1
           /\ stack' # <<>>
           /\ \A k \in DOMAIN stack : stack'[k] = stack[k]
           /\ stack'[Len(stack) + 1].id = id
           /\ DOMAIN stack'[Len(stack) + 1].got = {}
  <1> DEFINE frame == [id |-> id, got |-> <<>>]
  <1>1. frame \in Frame /\ frame.id = id /\ DOMAIN frame.got = {}
    <2>1. <<>> \in [{} -> Instance]
      OBVIOUS
    <2>2. <<>> \in Got
      BY <2>1 DEF Got
    <2>3. QED
      BY <2>2 DEF Frame
  <1>2. stack \in Seq(Frame) /\ stack' = Append(stack, frame)
    BY DEF ProviderTypeOK, BeginCreate
  <1> HIDE DEF frame
  <1>3. QED
    BY <1>1, <1>2

\* The innermost creation is given a singleton.
LEMMA ResolveFrame ==
    ASSUME ProviderTypeOK, stack # <<>>, NEW d \in Id, NEW i \in Instance,
           stack' = [stack EXCEPT ![Len(stack)].got =
                        [e \in DOMAIN Top.got \cup {d} |-> IF e = d THEN i ELSE Top.got[e]]]
    PROVE  /\ stack' \in Seq(Frame) /\ Len(stack') = Len(stack) /\ stack' # <<>>
           /\ DOMAIN stack' = DOMAIN stack
           /\ \A k \in DOMAIN stack : stack'[k].id = stack[k].id
           /\ \A k \in DOMAIN stack : k # Len(stack) => stack'[k] = stack[k]
           /\ stack'[Len(stack)].got =
                 [e \in DOMAIN Top.got \cup {d} |-> IF e = d THEN i ELSE Top.got[e]]
  <1> DEFINE more == [e \in DOMAIN Top.got \cup {d} |-> IF e = d THEN i ELSE Top.got[e]]
             n == Len(stack)
  <1>1. n \in DOMAIN stack /\ Top = stack[n] /\ Top \in Frame /\ Top.got \in Got
    BY FrameType DEF Top
  <1>2. more \in Got
    BY <1>1, GotMore
  <1>3. [Top EXCEPT !.got = more] \in Frame /\ [Top EXCEPT !.got = more].id = Top.id
        /\ [Top EXCEPT !.got = more].got = more
    BY <1>1, <1>2 DEF Frame
  <1>4. stack' = [stack EXCEPT ![n] = [Top EXCEPT !.got = more]]
    BY <1>1
  <1>5. stack \in Seq(Frame)
    BY DEF ProviderTypeOK
  <1>6. PICK frame \in Frame : /\ frame = [Top EXCEPT !.got = more]
                              /\ frame.id = Top.id /\ frame.got = more
    BY <1>3
  <1>7. stack' = [stack EXCEPT ![n] = frame]
    BY <1>4, <1>6
  <1>8. /\ stack' \in Seq(Frame) /\ Len(stack') = Len(stack)
        /\ DOMAIN stack' = DOMAIN stack
    BY <1>1, <1>5, <1>7
  <1>9. \A k \in DOMAIN stack : stack'[k] = IF k = n THEN frame ELSE stack[k]
    BY <1>7
  <1>10. /\ \A k \in DOMAIN stack : stack'[k].id = stack[k].id
         /\ \A k \in DOMAIN stack : k # Len(stack) => stack'[k] = stack[k]
         /\ stack'[Len(stack)].got = more
    BY <1>1, <1>6, <1>9
  <1>11. stack' # <<>>
    BY <1>1, <1>8
  <1>12. QED
    BY <1>8, <1>10, <1>11

\* One frame is replaced.
LEMMA ReplaceFrame ==
    ASSUME NEW s \in Seq(Frame), NEW n \in DOMAIN s, NEW frame \in Frame
    PROVE  LET t == [s EXCEPT ![n] = frame] IN
           /\ t \in Seq(Frame) /\ Len(t) = Len(s) /\ DOMAIN t = DOMAIN s
           /\ \A k \in DOMAIN s : t[k] = IF k = n THEN frame ELSE s[k]
  OBVIOUS

\* What FinishCreate does when i is the new instance.
Finished(i) ==
    LET id == Top.id n == Len(stack) IN
    /\ i \in Instance \ live
    /\ of' = [of EXCEPT ![i] = id]
    /\ uses' = [uses EXCEPT ![i] = {Top.got[d] : d \in DOMAIN Top.got}]
    /\ live' = live \cup {i}
    /\ wasSingle' = IF descriptor[id] = "singleton" THEN wasSingle \cup {i} ELSE wasSingle
    /\ singleton' = IF descriptor[id] = "singleton"
                    THEN [singleton EXCEPT ![id] = i] ELSE singleton
    /\ held' = IF n = 1 THEN held \cup {i} ELSE held
    /\ creating' = creating \ {id}
    /\ result' = IF n = 1 THEN "service" ELSE "none"
    /\ stack' \in Seq(Frame) /\ DOMAIN stack' = 1 .. n - 1
    /\ stack' = <<>> <=> n = 1
    /\ \A k \in 1 .. n - 1 : stack'[k].id = stack[k].id
    /\ \A k \in 1 .. n - 2 : stack'[k] = stack[k]
    /\ n > 1 => stack'[n - 1].got = [e \in DOMAIN stack[n - 1].got \cup {id} |->
                                        IF e = id THEN i ELSE stack[n - 1].got[e]]

\* FinishCreate does that, with an instance that did not exist.
LEMMA FinishFrame ==
    ASSUME ProviderTypeOK, FinishCreate
    PROVE  \E i : Finished(i)
  <1> DEFINE id == Top.id
             n == Len(stack)
             below == SubSeq(stack, 1, n - 1)
  <1>1. /\ n \in Nat /\ n > 0 /\ n \in DOMAIN stack /\ id \in Id /\ stack \in Seq(Frame)
        /\ DOMAIN stack = 1 .. n
        /\ \A k \in 1 .. n : stack[k] \in Frame
    BY FrameType DEF FinishCreate, Top, ProviderTypeOK
  <1>2. /\ below \in Seq(Frame) /\ Len(below) = n - 1 /\ DOMAIN below = 1 .. n - 1
        /\ \A k \in 1 .. n - 1 : below[k] = stack[k]
    BY <1>1
  <1>3. below = <<>> <=> n = 1
    <2>1. \A s \in Seq(Frame) : s = <<>> <=> Len(s) = 0
      OBVIOUS
    <2> HIDE DEF below
    <2>2. QED
      BY <1>1, <1>2, <2>1
  <1>4. PICK i : i = CHOOSE j \in Instance \ live : TRUE
    OBVIOUS
  <1>5. i \in Instance \ live
    BY <1>4 DEF FinishCreate, ProviderTypeOK
  <1> DEFINE got == below[Len(below)].got
             more == [e \in DOMAIN got \cup {id} |-> IF e = id THEN i ELSE got[e]]
  <1>6. /\ of' = [of EXCEPT ![i] = id]
        /\ uses' = [uses EXCEPT ![i] = {Top.got[d] : d \in DOMAIN Top.got}]
        /\ live' = live \cup {i}
        /\ wasSingle' = IF descriptor[id] = "singleton" THEN wasSingle \cup {i} ELSE wasSingle
        /\ singleton' = IF descriptor[id] = "singleton"
                        THEN [singleton EXCEPT ![id] = i] ELSE singleton
        /\ held' = IF below = <<>> THEN held \cup {i} ELSE held
        /\ creating' = creating \ {id}
        /\ result' = IF below = <<>> THEN "service" ELSE "none"
        /\ stack' = IF below = <<>> THEN <<>> ELSE [below EXCEPT ![Len(below)].got = more]
    BY <1>4 DEF FinishCreate
  <1>7. CASE n = 1
    <2>1. stack' = <<>> /\ <<>> \in Seq(Frame) /\ DOMAIN stack' = 1 .. n - 1
      BY <1>3, <1>6, <1>7
    <2> HIDE DEF below, more
    <2>2. \A k \in 1 .. 1 - 1 : FALSE
      OBVIOUS
    <2>3. \A k \in 1 .. 1 - 2 : FALSE
      OBVIOUS
    <2>4. ~(1 > 1)
      OBVIOUS
    <2>5. below = <<>>
      BY <1>3, <1>7
    <2>6. QED
      BY <1>5, <1>6, <1>7, <2>1, <2>2, <2>3, <2>4, <2>5 DEF Finished
  <1>8. CASE n > 1
    <2>1. n - 1 \in 1 .. n - 1 /\ below[n - 1] = stack[n - 1] /\ below[n - 1] \in Frame
      BY <1>1, <1>2, <1>8
    <2>2. PICK last \in Frame : last = below[n - 1]
      BY <2>1
    <2>3. last.got \in Got /\ more = [e \in DOMAIN last.got \cup {id} |->
                                         IF e = id THEN i ELSE last.got[e]]
      BY <1>2, <2>2 DEF Frame
    <2>4. more \in Got
      BY <1>1, <1>5, <2>3, GotMore
    <2>5. PICK frame \in Frame : frame = [last EXCEPT !.got = more] /\ frame.got = more
                                 /\ frame.id = last.id
      <3> HIDE DEF more
      <3>1. [last EXCEPT !.got = more] \in Frame
        BY <2>2, <2>4 DEF Frame
      <3>2. QED
        BY <2>2, <3>1 DEF Frame
    <2>6. stack' = [below EXCEPT ![n - 1] = frame]
      <3>1. stack' = [below EXCEPT ![Len(below)].got = more] /\ Len(below) = n - 1
        <4> HIDE DEF more, below
        <4>1. QED
          BY <1>1, <1>2, <1>3, <1>6, <1>8
      <3> HIDE DEF more, below
      <3>2. QED
        BY <2>2, <2>5, <3>1
    <2> HIDE DEF more, below
    <2>7. /\ stack' \in Seq(Frame) /\ Len(stack') = n - 1 /\ DOMAIN stack' = 1 .. n - 1
          /\ \A k \in 1 .. n - 1 : stack'[k] = IF k = n - 1 THEN frame ELSE stack[k]
      <3>1. n - 1 \in DOMAIN below /\ below \in Seq(Frame)
        BY <1>2, <2>1
      <3>2. QED
        BY <1>2, <2>5, <2>6, <3>1, ReplaceFrame
    <2>8. \A k \in 1 .. n - 1 : stack'[k].id = stack[k].id
      BY <2>1, <2>2, <2>5, <2>7
    <2>9. \A k \in 1 .. n - 2 : stack'[k] = stack[k]
      <3>1. \A m \in Nat : \A k \in 1 .. m - 2 : k \in 1 .. m - 1 /\ k # m - 1
        OBVIOUS
      <3>2. QED
        BY <1>1, <1>2, <2>7, <3>1
    <2>10. stack'[n - 1].got = [e \in DOMAIN stack[n - 1].got \cup {id} |->
                                   IF e = id THEN i ELSE stack[n - 1].got[e]]
      BY <2>1, <2>2, <2>3, <2>5, <2>7
    <2>11. stack' # <<>>
      <3>1. Len(stack') # 0
        <4> HIDE DEF n
        <4>1. n - 1 # 0
          BY <1>1, <1>8
        <4>2. QED
          BY <2>7, <4>1
      <3>2. Len(<<>>) = 0
        OBVIOUS
      <3>3. QED
        BY <3>1, <3>2
    <2>12. QED
      BY <1>3, <1>5, <1>6, <1>8, <2>7, <2>8, <2>9, <2>10, <2>11 DEF Finished
  <1>9. QED
    BY <1>1, <1>7, <1>8

-----------------------------------------------------------------------------
\* A singleton exists once.

\* With no creation in progress only the types and the map are left to show.
LEMMA EmptyStack ==
    ASSUME stack' = <<>>
    PROVE  StackInv' /\ stack' \in Seq(Frame)
  BY DEF StackInv

\* Nothing is made or destroyed.
LEMMA RegisterSingle ==
    ASSUME SingleInv, NEW id \in Id,
           AddSingleton(id) \/ AddTransient(id) \/ DeleteDescriptor(id)
    PROVE  SingleInv'
  <1>1. stack' = <<>>
    BY DEF AddSingleton, AddTransient, DeleteDescriptor, VoidCall, Ready
  <1>2. ProviderTypeOK' /\ MapInv'
    BY DEF AddSingleton, AddTransient, DeleteDescriptor, instanceVars, cleanVars,
           SingleInv, ProviderTypeOK, MapInv
  <1>3. QED
    BY <1>1, <1>2, EmptyStack DEF SingleInv

\* A creation begins for an id that is not being created and has no instance.
LEMMA BeginSingle ==
    ASSUME SingleInv, NEW id \in Id, ~Available(id), CheckCreatableService(id),
           BeginCreate(id), cleaning = "no"
    PROVE  SingleInv'
  <1>1. ProviderTypeOK
    BY DEF SingleInv
  <1>2. /\ stack' \in Seq(Frame)
        /\ DOMAIN stack' = 1 .. Len(stack) + 1
        /\ \A k \in DOMAIN stack : stack'[k] = stack[k]
        /\ stack'[Len(stack) + 1].id = id
    BY <1>1, PushFrame
  <1>3. /\ creating' = creating \cup {id} /\ id \notin creating
        /\ UNCHANGED <<needs, descriptor, singleton, instanceVars, cleanVars, wasSingle>>
    BY DEF BeginCreate, CheckCreatableService
  <1>4. ProviderTypeOK' /\ MapInv'
    BY <1>2, <1>3 DEF instanceVars, cleanVars, SingleInv, ProviderTypeOK, MapInv
  <1>5. StackInv'
    <2>1. Len(stack) \in Nat /\ DOMAIN stack = 1 .. Len(stack)
      BY <1>1, FrameType
    <2>2. \A k \in DOMAIN stack' : k \in DOMAIN stack \/ k = Len(stack) + 1
      BY <1>2, <2>1
    <2>3. \A k \in DOMAIN stack' : stack'[k].id \in creating' /\ ~(Available(stack[k].id))'
      BY <1>2, <1>3, <2>2 DEF SingleInv, StackInv, Available
    <2>4. \A k, l \in DOMAIN stack' : stack'[k].id = stack'[l].id => k = l
      BY <1>2, <1>3, <2>2 DEF SingleInv, StackInv
    <2>5. cleaning' = "no"
      BY <1>3 DEF cleanVars
    <2>6. QED
      BY <2>3, <2>4, <2>5 DEF StackInv
  <1>6. QED
    BY <1>4, <1>5 DEF SingleInv

\* A release alone takes nothing away from the map.
LEMMA ReleaseSingle ==
    ASSUME SingleInv, NEW keptByCaller, NEW frames,
           Release(live, uses, singleton, keptByCaller, frames),
           UNCHANGED <<needs, descriptor, singleton, creating, unvisited>>,
           held' \subseteq held, stack' = <<>>
    PROVE  SingleInv'
  <1>1. ProviderTypeOK
    BY DEF SingleInv
  <1>2. /\ live' \subseteq live
        /\ of' \in [Instance -> Id \cup {None}]
        /\ uses' \in [Instance -> SUBSET Instance]
        /\ wasSingle' = wasSingle \cap live'
        /\ \A i \in live' : of'[i] = of[i]
    BY <1>1, ReleaseType
  <1>3. ProviderTypeOK'
    BY <1>1, <1>2, EmptyStack DEF ProviderTypeOK
  <1>4. MapInv'
    BY <1>2 DEF SingleInv, MapInv
  <1>5. QED
    BY <1>3, <1>4, EmptyStack DEF SingleInv

\* What the caller asks for is at hand, or a creation of it begins.
LEMMA GetServiceSingle ==
    ASSUME SingleInv, NEW id \in Id, GetService(id)
    PROVE  SingleInv'
  <1>1. stack = <<>> /\ cleaning = "no"
    BY DEF GetService, Ready
  <1>2. CASE BeginCreate(id) /\ ~Available(id) /\ CheckCreatableService(id)
    BY <1>1, <1>2, BeginSingle
  <1>3. CASE /\ UNCHANGED <<needs, descriptor, singleton, creating, stack, live, of, uses,
                            cleanVars, wasSingle>>
             /\ held' = held \/ (Available(id) /\ held' = held \cup {singleton[id]})
    <2>1. ProviderTypeOK' /\ MapInv'
      BY <1>3 DEF cleanVars, Available, SingleInv, ProviderTypeOK, MapInv
    <2>2. QED
      BY <1>1, <1>3, <2>1, EmptyStack DEF SingleInv
  <1>4. QED
    BY <1>2, <1>3 DEF GetService, instanceVars

\* A dependency is given, or is created, or ends the call.
LEMMA ResolveSingle ==
    ASSUME SingleInv, NEW d \in Id, ResolveDependency(d)
    PROVE  SingleInv'
  <1>1. stack # <<>> /\ cleaning = "no" /\ ProviderTypeOK
    BY DEF ResolveDependency, SingleInv, StackInv
  <1>2. CASE BeginCreate(d) /\ ~Available(d) /\ CheckCreatableService(d)
    BY <1>1, <1>2, BeginSingle
  <1>3. CASE \E outcome : Throw(outcome)
    BY <1>3, ReleaseSingle DEF Throw, cleanVars
  <1>4. CASE /\ Available(d)
             /\ stack' = [stack EXCEPT ![Len(stack)].got =
                             [e \in DOMAIN Top.got \cup {d} |->
                                 IF e = d THEN singleton[d] ELSE Top.got[e]]]
             /\ UNCHANGED <<needs, descriptor, singleton, creating, instanceVars, cleanVars,
                            result, historyVars>>
    <2>1. singleton[d] \in Instance
      BY <1>1, <1>4 DEF Available, ProviderTypeOK
    <2>2. /\ stack' \in Seq(Frame) /\ DOMAIN stack' = DOMAIN stack
          /\ \A k \in DOMAIN stack : stack'[k].id = stack[k].id
      BY <1>1, <1>4, <2>1, ResolveFrame
    <2>3. ProviderTypeOK' /\ MapInv'
      BY <1>4, <2>2 DEF instanceVars, cleanVars, historyVars, SingleInv, ProviderTypeOK, MapInv
    <2>4. StackInv'
      BY <1>1, <1>4, <2>2 DEF cleanVars, SingleInv, StackInv, Available
    <2>5. QED
      BY <2>3, <2>4 DEF SingleInv
  <1>5. QED
    BY <1>2, <1>3, <1>4 DEF ResolveDependency

\* The entry of a singleton that is made was empty.
LEMMA FinishSingle ==
    ASSUME SingleInv, FinishCreate
    PROVE  SingleInv'
  <1>1. PICK i : Finished(i)
    BY FinishFrame DEF SingleInv
  <1> DEFINE n == Len(stack)
             id == Top.id
  <1>2. /\ n \in Nat /\ n > 0 /\ n \in DOMAIN stack /\ DOMAIN stack = 1 .. n
        /\ id \in Id /\ id = stack[n].id /\ ProviderTypeOK
        /\ i \in Instance /\ i \notin live
    <2>1. ProviderTypeOK /\ stack # <<>>
      BY DEF FinishCreate, SingleInv
    <2>2. n \in Nat /\ n > 0 /\ DOMAIN stack = 1 .. n /\ id = stack[n].id
      BY <2>1, FrameType DEF Top
    <2>3. n \in DOMAIN stack /\ id \in Id
      BY <2>1, <2>2, FrameType
    <2>4. i \in Instance /\ i \notin live
      BY <1>1 DEF Finished
    <2>5. QED
      BY <2>1, <2>2, <2>3, <2>4
  <1>3. /\ UNCHANGED <<needs, descriptor, cleanVars>>
        /\ descriptor[id] = "singleton" => singleton[id] = None
        /\ i # None
    BY <1>2, NoneAssumption DEF FinishCreate, SingleInv, StackInv, Available
  <1>4. ProviderTypeOK'
    <2>1. {Top.got[d] : d \in DOMAIN Top.got} \subseteq Instance
      BY <1>2, FrameType, GotMore DEF Top
    <2>2. singleton' \in [Id -> Instance \cup {None}]
      BY <1>1, <1>2 DEF Finished, ProviderTypeOK
    <2>3. of' \in [Instance -> Id \cup {None}]
      BY <1>1, <1>2 DEF Finished, ProviderTypeOK
    <2>4. uses' \in [Instance -> SUBSET Instance]
      BY <1>1, <1>2, <2>1 DEF Finished, ProviderTypeOK
    <2>5. live' \subseteq Instance /\ held' \subseteq Instance /\ wasSingle' \subseteq live'
      BY <1>1, <1>2 DEF Finished, ProviderTypeOK
    <2>6. stack' \in Seq(Frame) /\ creating' \subseteq Id
      BY <1>1, <1>2 DEF Finished, ProviderTypeOK
    <2>7. QED
      BY <1>2, <1>3, <2>2, <2>3, <2>4, <2>5, <2>6 DEF ProviderTypeOK, cleanVars
  <1>5. MapInv'
    <2> SUFFICES ASSUME NEW j \in wasSingle' PROVE of'[j] \in Id /\ singleton'[of'[j]] = j
      BY DEF MapInv
    <2>1. CASE j = i
      <3>1. descriptor[id] = "singleton"
        BY <1>1, <1>2, <2>1 DEF Finished, ProviderTypeOK
      <3>2. QED
        BY <1>1, <1>2, <2>1, <3>1 DEF Finished, ProviderTypeOK
    <2>2. CASE j # i
      <3>1. j \in wasSingle /\ j \in Instance /\ of'[j] = of[j]
        BY <1>1, <1>2, <2>2 DEF Finished, ProviderTypeOK
      <3>2. of[j] \in Id /\ singleton[of[j]] = j /\ j # None
        BY <3>1, NoneAssumption DEF SingleInv, MapInv
      <3>3. descriptor[id] = "singleton" => of[j] # id
        BY <1>3, <3>2
      <3>4. QED
        BY <1>1, <1>2, <3>1, <3>2, <3>3 DEF Finished, ProviderTypeOK
    <2>3. QED
      BY <2>1, <2>2
  <1>6. StackInv'
    <2>1. /\ DOMAIN stack' = 1 .. n - 1 /\ \A k \in 1 .. n - 1 : stack'[k].id = stack[k].id
          /\ creating' = creating \ {id}
          /\ \A other \in Id : other # id => singleton'[other] = singleton[other]
      BY <1>1, <1>2 DEF Finished, ProviderTypeOK
    <2>2. \A k \in 1 .. n - 1 : k \in DOMAIN stack /\ stack[k].id # id /\ stack[k].id \in Id
      BY <1>2, FrameType DEF SingleInv, StackInv
    <2>3. \A k \in DOMAIN stack' : stack'[k].id \in creating' /\ ~(Available(stack[k].id))'
      BY <1>2, <1>3, <2>1, <2>2 DEF SingleInv, StackInv, Available
    <2>4. \A k, l \in DOMAIN stack' : stack'[k].id = stack'[l].id => k = l
      BY <2>1, <2>2 DEF SingleInv, StackInv
    <2>5. cleaning' = "no"
      BY <1>3 DEF cleanVars, SingleInv, StackInv, FinishCreate
    <2>6. QED
      BY <2>1, <2>3, <2>4, <2>5 DEF StackInv, Available
  <1>7. QED
    BY <1>4, <1>5, <1>6 DEF SingleInv

\* An entry that is erased was the only one of its instance, which goes with it.
LEMMA CleanVisitSingle ==
    ASSUME SingleInv, NEW id \in Id, CleanVisit(id)
    PROVE  SingleInv'
  <1>1. stack = <<>> /\ stack' = <<>> /\ ProviderTypeOK
    BY DEF CleanVisit, SingleInv, StackInv
  <1>2. CASE References(singleton[id]) = 1
    <2> DEFINE i == singleton[id]
               entries == [singleton EXCEPT ![id] = None]
    <2>1. /\ singleton' = entries /\ Release(live, uses, entries, held, <<>>)
          /\ UNCHANGED <<needs, descriptor, creating, held, cleaning>>
          /\ unvisited' = unvisited \ {id}
      BY <1>2 DEF CleanVisit
    <2>2. /\ live' \subseteq live
          /\ of' \in [Instance -> Id \cup {None}]
          /\ uses' \in [Instance -> SUBSET Instance]
          /\ wasSingle' = wasSingle \cap live'
          /\ \A j \in live' : of'[j] = of[j]
      BY <1>1, <2>1, ReleaseType
    <2>3. ProviderTypeOK'
      BY <1>1, <2>1, <2>2, EmptyStack DEF ProviderTypeOK
    <2>4. ASSUME NEW j \in wasSingle', of[j] = id
          PROVE  FALSE
      <3>1. singleton[id] = j /\ j \in Instance /\ j \in live' /\ j # None
        BY <1>1, <2>2, <2>4, NoneAssumption DEF SingleInv, MapInv, ProviderTypeOK
      <3>2. /\ \A other \in Id : singleton[other] = j => other = id
            /\ j \notin held
            /\ \A k \in live : j \notin uses[k]
        BY <1>1, <1>2, <3>1, OnlyReference
      <3>3. j \notin {entries[other] : other \in Id}
        BY <1>1, <3>1, <3>2 DEF ProviderTypeOK
      <3>4. InHand(<<>>) = {}
        BY DEF InHand
      <3>5. live' = Kept(live, uses,
                         {entries[other] : other \in Id} \cup held \cup InHand(<<>>))
        BY <2>1 DEF Release
      <3>6. \E k \in live' : j \in uses[k]
        BY <3>1, <3>2, <3>3, <3>4, <3>5, KeptFacts
      <3>7. QED
        BY <2>2, <3>2, <3>6
    <2>5. MapInv'
      BY <1>1, <2>1, <2>2, <2>4 DEF SingleInv, MapInv, ProviderTypeOK
    <2>6. QED
      BY <1>1, <2>3, <2>5, EmptyStack DEF SingleInv
  <1>3. CASE References(singleton[id]) # 1
    <2>1. ProviderTypeOK' /\ MapInv'
      BY <1>3 DEF CleanVisit, SingleInv, ProviderTypeOK, MapInv
    <2>2. QED
      BY <1>1, <2>1, EmptyStack DEF SingleInv
  <1>4. QED
    BY <1>2, <1>3

\* Every step keeps it, ...
LEMMA NextSingle == SingleInv /\ [Next]_vars => SingleInv'
  <1> SUFFICES ASSUME SingleInv, [Next]_vars PROVE SingleInv'
    OBVIOUS
  <1>1. ASSUME NEW id \in Id,
               AddSingleton(id) \/ AddTransient(id) \/ DeleteDescriptor(id) \/ GetService(id)
        PROVE  SingleInv'
    BY <1>1, RegisterSingle, GetServiceSingle
  <1>2. CASE CallStep
    <2>1. CASE FactoryThrows
      BY <2>1, ReleaseSingle DEF FactoryThrows, Throw, cleanVars
    <2>2. QED
      BY <1>2, <2>1, ResolveSingle, FinishSingle DEF CallStep
  <1>3. ASSUME NEW i \in Instance, Drop(i) PROVE SingleInv'
    <2>1. stack' = <<>> /\ held' \subseteq held
      BY <1>3 DEF Drop, VoidCall, Ready
    <2>2. QED
      BY <1>3, <2>1, ReleaseSingle DEF Drop, cleanVars
  <1>4. CASE (\E how \in {"once", "all"} : CleanBegin(how)) \/ CleanPassEnds
    <2>1. stack' = <<>>
      BY <1>4 DEF CleanBegin, VoidCall, Ready, CleanPassEnds, SingleInv, StackInv
    <2>2. ProviderTypeOK' /\ MapInv'
      BY <1>4 DEF CleanBegin, CleanPassEnds, Entries, instanceVars, historyVars,
                  SingleInv, ProviderTypeOK, MapInv
    <2>3. QED
      BY <2>1, <2>2, EmptyStack DEF SingleInv
  <1>5. CASE UNCHANGED vars
    BY <1>5 DEF vars, instanceVars, cleanVars, historyVars, SingleInv, ProviderTypeOK,
                StackInv, MapInv, Available
  <1>6. QED
    BY <1>1, <1>2, <1>3, <1>4, <1>5, CleanVisitSingle DEF Next, CleanStep

\* ... and it holds at first.
LEMMA InitSingle == Init => SingleInv
  <1> SUFFICES ASSUME Init PROVE SingleInv
    OBVIOUS
  <1>1. stack = <<>> /\ <<>> \in Seq(Frame)
    BY DEF Init
  <1>2. ProviderTypeOK
    BY <1>1, WiringsAssumption DEF Init, ProviderTypeOK
  <1>3. QED
    BY <1>1, <1>2 DEF Init, SingleInv, StackInv, MapInv

\* Of the services made under a singleton's descriptor at most one of an id
\* exists at a time, for any services, wirings and instances, whatever was
\* registered anew, cleaned, or left by an exception in between.
THEOREM SingletonsAreSingle == Spec => []SingletonUnique
  <1>1. SingleInv => SingletonUnique
    BY DEF SingleInv, MapInv, SingletonUnique
  <1>2. QED
    BY <1>1, InitSingle, NextSingle, PTL DEF Spec

-----------------------------------------------------------------------------
\* What can be created.

\* A creation depends on the one before it, which has not been given it yet.
ChainInv ==
    \A k \in 1 .. Len(stack) - 1 :
        stack[k + 1].id \in needs[stack[k].id] \ DOMAIN stack[k].got

\* The services that could be created when the call in progress began, with the
\* singletons `before': what was being created then was left by exceptions.
CreatableSince(before) == CreatableFrom(before, creating \ StackIds)

\* The call has made singletons of services that could be created, and what it
\* has been asked for can be created if what is asked for now can.
CallInv(before) ==
    LET since == CreatableSince(before) IN
    /\ before \subseteq {d \in Id : Available(d)}
    /\ {d \in Id : Available(d)} \subseteq before \cup since
    /\ expected <=> stack[1].id \in since
    /\ \A k \in DOMAIN stack : /\ descriptor[stack[k].id] # "none"
                               /\ DOMAIN stack[k].got \subseteq before \cup since
                               /\ expected => stack[k].id \in since

\* When a call has ended, it has returned what was expected.
Decided == Ready /\ result \notin {"none", "failed"} => (result = "service" <=> expected)

DecideInv ==
    /\ stack # <<>> => result = "none" /\ \E before \in SUBSET Id : CallInv(before)
    /\ cleaning # "no" => result = "none"
    /\ Decided

\* What stays in m_creatingServiceHash is what exceptions have left there, and
\* a service that only these obstruct is registered.
StuckInv ==
    /\ stuck = creating \ StackIds
    /\ result \in {"none", "null", "service", "thrown", "failed"}
    /\ obstructed => ~expected /\ result # "null"

\* What is referred to exists, what exists is referred to, and services do not
\* use each other in circles: of any some one is used by none of them.
LiveInv ==
    /\ held \cup InHand(stack) \subseteq live /\ singleton \in [Id -> live \cup {None}]
    /\ \A j \in live : uses[j] \subseteq live
    /\ \A i \in live : \/ i \in {singleton[id] : id \in Id} \cup held \cup InHand(stack)
                       \/ \E j \in live : i \in uses[j]
    /\ \A S \in SUBSET live : S # {} => \E i \in S : \A j \in S : i \notin uses[j]

\* A creation that began is one that can be pushed, given a dependency or
\* finished without disturbing those below it.
LEMMA ChainKept ==
    ASSUME SingleInv, SingleInv', ChainInv, CallStep
    PROVE  ChainInv'
  <1>1. ProviderTypeOK /\ stack # <<>>
    BY DEF SingleInv, CallStep, ResolveDependency, FinishCreate, FactoryThrows
  <1>2. Len(stack) \in Nat /\ DOMAIN stack = 1 .. Len(stack) /\ Len(stack) # 0
    BY <1>1, FrameType
  <1>3. ASSUME NEW outcome, Throw(outcome) PROVE ChainInv'
    <2>1. Len(stack') = 0
      BY <1>3 DEF Throw
    <2>2. \A k \in 1 .. 0 - 1 : FALSE
      OBVIOUS
    <2>3. QED
      BY <2>1, <2>2 DEF ChainInv
  <1>4. ASSUME NEW d \in Id, ResolveDependency(d) PROVE ChainInv'
    <2>1. d \in needs[Top.id] \ DOMAIN Top.got /\ Top = stack[Len(stack)]
      BY <1>4 DEF ResolveDependency, Top
    <2>2. CASE BeginCreate(d)
      <3>1. /\ Len(stack') = Len(stack) + 1
            /\ \A k \in DOMAIN stack : stack'[k] = stack[k]
            /\ stack'[Len(stack) + 1].id = d
            /\ needs' = needs
        BY <1>1, <2>2, PushFrame DEF BeginCreate
      <3>2. ASSUME NEW k \in 1 .. Len(stack') - 1
            PROVE  stack'[k + 1].id \in needs'[stack'[k].id] \ DOMAIN stack'[k].got
        <4>1. k \in DOMAIN stack
          BY <1>2, <3>1
        <4>2. CASE k = Len(stack)
          BY <2>1, <3>1, <4>1, <4>2
        <4>3. CASE k # Len(stack)
          <5>1. k \in 1 .. Len(stack) - 1 /\ k + 1 \in DOMAIN stack
            BY <1>2, <4>1, <4>3
          <5>2. QED
            BY <3>1, <4>1, <5>1 DEF ChainInv
        <4>4. QED
          BY <4>2, <4>3
      <3>3. QED
        BY <3>2 DEF ChainInv
    <2>3. CASE /\ Available(d)
               /\ stack' = [stack EXCEPT ![Len(stack)].got =
                               [e \in DOMAIN Top.got \cup {d} |->
                                   IF e = d THEN singleton[d] ELSE Top.got[e]]]
               /\ needs' = needs
      <3>1. singleton[d] \in Instance
        BY <1>1, <2>3 DEF Available, ProviderTypeOK
      <3>2. /\ Len(stack') = Len(stack)
            /\ \A k \in DOMAIN stack : stack'[k].id = stack[k].id
            /\ \A k \in DOMAIN stack : k # Len(stack) => stack'[k] = stack[k]
        BY <1>1, <2>3, <3>1, ResolveFrame
      <3>3. \A k \in 1 .. Len(stack) - 1 : /\ k \in DOMAIN stack /\ k + 1 \in DOMAIN stack
                                           /\ k # Len(stack)
        <4>1. \A m \in Nat : \A k \in 1 .. m - 1 : k \in 1 .. m /\ k + 1 \in 1 .. m /\ k # m
          OBVIOUS
        <4>2. QED
          BY <1>2, <4>1
      <3>4. QED
        BY <2>3, <3>2, <3>3 DEF ChainInv
    <2>4. QED
      BY <1>3, <1>4, <2>2, <2>3 DEF ResolveDependency
  <1>5. CASE FinishCreate
    <2>1. PICK i : Finished(i)
      BY <1>1, <1>5, FinishFrame
    <2> DEFINE n == Len(stack)
    <2>2. /\ DOMAIN stack' = 1 .. n - 1 /\ stack' \in Seq(Frame)
          /\ \A k \in 1 .. n - 1 : stack'[k].id = stack[k].id
          /\ \A k \in 1 .. n - 2 : stack'[k] = stack[k]
          /\ needs' = needs
      BY <1>5, <2>1 DEF Finished, FinishCreate
    <2>3. Len(stack') = n - 1
      <3>1. Len(stack') \in Nat /\ DOMAIN stack' = 1 .. Len(stack')
        BY <2>2
      <3>2. \A a, b \in Nat : 1 .. a = 1 .. b => a = b
        <4> SUFFICES ASSUME NEW a \in Nat, NEW b \in Nat, 1 .. a = 1 .. b, a < b PROVE FALSE
          OBVIOUS
        <4>1. b \in 1 .. b
          OBVIOUS
        <4>2. QED
          BY <4>1
      <3> HIDE DEF n
      <3>3. n - 1 \in Nat
        BY <1>2 DEF n
      <3>4. QED
        BY <2>2, <3>1, <3>2, <3>3
    <2>4. \A k \in 1 .. (n - 1) - 1 : /\ k \in 1 .. n - 2 /\ k \in 1 .. n - 1
                                      /\ k + 1 \in 1 .. n - 1
      BY <1>2
    <2>5. QED
      BY <2>2, <2>3, <2>4 DEF ChainInv
  <1>6. QED
    BY <1>3, <1>4, <1>5 DEF CallStep, FactoryThrows

\* Outside a call there is nothing to chain.
LEMMA NextChain == SingleInv /\ SingleInv' /\ ChainInv /\ [Next]_vars => ChainInv'
  <1> SUFFICES ASSUME SingleInv, SingleInv', ChainInv, [Next]_vars PROVE ChainInv'
    OBVIOUS
  <1>1. CASE UNCHANGED <<stack, needs>>
    BY <1>1 DEF ChainInv
  <1>2. CASE stack = <<>>
    <2>1. CASE \E id \in Id : BeginCreate(id)
      <3>1. Len(stack) = 0
        BY <1>2
      <3>2. Len(stack') = 0 + 1
        BY <2>1, <3>1, PushFrame DEF SingleInv
      <3>3. \A k \in 1 .. (0 + 1) - 1 : FALSE
        OBVIOUS
      <3>4. QED
        BY <3>2, <3>3 DEF ChainInv
    <2>2. CASE UNCHANGED <<stack, needs>>
      BY <1>1, <2>2
    <2>3. QED
      BY <1>2, <2>1, <2>2
         DEF Next, CallStep, CleanStep, AddSingleton, AddTransient, DeleteDescriptor,
             GetService, ResolveDependency, FinishCreate, FactoryThrows, Drop, CleanBegin,
             CleanPassEnds, CleanVisit, vars
  <1>3. CASE stack # <<>>
    <2>1. CallStep \/ UNCHANGED vars
      BY <1>3 DEF Next, CleanStep, AddSingleton, AddTransient, DeleteDescriptor,
                  GetService, Drop, CleanBegin, VoidCall, Ready, CleanPassEnds, CleanVisit,
                  SingleInv, StackInv
    <2>2. QED
      BY <1>1, <2>1, ChainKept DEF vars
  <1>4. QED
    BY <1>2, <1>3

-----------------------------------------------------------------------------
\* What can be created is the smallest set that suffices, ...
LEMMA CreatableLeast ==
    ASSUME NEW available, NEW busy, NEW ids \in SUBSET Id, Suffices(ids, available, busy)
    PROVE  CreatableFrom(available, busy) \subseteq ids
  BY DEF CreatableFrom

\* ... it does suffice, ...
LEMMA CreatableSuffices ==
    ASSUME NEW available, NEW busy
    PROVE  /\ CreatableFrom(available, busy) \subseteq Id
           /\ Suffices(CreatableFrom(available, busy), available, busy)
  <1> DEFINE C == CreatableFrom(available, busy)
  <1>1. C \subseteq Id
    BY DEF CreatableFrom
  <1>2. ASSUME NEW id \in Id, descriptor[id] # "none", id \notin busy,
               needs[id] \subseteq available \cup C
        PROVE  id \in C
    <2>1. ASSUME NEW ids \in SUBSET Id, Suffices(ids, available, busy) PROVE id \in ids
      <3>1. C \subseteq ids
        BY <2>1, CreatableLeast
      <3> HIDE DEF C
      <3>2. QED
        BY <1>2, <2>1, <3>1 DEF Suffices
    <2>2. QED
      BY <2>1 DEF CreatableFrom
  <1> HIDE DEF C
  <1>3. Suffices(C, available, busy)
    BY <1>2 DEF Suffices
  <1>4. QED
    BY <1>1, <1>3 DEF C

\* ... and it has nothing that cannot be created.
LEMMA CreatableOnly ==
    ASSUME NEW available, NEW busy, NEW id \in CreatableFrom(available, busy)
    PROVE  /\ descriptor[id] # "none" /\ id \notin busy
           /\ needs[id] \subseteq available \cup CreatableFrom(available, busy)
  <1> DEFINE C == CreatableFrom(available, busy)
             S == {x \in C : /\ descriptor[x] # "none" /\ x \notin busy
                             /\ needs[x] \subseteq available \cup C}
  <1>1. C \subseteq Id /\ Suffices(C, available, busy)
    BY CreatableSuffices
  <1> HIDE DEF C
  <1>2. S \in SUBSET Id
    BY <1>1
  <1>3. Suffices(S, available, busy)
    BY <1>1 DEF Suffices
  <1>4. C \subseteq S
    BY <1>2, <1>3, CreatableLeast DEF C
  <1>5. QED
    BY <1>4 DEF C

-----------------------------------------------------------------------------
\* What the exceptions of earlier calls have left in m_creatingServiceHash.
LEMMA SinceThen ==
    ASSUME NEW before, NEW busy, UNCHANGED <<needs, descriptor>>,
           (creating \ StackIds)' = busy
    PROVE  CreatableSince(before)' = CreatableFrom(before, busy)
  BY DEF CreatableSince, CreatableFrom, Suffices

\* A creation that begins takes its id with it.
LEMMA PushIds ==
    ASSUME ProviderTypeOK, NEW id \in Id, BeginCreate(id), CheckCreatableService(id)
    PROVE  (creating \ StackIds)' = creating \ StackIds
  <1>1. /\ DOMAIN stack' = 1 .. Len(stack) + 1
        /\ \A k \in DOMAIN stack : stack'[k] = stack[k]
        /\ stack'[Len(stack) + 1].id = id
    BY PushFrame
  <1>2. Len(stack) \in Nat /\ DOMAIN stack = 1 .. Len(stack)
    BY FrameType
  <1>3. StackIds' = StackIds \cup {id}
    <2>1. \A k \in DOMAIN stack' : k \in DOMAIN stack \/ k = Len(stack) + 1
      BY <1>1, <1>2
    <2>2. DOMAIN stack \subseteq DOMAIN stack' /\ Len(stack) + 1 \in DOMAIN stack'
      BY <1>1, <1>2
    <2>3. QED
      BY <1>1, <2>1, <2>2 DEF StackIds
  <1>4. QED
    BY <1>3 DEF BeginCreate, CheckCreatableService

\* So does one that ends.
LEMMA FinishIds ==
    ASSUME SingleInv, FinishCreate, NEW i, Finished(i)
    PROVE  (creating \ StackIds)' = creating \ StackIds /\ Top.id \in StackIds
  <1> DEFINE n == Len(stack)
  <1>1. n \in Nat /\ n # 0 /\ DOMAIN stack = 1 .. n /\ Top = stack[n]
    BY FrameType DEF FinishCreate, SingleInv, Top
  <1>2. DOMAIN stack' = 1 .. n - 1 /\ \A k \in 1 .. n - 1 : stack'[k].id = stack[k].id
    BY DEF Finished
  <1>3. StackIds' = {stack[k].id : k \in 1 .. n - 1}
    BY <1>2 DEF StackIds
  <1>4. StackIds = {stack[k].id : k \in 1 .. n - 1} \cup {Top.id}
    <2>1. 1 .. n = (1 .. n - 1) \cup {n}
      BY <1>1
    <2>2. QED
      BY <1>1, <2>1 DEF StackIds
  <1>5. creating' = creating \ {Top.id}
    BY DEF Finished
  <1> HIDE DEF n
  <1>6. QED
    BY <1>3, <1>4, <1>5

\* The caller asks for a service that is not at hand.
LEMMA CallBegins ==
    ASSUME SingleInv, StuckInv, NEW id \in Id, GetService(id), BeginCreate(id),
           ~Available(id), descriptor[id] # "none", CheckCreatableService(id),
           result' = "none"
    PROVE  DecideInv'
  <1> DEFINE before == {d \in Id : Available(d)}
             since == CreatableFrom(before, creating)
  <1>1. stack = <<>> /\ cleaning = "no" /\ (expected' <=> id \in since)
    <2>1. stack = <<>> /\ stuck = creating
      BY DEF GetService, Ready, StuckInv, StackIds
    <2>2. QED
      BY <2>1 DEF GetService, Ready, Creatable
  <1>2. Len(stack) = 0 /\ DOMAIN stack = {} /\ StackIds = {}
    BY <1>1 DEF StackIds
  <1>3. /\ DOMAIN stack' = 1 .. Len(stack) + 1 /\ stack' # <<>>
        /\ stack'[Len(stack) + 1].id = id /\ DOMAIN stack'[Len(stack) + 1].got = {}
    BY PushFrame DEF SingleInv
  <1>4. stack'[1].id = id /\ DOMAIN stack'[1].got = {} /\ DOMAIN stack' = {1}
    BY <1>2, <1>3
  <1>5. UNCHANGED <<needs, descriptor, singleton>> /\ before = {d \in Id : Available(d)'}
    BY DEF BeginCreate, Available
  <1>6. (creating \ StackIds)' = creating
    BY <1>2, PushIds DEF SingleInv
  <1>7. ASSUME NEW A, A = before PROVE CallInv(A)'
    <2>1. CreatableSince(A)' = since
      BY <1>5, <1>6, <1>7, SinceThen
    <2> HIDE DEF since
    <2>2. QED
      BY <1>1, <1>4, <1>5, <1>7, <2>1 DEF CallInv, Available
  <1>8. \E A \in SUBSET Id : CallInv(A)'
    BY <1>7
  <1>9. cleaning' = "no"
    BY <1>1 DEF BeginCreate, cleanVars
  <1>10. QED
    BY <1>3, <1>8, <1>9 DEF DecideInv, Decided, Ready

\* The innermost creation needs a service that is made first.
LEMMA CallGoesDown ==
    ASSUME SingleInv, DecideInv, NEW d \in Id, d \in needs[Top.id], stack # <<>>,
           BeginCreate(d), ~Available(d), descriptor[d] # "none", CheckCreatableService(d),
           UNCHANGED <<result, expected>>
    PROVE  DecideInv'
  <1>1. /\ Len(stack) \in Nat /\ DOMAIN stack = 1 .. Len(stack) /\ Len(stack) # 0
        /\ Top = stack[Len(stack)]
    BY FrameType DEF SingleInv, Top
  <1>2. /\ DOMAIN stack' = 1 .. Len(stack) + 1 /\ stack' # <<>>
        /\ \A k \in DOMAIN stack : stack'[k] = stack[k]
        /\ stack'[Len(stack) + 1].id = d /\ DOMAIN stack'[Len(stack) + 1].got = {}
    BY PushFrame DEF SingleInv
  <1>3. PICK before \in SUBSET Id : CallInv(before)
    BY DEF DecideInv
  <1>4. /\ UNCHANGED <<needs, descriptor, singleton, cleaning>>
        /\ \A x \in Id : Available(x)' <=> Available(x)
    BY DEF BeginCreate, Available, cleanVars
  <1>5. CreatableSince(before)' = CreatableSince(before)
    BY <1>4, PushIds, SinceThen DEF SingleInv, CreatableSince
  <1>6. expected => d \in CreatableSince(before)
    <2>1. expected => Top.id \in CreatableSince(before)
      BY <1>1, <1>3 DEF CallInv
    <2>2. d \notin before
      BY <1>3 DEF CallInv
    <2>3. QED
      BY <2>1, <2>2, CreatableOnly DEF CreatableSince
  <1>7. CallInv(before)'
    <2>1. \A k \in DOMAIN stack' : k \in DOMAIN stack \/ k = Len(stack) + 1
      BY <1>1, <1>2
    <2>2. 1 \in DOMAIN stack
      BY <1>1
    <2>3. {x \in Id : Available(x)}' = {x \in Id : Available(x)}
      BY <1>4
    <2> DEFINE since == CreatableSince(before)
    <2>4. since' = since /\ (expected => d \in since)
      BY <1>5, <1>6
    <2>5. /\ before \subseteq {x \in Id : Available(x)}
          /\ {x \in Id : Available(x)} \subseteq before \cup since
          /\ expected <=> stack[1].id \in since
          /\ \A k \in DOMAIN stack : /\ descriptor[stack[k].id] # "none"
                                     /\ DOMAIN stack[k].got \subseteq before \cup since
                                     /\ expected => stack[k].id \in since
      BY <1>3 DEF CallInv
    <2>6. \A k \in DOMAIN stack' : /\ descriptor'[stack'[k].id] # "none"
                                   /\ DOMAIN stack'[k].got \subseteq before \cup since
                                   /\ expected' => stack'[k].id \in since
      <3> HIDE DEF since
      <3>1. QED
        BY <1>2, <1>4, <2>1, <2>4, <2>5
    <2>7. expected' <=> stack'[1].id \in since
      <3> HIDE DEF since
      <3>1. QED
        BY <1>2, <2>2, <2>5
    <2>8. QED
      BY <2>3, <2>4, <2>5, <2>6, <2>7 DEF CallInv
  <1>8. QED
    BY <1>2, <1>4, <1>7 DEF DecideInv, Decided, Ready, SingleInv, StackInv

\* The innermost creation is given a singleton that is at hand.
LEMMA CallIsGiven ==
    ASSUME SingleInv, DecideInv, NEW d \in Id, stack # <<>>, Available(d),
           stack' = [stack EXCEPT ![Len(stack)].got =
                        [e \in DOMAIN Top.got \cup {d} |->
                            IF e = d THEN singleton[d] ELSE Top.got[e]]],
           UNCHANGED <<needs, descriptor, singleton, creating, cleaning, result, expected>>
    PROVE  DecideInv'
  <1>1. Len(stack) \in DOMAIN stack /\ 1 \in DOMAIN stack /\ Top = stack[Len(stack)]
    BY FrameType DEF SingleInv, Top
  <1>2. /\ DOMAIN stack' = DOMAIN stack /\ stack' # <<>>
        /\ \A k \in DOMAIN stack : stack'[k].id = stack[k].id
        /\ \A k \in DOMAIN stack : k # Len(stack) => stack'[k] = stack[k]
        /\ DOMAIN stack'[Len(stack)].got = DOMAIN Top.got \cup {d}
    <2>1. singleton[d] \in Instance
      BY DEF Available, SingleInv, ProviderTypeOK
    <2>2. QED
      BY <2>1, ResolveFrame DEF SingleInv
  <1>3. PICK before \in SUBSET Id : CallInv(before)
    BY DEF DecideInv
  <1> DEFINE since == CreatableSince(before)
  <1>4. since' = since
    <2>1. StackIds' = StackIds
      BY <1>2 DEF StackIds
    <2>2. QED
      BY <2>1, SinceThen DEF CreatableSince
  <1>5. /\ before \subseteq {x \in Id : Available(x)}
        /\ {x \in Id : Available(x)} \subseteq before \cup since
        /\ expected <=> stack[1].id \in since
        /\ \A k \in DOMAIN stack : /\ descriptor[stack[k].id] # "none"
                                   /\ DOMAIN stack[k].got \subseteq before \cup since
                                   /\ expected => stack[k].id \in since
    BY <1>3 DEF CallInv
  <1>6. {x \in Id : Available(x)}' = {x \in Id : Available(x)}
    BY DEF Available
  <1>7. CallInv(before)'
    <2>1. \A k \in DOMAIN stack' : /\ descriptor'[stack'[k].id] # "none"
                                   /\ DOMAIN stack'[k].got \subseteq before \cup since
                                   /\ expected' => stack'[k].id \in since
      <3> HIDE DEF since
      <3>1. QED
        BY <1>1, <1>2, <1>5
    <2>2. expected' <=> stack'[1].id \in since
      <3> HIDE DEF since
      <3>1. QED
        BY <1>1, <1>2, <1>5
    <2>3. QED
      BY <1>4, <1>5, <1>6, <2>1, <2>2 DEF CallInv
  <1>8. QED
    BY <1>2, <1>7 DEF DecideInv, Decided, Ready, SingleInv, StackInv

\* A dependency that is not registered, or is being created, means that what
\* was asked for cannot be created: without the services that need each other
\* in a circle what can be created would still suffice.
LEMMA CallIsRefused ==
    ASSUME SingleInv, ChainInv, DecideInv, NEW d \in Id, d \in needs[Top.id], stack # <<>>,
           descriptor[d] = "none" \/ (~Available(d) /\ ~CheckCreatableService(d))
    PROVE  ~expected
  <1> SUFFICES ASSUME expected PROVE FALSE
    OBVIOUS
  <1> DEFINE n == Len(stack)
             busy == creating \ StackIds
  <1>1. n \in Nat /\ DOMAIN stack = 1 .. n /\ n # 0 /\ Top = stack[n]
    BY FrameType DEF SingleInv, Top
  <1>2. PICK before \in SUBSET Id : CallInv(before)
    BY DEF DecideInv
  <1> DEFINE since == CreatableFrom(before, busy)
  <1>3. before \subseteq {x \in Id : Available(x)} /\ Top.id \in since
    <2>1. n \in DOMAIN stack /\ since = CreatableSince(before)
      BY <1>1 DEF CreatableSince
    <2>2. QED
      BY <1>1, <1>2, <2>1 DEF CallInv
  <1>4. d \in before \cup since
    BY <1>3, CreatableOnly
  <1>5. ~Available(d)
    BY DEF Available
  <1>6. d \in since /\ descriptor[d] # "none" /\ d \notin busy /\ d \in creating
    BY <1>3, <1>4, <1>5, CreatableOnly DEF CheckCreatableService
  <1>7. PICK j \in 1 .. n : stack[j].id = d
    BY <1>1, <1>6 DEF StackIds
  <1> DEFINE circle == {stack[k].id : k \in j .. n}
  <1>8. ASSUME NEW x \in circle PROVE ~Available(x) /\ needs[x] \cap circle # {}
    <2>1. PICK k \in j .. n : x = stack[k].id
      BY <1>8
    <2>2. k \in 1 .. n /\ ~Available(x)
      BY <1>1, <1>7, <2>1 DEF SingleInv, StackInv
    <2>3. CASE k = n
      <3>1. d \in circle
        BY <1>1, <1>7
      <3>2. QED
        BY <1>1, <2>1, <2>2, <2>3, <3>1
    <2>4. CASE k # n
      <3>1. k \in 1 .. n - 1 /\ k + 1 \in j .. n
        <4>1. \A m \in Nat : \A a \in 1 .. m : \A l \in a .. m :
                 l # m => l \in 1 .. m - 1 /\ l + 1 \in a .. m
          OBVIOUS
        <4>2. QED
          BY <1>1, <1>7, <2>1, <2>4, <4>1
      <3>2. stack[k + 1].id \in needs[x] /\ stack[k + 1].id \in circle
        BY <2>1, <3>1 DEF ChainInv
      <3>3. QED
        BY <2>2, <3>2
    <2>5. QED
      BY <2>3, <2>4
  <1>9. Suffices(since \ circle, before, busy)
    <2> SUFFICES ASSUME NEW x \in Id, descriptor[x] # "none", x \notin busy,
                        needs[x] \subseteq before \cup (since \ circle)
                 PROVE  x \in since \ circle
      BY DEF Suffices
    <2>1. x \in since
      <3>1. Suffices(since, before, busy)
        BY CreatableSuffices
      <3> HIDE DEF since, busy, circle
      <3>2. QED
        BY <3>1 DEF Suffices
    <2>2. x \notin circle
      <3>1. ASSUME x \in circle PROVE FALSE
        <4>1. PICK y \in circle : y \in needs[x]
          BY <1>8, <3>1
        <4>2. y \in before
          BY <4>1
        <4>3. QED
          BY <1>3, <1>8, <4>1, <4>2
      <3>2. QED
        BY <3>1
    <2>3. QED
      BY <2>1, <2>2
  <1>10. since \subseteq since \ circle
    <2>1. since \ circle \in SUBSET Id
      BY CreatableSuffices
    <2>2. QED
      BY <1>9, <2>1, CreatableLeast
  <1>11. d \in circle
    BY <1>1, <1>7
  <1>12. QED
    BY <1>6, <1>10, <1>11

\* A service that has all its dependencies could have been created.
LEMMA CallFinishes ==
    ASSUME SingleInv, ChainInv, DecideInv, FinishCreate
    PROVE  DecideInv'
  <1> DEFINE n == Len(stack)
             id == Top.id
  <1>1. PICK i : Finished(i)
    BY FinishFrame DEF SingleInv
  <1>2. /\ n \in Nat /\ n # 0 /\ DOMAIN stack = 1 .. n /\ Top = stack[n] /\ id \in Id
        /\ stack # <<>> /\ cleaning = "no"
    BY FrameType DEF FinishCreate, SingleInv, Top, StackInv
  <1>3. PICK before \in SUBSET Id : CallInv(before)
    BY <1>2 DEF DecideInv
  <1> DEFINE since == CreatableSince(before)
  <1>4. /\ before \subseteq {x \in Id : Available(x)}
        /\ {x \in Id : Available(x)} \subseteq before \cup since
        /\ expected <=> stack[1].id \in since
        /\ \A k \in DOMAIN stack : /\ descriptor[stack[k].id] # "none"
                                   /\ DOMAIN stack[k].got \subseteq before \cup since
                                   /\ expected => stack[k].id \in since
    BY <1>3 DEF CallInv
  <1>5. /\ UNCHANGED <<needs, descriptor, cleaning, expected>>
        /\ DOMAIN Top.got = needs[id]
    BY DEF FinishCreate, cleanVars
  <1>6. since' = since /\ id \in StackIds
    BY <1>1, <1>5, FinishIds, SinceThen DEF CreatableSince
  <1>7. id \in since
    <2>1. needs[id] \subseteq before \cup since /\ descriptor[id] # "none"
      BY <1>2, <1>4, <1>5
    <2>2. id \notin creating \ StackIds
      BY <1>6
    <2>3. Suffices(since, before, creating \ StackIds)
      BY CreatableSuffices DEF CreatableSince
    <2> HIDE DEF since, id
    <2>4. QED
      BY <1>2, <2>1, <2>2, <2>3 DEF Suffices
  <1>8. CASE n = 1
    <2>1. stack' = <<>> /\ result' = "service" /\ (expected' <=> stack[1].id \in since)
      BY <1>1, <1>4, <1>5, <1>8 DEF Finished
    <2>2. stack[1].id \in since
      BY <1>2, <1>7, <1>8
    <2>3. QED
      BY <1>2, <1>5, <2>1, <2>2 DEF DecideInv, Decided
  <1>9. CASE n # 1
    <2>1. /\ DOMAIN stack' = 1 .. n - 1 /\ stack' # <<>> /\ result' = "none"
          /\ \A k \in 1 .. n - 1 : stack'[k].id = stack[k].id
          /\ \A k \in 1 .. n - 2 : stack'[k] = stack[k]
          /\ DOMAIN stack'[n - 1].got = DOMAIN stack[n - 1].got \cup {id}
      BY <1>1, <1>2, <1>9 DEF Finished
    <2>2. {x \in Id : Available(x)}' \subseteq {x \in Id : Available(x)} \cup {id}
      BY <1>1, <1>2, <1>5 DEF Finished, Available, SingleInv, ProviderTypeOK
    <2>3. {x \in Id : Available(x)} \subseteq {x \in Id : Available(x)}'
      <3>1. i # None
        BY <1>1, NoneAssumption DEF Finished
      <3>2. QED
        BY <1>1, <1>2, <1>5, <3>1 DEF Finished, Available, SingleInv, ProviderTypeOK
    <2>4. /\ before \subseteq {x \in Id : Available(x)}'
          /\ {x \in Id : Available(x)}' \subseteq before \cup since
      BY <1>4, <1>7, <2>2, <2>3
    <2>5. \A k \in DOMAIN stack' : /\ descriptor'[stack'[k].id] # "none"
                                   /\ DOMAIN stack'[k].got \subseteq before \cup since
                                   /\ expected' => stack'[k].id \in since
      <3> HIDE DEF since
      <3> SUFFICES ASSUME NEW k \in 1 .. n - 1
                   PROVE  /\ descriptor'[stack'[k].id] # "none"
                          /\ DOMAIN stack'[k].got \subseteq before \cup since
                          /\ expected' => stack'[k].id \in since
        BY <2>1
      <3>1. k \in DOMAIN stack /\ (k \in 1 .. n - 2 \/ k = n - 1)
        <4>1. \A m \in Nat : \A l \in 1 .. m - 1 :
                 l \in 1 .. m /\ (l \in 1 .. m - 2 \/ l = m - 1)
          OBVIOUS
        <4>2. QED
          BY <1>2, <4>1
      <3>2. DOMAIN stack'[k].got \subseteq DOMAIN stack[k].got \cup {id}
        BY <2>1, <3>1
      <3>3. QED
        BY <1>4, <1>5, <1>7, <2>1, <3>1, <3>2
    <2>6. expected' <=> stack'[1].id \in since
      <3> HIDE DEF since
      <3>1. 1 \in 1 .. n - 1
        BY <1>2, <1>9
      <3>2. QED
        BY <1>4, <1>5, <2>1, <3>1
    <2>7. CallInv(before)'
      BY <1>6, <2>4, <2>5, <2>6 DEF CallInv
    <2>8. QED
      BY <1>2, <1>5, <2>1, <2>7 DEF DecideInv, Decided, Ready
  <1>10. QED
    BY <1>8, <1>9

\* Without a call in progress only the result counts.
LEMMA NoCall ==
    ASSUME stack' = <<>>, cleaning' # "no" => result' = "none",
           result' \in {"none", "failed"} \/ (result' = "service" <=> expected')
    PROVE  DecideInv'
  BY DEF DecideInv, Decided

\* The steps, with or without a call in progress.
LEMMA NextDecides ==
    SingleInv /\ SingleInv' /\ ChainInv /\ StuckInv /\ DecideInv /\ [Next]_vars
        => DecideInv'
  <1> SUFFICES ASSUME SingleInv, SingleInv', ChainInv, StuckInv, DecideInv, [Next]_vars
               PROVE  DecideInv'
    OBVIOUS
  <1>1. ASSUME VoidCall, stack' = stack PROVE DecideInv'
    BY <1>1, NoCall DEF VoidCall, Ready
  <1>2. ASSUME NEW id \in Id, GetService(id) PROVE DecideInv'
    <2> DEFINE available == {x \in Id : Available(x)}
    <2>1. /\ stack = <<>> /\ cleaning = "no"
          /\ expected' = (Available(id) \/ id \in CreatableFrom(available, creating))
      <3>1. stack = <<>> /\ stuck = creating
        BY <1>2 DEF GetService, Ready, StuckInv, StackIds
      <3>2. QED
        BY <1>2, <3>1 DEF GetService, Ready, Creatable
    <2>2. descriptor[id] = "none" => ~expected'
      BY <2>1, CreatableOnly DEF Available
    <2>3. ~Available(id) /\ ~CheckCreatableService(id) => ~expected'
      BY <2>1, CreatableOnly DEF CheckCreatableService
    <2>4. CASE /\ descriptor[id] # "none" /\ ~Available(id) /\ CheckCreatableService(id)
               /\ BeginCreate(id) /\ result' = "none"
      BY <1>2, <2>4, CallBegins
    <2>5. CASE descriptor[id] = "none" /\ result' = "null" /\ UNCHANGED <<stack, cleanVars>>
      BY <2>1, <2>2, <2>5, NoCall DEF cleanVars
    <2>6. CASE Available(id) /\ result' = "service" /\ UNCHANGED <<stack, cleanVars>>
      BY <2>1, <2>6, NoCall DEF cleanVars
    <2>7. CASE /\ ~Available(id) /\ ~CheckCreatableService(id) /\ result' = "thrown"
               /\ UNCHANGED <<stack, cleanVars>>
      BY <2>1, <2>3, <2>7, NoCall DEF cleanVars
    <2>8. QED
      BY <1>2, <2>4, <2>5, <2>6, <2>7 DEF GetService
  <1>3. CASE FactoryThrows
    BY <1>3, NoCall DEF FactoryThrows, Throw, cleanVars, SingleInv, StackInv
  <1>4. ASSUME NEW d \in Id, ResolveDependency(d) PROVE DecideInv'
    <2>1. stack # <<>> /\ d \in needs[Top.id] /\ cleaning = "no"
      BY <1>4 DEF ResolveDependency, SingleInv, StackInv
    <2>2. CASE /\ descriptor[d] # "none" /\ ~Available(d) /\ CheckCreatableService(d)
               /\ BeginCreate(d) /\ UNCHANGED <<result, expected>>
      BY <2>1, <2>2, CallGoesDown
    <2>3. CASE /\ descriptor[d] = "none" \/ (~Available(d) /\ ~CheckCreatableService(d))
               /\ Throw("thrown")
      <3>1. ~expected
        BY <2>1, <2>3, CallIsRefused
      <3>2. QED
        BY <2>1, <2>3, <3>1, NoCall DEF Throw, cleanVars
    <2>4. CASE /\ Available(d)
               /\ stack' = [stack EXCEPT ![Len(stack)].got =
                               [e \in DOMAIN Top.got \cup {d} |->
                                   IF e = d THEN singleton[d] ELSE Top.got[e]]]
               /\ UNCHANGED <<needs, descriptor, singleton, creating, instanceVars, cleanVars,
                              result, historyVars>>
      BY <2>1, <2>4, CallIsGiven DEF cleanVars, historyVars
    <2>5. QED
      BY <1>4, <2>2, <2>3, <2>4 DEF ResolveDependency
  <1>5. ASSUME NEW i \in Instance, Drop(i) PROVE DecideInv'
    BY <1>1, <1>5 DEF Drop
  <1>6. ASSUME NEW how \in {"once", "all"}, CleanBegin(how) PROVE DecideInv'
    BY <1>1, <1>6 DEF CleanBegin
  <1>7. ASSUME CleanPassEnds \/ \E id \in Id : CleanVisit(id) PROVE DecideInv'
    <2>1. stack = <<>> /\ stack' = <<>> /\ result = "none" /\ result' = "none"
      BY <1>7 DEF CleanPassEnds, CleanVisit, DecideInv, SingleInv, StackInv
    <2>2. QED
      BY <2>1, NoCall
  <1>8. CASE UNCHANGED vars
    <2>1. \A before : CreatableSince(before)' = CreatableSince(before)
      BY <1>8 DEF vars, CreatableSince, CreatableFrom, Suffices, StackIds
    <2>2. \A before : CallInv(before)' <=> CallInv(before)
      BY <1>8, <2>1 DEF vars, historyVars, CallInv, Available
    <2>3. QED
      BY <1>8, <2>2 DEF vars, cleanVars, historyVars, DecideInv, Decided, Ready
  <1>9. ASSUME NEW id \in Id, AddSingleton(id) \/ AddTransient(id) \/ DeleteDescriptor(id)
        PROVE  DecideInv'
    BY <1>1, <1>9 DEF AddSingleton, AddTransient, DeleteDescriptor
  <1>10. QED
    BY <1>2, <1>3, <1>4, <1>5, <1>6, <1>7, <1>8, <1>9, CallFinishes
       DEF Next, CallStep, CleanStep

\* Only an exception leaves ids behind, and an id that obstructs is not the
\* reason for a null pointer.
LEMMA NextStuck == SingleInv /\ StuckInv /\ [Next]_vars => StuckInv'
  <1> SUFFICES ASSUME SingleInv, StuckInv, [Next]_vars PROVE StuckInv'
    OBVIOUS
  <1>1. ASSUME VoidCall, UNCHANGED <<stuck, creating, stack>> PROVE StuckInv'
    BY <1>1 DEF VoidCall, StuckInv, StackIds
  <1>2. ASSUME NEW outcome \in {"thrown", "failed"}, Throw(outcome) PROVE StuckInv'
    <2>1. StackIds \subseteq creating
      BY DEF StackIds, SingleInv, StackInv
    <2>2. StackIds' = {} /\ stuck' = stuck \cup StackIds /\ creating' = creating
      BY <1>2 DEF Throw, StackIds
    <2>3. QED
      BY <1>2, <2>1, <2>2 DEF Throw, StuckInv
  <1>3. ASSUME NEW id \in Id, GetService(id) PROVE StuckInv'
    <2>1. stuck' = (creating \ StackIds)'
      <3>1. CASE BeginCreate(id) /\ CheckCreatableService(id)
        BY <3>1, PushIds DEF BeginCreate, StuckInv, SingleInv
      <3>2. CASE UNCHANGED <<stuck, creating, stack>>
        BY <3>2 DEF StuckInv, StackIds
      <3>3. QED
        BY <1>3, <3>1, <3>2 DEF GetService
    <2>2. obstructed' => ~expected' /\ descriptor[id] # "none"
      BY <1>3, CreatableOnly DEF GetService, Creatable
    <2>3. /\ result' \in {"none", "null", "service", "thrown", "failed"}
          /\ descriptor[id] # "none" => result' # "null"
      BY <1>3 DEF GetService
    <2>4. QED
      BY <2>1, <2>2, <2>3 DEF StuckInv
  <1>4. ASSUME NEW d \in Id, ResolveDependency(d) PROVE StuckInv'
    <2>1. CASE BeginCreate(d) /\ CheckCreatableService(d) /\ UNCHANGED <<result, expected, obstructed>>
      BY <2>1, PushIds DEF BeginCreate, StuckInv, SingleInv
    <2>2. CASE Throw("thrown")
      BY <1>2, <2>2
    <2>3. CASE /\ Available(d)
               /\ stack' = [stack EXCEPT ![Len(stack)].got =
                               [e \in DOMAIN Top.got \cup {d} |->
                                   IF e = d THEN singleton[d] ELSE Top.got[e]]]
               /\ UNCHANGED <<stuck, creating, result, historyVars>>
      <3>1. singleton[d] \in Instance /\ stack # <<>>
        BY <1>4, <2>3 DEF Available, ResolveDependency, SingleInv, ProviderTypeOK
      <3>2. DOMAIN stack' = DOMAIN stack /\ \A k \in DOMAIN stack : stack'[k].id = stack[k].id
        BY <2>3, <3>1, ResolveFrame DEF SingleInv
      <3>3. StackIds' = StackIds
        BY <3>2 DEF StackIds
      <3>4. QED
        BY <2>3, <3>3 DEF StuckInv, historyVars
    <2>4. QED
      BY <1>4, <2>1, <2>2, <2>3 DEF ResolveDependency
  <1>5. CASE FinishCreate
    <2>1. PICK i : Finished(i)
      BY <1>5, FinishFrame DEF SingleInv
    <2>2. (creating \ StackIds)' = creating \ StackIds
      BY <1>5, <2>1, FinishIds
    <2>3. result' \in {"service", "none"} /\ UNCHANGED <<stuck, expected, obstructed>>
      BY <1>5, <2>1 DEF FinishCreate, Finished
    <2>4. QED
      BY <2>2, <2>3 DEF StuckInv
  <1>6. ASSUME CleanPassEnds \/ (\E id \in Id : CleanVisit(id)) \/ UNCHANGED vars
        PROVE  StuckInv'
    <2>1. UNCHANGED <<stuck, creating, stack, result, expected, obstructed>>
      <3>1. CASE CleanPassEnds
        BY <3>1 DEF CleanPassEnds, historyVars
      <3>2. CASE \E id \in Id : CleanVisit(id)
        BY <3>2 DEF CleanVisit
      <3>3. CASE UNCHANGED vars
        BY <3>3 DEF vars, historyVars
      <3>4. QED
        BY <1>6, <3>1, <3>2, <3>3
    <2>2. StackIds' = StackIds
      BY <2>1 DEF StackIds
    <2>3. QED
      BY <2>1, <2>2 DEF StuckInv
  <1>7. ASSUME \/ \E id \in Id : AddSingleton(id) \/ AddTransient(id) \/ DeleteDescriptor(id)
               \/ \E i \in Instance : Drop(i)
               \/ \E how \in {"once", "all"} : CleanBegin(how)
        PROVE  StuckInv'
    BY <1>1, <1>7 DEF AddSingleton, AddTransient, DeleteDescriptor, Drop, CleanBegin
  <1>8. QED
    BY <1>2, <1>3, <1>4, <1>5, <1>6, <1>7 DEF Next, CallStep, CleanStep, FactoryThrows

\* For any services and wirings and whatever is registered: GetService returns a
\* service when one can be built without creating an id again that an exception
\* has left in m_creatingServiceHash, throws when one can be built only with such
\* an id, and otherwise returns none.
THEOREM CreatableIsCreated == Spec => []GetServiceDecides
  <1>1. Init => ChainInv /\ StuckInv /\ DecideInv
    <2> SUFFICES ASSUME Init PROVE ChainInv /\ StuckInv /\ DecideInv
      OBVIOUS
    <2>1. Len(stack) = 0
      BY DEF Init
    <2>2. \A k \in 1 .. 0 - 1 : FALSE
      OBVIOUS
    <2>3. QED
      BY <2>1, <2>2 DEF Init, ChainInv, StuckInv, StackIds, DecideInv, Decided
  <1>2. StuckInv /\ DecideInv => GetServiceDecides
    BY DEF StuckInv, DecideInv, Decided, GetServiceDecides
  <1>3. QED
    BY <1>1, <1>2, InitSingle, NextSingle, NextChain, NextStuck, NextDecides, PTL DEF Spec

-----------------------------------------------------------------------------
\* What exists is what is referred to.

\* What a call in progress has in its hands.
LEMMA InHandIs ==
    ASSUME NEW frames
    PROVE  \A i : i \in InHand(frames) <=>
               \E k \in DOMAIN frames : \E e \in DOMAIN frames[k].got : i = frames[k].got[e]
  BY DEF InHand

\* After a release, what was referred to still exists, and nothing else does.
LEMMA ReleaseLive ==
    ASSUME SingleInv, LiveInv, Release(live, uses, singleton', held', <<>>),
           stack' = <<>>, held' \subseteq held,
           singleton' = singleton \/ \E id \in Id : singleton' = [singleton EXCEPT ![id] = None]
    PROVE  LiveInv'
  <1> DEFINE roots == {singleton'[id] : id \in Id} \cup held' \cup InHand(<<>>)
  <1>1. /\ live' \subseteq live
        /\ \A i \in live' : uses'[i] = uses[i]
    BY ReleaseType DEF SingleInv
  <1>2. /\ live \cap roots \subseteq live'
        /\ \A i \in live' : i \in roots \/ \E j \in live' : i \in uses[j]
        /\ \A j \in live' : \A i \in uses[j] \cap live : i \in live'
    <2>1. live' = Kept(live, uses, roots)
      BY DEF Release
    <2> HIDE DEF roots
    <2>2. QED
      BY <2>1, KeptFacts
  <1>3. InHand(<<>>) = {} /\ InHand(stack') = {}
    BY InHandIs
  <1>4. held' \subseteq live' /\ singleton' \in [Id -> live' \cup {None}]
    <2>1. singleton' \in [Id -> live \cup {None}]
      BY DEF LiveInv
    <2>2. \A id \in Id : singleton'[id] \in live' \cup {None}
      BY <1>2, <2>1
    <2>3. held' \subseteq live'
      BY <1>2 DEF LiveInv
    <2> HIDE DEF roots
    <2>4. QED
      BY <2>1, <2>2, <2>3
  <1>5. \A j \in live' : uses'[j] \subseteq live'
    BY <1>1, <1>2 DEF LiveInv
  <1>6. \A i \in live' : \/ i \in {singleton'[id] : id \in Id} \cup held' \cup InHand(stack')
                         \/ \E j \in live' : i \in uses'[j]
    BY <1>1, <1>2, <1>3
  <1>7. \A S \in SUBSET live' : S # {} => \E i \in S : \A j \in S : i \notin uses'[j]
    <2>1. SUBSET live' \subseteq SUBSET live
      BY <1>1
    <2> SUFFICES ASSUME NEW S \in SUBSET live', S # {}
                 PROVE  \E i \in S : \A j \in S : i \notin uses'[j]
      OBVIOUS
    <2>2. PICK i \in S : \A j \in S : i \notin uses[j]
      BY <2>1 DEF LiveInv
    <2>3. QED
      BY <1>1, <2>2
  <1>8. QED
    BY <1>3, <1>4, <1>5, <1>6, <1>7 DEF LiveInv

\* A creation begins with nothing in hand.
LEMMA PushLive ==
    ASSUME SingleInv, LiveInv, NEW id \in Id, BeginCreate(id)
    PROVE  LiveInv'
  <1>1. /\ Len(stack) \in Nat /\ DOMAIN stack = 1 .. Len(stack)
        /\ DOMAIN stack' = 1 .. Len(stack) + 1
        /\ \A k \in DOMAIN stack : stack'[k] = stack[k]
        /\ DOMAIN stack'[Len(stack) + 1].got = {}
    BY FrameType, PushFrame DEF SingleInv
  <1>2. \A k \in DOMAIN stack' : k \in DOMAIN stack \/ k = Len(stack) + 1
    BY <1>1
  <1>3. DOMAIN stack \subseteq DOMAIN stack'
    BY <1>1
  <1>4. InHand(stack') = InHand(stack)
    <2>1. \A i : i \in InHand(stack') <=> i \in InHand(stack)
      BY <1>1, <1>2, <1>3, InHandIs
    <2>2. QED
      BY <2>1
  <1>5. QED
    BY <1>4 DEF BeginCreate, instanceVars, LiveInv

\* The call may take what exists into its hands.
LEMMA HandLive ==
    ASSUME LiveInv, NEW d \in Id, singleton[d] \in live,
           InHand(stack') = InHand(stack) \cup {singleton[d]},
           UNCHANGED <<singleton, live, uses, held>>
    PROVE  LiveInv'
  BY DEF LiveInv

\* A singleton is given to the innermost creation as well.
LEMMA GiveLive ==
    ASSUME SingleInv, LiveInv, NEW d \in Id, stack # <<>>, singleton[d] \in live,
           d \notin DOMAIN Top.got, DOMAIN stack' = DOMAIN stack,
           \A k \in DOMAIN stack : k # Len(stack) => stack'[k] = stack[k],
           DOMAIN stack'[Len(stack)].got = DOMAIN Top.got \cup {d},
           stack'[Len(stack)].got[d] = singleton[d],
           \A e \in DOMAIN Top.got : stack'[Len(stack)].got[e] = Top.got[e],
           UNCHANGED <<singleton, instanceVars>>
    PROVE  LiveInv'
  <1>1. Len(stack) \in DOMAIN stack /\ Top = stack[Len(stack)]
    BY FrameType DEF SingleInv, Top
  <1>2. InHand(stack') = InHand(stack) \cup {singleton[d]}
    <2> DEFINE n == Len(stack)
    <2>1. /\ n \in DOMAIN stack
          /\ DOMAIN stack' = DOMAIN stack
          /\ \A k \in DOMAIN stack : k # n => stack'[k] = stack[k]
          /\ DOMAIN stack'[n].got = DOMAIN stack[n].got \cup {d}
          /\ stack'[n].got[d] = singleton[d]
          /\ d \notin DOMAIN stack[n].got
          /\ \A e \in DOMAIN stack[n].got : stack'[n].got[e] = stack[n].got[e]
      BY <1>1
    <2> HIDE DEF n
    <2>2. ASSUME NEW x, x \in InHand(stack') PROVE x \in InHand(stack) \cup {singleton[d]}
      <3>1. PICK k \in DOMAIN stack : \E e \in DOMAIN stack'[k].got : x = stack'[k].got[e]
        BY <2>1, <2>2, InHandIs
      <3>2. CASE k # n
        BY <2>1, <3>1, <3>2, InHandIs
      <3>3. CASE k = n
        BY <2>1, <3>1, <3>3, InHandIs
      <3>4. QED
        BY <3>2, <3>3
    <2>3. ASSUME NEW x, x \in InHand(stack) PROVE x \in InHand(stack')
      <3>1. PICK k \in DOMAIN stack : \E e \in DOMAIN stack[k].got : x = stack[k].got[e]
        BY <2>3, InHandIs
      <3>2. CASE k # n
        BY <2>1, <3>1, <3>2, InHandIs
      <3>3. CASE k = n
        BY <2>1, <3>1, <3>3, InHandIs
      <3>4. QED
        BY <3>2, <3>3
    <2>4. singleton[d] \in InHand(stack')
      BY <2>1, InHandIs
    <2>5. QED
      BY <2>2, <2>3, <2>4
  <1>3. QED
    BY <1>2, HandLive DEF instanceVars

\* A new service uses what its creation had in hand, and nothing uses it yet.
LEMMA FinishLive ==
    ASSUME SingleInv, ChainInv, LiveInv, FinishCreate
    PROVE  LiveInv'
  <1> DEFINE n == Len(stack)
             id == Top.id
             used == {Top.got[d] : d \in DOMAIN Top.got}
  <1>1. PICK i : Finished(i)
    BY FinishFrame DEF SingleInv
  <1>2. /\ n \in Nat /\ n # 0 /\ DOMAIN stack = 1 .. n /\ Top = stack[n] /\ id \in Id
        /\ n \in DOMAIN stack
    BY FrameType DEF FinishCreate, SingleInv, Top
  <1>3. /\ live' = live \cup {i} /\ i \in Instance /\ i \notin live
        /\ uses' = [uses EXCEPT ![i] = used]
        /\ singleton' = IF descriptor[id] = "singleton"
                        THEN [singleton EXCEPT ![id] = i] ELSE singleton
        /\ held' = IF n = 1 THEN held \cup {i} ELSE held
    BY <1>1 DEF Finished
  <1>4. used \subseteq InHand(stack) /\ used \subseteq live
    <2>1. used \subseteq InHand(stack)
      BY <1>2, InHandIs
    <2>2. QED
      BY <2>1 DEF LiveInv
  <1>5. uses'[i] = used /\ \A j \in live : uses'[j] = uses[j]
    BY <1>3 DEF SingleInv, ProviderTypeOK
  <1>6. \A x \in Id : singleton[x] # None => singleton'[x] = singleton[x]
    BY <1>2, <1>3 DEF SingleInv, StackInv, Available, ProviderTypeOK
  <1>7. /\ \A x \in InHand(stack') : x \in InHand(stack) \cup {i}
        /\ \A x \in InHand(stack) : x \in InHand(stack') \cup used
        /\ n # 1 => i \in InHand(stack')
    <2>1. CASE n = 1
      <3>1. stack' = <<>>
        BY <1>1, <2>1 DEF Finished
      <3>2. \A k \in DOMAIN stack : k = n
        BY <1>2, <2>1
      <3>3. QED
        BY <1>2, <2>1, <3>1, <3>2, InHandIs
    <2>2. CASE n # 1
      <3>1. /\ DOMAIN stack' = 1 .. n - 1 /\ n - 1 \in 1 .. n - 1
            /\ \A k \in 1 .. n - 2 : stack'[k] = stack[k]
            /\ stack'[n - 1].got = [e \in DOMAIN stack[n - 1].got \cup {id} |->
                                        IF e = id THEN i ELSE stack[n - 1].got[e]]
        BY <1>1, <1>2, <2>2 DEF Finished
      <3>2. id \notin DOMAIN stack[n - 1].got
        <4>1. (n - 1) + 1 = n
          BY <1>2
        <4>2. QED
          BY <1>2, <3>1, <4>1 DEF ChainInv
      <3>3. \A k \in 1 .. n : k \in 1 .. n - 2 \/ k = n - 1 \/ k = n
        <4>1. \A m \in Nat : \A l \in 1 .. m : l \in 1 .. m - 2 \/ l = m - 1 \/ l = m
          OBVIOUS
        <4>2. QED
          BY <1>2, <4>1
      <3>4. \A k \in 1 .. n - 1 : k \in 1 .. n /\ (k \in 1 .. n - 2 \/ k = n - 1)
        <4>1. \A m \in Nat : \A l \in 1 .. m - 1 :
                 l \in 1 .. m /\ (l \in 1 .. m - 2 \/ l = m - 1)
          OBVIOUS
        <4>2. QED
          BY <1>2, <4>1
      <3>5. \A k \in 1 .. n - 2 : k \in 1 .. n - 1
        <4>1. \A m \in Nat : \A l \in 1 .. m - 2 : l \in 1 .. m - 1
          OBVIOUS
        <4>2. QED
          BY <1>2, <4>1
      <3>6. /\ DOMAIN stack'[n - 1].got = DOMAIN stack[n - 1].got \cup {id}
            /\ stack'[n - 1].got[id] = i
            /\ \A e \in DOMAIN stack[n - 1].got : stack'[n - 1].got[e] = stack[n - 1].got[e]
        BY <3>1, <3>2
      <3>7. ASSUME NEW x \in InHand(stack') PROVE x \in InHand(stack) \cup {i}
        <4>1. PICK k \in 1 .. n - 1 : \E e \in DOMAIN stack'[k].got : x = stack'[k].got[e]
          BY <3>1, InHandIs
        <4>2. CASE k = n - 1
          BY <1>2, <3>4, <3>6, <4>1, <4>2, InHandIs
        <4>3. CASE k # n - 1
          <5>1. stack'[k] = stack[k] /\ k \in DOMAIN stack
            BY <1>2, <3>1, <3>4, <4>3
          <5>2. QED
            BY <4>1, <5>1, InHandIs
        <4>4. QED
          BY <4>2, <4>3
      <3>8. ASSUME NEW x \in InHand(stack) PROVE x \in InHand(stack') \cup used
        <4>1. PICK k \in 1 .. n : \E e \in DOMAIN stack[k].got : x = stack[k].got[e]
          BY <1>2, InHandIs
        <4>2. CASE k = n
          BY <1>2, <4>1, <4>2
        <4>3. CASE k = n - 1
          BY <3>1, <3>6, <4>1, <4>3, InHandIs
        <4>4. CASE k \in 1 .. n - 2
          <5>1. stack'[k] = stack[k] /\ k \in DOMAIN stack'
            BY <3>1, <3>5, <4>4
          <5>2. QED
            BY <4>1, <5>1, InHandIs
        <4>5. QED
          BY <3>3, <4>2, <4>3, <4>4
      <3>9. i \in InHand(stack')
        BY <3>1, <3>6, InHandIs
      <3> HIDE DEF n, used
      <3>10. QED
        BY <3>7, <3>8, <3>9
    <2>3. QED
      BY <2>1, <2>2
  <1>8. held' \cup InHand(stack') \subseteq live' /\ singleton' \in [Id -> live' \cup {None}]
    <2>1. held' \subseteq live'
      BY <1>3 DEF LiveInv
    <2>2. InHand(stack') \subseteq live'
      BY <1>3, <1>7 DEF LiveInv
    <2>3. singleton' \in [Id -> live' \cup {None}]
      BY <1>2, <1>3 DEF LiveInv
    <2>4. QED
      BY <2>1, <2>2, <2>3
  <1>9. \A j \in live' : uses'[j] \subseteq live'
    BY <1>3, <1>4, <1>5 DEF LiveInv
  <1>10. ASSUME NEW x \in live'
         PROVE  \/ x \in {singleton'[y] : y \in Id} \cup held' \cup InHand(stack')
                \/ \E j \in live' : x \in uses'[j]
    <2>1. CASE x = i
      BY <1>3, <1>7, <2>1
    <2>2. CASE x \in live /\ x \in InHand(stack)
      BY <1>3, <1>5, <1>7, <2>2
    <2>3. CASE x \in live /\ x \in held
      BY <1>3, <2>3
    <2>4. CASE x \in live /\ \E j \in live : x \in uses[j]
      BY <1>3, <1>5, <2>4
    <2>5. CASE x \in live /\ \E y \in Id : x = singleton[y]
      BY <1>6, <2>5, NoneAssumption DEF SingleInv, ProviderTypeOK
    <2>6. QED
      BY <1>3, <1>10, <2>1, <2>2, <2>3, <2>4, <2>5 DEF LiveInv
  <1>11. ASSUME NEW S \in SUBSET live', S # {} PROVE \E x \in S : \A j \in S : x \notin uses'[j]
    <2>1. CASE i \in S
      <3>1. \A j \in live' : i \notin uses'[j]
        BY <1>3, <1>4, <1>5 DEF LiveInv
      <3>2. QED
        BY <2>1, <3>1
    <2>2. CASE i \notin S
      <3>1. S \in SUBSET live
        BY <1>3, <2>2
      <3>2. PICK x \in S : \A j \in S : x \notin uses[j]
        BY <1>11, <3>1 DEF LiveInv
      <3>3. QED
        BY <1>5, <3>1, <3>2
    <2>3. QED
      BY <2>1, <2>2
  <1>12. QED
    BY <1>8, <1>9, <1>10, <1>11 DEF LiveInv

\* Every step keeps what is referred to, and no more.
LEMMA NextLive == SingleInv /\ ChainInv /\ LiveInv /\ [Next]_vars => LiveInv'
  <1> SUFFICES ASSUME SingleInv, ChainInv, LiveInv, [Next]_vars PROVE LiveInv'
    OBVIOUS
  <1>1. CASE UNCHANGED <<singleton, stack, live, uses, held>>
    BY <1>1 DEF LiveInv
  <1>2. ASSUME NEW id \in Id, GetService(id) PROVE LiveInv'
    <2>1. CASE Available(id) /\ held' = held \cup {singleton[id]}
               /\ UNCHANGED <<singleton, stack, live, uses>>
      BY <2>1 DEF Available, LiveInv
    <2>2. QED
      BY <1>1, <1>2, <2>1, PushLive DEF GetService, instanceVars
  <1>3. ASSUME NEW outcome, Throw(outcome) PROVE LiveInv'
    BY <1>3, ReleaseLive DEF Throw
  <1>4. ASSUME NEW d \in Id, ResolveDependency(d) PROVE LiveInv'
    <2>1. CASE /\ Available(d)
               /\ stack' = [stack EXCEPT ![Len(stack)].got =
                               [e \in DOMAIN Top.got \cup {d} |->
                                   IF e = d THEN singleton[d] ELSE Top.got[e]]]
               /\ UNCHANGED <<singleton, instanceVars>>
      <3>1. singleton[d] \in live /\ singleton[d] \in Instance
        BY <2>1 DEF Available, SingleInv, ProviderTypeOK, LiveInv
      <3>2. stack # <<>> /\ d \notin DOMAIN Top.got
        BY <1>4 DEF ResolveDependency
      <3>3. /\ DOMAIN stack' = DOMAIN stack
            /\ \A k \in DOMAIN stack : k # Len(stack) => stack'[k] = stack[k]
            /\ stack'[Len(stack)].got =
                  [e \in DOMAIN Top.got \cup {d} |->
                      IF e = d THEN singleton[d] ELSE Top.got[e]]
        BY <2>1, <3>1, <3>2, ResolveFrame DEF SingleInv
      <3>4. /\ DOMAIN stack'[Len(stack)].got = DOMAIN Top.got \cup {d}
            /\ stack'[Len(stack)].got[d] = singleton[d]
            /\ \A e \in DOMAIN Top.got : stack'[Len(stack)].got[e] = Top.got[e]
        BY <3>2, <3>3
      <3>5. UNCHANGED <<singleton, instanceVars>>
        BY <2>1
      <3>6. QED
        BY <3>1, <3>2, <3>3, <3>4, <3>5, GiveLive
    <2>2. QED
      BY <1>3, <1>4, <2>1, PushLive DEF ResolveDependency
  <1>5. ASSUME NEW i \in Instance, Drop(i) PROVE LiveInv'
    BY <1>5, ReleaseLive DEF Drop, VoidCall, Ready
  <1>6. ASSUME NEW id \in Id, CleanVisit(id) PROVE LiveInv'
    <2>1. stack = <<>>
      BY <1>6 DEF CleanVisit, SingleInv, StackInv
    <2>2. CASE References(singleton[id]) = 1
      BY <1>6, <2>1, <2>2, ReleaseLive DEF CleanVisit
    <2>3. CASE References(singleton[id]) # 1
      BY <1>1, <1>6, <2>3 DEF CleanVisit
    <2>4. QED
      BY <2>2, <2>3
  <1>7. CASE \/ CleanPassEnds \/ UNCHANGED vars
             \/ \E how \in {"once", "all"} : CleanBegin(how)
             \/ \E id \in Id : AddSingleton(id) \/ AddTransient(id) \/ DeleteDescriptor(id)
    BY <1>1, <1>7 DEF CleanPassEnds, CleanBegin, AddSingleton, AddTransient, DeleteDescriptor,
                      vars, instanceVars
  <1>8. QED
    BY <1>2, <1>3, <1>4, <1>5, <1>6, <1>7, FinishLive
       DEF Next, CallStep, CleanStep, FactoryThrows

\* Where no singleton and no call holds anything, all that exists is reached
\* from the caller's: what is not is used by what is not, in a circle.
LEMMA OnlyReached ==
    ASSUME SingleInv, LiveInv, Entries = {}, stack = <<>>
    PROVE  live = Reach(held)
  <1> DEFINE R == Reach(held)
  <1>1. R \subseteq live
    <2>1. /\ live \in SUBSET Instance /\ held \subseteq live
          /\ UNION {uses[j] : j \in live} \subseteq live
      BY DEF SingleInv, ProviderTypeOK, LiveInv
    <2>2. QED
      BY <2>1 DEF Reach
  <1>2. \A j \in R : \A i \in uses[j] \cap Instance : i \in R
    BY DEF Reach
  <1>3. \A i \in held \cap Instance : i \in R
    BY DEF Reach
  <1> HIDE DEF R
  <1>4. \A i \in live \ R : \E j \in live \ R : i \in uses[j]
    <2> SUFFICES ASSUME NEW i \in live \ R PROVE \E j \in live \ R : i \in uses[j]
      OBVIOUS
    <2>1. i \in Instance /\ i \notin held /\ i # None
      BY <1>3, NoneAssumption DEF SingleInv, ProviderTypeOK
    <2>2. i \notin {singleton[id] : id \in Id}
      BY <2>1 DEF Entries
    <2>3. i \notin InHand(stack)
      BY InHandIs
    <2>4. PICK j \in live : i \in uses[j]
      BY <2>1, <2>2, <2>3 DEF LiveInv
    <2>5. j \notin R
      BY <1>2, <2>1, <2>4
    <2>6. QED
      BY <2>4, <2>5
  <1>5. live \ R = {}
    BY <1>4 DEF LiveInv
  <1>6. QED
    BY <1>1, <1>5 DEF R

\* When CleanAllSingletons has returned there are no singletons, and of the
\* services only those the caller's need, however they use each other.
THEOREM CleanAllCleans == Spec => CleanAllLeavesHeld
  <1>1. Init => ChainInv /\ LiveInv
    <2> SUFFICES ASSUME Init PROVE ChainInv /\ LiveInv
      OBVIOUS
    <2>1. Len(stack) = 0 /\ InHand(stack) = {}
      BY InHandIs DEF Init
    <2>2. \A k \in 1 .. 0 - 1 : FALSE
      OBVIOUS
    <2>3. QED
      BY <2>1, <2>2 DEF Init, ChainInv, LiveInv
  <1> DEFINE Cleaned == cleaning = "all" /\ cleaning' = "no" =>
                            Entries' = {} /\ live' = Reach(held)
  <1>2. SingleInv /\ LiveInv /\ [Next]_vars => [Cleaned]_vars
    <2> SUFFICES ASSUME SingleInv, LiveInv, Next, cleaning = "all", cleaning' = "no"
                 PROVE  Entries' = {} /\ live' = Reach(held)
      OBVIOUS
    <2>1. stack = <<>>
      BY DEF SingleInv, StackInv
    <2>2. CleanPassEnds
      BY <2>1 DEF Next, CallStep, ResolveDependency, FinishCreate, FactoryThrows, CleanStep,
                  AddSingleton, AddTransient, DeleteDescriptor, GetService, Drop, CleanBegin,
                  VoidCall, Ready, CleanVisit
    <2>3. Entries = {} /\ UNCHANGED <<singleton, live>>
      BY <2>2 DEF CleanPassEnds, instanceVars
    <2>4. Entries' = {}
      BY <2>3 DEF Entries
    <2>5. QED
      BY <2>1, <2>3, <2>4, OnlyReached
  <1> HIDE DEF Cleaned
  <1>3. Spec => [][Cleaned]_vars
    BY <1>1, <1>2, InitSingle, NextSingle, NextChain, NextLive, PTL DEF Spec
  <1>4. QED
    BY <1>3 DEF Cleaned, CleanAllLeavesHeld

=============================================================================
