------------------------ MODULE CommandStateProofs ------------------------
(***************************************************************************)
(* For all pipelines, frame buffers, binding sets and bindings: what the   *)
(* cache of a CommandList leaves out, the D3D12 list already has.          *)
(***************************************************************************)
EXTENDS CommandState, FiniteSetTheorems, TLAPS

Arguments == [signature : {Signature[p] : p \in Pipeline} \cup {None},
              table : [Slot -> (Nat \X (Set \cup Table)) \cup {None}],
              cbv : [Slot -> (Buffer \X Nat) \cup {None, 0}]]

GpuType == [pipeline : Pipeline \cup {None}, framebuffer : FrameBuffer \cup {None},
            image : BOOLEAN, rate : BOOLEAN, blend : Color \cup {None},
            root : [Points -> Arguments]]

Entry == [slot : Slot, buffer : Buffer, address : (Buffer \X Nat) \cup {None}]

\* The types.  A state that is not valid is never looked at.
ListTypeOK ==
    /\ valid \in [Kinds -> BOOLEAN]
    /\ current = [k \in Kinds |-> current[k]]
    /\ \A k \in Kinds : valid[k] => current[k] \in State[k]
    /\ heap \in Nat /\ boundHeap \in Nat \cup {None}
    /\ address \in [Buffer -> (Buffer \X Nat) \cup {None}]
    /\ anyWrites \in BOOLEAN /\ late \in BOOLEAN /\ unsent \in BOOLEAN
    /\ volatileCbs \in [Points -> Seq(Entry)]
    /\ gpu \in GpuType

\* At most one state is valid.
OneValid == \A j, k \in Kinds : valid[j] /\ valid[k] => j = k

\* With no valid graphics state there is no shading rate to unbind.
RateUnbound == ~valid["graphics"] => ~gpu.rate /\ ~gpu.image

\* The colour of the valid state has been sent, or it is known that it was not.
BlendTold ==
    \A k \in Kinds : valid[k] /\ k # "compute" /\ ~unsent => gpu.blend = current[k].blend

StateInv == ListTypeOK /\ OneValid /\ RateUnbound /\ BlendTold /\ DrawSeesState

\* The bindings of a state are a short sequence of sets, tables and nothing.
LEMMA StateType ==
    ASSUME NEW k \in Kinds, NEW state \in State[k]
    PROVE  /\ state.pipeline \in Pipeline /\ KindOf[state.pipeline] = k
           /\ k # "compute" => state.framebuffer \in FrameBuffer
           /\ k = "compute" => state.framebuffer = None
           /\ state.shading \in BOOLEAN
           /\ k # "graphics" => ~state.shading
           /\ k # "compute" => state.blend \in Color
           /\ state.bindings \in Seq(Set \cup Table \cup {None})
           /\ Len(state.bindings) \in 0 .. 2
           /\ DOMAIN state.bindings = 1 .. Len(state.bindings)
           /\ DOMAIN state.bindings \subseteq Slot
  <1>1. /\ state.pipeline \in {p \in Pipeline : KindOf[p] = k}
        /\ state.framebuffer \in IF k = "compute" THEN {None} ELSE FrameBuffer
        /\ state.shading \in IF k = "graphics" THEN BOOLEAN ELSE {FALSE}
        /\ state.blend \in IF k = "compute" THEN {None} ELSE Color
        /\ state.bindings \in Seq(Set \cup Table \cup {None})
    BY StateAssumption DEF AnyState
  <1>2. /\ k # "compute" => state.framebuffer \in FrameBuffer
        /\ k = "compute" => state.framebuffer = None
        /\ state.shading \in BOOLEAN
        /\ k # "graphics" => state.shading = FALSE
        /\ k # "compute" => state.blend \in Color
    BY <1>1
  <1>3. state.bindings \in Seq(Set \cup Table \cup {None}) /\ Len(state.bindings) <= 2
    BY <1>1, StateAssumption DEF MaxSlots
  <1>4. /\ Len(state.bindings) \in 0 .. 2
        /\ DOMAIN state.bindings = 1 .. Len(state.bindings)
        /\ DOMAIN state.bindings \subseteq Slot
    <2>1. PICK b : b = state.bindings
      OBVIOUS
    <2>2. Len(b) \in Nat /\ DOMAIN b = 1 .. Len(b) /\ Len(b) <= 2
      BY <1>3, <2>1
    <2>3. 1 .. Len(b) \subseteq 1 .. 2
      BY <2>2
    <2>4. Len(b) \in 0 .. 2 /\ 1 .. Len(b) \subseteq Slot
      BY <2>2, <2>3 DEF Slot, MaxSlots
    <2>5. QED
      BY <2>1, <2>2, <2>4
  <1>5. state.pipeline \in Pipeline /\ KindOf[state.pipeline] = k
    BY <1>1
  <1>6. k # "graphics" => ~state.shading
    BY <1>2
  <1>7. QED
    BY <1>1, <1>2, <1>3, <1>4, <1>5, <1>6

-----------------------------------------------------------------------------
\* The list of volatile constant buffers.

\* Every slot with data has an entry, and every entry is that of one slot.
LEMMA NewEntries ==
    ASSUME NEW b \in Seq(Set \cup Table \cup {None})
    PROVE  LET new == NewVolatileCBs(b)
               slots == {s \in DOMAIN b : Written(b, s)}
           IN  /\ \A i \in DOMAIN new :
                    /\ new[i].slot \in slots /\ Index(b, new[i].slot) = i
                    /\ new[i].buffer = VolatileOf[b[new[i].slot]]
                    /\ new[i].address = address[new[i].buffer]
               /\ \A s \in slots : Index(b, s) \in DOMAIN new /\ new[Index(b, s)].slot = s
               /\ \E n \in Nat : DOMAIN new = 1 .. n
  <1> DEFINE new == NewVolatileCBs(b)
             slots == {s \in DOMAIN b : Written(b, s)}
             upto(s) == {r \in 1 .. s : Written(b, r)}
             place == [s \in slots |-> Index(b, s)]
             n == Cardinality(slots)
  <1>1. DOMAIN b = 1 .. Len(b) /\ Len(b) \in Nat
    OBVIOUS
  <1>2. IsFiniteSet(slots) /\ n \in Nat
    <2>1. IsFiniteSet(1 .. Len(b))
      BY <1>1, FS_Interval
    <2>2. slots \in SUBSET (1 .. Len(b))
      BY <1>1
    <2>3. IsFiniteSet(slots)
      BY <2>1, <2>2, FS_Subset
    <2>4. QED
      BY <2>3, FS_CardinalityType
  <1>3. ASSUME NEW s \in slots
        PROVE  /\ IsFiniteSet(upto(s)) /\ upto(s) \in SUBSET slots /\ s \in upto(s)
               /\ Index(b, s) \in 1 .. n
    <2>1. upto(s) \in SUBSET slots /\ s \in upto(s)
      BY <1>1
    <2>2. IsFiniteSet(upto(s)) /\ Cardinality(upto(s)) <= n
      BY <1>2, <2>1, FS_Subset
    <2>3. Cardinality(upto(s)) \in Nat /\ Cardinality(upto(s)) # 0
      BY <2>1, <2>2, FS_CardinalityType, FS_EmptySet
    <2>4. QED
      BY <1>2, <2>1, <2>2, <2>3 DEF Index
  <1>4. ASSUME NEW s \in slots, NEW t \in slots, s < t
        PROVE  Index(b, s) # Index(b, t)
    <2>1. upto(s) \in SUBSET upto(t) /\ t \notin upto(s) /\ t \in upto(t)
      BY <1>1, <1>4
    <2>2. Cardinality(upto(t)) = Cardinality(upto(s)) => upto(t) = upto(s)
      BY <1>3, <2>1, FS_Subset
    <2>3. QED
      BY <2>1, <2>2 DEF Index
  <1>5. \A s, t \in slots : Index(b, s) = Index(b, t) => s = t
    <2> SUFFICES ASSUME NEW s \in slots, NEW t \in slots, Index(b, s) = Index(b, t)
                 PROVE  s = t
      OBVIOUS
    <2>1. s \in Nat /\ t \in Nat
      BY <1>1
    <2>2. ~(s < t) /\ ~(t < s)
      BY <1>4
    <2>3. QED
      BY <2>1, <2>2
  <1>6. place \in Injection(slots, 1 .. n)
    BY <1>3, <1>5 DEF Injection, IsInjective
  <1>7. IsFiniteSet(1 .. n) /\ Cardinality(1 .. n) = n
    BY <1>2, FS_Interval
  <1>8. place \in Surjection(slots, 1 .. n)
    BY <1>6, <1>7, FS_Injection
  <1>9. \A i \in 1 .. n : \E s \in slots : Index(b, s) = i
    BY <1>8 DEF Surjection
  <1>10. DOMAIN new = 1 .. n
    BY DEF NewVolatileCBs
  <1>11. ASSUME NEW i \in 1 .. n
         PROVE  LET s == CHOOSE s \in slots : Index(b, s) = i
                IN  /\ s \in slots /\ Index(b, s) = i
                    /\ new[i] = [slot |-> s, buffer |-> VolatileOf[b[s]],
                                 address |-> address[VolatileOf[b[s]]]]
    BY <1>9 DEF NewVolatileCBs
  <1>12. \A i \in DOMAIN new :
            /\ new[i].slot \in slots /\ Index(b, new[i].slot) = i
            /\ new[i].buffer = VolatileOf[b[new[i].slot]]
            /\ new[i].address = address[new[i].buffer]
    <2> SUFFICES ASSUME NEW i \in 1 .. n
                 PROVE  /\ new[i].slot \in slots /\ Index(b, new[i].slot) = i
                        /\ new[i].buffer = VolatileOf[b[new[i].slot]]
                        /\ new[i].address = address[new[i].buffer]
      BY <1>10
    <2>1. PICK s \in slots : /\ Index(b, s) = i
                             /\ new[i] = [slot |-> s, buffer |-> VolatileOf[b[s]],
                                          address |-> address[VolatileOf[b[s]]]]
      BY <1>11
    <2>2. new[i].slot = s /\ new[i].buffer = VolatileOf[b[s]]
          /\ new[i].address = address[VolatileOf[b[s]]]
      BY <2>1
    <2> HIDE DEF new, slots
    <2>3. QED
      BY <2>1, <2>2
  <1>13. \A s \in slots : Index(b, s) \in DOMAIN new /\ new[Index(b, s)].slot = s
    BY <1>3, <1>5, <1>10, <1>12
  <1>14. QED
    BY <1>2, <1>10, <1>12, <1>13

\* The list is typed.
LEMMA NewEntriesType ==
    ASSUME ListTypeOK, NEW b \in Seq(Set \cup Table \cup {None}), DOMAIN b \subseteq Slot
    PROVE  NewVolatileCBs(b) \in Seq(Entry)
  <1> DEFINE new == NewVolatileCBs(b)
             slots == {s \in DOMAIN b : Written(b, s)}
  <1>1. \A i \in DOMAIN new :
            /\ new[i].slot \in slots
            /\ new[i].buffer = VolatileOf[b[new[i].slot]]
            /\ new[i].address = address[new[i].buffer]
    BY NewEntries
  <1>2. PICK n \in Nat : DOMAIN new = 1 .. n
    BY NewEntries
  <1>3. \A s \in slots : /\ s \in Slot /\ VolatileOf[b[s]] \in Buffer
                         /\ address[VolatileOf[b[s]]] \in Buffer \X Nat
    BY StateAssumption DEF Written, ListTypeOK
  <1>4. \A i \in DOMAIN new :
            new[i] = [slot |-> new[i].slot, buffer |-> new[i].buffer,
                      address |-> new[i].address]
    BY DEF NewVolatileCBs
  <1>5. \A i \in DOMAIN new : new[i] \in Entry
    <2> SUFFICES ASSUME NEW i \in DOMAIN new PROVE new[i] \in Entry
      OBVIOUS
    <2> HIDE DEF new, slots
    <2>1. /\ new[i].slot \in Slot /\ new[i].buffer \in Buffer
          /\ new[i].address \in Buffer \X Nat
      BY <1>1, <1>3
    <2>2. QED
      BY <1>4, <2>1 DEF Entry
  <1>6. new = [i \in 1 .. n |-> new[i]]
    BY <1>2 DEF NewVolatileCBs
  <1> HIDE DEF new
  <1>7. QED
    BY <1>2, <1>5, <1>6 DEF new

-----------------------------------------------------------------------------
\* Setting a state.

\* The root signature that the list has when the arguments are set.
Signed(k, state) ==
    IF UpdateRootSignature(k, state)
    THEN SetRootSignature(gpu.root[Point(k)], Signature[state.pipeline]) ELSE gpu.root[Point(k)]

\* The D3D12 list after SetState, field by field.
LEMMA SetStateList ==
    ASSUME ListTypeOK, DrawSeesState, NEW k \in Kinds, NEW state \in State[k],
           NEW image \in BOOLEAN, NEW rate \in BOOLEAN, SetState(k, state, image, rate)
    PROVE  LET p == Point(k) IN
           /\ Signed(k, state) \in Arguments
           /\ Signed(k, state).signature = Signature[state.pipeline]
           /\ ~UpdateRootSignature(k, state) => Signed(k, state) = gpu.root[p]
           /\ gpu'.pipeline = state.pipeline
           /\ gpu'.framebuffer = IF k = "compute" THEN gpu.framebuffer ELSE state.framebuffer
           /\ gpu'.image = image /\ gpu'.rate = rate /\ gpu'.blend = BlendFactor(k, state)
           /\ gpu'.root = [gpu.root EXCEPT ![p] =
                  SetBindings(k, state.bindings, UpdateMask(k, state), Signed(k, state))]
           /\ gpu' = [pipeline |-> gpu'.pipeline, framebuffer |-> gpu'.framebuffer,
                      image |-> gpu'.image, rate |-> gpu'.rate, blend |-> gpu'.blend,
                      root |-> gpu'.root]
  <1> DEFINE p == Point(k)
  <1>1. p \in Points /\ gpu.root[p] \in Arguments /\ gpu.root \in [Points -> Arguments]
    BY DEF Point, Points, ListTypeOK, GpuType
  <1>2. state.pipeline \in Pipeline
    BY StateType
  <1>3. NoArguments \in Arguments
    BY DEF NoArguments, Arguments
  <1>4. /\ Signed(k, state) \in Arguments
        /\ Signed(k, state).signature = Signature[state.pipeline]
        /\ ~UpdateRootSignature(k, state) => Signed(k, state) = gpu.root[p]
    <2>1. CASE UpdateRootSignature(k, state)
      <3>1. Signed(k, state) = IF gpu.root[p].signature = Signature[state.pipeline]
                               THEN gpu.root[p]
                               ELSE [NoArguments EXCEPT !.signature = Signature[state.pipeline]]
        BY <2>1 DEF Signed, SetRootSignature
      <3>2. [NoArguments EXCEPT !.signature = Signature[state.pipeline]] \in Arguments
        BY <1>2, <1>3 DEF Arguments
      <3>3. [NoArguments EXCEPT !.signature = Signature[state.pipeline]].signature
               = Signature[state.pipeline]
        BY DEF NoArguments
      <3>4. QED
        BY <2>1, <1>1, <3>1, <3>2, <3>3
    <2>2. CASE ~UpdateRootSignature(k, state)
      <3>1. Signed(k, state) = gpu.root[p]
        BY <2>2 DEF Signed
      <3>2. gpu.root[p].signature = Signature[state.pipeline]
        BY <2>2 DEF UpdateRootSignature, DrawSeesState
      <3>3. QED
        BY <1>1, <3>1, <3>2
    <2>3. QED
      BY <2>1, <2>2
  <1>7. gpu' = [pipeline |-> IF ~valid[k] \/ current[k].pipeline # state.pipeline
                             THEN state.pipeline ELSE gpu.pipeline,
                framebuffer |-> IF /\ k # "compute"
                                   /\ ~valid[k] \/ current[k].framebuffer # state.framebuffer
                                THEN state.framebuffer ELSE gpu.framebuffer,
                image |-> image, rate |-> rate, blend |-> BlendFactor(k, state),
                root |-> [gpu.root EXCEPT ![p] =
                  SetBindings(k, state.bindings, UpdateMask(k, state), Signed(k, state))]]
    BY DEF SetState, Signed
  <1>8. gpu'.pipeline = state.pipeline
    BY <1>7 DEF DrawSeesState
  <1>9. gpu'.framebuffer = IF k = "compute" THEN gpu.framebuffer ELSE state.framebuffer
    BY <1>7 DEF DrawSeesState
  <1>10. QED
    BY <1>4, <1>7, <1>8, <1>9

\* The tables and buffers a set state binds are of their types.
LEMMA SetBindingsType ==
    ASSUME ListTypeOK, NEW k \in Kinds, NEW state \in State[k], NEW mask,
           NEW root \in Arguments
    PROVE  SetBindings(k, state.bindings, mask, root) \in Arguments
  <1> DEFINE b == state.bindings
             bound == SetBindings(k, b, mask, root)
  <1>1. \A s \in DOMAIN b : s \in Slot /\ b[s] \in Set \cup Table \cup {None}
    BY StateType
  <1>2. BoundTables(k, b, mask, root) \in [Slot -> (Nat \X (Set \cup Table)) \cup {None}]
    <2>1. heap \in Nat /\ root.table \in [Slot -> (Nat \X (Set \cup Table)) \cup {None}]
      BY DEF ListTypeOK, Arguments
    <2> HIDE DEF b
    <2>2. QED
      BY <1>1, <2>1 DEF BoundTables
  <1>3. BoundCbvs(k, b, mask, root) \in [Slot -> (Buffer \X Nat) \cup {None, 0}]
    <2>1. root.cbv \in [Slot -> (Buffer \X Nat) \cup {None, 0}]
      BY DEF Arguments
    <2>2. ASSUME NEW s \in Slot, Written(b, s)
          PROVE  address[VolatileOf[b[s]]] \in Buffer \X Nat
      BY <2>2, StateAssumption DEF Written, ListTypeOK
    <2> HIDE DEF b
    <2>3. QED
      BY <2>1, <2>2 DEF BoundCbvs
  <1>4. CASE mask = {}
    <2>1. bound = root
      BY <1>4 DEF SetBindings
    <2>2. QED
      BY <1>4, <2>1
  <1>5. CASE mask # {}
    <2>1. bound = [root EXCEPT !.table = BoundTables(k, b, mask, root),
                               !.cbv = BoundCbvs(k, b, mask, root)]
      BY <1>5 DEF SetBindings
    <2>2. DOMAIN root = {"signature", "table", "cbv"}
      BY DEF Arguments
    <2>3. QED
      BY <1>2, <1>3, <1>5, <2>1, <2>2 DEF Arguments
  <1>6. QED
    BY <1>4, <1>5

\* The root arguments that SetState leaves at the point of its kind.
LEMMA SetStateArguments ==
    ASSUME ListTypeOK, DrawSeesState, NEW k \in Kinds, NEW state \in State[k],
           NEW image \in BOOLEAN, NEW rate \in BOOLEAN, SetState(k, state, image, rate)
    PROVE  LET root == gpu'.root[Point(k)]
               mask == UpdateMask(k, state)
           IN  /\ root.signature = Signature[state.pipeline]
               /\ mask = {} => root = gpu.root[Point(k)]
               /\ mask # {} =>
                     /\ root.table = BoundTables(k, state.bindings, mask, Signed(k, state))
                     /\ root.cbv = BoundCbvs(k, state.bindings, mask, Signed(k, state))
  <1> DEFINE p == Point(k)
  <1>1. PICK signed \in Arguments : signed = Signed(k, state)
    BY SetStateList
  <1>2. PICK mask : mask = UpdateMask(k, state)
    OBVIOUS
  <1>3. PICK bound : bound = SetBindings(k, state.bindings, mask, signed)
    OBVIOUS
  <1>4. /\ bound.signature = signed.signature
        /\ mask = {} => bound = signed
        /\ mask # {} => /\ bound.table = BoundTables(k, state.bindings, mask, signed)
                       /\ bound.cbv = BoundCbvs(k, state.bindings, mask, signed)
    <2>1. CASE mask = {}
      BY <1>3, <2>1 DEF SetBindings
    <2>2. CASE mask # {}
      <3>1. bound = [signed EXCEPT !.table = BoundTables(k, state.bindings, mask, signed),
                                   !.cbv = BoundCbvs(k, state.bindings, mask, signed)]
        BY <1>3, <2>2 DEF SetBindings
      <3>2. signed = [signature |-> signed.signature, table |-> signed.table,
                      cbv |-> signed.cbv]
        BY <1>1 DEF Arguments
      <3>3. QED
        BY <2>2, <3>1, <3>2
    <2>3. QED
      BY <2>1, <2>2
  <1>5. gpu'.root = [gpu.root EXCEPT ![p] = bound] /\ p \in DOMAIN gpu.root
    <2>1. gpu'.root = [gpu.root EXCEPT ![p] =
              SetBindings(k, state.bindings, UpdateMask(k, state), Signed(k, state))]
      BY SetStateList
    <2>2. p \in DOMAIN gpu.root
      BY DEF Point, Points, ListTypeOK, GpuType
    <2>3. QED
      BY <1>1, <1>2, <1>3, <2>1, <2>2
  <1>6. gpu'.root[p] = bound
    BY <1>5
  <1>7. signed.signature = Signature[state.pipeline]
    BY <1>1, SetStateList
  <1>8. mask = {} => signed = gpu.root[p]
    <2>1. ASSUME mask = {} PROVE ~UpdateRootSignature(k, state)
      BY <1>2, <2>1 DEF UpdateMask, Slot, MaxSlots
    <2>2. QED
      BY <1>1, <2>1, SetStateList
  <1>9. QED
    BY <1>1, <1>2, <1>4, <1>6, <1>7, <1>8

\* Setting a state leaves the types, and that state as the only valid one.
LEMMA SetStateType ==
    ASSUME ListTypeOK, DrawSeesState, NEW k \in Kinds, NEW state \in State[k],
           NEW image \in BOOLEAN, NEW rate \in BOOLEAN, SetState(k, state, image, rate)
    PROVE  /\ ListTypeOK'
           /\ \A q \in Kinds : valid'[q] <=> q = k
           /\ current'[k] = state
  <1> DEFINE p == Point(k)
             b == state.bindings
  <1>1. \A q \in Kinds : valid'[q] <=> q = k
    BY DEF SetState, OnlyValid
  <1>2. valid' \in [Kinds -> BOOLEAN]
    BY DEF SetState, OnlyValid
  <1>3. /\ current' = [q \in Kinds |-> current'[q]]
        /\ current'[k] = state
    BY DEF SetState, ListTypeOK
  <1>4. p \in Points
    BY DEF Point, Points
  <1>5. gpu' \in GpuType
    <2>1. /\ Signed(k, state) \in Arguments
          /\ gpu'.pipeline = state.pipeline
          /\ gpu'.framebuffer = IF k = "compute" THEN gpu.framebuffer ELSE state.framebuffer
          /\ gpu'.image = image /\ gpu'.rate = rate /\ gpu'.blend = BlendFactor(k, state)
          /\ gpu'.root = [gpu.root EXCEPT ![p] =
                 SetBindings(k, b, UpdateMask(k, state), Signed(k, state))]
          /\ gpu' = [pipeline |-> gpu'.pipeline, framebuffer |-> gpu'.framebuffer,
                     image |-> gpu'.image, rate |-> gpu'.rate, blend |-> gpu'.blend,
                      root |-> gpu'.root]
      BY SetStateList
    <2>2. SetBindings(k, b, UpdateMask(k, state), Signed(k, state)) \in Arguments
      BY <2>1, SetBindingsType
    <2>3. gpu'.root \in [Points -> Arguments]
      BY <1>4, <2>2, <2>1 DEF ListTypeOK, GpuType
    <2>4. gpu'.framebuffer \in FrameBuffer \cup {None}
      BY <2>1, StateType DEF ListTypeOK, GpuType
    <2>5. gpu'.pipeline \in Pipeline
      BY <2>1, StateType
    <2>6. gpu'.image \in BOOLEAN /\ gpu'.rate \in BOOLEAN
      BY <2>1
    <2>7. gpu'.blend \in Color \cup {None}
      <3>1. gpu.blend \in Color \cup {None}
        BY DEF ListTypeOK, GpuType
      <3>2. k # "compute" => state.blend \in Color
        BY StateType
      <3>3. QED
        BY <2>1, <3>1, <3>2 DEF BlendFactor, UpdateBlendFactor
    <2>8. QED
      BY <2>1, <2>3, <2>4, <2>5, <2>6, <2>7 DEF GpuType
  <1>6. volatileCbs' \in [Points -> Seq(Entry)]
    <2>1. NewVolatileCBs(b) \in Seq(Entry)
      BY StateType, NewEntriesType
    <2>2. \/ volatileCbs' = volatileCbs
          \/ volatileCbs' = [volatileCbs EXCEPT ![p] = NewVolatileCBs(b)]
      BY DEF SetState
    <2>3. QED
      BY <1>4, <2>1, <2>2 DEF ListTypeOK
  <1>7. anyWrites' \in BOOLEAN /\ late' \in BOOLEAN /\ unsent' \in BOOLEAN
    BY DEF SetState, WritesLeft, ListTypeOK
  <1>8. /\ heap' = heap /\ boundHeap' = heap /\ address' = address
    BY DEF SetState
  <1>9. QED
    BY <1>1, <1>2, <1>3, <1>5, <1>6, <1>7, <1>8 DEF ListTypeOK

LEMMA SetStateInv ==
    ASSUME StateInv, NEW k \in Kinds, NEW state \in State[k],
           NEW image \in BOOLEAN, NEW rate \in BOOLEAN, SetState(k, state, image, rate)
    PROVE  /\ rate = state.shading
           /\ image = (state.shading /\ state.framebuffer \in HasRateImage)
           => StateInv'
  <1>1. ListTypeOK /\ DrawSeesState
    BY DEF StateInv
  <1>2. /\ ListTypeOK'
        /\ \A q \in Kinds : valid'[q] <=> q = k
        /\ current'[k] = state
    BY <1>1, SetStateType
  <1>3. OneValid'
    BY <1>2 DEF OneValid
  <1>4. /\ Signed(k, state) \in Arguments
        /\ Signed(k, state).signature = Signature[state.pipeline]
        /\ gpu'.pipeline = state.pipeline
        /\ gpu'.framebuffer = IF k = "compute" THEN gpu.framebuffer ELSE state.framebuffer
        /\ gpu'.image = image /\ gpu'.rate = rate /\ gpu'.blend = BlendFactor(k, state)
        /\ gpu'.root = [gpu.root EXCEPT ![Point(k)] =
               SetBindings(k, state.bindings, UpdateMask(k, state), Signed(k, state))]
    BY <1>1, SetStateList
  <1>5. ASSUME rate = state.shading,
               image = (state.shading /\ state.framebuffer \in HasRateImage)
        PROVE  RateUnbound'
    <2> SUFFICES ASSUME ~valid'["graphics"] PROVE ~gpu'.rate /\ ~gpu'.image
      BY DEF RateUnbound
    <2>1. k # "graphics"
      BY <1>2 DEF Kinds
    <2>2. state.shading = FALSE
      BY <2>1, StateType
    <2>3. QED
      BY <1>4, <1>5, <2>2
  <1>6. gpu'.root[Point(k)].signature = Signature[state.pipeline]
    BY <1>1, SetStateArguments
  <1>7. k # "compute" => gpu'.framebuffer = state.framebuffer
    BY <1>4
  <1>8. BlendTold'
    <2> SUFFICES ASSUME NEW q \in Kinds, valid'[q], q # "compute", ~unsent'
                 PROVE  gpu'.blend = current'[q].blend
      BY DEF BlendTold
    <2>1. q = k /\ current'[q] = state
      BY <1>2
    <2>2. CASE UpdateBlendFactor(k, state)
      <3>1. state.pipeline \in NeedsBlendFactor
        BY <2>2 DEF SetState
      <3>2. QED
        BY <1>4, <2>1, <2>2, <3>1 DEF BlendFactor
    <2>3. CASE ~UpdateBlendFactor(k, state)
      <3>1. ~unsent /\ valid["graphics"] /\ current["graphics"].blend = state.blend
        BY <2>1, <2>3 DEF SetState, UpdateBlendFactor
      <3>2. gpu.blend = state.blend
        BY <3>1 DEF StateInv, BlendTold, Kinds
      <3>3. QED
        BY <1>4, <2>1, <2>3, <3>2 DEF BlendFactor
    <2>4. QED
      BY <2>2, <2>3
  <1>9. ASSUME rate = state.shading,
               image = (state.shading /\ state.framebuffer \in HasRateImage)
        PROVE  DrawSeesState'
    <2> SUFFICES ASSUME NEW q \in Kinds, valid'[q]
                 PROVE  /\ gpu'.pipeline = current'[q].pipeline
                        /\ gpu'.root[Point(q)].signature = Signature[current'[q].pipeline]
                        /\ q # "compute" => gpu'.framebuffer = current'[q].framebuffer
                        /\ gpu'.rate = current'[q].shading
                        /\ gpu'.image = (/\ current'[q].shading
                                         /\ current'[q].framebuffer \in HasRateImage)
                        /\ q # "compute" /\ ~unsent' => gpu'.blend = current'[q].blend
      BY DEF DrawSeesState
    <2>1. q = k /\ current'[q] = state
      BY <1>2
    <2>2. q # "compute" /\ ~unsent' => gpu'.blend = current'[q].blend
      BY <1>8 DEF BlendTold
    <2>3. QED
      BY <1>4, <1>6, <1>7, <1>9, <2>1, <2>2
  <1>10. QED
    BY <1>2, <1>3, <1>5, <1>8, <1>9 DEF StateInv

\* What the three calls make of the shading rate.
LEMMA SetGraphicsRate ==
    ASSUME StateInv, NEW state \in State["graphics"]
    PROVE  /\ Rate(state) \in BOOLEAN /\ Rate(state) = state.shading
           /\ RateImage(state) \in BOOLEAN
           /\ RateImage(state) = (state.shading /\ state.framebuffer \in HasRateImage)
  <1>1. state.shading \in BOOLEAN
    BY StateType DEF Kinds
  <1>2. /\ gpu.rate \in BOOLEAN /\ gpu.image \in BOOLEAN
    BY DEF StateInv, ListTypeOK, GpuType
  <1>3. CASE valid["graphics"]
    <2>1. /\ gpu.rate = current["graphics"].shading
          /\ gpu.image = (current["graphics"].shading
                          /\ current["graphics"].framebuffer \in HasRateImage)
      BY <1>3 DEF StateInv, DrawSeesState, Kinds
    <2>2. RateActive <=> current["graphics"].shading
      BY <1>3 DEF RateActive
    <2>3. QED
      BY <1>1, <1>2, <1>3, <2>1, <2>2 DEF Rate, RateImage
  <1>4. CASE ~valid["graphics"]
    <2>1. ~gpu.rate /\ ~gpu.image /\ ~RateActive
      BY <1>4 DEF StateInv, RateUnbound, RateActive
    <2>2. QED
      BY <1>1, <1>2, <1>4, <2>1 DEF Rate, RateImage
  <1>5. QED
    BY <1>3, <1>4

LEMMA UnboundRateIsOff ==
    ASSUME StateInv
    PROVE  UnboundRate(gpu.rate) = FALSE /\ UnboundRate(gpu.image) = FALSE
  <1>1. CASE valid["graphics"]
    <2>1. /\ gpu.rate = current["graphics"].shading
          /\ gpu.image = (current["graphics"].shading
                          /\ current["graphics"].framebuffer \in HasRateImage)
      BY <1>1 DEF StateInv, DrawSeesState, Kinds
    <2>2. QED
      BY <1>1, <2>1 DEF RateActive, UnboundRate
  <1>2. CASE ~valid["graphics"]
    BY <1>2 DEF StateInv, RateUnbound, UnboundRate
  <1>3. QED
    BY <1>1, <1>2

\* A call of one of the three is a SetState with the shading rate of its state.
LEMMA SetCalls ==
    ASSUME StateInv, NEW k \in Kinds, NEW state \in State[k],
           \/ k = "graphics" /\ SetGraphicsState(state)
           \/ k = "meshlet" /\ SetMeshletState(state)
           \/ k = "compute" /\ SetComputeState(state)
    PROVE  LET image == state.shading /\ state.framebuffer \in HasRateImage
           IN  SetState(k, state, image, state.shading)
  <1>1. CASE k = "graphics" /\ SetGraphicsState(state)
    BY <1>1, SetGraphicsRate DEF SetGraphicsState
  <1>2. CASE k = "meshlet" /\ SetMeshletState(state)
    <2>1. state.shading = FALSE
      BY <1>2, StateType DEF Kinds
    <2>2. QED
      BY <1>2, <2>1, UnboundRateIsOff DEF SetMeshletState
  <1>3. CASE k = "compute" /\ SetComputeState(state)
    <2>1. state.shading = FALSE
      BY <1>3, StateType DEF Kinds
    <2>2. QED
      BY <1>3, <2>1, UnboundRateIsOff DEF SetComputeState
  <1>4. QED
    BY <1>1, <1>2, <1>3

-----------------------------------------------------------------------------
\* The other operations.

\* Flushing the volatile buffers touches the constant buffers only.
LEMMA UpdateVolatileList ==
    ASSUME ListTypeOK, NEW p \in Points, UpdateVolatileBuffers(p)
    PROVE  /\ gpu' \in GpuType
           /\ volatileCbs' \in [Points -> Seq(Entry)]
           /\ gpu'.pipeline = gpu.pipeline /\ gpu'.framebuffer = gpu.framebuffer
           /\ gpu'.image = gpu.image /\ gpu'.rate = gpu.rate /\ gpu'.blend = gpu.blend
           /\ \A q \in Points : /\ gpu'.root[q].signature = gpu.root[q].signature
                                /\ gpu'.root[q].table = gpu.root[q].table
           /\ gpu'.root[p].cbv = [s \in Slot |-> FlushedCbv(p, s)]
           /\ volatileCbs'[p] =
                  IF anyWrites
                  THEN [i \in DOMAIN volatileCbs[p] |-> Refreshed(volatileCbs[p][i])]
                  ELSE volatileCbs[p]
  <1> DEFINE cbs == volatileCbs[p]
             flushed == [s \in Slot |-> FlushedCbv(p, s)]
  <1>1. /\ gpu \in GpuType
        /\ cbs \in Seq(Entry) /\ volatileCbs \in [Points -> Seq(Entry)]
        /\ address \in [Buffer -> (Buffer \X Nat) \cup {None}]
    BY DEF ListTypeOK
  <1>2. \A i \in DOMAIN cbs : cbs[i] \in Entry
    BY <1>1
  <1>3. \A i \in DOMAIN cbs : /\ cbs[i].slot \in Slot /\ cbs[i].buffer \in Buffer
                              /\ address[cbs[i].buffer] \in (Buffer \X Nat) \cup {None}
    BY <1>1, <1>2 DEF Entry
  <1>4. flushed \in [Slot -> (Buffer \X Nat) \cup {None, 0}]
    <2> SUFFICES ASSUME NEW s \in Slot
                 PROVE  FlushedCbv(p, s) \in (Buffer \X Nat) \cup {None, 0}
      OBVIOUS
    <2>1. gpu.root[p].cbv[s] \in (Buffer \X Nat) \cup {None, 0}
      BY <1>1 DEF Arguments, GpuType
    <2>2. CASE Stale(p, s)
      <3>1. \E i \in DOMAIN cbs : cbs[i].slot = s
        BY <2>2 DEF Stale
      <3>2. PICK i \in DOMAIN cbs : i = CHOOSE n \in DOMAIN cbs : cbs[n].slot = s
        BY <3>1
      <3>3. FlushedCbv(p, s) \in {address[cbs[i].buffer], gpu.root[p].cbv[s]}
        BY <3>2 DEF FlushedCbv
      <3>4. QED
        BY <1>3, <2>1, <3>3
    <2>3. CASE ~Stale(p, s)
      BY <2>1, <2>3 DEF FlushedCbv
    <2>4. QED
      BY <2>2, <2>3
  <1>5. gpu' = [gpu EXCEPT !.root[p].cbv = flushed]
    BY DEF UpdateVolatileBuffers
  <1>6. /\ gpu'.pipeline = gpu.pipeline /\ gpu'.framebuffer = gpu.framebuffer
        /\ gpu'.image = gpu.image /\ gpu'.rate = gpu.rate /\ gpu'.blend = gpu.blend
        /\ gpu'.root = [gpu.root EXCEPT ![p].cbv = flushed]
        /\ gpu' = [pipeline |-> gpu'.pipeline, framebuffer |-> gpu'.framebuffer,
                   image |-> gpu'.image, rate |-> gpu'.rate, blend |-> gpu'.blend,
                      root |-> gpu'.root]
    <2> HIDE DEF flushed
    <2>1. QED
      BY <1>1, <1>5 DEF GpuType
  <1>7. \A q \in Points : /\ gpu'.root[q].signature = gpu.root[q].signature
                          /\ gpu'.root[q].table = gpu.root[q].table
                          /\ gpu'.root[q] \in Arguments
    <2> HIDE DEF flushed
    <2> SUFFICES ASSUME NEW q \in Points
                 PROVE  /\ gpu'.root[q].signature = gpu.root[q].signature
                        /\ gpu'.root[q].table = gpu.root[q].table
                        /\ gpu'.root[q] \in Arguments
      OBVIOUS
    <2>1. PICK root \in Arguments : root = gpu.root[q]
      BY <1>1 DEF GpuType
    <2>2. gpu'.root[q] = IF q = p THEN [root EXCEPT !.cbv = flushed] ELSE root
      BY <1>1, <1>6, <2>1 DEF GpuType
    <2>3. /\ [root EXCEPT !.cbv = flushed].signature = root.signature
          /\ [root EXCEPT !.cbv = flushed].table = root.table
          /\ [root EXCEPT !.cbv = flushed] \in Arguments
      BY <1>4 DEF Arguments
    <2>4. QED
      BY <2>1, <2>2, <2>3
  <1>8. gpu'.root[p].cbv = flushed
    <2> HIDE DEF flushed
    <2>1. QED
      BY <1>1, <1>6 DEF Arguments, GpuType
  <1>9. gpu'.root \in [Points -> Arguments]
    BY <1>1, <1>6, <1>7 DEF GpuType
  <1>10. volatileCbs' = [volatileCbs EXCEPT ![p] =
             IF anyWrites THEN [i \in DOMAIN cbs |-> Refreshed(cbs[i])] ELSE cbs]
    BY DEF UpdateVolatileBuffers
  <1>11. [i \in DOMAIN cbs |-> Refreshed(cbs[i])] \in Seq(Entry)
    <2>1. \A i \in DOMAIN cbs : Refreshed(cbs[i]) \in Entry
      BY <1>2, <1>3 DEF Refreshed, Entry
    <2>2. DOMAIN cbs = 1 .. Len(cbs) /\ Len(cbs) \in Nat
      BY <1>1
    <2> HIDE DEF cbs
    <2>3. QED
      BY <2>1, <2>2
  <1>12. volatileCbs' \in [Points -> Seq(Entry)]
    BY <1>1, <1>10, <1>11
  <1>13. volatileCbs'[p] = IF anyWrites THEN [i \in DOMAIN cbs |-> Refreshed(cbs[i])] ELSE cbs
    BY <1>1, <1>10
  <1>14. gpu' \in GpuType
    BY <1>1, <1>6, <1>9 DEF GpuType
  <1>15. QED
    BY <1>6, <1>7, <1>8, <1>12, <1>13, <1>14

\* Nothing but the volatile buffers, and what a flush leaves of the rest.
LEMMA FlushInv ==
    ASSUME StateInv, NEW p \in Points, UpdateVolatileBuffers(p),
           UNCHANGED <<valid, current, heap, boundHeap, address, late, unsent>>
    PROVE  StateInv'
  <1>1. ListTypeOK
    BY DEF StateInv
  <1>2. /\ gpu' \in GpuType
        /\ volatileCbs' \in [Points -> Seq(Entry)]
        /\ gpu'.pipeline = gpu.pipeline /\ gpu'.framebuffer = gpu.framebuffer
        /\ gpu'.image = gpu.image /\ gpu'.rate = gpu.rate /\ gpu'.blend = gpu.blend
        /\ \A q \in Points : gpu'.root[q].signature = gpu.root[q].signature
    BY <1>1, UpdateVolatileList
  <1>3. anyWrites' = FALSE
    BY DEF UpdateVolatileBuffers
  <1>4. ListTypeOK'
    BY <1>1, <1>2, <1>3 DEF ListTypeOK
  <1>5. DrawSeesState'
    <2>1. \A k \in Kinds : Point(k) \in Points
      BY DEF Point, Points
    <2>2. QED
      BY <1>2, <2>1 DEF StateInv, DrawSeesState
  <1>6. OneValid' /\ RateUnbound' /\ BlendTold'
    BY <1>2 DEF StateInv, OneValid, RateUnbound, BlendTold
  <1>7. QED
    BY <1>4, <1>5, <1>6 DEF StateInv

\* A list that begins anew.
LEMMA ClearInv ==
    ASSUME StateInv, ClearStateCache, boundHeap' \in Nat \cup {None},
           address' \in [Buffer -> (Buffer \X Nat) \cup {None}]
    PROVE  StateInv' /\ \A k \in Kinds : ~valid'[k]
  <1>1. \A k \in Kinds : ~valid'[k]
    BY DEF ClearStateCache
  <1>2. ~gpu'.rate /\ ~gpu'.image
    BY DEF ClearStateCache, ResetList
  <1>3. gpu' \in GpuType
    <2>1. NoArguments \in Arguments
      BY DEF NoArguments, Arguments
    <2>2. [p \in Points |-> NoArguments] \in [Points -> Arguments]
      BY <2>1
    <2>3. QED
      BY <2>2 DEF ClearStateCache, ResetList, GpuType
  <1>4. volatileCbs' \in [Points -> Seq(Entry)]
    <2>1. <<>> \in Seq(Entry)
      OBVIOUS
    <2>2. QED
      BY <2>1 DEF ClearStateCache
  <1>5. ListTypeOK'
    BY <1>1, <1>3, <1>4 DEF ClearStateCache, StateInv, ListTypeOK
  <1>6. QED
    BY <1>1, <1>2, <1>5 DEF StateInv, OneValid, RateUnbound, BlendTold, DrawSeesState

\* Every operation of the list keeps what a draw sees of its state.
LEMMA NextStateInv == StateInv /\ [Next]_vars => StateInv'
  <1> SUFFICES ASSUME StateInv, [Next]_vars PROVE StateInv'
    OBVIOUS
  <1>1. ASSUME NEW k \in Kinds, NEW state \in State[k],
               \/ k = "graphics" /\ SetGraphicsState(state)
               \/ k = "meshlet" /\ SetMeshletState(state)
               \/ k = "compute" /\ SetComputeState(state)
        PROVE  StateInv'
    <2>1. PICK image \in BOOLEAN : image = (state.shading /\ state.framebuffer \in HasRateImage)
      OBVIOUS
    <2>2. PICK rate \in BOOLEAN : rate = state.shading
      BY StateType
    <2>3. SetState(k, state, image, rate)
      BY <1>1, <2>1, <2>2, SetCalls
    <2>4. QED
      BY <2>1, <2>2, <2>3, SetStateInv
  <1>2. ASSUME NEW k \in Kinds, DrawOrDispatch(k) PROVE StateInv'
    <2>1. Point(k) \in Points
      BY DEF Point, Points
    <2>2. QED
      BY <1>2, <2>1, FlushInv DEF DrawOrDispatch, history
  <1>3. CASE \/ SetRayTracingState \/ Ended \/ UNCHANGED vars
             \/ \E k \in Kinds : \E state \in State[k] : AssertionFails(k, state)
    BY <1>3 DEF SetRayTracingState, Ended, AssertionFails, vars, cache, history, StateInv, ListTypeOK, OneValid, RateUnbound, BlendTold,
                DrawSeesState
  <1>4. CASE DispatchRays
    BY <1>4, FlushInv DEF DispatchRays, Points, history
  <1>5. ASSUME NEW b \in Buffer, WriteBuffer(b) PROVE StateInv'
    <2>1. ListTypeOK'
      <3>1. address' \in [Buffer -> (Buffer \X Nat) \cup {None}]
        BY <1>5 DEF WriteBuffer, history, StateInv, ListTypeOK
      <3>2. QED
        BY <1>5, <3>1 DEF WriteBuffer, history, StateInv, ListTypeOK
    <2>2. QED
      BY <1>5, <2>1 DEF WriteBuffer, history, StateInv, OneValid, RateUnbound, BlendTold, DrawSeesState
  <1>6. CASE ClearUnorderedAccessView
    BY <1>6 DEF ClearUnorderedAccessView, StateInv, ListTypeOK, OneValid, RateUnbound, BlendTold,
                DrawSeesState
  <1>7. CASE ClearState
    BY <1>7, ClearInv DEF ClearState, StateInv, ListTypeOK
  <1>8. CASE CloseAndOpen
    BY <1>8, ClearInv DEF CloseAndOpen
  <1>9. CASE GrowHeap
    BY <1>9 DEF GrowHeap, cache, history, StateInv, ListTypeOK, OneValid, RateUnbound, BlendTold, DrawSeesState
  <1>10. QED
    BY <1>1, <1>2, <1>3, <1>4, <1>5, <1>6, <1>7, <1>8, <1>9
       DEF Next, Kinds, Draw, DispatchMesh, Dispatch

\* A new list has no valid state.
LEMMA InitStateInv == Init => StateInv /\ \A k \in Kinds : ~valid[k]
  <1> SUFFICES ASSUME Init PROVE StateInv /\ \A k \in Kinds : ~valid[k]
    OBVIOUS
  <1>1. \A k \in Kinds : ~valid[k]
    BY DEF Init
  <1>2. gpu = ResetList /\ volatileCbs = [p \in Points |-> <<>>]
    BY DEF Init
  <1>3. gpu \in GpuType
    <2>1. NoArguments \in Arguments
      BY DEF NoArguments, Arguments
    <2>2. [p \in Points |-> NoArguments] \in [Points -> Arguments]
      BY <2>1
    <2>3. QED
      BY <1>2, <2>2 DEF ResetList, GpuType
  <1>4. ListTypeOK
    <2>1. current = [k \in Kinds |-> CHOOSE state \in State[k] : TRUE]
      BY DEF Init
    <2>2. current = [k \in Kinds |-> current[k]]
      BY <2>1
    <2>3. /\ valid \in [Kinds -> BOOLEAN] /\ heap \in Nat /\ boundHeap \in Nat \cup {None}
          /\ address \in [Buffer -> (Buffer \X Nat) \cup {None}]
          /\ anyWrites \in BOOLEAN /\ late \in BOOLEAN /\ unsent \in BOOLEAN
      BY DEF Init
    <2>4. volatileCbs \in [Points -> Seq(Entry)]
      <3>1. <<>> \in Seq(Entry)
        OBVIOUS
      <3>2. QED
        BY <1>2, <3>1
    <2>5. QED
      BY <1>1, <1>3, <2>2, <2>3, <2>4 DEF ListTypeOK
  <1>5. ~gpu.rate /\ ~gpu.image
    BY <1>2 DEF ResetList
  <1>6. QED
    BY <1>1, <1>4, <1>5 DEF StateInv, OneValid, RateUnbound, BlendTold, DrawSeesState

\* Whatever was set, drawn, written and cleared before, a draw or dispatch has
\* the pipeline, the root signature, the frame buffer and the shading rate of
\* its own state, although a Set...State call tells the D3D12 list only what
\* differs from the call before.
THEOREM DrawsSeeTheirState == Spec => []DrawSeesState
  <1>1. StateInv => DrawSeesState
    BY DEF StateInv
  <1>2. QED
    BY <1>1, InitStateInv, NextStateInv, PTL DEF Spec

-----------------------------------------------------------------------------
\* The bindings.

\* A slot that the mask leaves out is bound as before: the state of its kind is
\* valid, and the root signature, the heap and the slot are what they were.
LEMMA LeftOut ==
    ASSUME ListTypeOK, NEW k \in Kinds, NEW state \in State[k],
           NEW s \in DOMAIN state.bindings, s \notin UpdateMask(k, state)
    PROVE  /\ valid[k] /\ ~UpdateRootSignature(k, state)
           /\ heap = boundHeap
           /\ Len(current[k].bindings) = Len(state.bindings)
           /\ UpdateMask(k, state)
                 = {r \in DOMAIN state.bindings : current[k].bindings[r] # state.bindings[r]}
           /\ UpdateMask(k, state) # Slot
           /\ s \in DOMAIN current[k].bindings /\ current[k].bindings[s] = state.bindings[s]
  <1>1. s \in Slot
    BY StateType
  <1>2. ~UpdateRootSignature(k, state) /\ ~CommitDescriptorHeaps
    BY <1>1 DEF UpdateMask
  <1>3. UpdateMask(k, state) = Difference(current[k].bindings, state.bindings)
    BY <1>2 DEF UpdateMask
  <1>4. /\ Len(current[k].bindings) = Len(state.bindings)
        /\ current[k].bindings[s] = state.bindings[s]
        /\ UpdateMask(k, state)
              = {r \in DOMAIN state.bindings : current[k].bindings[r] # state.bindings[r]}
    BY <1>1, <1>3 DEF Difference
  <1>5. valid[k] /\ heap = boundHeap
    BY <1>2 DEF UpdateRootSignature, CommitDescriptorHeaps
  <1>6. current[k] \in State[k]
    BY <1>5 DEF ListTypeOK
  <1>7. DOMAIN current[k].bindings = DOMAIN state.bindings
    <2>1. /\ DOMAIN current[k].bindings = 1 .. Len(current[k].bindings)
          /\ DOMAIN state.bindings = 1 .. Len(state.bindings)
      BY <1>6, StateType
    <2>2. QED
      BY <1>4, <2>1
  <1>8. QED
    BY <1>1, <1>2, <1>4, <1>5, <1>7

\* Setting a state binds its sets and tables out of the heap of the list.
LEMMA SetStateBinds ==
    ASSUME StateInv, DrawSeesBindings, NEW k \in Kinds, NEW state \in State[k],
           NEW image \in BOOLEAN, NEW rate \in BOOLEAN, SetState(k, state, image, rate)
    PROVE  DrawSeesBindings'
  <1> DEFINE p == Point(k)
             b == state.bindings
             mask == UpdateMask(k, state)
  <1>1. ListTypeOK /\ DrawSeesState /\ p \in Points
    BY DEF StateInv, Point, Points
  <1>2. /\ \A q \in Kinds : valid'[q] <=> q = k
        /\ current'[k] = state
    BY <1>1, SetStateType
  <1>3. ~UpdateRootSignature(k, state) => Signed(k, state) = gpu.root[p]
    BY DEF Signed
  <1>4. /\ mask # {} => gpu'.root[p].table = BoundTables(k, b, mask, Signed(k, state))
        /\ mask = {} => gpu'.root[p] = gpu.root[p]
    BY <1>1, SetStateArguments
  <1>5. boundHeap' = heap /\ (late' <=> late /\ mask # Slot)
    BY DEF SetState
  <1>6. ASSUME ~late', NEW s \in DOMAIN b, b[s] # None
        PROVE  gpu'.root[p].table[s] = <<heap, b[s]>>
    <2>1. s \in Slot
      BY StateType
    <2>2. CASE s \in mask
      BY <1>4, <1>6, <2>1, <2>2 DEF BoundTables
    <2>3. CASE s \notin mask
      <3>1. /\ valid[k] /\ ~UpdateRootSignature(k, state) /\ heap = boundHeap /\ mask # Slot
            /\ s \in DOMAIN current[k].bindings /\ current[k].bindings[s] = b[s]
        BY <1>1, <2>3, LeftOut
      <3>2. ~late
        BY <1>5, <1>6, <3>1
      <3>3. gpu.root[p].table[s] = <<heap, b[s]>>
        BY <1>6, <3>1, <3>2 DEF DrawSeesBindings
      <3>4. Signed(k, state).table[s] = <<heap, b[s]>>
        BY <1>3, <3>1, <3>3
      <3>5. CASE mask = {}
        BY <1>4, <3>3, <3>5
      <3>6. CASE mask # {}
        BY <1>4, <2>1, <3>4, <3>6 DEF BoundTables
      <3>7. QED
        BY <3>5, <3>6
    <2>4. QED
      BY <2>2, <2>3
  <1>7. QED
    BY <1>2, <1>5, <1>6 DEF DrawSeesBindings

\* Every operation keeps what is bound, or says that it did not.
LEMMA NextBindings == StateInv /\ DrawSeesBindings /\ [Next]_vars => DrawSeesBindings'
  <1> SUFFICES ASSUME StateInv, DrawSeesBindings, [Next]_vars PROVE DrawSeesBindings'
    OBVIOUS
  <1>1. ASSUME NEW k \in Kinds, NEW state \in State[k],
               \/ k = "graphics" /\ SetGraphicsState(state)
               \/ k = "meshlet" /\ SetMeshletState(state)
               \/ k = "compute" /\ SetComputeState(state)
        PROVE  DrawSeesBindings'
    <2>1. PICK image \in BOOLEAN : image = (state.shading /\ state.framebuffer \in HasRateImage)
      OBVIOUS
    <2>2. PICK rate \in BOOLEAN : rate = state.shading
      BY StateType
    <2>3. SetState(k, state, image, rate)
      BY <1>1, <2>1, <2>2, SetCalls
    <2>4. QED
      BY <2>3, SetStateBinds
  <1>2. ASSUME NEW p \in Points, UpdateVolatileBuffers(p),
               UNCHANGED <<valid, current, boundHeap, late>>
        PROVE  DrawSeesBindings'
    <2>1. \A q \in Points : gpu'.root[q].table = gpu.root[q].table
      BY <1>2, UpdateVolatileList DEF StateInv
    <2>2. \A k \in Kinds : Point(k) \in Points
      BY DEF Point, Points
    <2>3. QED
      BY <1>2, <2>1, <2>2 DEF DrawSeesBindings
  <1>3. ASSUME NEW k \in Kinds, DrawOrDispatch(k) PROVE DrawSeesBindings'
    <2>1. Point(k) \in Points
      BY DEF Point, Points
    <2>2. QED
      BY <1>2, <1>3, <2>1 DEF DrawOrDispatch, history
  <1>4. CASE DispatchRays
    BY <1>2, <1>4 DEF DispatchRays, Points, history
  <1>5. CASE \/ SetRayTracingState \/ Ended \/ UNCHANGED vars \/ GrowHeap
             \/ \E k \in Kinds : \E state \in State[k] : AssertionFails(k, state)
    BY <1>5 DEF SetRayTracingState, Ended, AssertionFails, GrowHeap, vars, cache, history,
                DrawSeesBindings
  <1>6. CASE \E b \in Buffer : WriteBuffer(b)
    BY <1>6 DEF WriteBuffer, history, DrawSeesBindings
  <1>7. CASE ClearUnorderedAccessView
    BY <1>7 DEF ClearUnorderedAccessView, DrawSeesBindings
  <1>8. CASE ClearState \/ CloseAndOpen
    BY <1>8 DEF ClearState, CloseAndOpen, ClearStateCache, DrawSeesBindings
  <1>9. QED
    BY <1>1, <1>3, <1>4, <1>5, <1>6, <1>7, <1>8
       DEF Next, Kinds, Draw, DispatchMesh, Dispatch

\* Every set and table of the state is bound, out of the heap the list uses,
\* whatever partial updates, root signatures, growths of the heap and work of
\* other kinds came before; the one exception is a heap that a clear has bound.
THEOREM DrawsSeeTheirBindings == Spec => []DrawSeesBindings
  <1>1. Init => DrawSeesBindings
    BY InitStateInv DEF DrawSeesBindings
  <1>2. QED
    BY <1>1, InitStateInv, NextStateInv, NextBindings, PTL DEF Spec

-----------------------------------------------------------------------------
\* The volatile constant buffers.

\* The set in slot s has `buffer' as its volatile constant buffer.
Uses(b, s, buffer) == s \in DOMAIN b /\ b[s] \in Set /\ VolatileOf[b[s]] = buffer

\* The list for a state of kind k: one entry for each slot whose buffer had data
\* when the state was set, and what was set together is refreshed together.
EntriesInv(k) ==
    LET cbs == volatileCbs[Point(k)]
        b == current[k].bindings
    IN  /\ \A i \in DOMAIN cbs : Uses(b, cbs[i].slot, cbs[i].buffer) /\ cbs[i].buffer # None
        /\ \A i, j \in DOMAIN cbs : cbs[i].slot = cbs[j].slot => i = j
        /\ \A i, j \in DOMAIN cbs :
              cbs[i].buffer = cbs[j].buffer => cbs[i].address = cbs[j].address
        /\ \A i \in DOMAIN cbs : \A s \in Slot :
              Uses(b, s, cbs[i].buffer) => \E j \in DOMAIN cbs : cbs[j].slot = s

\* An address that is up to date is bound, an older one was written over; all
\* are up to date if nothing has been written since.
BoundInv(k) ==
    LET cbs == volatileCbs[Point(k)]
        cbv == gpu.root[Point(k)].cbv
    IN  /\ \A i \in DOMAIN cbs :
              LET buffer == cbs[i].buffer IN
              /\ address[buffer] # None /\ cbs[i].address # None
              /\ cbs[i].address[1] = buffer /\ cbs[i].address[2] <= address[buffer][2]
              /\ cbs[i].address = address[buffer] => cbv[cbs[i].slot] = address[buffer]
              /\ ~anyWrites => cbs[i].address = address[buffer]
        /\ \A s \in Slot : Uses(current[k].bindings, s, None) => cbv[s] = 0

\* An address tells its buffer.
AddressInv == \A b \in Buffer : address[b] # None => address[b][1] = b

\* A slot that had data and was not skipped has an entry.
CoveredInv(k) ==
    \A s \in had \ skipped : \E i \in DOMAIN volatileCbs[Point(k)] :
        volatileCbs[Point(k)][i].slot = s

VolatileInv ==
    /\ StateInv /\ AddressInv
    /\ \A k \in Kinds :
          valid[k] /\ rays # "refused" => EntriesInv(k) /\ BoundInv(k) /\ CoveredInv(k)

\* A flush binds every entry with the data written last.
LEMMA FlushedRight ==
    ASSUME ListTypeOK, NEW k \in Kinds, EntriesInv(k), BoundInv(k)
    PROVE  LET p == Point(k) IN
           /\ \A i \in DOMAIN volatileCbs[p] :
                FlushedCbv(p, volatileCbs[p][i].slot) = address[volatileCbs[p][i].buffer]
           /\ \A s \in Slot : Uses(current[k].bindings, s, None) => FlushedCbv(p, s) = 0
  <1> DEFINE p == Point(k)
             cbs == volatileCbs[p]
             cbv == gpu.root[p].cbv
  <1>1. ASSUME NEW i \in DOMAIN cbs
        PROVE  FlushedCbv(p, cbs[i].slot) = address[cbs[i].buffer]
    <2>1. CASE anyWrites /\ Stale(p, cbs[i].slot)
      <3>1. PICK j \in DOMAIN cbs : /\ j = CHOOSE n \in DOMAIN cbs : cbs[n].slot = cbs[i].slot
                                    /\ cbs[j].slot = cbs[i].slot
        OBVIOUS
      <3>2. i = j
        BY <3>1 DEF EntriesInv
      <3>3. QED
        BY <2>1, <3>1, <3>2 DEF FlushedCbv
    <2>2. CASE ~(anyWrites /\ Stale(p, cbs[i].slot))
      <3>1. cbs[i].address = address[cbs[i].buffer]
        BY <2>2 DEF Stale, BoundInv
      <3>2. cbv[cbs[i].slot] = address[cbs[i].buffer]
        BY <3>1 DEF BoundInv
      <3>3. QED
        BY <2>2, <3>2 DEF FlushedCbv
    <2>3. QED
      BY <2>1, <2>2
  <1>2. ASSUME NEW s \in Slot, Uses(current[k].bindings, s, None)
        PROVE  FlushedCbv(p, s) = 0
    <2>1. ~Stale(p, s)
      BY <1>2 DEF Stale, EntriesInv, Uses
    <2>2. QED
      BY <1>2, <2>1 DEF FlushedCbv, BoundInv
  <1>3. QED
    BY <1>1, <1>2

LEMMA UpdateVolatileInv ==
    ASSUME VolatileInv, NEW k \in Kinds, valid[k], rays # "refused",
           UpdateVolatileBuffers(Point(k)),
           UNCHANGED <<valid, current, address, had, skipped>>
    PROVE  EntriesInv(k)' /\ BoundInv(k)' /\ CoveredInv(k)'
  <1> DEFINE p == Point(k)
             cbs == volatileCbs[p]
             new == volatileCbs'[p]
  <1>1. ListTypeOK /\ EntriesInv(k) /\ BoundInv(k) /\ p \in Points
    BY DEF VolatileInv, StateInv, Point, Points
  <1>2. /\ gpu'.root[p].cbv = [s \in Slot |-> FlushedCbv(p, s)]
        /\ new = IF anyWrites THEN [i \in DOMAIN cbs |-> Refreshed(cbs[i])] ELSE cbs
    BY <1>1, UpdateVolatileList
  <1>3. \A i \in DOMAIN cbs : cbs[i] \in Entry
    BY <1>1 DEF ListTypeOK
  <1>4. /\ DOMAIN new = DOMAIN cbs
        /\ \A i \in DOMAIN cbs : /\ new[i].slot = cbs[i].slot /\ new[i].buffer = cbs[i].buffer
                                 /\ new[i].address = address[cbs[i].buffer]
    <2>1. CASE anyWrites
      BY <1>2, <1>3, <2>1 DEF Refreshed, Entry
    <2>2. CASE ~anyWrites
      BY <1>1, <1>2, <2>2 DEF BoundInv
    <2>3. QED
      BY <2>1, <2>2
  <1>5. EntriesInv(k)'
    BY <1>1, <1>4 DEF EntriesInv
  <1>6. /\ \A i \in DOMAIN cbs : gpu'.root[p].cbv[cbs[i].slot] = address[cbs[i].buffer]
        /\ \A s \in Slot : Uses(current[k].bindings, s, None) => gpu'.root[p].cbv[s] = 0
    <2>1. \A i \in DOMAIN cbs : cbs[i].slot \in Slot
      BY <1>3 DEF Entry
    <2>2. /\ \A i \in DOMAIN cbs : FlushedCbv(p, cbs[i].slot) = address[cbs[i].buffer]
          /\ \A s \in Slot : Uses(current[k].bindings, s, None) => FlushedCbv(p, s) = 0
      BY <1>1, FlushedRight
    <2>3. QED
      BY <1>2, <2>1, <2>2
  <1>7. \A i \in DOMAIN cbs : /\ cbs[i].buffer \in Buffer /\ address[cbs[i].buffer] # None
                              /\ address[cbs[i].buffer] \in Buffer \X Nat
    BY <1>1, <1>3 DEF BoundInv, ListTypeOK, Entry
  <1>8. \A i \in DOMAIN cbs : /\ address[cbs[i].buffer][1] = cbs[i].buffer
                              /\ address[cbs[i].buffer][2] <= address[cbs[i].buffer][2]
    <2>1. \A a \in Buffer \X Nat : a[2] <= a[2]
      OBVIOUS
    <2>2. QED
      BY <1>7, <2>1 DEF VolatileInv, AddressInv
  <1>9. BoundInv(k)'
    BY <1>4, <1>6, <1>7, <1>8 DEF BoundInv
  <1>10. CoveredInv(k)'
    <2>1. CoveredInv(k)
      BY DEF VolatileInv
    <2>2. QED
      BY <1>4, <2>1 DEF CoveredInv
  <1>11. QED
    BY <1>5, <1>9, <1>10

\* A slot with data is bound to the data written last, although it is compared
\* with the old entry at its index, which may be that of another slot: an equal
\* address is one of the same buffer, and the slot had an entry with it too.
LEMMA BoundRight ==
    ASSUME VolatileInv, rays # "refused", NEW k \in Kinds, NEW state \in State[k],
           NEW root, ~UpdateRootSignature(k, state) => root = gpu.root[Point(k)],
           NEW s \in DOMAIN state.bindings, Written(state.bindings, s)
    PROVE  BoundCbvs(k, state.bindings, UpdateMask(k, state), root)[s]
              = address[VolatileOf[state.bindings[s]]]
  <1> DEFINE p == Point(k)
             b == state.bindings
             mask == UpdateMask(k, state)
             buffer == VolatileOf[b[s]]
             old == volatileCbs[p]
             index == Index(b, s)
  <1>1. ListTypeOK /\ s \in Slot
    BY StateType DEF VolatileInv, StateInv
  <1>2. CASE Rebound(k, b, mask, s)
    BY <1>1, <1>2 DEF BoundCbvs
  <1>3. CASE ~Rebound(k, b, mask, s)
    <2>1. s \notin mask /\ ~(index > Len(old)) /\ old[index].address = address[buffer]
      BY <1>3 DEF Rebound
    <2>2. /\ valid[k] /\ ~UpdateRootSignature(k, state)
          /\ s \in DOMAIN current[k].bindings /\ current[k].bindings[s] = b[s]
      BY <1>1, <2>1, LeftOut
    <2>3. EntriesInv(k) /\ BoundInv(k)
      BY <2>2 DEF VolatileInv
    <2>4. index \in DOMAIN old
      <3>1. b \in Seq(Set \cup Table \cup {None})
        BY StateType
      <3>2. \E n \in Nat : index \in 1 .. n
        BY <3>1, NewEntries
      <3>3. old \in Seq(Entry)
        BY <1>1 DEF ListTypeOK, Point, Points
      <3>4. Len(old) \in Nat /\ DOMAIN old = 1 .. Len(old)
        BY <3>3
      <3>5. QED
        BY <2>1, <3>2, <3>4
    <2>5. b[s] \in Set /\ buffer \in Buffer /\ address[buffer] # None
      BY StateAssumption DEF Written
    <2>6. old[index].buffer = buffer
      BY <2>1, <2>3, <2>4, <2>5 DEF VolatileInv, AddressInv, BoundInv
    <2>7. Uses(current[k].bindings, s, buffer)
      BY <2>2, <2>5 DEF Uses
    <2>8. PICK j \in DOMAIN old : old[j].slot = s
      BY <1>1, <2>3, <2>4, <2>6, <2>7 DEF EntriesInv
    <2>9. old[j].buffer = buffer
      BY <2>3, <2>7, <2>8 DEF EntriesInv, Uses
    <2>10. old[j].address = address[buffer]
      BY <2>1, <2>3, <2>4, <2>6, <2>9 DEF EntriesInv
    <2>11. root.cbv[s] = address[buffer]
      BY <2>2, <2>3, <2>8, <2>9, <2>10 DEF BoundInv
    <2>12. BoundCbvs(k, b, mask, root)[s] = root.cbv[s]
      BY <1>1, <1>3, <2>1 DEF BoundCbvs
    <2>13. QED
      BY <2>11, <2>12
  <1>4. QED
    BY <1>2, <1>3

\* A set without a volatile constant buffer has a null buffer.
LEMMA BoundNull ==
    ASSUME VolatileInv, rays # "refused", NEW k \in Kinds, NEW state \in State[k],
           NEW root, ~UpdateRootSignature(k, state) => root = gpu.root[Point(k)],
           NEW s \in Slot, Uses(state.bindings, s, None)
    PROVE  BoundCbvs(k, state.bindings, UpdateMask(k, state), root)[s] = 0
  <1> DEFINE b == state.bindings
             mask == UpdateMask(k, state)
  <1>1. s \in DOMAIN b /\ b[s] \in Set /\ VolatileOf[b[s]] = None /\ ~Written(b, s)
    BY DEF Uses, Written
  <1>2. CASE s \in mask
    BY <1>1, <1>2 DEF BoundCbvs
  <1>3. CASE s \notin mask
    <2>1. ListTypeOK
      BY DEF VolatileInv, StateInv
    <2>2. /\ valid[k] /\ ~UpdateRootSignature(k, state)
          /\ s \in DOMAIN current[k].bindings /\ current[k].bindings[s] = b[s]
      BY <1>1, <1>3, <2>1, LeftOut
    <2>3. BoundInv(k)
      BY <2>2 DEF VolatileInv
    <2>4. root.cbv[s] = 0
      BY <1>1, <2>2, <2>3 DEF BoundInv, Uses
    <2>5. QED
      BY <1>1, <1>3, <2>4 DEF BoundCbvs
  <1>4. QED
    BY <1>2, <1>3

\* Setting a state leaves a list of buffers that are bound.
LEMMA SetStateVolatile ==
    ASSUME VolatileInv, rays # "refused", NEW k \in Kinds, NEW state \in State[k],
           NEW image \in BOOLEAN, NEW rate \in BOOLEAN, SetState(k, state, image, rate)
    PROVE  EntriesInv(k)' /\ BoundInv(k)' /\ CoveredInv(k)'
  <1> DEFINE p == Point(k)
             b == state.bindings
             mask == UpdateMask(k, state)
             cbs == volatileCbs[p]
             new == volatileCbs'[p]
             cbv == gpu'.root[p].cbv
  <1>1. /\ ListTypeOK /\ DrawSeesState /\ p \in Points
        /\ b \in Seq(Set \cup Table \cup {None})
    BY StateType DEF VolatileInv, StateInv, Point, Points
  <1>2. current'[k] = state /\ address' = address
    BY <1>1, SetStateType DEF SetState
  <1>3. /\ mask # {} => cbv = BoundCbvs(k, b, mask, Signed(k, state))
        /\ mask = {} => cbv = gpu.root[p].cbv
    <2>1. ListTypeOK /\ DrawSeesState
      BY <1>1
    <2>2. QED
      BY <2>1, SetStateArguments
  <1>4. ~UpdateRootSignature(k, state) => Signed(k, state) = gpu.root[p]
    BY DEF Signed
  <1>5. mask # {} => /\ \A s \in DOMAIN b : Written(b, s) => cbv[s] = address[VolatileOf[b[s]]]
                     /\ \A s \in Slot : Uses(b, s, None) => cbv[s] = 0
    <2> SUFFICES ASSUME mask # {}
                 PROVE  /\ \A s \in DOMAIN b : Written(b, s) => cbv[s] = address[VolatileOf[b[s]]]
                        /\ \A s \in Slot : Uses(b, s, None) => cbv[s] = 0
      OBVIOUS
    <2>1. \A s \in DOMAIN b : Written(b, s) =>
             BoundCbvs(k, b, mask, Signed(k, state))[s] = address[VolatileOf[b[s]]]
      BY <1>4, BoundRight
    <2>2. \A s \in Slot : Uses(b, s, None) => BoundCbvs(k, b, mask, Signed(k, state))[s] = 0
      BY <1>4, BoundNull
    <2>3. QED
      BY <1>3, <2>1, <2>2
  <1>6. /\ anyWrites' = WritesLeft(b, mask)
        /\ had' = {s \in DOMAIN b : Written(b, s)}
        /\ skipped' = IF mask = {} THEN had' \ (had \ skipped) ELSE {}
    BY DEF SetState
  <1>7. CASE mask = {}
    <2>1. new = cbs
      BY <1>7 DEF SetState
    <2>2. ~UpdateRootSignature(k, state) /\ mask = Difference(current[k].bindings, b)
      BY <1>7 DEF UpdateMask, Slot, MaxSlots
    <2>3. valid[k] /\ current[k] \in State[k]
      BY <1>1, <2>2 DEF UpdateRootSignature, ListTypeOK
    <2>4. Len(current[k].bindings) = Len(b)
          /\ \A s \in DOMAIN b : current[k].bindings[s] = b[s]
      <3>1. Slot # {}
        BY DEF Slot, MaxSlots
      <3>2. Len(current[k].bindings) = Len(b)
        BY <1>7, <2>2, <3>1 DEF Difference
      <3>3. {s \in DOMAIN b : current[k].bindings[s] # b[s]} = {}
        BY <1>7, <2>2, <3>2 DEF Difference
      <3>4. QED
        BY <3>2, <3>3
    <2>5. DOMAIN current[k].bindings = DOMAIN b
      <3>1. DOMAIN b = 1 .. Len(b)
            /\ DOMAIN current[k].bindings = 1 .. Len(current[k].bindings)
        BY <2>3, StateType
      <3>2. QED
        BY <2>4, <3>1
    <2>6. \A s, buffer : Uses(current[k].bindings, s, buffer) <=> Uses(b, s, buffer)
      BY <2>4, <2>5 DEF Uses
    <2>7. EntriesInv(k) /\ BoundInv(k) /\ CoveredInv(k)
      BY <2>3 DEF VolatileInv
    <2>8. EntriesInv(k)'
      BY <1>2, <2>1, <2>6, <2>7 DEF EntriesInv
    <2>9. cbv = gpu.root[p].cbv
      BY <1>3, <1>7
    <2>10. ASSUME NEW i \in DOMAIN cbs, ~anyWrites'
           PROVE  cbs[i].address = address[cbs[i].buffer]
      <3>1. cbs[i].slot \in DOMAIN b
        BY <2>6, <2>7 DEF EntriesInv, Uses
      <3>2. ~anyWrites
        BY <1>6, <1>7, <2>10, <3>1 DEF WritesLeft
      <3>3. QED
        BY <2>7, <3>2 DEF BoundInv
    <2>11. BoundInv(k)'
      BY <1>2, <2>1, <2>6, <2>7, <2>9, <2>10 DEF BoundInv
    <2>12. CoveredInv(k)'
      <3>1. had' \ skipped' \subseteq had \ skipped
        BY <1>6, <1>7
      <3>2. QED
        BY <2>1, <2>7, <3>1 DEF CoveredInv
    <2>13. QED
      BY <2>8, <2>11, <2>12
  <1>8. CASE mask # {}
    <2>1. new = NewVolatileCBs(b)
      BY <1>1, <1>8 DEF SetState, ListTypeOK
    <2>2. \A i \in DOMAIN new :
             /\ new[i].slot \in DOMAIN b /\ Written(b, new[i].slot)
             /\ Index(b, new[i].slot) = i
             /\ new[i].buffer = VolatileOf[b[new[i].slot]]
             /\ new[i].address = address[new[i].buffer]
      BY <1>1, <2>1, NewEntries
    <2>3. \A s \in DOMAIN b : Written(b, s) => \E j \in DOMAIN new : new[j].slot = s
      BY <1>1, <2>1, NewEntries
    <2>4. \A i \in DOMAIN new :
             /\ Uses(b, new[i].slot, new[i].buffer) /\ new[i].buffer # None
             /\ new[i].buffer \in Buffer /\ address[new[i].buffer] # None
      BY <2>2, StateAssumption DEF Written, Uses
    <2>5. ASSUME NEW i \in DOMAIN new, NEW s \in Slot, Uses(b, s, new[i].buffer)
          PROVE  \E j \in DOMAIN new : new[j].slot = s
      <3>1. s \in DOMAIN b /\ Written(b, s)
        BY <2>4, <2>5 DEF Uses, Written
      <3>2. QED
        BY <2>3, <3>1
    <2>6. EntriesInv(k)'
      BY <1>2, <2>2, <2>4, <2>5 DEF EntriesInv
    <2>7. \A i \in DOMAIN new : /\ address[new[i].buffer][1] = new[i].buffer
                                /\ address[new[i].buffer][2] <= address[new[i].buffer][2]
      <3>1. \A a \in Buffer \X Nat : a[2] <= a[2]
        OBVIOUS
      <3>2. \A i \in DOMAIN new : address[new[i].buffer] \in Buffer \X Nat
        BY <1>1, <2>4 DEF ListTypeOK
      <3>3. QED
        BY <2>4, <3>1, <3>2 DEF VolatileInv, AddressInv
    <2>8. \A i \in DOMAIN new : cbv[new[i].slot] = address[new[i].buffer]
      BY <1>5, <1>8, <2>2
    <2>9. BoundInv(k)'
      BY <1>2, <1>5, <1>8, <2>2, <2>4, <2>7, <2>8 DEF BoundInv
    <2>10. CoveredInv(k)'
      BY <1>6, <1>8, <2>3 DEF CoveredInv
    <2>11. QED
      BY <2>6, <2>9, <2>10
  <1>9. QED
    BY <1>7, <1>8

\* A write gives a buffer an address that no entry has.
LEMMA WriteBufferInv ==
    ASSUME VolatileInv, NEW b \in Buffer, WriteBuffer(b)
    PROVE  /\ AddressInv'
           /\ \A k \in Kinds : valid[k] /\ rays # "refused" => EntriesInv(k)' /\ BoundInv(k)' /\ CoveredInv(k)'
  <1>1. ListTypeOK /\ address \in [Buffer -> (Buffer \X Nat) \cup {None}]
    BY DEF VolatileInv, StateInv, ListTypeOK
  <1>2. PICK w : w = IF address[b] = None THEN 0 ELSE address[b][2]
    OBVIOUS
  <1>3. w \in Nat /\ (address[b] # None => w = address[b][2])
    BY <1>1, <1>2
  <1>4. /\ address' = [address EXCEPT ![b] = <<b, w + 1>>]
        /\ anyWrites' = TRUE
        /\ UNCHANGED <<valid, current, volatileCbs, gpu, rays, had, skipped>>
    BY <1>2 DEF WriteBuffer, history
  <1>5. address'[b] = <<b, w + 1>> /\ \A c \in Buffer : c # b => address'[c] = address[c]
    BY <1>1, <1>4
  <1>6. AddressInv'
    BY <1>5 DEF VolatileInv, AddressInv
  <1>7. ASSUME NEW k \in Kinds, valid[k], rays # "refused"
        PROVE  EntriesInv(k)' /\ BoundInv(k)' /\ CoveredInv(k)'
    <2> DEFINE cbs == volatileCbs[Point(k)]
    <2>1. EntriesInv(k) /\ BoundInv(k)
      BY <1>7 DEF VolatileInv
    <2>2. \A i \in DOMAIN cbs : cbs[i] \in Entry
      BY <1>1 DEF ListTypeOK, Point, Points
    <2>3. EntriesInv(k)'
      BY <1>4, <2>1 DEF EntriesInv
    <2>4. ASSUME NEW i \in DOMAIN cbs
          PROVE  LET buffer == cbs[i].buffer IN
                 /\ address'[buffer] # None /\ cbs[i].address # None
                 /\ cbs[i].address[1] = buffer /\ cbs[i].address[2] <= address'[buffer][2]
                 /\ cbs[i].address = address'[buffer]
                       => gpu.root[Point(k)].cbv[cbs[i].slot] = address'[buffer]
      <3>1. CASE cbs[i].buffer # b
        <4>1. cbs[i].buffer \in Buffer
          BY <2>2 DEF Entry
        <4>2. QED
          BY <1>5, <2>1, <3>1, <4>1 DEF BoundInv
      <3>2. CASE cbs[i].buffer = b
        <4>1. /\ address[b] # None /\ cbs[i].address # None
              /\ cbs[i].address[1] = b /\ cbs[i].address[2] <= w
          BY <1>3, <2>1, <3>2 DEF BoundInv
        <4>2. cbs[i].address \in Buffer \X Nat
          BY <2>2, <4>1 DEF Entry
        <4>3. cbs[i].address[2] \in Nat
          BY <4>2
        <4>4. <<b, w + 1>> \in Buffer \X Nat /\ <<b, w + 1>>[2] = w + 1
          BY <1>3
        <4>5. cbs[i].address # <<b, w + 1>>
          BY <1>3, <4>1, <4>3, <4>4
        <4>6. <<b, w + 1>> # None
          BY <4>4, StateAssumption
        <4>7. cbs[i].address[2] <= w + 1
          BY <1>3, <4>1, <4>3
        <4>8. QED
          BY <1>5, <3>2, <4>1, <4>4, <4>5, <4>6, <4>7
      <3>3. QED
        BY <3>1, <3>2
    <2>5. BoundInv(k)'
      BY <1>4, <2>1, <2>4 DEF BoundInv
    <2>6. CoveredInv(k)'
      BY <1>4, <1>7 DEF VolatileInv, CoveredInv
    <2>7. QED
      BY <2>3, <2>5, <2>6
  <1>8. QED
    BY <1>6, <1>7

\* Every operation keeps the list of volatile buffers.
LEMMA NextVolatile == VolatileInv /\ [Next]_vars => VolatileInv'
  <1> SUFFICES ASSUME VolatileInv, [Next]_vars PROVE VolatileInv'
    OBVIOUS
  <1> DEFINE Entries == \A k \in Kinds :
                 valid[k] /\ rays # "refused" => EntriesInv(k) /\ BoundInv(k) /\ CoveredInv(k)
  <1>1. StateInv /\ StateInv'
    BY NextStateInv DEF VolatileInv
  <1> SUFFICES AddressInv' /\ Entries'
    BY <1>1 DEF VolatileInv
  <1>2. ASSUME NEW k \in Kinds, NEW state \in State[k],
               \/ k = "graphics" /\ SetGraphicsState(state)
               \/ k = "meshlet" /\ SetMeshletState(state)
               \/ k = "compute" /\ SetComputeState(state)
        PROVE  AddressInv' /\ Entries'
    <2>1. PICK image \in BOOLEAN : image = (state.shading /\ state.framebuffer \in HasRateImage)
      OBVIOUS
    <2>2. PICK rate \in BOOLEAN : rate = state.shading
      BY StateType
    <2>3. SetState(k, state, image, rate)
      BY <1>1, <1>2, <2>1, <2>2, SetCalls
    <2>4. AddressInv'
      BY <2>3 DEF SetState, VolatileInv, AddressInv
    <2>5. ASSUME NEW q \in Kinds, valid'[q], rays' # "refused"
          PROVE  EntriesInv(q)' /\ BoundInv(q)' /\ CoveredInv(q)'
      <3>1. q = k
        BY <2>3, <2>5 DEF SetState, OnlyValid
      <3>2. rays # "refused"
        BY <2>3, <2>5 DEF SetState
      <3>3. EntriesInv(k)' /\ BoundInv(k)' /\ CoveredInv(k)'
        BY <2>3, <3>2, SetStateVolatile
      <3>4. QED
        BY <3>1, <3>3
    <2>6. QED
      BY <2>4, <2>5
  <1>3. ASSUME NEW k \in Kinds, DrawOrDispatch(k) PROVE AddressInv' /\ Entries'
    <2>1. AddressInv'
      BY <1>3 DEF DrawOrDispatch, VolatileInv, AddressInv
    <2>2. ASSUME NEW q \in Kinds, valid'[q], rays' # "refused"
          PROVE  EntriesInv(q)' /\ BoundInv(q)' /\ CoveredInv(q)'
      <3>1. q = k
        BY <1>1, <1>3, <2>2 DEF DrawOrDispatch, StateInv, OneValid
      <3>2. EntriesInv(k)' /\ BoundInv(k)' /\ CoveredInv(k)'
        BY <1>3, <2>2, UpdateVolatileInv DEF DrawOrDispatch, history
      <3>3. QED
        BY <3>1, <3>2
    <2>3. QED
      BY <2>1, <2>2
  <1>4. CASE DispatchRays
    BY <1>4 DEF DispatchRays, VolatileInv, AddressInv
  <1>5. ASSUME UNCHANGED <<valid, current, address, anyWrites, volatileCbs, gpu, had, skipped>>,
               rays # "refused" \/ rays' = rays
        PROVE  AddressInv' /\ Entries'
    BY <1>5 DEF VolatileInv, AddressInv, EntriesInv, BoundInv, CoveredInv
  <1>6. CASE \/ SetRayTracingState \/ Ended \/ UNCHANGED vars
             \/ GrowHeap \/ ClearUnorderedAccessView
             \/ \E k \in Kinds : \E state \in State[k] : AssertionFails(k, state)
    BY <1>5, <1>6 DEF SetRayTracingState, Ended, AssertionFails, GrowHeap,
                      ClearUnorderedAccessView, vars, cache, history
  <1>7. ASSUME NEW b \in Buffer, WriteBuffer(b) PROVE AddressInv' /\ Entries'
    BY <1>7, WriteBufferInv DEF WriteBuffer
  <1>8. CASE ClearState \/ CloseAndOpen
    BY <1>8 DEF ClearState, CloseAndOpen, ClearStateCache, VolatileInv, AddressInv
  <1>9. QED
    BY <1>2, <1>3, <1>4, <1>6, <1>7, <1>8 DEF Next, Kinds, Draw, DispatchMesh, Dispatch

\* The volatile constant buffer of a set that had data when its state was set is
\* bound with the data written last when a draw or dispatch comes, whichever
\* writes, draws and partial updates came in between; a set without one has a null
\* buffer.  The exceptions are those that DrawSeesVolatile names: a state set again
\* with nothing changed but a buffer's first data, and a refused DispatchRays.
THEOREM DrawsSeeTheirData == Spec => []DrawSeesVolatile
  <1>1. Init => VolatileInv
    <2> SUFFICES ASSUME Init PROVE VolatileInv
      OBVIOUS
    <2>1. StateInv /\ \A k \in Kinds : ~valid[k]
      BY InitStateInv
    <2>2. QED
      BY <2>1 DEF Init, VolatileInv, AddressInv
  <1>2. VolatileInv => DrawSeesVolatile
    <2> SUFFICES ASSUME VolatileInv, NEW k \in Kinds, valid[k], rays # "refused"
                 PROVE  LET p == Point(k) bindings == current[k].bindings
                        IN  /\ \A s \in had \ skipped :
                                 FlushedCbv(p, s) = address[VolatileOf[bindings[s]]]
                            /\ \A s \in DOMAIN bindings :
                                 bindings[s] \in Set /\ VolatileOf[bindings[s]] = None
                                     => FlushedCbv(p, s) = 0
      BY DEF DrawSeesVolatile
    <2>1. ListTypeOK /\ EntriesInv(k) /\ BoundInv(k) /\ CoveredInv(k)
      BY DEF VolatileInv, StateInv
    <2>2. DOMAIN current[k].bindings \subseteq Slot
      BY <2>1, StateType DEF ListTypeOK
    <2>3. ASSUME NEW s \in had \ skipped
          PROVE  FlushedCbv(Point(k), s) = address[VolatileOf[current[k].bindings[s]]]
      <3>1. PICK i \in DOMAIN volatileCbs[Point(k)] : volatileCbs[Point(k)][i].slot = s
        BY <2>1 DEF CoveredInv
      <3>2. VolatileOf[current[k].bindings[s]] = volatileCbs[Point(k)][i].buffer
        BY <2>1, <3>1 DEF EntriesInv, Uses
      <3>3. FlushedCbv(Point(k), s) = address[volatileCbs[Point(k)][i].buffer]
        BY <2>1, <3>1, FlushedRight
      <3>4. QED
        BY <3>2, <3>3
    <2>4. \A s \in DOMAIN current[k].bindings :
             current[k].bindings[s] \in Set /\ VolatileOf[current[k].bindings[s]] = None
                 => FlushedCbv(Point(k), s) = 0
      BY <2>1, <2>2, FlushedRight DEF Uses
    <2>5. QED
      BY <2>3, <2>4
  <1>3. QED
    BY <1>1, <1>2, NextVolatile, PTL DEF Spec

=============================================================================
