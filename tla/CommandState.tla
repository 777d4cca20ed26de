----------------------------- MODULE CommandState -----------------------------
(***************************************************************************)
(* The state cache of a CommandList in CommandList.cpp.  A Set...State     *)
(* call tells the D3D12 list only what differs from the call before; a     *)
(* draw or dispatch must nevertheless see everything it asked for.         *)
(*                                                                         *)
(* What makes that hard: a switch between graphics, meshlet and compute    *)
(* work, a new root signature and a descriptor heap that has grown lose    *)
(* root arguments, and the buffers written by WriteBuffer between two      *)
(* draws are bound only when the draw comes.                               *)
(*                                                                         *)
(* Viewports, index, vertex and indirect buffers are compared and told     *)
(* like the frame buffer; they are left out.                               *)
(***************************************************************************)
EXTENDS Integers, Sequences, FiniteSets

CONSTANTS
    Pipeline, KindOf, Signature,  \* pipelines, their kind and root signature
    NeedsBlendFactor, Color,      \* pipelines with requiresBlendFactor, colours
    FrameBuffer, HasRateImage,    \* frame buffers, those with a shadingRateAttachment
    Set, Table,                   \* BindingSet and DescriptorTable objects
    VolatileOf,                   \* [Set -> its volatile constant buffer or None]
    Buffer,                       \* volatile constant buffers
    State,                        \* [Kinds -> the states of that kind that are set]
    MaxWrites,                    \* [Buffer -> bound on its writes in one recording]
    MaxGrowths,                   \* bound on the growths of the descriptor heap
    None

Kinds == {"graphics", "meshlet", "compute"}

\* Graphics and meshlet pipelines use the graphics root arguments.
Point(k) == IF k = "compute" THEN "compute" ELSE "graphics"
Points == {"graphics", "compute"}

MaxSlots == 2
Slot == 1 .. MaxSlots

\* GraphicsState, MeshletState and ComputeState; only the first has a shadingRateState.
AnyState(k) ==
    [pipeline : {p \in Pipeline : KindOf[p] = k},
     framebuffer : IF k = "compute" THEN {None} ELSE FrameBuffer,
     shading : IF k = "graphics" THEN BOOLEAN ELSE {FALSE},
     blend : IF k = "compute" THEN {None} ELSE Color,
     bindings : Seq(Set \cup Table \cup {None})]

ASSUME StateAssumption ==
    /\ \A k \in Kinds : State[k] \subseteq AnyState(k)
    /\ \A k \in Kinds : \A state \in State[k] : Len(state.bindings) <= MaxSlots
    /\ VolatileOf \in [Set -> Buffer \cup {None}]
    /\ None \notin Buffer \X Nat      \* an address is a buffer and a write of it

VARIABLES
    valid,      \* m_currentGraphicsStateValid, -MeshletStateValid, -ComputeStateValid
    current,    \* m_currentGraphicsState, m_currentMeshletState, m_currentComputeState
    heap,       \* which shader-visible heap the device has now
    boundHeap,  \* m_currentHeapSrvEtc and -Samplers: those the D3D12 list has too
    address,    \* m_volatileConstantBufferAddresses
    anyWrites,  \* m_anyVolatileBufferWrites
    volatileCbs,\* m_currentGraphicsVolatileCbs, m_currentComputeVolatileCbs
    rays,       \* what has become of the ray tracing state in this recording
    gpu,        \* the state of the D3D12 list (external)
    ended,      \* a failed assertion has ended the program
    late,       \* history: a clear has bound a new heap under a valid state
    had,        \* history: slots whose buffer had data when the state was set last
    skipped,    \* history: those that call left out, for nothing else had changed
    unsent      \* history: the colour was new when the pipeline made no use of it

cache == <<valid, current, boundHeap, address, anyWrites, volatileCbs>>
history == <<late, had, skipped, unsent>>
vars == <<cache, heap, rays, gpu, ended, history>>

-----------------------------------------------------------------------------
(* The D3D12 list (external).                                              *)

NoArguments == [signature |-> None, table |-> [s \in Slot |-> None], cbv |-> [s \in Slot |-> None]]
ResetList == [pipeline |-> None, framebuffer |-> None, image |-> FALSE, rate |-> FALSE,
              blend |-> None, root |-> [p \in Points |-> NoArguments]]

\* Another root signature loses the root arguments.
SetRootSignature(root, signature) ==
    IF root.signature = signature THEN root ELSE [NoArguments EXCEPT !.signature = signature]

-----------------------------------------------------------------------------
(* Descriptor heaps and volatile constant buffers.                         *)

\* CommitDescriptorHeaps returns whether the heaps have changed.
CommitDescriptorHeaps == boundHeap # heap

\* The bindings that differ; all of them if their number does.
Difference(old, new) ==
    IF Len(old) # Len(new) THEN Slot ELSE {s \in DOMAIN new : old[s] # new[s]}

\* The cache applies to a state of kind k only if the last state was of kind k.
UpdateRootSignature(k, state) ==
    ~valid[k] \/ Signature[current[k].pipeline] # Signature[state.pipeline]

\* (mutant of UpdateMask: a heap that has grown is not noticed)
UpdateMaskHeapless(k, state) ==
    IF UpdateRootSignature(k, state) THEN Slot ELSE Difference(current[k].bindings, state.bindings)
UpdateMask(k, state) ==
    IF UpdateRootSignature(k, state) \/ CommitDescriptorHeaps
    THEN Slot ELSE Difference(current[k].bindings, state.bindings)

\* The buffer that is bound as a volatile constant buffer, once it has data.
Written(bindings, s) ==
    /\ s \in DOMAIN bindings /\ bindings[s] \in Set
    /\ VolatileOf[bindings[s]] # None
    /\ address[VolatileOf[bindings[s]]] # None

\* The place of slot s among the volatile constant buffers that are bound.
Index(bindings, s) == Cardinality({r \in 1 .. s : Written(bindings, r)})

\* newVolatileCBs in the order of the binding sets.
NewVolatileCBs(bindings) ==
    LET slots == {s \in DOMAIN bindings : Written(bindings, s)}
    IN  [i \in 1 .. Cardinality(slots) |->
            LET s == CHOOSE s \in slots : Index(bindings, s) = i
                buffer == VolatileOf[bindings[s]]
            IN  [slot |-> s, buffer |-> buffer, address |-> address[buffer]]]

\* The entry of the old list that an unchanged set is compared with: the one
\* at the same index, although a set before it may have gained or lost its
\* entry.  Behind the end of the list the storage is zero.
\* A debug build reports that (PastTheEnd), and goes on if its logger returns.
\* (mutant of Rebound: an unchanged set is never bound again)
ReboundMasked(k, bindings, mask, s) == s \in mask
Rebound(k, bindings, mask, s) ==
    LET old == volatileCbs[Point(k)]
        index == Index(bindings, s)
    IN  \/ s \in mask
        \/ index > Len(old)
        \/ old[index].address # address[VolatileOf[bindings[s]]]

\* SLUG_ASSERT(pos < m_current_size) of that read fails.
PastTheEnd(k, bindings, mask) ==
    /\ mask # {}
    /\ \E s \in DOMAIN bindings \ mask :
          Written(bindings, s) /\ Index(bindings, s) > Len(volatileCbs[Point(k)])

\* SetGraphicsBindings and SetComputeBindings; the latter passes over the mask
\* for a DescriptorTable.
BoundTables(k, bindings, mask, root) ==
    [s \in Slot |->
        IF s \in DOMAIN bindings /\ bindings[s] # None
            /\ (s \in mask \/ (k = "compute" /\ bindings[s] \in Table))
        THEN <<heap, bindings[s]>> ELSE root.table[s]]

BoundCbvs(k, bindings, mask, root) ==
    [s \in Slot |->
        IF Written(bindings, s) /\ Rebound(k, bindings, mask, s) THEN address[VolatileOf[bindings[s]]]
        ELSE IF /\ s \in mask /\ s \in DOMAIN bindings /\ bindings[s] \in Set
                /\ VolatileOf[bindings[s]] = None
        THEN 0 ELSE root.cbv[s]]

SetBindings(k, bindings, mask, root) ==
    IF mask = {} THEN root
    ELSE [root EXCEPT !.table = BoundTables(k, bindings, mask, root),
                      !.cbv = BoundCbvs(k, bindings, mask, root)]

\* m_anyVolatileBufferWrites after that: unchanged unless every set was bound.
WritesLeft(bindings, mask) == anyWrites /\ ~(DOMAIN bindings \subseteq mask)

\* UpdateGraphicsVolatileBuffers and UpdateComputeVolatileBuffers: entries whose
\* buffer has got a new address are bound again.
Stale(p, s) == \E i \in DOMAIN volatileCbs[p] :
    volatileCbs[p][i].slot = s /\ volatileCbs[p][i].address # address[volatileCbs[p][i].buffer]
FlushedCbv(p, s) ==
    IF anyWrites /\ Stale(p, s)
    THEN LET i == CHOOSE i \in DOMAIN volatileCbs[p] : volatileCbs[p][i].slot = s
         IN  address[volatileCbs[p][i].buffer]
    ELSE gpu.root[p].cbv[s]

Refreshed(entry) == [entry EXCEPT !.address = address[entry.buffer]]
UpdateVolatileBuffers(p) ==
    /\ anyWrites' = FALSE
    /\ gpu' = [gpu EXCEPT !.root[p].cbv = [s \in Slot |-> FlushedCbv(p, s)]]
    /\ volatileCbs' = [volatileCbs EXCEPT ![p] =
          IF anyWrites THEN [i \in DOMAIN @ |-> Refreshed(@[i])] ELSE @]

-----------------------------------------------------------------------------
(* The states.                                                             *)

\* The flags after a state of kind k has been set.
\* (mutant of OnlyValid: the other kinds remain valid)
OnlyValidToo(k) == [valid EXCEPT ![k] = TRUE]
OnlyValid(k) == [q \in Kinds |-> q = k]

RateActive == valid["graphics"] /\ current["graphics"].shading

\* The part of SetGraphicsState about variable rate shading.
RateImage(state) ==
    LET updated == \/ ~valid["graphics"]
                   \/ current["graphics"].shading # state.shading
                   \/ current["graphics"].framebuffer # state.framebuffer
    IN  IF updated /\ state.framebuffer \in HasRateImage /\ state.shading THEN TRUE
        ELSE IF updated /\ RateActive /\ current["graphics"].framebuffer \in HasRateImage THEN FALSE
        ELSE gpu.image
Rate(state) ==
    IF valid["graphics"] /\ current["graphics"].shading = state.shading THEN gpu.rate
    ELSE state.shading \/ (gpu.rate /\ ~RateActive)

\* updateBlendFactor: a meshlet state is compared with the graphics state too.
UpdateBlendFactor(k, state) ==
    k # "compute" /\ (~valid["graphics"] \/ current["graphics"].blend # state.blend)
BlendFactor(k, state) ==
    IF UpdateBlendFactor(k, state) /\ state.pipeline \in NeedsBlendFactor
    THEN state.blend ELSE gpu.blend

\* UnbindShadingRateState, before compute and meshlet work.
UnboundRate(on) == on /\ ~RateActive

\* What the three Set...State have in common.
SetState(k, state, image, rate) ==
    LET p == Point(k)
        mask == UpdateMask(k, state)
        signed == IF UpdateRootSignature(k, state)
                  THEN SetRootSignature(gpu.root[p], Signature[state.pipeline]) ELSE gpu.root[p]
        newPipeline == ~valid[k] \/ current[k].pipeline # state.pipeline
        newFramebuffer == k # "compute"
                          /\ (~valid[k] \/ current[k].framebuffer # state.framebuffer)
        slots == {s \in DOMAIN state.bindings : Written(state.bindings, s)}
    IN  /\ ~ended
        /\ boundHeap' = heap
        /\ gpu' = [pipeline |-> IF newPipeline THEN state.pipeline ELSE gpu.pipeline,
                   framebuffer |-> IF newFramebuffer THEN state.framebuffer ELSE gpu.framebuffer,
                   image |-> image, rate |-> rate, blend |-> BlendFactor(k, state),
                   root |-> [gpu.root EXCEPT ![p] = SetBindings(k, state.bindings, mask, signed)]]
        /\ volatileCbs' = IF mask = {} THEN volatileCbs
                          ELSE [volatileCbs EXCEPT ![p] = NewVolatileCBs(state.bindings)]
        /\ anyWrites' = WritesLeft(state.bindings, mask)
        /\ valid' = OnlyValid(k)
        /\ current' = [current EXCEPT ![k] = state]
        /\ late' = (late /\ mask # Slot)
        /\ had' = slots
        /\ skipped' = IF mask = {} THEN slots \ (had \ skipped) ELSE {}
        /\ unsent' = IF UpdateBlendFactor(k, state)
                     THEN state.pipeline \notin NeedsBlendFactor ELSE unsent
        /\ UNCHANGED <<heap, address, rays, ended>>

SetGraphicsState(state) == SetState("graphics", state, RateImage(state), Rate(state))
SetMeshletState(state) == SetState("meshlet", state, UnboundRate(gpu.image), UnboundRate(gpu.rate))
SetComputeState(state) == SetState("compute", state, UnboundRate(gpu.image), UnboundRate(gpu.rate))

\* The failed assertion ends a debug build whose ILoggerController breaks there.
AssertionFails(k, state) ==
    /\ ~ended
    /\ PastTheEnd(k, state.bindings, UpdateMask(k, state))
    /\ ended' = TRUE
    /\ UNCHANGED <<cache, heap, rays, gpu, history>>

\* Work under a state of its kind first flushes the volatile buffers.
DrawOrDispatch(k) ==
    /\ valid[k] /\ ~ended
    /\ UpdateVolatileBuffers(Point(k))
    /\ UNCHANGED <<valid, current, heap, boundHeap, address, rays, ended, history>>
Draw == DrawOrDispatch("graphics")
DispatchMesh == DrawOrDispatch("meshlet")
Dispatch == DrawOrDispatch("compute")

\* The shader records are written into upload memory; the state itself is not
\* kept, and m_currentRayTracingStateValid stays FALSE.
SetRayTracingState ==
    /\ ~ended /\ rays = "none" /\ rays' = "set"
    /\ UNCHANGED <<cache, heap, gpu, ended, history>>

\* DispatchRays flushes the compute buffers and then refuses.
DispatchRays ==
    /\ ~ended /\ rays # "none" /\ rays' = "refused"
    /\ UpdateVolatileBuffers("compute")
    /\ UNCHANGED <<valid, current, heap, boundHeap, address, ended, history>>

-----------------------------------------------------------------------------
(* The other operations of a list that is open.                            *)

\* WriteBuffer to a volatile buffer gives it new data at a new address.
WriteBuffer(b) ==
    LET writes == IF address[b] = None THEN 0 ELSE address[b][2]
    IN  /\ ~ended /\ writes < MaxWrites[b]
        /\ address' = [address EXCEPT ![b] = <<b, writes + 1>>]
        /\ anyWrites' = TRUE
        /\ UNCHANGED <<valid, current, heap, boundHeap, volatileCbs, rays, gpu, ended, history>>

\* ClearTextureFloat, ClearTextureUint and ClearBufferUInt of a resource with an
\* unordered access view bind the heaps, whatever state is valid.
ClearUnorderedAccessView ==
    /\ ~ended /\ CommitDescriptorHeaps
    /\ boundHeap' = heap
    /\ late' = (late \/ \E k \in Kinds : valid[k])
    /\ UNCHANGED <<valid, current, heap, address, anyWrites, volatileCbs, rays, gpu, ended,
                   had, skipped, unsent>>

ClearStateCache ==
    /\ ~ended
    /\ valid' = [k \in Kinds |-> FALSE]
    /\ anyWrites' = FALSE
    /\ volatileCbs' = [p \in Points |-> <<>>]
    /\ gpu' = ResetList
    /\ late' = FALSE /\ had' = {} /\ skipped' = {} /\ unsent' = FALSE
    /\ UNCHANGED <<current, heap, ended>>

ClearState ==
    /\ ClearStateCache
    /\ boundHeap' = heap
    /\ UNCHANGED <<address, rays>>

\* Close, and Open for the next recording.
CloseAndOpen ==
    /\ ClearStateCache
    /\ boundHeap' = None
    /\ address' = [b \in Buffer |-> None]
    /\ rays' = "none"

\* Somebody allocates descriptors and the heap grows into a new one.
GrowHeap ==
    /\ ~ended /\ heap < MaxGrowths /\ heap' = heap + 1
    /\ UNCHANGED <<cache, rays, gpu, ended, history>>

Ended == ended /\ UNCHANGED vars

Init ==
    /\ valid = [k \in Kinds |-> FALSE]
    /\ current = [k \in Kinds |-> CHOOSE state \in State[k] : TRUE]
    /\ heap = 0 /\ boundHeap = None
    /\ address = [b \in Buffer |-> None]
    /\ anyWrites = FALSE
    /\ volatileCbs = [p \in Points |-> <<>>]
    /\ rays = "none"
    /\ gpu = ResetList
    /\ ended = FALSE
    /\ late = FALSE /\ had = {} /\ skipped = {} /\ unsent = FALSE

Next ==
    \/ \E state \in State["graphics"] : SetGraphicsState(state)
    \/ \E state \in State["meshlet"] : SetMeshletState(state)
    \/ \E state \in State["compute"] : SetComputeState(state)
    \/ \E k \in Kinds : \E state \in State[k] : AssertionFails(k, state)
    \/ Draw \/ DispatchMesh \/ Dispatch
    \/ SetRayTracingState \/ DispatchRays
    \/ \E b \in Buffer : WriteBuffer(b)
    \/ ClearUnorderedAccessView \/ ClearState \/ CloseAndOpen
    \/ GrowHeap
    \/ Ended

Spec == Init /\ [][Next]_vars

-----------------------------------------------------------------------------
(* What a draw or dispatch of kind k that came now would see.              *)

\* The pipeline, root signature, frame buffer, shading rate and blend factor are
\* those of the state; the shading rate never leaks into work of another kind.
\* The one exception: a colour that was new under a pipeline that makes no use of
\* it is in the cache but was not sent, and is not sent for the next pipeline.
DrawSeesState ==
    \A k \in Kinds : valid[k] =>
        /\ gpu.pipeline = current[k].pipeline
        /\ gpu.root[Point(k)].signature = Signature[current[k].pipeline]
        /\ k # "compute" => gpu.framebuffer = current[k].framebuffer
        /\ gpu.rate = current[k].shading
        /\ gpu.image = (current[k].shading /\ current[k].framebuffer \in HasRateImage)
        /\ k # "compute" /\ current[k].pipeline \in NeedsBlendFactor /\ ~unsent =>
              gpu.blend = current[k].blend

\* Every set and table of the state is bound, out of the heap the list uses:
\* growth of the heap, other kinds of work and partial updates lose none.  The
\* one exception is a heap that a clear has bound since.
DrawSeesBindings ==
    \A k \in Kinds : valid[k] /\ ~late =>
        \A s \in DOMAIN current[k].bindings :
            current[k].bindings[s] # None =>
                gpu.root[Point(k)].table[s] = <<boundHeap, current[k].bindings[s]>>

\* The set in slot s of the valid state has a volatile constant buffer that had
\* data when the state was set: it is bound with the data written last, whichever
\* of the writes, draws and partial updates came in between.  A set without one
\* has a null buffer there.  There are two exceptions: a buffer written first
\* after the state was set, when then the same state is set again (skipped: the
\* mask is 0 and nothing is bound), and the writes a refused DispatchRays took.
DrawSeesVolatile ==
    \A k \in Kinds : valid[k] /\ rays # "refused" =>
        LET p == Point(k) bindings == current[k].bindings
        IN  /\ \A s \in had \ skipped :
                 FlushedCbv(p, s) = address[VolatileOf[bindings[s]]]
            /\ \A s \in DOMAIN bindings :
                 bindings[s] \in Set /\ VolatileOf[bindings[s]] = None => FlushedCbv(p, s) = 0
=============================================================================
