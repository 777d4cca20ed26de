---------------------------- MODULE CommandStateMC ----------------------------
(***************************************************************************)
(* Two graphics pipelines of different root signatures, one of them that   *)
(* of the meshlet pipeline, a compute pipeline, and bindings of two slots. *)
(***************************************************************************)
EXTENDS CommandState, TLC

CONSTANTS g1, g2, m1, c1, f1, f2, s1, s2, s3, t1, t2, b1, b2, red, blue

MCPipeline == {g1, g2, m1, c1}
MCKindOf == g1 :> "graphics" @@ g2 :> "graphics" @@ m1 :> "meshlet" @@ c1 :> "compute"
MCSignature == g1 :> "A" @@ g2 :> "B" @@ m1 :> "A" @@ c1 :> "A"
MCVolatileOf == s1 :> b1 @@ s2 :> None @@ s3 :> b2
\* One write shifts the list of entries, two leave an old address in it.
MCMaxWrites == b1 :> 1 @@ b2 :> 2
MCBindings == {<<>>, <<s1, s3>>, <<s2, s3>>, <<s1, t1>>}

\* Each frame buffer goes with a colour of its own.
Output(f, shaded) == [framebuffer |-> f, shading |-> shaded, blend |-> IF f = f1 THEN red ELSE blue]
States(pipelines, outputs) ==
    {[pipeline |-> p, framebuffer |-> o.framebuffer, shading |-> o.shading, blend |-> o.blend,
      bindings |-> b] : p \in pipelines, o \in outputs, b \in MCBindings}
MCState ==
    "graphics" :> States({g1, g2}, {Output(f1, TRUE), Output(f1, FALSE), Output(f2, TRUE)})
    @@ "meshlet" :> States({m1}, {Output(f1, FALSE), Output(f2, FALSE)})
    @@ "compute" :> States({c1}, {[framebuffer |-> None, shading |-> FALSE, blend |-> None]})

\* What belongs to a state that is not valid is never looked at again: the next
\* state of its kind is set in full.  Nothing follows once the program has ended,
\* and of the blend factor only matters whether it is that of the state.
View ==
    IF ended THEN <<"ended">>
    ELSE <<[k \in {q \in Kinds : valid[q]} |->
               <<current[k], gpu.root[Point(k)], volatileCbs[Point(k)], gpu.framebuffer,
                 had, skipped, unsent, unsent \/ gpu.blend = current[k].blend>>],
           heap, boundHeap, address, anyWrites, rays, gpu.pipeline, gpu.image, gpu.rate, late>>
=============================================================================
