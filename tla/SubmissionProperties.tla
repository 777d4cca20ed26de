-------------------------- MODULE SubmissionProperties --------------------------
(***************************************************************************)
(* What the host may rely on while the GPU is behind.                      *)
(***************************************************************************)
EXTENDS Submission

Pending == UNION {item.regions : item \in WorkItems}
Recorded == UNION {list[l].instance.regions : l \in List}

SameChunk(r, s) == r.list = s.list /\ r.kind = s.kind /\ r.chunk = s.chunk

\* What WriteBuffer has put into upload memory is not overwritten before the
\* commands that read it have been executed, whatever is recorded, submitted
\* or thrown away in between; the same holds for scratch memory.
RegionsIntact ==
    \A r, s \in Pending \cup Recorded :
        r # s /\ SameChunk(r, s) => r.hi <= s.lo \/ s.hi <= r.lo

\* The chunks a manager has.
ChunksOf(m) == Range(m.pool) \cup ({m.current} \ {None})

\* Memory that only the list keeps: the instance gets no reference to the chunks
\* of shader tables, of the transforms and instances of acceleration structures,
\* of AllocateUploadBuffer and of scratch memory (CommandList.cpp:1381, 1579,
\* 1713, 1982; 1638, 1987, 2517), unlike those of WriteBuffer and WriteTexture.
KeptByListAlone(r) == ~r.written

\* What a queue has not finished is kept as it is: the objects it refers to are
\* alive even if the application has dropped them and the list, its pieces of
\* upload and scratch memory are as long as the list is, those of WriteBuffer
\* and WriteTexture even longer, and no list records into an allocator it still
\* reads.  The exception: the memory kept by the list alone is freed with the
\* list, though the GPU may still have to read it.
PendingKept ==
    LET alive == held \cup UNION {i.objects : i \in InFlight}
        ofList(r) == \E c \in ChunksOf(list[r.list][r.kind]) : c.id = r.chunk
        referenced(r) == \E i \in InFlight : i.list = r.list /\ r.chunk \in i.chunks
    IN  \A item \in WorkItems :
            /\ item.objects \subseteq alive
            /\ \A r \in item.regions :
                  IF list[r.list].state # "gone" THEN ofList(r)
                  ELSE referenced(r) \/ KeptByListAlone(r)
            /\ \A l \in List : list[l].active > 0 => <<l, list[l].active>> \notin item.allocators

\* A readback resource or query without a fence is read at once: then nothing
\* the GPU still has to do on its queue writes to it.  An event that is
\* resolved stands for work that is done.
ReadbackFinished ==
    \A x \in DOMAIN mark :
        LET pending == {i \in Items(UsedOn[x]) : i.kind = "work"}
            free == IF x \in Timer THEN mark[x].started /\ ~mark[x].fence
                    ELSE x \in Readback /\ ~mark[x].fence
        IN  /\ free => \A i \in pending : x \notin i.objects
            /\ x \in Event /\ mark[x].resolved => \A i \in pending : i.value > mark[x].value

\* A collection when the GPU is idle lets go of everything it has used:
\* ReleaseRenderTargets needs that before the swap chain can be resized.
IdleCollectsAll ==
    [][RunGarbageCollection =>
         \A q \in Queue : fence[q] = queue[q].submitted => queue'[q].inFlight = <<>>]_vars

\* Every wait of the host ends; in particular the waits of queues for each
\* other never form a circle.
EveryWaitEnds == host.state # "run" ~> host.state = "run"
=============================================================================
