-------------------------- MODULE PackFileSystemMC --------------------------
(***************************************************************************)
(* Two kinds of behaviours: packs of many shapes that one thread mounts    *)
(* and reads, and two builds of a pack over which threads race.            *)
(***************************************************************************)
EXTENDS PackFileSystem

Chunk(id, data, compression, alignment) ==
    [chunkId |-> id, data |-> data, compression |-> compression, alignment |-> alignment]
Asset(id, metadata, dependencies, name) ==
    [assetId |-> id, metadataChunkId |-> metadata, dependencies |-> dependencies,
     name |-> name]

\* Data with runs below, at and above the longest run (3), and single bytes.
Payloads == {<<7>>, <<7, 7, 7>>, <<7, 7, 7, 7>>, <<7, 7, 8, 8, 8, 8, 8, 8, 8, 7>>}

ShapeScopes ==
    {[threads |-> {t}, mounts |-> 1, keys |-> {1, 2},
      builds |-> <<[chunks |-> <<Chunk(1, p, f, a), Chunk(0, p, f, a), Chunk(2, q, g, b),
                                 Chunk(2, p, f, a)>>,
                    assets |-> <<Asset(1, 1, deps, <<5>>), Asset(2, 2, <<1>>, <<>>),
                                 Asset(2, 1, <<>>, <<6>>)>>]>>] :
        p \in Payloads, q \in Payloads, f \in {"None", "RLE"}, g \in {"None", "RLE"},
        a \in {1, 4}, b \in {1, 4}, deps \in {<<>>, <<2, 3>>}, t \in Threads}

RaceScopes ==
    {[threads |-> some, mounts |-> IF some = Threads THEN 2 ELSE 3, keys |-> {1},
      builds |-> <<[chunks |-> <<Chunk(1, <<7, 7>>, "RLE", 1)>>,
                    assets |-> <<Asset(1, 1, <<>>, <<5>>)>>],
                   [chunks |-> <<Chunk(2, <<9>>, "None", 1), Chunk(1, <<8>>, "None", 4)>>,
                    assets |-> <<Asset(2, 1, <<1>>, <<6>>)>>]>>] :
        some \in SUBSET Threads \ {{}}}

\* An asset whose chunk is missing: Build writes nothing.
EmptyScope == [threads |-> Threads, mounts |-> 1, keys |-> {1},
               builds |-> <<[chunks |-> <<>>, assets |-> <<Asset(1, 1, <<>>, <<5>>)>>]>>]

MCScopes == ShapeScopes \cup RaceScopes \cup {EmptyScope}

Symmetry == Permutations(Threads)

\* A pack that nothing refers to any more is forgotten.
Referred == {id \in DOMAIN packs : PackAlive(id)
                \/ \E t \in Threads : call[t].pc \in {"located", "reading", "read"}
                                        /\ call[t].id = id}
LiveView == <<scope, disk, building, nextPackId,
              [id \in Referred |-> packs[id]], snapshot, call, mounted>>
=============================================================================
