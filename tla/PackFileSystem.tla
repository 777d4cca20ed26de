--------------------------- MODULE PackFileSystem ---------------------------
(***************************************************************************)
(* PackFileSystem and PackAsyncIO (resource/private/pack) over files that  *)
(* Builder writes: threads mount and unmount packs, find assets and chunks *)
(* and read chunks, at the same time and with one mutex around the         *)
(* snapshot pointer only.                                                  *)
(*                                                                         *)
(* A step of a thread is what it does between two points where others can  *)
(* see or disturb it: the counter of ids, the files, the snapshot under    *)
(* its mutex, and the two halves of the copy of a file handle, which is    *)
(* made without the mutex while Umount may reset the original.             *)
(***************************************************************************)
EXTENDS PackFormat, FiniteSets, TLC

CONSTANTS
    Threads,        \* threads that call the file system
    Names,          \* pairs of paths, of a TOC and of a data file
    Scopes,         \* what a behaviour is about: [builds, threads, mounts, keys], the
                    \*   descriptions given to a Builder for each build, the threads
                    \*   that call, the bound on the calls of Mount, the ids looked for
    Priorities      \* MountDesc::priority

ASSUME PriorityAssumption == Priorities \subseteq Int

ASSUME ScopesAssumption ==
    \A s \in Scopes : \A k \in DOMAIN s.builds :
        /\ k # 0
        /\ s.builds[k].chunks \in Seq([chunkId : Nat, data : Seq(Nat), alignment : Nat,
                                       compression : {"None", "RLE"}])
        /\ s.builds[k].assets \in Seq([assetId : Nat, metadataChunkId : Nat,
                                       dependencies : Seq(Nat), name : Seq(Nat)])

VARIABLES
    scope,          \* the member of Scopes of this behaviour
    disk,           \* by name: the builds the TOC and the data file are from, 0: no file
    building,       \* a Build that has written its TOC only: <<name, build>>, or <<>>
    nextPackId,     \* m_nextPackId
    packs,          \* the MountedPack objects by id
    snapshot,       \* m_snapshot->packs, as ids
    call,           \* what each thread is doing
    mounted         \* history: the ids mounted and not unmounted

vars == <<scope, disk, building, nextPackId, packs, snapshot, call, mounted>>

-----------------------------------------------------------------------------
(* Builds.                                                                 *)

Builds == DOMAIN scope.builds

\* The files of every build, and what LoadToc makes of the TOC.
Written ==
    [s \in Scopes |-> [k \in DOMAIN s.builds |->
        Build(AddAssets(AddChunks(EmptyBuilder, s.builds[k].chunks), s.builds[k].assets))]]
Loaded ==
    [s \in Scopes |-> [k \in {n \in DOMAIN s.builds : Written[s][n].ok} |->
        LoadToc(Written[s][k].value.toc)]]

DataOf(k) == Written[scope][k].value.data
TocOf(k) == Loaded[scope][k]

-----------------------------------------------------------------------------
(* Packs, snapshots and file handles.                                      *)

None == -1
Idle == [pc |-> "idle"]
At(t, pc) == t \in scope.threads /\ call[t].pc = pc
Becomes(t, c) == call' = [call EXCEPT ![t] = c]

\* Somebody holds the MountedPack, and with it its data file unless that is reset.
PackAlive(id) ==
    \/ id \in ToSet(snapshot)
    \/ \E t \in Threads : /\ call[t].pc \in {"walking", "copying"}
                          /\ id \in ToSet(call[t].snapshot)
    \/ \E t \in Threads : call[t].pc = "publishing" /\ call[t].id = id

\* Locations and requests to read count the data file too.
FileOpen(id) ==
    \/ packs[id].hasFile /\ PackAlive(id)
    \/ \E t \in Threads : /\ call[t].pc \in {"located", "reading"}
                          /\ call[t].id = id /\ call[t].file = "open"

\* SortByPriority: the orders that std::sort, which is not stable, may leave.
\* (mutant of Sorted: the new pack stays where emplace_back put it)
SortedNot(ids) == {SetToSortSeq(ids, <)}

Sorted(ids) ==
    {s \in SetToSeqs(ids) :
        \A i, j \in DOMAIN s : i < j => packs[s[i]].priority >= packs[s[j]].priority}

\* assetIndex.find, chunkIndex.find: the record of a pack for an id, one or none.
RecordsIn(id, kind, key) ==
    LET tables == TocOf(packs[id].toc).value IN
    IF kind = "asset" THEN AssetRecordsOf(tables, key) ELSE ChunkRecordsOf(tables, key)

\* The packs of ids that may answer a search, in a pack or in all (within = None).
Answers(ids, kind, key, within) ==
    LET having == {id \in ids : /\ within \in {None, id}
                                /\ RecordsIn(id, kind, key) # {}}
        best == {id \in having : \A other \in having :
                    packs[id].priority >= packs[other].priority}
    IN  IF having = {} THEN {None} ELSE best

Init ==
    /\ scope \in Scopes
    /\ disk \in [Names -> {[toc |-> k, data |-> k] : k \in {0} \cup DOMAIN Loaded[scope]}]
    /\ building = <<>>
    /\ nextPackId = 0
    /\ packs = <<>>
    /\ snapshot = <<>>
    /\ call = [t \in Threads |-> Idle]
    /\ mounted = {}

-----------------------------------------------------------------------------
(* Builder::Build writes the TOC, then the data file.                      *)

WriteToc(name, k) ==
    /\ building = <<>> /\ Written[scope][k].ok
    /\ disk' = [disk EXCEPT ![name].toc = k]
    /\ building' = <<name, k>>
    /\ UNCHANGED <<scope, nextPackId, packs, snapshot, call, mounted>>

\* A data file that is open cannot be written, since Open shares it for reading
\* only: Build returns false and leaves the new TOC with the old data.
WriteData ==
    /\ building # <<>>
    /\ LET name == building[1] IN
       disk' = IF \E id \in DOMAIN packs : packs[id].name = name /\ FileOpen(id) THEN disk
               ELSE [disk EXCEPT ![name].data = building[2]]
    /\ building' = <<>>
    /\ UNCHANGED <<scope, nextPackId, packs, snapshot, call, mounted>>

-----------------------------------------------------------------------------
(* Mount, in three steps: the id and the TOC, the data file, the snapshot. *)

BeginMount(t, name, priority) ==
    LET k == disk[name].toc IN
    /\ At(t, "idle") /\ nextPackId < scope.mounts
    /\ nextPackId' = nextPackId + 1
    /\ Becomes(t, IF k # 0 /\ TocOf(k).ok
                  THEN [pc |-> "opening", id |-> nextPackId, name |-> name,
                        priority |-> priority, toc |-> k]
                  ELSE [pc |-> "refused", toc |-> k, data |-> k])
    /\ UNCHANGED <<scope, disk, building, packs, snapshot, mounted>>

OpenData(t) ==
    LET c == call[t]
        data == disk[c.name].data
    IN
    /\ At(t, "opening")
    /\ IF data # 0 /\ Indexable(TocOf(c.toc).value)
       THEN /\ packs' = [id \in DOMAIN packs \cup {c.id} |->
                            IF id = c.id
                            THEN [name |-> c.name, priority |-> c.priority,
                                  toc |-> c.toc, data |-> data, hasFile |-> TRUE]
                            ELSE packs[id]]
            /\ Becomes(t, [pc |-> "publishing", id |-> c.id])
       ELSE /\ Becomes(t, [pc |-> "refused", toc |-> c.toc, data |-> data])
            /\ UNCHANGED packs
    /\ UNCHANGED <<scope, disk, building, nextPackId, snapshot, mounted>>

Publish(t) ==
    LET id == call[t].id IN
    /\ At(t, "publishing")
    /\ snapshot' \in Sorted(ToSet(snapshot) \cup {id})
    /\ mounted' = mounted \cup {id}
    /\ Becomes(t, Idle)
    /\ UNCHANGED <<scope, disk, building, nextPackId, packs>>

\* Umount.  activeReadCount and referencedResourceCount are 0 for ever, so the
\* pack always leaves, and its data file is reset under the eyes of the readers.
Umount(t, id) ==
    /\ At(t, "idle")
    /\ \E i \in DOMAIN snapshot : snapshot[i] = id /\ snapshot' = RemoveAt(snapshot, i)
    /\ packs' = [packs EXCEPT ![id].hasFile = FALSE]
    /\ mounted' = mounted \ {id}
    /\ UNCHANGED <<scope, disk, building, nextPackId, call>>

UnmountAll(t) ==
    /\ At(t, "idle") /\ snapshot # <<>>
    /\ snapshot' = <<>>
    /\ mounted' = {}
    /\ UNCHANGED <<scope, disk, building, nextPackId, packs, call>>

-----------------------------------------------------------------------------
(* TryFindAsset, TryFindChunk (within = None) and TryFindChunkInPack.      *)

\* GetSnapshot.  `expected' is history: the answers that are right at this moment.
BeginFind(t, kind, key, within) ==
    /\ At(t, "idle")
    /\ within # None => kind = "chunk"
    /\ Becomes(t, [pc |-> "walking", kind |-> kind, key |-> key, within |-> within,
                   snapshot |-> snapshot,
                   expected |-> Answers(mounted, kind, key, within)])
    /\ UNCHANGED <<scope, disk, building, nextPackId, packs, snapshot, mounted>>

Located(c, id, file) ==
    [pc |-> "located", kind |-> c.kind, key |-> c.key, id |-> id, file |-> file,
     expected |-> c.expected]

\* The loop over the packs of the snapshot, up to the load of pack->dataFile.
Walk(t) ==
    LET c == call[t]
        hits == {i \in DOMAIN c.snapshot : /\ c.within \in {None, c.snapshot[i]}
                                           /\ RecordsIn(c.snapshot[i], c.kind, c.key) # {}}
        found == c.snapshot[Min(hits)]
    IN
    /\ At(t, "walking")
    /\ Becomes(t, IF hits = {} THEN Located(c, None, "null")
                  ELSE IF c.kind = "asset" THEN Located(c, found, "null")
                  ELSE [pc |-> "copying", kind |-> c.kind, key |-> c.key,
                        snapshot |-> c.snapshot, expected |-> c.expected,
                        id |-> found, hasFile |-> packs[found].hasFile])
    /\ UNCHANGED <<scope, disk, building, nextPackId, packs, snapshot, mounted>>

\* The copy of the handle is counted.  If Umount has released the last reference
\* since it was loaded, the location has a handle that is gone.
CopyFile(t) ==
    LET c == call[t] IN
    /\ At(t, "copying")
    /\ Becomes(t, Located(c, c.id, IF ~c.hasFile THEN "null"
                                   ELSE IF FileOpen(c.id) THEN "open" ELSE "dangling"))
    /\ UNCHANGED <<scope, disk, building, nextPackId, packs, snapshot, mounted>>

-----------------------------------------------------------------------------
(* ReadChunkSync and ReadChunkAsync with a location; what a dangling handle *)
(* does is not modelled.                                                   *)

Record(c) == CHOOSE r \in RecordsIn(c.id, "chunk", c.key) : TRUE

\* The result of a read that was asked for with a buffer of dstSize bytes.
Read(c, mode, dstSize, result) ==
    [pc |-> "read", mode |-> mode, key |-> c.key, id |-> c.id, dstSize |-> dstSize,
     file |-> c.file, result |-> result]

Reads(t, dstSize) ==
    /\ At(t, "located") /\ call[t].kind = "chunk" /\ call[t].id # None
    /\ call[t].file # "dangling"
    /\ dstSize - Record(call[t]).compressedSize \in -1 .. 1

ReadSync(t, dstSize) ==
    LET c == call[t]
        r == Record(c)
    IN
    /\ Reads(t, dstSize)
    /\ Becomes(t, Read(c, "sync", dstSize,
                    IF c.file = "null" \/ dstSize < r.compressedSize THEN Failed
                    ELSE ReadAt(DataOf(packs[c.id].data), r.offset, r.compressedSize)))
    /\ UNCHANGED <<scope, disk, building, nextPackId, packs, snapshot, mounted>>

\* ReadChunkAsync and PackAsyncIO::ReadAsync: the task keeps the file.
LaunchRead(t, dstSize) ==
    LET c == call[t] IN
    /\ Reads(t, dstSize)
    /\ Becomes(t, IF c.file = "null" \/ dstSize < Record(c).compressedSize
                  THEN Read(c, "async", dstSize, Failed)
                  ELSE [pc |-> "reading", key |-> c.key, id |-> c.id, file |-> c.file,
                        dstSize |-> dstSize])
    /\ UNCHANGED <<scope, disk, building, nextPackId, packs, snapshot, mounted>>

\* The task.  It fills the buffer, not the chunk: dstSize bytes are read.
RunRead(t) ==
    LET c == call[t] IN
    /\ At(t, "reading")
    /\ Becomes(t, Read(c, "async", c.dstSize,
                    ReadAt(DataOf(packs[c.id].data), Record(c).offset, c.dstSize)))
    /\ UNCHANGED <<scope, disk, building, nextPackId, packs, snapshot, mounted>>

\* The caller drops what the call gave it.
Return(t) ==
    /\ t \in scope.threads /\ call[t].pc \in {"refused", "located", "read"}
    /\ Becomes(t, Idle)
    /\ UNCHANGED <<scope, disk, building, nextPackId, packs, snapshot, mounted>>

MaxBuffer == 16     \* bound: bytes of a buffer

Next ==
    \/ \E name \in Names, k \in Builds : WriteToc(name, k)
    \/ WriteData
    \/ \E t \in Threads :
        \/ \E name \in Names, priority \in Priorities : BeginMount(t, name, priority)
        \/ OpenData(t)
        \/ Publish(t)
        \/ \E id \in DOMAIN packs : Umount(t, id)
        \/ UnmountAll(t)
        \/ \E kind \in {"asset", "chunk"}, key \in scope.keys, within \in -1 .. nextPackId - 1 :
                BeginFind(t, kind, key, within)
        \/ Walk(t)
        \/ CopyFile(t)
        \/ \E dstSize \in 0 .. MaxBuffer : ReadSync(t, dstSize) \/ LaunchRead(t, dstSize)
        \/ RunRead(t)
        \/ Return(t)

Spec == Init /\ [][Next]_vars

-----------------------------------------------------------------------------
(* Properties.                                                             *)

\* What was added to build k as a chunk or as an asset: AddChunk and AddAsset take
\* the first valid description with an id.
FirstOf(descs, Valid(_)) ==
    descs[CHOOSE n \in DOMAIN descs :
            Valid(descs[n]) /\ \A j \in 1 .. n - 1 : ~Valid(descs[j])]
AddedChunk(k, key) ==
    FirstOf(scope.builds[k].chunks,
            LAMBDA d : d.chunkId = key /\ d.data # <<>> /\ d.alignment \in 1 .. MaxAlignment)
AddedAsset(k, key) ==
    FirstOf(scope.builds[k].assets,
            LAMBDA d : d.assetId = key /\ d.metadataChunkId # InvalidId)

\* The files that one Build wrote are never refused by Mount.
BuiltPacksMount ==
    \A t \in Threads : call[t].pc = "refused" =>
        call[t].toc # call[t].data \/ call[t].toc = 0

\* A search answers with a pack of the highest priority among those mounted when
\* it began that have the id, or with none if none has it, whatever is mounted or
\* unmounted while it walks.
FindAnswersTruly ==
    \A t \in Threads : call[t].pc = "located" => call[t].id \in call[t].expected

\* The record of an asset that was found gives the asset's dependencies and its name.
AssetsAsAdded ==
    \A t \in Threads :
        LET c == call[t] IN
        c.pc = "located" /\ c.kind = "asset" /\ c.id # None =>
            LET k == packs[c.id].toc
                tables == TocOf(k).value
                r == CHOOSE a \in RecordsIn(c.id, "asset", c.key) : TRUE
                added == AddedAsset(k, c.key)
                From(s, n) == SubSeq(s, n + 1, Len(s))
            IN  /\ r.dependencyCount = Len(added.dependencies)
                /\ IsPrefix(added.dependencies, From(tables.dependencies, r.firstDependency))
                /\ IsPrefix(Append(added.name, 0), From(tables.strings, r.nameOffset))

\* A chunk whose TOC and data are of one build lies where its alignment says, and
\* reading it gives, decompressed, the bytes that were added, even if the pack is
\* unmounted before or during the read.  A read fails only if the buffer is too
\* small (or, asynchronously, larger than the chunk), or if the pack was unmounted
\* while the search was on its way.
ReadsWhatWasAdded ==
    \A t \in Threads :
        LET c == call[t] IN
        c.pc = "read" /\ packs[c.id].toc = packs[c.id].data =>
            LET r == Record(c)
                added == AddedChunk(packs[c.id].toc, c.key)
                fits == IF c.mode = "sync" THEN c.dstSize >= r.compressedSize
                        ELSE c.dstSize = r.compressedSize
            IN  /\ r.offset % added.alignment = 0
                /\ c.result.ok =>
                    Decompress(r.compression, SubSeq(c.result.value, 1, r.compressedSize),
                               r.uncompressedSize) = Done(added.data)
                /\ ~c.result.ok /\ fits => c.file # "open" /\ c.id \notin mounted
=============================================================================
