----------------------------- MODULE PackFormat -----------------------------
(***************************************************************************)
(* The files of a resource pack: what Builder writes and what              *)
(* PackFileSystem accepts and finds in it (resource/private/builder,       *)
(* compress, pack).  All of it is pure.                                    *)
(*                                                                         *)
(* A data file is a sequence of bytes.  A table of contents (TOC) is a     *)
(* header and a sequence of cells: a record of a table fills one cell, as  *)
(* does a character of the string table, so that offsets and counts are    *)
(* what they are in the file with sizeof(T) = 1.  Names, hashes and flags  *)
(* are opaque.                                                             *)
(***************************************************************************)
EXTENDS Integers, Sequences, SequencesExt

CONSTANTS
    MaxRunLength,       \* s_MaxRunLength: 255, the largest byte
    DataHeaderSize,     \* sizeof(PackDataHeader)
    MaxAlignment        \* 0xFFFF

ASSUME FormatAssumption ==
    /\ MaxRunLength \in Nat \ {0}
    /\ DataHeaderSize \in Nat \ {0}
    /\ MaxAlignment \in Nat \ {0}

InvalidId == 0          \* s_InvalidAssetId and s_InvalidChunkId
FormatVersion == 1      \* s_PackFormatVersion
ThisLayout == "SPAC"    \* the magic and the sizes of the records

Failed == [ok |-> FALSE]
Done(v) == [ok |-> TRUE, value |-> v]

-----------------------------------------------------------------------------
(* The codecs.                                                             *)

\* The length of the run of equal bytes that starts at i.
RunLength(src, i) ==
    CHOOSE n \in 1 .. MaxRunLength :
        /\ i + n - 1 <= Len(src)
        /\ \A k \in i .. i + n - 1 : src[k] = src[i]
        /\ n = MaxRunLength \/ i + n > Len(src) \/ src[i + n] # src[i]

\* RLECompressor::Compress: pairs of a count and a byte.  The loop after n rounds;
\* there are at most as many as there are bytes.
NextRun(src, loop) ==
    IF loop.i > Len(src) THEN loop
    ELSE LET count == RunLength(src, loop.i) IN
         [i |-> loop.i + count, out |-> loop.out \o <<count, src[loop.i]>>]

RunsOf(src) ==
    LET after[n \in 0 .. Len(src)] ==
            IF n = 0 THEN [i |-> 1, out |-> <<>>] ELSE NextRun(src, after[n - 1])
    IN  after[Len(src)].out

\* NullCompressor copies.
Compress(compression, src) ==
    IF compression = "RLE" THEN RunsOf(src) ELSE src

\* RLEDecompressor::Decompress into a buffer of dstSize bytes.
Unrun(src, dstSize) ==
    LET Pairs == Len(src) \div 2
        Run(k) == [n \in 1 .. src[2 * k - 1] |-> src[2 * k]]
        out[k \in 0 .. Pairs] == IF k = 0 THEN <<>> ELSE out[k - 1] \o Run(k)
    IN  IF Len(src) % 2 = 0 /\ Len(out[Pairs]) = dstSize THEN Done(out[Pairs]) ELSE Failed

Decompress(compression, src, dstSize) ==
    IF compression = "RLE" THEN Unrun(src, dstSize)
    ELSE IF Len(src) = dstSize THEN Done(src) ELSE Failed

-----------------------------------------------------------------------------
(* Builder.                                                                *)

EmptyBuilder == [chunks |-> <<>>, assets |-> <<>>]

\* AddChunk: the builder after it; a refused description changes nothing.
AddChunk(b, desc) ==
    IF \/ desc.chunkId = InvalidId
       \/ desc.data = <<>>
       \/ desc.alignment \notin 1 .. MaxAlignment
       \/ \E k \in DOMAIN b.chunks : b.chunks[k].chunkId = desc.chunkId
    THEN b
    ELSE [b EXCEPT !.chunks = Append(@,
            [chunkId |-> desc.chunkId, compression |-> desc.compression,
             alignment |-> desc.alignment, uncompressedSize |-> Len(desc.data),
             compressedData |-> Compress(desc.compression, desc.data)])]

\* AddAsset
AddAsset(b, desc) ==
    IF \/ InvalidId \in {desc.assetId, desc.metadataChunkId}
       \/ \E k \in DOMAIN b.assets : b.assets[k].assetId = desc.assetId
    THEN b
    ELSE [b EXCEPT !.assets = Append(@, desc)]

\* A builder that was given chunks, and assets.
AddChunks(b, descs) ==
    LET after[n \in 0 .. Len(descs)] ==
            IF n = 0 THEN b ELSE AddChunk(after[n - 1], descs[n])
    IN  after[Len(descs)]

AddAssets(b, descs) ==
    LET after[n \in 0 .. Len(descs)] ==
            IF n = 0 THEN b ELSE AddAsset(after[n - 1], descs[n])
    IN  after[Len(descs)]

\* The bytes to add to `size' to reach a multiple of the alignment.
Padding(size, alignment) ==
    IF size % alignment = 0 THEN 0 ELSE alignment - (size % alignment)

Zeros(n) == [k \in 1 .. n |-> 0]

\* Where a chunk goes when the file has `size' bytes.
\* (mutant of ChunkOffset: taken before the padding is added)
ChunkOffsetEarly(size, alignment) == size

ChunkOffset(size, alignment) == size + Padding(size, alignment)

\* The loop of BuildDataFile over one more chunk.
PlaceChunk(file, c) ==
    [data |-> file.data \o Zeros(Padding(Len(file.data), c.alignment)) \o c.compressedData,
     records |-> Append(file.records,
        [chunkId |-> c.chunkId, offset |-> ChunkOffset(Len(file.data), c.alignment),
         compressedSize |-> Len(c.compressedData),
         uncompressedSize |-> c.uncompressedSize,
         compression |-> c.compression, alignment |-> c.alignment])]

BuildDataFile(b) ==
    LET after[n \in 0 .. Len(b.chunks)] ==
            IF n = 0 THEN [data |-> Zeros(DataHeaderSize), records |-> <<>>]
            ELSE PlaceChunk(after[n - 1], b.chunks[n])
    IN  after[Len(b.chunks)]

\* A name in the string table.
\* (mutant of NameEntry: without the terminating zero)
NameEntryBare(name) == name

NameEntry(name) == Append(name, 0)

\* The loop of BuildTables over one more asset.
TabulateAsset(tables, asset) ==
    [records |-> Append(tables.records,
        [assetId |-> asset.assetId, metadataChunkId |-> asset.metadataChunkId,
         firstDependency |-> Len(tables.dependencies),
         dependencyCount |-> Len(asset.dependencies),
         nameOffset |-> Len(tables.strings)]),
     dependencies |-> tables.dependencies \o asset.dependencies,
     strings |-> tables.strings \o NameEntry(asset.name)]

BuildTables(b) ==
    LET after[n \in 0 .. Len(b.assets)] ==
            IF n = 0 THEN [records |-> <<>>, dependencies |-> <<>>, strings |-> <<>>]
            ELSE TabulateAsset(after[n - 1], b.assets[n])
    IN  after[Len(b.assets)]

\* outMaxAlignment
LargestAlignment(b) ==
    Max({1} \cup {b.chunks[k].alignment : k \in DOMAIN b.chunks})

\* Build: the TOC and the data file, or false.
Build(b) ==
    LET file == BuildDataFile(b)
        tables == BuildTables(b)
        chunksAt == 1 + Len(tables.records)
        dependenciesAt == chunksAt + Len(file.records)
        stringsAt == dependenciesAt + Len(tables.dependencies)
        header ==
            [version |-> FormatVersion, layout |-> ThisLayout,
             assetTableOffset |-> 1, assetCount |-> Len(tables.records),
             chunkTableOffset |-> chunksAt, chunkCount |-> Len(file.records),
             dependencyTableOffset |-> dependenciesAt,
             dependencyCount |-> Len(tables.dependencies),
             stringTableOffset |-> stringsAt, stringTableSize |-> Len(tables.strings),
             dataFileSize |-> Len(file.data), alignment |-> LargestAlignment(b)]
    IN  IF \A k \in DOMAIN b.assets : \E j \in DOMAIN b.chunks :
                b.chunks[j].chunkId = b.assets[k].metadataChunkId
        THEN Done([toc |-> <<header>> \o tables.records \o file.records
                            \o tables.dependencies \o tables.strings,
                   data |-> file.data])
        ELSE Failed

-----------------------------------------------------------------------------
(* What PackFileSystem makes of the files.                                 *)

\* ReadTable: the records of a table, or false when the file ends before.
ReadTable(toc, offset, count) ==
    IF count = 0 THEN Done(<<>>)
    ELSE IF offset + count > Len(toc) THEN Failed
    ELSE Done(SubSeq(toc, offset + 1, offset + count))

ValidateHeader(header) ==
    /\ header.layout = ThisLayout
    /\ header.version \in 1 .. FormatVersion
    /\ header.alignment # 0
    /\ header.dataFileSize # 0

\* LoadToc: the tables of a MountedPack, or false.
LoadToc(toc) ==
    IF toc = <<>> \/ ~ValidateHeader(toc[1]) THEN Failed
    ELSE LET header == toc[1]
             assets == ReadTable(toc, header.assetTableOffset, header.assetCount)
             chunks == ReadTable(toc, header.chunkTableOffset, header.chunkCount)
             dependencies ==
                ReadTable(toc, header.dependencyTableOffset, header.dependencyCount)
             strings == ReadTable(toc, header.stringTableOffset, header.stringTableSize)
         IN  IF assets.ok /\ chunks.ok /\ dependencies.ok /\ strings.ok
             THEN Done([assets |-> assets.value, chunks |-> chunks.value,
                        dependencies |-> dependencies.value, strings |-> strings.value,
                        dataFileSize |-> header.dataFileSize])
             ELSE Failed

\* The range check of BuildIndex; the sum does not wrap for sizes of real files.
\* (mutant of EndsWithin: the last chunk may not reach the end of the file)
EndsWithinShort(record, size) == record.offset + record.compressedSize < size

EndsWithin(record, size) == record.offset + record.compressedSize <= size

\* BuildIndex succeeds: every id is valid and unique, every chunk has bytes and
\* ends within the data file.
Indexable(tables) ==
    /\ \A k \in DOMAIN tables.assets :
        /\ InvalidId \notin {tables.assets[k].assetId, tables.assets[k].metadataChunkId}
        /\ \A j \in 1 .. k - 1 : tables.assets[j].assetId # tables.assets[k].assetId
    /\ \A k \in DOMAIN tables.chunks :
        LET record == tables.chunks[k] IN
        /\ record.chunkId # InvalidId
        /\ record.compressedSize # 0 /\ record.uncompressedSize # 0
        /\ EndsWithin(record, tables.dataFileSize)
        /\ \A j \in 1 .. k - 1 : tables.chunks[j].chunkId # record.chunkId

\* assetIndex and chunkIndex: the records of an id, one or none.
AssetRecordsOf(tables, id) == {r \in ToSet(tables.assets) : r.assetId = id}
ChunkRecordsOf(tables, id) == {r \in ToSet(tables.chunks) : r.chunkId = id}

\* FileHandle::ReadAt: `size' bytes from `offset', or false when there are fewer.
ReadAt(data, offset, size) ==
    IF offset + size > Len(data) THEN Failed
    ELSE Done(SubSeq(data, offset + 1, offset + size))
=============================================================================
