------------------------------- MODULE Firmware -------------------------------
(***************************************************************************)
(* The images the firmware tools take apart and put together: NVIDIA's BUP *)
(* and its boot components (build-r39-family-inputs.py), the recovery blob *)
(* (build-rcm-blob.py) and the Android boot image (mkbootimg.py).          *)
(*                                                                         *)
(* Bytes are left out where only their digest counts: a digest is what it  *)
(* was taken of.  Sizes of the formats are scaled down to a few units, of  *)
(* which the code's divisibility and order are kept.  Every parser is what *)
(* it does to an arbitrary image; that the artefacts are also pinned by    *)
(* their SHA-256 is not used.                                              *)
(***************************************************************************)
EXTENDS Integers, Sequences, FiniteSets

Failed == [kind |-> "failed"]

\* The module specification of an entry for all modules.
Shared == ""

Digest(data) == [digestOf |-> data]

\* The units from `start` on.
Extent(start, size) == start..(start + size - 1)

RoundUp(n, unit) == ((n + unit - 1) \div unit) * unit

-----------------------------------------------------------------------------
\* The BUP: a header, a table, and the payloads one after the other.
BupHeader == 1
BupEntry == 1

\* Variant that lets a payload begin after a gap.
NotBefore(offset, cursor) == offset >= cursor

Contiguous(offset, cursor) == offset = cursor

\* parse_bup: the loop over the table, and the checks around it.
ParseBup(blob, count) ==
    LET table == blob.table
        tableEnd == BupHeader + count * BupEntry
        End(i) == table[i].offset + table[i].size
        Cursor(i) == IF i = 1 THEN tableEnd ELSE End(i - 1)
    IN  IF /\ blob.declared = blob.length
           /\ Len(table) = count
           /\ tableEnd <= blob.length
           /\ \A i \in 1..count :
                /\ Contiguous(table[i].offset, Cursor(i))
                /\ table[i].size > 0
                /\ End(i) <= blob.length
                /\ \A j \in 1..(i - 1) :
                     <<table[j].name, table[j].tnspec>> # <<table[i].name, table[i].tnspec>>
           /\ Cursor(count + 1) = blob.length
        THEN table ELSE <<>>

\* parse_capsule: one BUP, which takes up the rest of the capsule, with
\* entries for exactly the supported modules.  <<>> is a failure.
ParseCapsule(capsule, count, specs) ==
    LET entries == ParseBup(capsule.blob, count)
    IN  IF /\ capsule.magics = 1
           /\ capsule.offset + BupHeader <= capsule.length
           /\ capsule.offset + capsule.blob.declared = capsule.length
           /\ {entries[i].tnspec : i \in DOMAIN entries} \ {Shared} = specs
        THEN entries ELSE <<>>

\* select_entry: the module's own entry, else the only one for all modules.
SelectEntry(entries, name, tnspec) ==
    LET Of(spec) == {e \in DOMAIN entries : entries[e].name = name /\ entries[e].tnspec = spec}
    IN  CASE Cardinality(Of(tnspec)) = 1 -> entries[CHOOSE e \in Of(tnspec) : TRUE]
          [] Of(tnspec) = {} /\ Cardinality(Of(Shared)) = 1 -> entries[CHOOSE e \in Of(Shared) : TRUE]
          [] OTHER -> Failed

-----------------------------------------------------------------------------
\* A boot component: a header with two descriptors of the payload, an inner
\* digest of the descriptors and an outer one of all that follows it, the inner
\* one included.
Descriptor(magic, payload) ==
    [magic |-> magic, size |-> payload.length, sha |-> Digest(payload)]
InnerDigest(c) == Digest(<<c.stage1, c.stage2>>)
OuterDigest(c) == Digest(<<c.inner, c.stage1, c.stage2>>)

\* validate_bch_hashes
ValidHashes(c) == c.outer = OuterDigest(c) /\ c.inner = InnerDigest(c)

\* single_bch_payload returns and does not fail.
SinglePayload(c, magic) ==
    /\ ValidHashes(c)
    /\ c.stage2 = Descriptor(magic, c.payload)
    /\ c.stage1 = Descriptor(magic, c.payload)

SealInner(c) == [c EXCEPT !.inner = InnerDigest(c)]
SealOuter(c) == [c EXCEPT !.outer = OuterDigest(c)]

\* Variant that refreshes the outer digest before the inner one it covers.
SealOuterFirst(c) == SealInner(SealOuter(c))

Refresh(c) == SealOuter(SealInner(c))

\* rebuild_single_bch_payload
Rebuild(c, magic, payload) ==
    LET rebuilt == Refresh([c EXCEPT !.payload = payload,
                                  !.stage1.size = payload.length,
                                  !.stage1.sha  = Digest(payload),
                                  !.stage2.size = payload.length,
                                  !.stage2.sha  = Digest(payload)])
    IN  IF /\ SinglePayload(c, magic)
           /\ payload.length = c.payload.length
           /\ SinglePayload(rebuilt, magic)
        THEN rebuilt ELSE Failed

\* disable_absent_cvb_eeprom: MB2 reads the module's EEPROM and not the one of
\* the carrier board.
DisableAbsentCvbEeprom(c) ==
    LET raw == c.payload
    IN  CASE \/ ~SinglePayload(c, "MB2B")
             \/ raw.markers # 1
             \/ raw.cvm # 256
             \/ raw.cvb \notin {0, 256}
             \/ raw.addresses # "A0AE" -> Failed
          [] OTHER -> IF raw.cvb = 0 THEN c
                      ELSE Rebuild(c, "MB2B", [raw EXCEPT !.cvb = 0])

\* What signing makes of a payload.
Component(magic, payload) ==
    SealOuter(SealInner([kind |-> "component", payload |-> payload,
          stage1 |-> Descriptor(magic, payload), stage2 |-> Descriptor(magic, payload),
          inner |-> Digest(<<>>), outer |-> Digest(<<>>)]))

-----------------------------------------------------------------------------
\* MEM_BCT: slots in blocks behind the header.
MemoryBlock == 2
BchHeader == 2

\* memory_slot_zero: the loop over the descriptors.  The result is the slot's
\* payload, as the units it takes up; {} is a failure.
MemorySlotZero(c) ==
    LET count == Len(c.slots)
        Start(i) == c.slots[i].block * MemoryBlock
        Stop(i) == Start(i) + c.slots[i].size
        Padded(i) == RoundUp(Stop(i), MemoryBlock)
    IN  IF /\ \A i \in 1..count :
                /\ c.slots[i].size > 0
                /\ Start(i) >= BchHeader
                /\ Padded(i) <= c.length
                /\ i > 1 => Start(i) >= Padded(i - 1)
                /\ c.nonzero \cap Extent(Stop(i), Padded(i) - Stop(i)) = {}
           /\ Padded(count) = c.length
        THEN Extent(Start(1), c.slots[1].size) ELSE {}

\* A compressed DCE: a table of chunk digests, then the chunks, which hold an
\* LZ4 frame and its padding.
Chunk == 3
Alignment == 2
PaddingLimit == 2

MetadataSize(count) == RoundUp(count + 1, Alignment)

ChunkCount(length) == (length + Chunk - 1) \div Chunk

\* The units whose digest the loop over the chunks compares.
DigestedChunks(count, length) ==
    UNION {Extent(i * Chunk, Chunk) \cap Extent(0, length) : i \in 0..(count - 1)}

\* compressed_dce_source, but for the digests and for lz4 itself: whether the
\* table, the frame and the padding fit the body.
CompressedFits(c) ==
    LET compressed == c.length - MetadataSize(c.count)
    IN  /\ c.length >= Alignment
        /\ c.count > 0
        /\ compressed > 0
        /\ c.count = ChunkCount(compressed)
        /\ c.frame > 0 /\ c.frame <= compressed
        /\ compressed - c.frame < PaddingLimit

-----------------------------------------------------------------------------
\* The recovery blob: a header of fixed size with a table, then the payloads.
TableOffset == 2
EntrySize == 1
PayloadOffset == 5

\* The cursor of build_blob behind each payload, of payloads given by their
\* sizes.
Cursors(sizes) ==
    LET cursor[i \in 0..Len(sizes)] ==
            IF i = 0 THEN PayloadOffset ELSE cursor[i - 1] + sizes[i]
    IN  cursor

\* build_blob: the records of the table and the length of the blob.
BuildBlob(sizes) ==
    [records |-> [i \in DOMAIN sizes |-> [offset |-> Cursors(sizes)[i - 1], size |-> sizes[i]]],
     length  |-> Cursors(sizes)[Len(sizes)]]

\* verify_blob, whose cursor goes by the sizes of the table
VerifyBlob(blob, sizes) ==
    LET Cursor(i) == IF i = 0 THEN PayloadOffset
                     ELSE blob.records[i].offset + blob.records[i].size
    IN  /\ blob.length >= PayloadOffset
        /\ Len(blob.records) = Len(sizes)
        /\ \A i \in DOMAIN sizes :
             blob.records[i] = [offset |-> Cursor(i - 1), size |-> sizes[i]]
        /\ blob.length = Cursor(Len(sizes))

\* read_manifest refuses an empty payload, an empty manifest, and more entries
\* than the reserved table holds.
ManifestFits(sizes) ==
    /\ sizes # <<>>
    /\ \A i \in DOMAIN sizes : sizes[i] > 0
    /\ TableOffset + Len(sizes) * EntrySize <= PayloadOffset

\* build_image of mkbootimg.py: header, kernel and ramdisk, each from a page
\* boundary on.
BootHeader == 3
BuildImage(page, kernel, ramdisk) ==
    IF page < 2 \/ page \notin {2, 4, 8} \/ BootHeader > page \/ kernel = 0 \/ ramdisk = 0
    THEN Failed
    ELSE [kind    |-> "image",
          kernel  |-> Extent(RoundUp(BootHeader, page), kernel),
          ramdisk |-> Extent(RoundUp(BootHeader, page) + RoundUp(kernel, page), ramdisk),
          length  |-> RoundUp(BootHeader, page) + RoundUp(kernel, page) + RoundUp(ramdisk, page)]
=============================================================================
