-------------------------------- MODULE Images --------------------------------
(***************************************************************************)
(* The parsers and builders of Firmware, one call on one image: any small  *)
(* capsule, memory component, compressed DCE, MB2 component, manifest or   *)
(* pair of kernel and ramdisk, most of them malformed.                     *)
(***************************************************************************)
EXTENDS Firmware

CONSTANTS
    BupSpecs,   \* module specifications of the supported SKUs
    Largest,    \* bound on the sizes of images
    TableSize,  \* entries of the BUP, slots of MEM_BCT
    Piece       \* bound on the sizes of their parts

ASSUME LargestAssumption == Largest \in Nat /\ TableSize \in Nat \ {0} /\ Piece \in Nat

VARIABLES
    image,      \* what the tool was given
    parsed,     \* the tool was called
    result      \* what it made of the image

imageVars == <<image, parsed, result>>

BupEntries ==
    [name: {"mb2"}, tnspec: BupSpecs \cup {Shared},
     offset: BupHeader..(BupHeader + TableSize + Piece), size: 0..Piece]

Capsules ==
    {[kind |-> "capsule", magics |-> magics, offset |-> 2, length |-> 2 + length + extra,
      blob |-> [length |-> length, declared |-> length, table |-> table]] :
        magics \in {1, 2}, length \in 3..Largest, extra \in {0, 1},
        table \in [1..TableSize -> BupEntries]}

MemoryComponents ==
    [kind: {"memory"}, slots: [1..TableSize -> [size: 0..Piece, block: 0..Piece]],
     length: 2..Largest, nonzero: {{}} \cup {{u} : u \in 2..Largest}]

Compressed ==
    [kind: {"dce"}, count: 0..Largest, length: 1..(2 * Largest), frame: 0..Largest]

Manifests ==
    [kind: {"manifest"}, sizes: UNION {[1..n -> 0..Piece] : n \in 0..(2 * TableSize)}]

BootImages == [kind: {"boot"}, page: 1..8, kernel: 0..Largest, ramdisk: 0..Largest]

RawMb2 == [markers: 0..2, cvm: {0, 256}, cvb: {0, 1, 256},
           addresses: {"A0AE", "other"}, length: {4}]

Good == [markers |-> 1, cvm |-> 256, cvb |-> 256, addresses |-> "A0AE", length |-> 4]

\* An MB2 component as signed, or with one thing about it changed.
Mb2Components ==
    UNION {LET c == Component("MB2B", raw)
           IN  {c,
                [c EXCEPT !.payload.length = 5],
                [c EXCEPT !.stage1.size = 5],
                [c EXCEPT !.stage2.magic = "MEM0"],
                [c EXCEPT !.stage1.sha = Digest([Good EXCEPT !.length = 5])],
                SealOuter([c EXCEPT !.inner = Digest(<<c.stage1>>)]),
                SealOuter(SealInner([c EXCEPT !.stage2.size = 5]))}
           : raw \in RawMb2}

ImagesInit ==
    /\ image \in Capsules \cup MemoryComponents \cup Compressed \cup Manifests
                 \cup BootImages \cup Mb2Components
    /\ parsed = FALSE
    /\ result = <<>>

\* One call of the tool.
ParseImage ==
    /\ ~parsed
    /\ parsed' = TRUE
    /\ result' =
         CASE image.kind = "capsule"   -> ParseCapsule(image, TableSize, BupSpecs)
           [] image.kind = "memory"    -> MemorySlotZero(image)
           [] image.kind = "dce"       -> CompressedFits(image)
           [] image.kind = "manifest"  -> BuildBlob(image.sizes)
           [] image.kind = "boot"      ->
                 BuildImage(image.page, image.kernel, image.ramdisk)
           [] image.kind = "component" -> DisableAbsentCvbEeprom(image)
    /\ UNCHANGED image

ImagesSpec == ImagesInit /\ [][ParseImage]_imageVars

-----------------------------------------------------------------------------
\* The parts lie in the whole, do not overlap, and leave nothing out.
Tile(parts, whole) ==
    /\ UNION {parts[i] : i \in DOMAIN parts} = whole
    /\ \A i, j \in DOMAIN parts : i # j => parts[i] \cap parts[j] = {}

First(part) == CHOOSE u \in part : \A v \in part : u <= v

\* The units of the pages a part takes up.
Pages(part, page) == UNION {Extent((u \div page) * page, page) : u \in part}

PaddedSlot(slot) ==
    LET start == slot.block * MemoryBlock
    IN  Extent(start, RoundUp(start + slot.size, MemoryBlock) - start)

\* Where the parts of an image lie that a tool accepts or makes.  The payloads
\* of an accepted BUP tile what is behind its table; those of a recovery blob
\* what is behind its header, and verify_blob agrees.  The chunks of a
\* compressed body that are digested are the whole of it.  The pages of header,
\* kernel and ramdisk tile a boot image, in this order, and kernel and ramdisk
\* begin at the start of a page.  The padded slots of an accepted memory component follow each
\* other in the order of its table, behind the header and to the end of the
\* component, and what is taken is in the first of them; there may be gaps
\* between them, which memory_slot_zero allows (parse_capsule,
\* memory_slot_zero, compressed_dce_source, build_blob, build_image).
PartsInPlace ==
    parsed =>
      CASE image.kind = "capsule" ->
             result # <<>> =>
               Tile([i \in 1..TableSize |-> Extent(result[i].offset, result[i].size)],
                    (BupHeader + TableSize * BupEntry)..(image.length - image.offset - 1))
        [] image.kind = "memory" ->
             result # {} =>
               LET slot == [i \in 1..TableSize |-> PaddedSlot(image.slots[i])]
               IN  /\ \A i, j \in 1..TableSize : i < j =>
                        \A u \in slot[i], v \in slot[j] : u < v
                   /\ \A i \in 1..TableSize :
                         slot[i] \subseteq BchHeader..(image.length - 1)
                   /\ image.length - 1 \in slot[TableSize]
                   /\ result \subseteq slot[1]
        [] image.kind = "dce" ->
             result =>
               LET length == image.length - MetadataSize(image.count)
               IN  /\ DigestedChunks(image.count, length) = Extent(0, length)
                   /\ DigestedChunks(image.count - 1, length) # Extent(0, length)
        [] image.kind = "manifest" ->
             ManifestFits(image.sizes) =>
               /\ VerifyBlob(result, image.sizes)
               /\ Tile([i \in DOMAIN image.sizes |->
                          Extent(result.records[i].offset, result.records[i].size)],
                       PayloadOffset..(result.length - 1))
        [] image.kind = "boot" ->
             result # Failed =>
               LET parts == <<Extent(0, BootHeader), result.kernel, result.ramdisk>>
               IN  /\ Tile([i \in 1..3 |-> Pages(parts[i], image.page)],
                           Extent(0, result.length))
                   /\ First(result.kernel) % image.page = 0
                   /\ First(result.ramdisk) % image.page = 0
                   /\ \A u \in result.kernel, v \in result.ramdisk : u < v
        [] OTHER -> TRUE

\* Rewriting the EEPROM size of a genuine MB2 always succeeds, changes nothing
\* else and is done once: the rebuilt component passes its own validation,
\* although of its digests one covers the other; and anything that is not such
\* an MB2 is refused (disable_absent_cvb_eeprom, rebuild_single_bch_payload).
RebuildAccepted ==
    image.kind = "component" /\ parsed =>
      LET raw == image.payload
      IN  IF /\ SinglePayload(image, "MB2B")
             /\ raw \in RawMb2 /\ raw.cvb # 1 /\ raw = [Good EXCEPT !.cvb = raw.cvb]
          THEN /\ result = Component("MB2B", [raw EXCEPT !.cvb = 0])
               /\ DisableAbsentCvbEeprom(result) = result
          ELSE result = Failed
=============================================================================
