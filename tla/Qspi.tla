-------------------------------- MODULE Qspi --------------------------------
(***************************************************************************)
(* The builder of the raw QSPI image (qspi-flash.py --build-image): which  *)
(* catalogs it takes, where it writes each payload, and what it leaves     *)
(* behind when a call fails, the process dies or a payload changes under   *)
(* it.  It runs any number of times, one run after another.                *)
(*                                                                         *)
(* A payload is its contents, so it stands for its digest too; file[p] is  *)
(* what the file named for payload p really holds.                         *)
(***************************************************************************)
EXTENDS Integers, Sequences, FiniteSets, FiniteSetsExt

CONSTANTS
    StorageSize,  \* storage.size, in units
    EraseSize,    \* storage.erase_block_size
    Payloads,     \* contents of the payload files
    NoImage,      \* a partition's image: None
    Erased,       \* a unit of 0xff
    Catalogs,     \* lists of partitions
    Exchanges     \* bound on the changes to the payload files of a catalog

ASSUME QspiAssumption ==
    /\ StorageSize \in Nat \ {0}
    /\ EraseSize \in Nat \ {0}
    /\ NoImage \notin Payloads
    /\ \A p \in Payloads : /\ p \in Seq({p[i] : i \in DOMAIN p})
                          /\ \A i \in DOMAIN p : p[i] # Erased
    /\ Catalogs \subseteq Seq([name: STRING, offset: Nat, size: Nat,
                               image: Payloads \cup {NoImage}])
    /\ Exchanges \in Nat

VARIABLES
    partitions, \* manifest["partitions"]
    file,       \* contents of the payload files
    at,         \* where the builder stands
    next,       \* the next partition to write
    target,     \* the image, or NoFile
    checksum,   \* the image the checksum file is of, or NoFile, or Part
    exchanges

qspiVars == <<partitions, file, at, next, target, checksum, exchanges>>

Ended == {"idle", "built", "refused", "failed", "killed"}

NoFile == <<"no file">>
Part   == <<"part">>

QspiInit ==
    /\ partitions \in Catalogs
    /\ file = [p \in Payloads |-> p]
    /\ at = "idle"
    /\ next = 1
    /\ target = NoFile
    /\ checksum = NoFile
    /\ exchanges = 0

-----------------------------------------------------------------------------
(* Catalogs *)

Populated(p) == p.image # NoImage

\* offset < previous_end is refused, in the order of offsets.
Before(p, q) == p.offset + p.size <= q.offset

\* Size and digest of one partition's payload.
Loaded(p) ==
    Populated(p) => Len(p.image) <= p.size /\ file[p.image] = p.image

\* load_catalog
Accepts(list) ==
    /\ list # <<>>
    /\ \A i, j \in DOMAIN list : i # j =>
        /\ list[i].name # list[j].name
        /\ Before(list[i], list[j]) \/ Before(list[j], list[i])
    /\ \A i \in DOMAIN list :
        /\ list[i].size > 0
        /\ list[i].offset + list[i].size <= StorageSize
        /\ Loaded(list[i])
    /\ \E i \in DOMAIN list : Populated(list[i])

\* The errors of write_offsets.
Writable(p) ==
    p.name = "BCT" =>
        /\ p.offset = 0
        /\ Len(p.image) <= EraseSize
        /\ p.size % EraseSize = 0

\* Variant that leaves out the last copy.
OffsetsShort(p) ==
    IF p.name # "BCT" THEN {p.offset}
    ELSE {o \in p.offset..(p.offset + p.size - EraseSize - 1) :
            (o - p.offset) % EraseSize = 0}

\* write_offsets: the BCT has a copy in every erase block of its partition.
WriteOffsets(p) ==
    IF p.name # "BCT" THEN {p.offset}
    ELSE {o \in p.offset..(p.offset + p.size - 1) : (o - p.offset) % EraseSize = 0}

-----------------------------------------------------------------------------
(* build_image *)

\* stream.seek and stream.write of contents at each offset in turn; a write
\* past the end of the image makes it longer.
Written(image, offsets, contents) ==
    LET Under(c) == {o \in offsets : c - o \in DOMAIN contents}
        End == Max({Len(image)} \cup {o + Len(contents) : o \in offsets})
    IN  [c \in 1..End |-> IF Under(c) = {} THEN image[c] ELSE contents[c - Max(Under(c))]]

\* read_digest of a region is that of the payload it should hold.
ReadsBack(image, p) ==
    \A o \in WriteOffsets(p) : SubSeq(image, o + 1, o + Len(p.image)) = p.image

\* load_catalog, and the tests before the try statement.
Load ==
    /\ at \in Ended
    /\ next' = 1
    /\ at' = IF Accepts(partitions) /\ target = NoFile /\ checksum = NoFile
             THEN "loaded" ELSE "refused"
    /\ UNCHANGED <<partitions, file, target, checksum, exchanges>>

\* The new file, erased throughout.
Create ==
    /\ at = "loaded"
    /\ at' = "writing"
    /\ target' = [c \in 1..StorageSize |-> Erased]
    /\ UNCHANGED <<partitions, file, next, checksum, exchanges>>

\* One turn of the loop over the partitions.
WritePartition ==
    LET p == partitions[next] IN
    /\ at = "writing"
    /\ next <= Len(partitions)
    /\ Populated(p) => Writable(p)
    /\ target' = IF Populated(p)
                 THEN Written(target, WriteOffsets(p), file[p.image]) ELSE target
    /\ next' = next + 1
    /\ UNCHANGED <<partitions, file, at, checksum, exchanges>>

\* The image is read back, region by region.
ReadBack ==
    /\ at = "writing"
    /\ next > Len(partitions)
    /\ \A i \in DOMAIN partitions :
        Populated(partitions[i]) => ReadsBack(target, partitions[i])
    /\ at' = "summing"
    /\ UNCHANGED <<partitions, file, next, target, checksum, exchanges>>

\* checksum.write_text creates the file, then fills it.
BeginChecksum ==
    /\ at = "summing"
    /\ checksum = NoFile
    /\ checksum' = Part
    /\ UNCHANGED <<partitions, file, at, next, target, exchanges>>

WriteChecksum ==
    /\ at = "summing"
    /\ checksum = Part
    /\ checksum' = target
    /\ at' = "built"
    /\ UNCHANGED <<partitions, file, next, target, exchanges>>

\* Any call raises, write_offsets and the comparison of ReadBack among them.
Fail ==
    /\ at \notin Ended
    /\ at' = "failed"
    /\ target' = NoFile
    /\ checksum' = NoFile
    /\ UNCHANGED <<partitions, file, next, exchanges>>

\* Nothing is cleaned up.
KillBuilder ==
    /\ at \notin Ended
    /\ at' = "killed"
    /\ UNCHANGED <<partitions, file, next, target, checksum, exchanges>>

\* helm-macos qspi, run again: clean_directory, and the catalog imported anew.
CleanDirectory ==
    /\ at \in Ended \ {"idle"}
    /\ at' = "idle"
    /\ next' = 1
    /\ target' = NoFile
    /\ checksum' = NoFile
    /\ file' = [p \in Payloads |-> p]
    /\ exchanges' = 0
    /\ UNCHANGED partitions

\* The file of payload p gets other contents, or its own again.
Exchange(p, contents) ==
    /\ exchanges < Exchanges
    /\ exchanges' = exchanges + 1
    /\ file[p] # contents
    /\ file' = [file EXCEPT ![p] = contents]
    /\ UNCHANGED <<partitions, at, next, target, checksum>>

QspiNext ==
    \/ Load \/ Create \/ WritePartition \/ ReadBack \/ BeginChecksum \/ WriteChecksum
    \/ Fail \/ KillBuilder \/ CleanDirectory
    \/ \E p, contents \in Payloads : Exchange(p, contents)

QspiSpec == QspiInit /\ [][QspiNext]_qspiVars

-----------------------------------------------------------------------------
\* What a boot ROM that looks at the start of every erase block of the BCT,
\* and firmware that knows the partition table, find in unit c (from 0).
Stored(p, c) ==
    LET Place == IF p.name = "BCT" THEN c % EraseSize ELSE c - p.offset
    IN  IF Place < Len(p.image) THEN p.image[Place + 1] ELSE Erased

Holding(c) ==
    {i \in DOMAIN partitions : /\ Populated(partitions[i])
                            /\ c \in partitions[i].offset..(partitions[i].offset + partitions[i].size - 1)}

\* An image that has its checksum holds every payload in its place, the BCT in
\* every erase block, and is erased elsewhere, through failures, kills and
\* retries; if payload files change after load_catalog compared their digests,
\* every payload is still whole, and only what should be erased may not be
\* (build_image).
ChecksumMeansImage ==
    checksum \notin {NoFile, Part} =>
        /\ checksum = target
        /\ exchanges = 0 => Len(target) = StorageSize
        /\ \A c \in 0..(StorageSize - 1) :
            LET expected == IF Holding(c) = {} THEN Erased
                            ELSE Stored(partitions[CHOOSE i \in Holding(c) : TRUE], c)
            IN  target[c + 1] = expected \/ (expected = Erased /\ exchanges > 0)
=============================================================================
