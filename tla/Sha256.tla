------------------------------- MODULE Sha256 -------------------------------
(***************************************************************************)
(* The page's incremental SHA-256 (helm-web/sha256.js) as it hashes a file *)
(* slice by slice: which blocks reach the compression function, whatever   *)
(* the size of the file and of the slices.  The compression function is    *)
(* not modelled: `compressed` is what it was given, in order.              *)
(*                                                                         *)
(* A cell is a byte of a block.  Bytes are not computed but named: a cell  *)
(* of the length field is a word and which byte of it, from the highest.   *)
(* The code is Block = 64, WordBytes = 4 and Word = 2^32.                  *)
(***************************************************************************)
EXTENDS Integers, Sequences

CONSTANTS
    Block,      \* bytes of a block
    WordBytes,  \* bytes of a word of the length field
    Word,       \* number of values of such a word
    Sizes,      \* sizes of the files
    ChunkSizes  \* options.chunkSize

\* A file holds fewer bits than two words count: Number.isSafeInteger.
ASSUME Sha256Assumption ==
    /\ WordBytes \in Nat \ {0}
    /\ Block \in Nat /\ Block > 2 * WordBytes
    /\ Word \in Nat /\ Word > 0 /\ Word % 8 = 0
    /\ Sizes \subseteq Nat
    /\ \A n \in Sizes : 8 * n < Word * Word
    /\ ChunkSizes \subseteq Nat \ {0}

VARIABLES
    size,           \* file.size
    chunkSize,
    chunkEnd,       \* end of the slice being hashed
    offset,         \* bytes of the file taken into the buffer
    buffer,         \* this.buffer, cells 1..Block
    bufferLength,   \* this.bufferLength
    bytesHashed,    \* this.bytesHashed
    finished,       \* this.finished
    compressed      \* every cell given to #compress

shaVars == <<size, chunkSize, chunkEnd, offset, buffer, bufferLength, bytesHashed,
             finished, compressed>>

\* The cells: byte i of the file, zero, 0x80, or, in the length field, byte j of
\* a word n, the most significant being its first (setUint32 with `false`).
Byte(i)     == <<"byte", i, 0>>
Zero        == <<"zero", 0, 0>>
Mark        == <<"mark", 0, 0>>
Count(n, j) == <<"count", n, j>>

Cells == {"byte", "zero", "mark", "count"} \X Nat \X Nat

\* Where the length field begins: the 56 cells before it.
Field == Block - 2 * WordBytes

ShaTypeOK ==
    /\ size \in Sizes
    /\ chunkSize \in ChunkSizes
    /\ chunkEnd \in 0..size
    /\ offset \in 0..chunkEnd
    /\ buffer \in [1..Block -> Cells]
    /\ bufferLength \in 0..(Block - 1)
    /\ bytesHashed = chunkEnd
    /\ finished \in BOOLEAN
    /\ compressed \in Seq(Cells)

ShaInit ==
    /\ size \in Sizes
    /\ chunkSize \in ChunkSizes
    /\ chunkEnd = 0
    /\ offset = 0
    /\ buffer = [i \in 1..Block |-> Zero]
    /\ bufferLength = 0
    /\ bytesHashed = 0
    /\ finished = FALSE
    /\ compressed = <<>>

Least(a, b) == IF a < b THEN a ELSE b

\* The loop of sha256File: the next slice goes to update().
NextSlice ==
    /\ offset = chunkEnd
    /\ chunkEnd < size
    /\ chunkEnd' = Least(chunkEnd + chunkSize, size)
    /\ bytesHashed' = bytesHashed + (chunkEnd' - chunkEnd)
    /\ UNCHANGED <<size, chunkSize, offset, buffer, bufferLength, finished, compressed>>

\* The loop of update(): fill the buffer, and compress it when it is full.
Absorb ==
    LET count == Least(Block - bufferLength, chunkEnd - offset)
        filled == [i \in 1..Block |->
                     IF i > bufferLength /\ i <= bufferLength + count
                     THEN Byte(offset + i - bufferLength) ELSE buffer[i]]
    IN  /\ offset < chunkEnd
        /\ offset' = offset + count
        /\ buffer' = filled
        /\ IF bufferLength + count = Block
           THEN bufferLength' = 0 /\ compressed' = compressed \o filled
           ELSE bufferLength' = bufferLength + count /\ UNCHANGED compressed
        /\ UNCHANGED <<size, chunkSize, chunkEnd, bytesHashed, finished>>

\* Variant that tests whether the length field fits before the mark is added.
FitsBeforeMark(length) == length - 1 <= Field

\* The mark is in the buffer, its `length` cells used: is there room for the
\* length field?
Fits(length) == length <= Field

\* The buffer with zeros in cells from..to.
ZerosIn(cells, from, to) ==
    [i \in 1..Block |-> IF i \in from..to THEN Zero ELSE cells[i]]

\* Byte i of the length field of n bytes: the number of bits, in two words.
\* setUint32 takes them modulo 2^32.
LengthCell(i, n) ==
    IF i <= WordBytes THEN Count((n \div (Word \div 8)) % Word, i)
                      ELSE Count((n * 8) % Word, i - WordBytes)

\* The last block: zeros over what an earlier block left behind after `used`
\* cells, and the length field.
LastBlock(cells, used) ==
    LET zeroed == ZerosIn(cells, used + 1, Field)
    IN  [i \in 1..Block |->
           IF i > Field THEN LengthCell(i - Field, bytesHashed) ELSE zeroed[i]]

\* digest(): the mark, a block of its own when the length does not fit behind
\* it, and the last block.
Finish ==
    LET used == bufferLength + 1
        marked == [buffer EXCEPT ![used] = Mark]
        full == ZerosIn(marked, used + 1, Block)
    IN  /\ chunkEnd = size
        /\ offset = size
        /\ ~finished
        /\ finished' = TRUE
        /\ IF Fits(used)
           THEN /\ buffer' = LastBlock(marked, used)
                /\ bufferLength' = used
                /\ compressed' = compressed \o buffer'
           ELSE /\ buffer' = LastBlock(full, 0)
                /\ bufferLength' = 0
                /\ compressed' = (compressed \o full) \o buffer'
        /\ UNCHANGED <<size, chunkSize, chunkEnd, offset, bytesHashed>>

ShaNext == NextSlice \/ Absorb \/ Finish

ShaSpec == ShaInit /\ [][ShaNext]_shaVars

-----------------------------------------------------------------------------
\* The padding of FIPS 180-4: the message, one mark, as few zeros as make the
\* whole a number of blocks, and the length in bits as two words, each from its
\* most significant byte on.
PaddedCell(i, length) ==
    LET start == length - 2 * WordBytes
    IN  IF i <= size THEN Byte(i)
        ELSE IF i = size + 1 THEN Mark
        ELSE IF i <= start THEN Zero
        ELSE IF i <= start + WordBytes THEN Count((8 * size) \div Word, i - start)
        ELSE Count((8 * size) % Word, i - start - WordBytes)

\* What is hashed is the padded file and nothing else, for slices that end
\* anywhere in a block and files that end just before, at and after the place
\* of the length field (update and digest of Sha256, sha256File).
HashesPaddedFile ==
    finished =>
        LET length == Len(compressed) IN
        /\ \E k \in 1..length : length = k * Block
        /\ length >= size + 1 + 2 * WordBytes
        /\ length < size + 1 + 2 * WordBytes + Block
        /\ \A i \in 1..length : compressed[i] = PaddedCell(i, length)
=============================================================================
