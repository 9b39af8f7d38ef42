---------------------------- MODULE Sha256Proofs ----------------------------
(***************************************************************************)
(* Sha256 hashes the padded file, for every size that its guard admits and *)
(* every way of slicing it, whatever the size of a block and of a word:    *)
(* blocks of 64 bytes that end in two words of 4 are the code's.           *)
(***************************************************************************)
EXTENDS Sha256, TLAPS

\* A buffer is a sequence of Block cells, and appending it adds a block.
LEMMA AppendBlock ==
    ASSUME NEW s \in Seq(Cells), NEW b \in [1..Block -> Cells]
    PROVE  /\ s \o b \in Seq(Cells)
           /\ Len(s \o b) = Len(s) + Block
           /\ \A i \in 1..Len(s) : (s \o b)[i] = s[i]
           /\ \A i \in (Len(s) + 1)..(Len(s) + Block) : (s \o b)[i] = b[i - Len(s)]
<1>1. Block \in Nat
  BY Sha256Assumption
<1>2. b \in Seq(Cells) /\ Len(b) = Block
  BY <1>1
<1> QED
  BY <1>1, <1>2

\* A quotient is determined by its remainder's range.
LEMMA Quotient ==
    ASSUME NEW d \in Nat, d > 0, NEW q \in Nat, NEW t \in 0..(d - 1)
    PROVE  (q * d + t) \div d = q
<1> DEFINE a == q * d + t
           p == a \div d
           u == a % d
<1>1. q * d \in Nat /\ a \in Nat
  OBVIOUS
<1> HIDE DEF a
<1>2. p \in Nat /\ u \in 0..(d - 1) /\ a = p * d + u
  BY <1>1
<1> HIDE DEF p, u
<1>3. p * d + u = q * d + t
  BY <1>2 DEF a
<1>4. ASSUME p > q PROVE FALSE
  <2>1. p * d >= (q + 1) * d
    BY <1>2, <1>4
  <2>2. (q + 1) * d = q * d + d
    BY <1>1
  <2>3. p * d \in Nat
    BY <1>2
  <2> QED
    BY <1>1, <1>2, <1>3, <2>1, <2>2, <2>3
<1>5. ASSUME p < q PROVE FALSE
  <2>1. q * d >= (p + 1) * d
    BY <1>2, <1>5
  <2>2. (p + 1) * d = p * d + d
    BY <1>2
  <2>3. p * d \in Nat
    BY <1>2
  <2> QED
    BY <1>1, <1>2, <1>3, <2>1, <2>2, <2>3
<1>6. p = q
  BY <1>2, <1>4, <1>5
<1> QED
  BY <1>6 DEF p, a

\* The two words of the length field are the number of bits.
LEMMA LengthField ==
    ASSUME NEW n \in Sizes
    PROVE  (n \div (Word \div 8)) % Word = (8 * n) \div Word
<1> DEFINE w == Word \div 8
           q == n \div w
           r == n % w
<1>1. n \in Nat /\ Word \in Nat /\ Word > 0 /\ Word % 8 = 0 /\ 8 * n < Word * Word
  BY Sha256Assumption
<1>2. w \in Nat /\ w > 0 /\ Word = 8 * w
  BY <1>1
<1> HIDE DEF w
<1>3. q \in Nat /\ r \in 0..(w - 1) /\ n = q * w + r
  BY <1>1, <1>2
<1> HIDE DEF q, r
<1>4. 8 * n = q * Word + 8 * r /\ 8 * r \in 0..(Word - 1)
  BY <1>1, <1>2, <1>3
<1>5. (8 * n) \div Word = q
  BY <1>1, <1>3, <1>4, Quotient
<1>6. q < Word
  <2> SUFFICES ASSUME q >= Word PROVE FALSE
    BY <1>1, <1>3
  <2>1. q * Word >= Word * Word
    BY <1>1, <1>3
  <2> QED
    BY <1>1, <1>3, <1>4, <2>1
<1>7. q % Word = q
  BY <1>1, <1>3, <1>6
<1> QED
  BY <1>5, <1>7 DEF q, w

-----------------------------------------------------------------------------
\* Where the length field begins, and how long it is.
LEMMA FieldFacts ==
    /\ Block \in Nat /\ Block > 2 /\ WordBytes \in Nat /\ WordBytes > 0
    /\ Field \in Nat /\ Field > 0 /\ Field < Block
    /\ Block - Field = 2 * WordBytes /\ Field + 2 * WordBytes = Block
    /\ Field = Block - 2 * WordBytes
BY Sha256Assumption DEF Field

\* Every cell the program makes is one.
LEMMA CellTypes ==
    /\ Zero \in Cells /\ Mark \in Cells
    /\ \A n \in Nat : Byte(n) \in Cells
    /\ \A n, j \in Nat : Count(n, j) \in Cells
BY DEF Zero, Mark, Byte, Count, Cells

LEMMA ShaTypeInit == ShaInit => ShaTypeOK
<1> SUFFICES ASSUME ShaInit PROVE ShaTypeOK
  OBVIOUS
<1>1. size \in Nat /\ Block \in Nat /\ Block > 2
  BY FieldFacts, Sha256Assumption DEF ShaInit
<1>2. buffer \in [1..Block -> Cells] /\ compressed \in Seq(Cells)
  BY CellTypes DEF ShaInit
<1>3. chunkEnd \in 0..size /\ offset \in 0..chunkEnd /\ bufferLength \in 0..(Block - 1)
  BY <1>1 DEF ShaInit
<1> QED
  BY <1>2, <1>3 DEF ShaInit, ShaTypeOK

\* What a step of update() puts into the buffer.
Taken == Least(Block - bufferLength, chunkEnd - offset)
Filled == [i \in 1..Block |->
             IF i > bufferLength /\ i <= bufferLength + Taken
             THEN Byte(offset + i - bufferLength) ELSE buffer[i]]

LEMMA FilledType ==
    ASSUME ShaTypeOK, offset < chunkEnd
    PROVE  /\ Filled \in [1..Block -> Cells]
           /\ Taken \in 1..(Block - bufferLength)
           /\ offset + Taken \in 0..chunkEnd
<1>1. /\ Block \in Nat /\ bufferLength \in 0..(Block - 1)
      /\ size \in Nat /\ chunkEnd \in 0..size /\ offset \in 0..chunkEnd
  BY Sha256Assumption DEF ShaTypeOK
<1>2. Taken \in 1..(Block - bufferLength) /\ offset + Taken \in 0..chunkEnd
  BY <1>1 DEF Taken, Least
<1>3. ASSUME NEW i \in 1..Block
      PROVE  (IF i > bufferLength /\ i <= bufferLength + Taken
              THEN Byte(offset + i - bufferLength) ELSE buffer[i]) \in Cells
  <2>1. CASE i > bufferLength /\ i <= bufferLength + Taken
    <3>1. offset + i - bufferLength \in Nat
      BY <1>1, <2>1
    <3> QED
      BY <2>1, <3>1, CellTypes
  <2>2. CASE ~(i > bufferLength /\ i <= bufferLength + Taken)
    BY <2>2 DEF ShaTypeOK
  <2> QED
    BY <2>1, <2>2
<1> QED
  BY <1>2, <1>3 DEF Filled

\* The blocks digest() compresses.
Marked == [buffer EXCEPT ![bufferLength + 1] = Mark]
FullBlock == ZerosIn(Marked, bufferLength + 2, Block)

LEMMA ZerosType ==
    ASSUME NEW b \in [1..Block -> Cells], NEW from \in Nat, NEW to \in Nat
    PROVE  ZerosIn(b, from, to) \in [1..Block -> Cells]
BY CellTypes DEF ZerosIn

\* The length field is cells.
LEMMA LengthType ==
    ASSUME NEW n \in Nat, NEW i \in 1..(2 * WordBytes)
    PROVE  LengthCell(i, n) \in Cells
<1>1. Word \in Nat /\ Word > 0 /\ Word \div 8 \in Nat /\ Word \div 8 > 0
  BY Sha256Assumption
<1>2. n \div (Word \div 8) \in Nat
  BY <1>1
<1>3. (n \div (Word \div 8)) % Word \in Nat /\ (n * 8) % Word \in Nat
  BY <1>1, <1>2
<1>4. i \in Nat /\ (~(i <= WordBytes) => i - WordBytes \in Nat)
  BY FieldFacts
<1> QED
  BY <1>3, <1>4, CellTypes DEF LengthCell

LEMMA LastType ==
    ASSUME NEW b \in [1..Block -> Cells], NEW used \in Nat, bytesHashed \in Nat
    PROVE  LastBlock(b, used) \in [1..Block -> Cells]
<1> DEFINE zeroed == ZerosIn(b, used + 1, Field)
<1>1. zeroed \in [1..Block -> Cells]
  BY FieldFacts, ZerosType
<1> HIDE DEF zeroed
<1>2. ASSUME NEW i \in 1..Block
      PROVE  (IF i > Field THEN LengthCell(i - Field, bytesHashed) ELSE zeroed[i])
               \in Cells
  <2>1. CASE i > Field
    <3>1. i - Field \in 1..(2 * WordBytes)
      BY <2>1, FieldFacts
    <3> QED
      BY <2>1, <3>1, LengthType
  <2>2. CASE ~(i > Field)
    BY <1>1, <2>2
  <2> QED
    BY <2>1, <2>2
<1> QED
  BY <1>2 DEF LastBlock, zeroed

LEMMA FinishType ==
    ASSUME ShaTypeOK
    PROVE  Marked \in [1..Block -> Cells] /\ FullBlock \in [1..Block -> Cells]
<1>1. Marked \in [1..Block -> Cells]
  BY CellTypes DEF ShaTypeOK, Marked
<1>2. bufferLength + 2 \in Nat /\ Block \in Nat
  BY Sha256Assumption DEF ShaTypeOK
<1> QED
  BY <1>1, <1>2, ZerosType DEF FullBlock

LEMMA ShaTypeNext == ShaTypeOK /\ [ShaNext]_shaVars => ShaTypeOK'
<1> SUFFICES ASSUME ShaTypeOK, [ShaNext]_shaVars PROVE ShaTypeOK'
  OBVIOUS
<1>0. /\ Block \in Nat /\ Block > 2 /\ size \in Nat /\ chunkEnd \in 0..size
      /\ offset \in 0..chunkEnd /\ bufferLength \in 0..(Block - 1)
      /\ chunkSize \in Nat \ {0} /\ bytesHashed \in Nat
  BY FieldFacts, Sha256Assumption DEF ShaTypeOK
<1>1. CASE NextSlice
  <2>1. chunkEnd' \in chunkEnd..size
    BY <1>0, <1>1 DEF NextSlice, Least
  <2>2. bytesHashed' = chunkEnd' /\ offset' \in 0..chunkEnd'
    BY <1>0, <1>1, <2>1 DEF NextSlice, ShaTypeOK
  <2> QED
    BY <1>0, <1>1, <2>1, <2>2 DEF NextSlice, ShaTypeOK
<1>2. CASE Absorb
  <2>1. /\ Filled \in [1..Block -> Cells]
        /\ Taken \in 1..(Block - bufferLength)
        /\ offset + Taken \in 0..chunkEnd
    BY <1>2, FilledType DEF Absorb
  <2>2. buffer' = Filled /\ offset' = offset + Taken
    BY <1>2 DEF Absorb, Filled, Taken
  <2>3. bufferLength' \in 0..(Block - 1)
    <3>1. /\ bufferLength' \in {0, bufferLength + Taken}
          /\ bufferLength + Taken = Block => bufferLength' = 0
      BY <1>2 DEF Absorb, Taken
    <3>2. /\ Block \in Int /\ bufferLength \in Int /\ Taken \in Int
          /\ Block > 0 /\ bufferLength >= 0 /\ Taken > 0 /\ bufferLength + Taken <= Block
      BY <1>0, <2>1
    <3> QED
      BY <3>1, <3>2
  <2>4. compressed' \in Seq(Cells)
    <3>1. compressed' = compressed \/ compressed' = compressed \o Filled
      BY <1>2 DEF Absorb, Filled, Taken
    <3> QED
      BY <2>1, <3>1, AppendBlock DEF ShaTypeOK
  <2> QED
    BY <1>2, <2>1, <2>2, <2>3, <2>4 DEF Absorb, ShaTypeOK
<1>3. CASE Finish
  <2>1. Marked \in [1..Block -> Cells] /\ FullBlock \in [1..Block -> Cells]
    BY FinishType
  <2>2. CASE Fits(bufferLength + 1)
    <3>1. /\ buffer' = LastBlock(Marked, bufferLength + 1)
          /\ bufferLength' = bufferLength + 1
          /\ compressed' = compressed \o buffer'
      BY <1>3, <2>2 DEF Finish, Marked
    <3>2. buffer' \in [1..Block -> Cells]
      BY <1>0, <2>1, <3>1, LastType
    <3>3. bufferLength' \in 0..(Block - 1)
      BY <1>0, <2>2, <3>1, FieldFacts DEF Fits
    <3>4. compressed' \in Seq(Cells)
      BY <3>1, <3>2, AppendBlock DEF ShaTypeOK
    <3> QED
      BY <1>3, <3>2, <3>3, <3>4 DEF Finish, ShaTypeOK
  <2>3. CASE ~Fits(bufferLength + 1)
    <3>1. /\ buffer' = LastBlock(FullBlock, 0)
          /\ bufferLength' = 0
          /\ compressed' = (compressed \o FullBlock) \o buffer'
      <4>1. bufferLength + 1 + 1 = bufferLength + 2
        BY <1>0
      <4> QED
        BY <1>3, <2>3, <4>1 DEF Finish, Marked, FullBlock
    <3>2. buffer' \in [1..Block -> Cells]
      BY <1>0, <2>1, <3>1, LastType
    <3>3. compressed' \in Seq(Cells)
      BY <2>1, <3>1, <3>2, AppendBlock DEF ShaTypeOK
    <3> QED
      BY <1>0, <1>3, <3>1, <3>2, <3>3 DEF Finish, ShaTypeOK
  <2> QED
    BY <2>2, <2>3
<1>4. CASE UNCHANGED shaVars
  BY <1>4 DEF shaVars, ShaTypeOK
<1> QED
  BY <1>1, <1>2, <1>3, <1>4 DEF ShaNext

THEOREM ShaTypeCorrect == ShaSpec => []ShaTypeOK
BY ShaTypeInit, ShaTypeNext, PTL DEF ShaSpec

-----------------------------------------------------------------------------
\* What is compressed is whole blocks of the file, and the buffer goes on from
\* there.
PrefixHashed ==
    /\ \E k \in Nat : Len(compressed) = k * Block
    /\ Len(compressed) + bufferLength = offset
    /\ \A i \in 1..Len(compressed) : compressed[i] = Byte(i)
    /\ \A i \in 1..bufferLength : buffer[i] = Byte(Len(compressed) + i)

ShaInv ==
    /\ ~finished => PrefixHashed
    /\ finished => offset = size /\ chunkEnd = size
    /\ HashesPaddedFile

LEMMA ShaInvInit == ShaInit => ShaInv
<1> SUFFICES ASSUME ShaInit PROVE ShaInv
  OBVIOUS
<1>1. Len(compressed) = 0 * Block /\ 0 \in Nat
  BY Sha256Assumption DEF ShaInit
<1> QED
  BY <1>1 DEF ShaInit, ShaInv, PrefixHashed, HashesPaddedFile

LEMMA MoreBlocks ==
    ASSUME NEW n \in Nat, NEW k \in Nat, n = k * Block
    PROVE  n + Block = (k + 1) * Block /\ k + 1 \in Nat
BY FieldFacts

\* A number of blocks is a multiple of a number no greater.
LEMMA BlockCount ==
    ASSUME NEW n \in Nat, n > 0, NEW k \in Nat, n = k * Block
    PROVE  k \in 1..n
<1>1. Block \in Nat /\ Block > 2
  BY FieldFacts
<1>2. k # 0
  BY <1>1
<1>3. k * Block >= k
  BY <1>1
<1> QED
  BY <1>2, <1>3

LEMMA AbsorbInv == ShaTypeOK /\ ShaInv /\ Absorb => ShaInv'
<1> SUFFICES ASSUME ShaTypeOK, ShaInv, Absorb PROVE ShaInv'
  OBVIOUS
<1>0. /\ Block \in Nat /\ Block > 2 /\ size \in Nat /\ chunkEnd \in 0..size
      /\ offset \in 0..chunkEnd /\ bufferLength \in 0..(Block - 1)
      /\ Len(compressed) \in Nat
  BY FieldFacts, Sha256Assumption DEF ShaTypeOK
<1>1. /\ Filled \in [1..Block -> Cells]
      /\ Taken \in 1..(Block - bufferLength)
      /\ offset + Taken \in 0..chunkEnd
  BY FilledType DEF Absorb
<1>2. buffer' = Filled /\ offset' = offset + Taken /\ UNCHANGED finished
  BY DEF Absorb, Filled, Taken
<1>3. ~finished /\ ~finished'
  BY <1>0, <1>2 DEF Absorb, ShaInv
<1>4. PrefixHashed
  BY <1>3 DEF ShaInv
<1>5. \A i \in 1..(bufferLength + Taken) : Filled[i] = Byte(Len(compressed) + i)
  <2> SUFFICES ASSUME NEW i \in 1..(bufferLength + Taken)
               PROVE  Filled[i] = Byte(Len(compressed) + i)
    OBVIOUS
  <2>1. i \in 1..Block
    BY <1>0, <1>1
  <2>2. CASE i <= bufferLength
    BY <1>0, <1>4, <2>1, <2>2 DEF Filled, PrefixHashed
  <2>3. CASE i > bufferLength
    <3>1. offset + i - bufferLength = Len(compressed) + i
      BY <1>0, <1>1, <1>4 DEF PrefixHashed
    <3> QED
      BY <1>0, <1>1, <2>1, <2>3, <3>1 DEF Filled
  <2> QED
    BY <1>0, <1>1, <2>2, <2>3
<1>6. CASE bufferLength + Taken = Block
  <2>1. compressed' = compressed \o Filled /\ bufferLength' = 0
    BY <1>6 DEF Absorb, Filled, Taken
  <2>2. /\ Len(compressed') = Len(compressed) + Block
        /\ \A i \in 1..Len(compressed) : compressed'[i] = compressed[i]
        /\ \A i \in (Len(compressed) + 1)..(Len(compressed) + Block) :
             compressed'[i] = Filled[i - Len(compressed)]
    BY <1>1, <2>1, AppendBlock DEF ShaTypeOK
  <2>3. PICK k \in Nat : Len(compressed) = k * Block
    BY <1>4 DEF PrefixHashed
  <2>4. Len(compressed') = (k + 1) * Block /\ k + 1 \in Nat
    BY <1>0, <2>2, <2>3, MoreBlocks
  <2>5. ASSUME NEW i \in 1..Len(compressed') PROVE compressed'[i] = Byte(i)
    <3>1. CASE i \in 1..Len(compressed)
      BY <1>4, <2>2, <3>1 DEF PrefixHashed
    <3>2. CASE i \in (Len(compressed) + 1)..(Len(compressed) + Block)
      <4>1. /\ i - Len(compressed) \in 1..Block
            /\ Len(compressed) + (i - Len(compressed)) = i
        BY <1>0, <3>2
      <4> QED
        BY <1>5, <1>6, <2>2, <3>2, <4>1
    <3> QED
      BY <1>0, <2>2, <3>1, <3>2
  <2>6. Len(compressed') + bufferLength' = offset'
    BY <1>0, <1>1, <1>2, <1>4, <1>6, <2>1, <2>2 DEF PrefixHashed
  <2>7. \A i \in 1..bufferLength' : buffer'[i] = Byte(Len(compressed') + i)
    BY <2>1
  <2>8. PrefixHashed'
    BY <2>4, <2>5, <2>6, <2>7 DEF PrefixHashed
  <2> QED
    BY <1>3, <2>8 DEF ShaInv, HashesPaddedFile
<1>7. CASE bufferLength + Taken # Block
  <2>1. compressed' = compressed /\ bufferLength' = bufferLength + Taken
    BY <1>7 DEF Absorb, Filled, Taken
  <2>2. PrefixHashed'
    BY <1>0, <1>1, <1>2, <1>4, <1>5, <2>1 DEF PrefixHashed
  <2> QED
    BY <1>3, <2>2 DEF ShaInv, HashesPaddedFile
<1> QED
  BY <1>6, <1>7

\* The cells of the last block of a file of `size` bytes.
LEMMA LastCells ==
    ASSUME ShaTypeOK, bytesHashed = size,
           NEW b \in [1..Block -> Cells], NEW used \in 0..Field,
           NEW i \in 1..Block
    PROVE  /\ i <= used => LastBlock(b, used)[i] = b[i]
           /\ used < i /\ i <= Field => LastBlock(b, used)[i] = Zero
           /\ i > Field /\ i <= Field + WordBytes
                => LastBlock(b, used)[i] = Count((8 * size) \div Word, i - Field)
           /\ i > Field + WordBytes
                => LastBlock(b, used)[i] = Count((8 * size) % Word, i - Field - WordBytes)
<1>1. size \in Sizes /\ size \in Nat /\ i \in Nat /\ used \in Nat
  BY FieldFacts, Sha256Assumption DEF ShaTypeOK
<1>2. (bytesHashed \div (Word \div 8)) % Word = (8 * size) \div Word
  BY <1>1, LengthField
<1>3. bytesHashed * 8 = 8 * size
  BY <1>1
<1> DEFINE zeroed == ZerosIn(b, used + 1, Field)
<1>4. \A j \in 1..Block : zeroed[j] = IF j \in (used + 1)..Field THEN Zero ELSE b[j]
  BY DEF ZerosIn
<1> HIDE DEF zeroed
<1>5. LastBlock(b, used)[i] =
        IF i > Field THEN LengthCell(i - Field, bytesHashed) ELSE zeroed[i]
  BY DEF LastBlock, zeroed
<1>6. CASE i <= Field
  BY <1>1, <1>4, <1>5, <1>6, FieldFacts
<1>7. CASE i > Field
  <2>1. LengthCell(i - Field, bytesHashed) =
          IF i - Field <= WordBytes
          THEN Count((8 * size) \div Word, i - Field)
          ELSE Count((8 * size) % Word, i - Field - WordBytes)
    BY <1>2, <1>3 DEF LengthCell
  <2>2. (i - Field <= WordBytes) <=> (i <= Field + WordBytes)
    BY <1>1, FieldFacts
  <2>3. i > used
    BY <1>1, <1>7, FieldFacts
  <2>4. LastBlock(b, used)[i] =
          IF i <= Field + WordBytes
          THEN Count((8 * size) \div Word, i - Field)
          ELSE Count((8 * size) % Word, i - Field - WordBytes)
    BY <1>5, <1>7, <2>1, <2>2
  <2> QED
    BY <1>1, <1>7, <2>3, <2>4, FieldFacts
<1> QED
  BY <1>1, <1>6, <1>7, FieldFacts

\* The padded file, cell by cell, for a file of whole blocks (n bytes) and a rest of
\* fewer than a block, padded to m bytes before the length field.
LEMMA PaddedCells ==
    ASSUME size \in Nat, NEW m \in Nat, m >= size + 1, NEW i \in 1..(m + 2 * WordBytes)
    PROVE  /\ i <= size => PaddedCell(i, m + 2 * WordBytes) = Byte(i)
           /\ i = size + 1 => PaddedCell(i, m + 2 * WordBytes) = Mark
           /\ i > size + 1 /\ i <= m => PaddedCell(i, m + 2 * WordBytes) = Zero
           /\ i > m /\ i <= m + WordBytes
                => PaddedCell(i, m + 2 * WordBytes) = Count((8 * size) \div Word, i - m)
           /\ i > m + WordBytes
                => PaddedCell(i, m + 2 * WordBytes)
                     = Count((8 * size) % Word, i - m - WordBytes)
<1>1. /\ m + 2 * WordBytes - 2 * WordBytes = m
      /\ WordBytes \in Nat /\ WordBytes > 0 /\ i \in Nat
  BY FieldFacts
<1>2. PaddedCell(i, m + 2 * WordBytes) =
        IF i <= size THEN Byte(i)
        ELSE IF i = size + 1 THEN Mark
        ELSE IF i <= m THEN Zero
        ELSE IF i <= m + WordBytes THEN Count((8 * size) \div Word, i - m)
        ELSE Count((8 * size) % Word, i - m - WordBytes)
  BY <1>1 DEF PaddedCell
<1> QED
  BY <1>1, <1>2

LEMMA FinishInv == ShaTypeOK /\ ShaInv /\ Finish => ShaInv'
<1> SUFFICES ASSUME ShaTypeOK, ShaInv, Finish PROVE ShaInv'
  OBVIOUS
<1>0. /\ Block \in Nat /\ Block > 2 /\ size \in Nat /\ bytesHashed = size
      /\ bufferLength \in 0..(Block - 1) /\ Len(compressed) \in Nat
      /\ offset = size /\ chunkEnd = size /\ compressed \in Seq(Cells)
  BY FieldFacts, Sha256Assumption DEF ShaTypeOK, Finish
<1>1. PrefixHashed
  BY DEF ShaInv, Finish
<1>2. finished' /\ UNCHANGED <<size, offset, chunkEnd>>
  BY DEF Finish
<1> DEFINE n == Len(compressed)
<1>3. size = n + bufferLength /\ n \in Nat
  BY <1>0, <1>1 DEF PrefixHashed
<1>4. PICK k \in Nat : n = k * Block
  BY <1>1 DEF PrefixHashed
<1>5. \A i \in 1..n : compressed[i] = Byte(i)
  BY <1>1 DEF PrefixHashed
<1>6. /\ Marked \in [1..Block -> Cells]
      /\ \A i \in 1..bufferLength : Marked[i] = Byte(n + i)
      /\ Marked[bufferLength + 1] = Mark
  BY <1>0, <1>1, FinishType DEF Marked, ShaTypeOK, PrefixHashed
<1> HIDE DEF n
<1>7. CASE Fits(bufferLength + 1)
  <2>1. /\ buffer' = LastBlock(Marked, bufferLength + 1)
        /\ compressed' = compressed \o buffer'
        /\ bufferLength + 1 <= Field
    BY <1>7 DEF Finish, Marked, Fits
  <2>2. buffer' \in [1..Block -> Cells]
    BY <1>0, <1>6, <2>1, LastType
  <2>3. /\ Len(compressed') = n + Block
        /\ \A i \in 1..n : compressed'[i] = compressed[i]
        /\ \A i \in (n + 1)..(n + Block) : compressed'[i] = buffer'[i - n]
    BY <1>0, <2>1, <2>2, AppendBlock DEF n
  <2>4. ASSUME NEW i \in 1..(n + Block) PROVE compressed'[i] = PaddedCell(i, n + Block)
    <3>1. CASE i \in 1..n
      BY <1>0, <1>3, <1>5, <2>3, <3>1 DEF PaddedCell
    <3>2. CASE i \in (n + 1)..(n + Block)
      <4> DEFINE j == i - n
      <4>1. j \in 1..Block /\ i = n + j
        BY <1>0, <1>3, <3>2
      <4>2. compressed'[i] = LastBlock(Marked, bufferLength + 1)[j]
        BY <2>1, <2>3, <3>2
      <4> HIDE DEF j
      <4>3. /\ j <= bufferLength => compressed'[i] = Byte(n + j)
            /\ j = bufferLength + 1 => compressed'[i] = Mark
            /\ bufferLength + 1 < j /\ j <= Field => compressed'[i] = Zero
            /\ j > Field /\ j <= Field + WordBytes
                 => compressed'[i] = Count((8 * size) \div Word, j - Field)
            /\ j > Field + WordBytes
                 => compressed'[i] = Count((8 * size) % Word, j - Field - WordBytes)
        <5>1. bufferLength + 1 \in 0..Field
          BY <1>0, <2>1, FieldFacts
        <5>2. /\ j <= bufferLength + 1 => compressed'[i] = Marked[j]
              /\ bufferLength + 1 < j /\ j <= Field => compressed'[i] = Zero
              /\ j > Field /\ j <= Field + WordBytes
                   => compressed'[i] = Count((8 * size) \div Word, j - Field)
              /\ j > Field + WordBytes
                   => compressed'[i] = Count((8 * size) % Word, j - Field - WordBytes)
          BY <1>0, <1>6, <4>1, <4>2, <5>1, LastCells
        <5> QED
          BY <1>0, <1>6, <4>1, <5>2
      <4> DEFINE m == n + Field
      <4>4. /\ m \in Nat /\ m >= size + 1 /\ m + 2 * WordBytes = n + Block
            /\ i \in 1..(m + 2 * WordBytes)
        BY <1>0, <1>3, <2>1, <4>1, FieldFacts
      <4>5. /\ i - m = j - Field /\ i - m - WordBytes = j - Field - WordBytes
            /\ i <= size <=> j <= bufferLength
            /\ i = size + 1 <=> j = bufferLength + 1
            /\ i > size + 1 <=> bufferLength + 1 < j
            /\ i <= m <=> j <= Field
            /\ i <= m + WordBytes <=> j <= Field + WordBytes
        BY <1>0, <1>3, <4>1, FieldFacts
      <4>6. /\ Field \in Nat /\ WordBytes \in Nat /\ bufferLength + 1 <= Field
            /\ j \in Nat /\ i \in Nat /\ bufferLength \in Nat /\ n \in Nat /\ size \in Nat
        BY <1>0, <1>3, <2>1, <4>1, FieldFacts
      <4> HIDE DEF m
      <4>7. /\ i <= size => PaddedCell(i, n + Block) = Byte(i)
            /\ i = size + 1 => PaddedCell(i, n + Block) = Mark
            /\ i > size + 1 /\ i <= m => PaddedCell(i, n + Block) = Zero
            /\ i > m /\ i <= m + WordBytes
                 => PaddedCell(i, n + Block) = Count((8 * size) \div Word, j - Field)
            /\ i > m + WordBytes
                 => PaddedCell(i, n + Block)
                      = Count((8 * size) % Word, j - Field - WordBytes)
        BY <4>4, <4>5, <4>6, PaddedCells
      <4>8. CASE j <= bufferLength
        BY <4>1, <4>3, <4>5, <4>7, <4>8
      <4>9. CASE j = bufferLength + 1
        BY <4>3, <4>5, <4>7, <4>9
      <4>10. CASE bufferLength + 1 < j /\ j <= Field
        BY <4>3, <4>5, <4>7, <4>10
      <4>11. CASE j > Field /\ j <= Field + WordBytes
        <5>1. i > m /\ i <= m + WordBytes
          BY <4>4, <4>5, <4>6, <4>11
        <5> QED
          BY <4>3, <4>7, <4>11, <5>1
      <4>12. CASE j > Field + WordBytes
        <5>1. i > m + WordBytes
          BY <4>4, <4>5, <4>6, <4>12
        <5> QED
          BY <4>3, <4>7, <4>12, <5>1
      <4> QED
        BY <4>6, <4>8, <4>9, <4>10, <4>11, <4>12
    <3> QED
      BY <1>0, <1>3, <3>1, <3>2
  <2>5. \E q \in 1..(n + Block) : n + Block = q * Block
    BY <1>0, <1>3, <1>4, MoreBlocks, BlockCount
  <2>6. /\ n + Block >= size + 1 + 2 * WordBytes
        /\ n + Block < size + 1 + 2 * WordBytes + Block
    BY <1>0, <1>3, <2>1, FieldFacts
  <2>7. HashesPaddedFile'
    BY <1>2, <2>3, <2>4, <2>5, <2>6 DEF HashesPaddedFile, PaddedCell
  <2> QED
    BY <1>0, <1>2, <2>7 DEF ShaInv
<1>8. CASE ~Fits(bufferLength + 1)
  <2>1. /\ buffer' = LastBlock(FullBlock, 0)
        /\ compressed' = (compressed \o FullBlock) \o buffer'
        /\ bufferLength + 1 > Field
    <3>1. bufferLength + 1 + 1 = bufferLength + 2
      BY <1>0
    <3>2. bufferLength + 1 > Field
      BY <1>0, <1>8, FieldFacts DEF Fits
    <3> QED
      BY <1>8, <3>1, <3>2 DEF Finish, Marked, FullBlock
  <2>2. buffer' \in [1..Block -> Cells] /\ FullBlock \in [1..Block -> Cells]
    BY <1>0, <2>1, LastType, FinishType
  <2> DEFINE one == compressed \o FullBlock
  <2>3. /\ one \in Seq(Cells)
        /\ Len(one) = n + Block
        /\ \A i \in 1..n : one[i] = compressed[i]
        /\ \A i \in (n + 1)..(n + Block) : one[i] = FullBlock[i - n]
    BY <1>0, <2>2, AppendBlock DEF n
  <2> HIDE DEF one
  <2>4. /\ Len(compressed') = n + Block + Block
        /\ \A i \in 1..(n + Block) : compressed'[i] = one[i]
        /\ \A i \in (n + Block + 1)..(n + Block + Block) :
             compressed'[i] = buffer'[i - (n + Block)]
    <3>1. compressed' = one \o buffer'
      BY <2>1 DEF one
    <3> QED
      BY <2>2, <2>3, <3>1, AppendBlock
  <2>5. \A j \in 1..Block : /\ j <= bufferLength => FullBlock[j] = Byte(n + j)
                            /\ j = bufferLength + 1 => FullBlock[j] = Mark
                            /\ j > bufferLength + 1 => FullBlock[j] = Zero
    BY <1>0, <1>6 DEF FullBlock, ZerosIn
  <2> DEFINE m == n + Block + Field
  <2>0. /\ m \in Nat /\ m >= size + 1 /\ m + 2 * WordBytes = n + Block + Block
        /\ m > n + Block /\ n + Block \in Nat /\ n + Block >= size
    BY <1>0, <1>3, FieldFacts
  <2> HIDE DEF m
  <2>6. ASSUME NEW i \in 1..(n + Block + Block)
        PROVE  compressed'[i] = PaddedCell(i, n + Block + Block)
    <3>0. /\ i <= size => PaddedCell(i, n + Block + Block) = Byte(i)
          /\ i = size + 1 => PaddedCell(i, n + Block + Block) = Mark
          /\ i > size + 1 /\ i <= m => PaddedCell(i, n + Block + Block) = Zero
          /\ i > m /\ i <= m + WordBytes
               => PaddedCell(i, n + Block + Block) = Count((8 * size) \div Word, i - m)
          /\ i > m + WordBytes
               => PaddedCell(i, n + Block + Block)
                    = Count((8 * size) % Word, i - m - WordBytes)
      BY <1>0, <2>0, PaddedCells
    <3>1. CASE i \in 1..n
      <4>1. compressed'[i] = Byte(i)
        BY <1>0, <1>3, <1>5, <2>3, <2>4, <3>1
      <4>2. i <= size
        BY <1>0, <1>3, <3>1
      <4> QED
        BY <3>0, <4>1, <4>2
    <3>2. CASE i \in (n + 1)..(n + Block)
      <4> DEFINE j == i - n
      <4>1. j \in 1..Block /\ i = n + j
        BY <1>0, <1>3, <3>2
      <4>2. compressed'[i] = FullBlock[j]
        BY <1>0, <1>3, <2>3, <2>4, <3>2
      <4> HIDE DEF j
      <4>3. i <= m
        BY <1>0, <2>0, <3>2
      <4>4. CASE j <= bufferLength
        BY <1>0, <1>3, <2>5, <3>0, <4>1, <4>2, <4>4
      <4>5. CASE j = bufferLength + 1
        BY <1>0, <1>3, <2>5, <3>0, <4>1, <4>2, <4>5
      <4>6. CASE j > bufferLength + 1
        BY <1>0, <1>3, <2>5, <3>0, <4>1, <4>2, <4>3, <4>6
      <4> QED
        BY <1>0, <4>1, <4>4, <4>5, <4>6
    <3>3. CASE i \in (n + Block + 1)..(n + Block + Block)
      <4> DEFINE j == i - (n + Block)
      <4>1. j \in 1..Block /\ i = n + Block + j
        BY <1>0, <1>3, <3>3
      <4>2. compressed'[i] = LastBlock(FullBlock, 0)[j]
        BY <2>1, <2>4, <3>3
      <4> HIDE DEF j
      <4>3. /\ j <= Field => compressed'[i] = Zero
            /\ j > Field /\ j <= Field + WordBytes
                 => compressed'[i] = Count((8 * size) \div Word, j - Field)
            /\ j > Field + WordBytes
                 => compressed'[i] = Count((8 * size) % Word, j - Field - WordBytes)
        <5>1. 0 \in 0..Field /\ j > 0
          BY <4>1, FieldFacts
        <5> QED
          BY <1>0, <2>2, <4>1, <4>2, <5>1, LastCells
      <4>4. i > size + 1
        BY <1>0, <1>3, <2>1, <4>1, FieldFacts
      <4>5. /\ i - m = j - Field /\ i - m - WordBytes = j - Field - WordBytes
            /\ i <= m <=> j <= Field
            /\ i <= m + WordBytes <=> j <= Field + WordBytes
            /\ i \in Nat /\ j \in Nat /\ m \in Nat /\ Field \in Nat /\ WordBytes \in Nat
        BY <1>0, <1>3, <4>1, FieldFacts DEF m
      <4>6. CASE j <= Field
        BY <3>0, <4>3, <4>4, <4>5, <4>6
      <4>7. CASE j > Field /\ j <= Field + WordBytes
        <5>1. i > m /\ i <= m + WordBytes
          BY <4>5, <4>7
        <5> QED
          BY <3>0, <4>3, <4>5, <4>7, <5>1
      <4>8. CASE j > Field + WordBytes
        <5>1. i > m + WordBytes
          BY <4>5, <4>8
        <5> QED
          BY <3>0, <4>3, <4>5, <4>8, <5>1
      <4> QED
        BY <4>5, <4>6, <4>7, <4>8
    <3> QED
      BY <1>0, <1>3, <3>1, <3>2, <3>3
  <2>7. \E q \in 1..(n + Block + Block) : n + Block + Block = q * Block
    <3>1. n + Block = (k + 1) * Block /\ k + 1 \in Nat /\ n + Block \in Nat
      BY <1>0, <1>3, <1>4, MoreBlocks
    <3>2. n + Block + Block = (k + 1 + 1) * Block /\ k + 1 + 1 \in Nat
      BY <3>1, MoreBlocks
    <3>3. n + Block + Block \in Nat /\ n + Block + Block > 0
      BY <1>0, <1>3
    <3> QED
      BY <3>2, <3>3, BlockCount
  <2>8. /\ n + Block + Block >= size + 1 + 2 * WordBytes
        /\ n + Block + Block < size + 1 + 2 * WordBytes + Block
    BY <1>0, <1>3, <2>1, FieldFacts
  <2>9. HashesPaddedFile'
    BY <1>2, <2>4, <2>6, <2>7, <2>8 DEF HashesPaddedFile, PaddedCell
  <2> QED
    BY <1>0, <1>2, <2>9 DEF ShaInv
<1> QED
  BY <1>7, <1>8

LEMMA ShaInvNext == ShaTypeOK /\ ShaInv /\ [ShaNext]_shaVars => ShaInv'
<1> SUFFICES ASSUME ShaTypeOK, ShaInv, [ShaNext]_shaVars PROVE ShaInv'
  OBVIOUS
<1>1. CASE NextSlice
  <2>1. ~finished
    <3>1. size \in Nat
      BY Sha256Assumption DEF ShaTypeOK
    <3> QED
      BY <1>1, <3>1 DEF NextSlice, ShaInv
  <2> QED
    BY <1>1, <2>1 DEF NextSlice, ShaInv, PrefixHashed, HashesPaddedFile
<1>2. CASE Absorb
  BY <1>2, AbsorbInv
<1>3. CASE Finish
  BY <1>3, FinishInv
<1>4. CASE UNCHANGED shaVars
  BY <1>4 DEF shaVars, ShaInv, PrefixHashed, HashesPaddedFile, PaddedCell
<1> QED
  BY <1>1, <1>2, <1>3, <1>4 DEF ShaNext

\* Whatever the size of the file and of its slices, what reaches the
\* compression function is the padded file (Sha256.update, Sha256.digest and
\* the loop of sha256File).
THEOREM HashesPaddedFileAlways == ShaSpec => []HashesPaddedFile
<1>1. ShaInv => HashesPaddedFile
  BY DEF ShaInv
<1> QED
  BY <1>1, ShaTypeInit, ShaTypeNext, ShaInvInit, ShaInvNext, PTL DEF ShaSpec
=============================================================================
