------------------------- MODULE VectorCompression -------------------------
(* Compressed vectors of unsigned integers: fixed-size byte-aligned ones,  *)
(* and SIMD-BP128, whose decompressor keeps the block and the meta block   *)
(* it has decoded last.  A word of WordBits bits stands for the 32 bits of *)
(* one of the four lanes of a 128 bit block, so a block has WordBits       *)
(* integers instead of 128, and a byte is a quarter of a word.             *)
EXTENDS Integers, Sequences, SequencesExt

CONSTANTS WordBits,    \* a multiple of 4: 32 in the code
          MetaBlocks   \* blocks in a meta block: 16 in the code

VectorAssumption == WordBits \in Nat \ {0} /\ WordBits % 4 = 0 /\ MetaBlocks \in Nat \ {0}
ASSUME VectorAssumption

NoIndex == -1   \* stands for the largest size_t
BlockSize == WordBits
MetaBlockSize == MetaBlocks * BlockSize

CeilDiv(x, y) == (x + y - 1) \div y
Total(ns) == FoldLeft(+, 0, ns)
Zeros(n) == [i \in 1..n |-> 0]

UintMax(bytes) == 2^(bytes * (WordBits \div 4)) - 1

\* compress() truncates to the type that holds the maximum it is given.
FixedSize(vector, max) ==
  LET bytes == IF max <= UintMax(1) THEN 1 ELSE IF max <= UintMax(2) THEN 2 ELSE 4
  IN [type |-> "FixedSize", bytes |-> bytes, data |-> [i \in DOMAIN vector |-> vector[i] % (UintMax(bytes) + 1)]]

-----------------------------------------------------------------------------
(* SIMD-BP128.  Packing puts the integers of a block bit by bit behind one  *)
(* another, so that an integer may be split between two words.              *)

Bit(n, k) == (n \div 2^k) % 2
Number(bits) == FoldLeft(+, 0, [k \in DOMAIN bits |-> bits[k] * 2^(k - 1)])

PackBlock(in, bits) ==
  [w \in 1..bits |-> LET bit(n) == LET m == (w - 1) * WordBits + n IN Bit(in[(m \div bits) + 1], m % bits)
                     IN Number([k \in 1..WordBits |-> bit(k - 1)])]
UnpackBlock(words, bits) ==
  [i \in 1..BlockSize |-> LET bit(n) == LET m == (i - 1) * bits + n IN Bit(words[(m \div WordBits) + 1], m % WordBits)
                          IN Number([k \in 1..bits |-> bit(k - 1)])]

BitsNeeded(block) == CHOOSE b \in 0..WordBits :
  /\ \A i \in DOMAIN block : block[i] < 2^b
  /\ b = 0 \/ \E i \in DOMAIN block : block[i] >= 2^(b - 1)

\* One meta block: the bits of each of its blocks, and the blocks that have integers.
PackMetaBlock(pending) ==
  LET size == Len(pending)
      filled == pending \o Zeros(MetaBlockSize - size)
      block(b) == SubSeq(filled, (b - 1) * BlockSize + 1, b * BlockSize)
      bits == [b \in 1..MetaBlocks |-> BitsNeeded(block(b))]
  IN <<bits>> \o FlattenSeq([b \in 1..CeilDiv(size, BlockSize) |-> PackBlock(block(b), bits[b])])

SimdBp128(vector) ==
  LET meta(m) == SubSeq(vector, (m - 1) * MetaBlockSize + 1,
                        IF m * MetaBlockSize > Len(vector) THEN Len(vector) ELSE m * MetaBlockSize)
  IN [type |-> "SimdBp128", size |-> Len(vector),
      data |-> FlattenSeq([m \in 1..CeilDiv(Len(vector), MetaBlockSize) |-> PackMetaBlock(meta(m))])]

\* A mutant: the last meta block is written without its last block, if that is incomplete.
SimdBp128LosesRest(vector) ==
  LET whole == SimdBp128(vector)
      cut == BitsNeeded(SubSeq(vector, Len(vector) - (Len(vector) % BlockSize) + 1, Len(vector)))
  IN [whole EXCEPT !.data = SubSeq(@, 1, Len(@) - cut) \o Zeros(cut)]

Compress(vector, type, max) == IF type = "SimdBp128" THEN SimdBp128(vector) ELSE FixedSize(vector, max)

\* A mutant: the maximum handed over does not count the highest value.
CompressTight(vector, type, max) == IF type = "SimdBp128" THEN SimdBp128(vector) ELSE FixedSize(vector, max - 1)

-----------------------------------------------------------------------------
(* Decompressors.  That of a byte-aligned vector has no state of its own.   *)

NewDecompressor == [offset |-> 0, meta |-> Zeros(MetaBlocks), metaFirst |-> NoIndex,
                    blockFirst |-> NoIndex, block |-> Zeros(BlockSize)]

WithinBlock(d, i) == d.blockFirst # NoIndex /\ i \in d.blockFirst..(d.blockFirst + BlockSize - 1)
WithinMetaBlock(d, i) == d.metaFirst # NoIndex /\ i \in d.metaFirst..(d.metaFirst + MetaBlockSize - 1)
AfterMetaBlock(d, i) == d.metaFirst # NoIndex /\ d.metaFirst <= i

ReadMetaInfo(data, offset) == data[offset + 1]

\* Jumps over n meta blocks, each as long as its meta info says.
AfterBlocks(data, d) ==
  LET offset == d.offset + 1 + Total(d.meta)
  IN [d EXCEPT !.offset = offset, !.meta = ReadMetaInfo(data, offset), !.metaFirst = @ + MetaBlockSize]
ReadMetaInfoFromOffset(data, d, n) == FoldLeft(LAMBDA e, k : AfterBlocks(data, e), d, Zeros(n))

LoadBlock(data, d, i) ==
  LET b == (i - d.metaFirst) \div BlockSize
      first == d.offset + 1 + Total(SubSeq(d.meta, 1, b))
      bits == d.meta[b + 1]
  IN [d EXCEPT !.block = UnpackBlock(SubSeq(data, first + 1, first + bits), bits),
               !.blockFirst = d.metaFirst + b * BlockSize]

\* A mutant: a jump back to the first meta block relies on the meta info that is cached.
FromStartStale(data, d, i) ==
  LET meta == IF d.metaFirst # NoIndex /\ i < MetaBlockSize THEN d.meta ELSE ReadMetaInfo(data, 0)
  IN ReadMetaInfoFromOffset(data, [d EXCEPT !.offset = 0, !.metaFirst = 0, !.meta = meta], i \div MetaBlockSize)

\* A jump back forgets the meta block that is cached and searches from the beginning.
FromStart(data, d, i) ==
  ReadMetaInfoFromOffset(data, [d EXCEPT !.offset = 0, !.metaFirst = 0, !.meta = ReadMetaInfo(data, 0)], i \div MetaBlockSize)

\* get(i) up to the point where the block that holds i is in the cache.
Locate(v, d, i) ==
  LET ahead == ReadMetaInfoFromOffset(v.data, d, (i - d.metaFirst) \div MetaBlockSize)
  IN IF v.type = "FixedSize" \/ WithinBlock(d, i) THEN d
     ELSE LoadBlock(v.data, CASE WithinMetaBlock(d, i) -> d [] AfterMetaBlock(d, i) -> ahead [] OTHER -> FromStart(v.data, d, i), i)

\* And the rest of it: where the block of the cache does not hold i, any value may be read.
Fetch(v, d, i) ==
  IF v.type = "FixedSize" THEN {v.data[i + 1]}
  ELSE IF WithinBlock(d, i) THEN {d.block[i - d.blockFirst + 1]} ELSE 0..UintMax(4)

Get(v, i) == CHOOSE n \in Fetch(v, Locate(v, NewDecompressor, i), i) : TRUE
VectorSize(v) == IF v.type = "FixedSize" THEN Len(v.data) ELSE v.size
=============================================================================
