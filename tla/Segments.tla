------------------------------ MODULE Segments ------------------------------
(* The segments of a column in their encodings, and their iterables.  A    *)
(* position is what dereferencing an iterator yields: a value, a NULL, or  *)
(* a failure, when an exception is thrown or memory is read that holds no  *)
(* value.  The value of a NULL is whatever the segment has stored there.   *)
EXTENDS VectorCompression, Tables

CONSTANTS FrameBlockSize,  \* values that share a minimum: 2048 in the code
          Lz4BlockSize     \* characters, or values of a number type, in a block of LZ4

SegmentAssumption == FrameBlockSize \in Nat \ {0} /\ Lz4BlockSize \in Nat \ {0}
ASSUME SegmentAssumption

NoCache == [index |-> NoIndex, block |-> <<>>]
Failed == [outcome |-> "failed"]
Position(null, v) == [outcome |-> IF null THEN "null" ELSE "value", value |-> v]
IsNull(p) == p.outcome = "null"

Signed(n) == ((n + 2^(WordBits - 1)) % 2^WordBits) - 2^(WordBits - 1)
IntMax == 2^(WordBits - 1) - 1
Default(type) == IF type = "string" THEN <<>> ELSE 0
Less(type, a, b) ==
  IF type = "int" THEN a < b
  ELSE \/ IsStrictPrefix(a, b)
       \/ \E i \in DOMAIN a \cap DOMAIN b : a[i] < b[i] /\ SubSeq(a, 1, i - 1) = SubSeq(b, 1, i - 1)

\* An optional vector of NULL flags, <<>> when there is none.
NullFlags(ps) == [i \in DOMAIN ps |-> IsNull(ps[i])]
OptionalNulls(ps) == IF \E i \in DOMAIN ps : IsNull(ps[i]) THEN NullFlags(ps) ELSE <<>>
NullAt(seg, o) == seg.nulls # <<>> /\ seg.nulls[o + 1]

-----------------------------------------------------------------------------
(* Encoders.  Each is given the positions that the old segment yields.      *)

Unencoded(type, ps) ==
  [encoding |-> "Unencoded", type |-> type, nulls |-> NullFlags(ps),
   values |-> [i \in DOMAIN ps |-> IF IsNull(ps[i]) THEN Default(type) ELSE ps[i].value]]

\* FixedStringVector: strings padded with zeros to the length of the longest.
Padded(strings, length) == FlattenSeq([i \in DOMAIN strings |-> strings[i] \o Zeros(length - Len(strings[i]))])
StringAt(chars, length, id) ==
  LET padded == SubSeq(chars, id * length + 1, (id + 1) * length)
  IN SelectSeq(padded, LAMBDA c : c # 0)

DictionarySegment(type, ps, encoding, vector) ==
  LET dense == {ps[i].value : i \in {j \in DOMAIN ps : ~IsNull(ps[j])}}
      rank(v) == Cardinality({w \in dense : Less(type, w, v)})
      dictionary == [i \in 1..Cardinality(dense) |-> CHOOSE v \in dense : rank(v) = i - 1]
      id(p) == IF IsNull(p) THEN Len(dictionary) ELSE rank(p.value)
      length == Max({0} \cup {Len(v) : v \in IF type = "string" THEN dense ELSE {}})
      ids == Compress([i \in DOMAIN ps |-> id(ps[i])], vector, Len(dictionary))
  IN [encoding |-> encoding, type |-> type, vector |-> ids, unique |-> Len(dictionary), length |-> length,
      dictionary |-> IF encoding = "FixedString" THEN Padded(dictionary, length) ELSE dictionary]

\* A run ends where the value or its being NULL changes; NULLs are one run whatever their values.
RunLength(type, ps) ==
  LET new(i) == i = 1 \/ IsNull(ps[i]) # IsNull(ps[i - 1]) \/ (~IsNull(ps[i]) /\ ps[i].value # ps[i - 1].value)
      starts == SelectSeq([i \in DOMAIN ps |-> i], new)
  IN [encoding |-> "RunLength", type |-> type,
      values |-> [r \in DOMAIN starts |-> ps[starts[r]].value], nulls |-> [r \in DOMAIN starts |-> IsNull(ps[starts[r]])],
      ends |-> [r \in DOMAIN starts |-> (IF r = Len(starts) THEN Len(ps) ELSE starts[r + 1] - 1) - 1]]

\* A mutant: NULL flags are compared only where the values differ.
RunLengthMergesNulls(type, ps) ==
  LET new(i) == i = 1 \/ ps[i].value # ps[i - 1].value
      starts == SelectSeq([i \in DOMAIN ps |-> i], new)
  IN [encoding |-> "RunLength", type |-> type,
      values |-> [r \in DOMAIN starts |-> ps[starts[r]].value], nulls |-> [r \in DOMAIN starts |-> IsNull(ps[starts[r]])],
      ends |-> [r \in DOMAIN starts |-> (IF r = Len(starts) THEN Len(ps) ELSE starts[r + 1] - 1) - 1]]

FrameOfReference(ps, vector) ==
  LET frame(i) == (i - 1) \div FrameBlockSize
      present(b) == {ps[i].value : i \in {j \in DOMAIN ps : frame(j) = b /\ ~IsNull(ps[j])}}
      minima == [b \in 1..CeilDiv(Len(ps), FrameBlockSize) |-> Min({IntMax} \cup present(b - 1))]
      minimum(i) == minima[frame(i) + 1]
      offsets == [i \in DOMAIN ps |-> ((IF IsNull(ps[i]) THEN minimum(i) ELSE ps[i].value) - minimum(i)) % 2^WordBits]
  IN [encoding |-> "FrameOfReference", type |-> "int", minima |-> minima, nulls |-> OptionalNulls(ps),
      vector |-> Compress(offsets, vector, Max({0} \cup Range(offsets)))]

Blocks(cells) ==
  [b \in 1..CeilDiv(Len(cells), Lz4BlockSize) |->
     SubSeq(cells, (b - 1) * Lz4BlockSize + 1, IF b * Lz4BlockSize < Len(cells) THEN b * Lz4BlockSize ELSE Len(cells))]

\* LZ4 compresses blocks; strings also need to know where each begins.
Lz4(type, ps) ==
  LET text(i) == IF IsNull(ps[i]) THEN <<>> ELSE ps[i].value
      cells == IF type = "int" THEN [i \in DOMAIN ps |-> ps[i].value] ELSE FlattenSeq([i \in DOMAIN ps |-> text(i)])
      starts == [i \in DOMAIN ps |-> Total([j \in 1..(i - 1) |-> Len(text(j))])]
  IN [encoding |-> "LZ4", type |-> type, nulls |-> OptionalNulls(ps), size |-> Len(ps), blocks |-> Blocks(cells),
      starts |-> IF type = "string" /\ cells # <<>> THEN SimdBp128(starts) ELSE SimdBp128(<<>>)]

SegmentSize(seg) ==
  CASE seg.encoding = "Unencoded" -> Len(seg.values)
    [] seg.encoding = "RunLength" -> IF seg.ends = <<>> THEN 0 ELSE seg.ends[Len(seg.ends)] + 1
    [] seg.encoding = "LZ4" -> seg.size
    [] OTHER -> VectorSize(seg.vector)
=============================================================================
