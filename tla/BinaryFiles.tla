----------------------------- MODULE BinaryFiles -----------------------------
(* The binary file of a table.  A file is a sequence of items, each with   *)
(* its width in bytes; nothing in it says what an item is, so the parser   *)
(* must ask for exactly what the writer has written.  Asking for another   *)
(* width stands for misread bytes, and for the end of the file: it fails.  *)
(* The names of the columns are left out, and what LZ4 makes of a block.   *)
EXTENDS Segments

EncodingTypes == <<"Unencoded", "Dictionary", "RunLength", "FixedString", "FrameOfReference", "LZ4">>
EncodingNumber(e) == (CHOOSE i \in DOMAIN EncodingTypes : EncodingTypes[i] = e) - 1
DataTypes == <<"int", "string">>
SortModes == <<"asc", "desc">>
IndexIn(seq, x) == CHOOSE i \in DOMAIN seq : seq[i] = x

-----------------------------------------------------------------------------
(* Writing.                                                                 *)

Items(width, vs) == [i \in DOMAIN vs |-> <<width, vs[i]>>]
BoolItems(bs) == [i \in DOMAIN bs |-> <<1, IF bs[i] THEN 1 ELSE 0>>]
StringItems(ss) == Items(8, [i \in DOMAIN ss |-> Len(ss[i])]) \o Items(1, FlattenSeq(ss))
ValueItems(type, vs) == IF type = "string" THEN StringItems(vs) ELSE Items(4, vs)
VectorItems(v) == IF v.type = "SimdBp128" THEN Items(16, v.data) ELSE Items(v.bytes, v.data)

\* Whether a value segment has NULL flags is written if the column is nullable, the flags if it has them.
ValueSegmentItems(seg, nullable) ==
  LET flagged == seg.nulls # <<>>
  IN (IF nullable THEN BoolItems(<<flagged>>) ELSE <<>>) \o BoolItems(seg.nulls) \o ValueItems(seg.type, seg.values)

\* The values that a reference segment refers to.  The lengths of strings follow as many zeros.
ReferenceSegmentItems(seg) ==
  LET values == [i \in DOMAIN seg.cells |-> seg.cells[i].value]
  IN IF seg.type = "string" THEN Items(8, Zeros(Len(values))) \o StringItems(values) ELSE Items(4, values)

DictionaryItems(seg) ==
  Items(1, <<seg.vector.bytes>>) \o Items(4, <<seg.unique>>)
  \o (IF seg.encoding = "FixedString" THEN Items(4, <<seg.length>>) \o Items(1, seg.dictionary)
      ELSE ValueItems(seg.type, seg.dictionary))
  \o VectorItems(seg.vector)

RunLengthItems(seg) ==
  Items(4, <<Len(seg.values)>>) \o ValueItems(seg.type, seg.values) \o BoolItems(seg.nulls) \o Items(4, seg.ends)

\* A mutant: the flags are written although nothing announces them.
FrameItemsUnannounced(seg) ==
  Items(1, <<seg.vector.bytes>>) \o Items(4, <<Len(seg.minima)>> \o seg.minima)
  \o BoolItems(seg.nulls) \o VectorItems(seg.vector)

FrameItems(seg) ==
  Items(1, <<seg.vector.bytes>>) \o Items(4, <<Len(seg.minima)>> \o seg.minima)
  \o BoolItems(<<seg.nulls # <<>>>>) \o BoolItems(seg.nulls) \o VectorItems(seg.vector)

Lz4Items(seg) ==
  LET last == IF seg.blocks = <<>> THEN 0 ELSE Len(seg.blocks[Len(seg.blocks)])
      starts == VectorSize(seg.starts)
  IN Items(4, <<seg.size, Len(seg.blocks), Lz4BlockSize, last>> \o [b \in DOMAIN seg.blocks |-> Len(seg.blocks[b])])
     \o Items(1, FlattenSeq(seg.blocks))
     \o Items(4, <<Len(seg.nulls)>>) \o BoolItems(seg.nulls) \o Items(4, <<0>>)
     \o Items(4, IF starts = 0 THEN <<0>> ELSE <<starts, Len(seg.starts.data)>>) \o VectorItems(seg.starts)

\* The width of a SIMD-BP128 vector is refused, after the encoding has been written.
WidthRefused(seg) == seg.encoding \in {"Dictionary", "FixedString", "FrameOfReference"} /\ seg.vector.type = "SimdBp128"

SegmentItems(seg, nullable) ==
  Items(1, <<EncodingNumber(IF seg.encoding = "Reference" THEN "Unencoded" ELSE seg.encoding)>>)
  \o CASE WidthRefused(seg) -> <<>>
       [] seg.encoding = "Reference" -> ReferenceSegmentItems(seg)
       [] seg.encoding = "Unencoded" -> ValueSegmentItems(seg, nullable)
       [] seg.encoding \in {"Dictionary", "FixedString"} -> DictionaryItems(seg)
       [] seg.encoding = "RunLength" -> RunLengthItems(seg)
       [] seg.encoding = "FrameOfReference" -> FrameItems(seg)
       [] seg.encoding = "LZ4" -> Lz4Items(seg)

Header(t) ==
  Items(4, <<t.chunkSize, Len(t.chunks)>>) \o Items(2, <<Len(t.columns)>>)
  \o Items(1, [c \in DOMAIN t.columns |-> IndexIn(DataTypes, t.columns[c].type)])
  \o BoolItems([c \in DOMAIN t.columns |-> t.columns[c].nullable])

ChunkHeader(chunk) ==
  Items(4, <<chunk.size, Len(chunk.sorted)>>)
  \o FlattenSeq([i \in DOMAIN chunk.sorted |->
       Items(2, <<chunk.sorted[i][1]>>) \o Items(1, <<IndexIn(SortModes, chunk.sorted[i][2])>>)])

\* The writer goes on until it refuses a segment; what it has written stays in the file.
BinaryFile(t) ==
  LET Add(file, items, refused) ==
        IF ~file.complete THEN file ELSE [file EXCEPT !.items = @ \o items, !.complete = ~refused]
      AddSegment(file, k, c) ==
        LET seg == t.chunks[k].segments[c] IN Add(file, SegmentItems(seg, t.columns[c].nullable), WidthRefused(seg))
      AddChunk(file, k) ==
        FoldLeft(LAMBDA f, c : AddSegment(f, k, c), Add(file, ChunkHeader(t.chunks[k]), FALSE), [c \in DOMAIN t.columns |-> c])
  IN FoldLeft(AddChunk, [format |-> "binary", complete |-> TRUE, items |-> Header(t)], [k \in DOMAIN t.chunks |-> k])

-----------------------------------------------------------------------------
(* Reading.  A cursor has the items, how many of them are read, and what it *)
(* got last; one that has failed goes on with zeros.                        *)

Failing(r) == [r EXCEPT !.ok = FALSE]

Take(r, width, n) ==
  LET ok == r.ok /\ n >= 0 /\ r.at + n <= Len(r.items) /\ \A i \in 1..n : r.items[r.at + i][1] = width
  IN [r EXCEPT !.ok = ok, !.at = IF ok THEN @ + n ELSE @,
               !.got = IF ok THEN [i \in 1..n |-> r.items[r.at + i][2]] ELSE Zeros(n)]

TakeBools(r, n) == LET taken == Take(r, 1, n) IN [taken EXCEPT !.got = [i \in DOMAIN @ |-> @[i] # 0]]

\* What is read next depends on what has been read.
Then(r, Rest(_)) == Rest(r)

StringsOf(r, lengths) ==
  LET start(i) == Total(SubSeq(lengths, 1, i - 1))
  IN [r EXCEPT !.got = [i \in DOMAIN lengths |-> SubSeq(@, start(i) + 1, start(i) + lengths[i])]]
TakeStrings(r, n) ==
  Then(Take(r, 8, n), LAMBDA lengths : StringsOf(Take(lengths, 1, Total(lengths.got)), lengths.got))

TakeValues(r, type, n) == IF type = "string" THEN TakeStrings(r, n) ELSE Take(r, 4, n)

TakeFlagged(r, announced, n) ==
  Then(IF announced THEN TakeBools(r, 1) ELSE [r EXCEPT !.got = <<FALSE>>],
       LAMBDA flagged : TakeBools(flagged, IF flagged.got[1] THEN n ELSE 0))

\* A byte-aligned vector of one of the three widths.
TakeVector(r, width, n) ==
  Then(Take(IF width \in {1, 2, 4} THEN r ELSE Failing(r), width, n),
       LAMBDA data : [data EXCEPT !.got = [type |-> "FixedSize", bytes |-> width, data |-> @]])

TakeValueSegment(r, type, nullable, n) ==
  Then(TakeFlagged(r, nullable, n), LAMBDA nulls :
  Then(TakeValues(nulls, type, n), LAMBDA values :
    [values EXCEPT !.got = [encoding |-> "Unencoded", type |-> type, nulls |-> nulls.got, values |-> @]]))

TakeDictionary(r, type, encoding, n) ==
  Then(Take(r, 1, 1), LAMBDA width :
  Then(Take(width, 4, 1), LAMBDA size :
  Then(IF encoding = "FixedString" THEN Take(size, 4, 1) ELSE [size EXCEPT !.got = <<0>>], LAMBDA length :
  Then(IF encoding = "FixedString" THEN Take(length, 1, length.got[1] * size.got[1])
       ELSE TakeValues(length, type, size.got[1]), LAMBDA dictionary :
  Then(TakeVector(dictionary, width.got[1], n), LAMBDA vector :
    [vector EXCEPT !.got = [encoding |-> encoding, type |-> type, vector |-> @, unique |-> size.got[1],
                            length |-> length.got[1], dictionary |-> dictionary.got]])))))

TakeRunLength(r, type) ==
  Then(Take(r, 4, 1), LAMBDA size :
  Then(TakeValues(size, type, size.got[1]), LAMBDA values :
  Then(TakeBools(values, size.got[1]), LAMBDA nulls :
  Then(Take(nulls, 4, size.got[1]), LAMBDA ends :
    [ends EXCEPT !.got = [encoding |-> "RunLength", type |-> type, values |-> values.got, nulls |-> nulls.got, ends |-> @]]))))

TakeFrames(r, n) ==
  Then(Take(r, 1, 1), LAMBDA width :
  Then(Take(width, 4, 1), LAMBDA count :
  Then(Take(count, 4, count.got[1]), LAMBDA minima :
  Then(TakeFlagged(minima, TRUE, n), LAMBDA nulls :
  Then(TakeVector(nulls, width.got[1], n), LAMBDA offsets :
    [offsets EXCEPT !.got = [encoding |-> "FrameOfReference", type |-> "int", minima |-> minima.got,
                             nulls |-> nulls.got, vector |-> @]])))))

\* A number of items of a width, and as many.
TakeCounted(r, width) == Then(Take(r, 4, 1), LAMBDA count : Take(count, width, count.got[1]))

Lz4Blocks(cells, sizes) ==
  [b \in DOMAIN sizes |-> SubSeq(cells, Total(SubSeq(sizes, 1, b - 1)) + 1, Total(SubSeq(sizes, 1, b)))]
TakeLz4(r, type) ==
  Then(Take(r, 4, 4), LAMBDA counts :
  Then(Take(counts, 4, counts.got[2]), LAMBDA sizes :
  Then(Take(sizes, 1, Total(sizes.got)), LAMBDA cells :
  Then(TakeCounted(cells, 1), LAMBDA flags :
  Then(Take(TakeCounted(flags, 1), 4, 1), LAMBDA starts :
  Then(IF starts.got[1] > 0 THEN TakeCounted(starts, 16) ELSE [starts EXCEPT !.got = <<>>], LAMBDA data :
    [data EXCEPT !.got = [encoding |-> "LZ4", type |-> type, size |-> counts.got[1],
                          nulls |-> [i \in DOMAIN flags.got |-> flags.got[i] # 0],
                          blocks |-> Lz4Blocks(cells.got, sizes.got),
                          starts |-> [type |-> "SimdBp128", size |-> starts.got[1], data |-> @]]]))))))

TakeSegment(r, type, nullable, n) ==
  Then(Take(r, 1, 1), LAMBDA number :
  Then(IF number.got[1] + 1 \in DOMAIN EncodingTypes THEN EncodingTypes[number.got[1] + 1] ELSE "invalid", LAMBDA encoding :
    CASE encoding = "Unencoded" -> TakeValueSegment(number, type, nullable, n)
      [] encoding = "Dictionary" \/ (encoding = "FixedString" /\ type = "string") -> TakeDictionary(number, type, encoding, n)
      [] encoding = "RunLength" -> TakeRunLength(number, type)
      [] encoding = "FrameOfReference" /\ type = "int" -> TakeFrames(number, n)
      [] encoding = "LZ4" -> TakeLz4(number, type)
      [] OTHER -> Failing(number)))

\* One after the other, as many as there are in args.
TakeAll(r, One(_, _), args) ==
  FoldLeft(LAMBDA s, arg : Then(One(s, arg), LAMBDA next : [next EXCEPT !.got = Append(s.got, @)]), [r EXCEPT !.got = <<>>], args)

TakeClaim(r) ==
  Then(Take(r, 2, 1), LAMBDA column :
  Then(Take(column, 1, 1), LAMBDA mode :
    [mode EXCEPT !.got = <<column.got[1], IF @[1] \in DOMAIN SortModes THEN SortModes[@[1]] ELSE "invalid">>]))

\* A chunk is appended with what it claims to be sorted by, and must not be empty.
TakeChunk(r, columns) ==
  Then(Take(r, 4, 2), LAMBDA sizes :
  Then(TakeAll(sizes, LAMBDA s, i : TakeClaim(s), Zeros(sizes.got[2])), LAMBDA claims :
  Then(TakeAll(claims, LAMBDA s, col : TakeSegment(s, col.type, col.nullable, sizes.got[1]), columns), LAMBDA segments :
    [segments EXCEPT !.ok = @ /\ sizes.got[1] > 0,
                     !.got = [size |-> sizes.got[1], sorted |-> claims.got, segments |-> @]])))

NoTable == [outcome |-> "failed"]
TableRead(r, chunkSize, columns) ==
  IF ~r.ok THEN NoTable ELSE [outcome |-> "table", columns |-> columns, chunkSize |-> chunkSize, chunks |-> r.got]

ParsedBinary(items) ==
  Then(Take([items |-> items, at |-> 0, ok |-> TRUE, got |-> <<>>], 4, 2), LAMBDA counts :
  Then(Take(counts, 2, 1), LAMBDA width :
  Then(Take(width, 1, width.got[1]), LAMBDA types :
  Then(TakeBools(types, width.got[1]), LAMBDA nullable :
  Then([c \in DOMAIN types.got |-> [type |-> DataTypes[types.got[c]], nullable |-> nullable.got[c]]], LAMBDA columns :
    TableRead(TakeAll(nullable, LAMBDA s, k : TakeChunk(s, columns), Zeros(counts.got[2])), counts.got[1], columns))))))
=============================================================================
