--------------------------- MODULE SegmentReaders ---------------------------
(* Threads read a column through iterators and accessors, while tasks      *)
(* exchange the segment that holds it for another in another encoding.     *)
(* Iterators decompress with a copy of their own; accessors share the      *)
(* decompressor of the segment.  An iterator is made by somebody who holds *)
(* the segment; an accessor refers to the segment without holding it.      *)
EXTENDS Segments

CONSTANTS Threads,
          StoredColumns,       \* the columns to read: a type and the values
          Specs,               \* encodings and vector compressions to encode with
          MaxEncodings,        \* the number of exchanges, a bound of the model
          EncodeWhileAccessed  \* may a segment be exchanged while an accessor refers to it?

VARIABLES column,     \* what the column holds
          segment,    \* the segment the chunk has for it
          shared,     \* the decompressor of that segment
          encodings,  \* the exchanges so far
          readers,    \* the reader of each thread, or NoReader
          read        \* the offset and position that a thread has read last
readerVars == <<column, segment, shared, encodings, readers, read>>

NoColumn == [type |-> "none"]
NoReader == [kind |-> "none"]
NothingRead == [offset |-> NoIndex, position |-> Failed]
Offsets == 0..(Len(column.values) - 1)
Alive(r) == r.kind # "accessor" \/ r.made = encodings

-----------------------------------------------------------------------------
(* Reaching a position.  A reader has an offset, a run in a run-length      *)
(* segment, and a decompressor or the block of LZ4 that it has cached.      *)

\* std::lower_bound from a run to another one.
SearchEnds(seg, o, from, to) == Min({to} \cup {r \in from..(to - 1) : seg.ends[r + 1] >= o})

\* search_end_positions_for_chunk_offset, linear or binary.
SearchRun(seg, old, new, previous) ==
  IF new < old THEN SearchEnds(seg, new, 0, previous) ELSE SearchEnds(seg, new, previous, Len(seg.ends))

\* A mutant: going back, the run of the previous position is left out and nothing said for it.
SearchRunExclusive(seg, old, new, previous) ==
  IF new < old THEN SearchEnds(seg, new, 0, Max({0, previous - 1})) ELSE SearchEnds(seg, new, previous, Len(seg.ends))

Increment(seg, r) ==
  LET o == r.offset + 1
  IN [r EXCEPT !.offset = o,
        !.run = IF seg.encoding = "RunLength" /\ o > seg.ends[@ + 1] THEN @ + 1 ELSE @]
Decrement(seg, r) ==
  LET o == r.offset - 1
  IN [r EXCEPT !.offset = o,
        !.run = IF seg.encoding = "RunLength" /\ @ # 0 /\ o <= seg.ends[@] THEN @ - 1 ELSE @]
Advance(seg, r, n) ==
  [r EXCEPT !.offset = @ + n,
     !.run = IF seg.encoding = "RunLength" THEN SearchRun(seg, r.offset, r.offset + n, @) ELSE @]

-----------------------------------------------------------------------------
(* Decompression of single values in an LZ4 segment, with the cached block. *)

DecompressNumber(seg, o, cache) ==
  LET b == o \div Lz4BlockSize
      loaded == IF cache.index = b THEN cache ELSE [index |-> b, block |-> seg.blocks[b + 1]]
  IN [cache |-> loaded, position |-> Position(NullAt(seg, o), loaded.block[(o % Lz4BlockSize) + 1])]

\* A string may begin in one block and end in another; its last block may be the cached one.
DecompressText(seg, start, end, null, cache) ==
  LET first == start \div Lz4BlockSize
      last == end \div Lz4BlockSize
      Block(b) == IF b = cache.index THEN cache.block ELSE seg.blocks[b + 1]
      loaded == {b \in first..last : b # cache.index}
      Part(b) == SubSeq(Block(b), IF b = first THEN (start % Lz4BlockSize) + 1 ELSE 1,
                        IF b = last THEN end % Lz4BlockSize ELSE Lz4BlockSize)
      text == FlattenSeq([i \in 1..(last - first + 1) |-> Part(first + i - 1)])
      index == IF first = last THEN first ELSE Max(loaded)
  IN IF \E b \in loaded : b >= Len(seg.blocks) THEN [cache |-> cache, position |-> Failed]
     ELSE [cache |-> [index |-> index, block |-> Block(index)], position |-> Position(null, text)]

EndOfString(seg, o) ==
  IF o + 1 = VectorSize(seg.starts) THEN Total([b \in DOMAIN seg.blocks |-> Len(seg.blocks[b])]) ELSE Get(seg.starts, o + 1)
DecompressString(seg, o, cache) == DecompressText(seg, Get(seg.starts, o), EndOfString(seg, o), NullAt(seg, o), cache)

\* A mutant: a string that spans blocks always leaves its last block in the cache, or so it says.
DecompressStringLast(seg, o, cache) ==
  LET end == EndOfString(seg, o) \div Lz4BlockSize
      d == DecompressString(seg, o, cache)
  IN IF d.cache.index # cache.index /\ end = cache.index THEN [d EXCEPT !.cache.index = end] ELSE d

Decompress(seg, o, cache) ==
  IF seg.type = "int" THEN DecompressNumber(seg, o, cache)
  ELSE IF seg.blocks = <<>> THEN [cache |-> [index |-> 0, block |-> cache.block], position |-> Position(NullAt(seg, o), <<>>)]
  ELSE DecompressString(seg, o, cache)

\* decompress() of a whole segment: what its iterators run over.
DecompressedAt(seg, o) ==
  LET cells == FlattenSeq(seg.blocks)
  IN Position(NullAt(seg, o), IF seg.type = "int" THEN cells[o + 1]
                              ELSE IF cells = <<>> THEN <<>> ELSE SubSeq(cells, Get(seg.starts, o) + 1, EndOfString(seg, o)))

-----------------------------------------------------------------------------
(* Positions.  A cache is brought to an offset first; then the position is  *)
(* read, from among several if the cache has moved in between.              *)

ValueOfId(seg, id) ==
  IF id = seg.unique THEN Position(TRUE, Default(seg.type))
  ELSE IF id > seg.unique THEN Failed
  ELSE Position(FALSE, IF seg.encoding = "FixedString" THEN StringAt(seg.dictionary, seg.length, id)
                       ELSE seg.dictionary[id + 1])

ReachCache(seg, cache, o) ==
  IF seg.encoding \in {"Dictionary", "FixedString", "FrameOfReference"} THEN Locate(seg.vector, cache, o) ELSE cache

PositionsAt(seg, cache, run, o) ==
  CASE seg.encoding = "Unencoded" -> {Position(NullAt(seg, o), seg.values[o + 1])}
    [] seg.encoding \in {"Dictionary", "FixedString"} -> {ValueOfId(seg, id) : id \in Fetch(seg.vector, cache, o)}
    [] seg.encoding = "FrameOfReference" ->
         {Position(NullAt(seg, o), Signed(n + seg.minima[(o \div FrameBlockSize) + 1])) : n \in Fetch(seg.vector, cache, o)}
    [] seg.encoding = "RunLength" -> {IF run = Len(seg.ends) THEN Failed ELSE Position(seg.nulls[run + 1], seg.values[run + 1])}
    [] seg.encoding = "LZ4" -> {DecompressedAt(seg, o)}

FreshCache(seg) == IF seg.encoding = "LZ4" THEN NoCache ELSE NewDecompressor
FreshReader(kind) == [kind |-> kind, segment |-> segment, made |-> encodings, offset |-> 0, run |-> 0,
                      cache |-> FreshCache(segment), wants |-> NoIndex]

\* All positions of a segment, as an encoder reads them: from the beginning, one by one.
PositionsOf(seg) ==
  LET start == [offset |-> 0, run |-> 0]
      its[n \in 0..SegmentSize(seg)] == IF n = 0 THEN start ELSE Increment(seg, its[n - 1])
      at(n) == PositionsAt(seg, ReachCache(seg, FreshCache(seg), n), its[n].run, n)
  IN [i \in 1..SegmentSize(seg) |-> CHOOSE p \in at(i - 1) : TRUE]

HasSpec(seg, spec) ==
  /\ seg.encoding = spec.encoding
  /\ seg.encoding \in {"Dictionary", "FixedString", "FrameOfReference"} => spec.vector \in {"any", seg.vector.type}

Encoded(type, ps, spec) ==
  CASE spec.encoding = "Unencoded" -> Unencoded(type, ps)
    [] spec.encoding \in {"Dictionary", "FixedString"} -> DictionarySegment(type, ps, spec.encoding, spec.vector)
    [] spec.encoding = "RunLength" -> RunLength(type, ps)
    [] spec.encoding = "FrameOfReference" -> FrameOfReference(ps, spec.vector)
    [] spec.encoding = "LZ4" -> Lz4(type, ps)
EncodeSegment(seg, spec) == Encoded(seg.type, PositionsOf(seg), spec)
Supports(spec, type) == CASE spec.encoding = "FixedString" -> type = "string"
                          [] spec.encoding = "FrameOfReference" -> type = "int"
                          [] OTHER -> TRUE

-----------------------------------------------------------------------------
(* A table is loaded into value segments.                                   *)

Loaded(v) == IF v = Null THEN Position(TRUE, Default(column.type)) ELSE Position(FALSE, v)

ReadersInit ==
  /\ column \in StoredColumns
  /\ segment = Unencoded(column.type, [i \in DOMAIN column.values |-> Loaded(column.values[i])])
  /\ shared = NewDecompressor /\ encodings = 0
  /\ readers = [t \in Threads |-> NoReader]
  /\ read = [t \in Threads |-> NothingRead]

NoReaders ==
  /\ column = NoColumn /\ segment = Unencoded("int", <<>>)
  /\ shared = NewDecompressor /\ encodings = 0
  /\ readers = [t \in Threads |-> NoReader]
  /\ read = [t \in Threads |-> NothingRead]

\* encode_segment and replace_segment; a segment that has the encoding already is left alone.
Encode(spec) ==
  /\ encodings < MaxEncodings /\ Supports(spec, column.type) /\ ~HasSpec(segment, spec)
  /\ EncodeWhileAccessed \/ \A t \in Threads : readers[t].kind # "accessor"
  /\ segment' = EncodeSegment(segment, spec)
  /\ shared' = NewDecompressor /\ encodings' = encodings + 1
  /\ UNCHANGED <<column, readers, read>>

Open(t, kind) ==
  /\ readers[t] = NoReader
  /\ readers' = [readers EXCEPT ![t] = FreshReader(kind)]
  /\ UNCHANGED <<column, segment, shared, encodings, read>>

Close(t) ==
  /\ readers[t] # NoReader /\ readers[t].wants = NoIndex
  /\ readers' = [readers EXCEPT ![t] = NoReader]
  /\ read' = [read EXCEPT ![t] = NothingRead]
  /\ UNCHANGED <<column, segment, shared, encodings>>

\* A sequential iterator moves, not beyond the end, and is dereferenced before it.
MoveTo(t, r) ==
  LET reached == [r EXCEPT !.cache = IF r.offset \in Offsets THEN ReachCache(r.segment, @, r.offset) ELSE @]
  IN /\ readers' = [readers EXCEPT ![t] = reached]
     /\ IF r.offset \in Offsets
        THEN \E p \in PositionsAt(r.segment, reached.cache, reached.run, r.offset) :
               read' = [read EXCEPT ![t] = [offset |-> r.offset, position |-> p]]
        ELSE read' = [read EXCEPT ![t] = NothingRead]
     /\ UNCHANGED <<column, segment, shared, encodings>>

Dereference(t) == readers[t].kind = "iterator" /\ MoveTo(t, readers[t])
StepForward(t) == /\ readers[t].kind = "iterator" /\ readers[t].offset \in Offsets
                  /\ MoveTo(t, Increment(readers[t].segment, readers[t]))
StepBack(t) == /\ readers[t].kind = "iterator" /\ readers[t].offset > 0
               /\ MoveTo(t, Decrement(readers[t].segment, readers[t]))
Jump(t, o) == /\ readers[t].kind = "iterator"
              /\ MoveTo(t, Advance(readers[t].segment, readers[t], o - readers[t].offset))

\* An iterator over a list of positions, in any order.
ReadPosition(t, o) ==
  LET r == readers[t]
      seg == r.segment
      run == IF seg.encoding = "RunLength" THEN SearchRun(seg, r.offset, o, r.run) ELSE 0
      d == Decompress(seg, o, r.cache)
      cache == IF seg.encoding = "LZ4" THEN d.cache ELSE ReachCache(seg, r.cache, o)
  IN /\ r.kind = "positions"
     /\ readers' = [readers EXCEPT ![t] = [r EXCEPT !.offset = o, !.run = run, !.cache = cache]]
     /\ \E p \in IF seg.encoding = "LZ4" THEN {d.position} ELSE PositionsAt(seg, cache, run, o) :
          read' = [read EXCEPT ![t] = [offset |-> o, position |-> p]]
     /\ UNCHANGED <<column, segment, shared, encodings>>

\* get_typed_value through an accessor: where NULLs are flags, they come first.
FlaggedNull(seg, o) == seg.encoding \in {"LZ4", "FrameOfReference"} /\ NullAt(seg, o)

\* The decompressor of the segment is brought to the offset ...
Access(t, o) ==
  LET r == readers[t]
  IN /\ r.kind = "accessor" /\ r.wants = NoIndex
     /\ readers' = [readers EXCEPT ![t].wants = o]
     /\ shared' = IF Alive(r) /\ ~FlaggedNull(segment, o) THEN ReachCache(segment, shared, o) ELSE shared
     /\ UNCHANGED <<column, segment, encodings, read>>

AccessedPositions(o) ==
  IF FlaggedNull(segment, o) THEN {Position(TRUE, Default(column.type))}
  ELSE IF segment.encoding = "LZ4" THEN {Decompress(segment, o, NoCache).position}
  ELSE PositionsAt(segment, shared,
         IF segment.encoding = "RunLength" THEN SearchEnds(segment, o, 0, Len(segment.ends)) ELSE 0, o)

\* ... and the value is read.  The memory of a segment that is gone holds anything.
ReturnValue(t) ==
  LET r == readers[t]
  IN /\ r.kind = "accessor" /\ r.wants # NoIndex
     /\ \E p \in IF Alive(r) THEN AccessedPositions(r.wants) ELSE {Failed} :
          read' = [read EXCEPT ![t] = [offset |-> r.wants, position |-> p]]
     /\ readers' = [readers EXCEPT ![t].wants = NoIndex]
     /\ UNCHANGED <<column, segment, shared, encodings>>

ReadersNext ==
  /\ column # NoColumn
  /\ \/ \E spec \in Specs : Encode(spec)
     \/ \E t \in Threads :
          \/ \E kind \in {"iterator", "positions", "accessor"} : Open(t, kind)
          \/ Close(t) \/ Dereference(t) \/ StepForward(t) \/ StepBack(t) \/ ReturnValue(t)
          \/ \E o \in 0..Len(column.values) : Jump(t, o)
          \/ \E o \in Offsets : ReadPosition(t, o) \/ Access(t, o)

-----------------------------------------------------------------------------
ReadExact(t) ==
  read[t].offset = NoIndex
  \/ LET v == column.values[read[t].offset + 1]
     IN IF v = Null THEN IsNull(read[t].position)
        ELSE read[t].position.outcome = "value" /\ read[t].position.value = v

\* Whatever encodings a column has gone through and whatever was read before, in whichever order, a reader
\* gets the value that was stored at the offset, and NULL for a NULL: no cached block, no remembered run
\* and no width that was chosen too small comes between.
ReadsAreExact == \A t \in Threads : ReadExact(t)

\* A block that a decompressor keeps from one read to the next is the one that the vector, or the segment of
\* LZ4, has at the position it is kept for, also when no reader has noticed yet.
BlockCurrent(seg, cache) ==
  CASE seg.encoding = "LZ4" -> cache.index = NoIndex \/ seg.blocks = <<>> \/ cache.block = seg.blocks[cache.index + 1]
    [] seg.encoding \in {"Dictionary", "FixedString", "FrameOfReference"} ->
         \A i \in 0..(VectorSize(seg.vector) - 1) :
           WithinBlock(cache, i) => cache.block[i - cache.blockFirst + 1] = Get(seg.vector, i)
    [] OTHER -> TRUE
CachesCurrent ==
  /\ segment.encoding # "LZ4" => BlockCurrent(segment, shared)
  /\ \A t \in Threads : readers[t].kind # "none" => BlockCurrent(readers[t].segment, readers[t].cache)

\* segment_accessor.hpp:41: threads that access the same segment need an accessor each, and no more.
AccessorPerThreadSuffices == \A t \in Threads : readers[t].kind = "accessor" => ReadExact(t)

\* chunk_compression_task.hpp:19: a segment that a reader still refers to stays valid when it is exchanged.
ExchangedSegmentStaysValid == \A t \in Threads : readers[t].kind # "none" /\ readers[t].made # encodings => ReadExact(t)

\* lz4_encoder.hpp:166: the last string of a segment ends where the data ends.
LastStringEndsWithData == \A t \in Threads : read[t].offset # NoIndex /\ read[t].offset = Len(column.values) - 1 => ReadExact(t)
=============================================================================
