-------------------------------- MODULE Scans --------------------------------
(* Table scans and index scans.  A base table b has rows and, for each     *)
(* chunk, the column it is sorted by, whether its key column is dictionary *)
(* encoded, and whether there is an index.  Operators hand on reference    *)
(* tables: chunks of positions in the base table, each with the guarantee  *)
(* that it refers to a single chunk, or without, and the column and mode   *)
(* it is sorted by.                                                        *)
EXTENDS Tables

CONSTANT OutputChunkSize  \* rows in a chunk that an operator writes: 65535 in the code

SizeAssumption == OutputChunkSize \in Nat \ {0}
ASSUME SizeAssumption

NotSorted == <<>>

\* A NULL_ROW_ID, left by an outer join, is a row of NULLs.
Value(b, x, col) ==
  IF x = NoRow THEN Null ELSE IF col = "key" THEN Key(b.rows, x) ELSE Extra(b.rows, x)

DataView(b) ==
  [type |-> "Data", clustered |-> b.clustered,
   chunks |-> [c \in DOMAIN b.rows |-> [pos |-> ChunkRows(b.rows, c), single |-> TRUE, sorted |-> b.sorted[c]]]]

Reference(chunks) == [type |-> "References", clustered |-> {}, chunks |-> chunks]

Positions(view) == FlattenSeq([i \in DOMAIN view.chunks |-> view.chunks[i].pos])

-----------------------------------------------------------------------------
(* Scanning a segment.  A predicate compares the key with a value, two     *)
(* values, NULL or the extra column.  os are the offsets that are scanned, *)
(* all in one chunk of the base table.                                     *)

LowerInclusive(cond) == cond \in {"[]", "[)"}
UpperInclusive(cond) == cond \in {"[]", "(]"}
BetweenHolds(cond, v, a, z) ==
  (IF LowerInclusive(cond) THEN v >= a ELSE v > a) /\ (IF UpperInclusive(cond) THEN v <= z ELSE v < z)

\* Is the predicate true for these values?  Not for NULLs, except for IS NULL.
Satisfied(p, v, extra) ==
  CASE p.kind = "value"   -> v # Null /\ Holds(p.cond, v, p.a)
    [] p.kind = "between" -> v # Null /\ BetweenHolds(p.cond, v, p.a, p.z)
    [] p.kind = "null"    -> (v = Null) = (p.cond = "is")
    [] p.kind = "columns" -> v # Null /\ extra # Null /\ Holds(p.cond, v, extra)

FirstBound(vs, asc, v) == Cardinality({i \in DOMAIN vs : IF asc THEN vs[i] < v ELSE vs[i] > v})
LastBound(vs, asc, v)  == Cardinality({i \in DOMAIN vs : IF asc THEN vs[i] <= v ELSE vs[i] >= v})

\* A mutant: the bounds change sides in a descending segment, not their conditions.
SortedBetweenUnswapped(p, vs, asc) ==
  LET first == IF asc THEN p.a ELSE p.z
      second == IF asc THEN p.z ELSE p.a
  IN (IF LowerInclusive(p.cond) THEN FirstBound(vs, asc, first) ELSE LastBound(vs, asc, first)) + 1
     ..(IF UpperInclusive(p.cond) THEN LastBound(vs, asc, second) ELSE FirstBound(vs, asc, second))

\* SortedSegmentSearch: the NULLs come first, in either mode.
SortedBetween(p, vs, asc) ==
  LET least == IF asc THEN vs[1] ELSE vs[Len(vs)]
      greatest == IF asc THEN vs[Len(vs)] ELSE vs[1]
      beginInclusive == IF asc THEN LowerInclusive(p.cond) ELSE UpperInclusive(p.cond)
      endInclusive == IF asc THEN UpperInclusive(p.cond) ELSE LowerInclusive(p.cond)
      first == IF asc THEN p.a ELSE p.z
      second == IF asc THEN p.z ELSE p.a
  IN IF vs = <<>> \/ (least > p.a /\ greatest < p.z) THEN DOMAIN vs
     ELSE IF least > p.z \/ greatest < p.a THEN {}
     ELSE (IF beginInclusive THEN FirstBound(vs, asc, first) ELSE LastBound(vs, asc, first)) + 1
          ..(IF endInclusive THEN LastBound(vs, asc, second) ELSE FirstBound(vs, asc, second))

SortedValue(p, vs, asc) ==
  LET first == FirstBound(vs, asc, p.a)
      last == LastBound(vs, asc, p.a)
      upper == p.cond \in (IF asc THEN {">", ">="} ELSE {"<", "<="})
      inclusive == p.cond \in {"<=", ">="}
  IN CASE p.cond = "=" -> first + 1..last
       [] p.cond = "#" -> (1..first) \cup (last + 1..Len(vs))
       [] p.cond \in {"<", "<=", ">", ">="} ->
            IF upper THEN (IF inclusive THEN first ELSE last) + 1..Len(vs)
            ELSE 1..(IF inclusive THEN last ELSE first)

\* val: the values at the offsets of the chunk.
SortedSearch(p, val, os, asc) ==
  LET behind == SelectSeq(os, LAMBDA o : val[o] # Null)
      vs == [i \in DOMAIN behind |-> val[behind[i]]]
      hits == IF p.kind = "between" THEN SortedBetween(p, vs, asc) ELSE SortedValue(p, vs, asc)
  IN [i \in 1..Cardinality(hits) |-> behind[SetToSortSeq(hits, LAMBDA i1, i2 : i1 < i2)[i]]]

\* A dictionary: the values of a chunk in ascending order; the NULL has the id behind
\* the last one, INVALID_VALUE_ID is greater than that.
Dictionary(b, c) == {Key(b.rows, x) : x \in ToSet(ChunkRows(b.rows, c))} \ {Null}
ValueId(dict, v) == IF v = Null THEN Cardinality(dict) ELSE Cardinality({d \in dict : d < v})
OrInvalid(dict, id) == IF id = Cardinality(dict) THEN id + 1 ELSE id
LowerId(dict, v) == OrInvalid(dict, Cardinality({d \in dict : d < v}))
UpperId(dict, v) == OrInvalid(dict, Cardinality({d \in dict : d <= v}))
Invalid(dict) == Cardinality(dict) + 1

AllButNulls(b, val, os) == IF b.nullable THEN SelectSeq(os, LAMBDA o : val[o] # Null) ELSE os

DictionaryValue(b, dict, p, val, os) ==
  LET id == IF p.cond \in {"=", "#", "<", ">="} THEN LowerId(dict, p.a) ELSE UpperId(dict, p.a)
      unique == Cardinality(dict) = 1
      all == CASE p.cond = "=" -> p.a \in dict /\ unique
               [] p.cond = "#" -> p.a \notin dict
               [] p.cond \in {"<", "<="} -> id = Invalid(dict)
               [] p.cond \in {">", ">="} -> id = 0
      none == CASE p.cond = "=" -> p.a \notin dict
                [] p.cond = "#" -> p.a \in dict /\ unique
                [] p.cond \in {"<", "<="} -> id = 0
                [] p.cond \in {">", ">="} -> id = Invalid(dict)
      compared == CASE p.cond \in {"<", "<="} -> "<" [] p.cond \in {">", ">="} -> ">=" [] OTHER -> p.cond
      nulls == p.cond \in {"=", "<", "<="}     \* their id would not match anyway
  IN IF all THEN AllButNulls(b, val, os)
     ELSE SelectSeq(os, LAMBDA o : ~none /\ (nulls \/ val[o] # Null) /\ Holds(compared, ValueId(dict, val[o]), id))

DictionaryBetween(b, dict, p, val, os) ==
  LET lower == IF LowerInclusive(p.cond) THEN LowerId(dict, p.a) ELSE UpperId(dict, p.a)
      upper == IF UpperInclusive(p.cond) THEN UpperId(dict, p.z) ELSE LowerId(dict, p.z)
      end == IF upper = Invalid(dict) THEN Cardinality(dict) ELSE upper
  IN IF lower = 0 /\ upper = Invalid(dict) THEN AllButNulls(b, val, os)
     ELSE SelectSeq(os, LAMBDA o : /\ lower # Invalid(dict) /\ lower < upper
                                   /\ ValueId(dict, val[o]) \in lower..end - 1)

\* The offsets among os that match, the scanned values all in chunk c.
ScanSegment(b, chunk, os, c, p) ==
  LET val == [o \in DOMAIN chunk.pos |-> Value(b, chunk.pos[o], "key")]
      dict == Dictionary(b, c)
  IN IF chunk.sorted # NotSorted /\ chunk.sorted[1] = "key"
     THEN SortedSearch(p, val, os, chunk.sorted[2] = "asc")
     ELSE IF b.dict[c]
     THEN IF p.kind = "between" THEN DictionaryBetween(b, dict, p, val, os) ELSE DictionaryValue(b, dict, p, val, os)
     ELSE SelectSeq(os, LAMBDA o : Satisfied(p, val[o], Null))

\* Scans for NULLs and of two columns look at the chunk as it is.
ScanWhole(b, view, i, p) ==
  LET chunk == view.chunks[i]
      os == [o \in DOMAIN chunk.pos |-> o]
      Val(o) == Value(b, chunk.pos[o], "key")
      Extr(o) == Value(b, chunk.pos[o], "extra")
      nulls == Cardinality({o \in DOMAIN chunk.pos : Val(o) = Null})
      flip == p.cond \in {">", ">="}
  IN IF p.kind = "columns"
     THEN SelectSeq(os, LAMBDA o : /\ Val(o) # Null /\ Extr(o) # Null
                                   /\ IF flip THEN Holds(Flip(p.cond), Extr(o), Val(o)) ELSE Holds(p.cond, Val(o), Extr(o)))
     ELSE IF view.type = "Data" /\ ~b.dict[i]
     THEN IF ~b.nullable THEN (IF p.cond = "is" THEN <<>> ELSE os)
          ELSE SelectSeq(os, LAMBDA o : (Val(o) = Null) = (p.cond = "is"))
     ELSE IF chunk.sorted # NotSorted /\ chunk.sorted[1] = "key"
     THEN IF p.cond = "is" THEN SubSeq(os, 1, nulls) ELSE SubSeq(os, nulls + 1, Len(os))
     ELSE SelectSeq(os, LAMBDA o : (Val(o) = Null) = (p.cond = "is"))

\* A chunk that may refer to several is split by the chunks it refers to.
ScanChunk(b, view, i, p) ==
  LET chunk == view.chunks[i]
      os == [o \in DOMAIN chunk.pos |-> o]
      Of(c) == SelectSeq(os, LAMBDA o : chunk.pos[o][1] = c)
  IN IF p.kind \in {"null", "columns"} THEN ScanWhole(b, view, i, p)
     ELSE IF chunk.single /\ chunk.pos # <<>> THEN ScanSegment(b, chunk, os, chunk.pos[1][1], p)
     ELSE FlattenSeq([c \in DOMAIN b.rows |-> IF Of(c) = <<>> THEN <<>> ELSE ScanSegment(b, chunk, Of(c), c, p)])

Filtered(chunk, offsets) == [i \in DOMAIN offsets |-> chunk.pos[offsets[i]]]

\* A mutant: the order is kept although the matches are grouped by chunk.
ScanOutputInOrder(view, i, matches) ==
  IF view.type = "References" /\ Len(matches) = Len(view.chunks[i].pos) THEN view.chunks[i]
  ELSE [view.chunks[i] EXCEPT !.pos = Filtered(view.chunks[i], matches)]

\* The output for the matches in a chunk: the chunk itself if all match.
ScanOutput(view, i, matches) ==
  LET chunk == view.chunks[i]
  IN IF view.type = "References" /\ Len(matches) = Len(chunk.pos) THEN chunk
     ELSE [chunk EXCEPT !.pos = Filtered(chunk, matches),
                        !.sorted = IF chunk.single THEN @ ELSE NotSorted]

\* A mutant: the chunks that are left to an index scan are scanned, too.
TableScanOfAll(b, view, p, excluded) ==
  LET scanned == SelectSeq([i \in DOMAIN view.chunks |-> i], LAMBDA i : ScanChunk(b, view, i, p) # <<>>)
  IN Reference([k \in DOMAIN scanned |-> ScanOutput(view, scanned[k], ScanChunk(b, view, scanned[k], p))])

TableScan(b, view, p, excluded) ==
  LET scanned == SelectSeq([i \in DOMAIN view.chunks |-> i],
                   LAMBDA i : i \notin excluded /\ ScanChunk(b, view, i, p) # <<>>)
  IN Reference([k \in DOMAIN scanned |-> ScanOutput(view, scanned[k], ScanChunk(b, view, scanned[k], p))])

-----------------------------------------------------------------------------
(* Index scans of the base table.                                          *)

IndexMatches(b, c, p) ==
  LET xs == IndexOf(b.rows, c)
      lower(v) == LowerBound(b.rows, xs, v)
      upper(v) == UpperBound(b.rows, xs, v)
  IN IF p.kind = "between"
     THEN SubSeq(xs, (IF LowerInclusive(p.cond) THEN lower(p.a) ELSE upper(p.a)) + 1,
                     IF UpperInclusive(p.cond) THEN upper(p.z) ELSE lower(p.z))
     ELSE CASE p.cond = "="  -> SubSeq(xs, lower(p.a) + 1, upper(p.a))
            [] p.cond = "#"  -> SubSeq(xs, 1, lower(p.a)) \o SubSeq(xs, upper(p.a) + 1, Len(xs))
            [] p.cond = "<"  -> SubSeq(xs, 1, lower(p.a))
            [] p.cond = "<=" -> SubSeq(xs, 1, upper(p.a))
            [] p.cond = ">"  -> SubSeq(xs, upper(p.a) + 1, Len(xs))
            [] p.cond = ">=" -> SubSeq(xs, lower(p.a) + 1, Len(xs))

\* Between bounds that cross, the end of the range lies before its beginning; the scan
\* resizes its result to a negative size.
IndexRangeCrosses(b, c, p) ==
  LET xs == IndexOf(b.rows, c)
      begin == IF LowerInclusive(p.cond) THEN LowerBound(b.rows, xs, p.a) ELSE UpperBound(b.rows, xs, p.a)
      end == IF UpperInclusive(p.cond) THEN UpperBound(b.rows, xs, p.z) ELSE LowerBound(b.rows, xs, p.z)
  IN p.kind = "between" /\ end < begin

\* Without included chunks all are scanned; one without an index fails an assertion.
IndexScanned(b, included) == IF included = {} THEN DOMAIN b.rows ELSE included
IndexScanFails(b, included, p) ==
  \E c \in IndexScanned(b, included) : c \notin b.indexed \/ IndexRangeCrosses(b, c, p)

IndexScan(b, included, p) ==
  LET scanned == SelectSeq([c \in DOMAIN b.rows |-> c],
                   LAMBDA c : c \in IndexScanned(b, included) /\ IndexMatches(b, c, p) # <<>>)
  IN Reference([k \in DOMAIN scanned |->
       [pos |-> IndexMatches(b, scanned[k], p), single |-> TRUE, sorted |-> NotSorted]])
=============================================================================
