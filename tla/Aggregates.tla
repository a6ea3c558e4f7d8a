------------------------------ MODULE Aggregates ------------------------------
(* The aggregate operators: AggregateHash, which the planner uses, and     *)
(* AggregateSort.  A result row is the values of the group-by columns and  *)
(* the aggregate: a number, NULL, or sum and count for AVG.                *)
EXTENDS SortsAndUnions

\* ANY is the value of a column that is the same for all rows of a group.
Functions == {"COUNT(*)", "COUNT", "COUNT DISTINCT", "SUM", "MIN", "MAX", "AVG"}

SumOf(vs) == FoldLeft(+, 0, vs)

\* What an accumulator over the values vs that are not NULL is written as; rows counts
\* the NULLs as well.
Written(fn, vs, rows) ==
  CASE fn = "COUNT(*)" -> rows
    [] fn = "COUNT" -> Len(vs)
    [] fn = "COUNT DISTINCT" -> Cardinality(ToSet(vs))
    [] fn \in {"SUM", "MIN", "MAX", "AVG"} /\ vs = <<>> -> Null
    [] fn = "SUM" /\ vs # <<>> -> SumOf(vs)
    [] fn = "MIN" /\ vs # <<>> -> Min(ToSet(vs))
    [] fn = "MAX" /\ vs # <<>> -> Max(ToSet(vs))
    [] fn = "AVG" /\ vs # <<>> -> <<SumOf(vs), Len(vs)>>

GroupOf(b, x, groupBy) == [i \in DOMAIN groupBy |-> Value(b, x, groupBy[i])]

\* An aggregate over the key column.
Aggregated(b, fn, xs) ==
  LET vs == [i \in DOMAIN xs |-> Value(b, xs[i], "key")]
  IN Written(fn, SelectSeq(vs, LAMBDA v : v # Null), Len(xs))

\* What an aggregation is to return: one row for each group there is, and one row
\* in any case if there are no group-by columns.
Grouping(b, view, groupBy, fn) ==
  LET xs == Positions(view)
      groups == {GroupOf(b, x, groupBy) : x \in ToSet(xs)} \cup (IF groupBy = <<>> THEN {<<>>} ELSE {})
  IN {<<g, Aggregated(b, fn, SelectSeq(xs, LAMBDA x : GroupOf(b, x, groupBy) = g))>> : g \in groups}

-----------------------------------------------------------------------------
(* AggregateHash.                                                          *)

\* A mutant: the integers are not moved up.
KeyIdUnshifted(v) == IF v = Null THEN 0 ELSE v

\* The id of a value: an integer moved up, so that 0 is left for NULL.
KeyId(v) == IF v = Null THEN 0 ELSE v + 1

AggregateKey(b, x, groupBy) == [i \in DOMAIN groupBy |-> KeyId(Value(b, x, groupBy[i]))]

\* get_or_add_result: the results in the order their first rows come in.
FirstRows(b, xs, groupBy) ==
  FoldLeft(LAMBDA first, i :
             IF \E k \in ToSet(first) : AggregateKey(b, xs[k], groupBy) = AggregateKey(b, xs[i], groupBy)
             THEN first ELSE Append(first, i),
           <<>>, [i \in DOMAIN xs |-> i])

AggregateHash(b, view, groupBy, fn) ==
  LET xs == Positions(view)
      first == FirstRows(b, xs, groupBy)
      Rest(i) == SelectSeq(xs, LAMBDA x : AggregateKey(b, x, groupBy) = AggregateKey(b, xs[i], groupBy))
  IN IF first = <<>> /\ groupBy = <<>> THEN <<<<<<>>, Written(fn, <<>>, 0)>>>>
     ELSE [r \in DOMAIN first |-> <<GroupOf(b, xs[first[r]], groupBy), Aggregated(b, fn, Rest(first[r]))>>]

-----------------------------------------------------------------------------
(* AggregateSort.                                                          *)

\* Only the values of the first group-by column decide whether a chunk is taken as sorted.
SortedChunkWise(b, view, groupBy) ==
  [i \in DOMAIN view.chunks |->
     LET chunk == view.chunks[i]
     IN IF Len(groupBy) = 1 /\ chunk.sorted # NotSorted /\ chunk.sorted[1] = groupBy[1] THEN chunk.pos
        ELSE Passes(b, chunk.pos, [k \in DOMAIN groupBy |-> <<groupBy[k], "asc">>])]

\* The chunks the aggregation runs over.  Where a group-by column is clustered, each
\* chunk is sorted on its own.
SortedChunks(b, view, groupBy) ==
  LET Chunks(v) == [i \in DOMAIN v.chunks |-> v.chunks[i].pos]
  IN IF groupBy = <<>> THEN Chunks(view)
     ELSE IF \E i \in DOMAIN groupBy : groupBy[i] \in view.clustered THEN SortedChunkWise(b, view, groupBy)
     ELSE Chunks(Sort(b, view, [k \in DOMAIN groupBy |-> <<groupBy[k], "asc">>]))

\* A mutant: a NULL after a value begins no group.
BoundariesOfValues(b, chunks, groupBy) ==
  LET ids == FlattenSeq([i \in DOMAIN chunks |-> [o \in DOMAIN chunks[i] |-> <<i, o>>]])
      xs == FlattenSeq(chunks)
      V(k, c) == Value(b, xs[k], c)
  IN SelectSeq([k \in DOMAIN ids |-> [id |-> ids[k], at |-> k]],
       LAMBDA e : e.at > 1 /\ \E i \in DOMAIN groupBy :
         V(e.at - 1, groupBy[i]) # Null /\ V(e.at, groupBy[i]) # V(e.at - 1, groupBy[i]))

\* The rows (chunk, offset) at which a group-by column has another value than before.
Boundaries(b, chunks, groupBy) ==
  LET ids == FlattenSeq([i \in DOMAIN chunks |-> [o \in DOMAIN chunks[i] |-> <<i, o>>]])
      xs == FlattenSeq(chunks)
  IN SelectSeq([k \in DOMAIN ids |-> [id |-> ids[k], at |-> k]],
       LAMBDA e : e.at > 1 /\ GroupOf(b, xs[e.at], groupBy) # GroupOf(b, xs[e.at - 1], groupBy))

\* COUNT(*) is the distance from the first row of a group to the first row of the
\* next one, one too many when that lies in a later chunk.
Distance(chunks, from, to) ==
  IF from[1] = to[1] THEN to[2] - from[2]
  ELSE (Len(chunks[from[1]]) - (from[2] - 1))
       + SumOf([i \in 1..to[1] - from[1] - 1 |-> Len(chunks[from[1] + i])])
       + (to[2] - 1) + 1

AggregateSort(b, view, groupBy, fn) ==
  LET chunks == SortedChunks(b, view, groupBy)
      xs == FlattenSeq(chunks)
      boundaries == Boundaries(b, chunks, groupBy)
      starts == <<[id |-> <<1, 1>>, at |-> 1]>> \o boundaries
      End(g) == IF g = Len(starts) THEN Len(xs) ELSE starts[g + 1].at - 1
      Count(g) == IF g = Len(starts) THEN Len(xs) - starts[g].at + 1
                  ELSE Distance(chunks, starts[g].id, starts[g + 1].id)
  IN IF xs = <<>> THEN (IF groupBy = <<>> THEN <<<<<<>>, Written(fn, <<>>, 0)>>>> ELSE <<>>)
     ELSE [g \in DOMAIN starts |->
             <<GroupOf(b, xs[starts[g].at], groupBy),
               IF fn = "COUNT(*)" THEN Count(g) ELSE Aggregated(b, fn, SubSeq(xs, starts[g].at, End(g)))>>]
=============================================================================
