-------------------------------- MODULE Joins --------------------------------
(* The join operators of the query engine: nested loop, hash, sort-merge   *)
(* and index join, and the verification join the code base compares them   *)
(* with.  The secondary predicate compares the extra columns.  Jobs run    *)
(* where they are scheduled, as under the ImmediateExecutionScheduler the  *)
(* engine starts with.                                                     *)
EXTENDS Tables

CONSTANT BloomSize  \* slots of a bloom filter: 2^20 in the code

BloomAssumption == BloomSize \in Nat \ {0}
ASSUME BloomAssumption

Modes == {"Inner", "Left", "Right", "FullOuter", "Semi", "AntiNullAsTrue", "AntiNullAsFalse"}

\* A join: its mode, primary predicate, and whether a secondary predicate (=) is there.
Join == [mode : Modes, cond : Conditions, sec : BOOLEAN]

SemiOrAnti(j) == j.mode \in {"Semi", "AntiNullAsTrue", "AntiNullAsFalse"}
Anti(j)       == j.mode \in {"AntiNullAsTrue", "AntiNullAsFalse"}

Product(xs, ys) == FlattenSeq([i \in DOMAIN xs |-> [k \in DOMAIN ys |-> <<xs[i], ys[k]>>]])
WithNull(xs) == Product(xs, <<NoRow>>)
NullWith(ys) == Product(<<NoRow>>, ys)
Swapped(ps)  == [i \in DOMAIN ps |-> <<ps[i][2], ps[i][1]>>]
Lefts(ps)  == {p[1] : p \in ToSet(ps)}
Rights(ps) == {p[2] : p \in ToSet(ps)}
Without(xs, S) == Filter(xs, LAMBDA x : x \notin S)

-----------------------------------------------------------------------------
(* Predicates.                                                             *)

\* A comparison with NULL is true for AntiNullAsTrue and false for the others.
Satisfies(mode, cond, x, y) ==
  IF x = Null \/ y = Null THEN mode = "AntiNullAsTrue" ELSE Holds(cond, x, y)

SatisfiesSecondary(j, l, r, x, y) == j.sec => Satisfies(j.mode, "=", Extra(l, x), Extra(r, y))

Match(j, l, r, x, y) ==
  Satisfies(j.mode, j.cond, Key(l, x), Key(r, y)) /\ SatisfiesSecondary(j, l, r, x, y)

-----------------------------------------------------------------------------
(* What a join is to return: the verification join.  Semi and anti joins   *)
(* return left rows only.                                                  *)

Verified(j, l, r) ==
  LET ls == ToSet(Rows(l))
      rs == ToSet(Rows(r))
      pairs == {p \in ls \X rs : Match(j, l, r, p[1], p[2])}
      loneLeft  == {x \in ls : \A y \in rs : <<x, y>> \notin pairs} \X {NoRow}
      loneRight == {NoRow} \X {y \in rs : \A x \in ls : <<x, y>> \notin pairs}
  IN CASE j.mode = "Inner" -> pairs
       [] j.mode = "Left"  -> pairs \cup loneLeft
       [] j.mode = "Right" -> pairs \cup loneRight
       [] j.mode = "FullOuter" -> pairs \cup loneLeft \cup loneRight
       [] j.mode = "Semi" -> (ls \X {NoRow}) \ loneLeft
       [] Anti(j) -> loneLeft

-----------------------------------------------------------------------------
(* Nested loop join: for a right join the tables change sides.             *)

\* A mutant: the condition stays as it is when the tables change sides.
MirroredTablesOnly(j) == j

\* The join seen from its right table.
Mirrored(j) == [j EXCEPT !.cond = Flip(j.cond)]

\* The loop over l, and over r for each of its rows; the rows of l are the outer ones.
LoopOver(j, l, r) ==
  LET pairs == Filter(Product(Rows(l), Rows(r)), LAMBDA p : Match(j, l, r, p[1], p[2]))
      outer == pairs \o WithNull(Without(Rows(l), Lefts(pairs)))
  IN CASE j.mode = "Inner" -> pairs
       [] j.mode \in {"Left", "Right"} -> outer
       [] j.mode = "FullOuter" -> outer \o NullWith(Without(Rows(r), Rights(pairs)))
       [] j.mode = "Semi"  -> WithNull(Within(Rows(l), Lefts(pairs)))
       [] Anti(j)          -> WithNull(Without(Rows(l), Lefts(pairs)))

NestedLoopJoin(j, left, right) ==
  IF j.mode = "Right" THEN Swapped(LoopOver(Mirrored(j), right, left)) ELSE LoopOver(j, left, right)

-----------------------------------------------------------------------------
(* Hash join.                                                              *)

\* A NULL is materialized as the value its type starts with.
Hashed(t, x) == IF Key(t, x) = Null THEN 0 ELSE Key(t, x)
Slot(v) == v % BloomSize
AllTrue == 0..BloomSize - 1
FilterOf(t, parts) == {Slot(Hashed(t, x)) : x \in ToSet(FlattenSeq(parts))}

Materialize(t, keepNulls, filter) ==
  [c \in DOMAIN t |->
     Filter(ChunkRows(t, c), LAMBDA x : keepNulls \/ (Key(t, x) # Null /\ Slot(Key(t, x)) \in filter))]

PartitionByRadix(t, parts, bits) ==
  IF bits = 0 \/ parts = <<>> THEN parts
  ELSE [p \in 1..2^bits |-> Filter(FlattenSeq(parts), LAMBDA x : Hashed(t, x) % 2^bits = p - 1)]

\* A table of the values that pass a filter.  With a single position per value it says
\* no more than that the value is there.
HashTable(t, xs, single, filter) ==
  [v \in {Hashed(t, x) : x \in {y \in ToSet(xs) : Slot(Hashed(t, y)) \in filter}} |->
     IF single THEN <<>> ELSE Filter(xs, LAMBDA x : Hashed(t, x) = v)]

\* One table for all partitions, or one for each that is not empty: a table that may be
\* missing is a sequence of at most one.
Build(t, parts, bits, single, filter) ==
  IF parts = <<>> THEN <<>>
  ELSE IF bits = 0 THEN <<<<HashTable(t, FlattenSeq(parts), single, filter)>>>>
  ELSE [p \in DOMAIN parts |-> IF parts[p] = <<>> THEN <<>> ELSE <<HashTable(t, parts[p], single, filter)>>]

TableFor(tables, p) == IF tables = <<>> THEN <<>> ELSE tables[IF Len(tables) > 1 THEN p ELSE 1]

\* A mutant: a NULL, materialized as 0, finds the zeros.
FoundForNulls(j, build, probe, table, x) ==
  IF table = <<>> \/ Hashed(probe, x) \notin DOMAIN table[1] THEN <<>>
  ELSE Filter(table[1][Hashed(probe, x)], LAMBDA y : SatisfiesSecondary(j, build, probe, y, x))

Found(j, build, probe, table, x) ==
  IF table = <<>> \/ Key(probe, x) = Null \/ Hashed(probe, x) \notin DOMAIN table[1] THEN <<>>
  ELSE Filter(table[1][Hashed(probe, x)], LAMBDA y : SatisfiesSecondary(j, build, probe, y, x))

\* The rows with a NULL key that the sides keep.
KeepsBuildNulls(j) == j.mode = "AntiNullAsTrue"
KeepsProbeNulls(j) == j.mode \in {"Left", "Right", "AntiNullAsTrue", "AntiNullAsFalse"}

\* (build row, probe row) for a probed row of an inner or outer join.
Probe(j, build, probe, table, x) ==
  LET found == Found(j, build, probe, table, x)
  IN IF found = <<>> /\ KeepsProbeNulls(j) THEN <<<<NoRow, x>>>> ELSE Product(found, <<x>>)

\* Does a semi or anti join return the probed row?
ProbeSemiAnti(j, build, probe, table, x) ==
  LET isNull == Key(probe, x) = Null
      any == IF j.sec THEN Found(j, build, probe, table, x) # <<>>
             ELSE Hashed(probe, x) \in DOMAIN table[1]
  IN IF table = <<>>
     THEN Anti(j) /\ (j.mode = "AntiNullAsTrue" /\ isNull => RowCount(build) = 0)
     ELSE CASE j.mode = "Semi"            -> any
            [] j.mode = "AntiNullAsFalse" -> isNull \/ ~any
            [] j.mode = "AntiNullAsTrue"  -> ~isNull /\ ~any

\* The larger side of an inner join, and the outer side of the others, is probed.
BuildsRight(j, left, right) ==
  j.mode = "Left" \/ SemiOrAnti(j) \/ (j.mode = "Inner" /\ RowCount(left) > RowCount(right))

SupportsHash(j) ==
  j.cond = "=" /\ j.mode # "FullOuter" /\ (j.mode # "AntiNullAsTrue" \/ ~j.sec)

\* Both sides materialized, the smaller one first: its filter thins out the other.
Materialized(j, build, probe) ==
  LET buildFirst == RowCount(build) < RowCount(probe)
      buildAll == Materialize(build, KeepsBuildNulls(j), AllTrue)
      probeMat == Materialize(probe, KeepsProbeNulls(j), IF buildFirst THEN FilterOf(build, buildAll) ELSE AllTrue)
      buildMat == IF buildFirst THEN buildAll ELSE Materialize(build, KeepsBuildNulls(j), FilterOf(probe, probeMat))
  IN [build |-> buildMat, probe |-> probeMat]

\* What the join returns for a probed row.
ProbeRow(j, build, probe, table, x) ==
  IF ~SemiOrAnti(j) THEN Probe(j, build, probe, table, x)
  ELSE IF ProbeSemiAnti(j, build, probe, table, x) THEN <<<<x, NoRow>>>> ELSE <<>>

ProbeAll(j, build, probe, tables, parts) ==
  FlattenSeq([p \in DOMAIN parts |->
    FlattenSeq([i \in DOMAIN parts[p] |-> ProbeRow(j, build, probe, TableFor(tables, p), parts[p][i])])])

HashJoin(j, left, right, bits) ==
  LET onRight == BuildsRight(j, left, right)
      build == IF onRight THEN right ELSE left
      probe == IF onRight THEN left ELSE right
      mat == Materialized(j, build, probe)
      buildParts == PartitionByRadix(build, mat.build, bits)
      probeParts == PartitionByRadix(probe, mat.probe, bits)
      tables == Build(build, buildParts, bits, SemiOrAnti(j) /\ ~j.sec, FilterOf(probe, mat.probe))
      rows == ProbeAll(j, build, probe, tables, probeParts)
  IN IF j.mode = "AntiNullAsTrue" /\ \E x \in ToSet(FlattenSeq(buildParts)) : Key(build, x) = Null
     THEN <<>>
     ELSE IF onRight /\ ~SemiOrAnti(j) THEN Swapped(rows) ELSE rows

-----------------------------------------------------------------------------
(* Sort-merge join.  A sorted table is the sequence of its clusters' rows; *)
(* a table range is an interval of it.                                     *)

SupportsSortMerge(j) == ~SemiOrAnti(j) /\ (j.cond # "#" \/ j.mode = "Inner")

ClusterCount(l, r) ==
  LET n == Max({1, Len(l), Len(r)})
  IN CHOOSE k \in {2^i : i \in 0..n} : k <= n /\ n < 2 * k

NullRows(t) == Filter(Rows(t), LAMBDA x : Key(t, x) = Null)

\* Ten equidistant values of a chunk, or as many as it has rows.
Samples(t, c) ==
  LET xs == SortRows(t, NotNull(t, ChunkRows(t, c)))
      n == Min({10, Len(t[c])})
  IN IF xs = <<>> THEN <<>> ELSE [i \in 1..n |-> Key(t, xs[(i - 1) * (Len(xs) \div n) + 1])]

\* Upper bounds of all clusters but the last, in ascending order.
PickSplitValues(samples, clusters) ==
  LET sorted == SortSeq(samples, LAMBDA x, y : x < y)
      width == Len(sorted) \div clusters
  IN IF Len(sorted) <= clusters - 1 THEN ToSet(sorted)
     ELSE {sorted[i * width + 1] : i \in 1..clusters - 1}

\* Radix clusters for an equi-join, ranges of values for the others.
ClusterOf(j, k, splits, v) ==
  IF k = 1 THEN 1
  ELSE IF j.cond = "=" THEN (v % k) + 1 ELSE Cardinality({s \in splits : s < v}) + 1

Clusters(j, l, r, t) ==
  LET k == ClusterCount(l, r)
      samples == [c \in DOMAIN l |-> Samples(l, c)] \o [c \in DOMAIN r |-> Samples(r, c)]
      splits == PickSplitValues(FlattenSeq(samples), k)
      xs == NotNull(t, Rows(t))
  IN [c \in 1..k |-> SortRows(t, Filter(xs, LAMBDA x : ClusterOf(j, k, splits, Key(t, x)) = c))]

Before(clusters, c) == Len(FlattenSeq(SubSeq(clusters, 1, c - 1)))

\* A mutant: a run is a single row.
RunEndOfOne(t, sorted, i, end) == i + 1

RunEnd(t, sorted, i, end) == Max({k \in i..end - 1 : Key(t, sorted[k]) = Key(t, sorted[i])}) + 1

\* The pairs of runs that the merge phase meets in a cluster: how the left run
\* compares to the right one, and where each starts and ends (exclusively).
Runs(l, r, ls, rs, leftEnd, rightEnd, leftStart, rightStart) ==
  LET run[i \in leftStart..leftEnd, k \in rightStart..rightEnd] ==
        IF i < leftEnd /\ k < rightEnd
        THEN LET ie == RunEnd(l, ls, i, leftEnd)
                 ke == RunEnd(r, rs, k, rightEnd)
                 x == Key(l, ls[i])
                 y == Key(r, rs[k])
             IN IF x = y THEN <<<<"=", i, ie, k, ke>>>> \o run[ie, ke]
                ELSE IF x < y THEN <<<<"<", i, ie, k, ke>>>> \o run[ie, k]
                ELSE <<<<">", i, ie, k, ke>>>> \o run[i, ke]
        ELSE IF i < leftEnd THEN <<<<"<", i, leftEnd, k, k>>>>
        ELSE IF k < rightEnd THEN <<<<">", i, i, k, rightEnd>>>>
        ELSE <<>>
  IN run[leftStart, rightStart]

\* _join_runs: the ranges whose combinations satisfy the primary predicate.
JoinRuns(j, ls, rs, run) ==
  LET cmp == run[1]
      Left(a, b) == SubSeq(ls, a, b - 1)
      Right(a, b) == SubSeq(rs, a, b - 1)
      leftRun == Left(run[2], run[3])
      rightRun == Right(run[4], run[5])
      leftFrom(a) == <<Left(a, Len(ls) + 1), rightRun>>
      rightFrom(a) == <<leftRun, Right(a, Len(rs) + 1)>>
  IN CASE j.cond = "=" -> IF cmp = "=" THEN <<<<leftRun, rightRun>>>> ELSE <<>>
       [] j.cond = "#" -> IF cmp = ">" THEN <<leftFrom(run[2])>>
                          ELSE IF cmp = "<" THEN <<rightFrom(run[4])>>
                          ELSE <<leftFrom(run[3]), rightFrom(run[5])>>
       [] j.cond = ">"  -> IF cmp = ">" THEN <<leftFrom(run[2])>> ELSE IF cmp = "=" THEN <<leftFrom(run[3])>> ELSE <<>>
       [] j.cond = ">=" -> IF cmp # "<" THEN <<leftFrom(run[2])>> ELSE <<>>
       [] j.cond = "<"  -> IF cmp = "<" THEN <<rightFrom(run[4])>> ELSE IF cmp = "=" THEN <<rightFrom(run[5])>> ELSE <<>>
       [] j.cond = "<=" -> IF cmp # ">" THEN <<rightFrom(run[4])>> ELSE <<>>

KeepsLeft(j)  == j.mode \in {"Left", "FullOuter"}
KeepsRight(j) == j.mode \in {"Right", "FullOuter"}

Qualified(j, l, r, range) ==
  Filter(Product(range[1], range[2]), LAMBDA p : SatisfiesSecondary(j, l, r, p[1], p[2]))

\* The rows of two runs of an equi-join that an outer join keeps without a partner.
LoneOfRuns(j, l, r, ls, rs, run) ==
  LET leftRun == SubSeq(ls, run[2], run[3] - 1)
      rightRun == SubSeq(rs, run[4], run[5] - 1)
      pairs == IF run[1] = "=" THEN Qualified(j, l, r, <<leftRun, rightRun>>) ELSE <<>>
  IN (IF KeepsLeft(j) /\ run[1] # ">" THEN WithNull(Without(leftRun, Lefts(pairs))) ELSE <<>>)
     \o (IF KeepsRight(j) /\ run[1] # "<" THEN NullWith(Without(rightRun, Rights(pairs))) ELSE <<>>)

\* A mutant: the rows inside count as well.
UnmatchedOrInside(xs, inside) == IF inside # {} THEN xs ELSE <<>>

\* Rows of a sorted table outside the part that may have partners; nothing when no
\* row is inside that part.
Unmatched(xs, inside) == IF inside # {} THEN Without(xs, inside) ELSE <<>>

\* The rows of t that a non-equi outer join keeps without a partner; cond as seen from
\* t, other the sorted other table.  noted: the rows of t compared under the secondary
\* predicate; emitted: those it let through.
LoneOfTable(t, xs, cond, otherTable, other, noted, emitted) ==
  LET keys == {Key(otherTable, y) : y \in ToSet(other)}
      inside == {x \in ToSet(xs) : Holds(cond, Key(t, x), IF cond \in {"<", "<="} THEN Max(keys) ELSE Min(keys))}
      unmatched == Unmatched(xs, inside)
  IN IF RowCount(otherTable) = 0 THEN xs
     ELSE unmatched \o Within(xs, noted \ (emitted \cup ToSet(unmatched)))

\* A non-equi outer join looks for the least and the greatest value of the other
\* table, and fails when that has rows but no value.
SortMergeJoinFails(j, l, r) ==
  /\ j.cond # "="
  /\ \/ KeepsLeft(j)  /\ RowCount(r) > 0 /\ NotNull(r, Rows(r)) = <<>>
     \/ KeepsRight(j) /\ RowCount(l) > 0 /\ NotNull(l, Rows(l)) = <<>>

\* The runs that meet in each cluster.
AllRuns(l, r, lc, rc, ls, rs) ==
  FlattenSeq([c \in DOMAIN lc |->
    Runs(l, r, ls, rs, Before(lc, c + 1) + 1, Before(rc, c + 1) + 1, Before(lc, c) + 1, Before(rc, c) + 1)])

\* The rows that an outer join keeps without a partner, but for NULLs.
LoneOf(j, l, r, ls, rs, runs, ranges, pairs) ==
  LET noted == IF ~j.sec THEN [left |-> {}, right |-> {}]
               ELSE [left  |-> UNION {ToSet(g[1]) : g \in ToSet(ranges)},
                     right |-> UNION {ToSet(g[2]) : g \in {h \in ToSet(ranges) : j.mode = "FullOuter" => h[1] # <<>>}}]
  IN IF j.cond = "=" THEN FlattenSeq([i \in DOMAIN runs |-> LoneOfRuns(j, l, r, ls, rs, runs[i])])
     ELSE (IF KeepsLeft(j) THEN WithNull(LoneOfTable(l, ls, j.cond, r, rs, noted.left, Lefts(pairs))) ELSE <<>>)
          \o (IF KeepsRight(j) THEN NullWith(LoneOfTable(r, rs, Flip(j.cond), l, ls, noted.right, Rights(pairs)))
              ELSE <<>>)

MergeRuns(j, l, r, ls, rs, runs, ranges) ==
  LET pairs == FlattenSeq([i \in DOMAIN ranges |-> Qualified(j, l, r, ranges[i])])
  IN pairs \o LoneOf(j, l, r, ls, rs, runs, ranges, pairs)
     \o (IF KeepsLeft(j) THEN WithNull(NullRows(l)) ELSE <<>>)
     \o (IF KeepsRight(j) THEN NullWith(NullRows(r)) ELSE <<>>)

SortMergeJoin(j, l, r) ==
  LET lc == Clusters(j, l, r, l)
      rc == Clusters(j, l, r, r)
      ls == FlattenSeq(lc)
      rs == FlattenSeq(rc)
      runs == AllRuns(l, r, lc, rc, ls, rs)
  IN MergeRuns(j, l, r, ls, rs, runs, FlattenSeq([i \in DOMAIN runs |-> JoinRuns(j, ls, rs, runs[i])]))

-----------------------------------------------------------------------------
(* Index join: the chunks of one side that have an index on the join       *)
(* column are probed through it, the others joined by a nested loop.       *)

\* A mutant: the values equal to the probed one are left out on both sides.
IndexRangeExclusive(j, cond, t, c, v) ==
  LET xs == IndexOf(t, c)
  IN IF v = Null THEN <<>>
     ELSE CASE cond \in {">", ">="} -> SubSeq(xs, 1, LowerBound(t, xs, v))
            [] cond \in {"<", "<="} -> SubSeq(xs, UpperBound(t, xs, v) + 1, Len(xs))
            [] cond \in {"=", "#"} -> SubSeq(xs, LowerBound(t, xs, v) + 1, UpperBound(t, xs, v))

\* The indexed rows that match a probed value; cond as seen from the probed side.
IndexRange(j, cond, t, c, v) ==
  LET xs == IndexOf(t, c)
      nulls == Filter(ChunkRows(t, c), LAMBDA x : Key(t, x) = Null)
      lower == LowerBound(t, xs, v)
      upper == UpperBound(t, xs, v)
      To(n) == SubSeq(xs, 1, n)
      From(n) == SubSeq(xs, n + 1, Len(xs))
  IN IF j.mode = "AntiNullAsTrue" /\ (v = Null \/ nulls # <<>>) THEN xs \o nulls
     ELSE IF v = Null THEN <<>>
     ELSE CASE cond = "="  -> SubSeq(xs, lower + 1, upper)
            [] cond = "#"  -> To(lower) \o From(upper)
            [] cond = ">"  -> To(lower)
            [] cond = ">=" -> To(upper)
            [] cond = "<"  -> From(upper)
            [] cond = "<=" -> From(lower)

\* The rows of a chunk that match a probed value.
MatchesIn(j, cond, index, indexed, c, v) ==
  IF c \in indexed THEN IndexRange(j, cond, index, c, v)
  ELSE Filter(ChunkRows(index, c), LAMBDA y : Satisfies(j.mode, cond, v, Key(index, y)))

\* (probe row, index row): the chunks for each probed row.
IndexPairs(j, cond, index, probe, indexed) ==
  FlattenSeq([i \in DOMAIN Rows(probe) |->
    Product(<<Rows(probe)[i]>>,
            FlattenSeq([c \in DOMAIN index |-> MatchesIn(j, cond, index, indexed, c, Key(probe, Rows(probe)[i]))]))])

IndexJoin(j, left, right, side, indexed) ==
  LET pairs == IF side = "left" THEN Swapped(IndexPairs(j, Flip(j.cond), left, right, indexed))
               ELSE IndexPairs(j, j.cond, right, left, indexed)
      loneLeft == Without(Rows(left), Lefts(pairs))
  IN IF SemiOrAnti(j) THEN WithNull(IF Anti(j) THEN loneLeft ELSE Within(Rows(left), Lefts(pairs)))
     ELSE pairs \o (IF KeepsLeft(j) THEN WithNull(loneLeft) ELSE <<>>)
          \o (IF KeepsRight(j) THEN NullWith(Without(Rows(right), Rights(pairs))) ELSE <<>>)
=============================================================================
