---------------------------- MODULE SortsAndUnions ----------------------------
(* The operators Sort, Limit, UnionAll, UnionPositions and Difference on   *)
(* the tables of module Scans.                                             *)
EXTENDS Scans

\* std::stable_sort.
StableSort(xs, Less(_, _)) ==
  LET order == SortSeq([i \in DOMAIN xs |-> i],
                 LAMBDA i, k : Less(xs[i], xs[k]) \/ (~Less(xs[k], xs[i]) /\ i < k))
  IN [i \in DOMAIN xs |-> xs[order[i]]]

Cut(xs, size, sorted) ==
  [i \in 1..(Len(xs) + size - 1) \div size |->
     [pos |-> SubSeq(xs, (i - 1) * size + 1, Min({i * size, Len(xs)})), single |-> FALSE, sorted |-> sorted]]

-----------------------------------------------------------------------------
(* Sort: a definition is a column and a mode.                              *)

\* SortImpl: the NULLs of the column first, the others in a stable order.
SortBy(b, xs, def) ==
  SelectSeq(xs, LAMBDA x : Value(b, x, def[1]) = Null)
  \o StableSort(SelectSeq(xs, LAMBDA x : Value(b, x, def[1]) # Null),
       LAMBDA x, y : IF def[2] = "asc" THEN Value(b, x, def[1]) < Value(b, y, def[1])
                     ELSE Value(b, x, def[1]) > Value(b, y, def[1]))

\* A mutant: the passes run in the order of the definitions.
PassesInOrder(b, xs, defs) == FoldLeft(LAMBDA ys, def : SortBy(b, ys, def), xs, defs)

\* One pass for each definition; the least significant one comes first.
Passes(b, xs, defs) == FoldRight(LAMBDA def, ys : SortBy(b, ys, def), defs, xs)

Sort(b, view, defs) ==
  LET xs == Positions(view)
  IN IF xs = <<>> THEN view
     ELSE Reference(Cut(Passes(b, xs, defs), OutputChunkSize, defs[1]))

-----------------------------------------------------------------------------
(* Limit.                                                                  *)

\* A mutant: every chunk is cut to the limit on its own.
RowsBeforeNone(view, i) == 0

\* Rows of the chunks before chunk i.
RowsBefore(view, i) == Len(FlattenSeq([k \in 1..i - 1 |-> view.chunks[k].pos]))

Limit(view, n) ==
  LET kept == SelectSeq([i \in DOMAIN view.chunks |-> i], LAMBDA i : RowsBefore(view, i) < n)
      Rest(i) == Min({Len(view.chunks[i].pos), n - RowsBefore(view, i)})
  IN Reference([k \in DOMAIN kept |->
       [view.chunks[kept[k]] EXCEPT !.pos = SubSeq(@, 1, Rest(kept[k])), !.single = FALSE]])

-----------------------------------------------------------------------------
(* Set operations.                                                         *)

UnionAll(l, r) ==
  Reference([i \in DOMAIN (l.chunks \o r.chunks) |-> [(l.chunks \o r.chunks)[i] EXCEPT !.sorted = NotSorted]])

RowIdLess(x, y) ==
  CASE x = NoRow -> FALSE
    [] x # NoRow /\ y = NoRow -> TRUE
    [] x # NoRow /\ y # NoRow -> x[1] < y[1] \/ (x[1] = y[1] /\ x[2] < y[2])

\* A mutant: equal positions are both taken.
MergeBoth(xs, ys) == xs \o ys

\* std::set_union of two sorted sequences of positions.
MergeUnion(xs, ys) ==
  LET merge[i \in 1..Len(xs) + 1, k \in 1..Len(ys) + 1] ==
        CASE i > Len(xs) -> SubSeq(ys, k, Len(ys))
          [] i <= Len(xs) /\ k > Len(ys) -> SubSeq(xs, i, Len(xs))
          [] i <= Len(xs) /\ k <= Len(ys) ->
               IF RowIdLess(ys[k], xs[i]) THEN <<ys[k]>> \o merge[i, k + 1]
               ELSE <<xs[i]>> \o merge[i + 1, IF RowIdLess(xs[i], ys[k]) THEN k ELSE k + 1]
  IN merge[1, 1]

UnionPositions(l, r) ==
  LET Sorted(view) == StableSort(Positions(view), RowIdLess)
  IN IF Positions(l) = <<>> THEN r
     ELSE IF Positions(r) = <<>> THEN l
     ELSE Reference(Cut(MergeUnion(Sorted(l), Sorted(r)), OutputChunkSize, NotSorted))

\* The rows of l whose values no row of r has; a NULL is a value here.
Content(b, x) == <<Value(b, x, "key"), Value(b, x, "extra")>>

Difference(b, l, r) ==
  LET right == {Content(b, x) : x \in ToSet(Positions(r))}
      Kept(i) == SelectSeq(l.chunks[i].pos, LAMBDA x : Content(b, x) \notin right)
      kept == SelectSeq([i \in DOMAIN l.chunks |-> i], LAMBDA i : Kept(i) # <<>>)
  IN Reference([k \in DOMAIN kept |->
       [l.chunks[kept[k]] EXCEPT !.pos = Kept(kept[k]), !.single = FALSE]])
=============================================================================
