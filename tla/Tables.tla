-------------------------------- MODULE Tables --------------------------------
(* Tables, predicates and indexes as the operators see them.  A table is a *)
(* sequence of chunks, a chunk a sequence of rows with a key column and an *)
(* extra one; a row id is a chunk and an offset.                           *)
EXTENDS Integers, Sequences, FiniteSets, FiniteSetsExt, SequencesExt

CONSTANT Null  \* the NULL value

TableRow == [key : {Null} \cup Int, extra : {Null} \cup Int]
NoRow == <<0, 0>>                                     \* NULL_ROW_ID
ChunkRows(t, c) == [o \in DOMAIN t[c] |-> <<c, o>>]
Rows(t)   == FlattenSeq([c \in DOMAIN t |-> ChunkRows(t, c)])
Key(t, x) == t[x[1]][x[2]].key
Extra(t, x) == t[x[1]][x[2]].extra
RowCount(t) == Len(Rows(t))

Conditions == {"=", "#", "<", "<=", ">", ">="}

Holds(cond, x, y) ==
  CASE cond = "="  -> x = y
    [] cond = "#"  -> x # y
    [] cond = "<"  -> x < y
    [] cond = "<=" -> x <= y
    [] cond = ">"  -> x > y
    [] cond = ">=" -> x >= y

Flip(cond) ==
  CASE cond = "<" -> ">" [] cond = "<=" -> ">=" [] cond = ">" -> "<" [] cond = ">=" -> "<="
    [] OTHER -> cond

\* The members of xs in S, and those that pass a test, in the order of xs.
Within(xs, S) == FlattenSeq([i \in DOMAIN xs |-> IF xs[i] \in S THEN <<xs[i]>> ELSE <<>>])
Filter(xs, Test(_)) == Within(xs, {x \in ToSet(xs) : Test(x)})

NotNull(t, xs) == Within(xs, {x \in ToSet(xs) : Key(t, x) # Null})

\* In the order of their keys, rows with the same key as they were.
Ahead(t, xs, i, k) == Key(t, xs[i]) < Key(t, xs[k]) \/ (Key(t, xs[i]) = Key(t, xs[k]) /\ i < k)
Rank(t, xs, k) == Cardinality({i \in DOMAIN xs : Ahead(t, xs, i, k)}) + 1
SortRows(t, xs) == [n \in DOMAIN xs |-> xs[CHOOSE k \in DOMAIN xs : Rank(t, xs, k) = n]]

\* An index of a chunk: its rows in the order of their values; the NULLs apart.
IndexOf(t, c) == SortRows(t, NotNull(t, ChunkRows(t, c)))
LowerBound(t, xs, v) == Cardinality({i \in DOMAIN xs : Key(t, xs[i]) < v})
UpperBound(t, xs, v) == Cardinality({i \in DOMAIN xs : Key(t, xs[i]) <= v})
=============================================================================
