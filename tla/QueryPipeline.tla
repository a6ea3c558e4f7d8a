---------------------------- MODULE QueryPipeline ----------------------------
(* A query as a chain of operators over one base table: the output of each *)
(* is the input of the next one, a first branch may be held for a set      *)
(* operation with a second.  call is the last operator that has executed,  *)
(* input what it executed on.                                              *)
EXTENDS Aggregates

CONSTANTS BaseTables, Predicates, MaxSteps

VARIABLES base, view, held, input, call, steps

pipelineVars == <<base, view, held, input, call, steps>>

NoCall == [op |-> "none"]
NoView == Reference(<<>>)

\* What an outer join leaves of a base table: positions in several chunks, one of them
\* NULL, in an order of its own.
Joined(b) == Reference(Cut(Reverse(Rows(b.rows)) \o <<NoRow>>, Len(Rows(b.rows)) + 1, NotSorted))

PipelineInit ==
  /\ base \in BaseTables
  /\ view \in {DataView(base)} \cup (IF base.nullable THEN {Joined(base)} ELSE {})
  /\ held = NoView
  /\ input = NoView
  /\ call = NoCall
  /\ steps = 0

NoPipeline ==
  base = (CHOOSE b \in BaseTables : TRUE) /\ view = NoView /\ held = NoView /\ input = NoView /\ call = NoCall /\ steps = MaxSteps

Run(c, output, count) ==
  /\ steps' = count
  /\ input' = view
  /\ view' = output
  /\ call' = c
  /\ UNCHANGED base

Execute(c, output) == Run(c, output, steps + 1)

ScanTable ==
  /\ \E p \in Predicates : Execute([op |-> "TableScan", pred |-> p], TableScan(base, view, p, {}))
  /\ UNCHANGED held

\* The planner gives the chunks that have an index to an IndexScan and the others to a
\* TableScan.
ScanIndex ==
  /\ view = DataView(base) /\ base.indexed # {}
  /\ \E p \in {q \in Predicates : q.kind \in {"value", "between"}} :
       LET fails == IndexScanFails(base, base.indexed, p)
       IN Execute([op |-> "IndexScan", pred |-> p, fails |-> fails],
            IF fails THEN NoView
            ELSE UnionAll(IndexScan(base, base.indexed, p), TableScan(base, view, p, base.indexed)))
  /\ UNCHANGED held

SortTable ==
  /\ \E col \in {"key", "extra"}, mode \in {"asc", "desc"} :
       \E defs \in {<<<<col, mode>>>>, <<<<col, mode>>, <<IF col = "key" THEN "extra" ELSE "key", "asc">>>>} :
         Execute([op |-> "Sort", defs |-> defs], Sort(base, view, defs))
  /\ UNCHANGED held

LimitTable ==
  /\ \E n \in 0..OutputChunkSize + 1 : Execute([op |-> "Limit", n |-> n], Limit(view, n))
  /\ UNCHANGED held

\* Begin the second branch.
Hold ==
  /\ held = NoView /\ view.type = "References"
  /\ held' = view
  /\ Execute([op |-> "Hold"], DataView(base))

SetOperation(op, output) ==
  /\ held # NoView /\ view.type = "References"
  /\ Execute([op |-> op, other |-> held], output)
  /\ held' = NoView

UniteAll == SetOperation("UnionAll", UnionAll(held, view))
UnitePositions == SetOperation("UnionPositions", UnionPositions(held, view))
Subtract == SetOperation("Difference", Difference(base, held, view))

\* The result of an aggregation is a data table; the chain ends with it.  rows has the
\* result for each aggregate function; the operator computes several at once.
Aggregate ==
  /\ \E groupBy \in {<<>>, <<"key">>, <<"extra">>, <<"extra", "key">>}, op \in {"AggregateHash", "AggregateSort"} :
       Run([op |-> op, groupBy |-> groupBy,
            rows |-> [fn \in Functions |->
                        IF op = "AggregateHash" THEN AggregateHash(base, view, groupBy, fn)
                        ELSE AggregateSort(base, view, groupBy, fn)]],
           view, MaxSteps)
  /\ UNCHANGED held

PipelineNext ==
  /\ steps < MaxSteps
  /\ \/ ScanTable \/ ScanIndex \/ SortTable \/ LimitTable \/ Hold
     \/ UniteAll \/ UnitePositions \/ Subtract \/ Aggregate

-----------------------------------------------------------------------------
(* Properties: what an operator returns, given what it executed on.        *)

Times(x, xs) == Cardinality({i \in DOMAIN xs : xs[i] = x})
SameRows(xs, ys) == \A x \in ToSet(xs) \cup ToSet(ys) : Times(x, xs) = Times(x, ys)

Selected(p, xs) ==
  SelectSeq(xs, LAMBDA x : Satisfied(p, Value(base, x, "key"), Value(base, x, "extra")))

\* Does a value come before another in a column sorted in this mode?  NULLs come first.
Precedes(mode, v, w) ==
  w # Null /\ (v = Null \/ (IF mode = "asc" THEN v < w ELSE v > w))

\* All rows are compared by all definitions at once.
PrecedesBy(defs, x, y) ==
  \E d \in DOMAIN defs :
    /\ Precedes(defs[d][2], Value(base, x, defs[d][1]), Value(base, y, defs[d][1]))
    /\ \A e \in 1..d - 1 : Value(base, x, defs[e][1]) = Value(base, y, defs[e][1])

\* The output of every operator is a table over rows of the base table.
TypeOK ==
  /\ steps \in 0..MaxSteps
  /\ \A v \in {view, held, input} :
       /\ v.type \in {"Data", "References"}
       /\ \A i \in DOMAIN v.chunks :
            /\ ToSet(v.chunks[i].pos) \subseteq ToSet(Rows(base.rows)) \cup {NoRow}
            /\ v.type = "References" => v.chunks[i].pos # <<>>

\* A chunk that is marked as sorted is, and one that is said to refer to a single chunk
\* does, whatever chain of scans, sorts, limits and set operations it went through: the
\* sorted search and the fast path of the scans rely on both.
GuaranteesTruthful ==
  \A i \in DOMAIN view.chunks :
    LET chunk == view.chunks[i]
    IN /\ chunk.single => \A x, y \in ToSet(chunk.pos) : x[1] = y[1]
       /\ chunk.sorted # NotSorted =>
            \A k \in 1..Len(chunk.pos) - 1 :
              ~Precedes(chunk.sorted[2], Value(base, chunk.pos[k + 1], chunk.sorted[1]),
                                         Value(base, chunk.pos[k], chunk.sorted[1]))

\* A table scan returns the rows that satisfy the predicate, each as often as it got it,
\* whichever of its paths it takes: sorted, dictionary with its early outs, generic,
\* split by chunk.
ScanExact == call.op = "TableScan" => SameRows(Positions(view), Selected(call.pred, Positions(input)))

\* An index scan united with a table scan of the remaining chunks returns the rows that
\* satisfy the predicate, if its bounds do not cross.
IndexScanExact ==
  call.op = "IndexScan" /\ (call.pred.kind = "between" => call.pred.a < call.pred.z) =>
    ~call.fails /\ SameRows(Positions(view), Selected(call.pred, Positions(input)))

\* Sorting column by column, the least significant first, is sorting by all columns at
\* once, and rows that compare equal keep their order.
SortExact ==
  call.op = "Sort" =>
    Positions(view) = StableSort(Positions(input), LAMBDA x, y : PrecedesBy(call.defs, x, y))

\* A limit keeps the first rows, across chunks.
LimitExact ==
  call.op = "Limit" =>
    Positions(view) = SubSeq(Positions(input), 1, Min({call.n, Len(Positions(input))}))

\* UnionAll adds up how often a row comes, UnionPositions takes the larger of both (so
\* that it is the disjunction of two scans of one input), Difference keeps the rows of
\* the left side whose values the right side does not have.
SetOperationsExact ==
  LET l == Positions(call.other)
      r == Positions(input)
      out == Positions(view)
  IN /\ call.op = "UnionAll" => \A x \in ToSet(out \o l \o r) : Times(x, out) = Times(x, l) + Times(x, r)
     /\ call.op = "UnionPositions" =>
          \A x \in ToSet(out \o l \o r) : Times(x, out) = Max({Times(x, l), Times(x, r)})
     /\ call.op = "Difference" =>
          SameRows(out, SelectSeq(l, LAMBDA x :
            \A y \in ToSet(r) : \E col \in {"key", "extra"} : Value(base, x, col) # Value(base, y, col)))

GroupingExact(fn) == /\ ToSet(call.rows[fn]) = Grouping(base, input, call.groupBy, fn)
                     /\ Cardinality(ToSet(call.rows[fn])) = Len(call.rows[fn])

\* AggregateHash returns each group once, with the aggregate of its rows, NULL a group
\* of its own and no input without group-by columns a row.
AggregateHashExact == call.op = "AggregateHash" => \A fn \in Functions : GroupingExact(fn)

\* AggregateSort does, too, on clustered and unclustered tables and on chunks in any
\* order.  (COUNT( * ): AggregateSortCountExact.)
AggregateSortExact == call.op = "AggregateSort" => \A fn \in Functions \ {"COUNT(*)"} : GroupingExact(fn)

\* Violated: the count of a group is "the distance between the first and the last
\* corresponding row (+1) in the table" (AggregateSort::_aggregate_values, comment).
AggregateSortCountExact == call.op = "AggregateSort" => GroupingExact("COUNT(*)")
=============================================================================
