------------------------------- MODULE PlanRules -------------------------------
(* The rules of the optimizer that order joins, prune columns and chunks   *)
(* and reduce joins.  A rule that compares costs is a set of plans.        *)
EXTENDS LogicalPlans

CONSTANTS MaxRanges,     \* ranges of a range filter (DEFAULT_MAX_RANGES_COUNT)
          MaxReductions  \* semi join reductions of one plan

IsJoin(node) == node.op = "join"

-----------------------------------------------------------------------------
(* JoinOrderingRule.  A join graph has vertices, which are subplans, and   *)
(* edges: a predicate and the vertices it refers to.                       *)

IsOrdered(node) == IsJoin(node) /\ node.arg.mode \in {"inner", "cross"}

RECURSIVE Vertices(_, _), GraphPredicates(_, _)
Vertices(p, n) ==
  IF IsOrdered(p[n]) THEN Vertices(p, p[n].l) \o Vertices(p, p[n].r)
  ELSE IF p[n].op = "pred" THEN Vertices(p, p[n].l)
  ELSE <<n>>
GraphPredicates(p, n) ==
  IF IsOrdered(p[n]) THEN p[n].arg.preds \o GraphPredicates(p, p[n].l) \o GraphPredicates(p, p[n].r)
  ELSE IF p[n].op = "pred" THEN <<p[n].arg>> \o GraphPredicates(p, p[n].l)
  ELSE <<>>

Accessed(p, vs, e) == {v \in vs : ColumnsOf(e) \cap Columns(p, v) # {}}

\* The vertices that edges between two vertices connect to v.
RECURSIVE Component(_, _)
Component(S, edges) ==
  LET next == S \cup UNION {e \in edges : e \cap S # {}}
  IN IF next = S THEN S ELSE Component(next, edges)

\* One vertex of each component and the next are connected, whichever the sets hold first.
CrossEdges(vs, edges) ==
  LET components == {Component({v}, edges) : v \in vs}
      Representatives == {f \in [components -> vs] : \A c \in components : f[c] \in c}
  IN {{{f[order[i]], f[order[i + 1]]} : i \in 1..Len(order) - 1} :
        f \in Representatives, order \in SetToSeqs(components)}

\* All the plans that compute a join graph: <<plan, node>>.
RECURSIVE JoinPlans(_, _, _, _)
JoinPlans(p, vs, predicates, links) ==
  LET Of(i) == Accessed(p, UNION links, predicates[i])
      Orders(is) == SetToSeqs(is)
      AddPredicate(s, i) == <<Add(s[1], Node("pred", predicates[i], s[2], 0)), NewId(s[1])>>
      AddPredicates(s, order) == FoldLeft(AddPredicate, s, order)
      local == {i \in DOMAIN predicates : Of(i) = vs}
      Splits == {A \in SUBSET vs \ {{}, vs} :
                   \E e \in links : e \subseteq vs /\ e \cap A # {} /\ e \ A # {}}
      Between(A) == {i \in DOMAIN predicates :
                       Of(i) \subseteq vs /\ Of(i) \cap A # {} /\ Of(i) \ A # {}}
      IsOperatorPredicate(e, q, l, r) ==
        /\ e.op = "cmp" /\ e.x.op = "col" /\ e.y.op = "col"
        /\ \/ Evaluable(e.x, q, l) /\ Evaluable(e.y, q, r)
           \/ Evaluable(e.x, q, r) /\ Evaluable(e.y, q, l)
      \* the first predicate a join operator can evaluate goes into the join
      JoinOf(q, l, r, order) ==
        LET fits == SelectSeq(order, LAMBDA i : IsOperatorPredicate(predicates[i], q, l, r))
            join == IF fits = <<>> THEN JoinNode("cross", <<>>, l, r)
                    ELSE JoinNode("inner", <<predicates[fits[1]]>>, l, r)
            rest == IF fits = <<>> THEN order ELSE Remove(order, fits[1])
        IN AddPredicates(<<Add(q, join), NewId(q)>>, rest)
  IN IF Cardinality(vs) = 1
     THEN {AddPredicates(<<p, CHOOSE v \in vs : TRUE>>, order) : order \in Orders(local)}
     ELSE UNION {UNION {UNION {
            {JoinOf(right[1], left[2], right[2], order) : order \in Orders(Between(A))} :
              right \in JoinPlans(left[1], vs \ A, predicates, links)} :
              left \in JoinPlans(p, A, predicates, links)} : A \in Splits}

RECURSIVE Orderings(_, _)
Orderings(p, n) ==
  LET vertices == Vertices(p, n)
      vs == ToSet(vertices)
      predicates == GraphPredicates(p, n)
      edges == {e \in {Accessed(p, vs, predicates[i]) : i \in DOMAIN predicates} : Cardinality(e) = 2}
      tops == IF Len(vertices) = 1 THEN {<<p, n>>}
              ELSE UNION {JoinPlans(p, vs, predicates, edges \cup cross) : cross \in CrossEdges(vs, edges)}
      Below(S, input) ==
        UNION {{<<SetInput(t[1], input[1], input[2], t[2]), s[2]>> : t \in Orderings(s[1], p[input[1]][input[2]])} : s \in S}
      inputs == SelectSeq(FlattenSeq([i \in DOMAIN vertices |-> <<<<vertices[i], "l">>, <<vertices[i], "r">>>>]),
                          LAMBDA input : p[input[1]][input[2]] # 0)
  IN FoldLeft(Below, tops, inputs)

\* The columns have to be returned in the order they were in.
JoinOrdering(p) ==
  LET Fixed(s) ==
        IF OutputColumns(s[1], s[2]) = p[1].arg THEN SetInput(s[1], 1, "l", s[2])
        ELSE SetInput(Add(s[1], Node("proj", p[1].arg, s[2], 0)), 1, "l", NewId(s[1]))
  IN {Fixed(s) : s \in Orderings(p, p[1].l)}

-----------------------------------------------------------------------------
(* ColumnPruningRule.                                                      *)

\* The sets of columns whose values no two rows of a node share.
RECURSIVE UniqueSets(_, _)
UniqueSets(p, n) ==
  LET node == p[n]
      L == UniqueSets(p, node.l)
      R == UniqueSets(p, node.r)
      Kept(S) == {key \in S : key \subseteq Columns(p, n)}
      IsUnique(S, e) == {e.col} \in S
      OfJoin(e) == CASE IsUnique(L, e.x) /\ IsUnique(R, e.y) -> L \cup R
                      [] IsUnique(L, e.x) /\ ~IsUnique(R, e.y) -> R
                      [] ~IsUnique(L, e.x) /\ IsUnique(R, e.y) -> L
                      [] OTHER -> {}
      isEquiJoin == Len(node.arg.preds) = 1 /\ node.arg.preds[1].cond = "="
  IN CASE node.op = "table" -> Kept({{<<node.arg.alias, c>> : c \in key} : key \in Relations[node.arg.rel].keys})
       [] node.op = "static" \/ (node.op = "union" /\ node.arg = "all") -> {}
       [] node.op = "join" /\ ~IsFilterJoin(node) -> IF isEquiJoin THEN OfJoin(node.arg.preds[1]) ELSE {}
       [] node.op = "union" /\ node.arg = "positions" ->
            IF Assert(L = R, "Input tables should have the same constraints.") THEN L ELSE {}
       [] node.op = "proj" -> Kept(L)
       [] node.op = "agg" -> Kept(L) \cup (IF node.arg = <<>> THEN {} ELSE {ToSet(node.arg)})
       [] OTHER -> L

PredicateColumns(preds) == UNION {ColumnsOf(preds[i]) : i \in DOMAIN preds}

\* The columns a node itself needs; those a projection needs are the ones asked of it.
LocallyRequired(p, n) ==
  LET node == p[n] IN
  CASE node.op = "pred" -> ColumnsOf(node.arg)
    [] node.op = "join" -> PredicateColumns(node.arg.preds)
    [] node.op = "agg" /\ node.arg = <<>> -> {OutputColumns(p, node.l)[1]}
    [] node.op \in {"root", "agg"} -> ToSet(node.arg)
    [] OTHER -> {}

\* What a node and the nodes above it need.
RECURSIVE Required(_, _)
Required(p, n) ==
  LocallyRequired(p, n) \cup UNION {Required(p, o[1]) \cap Columns(p, n) : o \in Outputs(p, n)}

RequiredByOutputs(p, n) == UNION {Required(p, o[1]) : o \in Outputs(p, n)}

\* A table keeps its last column if none is required.
PruneTable(p, n) ==
  LET columns == TableColumns(p[n].arg)
      pruned == SelectSeq(columns, LAMBDA c : c \notin Required(p, n))
      dropped == IF pruned = columns THEN Front(pruned) ELSE pruned
  IN [p[n] EXCEPT !.arg.pruned = {c[2] : c \in ToSet(dropped)}]

PruneProjection(p, n) ==
  [p[n] EXCEPT !.arg = SelectSeq(@, LAMBDA c : c \in RequiredByOutputs(p, n))]

\* A mutant: a join that only tests for existence always becomes a semi join.
TryJoinToSemiAnyway(p, n, used) ==
  LET IsUsed(side) == used \cap Columns(p, p[n][side]) # {}
  IN IF p[n].arg.mode = "inner" /\ ~IsUsed("r") THEN [p EXCEPT ![n].arg.mode = "semi"] ELSE p

\* A join that only tests for existence becomes a semi join, if the side that is not used
\* has at most one partner for each row; used is what the outputs of the join need.
TryJoinToSemi(p, n, used) ==
  LET node == p[n]
      IsUsed(side) == used \cap Columns(p, node[side]) # {}
      equals == SelectSeq(node.arg.preds, LAMBDA e : e.cond = "=")
      Operands(side) == PredicateColumns(equals) \cap Columns(p, node[side])
      Filters(side) == ~IsUsed(side) /\ \E key \in UniqueSets(p, node[side]) : key \subseteq Operands(side)
  IN IF \/ node.arg.mode # "inner" \/ (IsUsed("l") /\ IsUsed("r"))
        \/ Operands("l") = {} \/ Operands("r") = {} THEN p
     ELSE IF Filters("l") THEN [p EXCEPT ![n].arg.mode = "semi", ![n].l = node.r, ![n].r = node.l]
     ELSE IF Filters("r") THEN [p EXCEPT ![n].arg.mode = "semi"]
     ELSE p

\* The joins are visited in the order of a hash table.
ColumnPruning(p) ==
  LET Pruned(n) == CASE p[n].op = "table" -> PruneTable(p, n)
                     [] p[n].op = "proj" -> PruneProjection(p, n)
                     [] OTHER -> p[n]
      Rewrite(q, n) == TryJoinToSemi(q, n, RequiredByOutputs(p, n))
  IN {FoldLeft(Rewrite, [n \in DOMAIN p |-> Pruned(n)], joins) :
        joins \in SetToSeqs({n \in DOMAIN p : IsJoin(p[n])})}

-----------------------------------------------------------------------------
(* SemiJoinReductionRule.                                                  *)

OppositeSide(side) == IF side = "l" THEN "r" ELSE "l"

\* A mutant: anti joins are forgotten.
ReducibleBothSides(mode, side) == mode \notin {IF side = "r" THEN "right" ELSE "left", "full"}

\* An input of a join can be reduced if its rows do not survive without a partner.
Reducible(mode, side) ==
  IF side = "r" THEN mode \notin {"right", "full"}
  ELSE mode \notin FilterModes \cup {"left", "full"}

\* What can reduce: an input, and below joins what still has the column.
RECURSIVE Reducers(_, _, _)
Reducers(p, n, e) ==
  {n} \cup (IF ~IsJoin(p[n]) THEN {}
            ELSE UNION {Reducers(p, m, e) : m \in {k \in {p[n].l, p[n].r} : Evaluable(e, p, k)}})

ReductionsOf(p, n) ==
  LET ReducerSide(e, m) == IF Evaluable(e.x, p, m) THEN e.x ELSE e.y
      equals == {e \in ToSet(p[n].arg.preds) : e.cond = "="}
      sides == {side \in {"l", "r"} : Reducible(p[n].arg.mode, side)}
      By(e, side) == LET m == p[n][OppositeSide(side)] IN Reducers(p, m, ReducerSide(e, m))
  IN UNION {{[join |-> n, side |-> side, pred |-> e, reducer |-> m] : m \in By(e, side)} :
              e \in equals, side \in sides}

\* The reductions are found first, then inserted.
SemiJoinReduction(p) ==
  LET reductions == UNION {ReductionsOf(p, n) : n \in {m \in DOMAIN p : IsJoin(p[m])}}
      Reduce(q, x) ==
        LET new == NewId(q)
        IN InsertNode(Add(q, JoinNode("semi", <<x.pred>>, 0, x.reducer)), x.join, x.side, new)
      OneReducer(S) == \A x, y \in S : x # y => <<x.join, x.side, x.pred>> # <<y.join, y.side, y.pred>>
  IN {FoldLeft(Reduce, p, SetToSeq(S)) :
        S \in {T \in UNION {kSubset(k, reductions) : k \in 0..MaxReductions} : OneReducer(T)}}

-----------------------------------------------------------------------------
(* ChunkPruningRule.                                                       *)

ValuesOf(rel, chunk, name) ==
  LET table == Relations[rel]
      i == CHOOSE j \in DOMAIN table.columns : table.columns[j] = name
  IN {table.chunks[chunk][o][i] : o \in DOMAIN table.chunks[chunk]} \ {Null}

\* The ranges of a column: its values, cut at the largest gaps.  (Of gaps of one size the
\* first are taken; the order of std::sort is not specified.)
RangeFilter(values) ==
  LET dictionary == SetToSortSeq(values, <)
      gaps == 1..Len(dictionary) - 1
      Gap(i) == dictionary[i + 1] - dictionary[i]
      Larger(i) == {j \in gaps : Gap(j) > Gap(i) \/ (Gap(j) = Gap(i) /\ j < i)}
      cuts == {i \in gaps : Cardinality(Larger(i)) < MaxRanges - 1}
      ends == SetToSortSeq(cuts \cup {Len(dictionary)}, <)
  IN [k \in DOMAIN ends |-> <<dictionary[IF k = 1 THEN 1 ELSE ends[k - 1] + 1], dictionary[ends[k]]>>]

MinMaxFilter(values) == <<<<Min(values), Max(values)>>>>

\* Comparisons: both filters decide them alike, a MinMaxFilter is one range.
NoneCompares(ranges, cond, v) ==
  LET min == ranges[1][1]
      max == Last(ranges)[2]
  IN CASE cond = ">"  -> v >= max
       [] cond = ">=" -> v > max
       [] cond = "<"  -> v <= min
       [] cond = "<=" -> v < min
       [] cond = "="  -> \A i \in DOMAIN ranges : v < ranges[i][1] \/ v > ranges[i][2]
       [] cond = "#"  -> Len(ranges) = 1 /\ min = v /\ max = v

\* RangeFilter: both bounds are outside, or in one gap.
NoneInRanges(ranges, a, z) ==
  LET LowerBoundOf(v) == Cardinality({i \in DOMAIN ranges : ranges[i][2] < v})
      InRange(v) == \E i \in DOMAIN ranges : ranges[i][1] <= v /\ v <= ranges[i][2]
  IN \/ z < a \/ z < ranges[1][1] \/ a > Last(ranges)[2]
     \/ ~InRange(a) /\ ~InRange(z) /\ LowerBoundOf(a) = LowerBoundOf(z)

\* MinMaxFilter: each bound is open or closed.
NoneInMinMax(min, max, kind, a, z) ==
  \/ a > max \/ (kind[1] = "open" /\ a = max)
  \/ z < min \/ (kind[2] = "open" /\ z = min)

CanPrune(rel, chunk, name, e) ==
  LET values == ValuesOf(rel, chunk, name)
      isString == name \in Relations[rel].strings
      ranges == IF isString THEN MinMaxFilter(values) ELSE RangeFilter(values)
  IN /\ chunk \in Relations[rel].encoded /\ values # {}
     /\ CASE e.op = "cmp" /\ e.y.op = "val" -> NoneCompares(ranges, e.cond, e.y.val)
          [] e.op = "cmp" /\ e.x.op = "val" -> NoneCompares(ranges, Flip(e.cond), e.x.val)
          [] e.op = "between" /\ isString -> NoneInMinMax(ranges[1][1], ranges[1][2], e.cond, e.a.val, e.z.val)
          [] e.op = "between" /\ ~isString -> NoneInRanges(ranges, e.a.val, e.z.val)
          [] OTHER -> FALSE

ExcludeList(arg, e) ==
  {chunk \in DOMAIN Relations[arg.rel].chunks :
     e.op \in {"cmp", "between"} /\ Cardinality(ColumnsOf(e)) = 1
       /\ CanPrune(arg.rel, chunk, (CHOOSE c \in ColumnsOf(e) : TRUE)[2], e)}

\* A mutant: predicates above a node with several outputs count.
RECURSIVE PruningChainOfAll(_, _, _)
PruningChainOfAll(p, n, predicates) ==
  CASE p[n].op = "pred" -> PruningChainOfAll(p, p[n].l, predicates \cup {p[n].arg})
    [] p[n].op \in {"validate", "proj", "sort"} -> PruningChainOfAll(p, p[n].l, predicates)
    [] OTHER -> <<n, predicates>>

\* The predicates between node n and a table, and what ends them: those above a node with
\* several outputs do not count.
RECURSIVE PruningChain(_, _, _)
PruningChain(p, n, predicates) ==
  LET kept == IF OutputCount(p, n) > 1 THEN {} ELSE predicates
  IN CASE p[n].op = "pred" -> PruningChain(p, p[n].l, kept \cup {p[n].arg})
       [] p[n].op \in {"validate", "proj", "sort"} -> PruningChain(p, p[n].l, kept)
       [] OTHER -> <<n, predicates>>

RECURSIVE ChunkPruning(_, _)
ChunkPruning(p, n) ==
  LET chain == PruningChain(p, n, {})
      table == chain[1]
      excluded == UNION {ExcludeList(p[table].arg, e) : e \in chain[2]}
      Skipped(old) == IF old = {} THEN excluded ELSE old \cap excluded
  IN IF p[n].op = "pred" /\ p[table].op = "table"
     THEN [p EXCEPT ![table].arg.skipped = Skipped(@)]
     ELSE FoldLeft(ChunkPruning, p, Inputs(p, n))
=============================================================================
