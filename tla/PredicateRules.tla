---------------------------- MODULE PredicateRules ----------------------------
(* The rules of the optimizer that take predicates apart, put them         *)
(* together and move them.  What a rule leaves to estimated costs is a     *)
(* parameter of its definition.                                            *)
EXTENDS LogicalPlans

CONSTANTS MaxCharacter,    \* the last character (MAX_ASCII_VALUE)
          MaxDisjunction,  \* MAX_ELEMENTS_FOR_DISJUNCTION
          MinJoin,         \* MIN_ELEMENTS_FOR_JOIN
          MinUnionCount    \* minimum_union_count

ExpensivePredicate(node) == node.op = "pred" /\ IsExpensive(node.arg)

\* A chain of predicates from node n on; it ends above a node with several outputs.
RECURSIVE Chain(_, _)
Chain(p, n) ==
  IF p[n].op = "pred" /\ OutputCount(p, n) <= 1 THEN <<n>> \o Chain(p, p[n].l) ELSE <<>>

\* New predicates from top to bottom between outputs and an input.
InsertChain(p, outputs, input, es) ==
  LET top == NewId(p)
      last == top + Len(es) - 1
  IN SetOutputs(p, outputs, top)
       @@ [i \in top..last |-> Node("pred", es[i - top + 1], IF i = last THEN input ELSE i + 1, 0)]

-----------------------------------------------------------------------------
(* ExpressionReductionRule.                                                *)

\* (a AND b) OR (a AND c) becomes a AND (b OR c).
RECURSIVE ReduceDistributivity(_)
ReduceDistributivity(e) ==
  LET Conjunction(f) == FlattenLogical(f, "and")
      disjunction == FlattenLogical(e, "or")
      Reduced(fs) == [j \in DOMAIN fs |-> ReduceDistributivity(fs[j])]
      rows == [i \in DOMAIN disjunction |-> Reduced(Conjunction(disjunction[i]))]
      common == SelectSeq(rows[1], LAMBDA f : \A i \in DOMAIN rows : f \in ToSet(rows[i]))
      Rest(fs) == SelectSeq(fs, LAMBDA f : f \notin ToSet(common))
      rests == SelectSeq([i \in DOMAIN rows |-> Rest(rows[i])], LAMBDA fs : fs # <<>>)
      remainder == Inflate([i \in DOMAIN rests |-> Inflate(rests[i], "and")], "or")
  IN IF e.op \notin {"and", "or"} THEN e
     ELSE IF rests = <<>> THEN Inflate(common, "and")
     ELSE IF common = <<>> THEN remainder
     ELSE And(Inflate(common, "and"), remainder)

\* LIKE with a prefix is a range, if there is a next character.
RewriteLikePrefix(e) ==
  IF e.op # "like" \/ e.prefix >= MaxCharacter THEN e
  ELSE LET lower == Lit(10 * e.prefix)
           upper == Lit(10 * (e.prefix + 1))
       IN IF e.negated THEN Or(Cmp(e.x, "<", lower), Cmp(e.x, ">=", upper))
          ELSE Range2(e.x, <<"closed", "open">>, lower, upper)

ExpressionReduction(p) ==
  [n \in DOMAIN p |->
     IF p[n].op = "pred" THEN [p[n] EXCEPT !.arg = RewriteLikePrefix(ReduceDistributivity(@))] ELSE p[n]]

-----------------------------------------------------------------------------
(* PredicateSplitUpRule.                                                   *)

\* A mutant: the ranges may overlap.
MutuallyExclusiveOperands(es) ==
  Len(es) = 2 /\ \A i \in {1, 2} : es[i].op = "cmp" /\ es[i].cond = <<"<", ">=">>[i] /\ es[i].x = es[1].x

\* Two disjuncts x < v and x >= w with v < w.
MutuallyExclusive(es) ==
  /\ Len(es) = 2
  /\ \A i \in {1, 2} : /\ es[i].op = "cmp" /\ es[i].cond = <<"<", ">=">>[i]
                       /\ es[i].x.op = "col" /\ es[i].y.op = "val"
  /\ es[1].x = es[2].x
  /\ es[1].y.val < es[2].y.val

RECURSIVE SplitConjunction(_, _, _), SplitDisjunction(_, _)
SplitConjunction(p, n, disjunctions) ==
  LET es == FlattenLogical(p[n].arg, "and")
      Insert(q, e) ==
        LET new == NewId(q)
            r == InsertNode(Add(q, Node("pred", e, 0, 0)), n, "l", new)
        IN IF disjunctions THEN SplitDisjunction(r, new) ELSE r
  IN IF Len(es) <= 1 THEN p ELSE RemoveNode(FoldLeft(Insert, p, es), n)

\* A disjunction becomes a diamond: unions of predicates over one input.
SplitDisjunction(p, n) ==
  LET es == FlattenLogical(p[n].arg, "or")
      bottom == p[n].l
      top == NewId(p)
      mode == IF MutuallyExclusive(es) THEN "all" ELSE "positions"
      AddPredicate(q, e, union, side) ==
        LET new == NewId(q)
        IN SplitConjunction(SetInput(Add(q, Node("pred", e, bottom, 0)), union, side, new), new, TRUE)
      \* s is the plan and the union added last
      AddUnion(s, e) ==
        LET union == NewId(s[1])
            q == InsertNode(Add(s[1], Node("union", "positions", 0, 0)), s[2], "r", union)
        IN <<AddPredicate(q, e, union, "r"), union>>
      first == AddPredicate(ReplaceNode(Add(p, Node("union", mode, 0, 0)), n, top), es[1], top, "l")
      second == AddPredicate(first, es[2], top, "r")
  IN IF Len(es) <= 1 THEN p ELSE FoldLeft(AddUnion, <<second, top>>, SubSeq(es, 3, Len(es)))[1]

PredicateSplitUp(p, disjunctions) ==
  LET Split(q, n) ==
        LET r == SplitConjunction(q, n, disjunctions)
        IN IF disjunctions THEN SplitDisjunction(r, n) ELSE r
  IN FoldLeft(Split, p, SelectSeq(Visit(p), LAMBDA n : p[n].op = "pred"))

-----------------------------------------------------------------------------
(* BetweenCompositionRule.                                                 *)

Bounds == {"<", "<=", ">", ">="}

\* The boundaries a predicate states; one between two columns is a boundary of both.
BoundariesOf(e, id) ==
  LET Boundary(x, cond, border) == [id |-> id, x |-> x, cond |-> cond, border |-> border]
  IN CASE e.op # "cmp" -> <<>>
       [] e.op = "cmp" /\ e.cond \notin Bounds -> <<>>
       [] e.op = "cmp" /\ e.cond \in Bounds /\ e.x.op = "col" /\ e.y.op = "val" -> <<Boundary(e.x, e.cond, e.y)>>
       [] e.op = "cmp" /\ e.cond \in Bounds /\ e.x.op = "val" /\ e.y.op = "col" ->
            <<Boundary(e.y, Flip(e.cond), e.x)>>
       [] e.op = "cmp" /\ e.cond \in Bounds /\ e.x.op = "col" /\ e.y.op = "col" ->
            <<Boundary(e.y, Flip(e.cond), e.x), Boundary(e.x, e.cond, e.y)>>
       [] OTHER -> <<>>

OfValue(b) == b.border.op = "val"

\* The bound v of a range, the tightest of some boundaries, belongs to the range unless one of
\* them excludes it.
Tightest(bounds, open, v) ==
  <<IF \E b \in bounds : b.border.val = v /\ b.cond = open THEN "open" ELSE "closed", v>>

\* A lower and an upper bound of one column become a BETWEEN; the other boundaries are restored.
Composed(es) ==
  LET bounds == FlattenSeq([i \in DOMAIN es |-> BoundariesOf(es[i], i)])
      others == SelectSeq(es, LAMBDA e : BoundariesOf(e, 1) = <<>>)
      xs == FoldLeft(LAMBDA s, b : IF b.x \in ToSet(s) THEN s ELSE Append(s, b.x), <<>>, bounds)
      Of(x, conds) == {b \in ToSet(bounds) : b.x = x /\ OfValue(b) /\ b.cond \in conds}
      Has(x) == Of(x, {">", ">="}) # {} /\ Of(x, {"<", "<="}) # {}
      Between(x) ==
        LET Borders(conds) == {b.border.val : b \in Of(x, conds)}
            lower == Tightest(Of(x, {">", ">="}), ">", Max(Borders({">", ">="})))
            upper == Tightest(Of(x, {"<", "<="}), "<", Min(Borders({"<", "<="})))
        IN Range2(x, <<lower[1], upper[1]>>, Lit(lower[2]), Lit(upper[2]))
      composed == SelectSeq(xs, Has)
      sorted == FlattenSeq([i \in DOMAIN xs |-> SelectSeq(bounds, LAMBDA b : b.x = xs[i])])
      First(i) == \A j \in 1..i - 1 : sorted[j].id # sorted[i].id
      Kept(i) == First(i) /\ ~(OfValue(sorted[i]) /\ Has(sorted[i].x))
      kept == SelectSeq([i \in DOMAIN sorted |-> i], Kept)
  IN others \o [i \in DOMAIN kept |-> LET b == sorted[kept[i]] IN Cmp(b.x, b.cond, b.border)]
            \o [i \in DOMAIN composed |-> Between(composed[i])]

RECURSIVE BetweenComposition(_, _)
BetweenComposition(p, n) ==
  LET chain == Chain(p, n)
      input == p[Last(chain)].l
      q == InsertChain(FoldLeft(RemoveNode, p, chain), Outputs(p, n), input,
                       Composed([i \in DOMAIN chain |-> p[chain[i]].arg]))
  IN IF chain # <<>> THEN BetweenComposition(q, input)
     ELSE FoldLeft(BetweenComposition, p, Inputs(p, n))

-----------------------------------------------------------------------------
(* PredicatePlacementRule.                                                 *)

\* A mutant: predicates pass outer joins, too.
OuterModes == FilterModes \cup {"inner", "cross", "left"}

TransparentModes == FilterModes \cup {"inner", "cross"}

RECURSIVE InsertNodes(_, _, _, _)
InsertNodes(p, n, side, ns) ==
  IF ns = <<>> THEN p ELSE InsertNodes(InsertNode(p, n, side, Head(ns)), Head(ns), "l", Tail(ns))

EvaluableNode(p, n, input) ==
  IF p[n].op = "pred" THEN Evaluable(p[n].arg, p, input)
  ELSE \A i \in DOMAIN p[n].arg.preds :
         ColumnsOf(p[n].arg.preds[i]) \subseteq Columns(p, input) \cup Columns(p, p[n].r)

\* The conjuncts of each disjunct that restrict one input of a join.
PreJoinParts(p, e, own, other) ==
  LET Of(f) == SelectSeq(FlattenLogical(f, "and"),
                         LAMBDA g : Evaluable(g, p, own) /\ ~Evaluable(g, p, other))
      disjunction == FlattenLogical(e, "or")
  IN [i \in DOMAIN disjunction |-> Of(disjunction[i])]

\* A mutant: disjuncts that do not restrict the input are left out.
PreJoinOfSome(p, e, own, other) ==
  LET parts == SelectSeq(PreJoinParts(p, e, own, other), LAMBDA es : es # <<>>)
  IN IF parts = <<>> THEN <<>> ELSE <<Inflate([i \in DOMAIN parts |-> Inflate(parts[i], "and")], "or")>>

\* What a disjunction implies for one input of a join: each disjunct has to restrict it.
PreJoin(p, e, own, other) ==
  LET parts == PreJoinParts(p, e, own, other)
  IN IF \E i \in DOMAIN parts : parts[i] = <<>> THEN <<>>
     ELSE <<Inflate([i \in DOMAIN parts |-> Inflate(parts[i], "and")], "or")>>

\* Sends node n below join j, or keeps it above; s is the plan and the nodes that go down on
\* each side, beneficial the sides for which predicates before the join are worth it.
PassJoin(s, n, j, current, side, beneficial) ==
  LET p == s.plan
      left == EvaluableNode(p, n, p[j].l)
      right == EvaluableNode(p, n, p[j].r)
      Sides(own, other) ==
        IF p[j].arg.mode = "inner" /\ p[n].op = "pred" /\ own \in beneficial
        THEN PreJoin(p, p[n].arg, p[j][own], p[j][other]) ELSE <<>>
      AddTo(t, own, es) ==
        IF es = <<>> THEN t
        ELSE [t EXCEPT !.plan = Add(@, Node("pred", es[1], 0, 0)), ![own] = Append(@, NewId(t.plan))]
      Above(t) == [t EXCEPT !.plan = InsertNode(@, current, side, n)]
  IN IF ~left /\ ~right THEN Above(AddTo(AddTo(s, "l", Sides("l", "r")), "r", Sides("r", "l")))
     ELSE IF left /\ right THEN Above(s)
     ELSE IF left THEN [s EXCEPT !.l = Append(@, n)]
     ELSE [s EXCEPT !.r = Append(@, n)]

RECURSIVE PushDown(_, _, _, _, _)
PushDown(p, current, side, ns, beneficial) ==
  LET n == p[current][side]
      Barrier ==
        LET q == InsertNodes(p, current, side, ns)
        IN PushDown(PushDown(q, n, "l", <<>>, beneficial), n, "r", <<>>, beneficial)
      Untie(q) == PushDown(RemoveNode(q, n), current, side, Append(ns, n), beneficial)
      Join ==
        LET Pass(s, m) == PassJoin(s, m, n, current, side, beneficial)
            start == [plan |-> p, l |-> <<>>, r |-> <<>>]
            s == IF p[n].arg.mode \in TransparentModes THEN FoldLeft(Pass, start, ns)
                 ELSE [start EXCEPT !.plan = InsertNodes(p, current, side, ns)]
        IN PushDown(PushDown(s.plan, n, "l", s.l, beneficial), n, "r", s.r, beneficial)
      Aggregation ==
        LET Below(m) == EvaluableNode(p, m, p[n].l)
            q == FoldLeft(LAMBDA r, m : InsertNode(r, current, side, m), p,
                          SelectSeq(ns, LAMBDA m : ~Below(m)))
        IN PushDown(q, n, "l", SelectSeq(ns, Below), beneficial)
  IN IF n = 0 THEN p
     ELSE IF OutputCount(p, n) > 1 THEN Barrier
     ELSE IF ExpensivePredicate(p[n]) THEN PushDown(p, n, side, ns, beneficial)
     ELSE IF p[n].op = "pred" THEN Untie(p)
     ELSE IF IsFilterJoin(p[n]) THEN Untie(PushDown(p, n, "r", <<>>, beneficial))
     ELSE IF p[n].op = "join" THEN Join
     ELSE IF p[n].op \in {"sort", "proj"} THEN PushDown(p, n, "l", ns, beneficial)
     ELSE IF p[n].op = "agg" THEN Aggregation
     ELSE Barrier

\* Expensive predicates move up; s is the plan and the nodes on their way.
RECURSIVE PullUp(_, _, _)
PullUp(p, current, side) ==
  LET n == p[current][side]
      left == PullUp(p, n, "l")
      right == PullUp(left.plan, n, "r")
      found == left.up \o right.up
      q == right.plan
      s == IF ExpensivePredicate(q[n]) /\ OutputCount(q, n) = 1
           THEN [plan |-> RemoveNode(q, n), up |-> Append(found, n)] ELSE [plan |-> q, up |-> found]
      Keep(blocked, rest) == [plan |-> InsertNodes(s.plan, current, side, blocked), up |-> rest]
      Above(m) == EvaluableNode(s.plan, m, current)
      node == p[current]
  IN IF n = 0 THEN [plan |-> p, up |-> <<>>]
     ELSE IF OutputCount(s.plan, current) > 1 THEN Keep(s.up, <<>>)
     ELSE IF node.op = "pred" \/ (node.op = "join" /\ node.arg.mode \in TransparentModes) THEN s
     ELSE IF node.op = "proj" THEN Keep(SelectSeq(s.up, LAMBDA m : ~Above(m)), SelectSeq(s.up, Above))
     ELSE Keep(s.up, <<>>)

PredicatePlacement(p, beneficial) == PullUp(PushDown(p, 1, "l", <<>>, beneficial), 1, "l").plan

-----------------------------------------------------------------------------
(* PredicateReorderingRule.                                                *)

IsPredicateStyle(node) == node.op \in {"pred", "validate"} \/ IsFilterJoin(node)

RECURSIVE StyleChain(_, _)
StyleChain(p, n) ==
  LET next == p[n].l
  IN IF IsPredicateStyle(p[next]) /\ OutputCount(p, next) <= 1 THEN <<n>> \o StyleChain(p, next) ELSE <<n>>

\* Nodes with many estimated rows come to the top of their chain.
Reorder(p, n, many) ==
  LET chain == StyleChain(p, n)
      order == SelectSeq(chain, LAMBDA m : m \in many) \o SelectSeq(chain, LAMBDA m : m \notin many)
      input == p[Last(chain)].l
      untied == FoldLeft(RemoveNode, p, chain)
      Link(q, i) == SetInput(q, order[i], "l", IF i = Len(order) THEN input ELSE order[i + 1])
  IN FoldLeft(Link, SetOutputs(untied, Outputs(p, n), order[1]), [i \in DOMAIN order |-> i])

ChainTops(p) ==
  SelectSeq(Visit(p),
    LAMBDA n : /\ IsPredicateStyle(p[n])
               /\ \A m \in DOMAIN p : IsPredicateStyle(p[m]) /\ p[m].l = n => OutputCount(p, n) > 1)

PredicateReordering(p, many) == FoldLeft(LAMBDA q, n : Reorder(q, n, many), p, ChainTops(p))

-----------------------------------------------------------------------------
(* InExpressionRewriteRule.                                                *)

\* A short list becomes one predicate for each of its values.
RewriteToDisjunction(p, n) ==
  LET values == SetToSeq(ToSet(p[n].arg.list))
      AddPredicate(q, v) == Add(q, Node("pred", Cmp(p[n].arg.x, "=", Lit(v)), p[n].l, 0))
      AddUnion(s, v) ==
        LET q == AddPredicate(s[1], v)
        IN <<Add(q, Node("union", "all", s[2], NewId(s[1]))), NewId(q)>>
      s == FoldLeft(AddUnion, <<AddPredicate(p, values[1]), NewId(p)>>, Tail(values))
  IN SetInput(SetOutputs(s[1], Outputs(p, n), s[2]), n, "l", 0)

\* A long list becomes a table to join with.
RewriteToJoin(p, n) ==
  LET e == p[n].arg
      alias == ToString(n)
      list == SelectSeq(e.list, LAMBDA v : v # Null)
      mode == IF e.negated THEN "anti null as true" ELSE "semi"
      join == JoinNode(mode, <<Cmp(e.x, "=", Col(alias, "right_values"))>>, 0, 0)
      replaced == ReplaceNode(Add(p, join), n, NewId(p))
  IN SetInput(Add(replaced, Node("static", [alias |-> alias, list |-> list], 0, 0)),
              NewId(p), "r", NewId(replaced))

\* The inputs of a predicate that became a join are not visited: it has none any more.
RECURSIVE RewriteIns(_, _, _)
RewriteIns(p, queue, visited) ==
  LET n == Head(queue)
      e == p[n].arg
      isIn == p[n].op = "pred" /\ e.op = "in"
      short == isIn /\ Len(e.list) <= MaxDisjunction /\ ~e.negated
      long == isIn /\ ~short /\ Len(e.list) >= MinJoin
      q == IF short THEN RewriteToDisjunction(p, n) ELSE IF long THEN RewriteToJoin(p, n) ELSE p
  IN IF queue = <<>> THEN p
     ELSE IF n \in visited THEN RewriteIns(p, Tail(queue), visited)
     ELSE RewriteIns(q, Tail(queue) \o (IF long THEN <<>> ELSE Inputs(p, n)), visited \cup {n})

InExpressionRewrite(p) == RewriteIns(p, <<1>>, {})

-----------------------------------------------------------------------------
(* PredicateMergeRule.                                                     *)

IsUnion(node) == node.op = "union" /\ node.arg = "positions"
FirstOutput(p, n) == CHOOSE m \in {o[1] : o \in Outputs(p, n)} : \A o \in Outputs(p, n) : m <= o[1]

\* The nodes of the plans below topmost unions, in the order of the visit, each with its
\* topmost union.
Mergeable(p) ==
  LET Collect(s, n) ==
        LET parents == {i \in DOMAIN s : <<s[i].node, "l">> \in Outputs(p, n) \/ <<s[i].node, "r">> \in Outputs(p, n)}
        IN IF ~IsUnion(p[n]) /\ p[n].op # "pred" THEN s
           ELSE IF parents # {} THEN Append(s, [node |-> n, top |-> s[Min(parents)].top])
           ELSE IF IsUnion(p[n]) THEN Append(s, [node |-> n, top |-> n])
           ELSE s
  IN FoldLeft(Collect, <<>>, Visit(p))

RECURSIVE MergeDisjunction(_, _), MergeConjunction(_, _)
MergeDisjunction(p, u) ==
  LET l == p[u].l
      r == p[u].r
      simple == /\ p[l].op = "pred" /\ p[r].op = "pred" /\ p[l].l = p[r].l
                /\ OutputCount(p, l) = 1 /\ OutputCount(p, r) = 1
      m == NewId(p)
      untied == SetInput(RemoveNode(RemoveNode(p, l), r), u, "r", 0)
      merged == ReplaceNode(Add(untied, Node("pred", Or(p[l].arg, p[r].arg), 0, 0)), u, m)
      above == FirstOutput(merged, m)
      q == IF IsUnion(merged[above]) THEN MergeDisjunction(merged, above) ELSE merged
      next == FirstOutput(q, m)
  IN IF ~Assert(IsUnion(p[u]), "Cannot merge union_node into disjunction") \/ ~simple THEN p
     ELSE IF OutputCount(q, m) = 0 THEN q
     ELSE MergeConjunction(q, IF q[next].op = "pred" THEN next ELSE m)

MergeConjunction(p, n) ==
  LET below == Chain(p, p[n].l)
      e == FoldLeft(LAMBDA f, m : And(p[m].arg, f), p[n].arg, below)
      m == NewId(p)
      merged == ReplaceNode(Add(FoldLeft(RemoveNode, p, below), Node("pred", e, 0, 0)), n, m)
      above == FirstOutput(merged, m)
  IN IF below = <<>> THEN p
     ELSE IF merged[above].op = "union" THEN MergeDisjunction(merged, above) ELSE merged

\* Diamonds of enough unions become one predicate again.
PredicateMerge(p) ==
  LET nodes == Mergeable(p)
      Unions(top) == Cardinality({i \in DOMAIN nodes : nodes[i].top = top /\ IsUnion(p[nodes[i].node])})
      Merge1(q, x) ==
        IF OutputCount(q, x.node) = 0 \/ Unions(x.top) < MinUnionCount THEN q
        ELSE IF q[x.node].op = "union" THEN MergeDisjunction(q, x.node) ELSE MergeConjunction(q, x.node)
  IN FoldLeft(Merge1, p, nodes)
=============================================================================
