----------------------------- MODULE LogicalPlans -----------------------------
(* Logical query plans: expressions, nodes and the edits the rules of the  *)
(* optimizer make, and what a plan returns.                                *)
(*                                                                         *)
(* A plan is a function from node ids to nodes; node 1 is the root, 0 no   *)
(* node.  A node that has been taken out stays in the plan, without left   *)
(* input, until Compact.  A column is <<alias, name>>; column <<alias,     *)
(* "#">> of a row is its position in the base table.  Strings are numbers: *)
(* 10 * first character + second character.                                *)
EXTENDS Tables

CONSTANT Relations  \* name -> [columns, strings, keys, chunks, encoded, dead]

-----------------------------------------------------------------------------
(* Expressions.                                                            *)

Col(alias, name)      == [op |-> "col", col |-> <<alias, name>>]
Lit(v)                == [op |-> "val", val |-> v]
Cmp(x, cond, y)       == [op |-> "cmp", cond |-> cond, x |-> x, y |-> y]
Range2(x, kind, a, z) == [op |-> "between", cond |-> kind, x |-> x, a |-> a, z |-> z]
And(x, y)             == [op |-> "and", x |-> x, y |-> y]
Or(x, y)              == [op |-> "or", x |-> x, y |-> y]
In(x, list)           == [op |-> "in", x |-> x, list |-> list, negated |-> FALSE]
NotIn(x, list)        == [op |-> "in", x |-> x, list |-> list, negated |-> TRUE]
Like(x, prefix)       == [op |-> "like", x |-> x, prefix |-> prefix, negated |-> FALSE]
NotLike(x, prefix)    == [op |-> "like", x |-> x, prefix |-> prefix, negated |-> TRUE]

\* EXISTS of a subquery that refers to column x, and holds for the given values of it.
Correlated(x, values) == [op |-> "exists", x |-> x, values |-> values]

\* A predicate is expensive if it contains a correlated subquery.
RECURSIVE IsExpensive(_)
IsExpensive(e) ==
  \/ e.op = "exists"
  \/ e.op \in {"and", "or"} /\ (IsExpensive(e.x) \/ IsExpensive(e.y))

RECURSIVE ColumnsOf(_)
ColumnsOf(e) ==
  CASE e.op = "col" -> {e.col}
    [] e.op = "val" -> {}
    [] e.op \in {"cmp", "and", "or"} -> ColumnsOf(e.x) \cup ColumnsOf(e.y)
    [] OTHER -> ColumnsOf(e.x)

\* The operands of nested expressions with one operator, in breadth-first order.
RECURSIVE FlattenAll(_, _)
FlattenAll(es, op) ==
  IF es = <<>> THEN <<>>
  ELSE IF Head(es).op = op THEN FlattenAll(Tail(es) \o <<Head(es).x, Head(es).y>>, op)
  ELSE <<Head(es)>> \o FlattenAll(Tail(es), op)
FlattenLogical(e, op) == FlattenAll(<<e>>, op)

Inflate(es, op) == FoldLeft(LAMBDA x, y : [op |-> op, x |-> x, y |-> y], Head(es), Tail(es))

-----------------------------------------------------------------------------
(* Evaluation.  Truth values are 1, 0 and NULL.                            *)

Bool(b) == IF b THEN 1 ELSE 0

LogicalTruth(op, truths) ==
  LET deciding == IF op = "and" THEN 0 ELSE 1
  IN IF deciding \in truths THEN deciding ELSE IF Null \in truths THEN Null ELSE 1 - deciding

CompareTruth(cond, v, w) == IF w = Null THEN Null ELSE Bool(Holds(cond, v, w))

BetweenTruth(e, v) ==
  Bool(/\ Holds(IF e.cond[1] = "closed" THEN ">=" ELSE ">", v, e.a.val)
       /\ Holds(IF e.cond[2] = "closed" THEN "<=" ELSE "<", v, e.z.val))

InTruth(e, v) ==
  IF v \in ToSet(e.list) THEN Bool(~e.negated)
  ELSE IF Null \in ToSet(e.list) THEN Null ELSE Bool(e.negated)

LikeTruth(e, v) == Bool((v \div 10 = e.prefix) # e.negated)

ExistsTruth(e, v) == Bool(v \in e.values)

\* What an expression is for a row.
RECURSIVE Eval(_, _)
Eval(e, row) ==
  IF e.op = "col" THEN row[e.col]
  ELSE IF e.op = "val" THEN e.val
  ELSE IF e.op \in {"and", "or"} THEN LogicalTruth(e.op, {Eval(e.x, row), Eval(e.y, row)})
  ELSE LET v == Eval(e.x, row) IN
    CASE e.op = "exists" -> ExistsTruth(e, v)
      [] v = Null /\ e.op # "exists" -> Null
      [] v # Null /\ e.op = "cmp" -> CompareTruth(e.cond, v, Eval(e.y, row))
      [] v # Null /\ e.op = "between" -> BetweenTruth(e, v)
      [] v # Null /\ e.op = "in" -> InTruth(e, v)
      [] v # Null /\ e.op = "like" -> LikeTruth(e, v)

-----------------------------------------------------------------------------
(* Nodes and edits.                                                        *)

Node(op, arg, l, r) == [op |-> op, arg |-> arg, l |-> l, r |-> r]
JoinNode(mode, preds, l, r) == Node("join", [mode |-> mode, preds |-> preds], l, r)

Outputs(p, n)     == {output \in (DOMAIN p) \X {"l", "r"} : p[output[1]][output[2]] = n}
OutputCount(p, n) == Cardinality(Outputs(p, n))
NewId(p)          == Max(DOMAIN p) + 1
Add(p, node)      == p @@ (NewId(p) :> node)

SetInput(p, n, side, m) == (n :> [p[n] EXCEPT ![side] = m]) @@ p
SetOutputs(p, outputs, m) ==
  [n \in {output[1] : output \in outputs} |->
     [p[n] EXCEPT !.l = IF <<n, "l">> \in outputs THEN m ELSE @,
                  !.r = IF <<n, "r">> \in outputs THEN m ELSE @]] @@ p

RemoveNode(p, n) == SetOutputs(SetInput(p, n, "l", 0), Outputs(p, n), p[n].l)
InsertNode(p, parent, side, n) == SetInput(SetInput(p, n, "l", p[parent][side]), parent, side, n)
ReplaceNode(p, n, m) ==
  LET q == SetOutputs(p, Outputs(p, n), m)
  IN SetInput(SetInput(SetInput(SetInput(q, m, "l", p[n].l), m, "r", p[n].r), n, "l", 0), n, "r", 0)

\* visit_lqp: the nodes in breadth-first order.
Inputs(p, n) == SelectSeq(<<p[n].l, p[n].r>>, LAMBDA m : m # 0)
RECURSIVE VisitFrom(_, _, _)
VisitFrom(p, queue, visited) ==
  IF queue = <<>> THEN visited
  ELSE IF Head(queue) \in ToSet(visited) THEN VisitFrom(p, Tail(queue), visited)
  ELSE VisitFrom(p, Tail(queue) \o Inputs(p, Head(queue)), Append(visited, Head(queue)))
Visit(p) == VisitFrom(p, <<1>>, <<>>)

\* Nodes nobody owns any more are destroyed; the others are numbered anew.
Compact(p) ==
  LET order == Visit(p)
      New(n) == IF n = 0 THEN 0 ELSE CHOOSE i \in DOMAIN order : order[i] = n
  IN [i \in DOMAIN order |-> [p[order[i]] EXCEPT !.l = New(@), !.r = New(@)]]

-----------------------------------------------------------------------------
(* Columns and rows.                                                       *)

FilterModes == {"semi", "anti", "anti null as true"}
IsFilterJoin(node) == node.op = "join" /\ node.arg.mode \in FilterModes
CountColumn == <<"", "COUNT(*)">>

TableColumns(arg) ==
  SelectSeq([i \in DOMAIN Relations[arg.rel].columns |-> <<arg.alias, Relations[arg.rel].columns[i]>>],
            LAMBDA c : c[2] \notin arg.pruned)

\* output_expressions().
RECURSIVE OutputColumns(_, _)
OutputColumns(p, n) ==
  LET node == p[n] IN
  CASE node.op = "table" -> TableColumns(node.arg)
    [] node.op = "static" -> <<<<node.arg.alias, "right_values">>>>
    [] node.op = "proj" -> node.arg
    [] node.op = "agg" -> Append(node.arg, CountColumn)
    [] node.op = "join" /\ ~IsFilterJoin(node) -> OutputColumns(p, node.l) \o OutputColumns(p, node.r)
    [] OTHER -> OutputColumns(p, node.l)

Columns(p, n) == ToSet(OutputColumns(p, n))

\* expression_evaluable_on_lqp.
Evaluable(e, p, n) == ColumnsOf(e) \subseteq Columns(p, n)

TableRows(arg) ==
  LET table == Relations[arg.rel]
      Row(c, o) ==
        [col \in ToSet(TableColumns(arg)) \cup {<<arg.alias, "#">>} |->
           IF col[2] = "#" THEN <<arg.rel, c, o>>
           ELSE table.chunks[c][o][CHOOSE i \in DOMAIN table.columns : table.columns[i] = col[2]]]
      Chunk(c) == IF c \in arg.skipped THEN <<>> ELSE [o \in DOMAIN table.chunks[c] |-> Row(c, o)]
  IN FlattenSeq([c \in DOMAIN table.chunks |-> Chunk(c)])

\* A row is visible if all the base rows it was put together from are.
Visible(row) ==
  \A c \in DOMAIN row : c[2] = "#" => <<row[c][2], row[c][3]>> \notin Relations[row[c][1]].dead

Narrow(row, cols) == [c \in {d \in DOMAIN row : d \in cols \/ d[2] = "#"} |-> row[c]]

JoinRows(arg, L, R, rightColumns) ==
  LET Ts(x, y) == {Eval(arg.preds[i], x @@ y) : i \in DOMAIN arg.preds}
      Matches(x, y) == Ts(x, y) \subseteq {1}
      Maybe(x, y) == Ts(x, y) \subseteq {1, Null}
      Pairs(x) == LET ys == SelectSeq(R, LAMBDA y : Matches(x, y)) IN [i \in DOMAIN ys |-> x @@ ys[i]]
      OrPadded(x) == IF Pairs(x) # <<>> THEN Pairs(x) ELSE <<x @@ [c \in rightColumns |-> Null]>>
      Some(x, Test(_, _)) == \E i \in DOMAIN R : Test(x, R[i])
  IN CASE arg.mode \in {"inner", "cross"} -> FlattenSeq([i \in DOMAIN L |-> Pairs(L[i])])
       [] arg.mode = "left" -> FlattenSeq([i \in DOMAIN L |-> OrPadded(L[i])])
       [] arg.mode = "semi" -> SelectSeq(L, LAMBDA x : Some(x, Matches))
       [] arg.mode = "anti" -> SelectSeq(L, LAMBDA x : ~Some(x, Matches))
       [] arg.mode = "anti null as true" -> SelectSeq(L, LAMBDA x : ~Some(x, Maybe))

\* One row for each group there is; one in any case without group-by columns.
CountedGroups(by, L) ==
  LET Group(row) == [c \in ToSet(by) |-> row[c]]
      groups == {Group(L[i]) : i \in DOMAIN L} \cup (IF by = <<>> THEN {<<>>} ELSE {})
      Count(g) == Cardinality({i \in DOMAIN L : Group(L[i]) = g})
  IN SetToSeq({g @@ (CountColumn :> Count(g)) : g \in groups})

\* The rows a node returns.  UnionPositions joins rows by their positions.
RECURSIVE RowsOf(_, _)
RowsOf(p, n) ==
  LET node == p[n]
      L == RowsOf(p, node.l)
      R == RowsOf(p, node.r)
  IN CASE node.op = "table" -> TableRows(node.arg)
       [] node.op = "static" -> [i \in DOMAIN node.arg.list |-> <<node.arg.alias, "right_values">> :> node.arg.list[i]]
       [] node.op = "validate" -> SelectSeq(L, Visible)
       [] node.op = "pred" -> SelectSeq(L, LAMBDA row : Eval(node.arg, row) \notin {0, Null})
       [] node.op = "join" -> JoinRows(node.arg, L, R, Columns(p, node.r))
       [] node.op \in {"proj", "root"} -> [i \in DOMAIN L |-> Narrow(L[i], ToSet(node.arg))]
       [] node.op = "agg" -> CountedGroups(node.arg, L)
       [] node.op = "limit" -> SubSeq(L, 1, Min({node.arg, Len(L)}))
       [] node.op = "sort" -> L
       [] node.op = "union" /\ node.arg = "all" -> L \o R
       [] node.op = "union" /\ node.arg = "positions" -> L \o SelectSeq(R, LAMBDA row : row \notin ToSet(L))

\* The result of a plan: the bag of its rows, without their positions.
PlanResult(p) ==
  LET rows == RowsOf(p, 1)
  IN ToBag([i \in DOMAIN rows |-> [c \in {d \in DOMAIN rows[i] : d[2] # "#"} |-> rows[i][c]]])

InputCount(op) ==
  CASE op \in {"table", "static"} -> 0
    [] op \in {"join", "union"} -> 2
    [] OTHER -> 1

\* Every node finds the columns it needs in its inputs.
FindsItsColumns(p, n) ==
  LET node == p[n] IN
  CASE node.op = "pred" -> Evaluable(node.arg, p, node.l)
    [] node.op = "join" -> \A i \in DOMAIN node.arg.preds :
                             ColumnsOf(node.arg.preds[i]) \subseteq Columns(p, node.l) \cup Columns(p, node.r)
    [] node.op \in {"proj", "agg"} -> ToSet(node.arg) \subseteq Columns(p, node.l)
    [] node.op = "root" -> node.arg = OutputColumns(p, node.l)
    [] node.op = "union" -> OutputColumns(p, node.l) = OutputColumns(p, node.r)
    [] OTHER -> TRUE
WellFormed(p) == \A n \in DOMAIN p : Len(Inputs(p, n)) = InputCount(p[n].op) /\ FindsItsColumns(p, n)
=============================================================================
