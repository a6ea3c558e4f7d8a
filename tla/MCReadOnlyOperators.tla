------------------------ MODULE MCReadOnlyOperators ------------------------
(* Instances of ReadOnlyOperators for TLC. *)
EXTENDS ReadOnlyOperators

\* Chunks of n rows; the column of the secondary predicate repeats a pattern.
Chunked(keys, extras, n) ==
  [c \in 1..(Len(keys) + n - 1) \div n |->
     [o \in 1..Min({n, Len(keys) - (c - 1) * n}) |->
        LET i == (c - 1) * n + o IN [key |-> keys[i], extra |-> extras[i]]]]

Keys == {Null, 0, 1, 2}
MCLeftTables ==
  {Chunked(k, <<1, 2, Null>>, 2) : k \in BoundedSeq(Keys, 2)}
  \cup {Chunked(k, <<1, 2, Null>>, 1) : k \in {<<0, 1, 2>>, <<2, Null, 1>>, <<1, 1, 0>>}}
MCRightTables ==
  {Chunked(k, <<2, 1, 1>>, 1) : k \in BoundedSeq(Keys, 2)}
  \cup {Chunked(k, <<2, 1, 1>>, 2) : k \in {<<0, 1, 2>>, <<2, Null, 1>>, <<1, 1, 0>>, <<1, 0, Null>>}}

\* A base table whose chunks are not sorted, without an index.
Plain(keys, extras, n, dict) ==
  LET rows == Chunked(keys, extras, n)
  IN [rows |-> rows, sorted |-> [c \in DOMAIN rows |-> NotSorted], dict |-> [c \in DOMAIN rows |-> dict],
      nullable |-> \E i \in DOMAIN keys : keys[i] = Null, indexed |-> {}, clustered |-> {}]

\* With and without dictionaries, NULLs, indexes, sorted and clustered columns.
MCBaseTables ==
  {Plain(<<1, 3, Null, 1>>, <<0, 3, 1, Null>>, 2, d) : d \in BOOLEAN}
  \cup {[Plain(<<2, 1, 2>>, <<2, 0, 2>>, 2, TRUE) EXCEPT !.indexed = {1}],
        [Plain(<<3, Null, 1>>, <<1, 1, Null>>, 2, FALSE) EXCEPT !.indexed = {1, 2}],
        [Plain(<<Null, 1, 3>>, <<2, 2, 2>>, 3, TRUE) EXCEPT !.sorted = <<<<"key", "asc">>>>],
        [Plain(<<3, 1, 1>>, <<2, 1, 2>>, 2, FALSE) EXCEPT !.sorted = <<<<"key", "desc">>, <<"key", "asc">>>>],
        [Plain(<<2, 2, 3, 1>>, <<1, 1, 2, 0>>, 2, TRUE) EXCEPT !.clustered = {"key", "extra"}]}

MCPredicates ==
  [kind : {"value"}, cond : Conditions, a : {2}]
  \cup [kind : {"between"}, cond : {"[]", "[)", "(]", "()"}, a : {1}, z : {3}]
  \cup {[kind |-> "between", cond |-> "(]", a |-> 2, z |-> 1]}
  \cup [kind : {"null"}, cond : {"is", "is not"}]
  \cup [kind : {"columns"}, cond : {"=", "<", ">="}]

-----------------------------------------------------------------------------
(* Tables and queries for the optimizer: a table with three chunks, the    *)
(* last without statistics, one whose key has a row per visible value      *)
(* only, and one without a key.                                            *)

MCRelations ==
  [t |-> [columns |-> <<"a", "b", "s">>, strings |-> {"s"}, keys |-> {{"a"}}, encoded |-> {1, 2}, dead |-> {<<2, 2>>},
          chunks |-> <<<<<<1, 5, 12>>, <<2, Null, 21>>>>, <<<<4, 3, 12>>, <<9, 5, 32>>>>, <<<<7, 3, Null>>>>>>],
   u |-> [columns |-> <<"x", "y">>, strings |-> {}, keys |-> {{"x"}}, encoded |-> {1}, dead |-> {<<1, 1>>},
          chunks |-> <<<<<<5, 1>>, <<3, 2>>>>, <<<<5, 2>>, <<8, Null>>>>>>],
   v |-> [columns |-> <<"k", "m">>, strings |-> {}, keys |-> {}, encoded |-> {1, 2}, dead |-> {},
          chunks |-> <<<<<<2, 1>>, <<2, 3>>>>, <<<<Null, 4>>>>>>]]

\* A plan from a tree <<op, arg, inputs...>>, whose nodes get the numbers from n on.
RECURSIVE PlanOf(_, _)
PlanOf(tree, n) ==
  LET l == IF Len(tree) > 2 THEN PlanOf(tree[3], n + 1) ELSE <<>>
      r == IF Len(tree) > 3 THEN PlanOf(tree[4], n + 1 + Len(l)) ELSE <<>>
  IN <<Node(tree[1], tree[2], IF l = <<>> THEN 0 ELSE n + 1, IF r = <<>> THEN 0 ELSE n + 1 + Len(l))>> \o l \o r

Stored(name)           == <<"table", [alias |-> name, rel |-> name, pruned |-> {}, skipped |-> {}]>>
Validated(name)        == <<"validate", 0, Stored(name)>>
Where(e, tree)         == <<"pred", e, tree>>
Joins2(mode, e, l, r)  == <<"join", [mode |-> mode, preds |-> <<e>>], l, r>>
Cross(l, r)            == <<"join", [mode |-> "cross", preds |-> <<>>], l, r>>
Select(es, tree)       == LET cols == [i \in DOMAIN es |-> es[i].col]
                          IN PlanOf(<<"root", cols, <<"proj", cols, tree>>>>, 1)

ta == Col("t", "a")
tb == Col("t", "b")
ts == Col("t", "s")
ux == Col("u", "x")
uy == Col("u", "y")
vk == Col("v", "k")
vm == Col("v", "m")
count == [op |-> "col", col |-> CountColumn]
T == Validated("t")
U == Validated("u")
Is(x, cond, v) == Cmp(x, cond, Lit(v))
OnKey == Cmp(tb, "=", ux)

MCQueries == {
  \* bounds on both sides of a cross product that becomes a join
  Select(<<ta, uy>>, Where(And(OnKey, And(Is(ta, ">=", 2), And(Cmp(Lit(8), ">", ta), Is(uy, "#", 1)))), Cross(T, U))),
  \* a disjunction and a prefix
  Select(<<ta>>, Where(And(Or(Is(ta, "=", 1), Is(tb, "<=", 3)), Like(ts, 1)), Stored("t"))),
  \* disjunctions that restrict both inputs of a join, or one
  Select(<<ta, tb>>, Where(And(OnKey, Or(And(Is(ta, "<", 3), Is(uy, "=", 2)), And(Is(ta, ">", 6), Is(uy, "<", 3)))), Cross(T, U))),
  Select(<<ta, uy>>, Where(And(OnKey, Or(And(Is(ta, "<", 3), Is(uy, "=", 2)), Is(uy, ">", 1))), Cross(T, U))),
  \* short lists, long lists, NOT LIKE
  Select(<<ta>>, Where(NotLike(ts, 1), Where(In(ta, <<2, 9, Null>>), T))),
  Select(<<ta>>, Where(In(ta, <<1, 2, 4, 7, Null>>), Where(NotIn(tb, <<1, 2, 3, 4>>), T))),
  \* HAVING, an aggregate as an input of a join, COUNT of a join
  Select(<<tb, count>>, Where(Is(tb, ">=", 3), Where(Is(count, ">", 1), <<"agg", <<tb.col>>, T>>))),
  Select(<<uy, count>>, Where(And(Cmp(tb, "=", uy), Is(uy, "<=", 3)), Cross(U, <<"agg", <<tb.col>>, Where(Is(ta, "#", 4), T)>>))),
  PlanOf(<<"root", <<CountColumn>>, <<"agg", <<>>, Where(OnKey, Cross(T, U))>>>>, 1),
  \* an outer join, an anti join, a test for existence, three tables
  Select(<<ta, uy>>, Where(Is(uy, "=", 2), Where(Is(ta, ">", 1), Joins2("left", OnKey, T, U)))),
  Select(<<ta>>, Where(Is(ta, ">", 1), Joins2("anti", OnKey, T, Where(Is(uy, "=", 2), U)))),
  Select(<<ta>>, Where(OnKey, Cross(U, T))),
  Select(<<ta, vm>>, Where(And(OnKey, And(Cmp(uy, "=", vk), Cmp(Lit(3), "<=", ta))), Cross(Cross(T, U), Validated("v")))),
  \* a diamond below a join that only tests for existence
  Select(<<uy>>, Where(Cmp(ta, "=", uy), Where(Or(Is(tb, "=", 3), Is(ta, ">", 8)), Cross(T, U)))),
  \* correlated subqueries above and below projections and joins
  Select(<<ta, tb>>, Where(Is(ta, "<", 5), <<"proj", <<ta.col, tb.col>>, Where(Correlated(tb, {5, 3}), Where(Is(tb, "#", 4), T))>>)),
  Select(<<ta, tb>>, Where(Correlated(tb, {5, 3}), Where(And(OnKey, Is(ta, "<", 5)), Cross(T, U)))),
  Select(<<ta, uy>>, Where(Or(And(Is(ta, "<", 5), Is(uy, "=", 2)), And(Correlated(ta, {9}), Is(uy, ">=", 1))),
                           Where(OnKey, Cross(Where(Correlated(tb, {5}), T), U)))),
  \* diamonds: directly over a table, overlapping, nested
  Select(<<ta>>, Where(Or(Is(ta, "<", 2), Or(Is(ta, ">", 8), Is(tb, "=", 3))), Where(Is(tb, ">", 1), Stored("t")))),
  Select(<<ta>>, Where(Or(Is(ta, "<", 8), Is(ta, ">=", 4)), T)),
  Select(<<ta>>, Where(Or(In(ta, <<1, 9>>), Or(And(Is(tb, "=", 5), Or(Is(ta, "<", 2), Is(ta, ">=", 7))), Is(tb, "<", 4))),
                       Where(Is(ta, "#", 2), T))),
  Select(<<ta>>, Where(Or(And(Is(ta, ">", 1), Is(tb, "=", 3)), And(Is(ta, ">", 1), Is(tb, "=", 5))), T)),
  \* bounds that are columns, bounds that repeat, a limit
  Select(<<ta>>, Where(Cmp(ta, "<", tb), Where(Is(tb, "<=", 5), Where(Is(tb, "<", 5), Where(Is(tb, ">", 1), Stored("t")))))),
  Select(<<ta>>, Where(Is(ta, ">", 3), <<"limit", 3, <<"sort", ta, Where(Is(ta, "#", 2), T)>>>>))
}

-----------------------------------------------------------------------------
(* Columns and encodings for the readers: integers of a word, and strings   *)
(* of small numbers for characters.                                        *)

IntColumn(vs) == [type |-> "int", values |-> vs]
StringColumn(vs) == [type |-> "string", values |-> vs]
StrA == <<1>>
StrAB == <<1, 2>>
StrB == <<2>>
StrBBB == <<2, 2, 2>>

\* NULLs next to the value that stands for them, a full and an incomplete block, more distinct
\* values than a byte can number, the ends of the range, three meta blocks, nothing but NULLs in a frame, nothing at all.
MCColumns == {
  IntColumn(<<0, Null, 0, 3, 3, 3, -1, Null, Null, 2>>),
  IntColumn(<<-8, 7, Null, Null, 5>>),
  IntColumn(<<5, 5, Null, 1, 2, 2, 2, 2, 2, 2, 2, 2, 7, 0, 1, 5, 1, Null>>),
  IntColumn(<<1, Null, 1>>),
  IntColumn(<<>>),
  StringColumn(<<StrA, StrAB, Null, StrA, StrBBB>>),
  StringColumn(<<<<>>, Null, <<>>>>),
  StringColumn(<<StrBBB, <<>>, StrB, StrBBB, StrA>>)}

\* The data of the last string ends with a block.
MCFullBlocks == {StringColumn(<<StrA, StrAB, Null, StrA, StrB>>), StringColumn(<<StrAB, StrB, <<>>>>)}

MCShared == {IntColumn(<<0, 1, 2, 0, 3>>)}

MCSpecs == {[encoding |-> "Unencoded", vector |-> "any"], [encoding |-> "RunLength", vector |-> "any"],
            [encoding |-> "LZ4", vector |-> "any"]}
           \cup [encoding : {"Dictionary", "FixedString", "FrameOfReference"}, vector : {"any", "FixedSize", "SimdBp128"}]
MCSimd == {[encoding |-> "Dictionary", vector |-> "SimdBp128"], [encoding |-> "FrameOfReference", vector |-> "SimdBp128"]}
MCLz4 == {[encoding |-> "LZ4", vector |-> "any"]}

-----------------------------------------------------------------------------
(* Tables for the files.  Strings have quotes, separators and line breaks  *)
(* in them, are the word null, or are empty; one table has no rows, one a  *)
(* single column with a NULL, and some chunks are sorted.                   *)

FileColumns(types, nullable) == [c \in DOMAIN types |-> [type |-> types[c], nullable |-> nullable]]
Quote == <<QuoteChar>>
NullText == <<NullWord>>
Broken == <<SeparatorChar, 1, DelimiterChar>>
FileTable(columns, rs, n, sorted) == [columns |-> columns, rows |-> rs, chunkSize |-> n, sorted |-> sorted]

MCFileTables == {
  FileTable(FileColumns(<<"int", "string">>, TRUE),
            <<<<Null, NullText>>, <<-1, <<>>>>, <<7, Null>>, <<7, Quote \o Broken>>>>, 3, <<<<<<1, "asc">>>>, <<>>>>),
  FileTable(FileColumns(<<"string", "int">>, FALSE),
            <<<<Quote, 3>>, <<Broken, 1>>, <<Quote \o Quote, 1>>, <<<<>>, 2>>>>, 2, <<<<>>, <<<<2, "asc">>>>>>),
  FileTable(FileColumns(<<"int">>, TRUE), <<<<2>>, <<Null>>>>, 2, <<>>),
  FileTable(FileColumns(<<"string">>, TRUE), <<<<<<DelimiterChar>>>>, <<Null>>, <<<<QuoteChar, DelimiterChar>>>>>>, 1, <<>>),
  FileTable(FileColumns(<<"string", "int">>, FALSE), <<>>, 2, <<>>)}

\* What the writers lose, each for a reason of its own.
MCNullFirst == {FileTable(FileColumns(<<"int">>, TRUE), <<<<Null>>, <<2>>>>, 2, <<>>)}
MCStringsOnly == {FileTable(FileColumns(<<"string">>, FALSE), <<<<StrA>>, <<StrB>>>>, 2, <<>>)}
MCIntsOnly == {FileTable(FileColumns(<<"int">>, FALSE), <<<<1>>, <<2>>>>, 2, <<>>)}
=============================================================================
