---------------------------- MODULE JoinOperators ----------------------------
(* Executions of the join operators: an operator is created on its inputs  *)
(* and executes once.                                                      *)
EXTENDS Joins

CONSTANTS LeftTables, RightTables, RadixBits

\* A table with chunks has rows: operators pass on no chunk without any.
TablesAssumption ==
  \A t \in LeftTables \cup RightTables : t \in Seq(Seq(TableRow)) /\ (t # <<>> => Rows(t) # <<>>)
\* (The second part tells the provers what a power of two is.)
RadixAssumption == RadixBits \subseteq Nat /\ \A bits \in RadixBits : 2^bits \in Nat \ {0}
ASSUME TablesAssumption
ASSUME RadixAssumption

VARIABLES left, right, join

joinVars == <<left, right, join>>

NoJoin == [op |-> "none"]
Idle   == [op |-> "idle"]

JoinInit == left \in LeftTables /\ right \in RightTables /\ join = NoJoin
NoJoins  == left = <<>> /\ right = <<>> /\ join = Idle

ExecuteJoin(c) == join' = c /\ UNCHANGED <<left, right>>

Result(op, j, rows) == [op |-> op, join |-> j, rows |-> rows, fails |-> FALSE]

JoinNestedLoop == \E j \in Join : ExecuteJoin(Result("JoinNestedLoop", j, NestedLoopJoin(j, left, right)))

JoinHash ==
  \E j \in Join, bits \in RadixBits :
    SupportsHash(j) /\ ExecuteJoin(Result("JoinHash", j, HashJoin(j, left, right, bits)))

JoinSortMerge ==
  \E j \in Join :
    /\ SupportsSortMerge(j)
    /\ ExecuteJoin(IF SortMergeJoinFails(j, left, right)
                   THEN [Result("JoinSortMerge", j, <<>>) EXCEPT !.fails = TRUE]
                   ELSE Result("JoinSortMerge", j, SortMergeJoin(j, left, right)))

JoinIndex ==
  \E j \in Join, side \in {"left", "right"} :
    \E indexed \in {{}, {1}, DOMAIN (IF side = "left" THEN left ELSE right)} :
      ~j.sec /\ ExecuteJoin([op |-> "JoinIndex", join |-> j, rows |-> IndexJoin(j, left, right, side, indexed),
                             fails |-> FALSE, side |-> side, indexed |-> indexed])

\* Two tables are joined once.
JoinNext == join = NoJoin /\ (JoinNestedLoop \/ JoinHash \/ JoinSortMerge \/ JoinIndex)

JoinSpec == JoinInit /\ [][JoinNext]_joinVars

-----------------------------------------------------------------------------
(* Properties.  A call is exact if it returns each row of the verification *)
(* join once and no other.                                                 *)

Exact(c) ==
  /\ ~c.fails
  /\ ToSet(c.rows) = Verified(c.join, left, right)
  /\ Cardinality(ToSet(c.rows)) = Len(c.rows)

\* The nested loop join returns what the verification join does, for every mode,
\* condition, secondary predicate and placement of NULLs, sides changed or not.
NestedLoopJoinExact == join.op = "JoinNestedLoop" => Exact(join)

\* The hash join is exact whatever side is built, however many radix partitions there
\* are, whether or not one of them is empty, although NULLs hash like the first value
\* and different values share a slot of the bloom filters.
HashJoinExact == join.op = "JoinHash" => Exact(join)

\* The sort-merge join is exact for equi-joins, outer ones with secondary predicates
\* included, and for inner joins with any condition: no pair of runs is lost or met
\* twice at the border of a cluster.
SortMergeJoinExact ==
  join.op = "JoinSortMerge" /\ (join.join.cond = "=" \/ join.join.mode = "Inner") => Exact(join)

\* An outer sort-merge join on an inequality that does not fail returns every pair
\* once, invents no row, and keeps all rows whose key is NULL.  (It may lose other rows
\* without a partner: SortMergeOuterExact.)
SortMergeOuterKeepsPairs ==
  join.op = "JoinSortMerge" /\ ~join.fails =>
    LET verified == Verified(join.join, left, right)
        returned == ToSet(join.rows)
    IN /\ returned \subseteq verified
       /\ Cardinality(returned) = Len(join.rows)
       /\ \A p \in verified \ returned :
            \/ p[1] = NoRow /\ Key(right, p[2]) # Null
            \/ p[2] = NoRow /\ Key(left, p[1]) # Null

\* Violated: the outer rows of a non-equi join are those "that do not find a join
\* partner" (_right_outer_non_equi_join and _left_outer_non_equi_join, comments).
SortMergeOuterExact == join.op = "JoinSortMerge" => Exact(join)

\* The index join is exact with an index on all, some or none of the chunks of either
\* side, but for an AntiNullAsTrue join that is indexed on the side it returns.
IndexJoinExact == join.op = "JoinIndex" /\ ~(join.join.mode = "AntiNullAsTrue" /\ join.side = "left") => Exact(join)

\* Violated: with the index on the left, one NULL in an indexed chunk takes all rows
\* of that chunk out of an AntiNullAsTrue join.
IndexAntiExact == join.op = "JoinIndex" => Exact(join)
=============================================================================
