------------------------------- MODULE Optimizer -------------------------------
(* The optimizer: the plan of a query goes through the rules, each once and *)
(* in their order.  What a rule leaves to estimates of cost or cardinality  *)
(* may turn out either way.                                                 *)
EXTENDS PredicateRules, PlanRules

CONSTANT Queries  \* plans as the SQL translator makes them

VARIABLES query, plan, rule

optimizerVars == <<query, plan, rule>>

Rules == <<"ExpressionReduction", "SplitConjunctions", "JoinOrdering", "BetweenComposition",
           "PredicatePlacement", "SplitDisjunctions", "ColumnPruning", "SemiJoinReduction",
           "PredicatePlacement", "ChunkPruning", "PredicateReordering", "InExpressionRewrite",
           "PredicateMerge">>
NoRules == 0

OptimizerInit == query \in Queries /\ plan = query /\ rule = 1
NoOptimizer   == query = <<>> /\ plan = <<>> /\ rule = NoRules

ApplyRule(name, plans) ==
  /\ rule \in DOMAIN Rules
  /\ Rules[rule] = name
  /\ plan' \in {Compact(p) : p \in plans}
  /\ rule' = rule + 1
  /\ UNCHANGED query

ReduceExpressions   == ApplyRule("ExpressionReduction", {ExpressionReduction(plan)})
SplitConjunctions   == ApplyRule("SplitConjunctions", {PredicateSplitUp(plan, FALSE)})
OrderJoins          == ApplyRule("JoinOrdering", JoinOrdering(plan))
ComposeBetweens     == ApplyRule("BetweenComposition", {BetweenComposition(plan, 1)})
PlacePredicates     == ApplyRule("PredicatePlacement", {PredicatePlacement(plan, sides) : sides \in SUBSET {"l", "r"}})
SplitDisjunctions   == ApplyRule("SplitDisjunctions", {PredicateSplitUp(plan, TRUE)})
PruneColumns        == ApplyRule("ColumnPruning", ColumnPruning(plan))
ReduceJoins         == ApplyRule("SemiJoinReduction", SemiJoinReduction(plan))
PruneChunks         == ApplyRule("ChunkPruning", {ChunkPruning(plan, 1)})
ReorderPredicates   ==
  ApplyRule("PredicateReordering",
            {PredicateReordering(plan, many) : many \in SUBSET {n \in DOMAIN plan : IsPredicateStyle(plan[n])}})
RewriteInExpressions == ApplyRule("InExpressionRewrite", {InExpressionRewrite(plan)})
MergePredicates     == ApplyRule("PredicateMerge", {PredicateMerge(plan)})

OptimizerNext ==
  \/ ReduceExpressions \/ SplitConjunctions \/ OrderJoins \/ ComposeBetweens \/ PlacePredicates
  \/ SplitDisjunctions \/ PruneColumns \/ ReduceJoins \/ PruneChunks \/ ReorderPredicates
  \/ RewriteInExpressions \/ MergePredicates

-----------------------------------------------------------------------------
\* After every rule the plan is one the translator takes and returns what the query asks
\* for, whatever the estimates say: a rule may assume no more of a plan than the rules
\* before it leave (optimizer.cpp, create_default_optimizer and its comments).
PlanKeepsResult == rule # NoRules => WellFormed(plan) /\ PlanResult(plan) = PlanResult(query)
=============================================================================
