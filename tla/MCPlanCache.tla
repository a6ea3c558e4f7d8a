----------------------------- MODULE MCPlanCache -----------------------------
EXTENDS PlanCache

CONSTANTS query, drop, create, meta, c1, c2

(* A query with and without MVCC, one on a meta table, and the statements  *)
(* that drop and create the table it reads.                                *)
MCKinds == {[text |-> query, mvcc |-> TRUE], [text |-> query, mvcc |-> FALSE],
            [text |-> drop, mvcc |-> TRUE], [text |-> create, mvcc |-> TRUE],
            [text |-> meta, mvcc |-> TRUE]}

(* One client alone brings an entry to the age at which it has to go.      *)
MCMaxStatements == [c \in Clients |-> IF c = c1 THEN 4 ELSE 1]
===============================================================================
