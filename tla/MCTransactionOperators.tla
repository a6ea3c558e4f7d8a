-------------------------- MODULE MCTransactionOperators --------------------------
(* Instances of TransactionOperators for TLC.                              *)
EXTENDS TransactionOperators

\* The plan of an UPDATE: its root is the only read/write operator.  Two of the
\* read-only operators share an input, as merged subplans do.
StatementOps    == {"getTable", "left", "right", "union", "update"}
StatementRW     == {"update"}
StatementInputs == [o \in StatementOps |->
                      CASE o = "getTable"          -> {}
                        [] o \in {"left", "right"} -> {"getTable"}
                        [] o = "union"             -> {"left", "right"}
                        [] OTHER                   -> {"union"}]

\* The same read-only operators next to a read/write operator that does not depend
\* on them.
ParallelInputs == [StatementInputs EXCEPT !["update"] = {}]
BothPlans      == {StatementInputs, ParallelInputs}

\* Two writers side by side.
Writers     == {"insert", "delete"}
WriterPlans == {[o \in Writers |-> {}]}
====================================================================================
