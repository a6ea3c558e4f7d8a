--------------------------- MODULE TransactionOperators ---------------------------
(***************************************************************************)
(* The operators of one transaction, executed as tasks: OperatorTask       *)
(* (src/lib/scheduler/operator_task.cpp), execute() of AbstractOperator    *)
(* and AbstractReadWriteOperator (src/lib/operators) and the part of       *)
(* TransactionContext that they call.                                      *)
(*                                                                         *)
(* An operator's task becomes ready when the tasks of its inputs have      *)
(* returned (TaskScheduler); ready tasks run in parallel.  What an         *)
(* operator computes is its output table, or, for a read/write operator,   *)
(* whether it ran into a conflict with another transaction.                *)
(***************************************************************************)
EXTENDS Naturals, FiniteSets

CONSTANTS
  Ops,     \* the operators of the plan
  RW,      \* those that are read/write operators; they have no output
  Plans    \* possible plans: the left and right input of each operator

\* A plan is a finite graph without cycles: in every part of it some operator has no
\* consumer.
ASSUME PlanAssumption ==
  /\ IsFiniteSet(Ops) /\ RW \subseteq Ops
  /\ Plans \subseteq [Ops -> SUBSET (Ops \ RW)]
  /\ \A plan \in Plans : \A S \in (SUBSET Ops) \ {{}} : \E o \in S : \A q \in S : o \notin plan[q]

VARIABLES
  Inputs,      \* _left_input and _right_input
  phase,       \* TransactionContext::_phase
  active,      \* _num_active_operators
  registered,  \* _read_write_operators
  state,       \* ReadWriteOperatorState
  output,      \* AbstractOperator::_output: "null", "table" or, once cleared, "cleared"
  done,        \* tasks with _done
  pc           \* of the task of each operator

vars == <<Inputs, phase, active, registered, state, output, done, pc>>

Labels == {"waiting", "register", "aborted", "start", "run", "finish", "executed", "conflict",
           "checkActive", "predicate", "blocked", "rollback", "rolledBack", "cleanup", "returned",
           "done", "assertion"}

TypeOK ==
  /\ Inputs \in Plans
  /\ phase \in {"Active", "Conflicted", "RolledBackAfterConflict"}
  /\ active = Cardinality({o \in Ops : pc[o] \in {"run", "finish"}})
  /\ registered \subseteq RW /\ done \subseteq Ops
  /\ state \in [RW -> {"Pending", "Executed", "Conflicted", "RolledBack"}]
  /\ output \in [Ops -> {"null", "table", "cleared"}]
  /\ pc \in [Ops -> Labels]

Init ==
  /\ Inputs \in Plans
  /\ phase = "Active" /\ active = 0 /\ registered = {}
  /\ state = [o \in RW |-> "Pending"]
  /\ output = [o \in Ops |-> "null"]
  /\ done = {}
  /\ pc = [o \in Ops |-> "waiting"]

Goto(o, from, to) == pc[o] = from /\ pc' = [pc EXCEPT ![o] = to]
Aborted == phase \in {"Conflicted", "RolledBackAfterConflict"}
Consumers(p) == {o \in Ops : p \in Inputs[o]}

----------------------------------------------------------------------------
(* OperatorTask::_on_execute, up to the execution of the operator.         *)

\* Mutant: the inputs need not have returned.
BeginUnready(o) ==
  /\ Goto(o, "waiting", IF ~Aborted THEN IF o \in RW THEN "register" ELSE "aborted"
                        ELSE IF o \in RW /\ state[o] = "Pending" THEN "assertion" ELSE "returned")
  /\ UNCHANGED <<phase, active, registered, state, output, done>>

\* The tasks of an aborted transaction skip their operators; of a read/write
\* operator they call rollback_records first, which wants it executed.
BeginTask(o) ==
  /\ \A p \in Inputs[o] : pc[p] \in {"returned", "done"}
  /\ Goto(o, "waiting", IF ~Aborted THEN IF o \in RW THEN "register" ELSE "aborted"
                        ELSE IF o \in RW /\ state[o] = "Pending" THEN "assertion" ELSE "returned")
  /\ UNCHANGED <<phase, active, registered, state, output, done>>

Register(o) ==
  /\ Goto(o, "register", "aborted")
  /\ registered' = registered \cup {o}
  /\ UNCHANGED <<phase, active, state, output, done>>

----------------------------------------------------------------------------
(* AbstractOperator::execute and AbstractReadWriteOperator::execute.       *)

AfterExecute(o) == IF o \in RW THEN "executed" ELSE "cleanup"

CheckAborted(o) ==
  /\ Goto(o, "aborted", IF ~Aborted THEN "start" ELSE AfterExecute(o))
  /\ UNCHANGED <<phase, active, registered, state, output, done>>

OnOperatorStarted(o) ==
  /\ Goto(o, "start", "run")
  /\ active' = active + 1
  /\ UNCHANGED <<phase, registered, state, output, done>>

ReadOnly(o) ==
  /\ o \notin RW /\ Goto(o, "run", "finish")
  /\ output' = [output EXCEPT ![o] = "table"]
  /\ UNCHANGED <<phase, active, registered, state, done>>

\* _on_execute may call _mark_as_failed.
ReadWrite(o) ==
  /\ o \in RW /\ Goto(o, "run", "finish")
  /\ \E result \in {"Pending", "Conflicted"} : state' = [state EXCEPT ![o] = result]
  /\ UNCHANGED <<phase, active, registered, output, done>>

\* on_operator_finished: the last active operator notifies those who wait.
OnOperatorFinished(o) ==
  /\ pc[o] = "finish"
  /\ active' = active - 1
  /\ pc' = [q \in Ops |-> IF q = o THEN AfterExecute(o)
                          ELSE IF active = 1 /\ pc[q] = "blocked" THEN "predicate" ELSE pc[q]]
  /\ UNCHANGED <<phase, registered, state, output, done>>

\* A read/write operator that has not failed counts as executed, also when it has
\* found the transaction aborted; one that has failed rolls the transaction back.
RecordState(o) ==
  /\ pc[o] = "executed"
  /\ IF state[o] = "Conflicted"
     THEN Goto(o, "executed", "conflict") /\ UNCHANGED state
     ELSE Goto(o, "executed", "cleanup") /\ state' = [state EXCEPT ![o] = "Executed"]
  /\ UNCHANGED <<phase, active, registered, output, done>>

----------------------------------------------------------------------------
(* TransactionContext::rollback(RollbackReason::Conflict).                 *)

MarkAsConflicted(o) ==
  /\ IF phase = "Active" THEN Goto(o, "conflict", "checkActive") /\ phase' = "Conflicted"
     ELSE Goto(o, "conflict", "assertion") /\ UNCHANGED phase
  /\ UNCHANGED <<active, registered, state, output, done>>

\* Mutant: without active operators there is no early return.
AlwaysWait(o) ==
  /\ Goto(o, "checkActive", "predicate")
  /\ UNCHANGED <<phase, active, registered, state, output, done>>

\* _wait_for_active_operators_to_finish: nothing to wait for, or a wait on the
\* condition variable, whose predicate is that operators ARE active.
CheckActive(o) ==
  /\ Goto(o, "checkActive", IF active = 0 THEN "rollback" ELSE "predicate")
  /\ UNCHANGED <<phase, active, registered, state, output, done>>

EvaluatePredicate(o) ==
  /\ Goto(o, "predicate", IF active # 0 THEN "rollback" ELSE "blocked")
  /\ UNCHANGED <<phase, active, registered, state, output, done>>

\* Mutant: the operator that failed is left out.
RollbackOthers(o) ==
  /\ Goto(o, "rollback", "rolledBack")
  /\ state' = [r \in RW |-> IF r # o /\ r \in registered THEN "RolledBack" ELSE state[r]]
  /\ UNCHANGED <<phase, active, registered, output, done>>

RollbackRecords(o) ==
  /\ IF \A r \in registered : state[r] \in {"Conflicted", "Executed"}
     THEN /\ Goto(o, "rollback", "rolledBack")
          /\ state' = [r \in RW |-> IF r \in registered THEN "RolledBack" ELSE state[r]]
     ELSE Goto(o, "rollback", "assertion") /\ UNCHANGED state
  /\ UNCHANGED <<phase, active, registered, output, done>>

MarkAsRolledBack(o) ==
  /\ Goto(o, "rolledBack", "cleanup")
  /\ phase' = "RolledBackAfterConflict"
  /\ UNCHANGED <<active, registered, state, output, done>>

----------------------------------------------------------------------------
(* The end of OperatorTask::_on_execute, and of the task.                  *)

\* Mutant: the other consumers are not asked.
ClearAllInputs(o) ==
  /\ Goto(o, "cleanup", "returned")
  /\ output' = [p \in Ops |-> IF p \in Inputs[o] THEN "cleared" ELSE output[p]]
  /\ UNCHANGED <<phase, active, registered, state, done>>

\* An input that no other consumer needs any more is cleared.
ClearInputs(o) ==
  /\ Goto(o, "cleanup", "returned")
  /\ output' = [p \in Ops |-> IF p \in Inputs[o] /\ Consumers(p) \ {o} \subseteq done
                              THEN "cleared" ELSE output[p]]
  /\ UNCHANGED <<phase, active, registered, state, done>>

\* The successors have been told; only then the task is done.
SetDone(o) ==
  /\ Goto(o, "returned", "done")
  /\ done' = done \cup {o}
  /\ UNCHANGED <<phase, active, registered, state, output>>

----------------------------------------------------------------------------
Task(o) == BeginTask(o) \/ Register(o) \/ CheckAborted(o) \/ OnOperatorStarted(o) \/ ReadOnly(o)
           \/ ReadWrite(o) \/ OnOperatorFinished(o) \/ RecordState(o) \/ MarkAsConflicted(o)
           \/ CheckActive(o) \/ EvaluatePredicate(o) \/ RollbackRecords(o) \/ MarkAsRolledBack(o)
           \/ ClearInputs(o) \/ SetDone(o)

SpuriousWakeup(o) ==
  /\ Goto(o, "blocked", "predicate")
  /\ UNCHANGED <<phase, active, registered, state, output, done>>

Next == (\E o \in Ops : Task(o) \/ SpuriousWakeup(o)) /\ UNCHANGED Inputs

Spec == Init /\ [][Next]_vars

\* The workers are scheduled.
FairSpec == Spec /\ \A o \in Ops : WF_vars(Task(o) /\ UNCHANGED Inputs)

----------------------------------------------------------------------------
(* Properties.                                                             *)

\* An operator that runs finds the tables of its inputs, although tasks of other
\* consumers clear them, and although an aborted transaction's tasks are skipped.
InputsAvailable == \A o \in Ops : pc[o] = "run" => \A p \in Inputs[o] : output[p] = "table"

\* A transaction that counts as rolled back has rolled back every operator that
\* has done, or is doing, any work.
RolledBackCompletely ==
  phase = "RolledBackAfterConflict" =>
    /\ \A o \in RW : pc[o] # "run"
    /\ \A o \in registered : state[o] = "RolledBack"

\* The plan of a SQL statement: its root is its only read/write operator.
WriterIsRoot == Cardinality(RW) = 1 /\ \A o \in Ops \ RW : Consumers(o) # {}

\* "Not doing so is crucial in order to make sure no other tasks of the Transaction
\* run while the Rollback happens" (abstract_operator.cpp:44): this needs the plan of
\* a SQL statement, since the wait for active operators does not achieve it.
NoOperatorRunsDuringRollback ==
  WriterIsRoot =>
    \A o, q \in Ops : pc[o] \in {"rollback", "rolledBack"} => pc[q] # "run"

\* "Sets the transaction phase to Conflicted and waits for operators to finish"
\* (transaction_context.hpp:159): a conflict ends in a rolled back transaction.
ConflictIsRolledBack == phase = "Conflicted" ~> phase = "RolledBackAfterConflict"

\* In the plan of a SQL statement it does: nothing is left to wait for.
StatementConflictIsRolledBack ==
  WriterIsRoot /\ phase = "Conflicted" ~> phase = "RolledBackAfterConflict"

\* "Essentially a noop ... Better be on the safe side" (operator_task.cpp:69): to
\* skip an operator of an aborted transaction does not end the process.
SkippedOperatorIsNoop == \A o \in Ops : pc[o] # "assertion"

\* "Get rid of temporary tables that are not needed anymore" (operator_task.cpp:98):
\* when the plan has been executed only its root still has an output.
TemporaryTablesAreCleared ==
  done = Ops /\ phase = "Active" => \A p \in Ops : Consumers(p) # {} => output[p] = "cleared"

\* The variables have their types; a rollback is complete, and alone (transaction_context.cpp,
\* operator_task.cpp).
RollbackConsistent == TypeOK /\ RolledBackCompletely /\ NoOperatorRunsDuringRollback
====================================================================================
