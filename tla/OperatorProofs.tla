---------------------------- MODULE OperatorProofs ----------------------------
(***************************************************************************)
(* The operators of a plan.  TransactionOperators is correct for every     *)
(* finite plan: operators find the tables of their inputs in any plan, and *)
(* a rollback is complete, and alone, in the plans that the SQL translator *)
(* makes, which have at most one read/write operator.  Of JoinOperators,   *)
(* the nested loop, hash and index join are exact for all tables, modes,   *)
(* conditions, bloom filters, radix partitions and sets of indexed chunks. *)
(***************************************************************************)
EXTENDS TransactionOperators, JoinOperators, FiniteSetTheorems, SequenceTheorems, WellFoundedInduction, TLAPS


Returned == {"returned", "done"}
Running  == {o \in Ops : pc[o] \in {"run", "finish"}}

\* Only read/write operators register, fail and roll back.
WriterLabels == {"register", "executed", "conflict", "checkActive", "predicate", "blocked", "rollback",
                 "rolledBack", "assertion"}
WritersOnly  == \A o \in Ops : pc[o] \in WriterLabels => o \in RW

\* An operator begins after its inputs have returned.
BegunInOrder ==
  /\ done = {o \in Ops : pc[o] = "done"}
  /\ \A o \in Ops : pc[o] # "waiting" => \A p \in Inputs[o] : pc[p] \in Returned

\* The tables: what has been executed has one, unless the transaction aborted; it is cleared
\* after the last consumer; and it is there for those that are about to use it.
Tables ==
  /\ \A p \in Ops \ RW : pc[p] \in {"finish", "cleanup", "returned", "done"} => output[p] # "null" \/ Aborted
  /\ \A p \in Ops : output[p] = "cleared" => \A o \in Ops : p \in Inputs[o] => pc[o] \in Returned
  /\ \A o \in Ops : pc[o] \in {"start", "run"} => \A p \in Inputs[o] : output[p] = "table"

IInv == TypeOK /\ WritersOnly /\ BegunInOrder /\ Tables

LEMMA PlanFacts ==
  ASSUME TypeOK
  PROVE  /\ Inputs \in [Ops -> SUBSET (Ops \ RW)] /\ IsFiniteSet(Ops) /\ RW \subseteq Ops
         /\ \A o \in Ops : \A p \in Inputs[o] : p \in Ops /\ p \notin RW
BY PlanAssumption DEF TypeOK

LEMMA InitIInv == Init => IInv
<1> SUFFICES ASSUME Init PROVE IInv
  OBVIOUS
<1>1. \A o \in Ops : pc[o] = "waiting"
  BY DEF Init
<1>2. {o \in Ops : pc[o] \in {"run", "finish"}} = {}
  BY <1>1
<1>3. Cardinality({o \in Ops : pc[o] \in {"run", "finish"}}) = 0
  BY <1>2, FS_EmptySet
<1>4. TypeOK
  BY <1>3, PlanAssumption DEF Init, TypeOK, Labels
<1>5. WritersOnly /\ BegunInOrder
  BY <1>1 DEF Init, WritersOnly, BegunInOrder, WriterLabels
<1>6. Tables
  BY <1>1 DEF Init, Tables
<1>7. QED
  BY <1>4, <1>5, <1>6 DEF IInv

\* An operator that moves leaves the others where they are; the last one that finishes also
\* wakes the blocked ones.
LEMMA Moves ==
  ASSUME TypeOK, NEW o \in Ops, Task(o) \/ SpuriousWakeup(o)
  PROVE  /\ pc' \in [Ops -> Labels]
         /\ \A q \in Ops : q # o => pc'[q] = pc[q] \/ (pc[q] = "blocked" /\ pc'[q] = "predicate")
         /\ \A q \in Ops : q # o /\ pc'[q] # pc[q] => OnOperatorFinished(o) /\ active = 1
<1>1. pc \in [Ops -> Labels]
  BY DEF TypeOK
<1>2. CASE OnOperatorFinished(o)
  BY <1>1, <1>2 DEF OnOperatorFinished, AfterExecute, Labels
<1>3. CASE BeginTask(o)
  BY <1>1, <1>3 DEF BeginTask, Goto, Labels
<1>4. CASE CheckAborted(o) \/ EvaluatePredicate(o) \/ CheckActive(o)
  BY <1>1, <1>4 DEF CheckAborted, EvaluatePredicate, CheckActive, Goto, AfterExecute, Labels
<1>5. CASE Register(o) \/ OnOperatorStarted(o) \/ ReadOnly(o) \/ ReadWrite(o)
  BY <1>1, <1>5 DEF Register, OnOperatorStarted, ReadOnly, ReadWrite, Goto, Labels
<1>6. CASE RecordState(o)
  BY <1>1, <1>6 DEF RecordState, Goto, Labels
<1>7. CASE MarkAsConflicted(o)
  BY <1>1, <1>7 DEF MarkAsConflicted, Goto, Labels
<1>8. CASE RollbackRecords(o)
  BY <1>1, <1>8 DEF RollbackRecords, Goto, Labels
<1>9. CASE MarkAsRolledBack(o) \/ ClearInputs(o) \/ SetDone(o) \/ SpuriousWakeup(o)
  BY <1>1, <1>9 DEF MarkAsRolledBack, ClearInputs, SetDone, SpuriousWakeup, Goto, Labels
<1>10. QED
  BY <1>2, <1>3, <1>4, <1>5, <1>6, <1>7, <1>8, <1>9 DEF Task

LEMMA ActiveStep ==
  ASSUME TypeOK, NEW o \in Ops, Task(o) \/ SpuriousWakeup(o)
  PROVE  active' = Cardinality(Running')
<1>1. pc \in [Ops -> Labels] /\ active = Cardinality(Running)
  BY DEF TypeOK, Running
<1>2. IsFiniteSet(Running)
  BY PlanAssumption, FS_Subset DEF Running
<1>3. \A q \in Ops : q # o => (q \in Running' <=> q \in Running)
  BY Moves DEF Running
<1>4. CASE OnOperatorStarted(o)
  <2>1. pc[o] = "start" /\ pc'[o] = "run" /\ active' = active + 1
    BY <1>1, <1>4 DEF OnOperatorStarted, Goto
  <2>2. Running' = Running \cup {o} /\ o \notin Running
    BY <1>3, <2>1 DEF Running
  <2>3. QED
    BY <1>1, <1>2, <2>1, <2>2, FS_AddElement
<1>5. CASE OnOperatorFinished(o)
  <2>1. pc[o] = "finish" /\ pc'[o] \in {"executed", "cleanup"} /\ active' = active - 1
    BY <1>1, <1>5 DEF OnOperatorFinished, AfterExecute
  <2>2. Running' = Running \ {o} /\ o \in Running
    BY <1>3, <2>1 DEF Running
  <2>3. QED
    BY <1>1, <1>2, <2>1, <2>2, FS_RemoveElement
<1>6. CASE ~OnOperatorStarted(o) /\ ~OnOperatorFinished(o)
  <2>1. active' = active
    BY <1>6 DEF Task, BeginTask, Register, CheckAborted, ReadOnly, ReadWrite, RecordState, MarkAsConflicted,
      CheckActive, EvaluatePredicate, RollbackRecords, MarkAsRolledBack, ClearInputs, SetDone, SpuriousWakeup
  <2>2. o \in Running' <=> o \in Running
    <3>1. CASE ReadOnly(o) \/ ReadWrite(o)
      BY <1>1, <3>1 DEF ReadOnly, ReadWrite, Goto, Running
    <3>2. CASE BeginTask(o) \/ Register(o) \/ CheckAborted(o) \/ SpuriousWakeup(o) \/ RecordState(o)
      BY <1>1, <3>2 DEF BeginTask, Register, CheckAborted, SpuriousWakeup, RecordState, Goto, AfterExecute, Running
    <3>3. CASE MarkAsConflicted(o) \/ CheckActive(o) \/ EvaluatePredicate(o)
      BY <1>1, <3>3 DEF MarkAsConflicted, CheckActive, EvaluatePredicate, Goto, Running
    <3>4. CASE RollbackRecords(o) \/ MarkAsRolledBack(o) \/ ClearInputs(o) \/ SetDone(o)
      BY <1>1, <3>4 DEF RollbackRecords, MarkAsRolledBack, ClearInputs, SetDone, Goto, Running
    <3>5. QED
      BY <1>6, <3>1, <3>2, <3>3, <3>4 DEF Task
  <2>3. Running' = Running
    BY <1>3, <2>2 DEF Running
  <2>4. QED
    BY <1>1, <2>1, <2>3
<1>7. QED
  BY <1>4, <1>5, <1>6

LEMMA TypeStep ==
  ASSUME IInv, NEW o \in Ops, Task(o) \/ SpuriousWakeup(o), Inputs' = Inputs
  PROVE  TypeOK'
<1>1. TypeOK /\ WritersOnly
  BY DEF IInv
<1>2. pc' \in [Ops -> Labels] /\ active' = Cardinality({q \in Ops : pc'[q] \in {"run", "finish"}})
  BY <1>1, Moves, ActiveStep DEF Running
<1>3. Register(o) => o \in RW
  BY <1>1 DEF Register, Goto, WritersOnly, WriterLabels
<1> SUFFICES /\ phase' \in {"Active", "Conflicted", "RolledBackAfterConflict"}
             /\ registered' \subseteq RW /\ done' \subseteq Ops
             /\ state' \in [RW -> {"Pending", "Executed", "Conflicted", "RolledBack"}]
             /\ output' \in [Ops -> {"null", "table", "cleared"}]
  BY <1>1, <1>2 DEF TypeOK
<1>4. CASE BeginTask(o) \/ Register(o) \/ CheckAborted(o) \/ OnOperatorStarted(o) \/ OnOperatorFinished(o)
  BY <1>1, <1>3, <1>4 DEF TypeOK, BeginTask, Register, CheckAborted, OnOperatorStarted, OnOperatorFinished
<1>5. CASE ReadOnly(o)
  BY <1>1, <1>5 DEF TypeOK, ReadOnly
<1>6. CASE ReadWrite(o) \/ RecordState(o)
  BY <1>1, <1>6 DEF TypeOK, ReadWrite, RecordState
<1>7. CASE MarkAsConflicted(o) \/ CheckActive(o) \/ EvaluatePredicate(o) \/ MarkAsRolledBack(o)
  BY <1>1, <1>7 DEF TypeOK, MarkAsConflicted, CheckActive, EvaluatePredicate, MarkAsRolledBack
<1>8. CASE RollbackRecords(o)
  BY <1>1, <1>8 DEF TypeOK, RollbackRecords
<1>9. CASE ClearInputs(o)
  BY <1>1, <1>9 DEF TypeOK, ClearInputs
<1>10. CASE SetDone(o) \/ SpuriousWakeup(o)
  BY <1>1, <1>10 DEF TypeOK, SetDone, SpuriousWakeup
<1>11. QED
  BY <1>4, <1>5, <1>6, <1>7, <1>8, <1>9, <1>10 DEF Task

\* Where a step takes the operator that makes it.
LEMMA Course ==
  ASSUME IInv, NEW o \in Ops, Task(o) \/ SpuriousWakeup(o)
  PROVE  /\ pc[o] = "waiting" => BeginTask(o)
         /\ pc'[o] # "waiting"
         /\ pc[o] \in Returned => pc'[o] = "done" /\ SetDone(o)
         /\ pc'[o] = "done" => SetDone(o)
         /\ pc'[o] \in WriterLabels => o \in RW
         /\ o \notin RW /\ pc'[o] \in {"finish", "cleanup", "returned", "done"} =>
              Aborted \/ ReadOnly(o) \/ pc[o] \in {"finish", "cleanup", "returned", "done"}
         /\ pc'[o] \in {"start", "run"} => pc[o] = "start" \/ (CheckAborted(o) /\ ~Aborted)
<1>1. pc \in [Ops -> Labels] /\ (pc[o] \in WriterLabels => o \in RW)
  BY DEF IInv, TypeOK, WritersOnly
<1> USE DEF Goto, Returned, WriterLabels
<1>2. CASE BeginTask(o)
  BY <1>1, <1>2 DEF BeginTask
<1>3. CASE Register(o) \/ CheckAborted(o)
  BY <1>1, <1>3 DEF Register, CheckAborted, AfterExecute
<1>4. CASE OnOperatorStarted(o) \/ ReadOnly(o) \/ ReadWrite(o)
  BY <1>1, <1>4 DEF OnOperatorStarted, ReadOnly, ReadWrite
<1>5. CASE OnOperatorFinished(o)
  BY <1>1, <1>5 DEF OnOperatorFinished, AfterExecute
<1>6. CASE RecordState(o)
  BY <1>1, <1>6 DEF RecordState
<1>7. CASE MarkAsConflicted(o) \/ CheckActive(o) \/ EvaluatePredicate(o) \/ SpuriousWakeup(o)
  BY <1>1, <1>7 DEF MarkAsConflicted, CheckActive, EvaluatePredicate, SpuriousWakeup
<1>8. CASE RollbackRecords(o) \/ MarkAsRolledBack(o)
  BY <1>1, <1>8 DEF RollbackRecords, MarkAsRolledBack
<1>9. CASE ClearInputs(o) \/ SetDone(o)
  BY <1>1, <1>9 DEF ClearInputs, SetDone
<1>10. QED
  BY <1>2, <1>3, <1>4, <1>5, <1>6, <1>7, <1>8, <1>9 DEF Task

\* Steps that write a variable, and the course of the phase.
LEMMA Writes ==
  ASSUME TypeOK, NEW o \in Ops, Task(o) \/ SpuriousWakeup(o)
  PROVE  /\ Aborted => Aborted'
         /\ ~ReadOnly(o) /\ ~ClearInputs(o) => output' = output
         /\ ~SetDone(o) => done' = done
         /\ ~MarkAsConflicted(o) /\ ~MarkAsRolledBack(o) => phase' = phase
         /\ ~Register(o) => registered' = registered
         /\ ~ReadWrite(o) /\ ~RecordState(o) /\ ~RollbackRecords(o) => state' = state
<1>1. CASE BeginTask(o) \/ Register(o) \/ CheckAborted(o) \/ OnOperatorStarted(o) \/ OnOperatorFinished(o)
  BY <1>1 DEF BeginTask, Register, CheckAborted, OnOperatorStarted, OnOperatorFinished, Aborted
<1>2. CASE ReadOnly(o) \/ ReadWrite(o) \/ RecordState(o)
  BY <1>2 DEF ReadOnly, ReadWrite, RecordState, Aborted
<1>3. CASE MarkAsConflicted(o) \/ CheckActive(o) \/ EvaluatePredicate(o) \/ MarkAsRolledBack(o)
  BY <1>3 DEF MarkAsConflicted, CheckActive, EvaluatePredicate, MarkAsRolledBack, Aborted
<1>4. CASE RollbackRecords(o)
  BY <1>4 DEF RollbackRecords, Aborted
<1>5. CASE ClearInputs(o) \/ SetDone(o) \/ SpuriousWakeup(o)
  BY <1>5 DEF ClearInputs, SetDone, SpuriousWakeup, Aborted
<1>6. QED
  BY <1>1, <1>2, <1>3, <1>4, <1>5 DEF Task

LEMMA OrderStep ==
  ASSUME IInv, NEW o \in Ops, Task(o) \/ SpuriousWakeup(o), Inputs' = Inputs
  PROVE  WritersOnly' /\ BegunInOrder'
<1>1. TypeOK /\ WritersOnly /\ BegunInOrder
  BY DEF IInv
<1>2. WritersOnly'
  BY <1>1, Moves, Course DEF WritersOnly, WriterLabels
<1>3. done' = {q \in Ops : pc'[q] = "done"}
  <2>1. \A q \in Ops : q # o => (pc'[q] = "done" <=> pc[q] = "done")
    BY <1>1, Moves
  <2>2. CASE SetDone(o)
    BY <1>1, <2>1, <2>2 DEF SetDone, Goto, BegunInOrder, TypeOK
  <2>3. CASE ~SetDone(o)
    <3>1. done' = done /\ pc'[o] # "done" /\ pc[o] # "done"
      BY <1>1, <2>3, Writes, Course DEF Returned
    <3>2. QED
      BY <1>1, <2>1, <3>1 DEF BegunInOrder
  <2>4. QED
    BY <2>2, <2>3
<1>4. \A q \in Ops : pc[q] \in Returned => pc'[q] \in Returned
  BY <1>1, Moves, Course DEF Returned
<1>5. ASSUME NEW q \in Ops, pc'[q] # "waiting", NEW p \in Inputs[q] PROVE pc'[p] \in Returned
  <2>1. p \in Ops
    BY <1>1, PlanFacts
  <2>2. pc[p] \in Returned
    <3>1. CASE pc[q] # "waiting"
      BY <1>1, <3>1 DEF BegunInOrder
    <3>2. CASE pc[q] = "waiting"
      <4>1. q = o /\ BeginTask(o)
        BY <1>1, <1>5, <3>2, Moves, Course
      <4>2. QED
        BY <4>1 DEF BeginTask, Returned
    <3>3. QED
      BY <3>1, <3>2
  <2>3. QED
    BY <1>4, <2>1, <2>2
<1>6. QED
  BY <1>2, <1>3, <1>5 DEF BegunInOrder

LEMMA TablesStep ==
  ASSUME IInv, NEW o \in Ops, Task(o) \/ SpuriousWakeup(o), Inputs' = Inputs
  PROVE  Tables'
<1>1. TypeOK /\ WritersOnly /\ BegunInOrder /\ Tables
  BY DEF IInv
<1>2. /\ \A q \in Ops : q # o => pc'[q] = pc[q] \/ (pc[q] = "blocked" /\ pc'[q] = "predicate")
      /\ pc \in [Ops -> Labels] /\ output \in [Ops -> {"null", "table", "cleared"}]
  BY <1>1, Moves DEF TypeOK
<1>3. \A q \in Ops : pc[q] \in Returned => pc'[q] \in Returned
  BY <1>1, Moves, Course DEF Returned
\* Only the table of o, and those of its inputs, change.
<1>4. /\ \A p \in Ops : output'[p] # output[p] =>
             \/ ReadOnly(o) /\ p = o /\ output'[p] = "table"
             \/ /\ ClearInputs(o) /\ p \in Inputs[o] /\ output'[p] = "cleared"
                /\ \A q \in Ops : q # o /\ p \in Inputs[q] => pc[q] \in Returned
                /\ pc'[o] = "returned"
      /\ ReadOnly(o) => output'[o] = "table"
  <2>1. CASE ReadOnly(o)
    BY <1>2, <2>1 DEF ReadOnly
  <2>2. CASE ClearInputs(o)
    <3>1. \A p \in Ops : output'[p] = IF p \in Inputs[o] /\ Consumers(p) \ {o} \subseteq done THEN "cleared" ELSE output[p]
      BY <2>2 DEF ClearInputs
    <3>2. \A p, q \in Ops : Consumers(p) \ {o} \subseteq done /\ q # o /\ p \in Inputs[q] => pc[q] \in Returned
      BY <1>1 DEF Consumers, BegunInOrder, Returned
    <3>3. pc'[o] = "returned" /\ pc[o] = "cleanup"
      BY <1>2, <2>2 DEF ClearInputs, Goto
    <3>4. ~ReadOnly(o)
      BY <3>3 DEF ReadOnly, Goto
    <3>5. QED
      BY <2>2, <3>1, <3>2, <3>3, <3>4
  <2>3. CASE ~ReadOnly(o) /\ ~ClearInputs(o)
    BY <1>1, <2>3, Writes
  <2>4. QED
    BY <2>1, <2>2, <2>3
<1>5. Aborted => Aborted'
  BY <1>1, Writes
<1>6. ASSUME NEW p \in Ops \ RW, pc'[p] \in {"finish", "cleanup", "returned", "done"}
      PROVE  output'[p] # "null" \/ Aborted'
  <2>1. CASE p # o \/ pc[p] \in {"finish", "cleanup", "returned", "done"}
    <3>1. pc[p] \in {"finish", "cleanup", "returned", "done"}
      BY <1>2, <1>6, <2>1
    <3>2. output[p] # "null" \/ Aborted
      BY <1>1, <3>1 DEF Tables
    <3>3. QED
      BY <1>4, <1>5, <3>2
  <2>2. CASE p = o /\ pc[p] \notin {"finish", "cleanup", "returned", "done"}
    <3>1. Aborted \/ ReadOnly(o)
      BY <1>6, <2>2, Course
    <3>2. QED
      BY <1>4, <1>5, <2>2, <3>1
  <2>3. QED
    BY <2>1, <2>2
<1>7. ASSUME NEW p \in Ops, output'[p] = "cleared", NEW q \in Ops, p \in Inputs[q] PROVE pc'[q] \in Returned
  <2>1. CASE output[p] = "cleared"
    BY <1>1, <1>3, <1>7, <2>1 DEF Tables
  <2>2. CASE output[p] # "cleared"
    <3>1. /\ \A r \in Ops : r # o /\ p \in Inputs[r] => pc[r] \in Returned
          /\ pc'[o] = "returned"
      BY <1>4, <1>7, <2>2
    <3>2. QED
      BY <1>3, <1>7, <3>1 DEF Returned
  <2>3. QED
    BY <2>1, <2>2
<1>8. ASSUME NEW q \in Ops, pc'[q] \in {"start", "run"}, NEW p \in Inputs[q] PROVE output'[p] = "table"
  <2>1. p \in Ops /\ p \notin RW
    BY <1>1, PlanFacts
  <2>2. output[p] = "table"
    <3>1. CASE pc[q] \in {"start", "run"}
      BY <1>1, <3>1 DEF Tables
    <3>2. CASE pc[q] \notin {"start", "run"}
      <4>1. q = o /\ CheckAborted(o) /\ ~Aborted
        BY <1>2, <1>8, <3>2, Course
      <4>2. pc[q] = "aborted"
        BY <4>1 DEF CheckAborted, Goto
      <4>3. pc[p] \in Returned
        BY <1>1, <4>2 DEF BegunInOrder
      <4>4. output[p] # "null"
        BY <1>1, <2>1, <4>1, <4>3 DEF Tables, Returned
      <4>5. output[p] # "cleared"
        BY <1>1, <2>1, <4>2 DEF Tables, Returned
      <4>6. QED
        BY <1>2, <2>1, <4>4, <4>5
    <3>3. QED
      BY <3>1, <3>2
  <2>3. output'[p] # "cleared"
    BY <1>7, <1>8, <2>1 DEF Returned
  <2>4. QED
    BY <1>4, <2>1, <2>2, <2>3
<1>9. QED
  BY <1>6, <1>7, <1>8 DEF Tables

LEMMA Invariance == Spec => []IInv
<1>1. ASSUME IInv, [Next]_vars PROVE IInv'
  <2>1. ASSUME NEW o \in Ops, Task(o) \/ SpuriousWakeup(o), Inputs' = Inputs PROVE IInv'
    BY <1>1, <2>1, TypeStep, OrderStep, TablesStep DEF IInv
  <2>2. CASE UNCHANGED vars
    BY <1>1, <2>2 DEF vars, IInv, TypeOK, WritersOnly, BegunInOrder, Tables, Aborted
  <2>3. QED
    BY <1>1, <2>1, <2>2 DEF Next
<1>2. QED
  BY InitIInv, <1>1, PTL DEF Spec

\* In every plan, an operator that runs finds the tables of its inputs, although the tasks of other
\* consumers clear them, and although an aborted transaction's tasks are skipped
\* (OperatorTask::_on_execute).
THEOREM InputsStayAvailable == Spec => []InputsAvailable
<1>1. IInv => InputsAvailable
  BY DEF IInv, Tables, InputsAvailable
<1>2. QED
  BY <1>1, Invariance, PTL

----------------------------------------------------------------------------
(* Rollbacks, in plans with at most one read/write operator.               *)

OneWriter == \A o, q \in RW : o = q

\* The transaction is active until its writer fails, conflicted while the writer rolls it back,
\* and rolled back once all registered operators are.
EarlyLabels == {"waiting", "register", "aborted", "start", "run", "finish", "executed", "conflict"}
RollbackLabels == {"checkActive", "predicate", "blocked", "rollback", "rolledBack"}
AllRolledBack == \A q \in registered : state[q] = "RolledBack"

WriterCourse ==
  /\ \A o \in RW : /\ pc[o] \in EarlyLabels => phase = "Active"
                   /\ pc[o] \in RollbackLabels => phase = "Conflicted"
                   /\ pc[o] = "rolledBack" => AllRolledBack
  /\ phase = "RolledBackAfterConflict" => AllRolledBack

LEMMA WriterStep ==
  ASSUME OneWriter, IInv, WriterCourse, NEW o \in Ops, Task(o) \/ SpuriousWakeup(o), Inputs' = Inputs
  PROVE  WriterCourse'
<1> USE DEF EarlyLabels, RollbackLabels
<1>1. TypeOK /\ WritersOnly
  BY DEF IInv
<1>2. pc \in [Ops -> Labels] /\ RW \subseteq Ops /\ registered \subseteq RW
  BY <1>1, PlanFacts DEF TypeOK
<1>3. CASE o \notin RW
  <2>1. /\ ~Register(o) /\ ~ReadWrite(o) /\ ~RecordState(o) /\ ~RollbackRecords(o)
        /\ ~MarkAsConflicted(o) /\ ~MarkAsRolledBack(o)
    BY <1>1, <1>3 DEF WritersOnly, WriterLabels, Register, ReadWrite, RecordState, RollbackRecords,
                      MarkAsConflicted, MarkAsRolledBack, Goto
  <2>2. phase' = phase /\ registered' = registered /\ state' = state
    BY <1>1, <2>1, Writes
  <2>3. \A q \in RW : pc'[q] = pc[q] \/ (pc[q] = "blocked" /\ pc'[q] = "predicate")
    BY <1>1, <1>2, <1>3, Moves
  <2>4. QED
    BY <2>2, <2>3 DEF WriterCourse, AllRolledBack
<1>4. CASE o \in RW
  <2>1. SUFFICES /\ pc'[o] \in EarlyLabels => phase' = "Active"
                 /\ pc'[o] \in RollbackLabels => phase' = "Conflicted"
                 /\ pc'[o] = "rolledBack" => AllRolledBack'
                 /\ phase' = "RolledBackAfterConflict" => AllRolledBack'
    <3>1. \A q \in RW : q = o
      BY <1>4 DEF OneWriter
    <3>2. QED
      BY <2>1, <3>1 DEF WriterCourse
  <2>2. /\ pc[o] \in EarlyLabels => phase = "Active"
        /\ pc[o] \in RollbackLabels => phase = "Conflicted"
        /\ pc[o] = "rolledBack" => AllRolledBack
        /\ phase = "RolledBackAfterConflict" => AllRolledBack
    BY <1>4 DEF WriterCourse
  <2>3. CASE BeginTask(o) \/ CheckAborted(o) \/ OnOperatorStarted(o)
    BY <1>2, <1>4, <2>2, <2>3 DEF BeginTask, CheckAborted, OnOperatorStarted, Goto, Aborted, AfterExecute, AllRolledBack
  <2>4. CASE Register(o)
    BY <1>2, <1>4, <2>2, <2>4 DEF Register, Goto
  <2>5. CASE ReadOnly(o) \/ ReadWrite(o)
    BY <1>2, <1>4, <2>2, <2>5 DEF ReadOnly, ReadWrite, Goto
  <2>6. CASE OnOperatorFinished(o)
    BY <1>2, <1>4, <2>2, <2>6 DEF OnOperatorFinished, AfterExecute
  <2>7. CASE RecordState(o)
    BY <1>2, <1>4, <2>2, <2>7 DEF RecordState, Goto
  <2>8. CASE MarkAsConflicted(o)
    BY <1>2, <1>4, <2>2, <2>8 DEF MarkAsConflicted, Goto
  <2>9. CASE CheckActive(o) \/ EvaluatePredicate(o) \/ SpuriousWakeup(o)
    BY <1>2, <1>4, <2>2, <2>9 DEF CheckActive, EvaluatePredicate, SpuriousWakeup, Goto, AllRolledBack
  <2>10. CASE RollbackRecords(o)
    BY <1>2, <1>4, <2>2, <2>10 DEF RollbackRecords, Goto, AllRolledBack
  <2>11. CASE MarkAsRolledBack(o)
    BY <1>2, <1>4, <2>2, <2>11 DEF MarkAsRolledBack, Goto, AllRolledBack
  <2>12. CASE ClearInputs(o) \/ SetDone(o)
    BY <1>2, <1>4, <2>2, <2>12 DEF ClearInputs, SetDone, Goto, AllRolledBack
  <2>13. QED
    BY <2>3, <2>4, <2>5, <2>6, <2>7, <2>8, <2>9, <2>10, <2>11, <2>12 DEF Task
<1>5. QED
  BY <1>3, <1>4

\* In a plan whose root is its only writer, all other operators have returned once it begins: the
\* unreturned ones would each have an unreturned consumer, in a graph without cycles.
LEMMA RootBeginsLast ==
  ASSUME IInv, WriterIsRoot, NEW w \in RW, pc[w] # "waiting", NEW q \in Ops \ RW
  PROVE  pc[q] \in Returned
<1> DEFINE S == {o \in Ops \ RW : pc[o] \notin Returned}
<1> SUFFICES ASSUME S # {} PROVE FALSE
  OBVIOUS
<1>1. TypeOK /\ BegunInOrder /\ RW \subseteq Ops
  BY PlanAssumption DEF IInv
<1>2. PICK o \in S : \A p \in S : o \notin Inputs[p]
  <2>1. S \in (SUBSET Ops) \ {{}} /\ Inputs \in Plans
    BY <1>1 DEF TypeOK
  <2> HIDE DEF S
  <2>2. QED
    BY <2>1, PlanAssumption
<1>3. PICK c \in Ops : o \in Inputs[c]
  BY <1>2 DEF WriterIsRoot, Consumers
<1>4. pc[c] = "waiting" /\ c \in RW
  BY <1>1, <1>2, <1>3 DEF BegunInOrder, Returned
<1>5. \A x, y \in RW : x = y
  <2>1. Cardinality(RW) = 1 /\ IsFiniteSet(RW)
    BY PlanAssumption, FS_Subset DEF WriterIsRoot
  <2>2. QED
    BY <2>1, FS_Singleton
<1>6. QED
  BY <1>4, <1>5

\* A transaction that counts as rolled back has rolled back every operator that has done any work,
\* and in a plan whose root is its only writer no other operator runs meanwhile; the variables have
\* their types (TransactionContext::rollback, AbstractReadWriteOperator::execute).
THEOREM RollbacksComplete ==
  ASSUME OneWriter
  PROVE  Spec => []RollbackConsistent
<1>1. Init => WriterCourse
  BY PlanAssumption DEF Init, WriterCourse, EarlyLabels, RollbackLabels
<1>2. ASSUME IInv, WriterCourse, [Next]_vars PROVE WriterCourse'
  <2>1. ASSUME NEW o \in Ops, Task(o) \/ SpuriousWakeup(o), Inputs' = Inputs PROVE WriterCourse'
    BY <1>2, <2>1, WriterStep
  <2>2. CASE UNCHANGED vars
    BY <1>2, <2>2 DEF vars, WriterCourse, AllRolledBack
  <2>3. QED
    BY <1>2, <2>1, <2>2 DEF Next
<1>3. ASSUME IInv, WriterCourse PROVE RollbackConsistent
  <2>1. RolledBackCompletely
    BY <1>3, PlanFacts DEF WriterCourse, AllRolledBack, RolledBackCompletely, EarlyLabels
  <2>2. NoOperatorRunsDuringRollback
    <3> SUFFICES ASSUME WriterIsRoot, NEW o \in Ops, NEW q \in Ops, pc[o] \in {"rollback", "rolledBack"}, pc[q] = "run"
                 PROVE  FALSE
      BY DEF NoOperatorRunsDuringRollback
    <3>1. o \in RW
      BY <1>3 DEF IInv, WritersOnly, WriterLabels
    <3>2. q \notin RW
      BY <3>1 DEF OneWriter
    <3>3. QED
      BY <1>3, <3>1, <3>2, RootBeginsLast DEF Returned
  <2>3. QED
    BY <1>3, <2>1, <2>2 DEF RollbackConsistent, IInv
<1>4. QED
  BY <1>1, <1>2, <1>3, Invariance, PTL DEF Spec

-----------------------------------------------------------------------------
(* Joins.                                                                  *)

\* A set of naturals that holds 0 and the successor of each of its members holds all.
LEMMA Induction == ASSUME NEW S, 0 \in S, \A n \in Nat : n \in S => n + 1 \in S PROVE \A n \in Nat : n \in S
<1> SUFFICES ASSUME NEW m \in Nat \ S PROVE FALSE
  OBVIOUS
<1>1. PICK x \in Nat \ S : \A y \in Nat \ S : ~(<<y, x>> \in OpToRel(<, Nat))
  BY NatLessThanWellFounded, WFMin, Zenon
<1>2. x # 0 /\ x - 1 \in Nat \ S
  OBVIOUS
<1>3. <<x - 1, x>> \in OpToRel(<, Nat)
  BY <1>2 DEF OpToRel
<1>4. QED
  BY <1>1, <1>2, <1>3, Zenon

\* xs lists S: it holds each member of S, once, and nothing else.
Lists(xs, S) ==
  /\ xs \in Seq(S)
  /\ \A x \in S : \E i \in 1..Len(xs) : xs[i] = x
  /\ \A i, k \in 1..Len(xs) : xs[i] = xs[k] => i = k

LEMMA ListsNone == Lists(<<>>, {})
  BY DEF Lists

LEMMA ListsOne == ASSUME NEW x PROVE Lists(<<x>>, {x})
  BY DEF Lists

LEMMA ListsSet == ASSUME NEW xs, NEW S, Lists(xs, S) PROVE ToSet(xs) = S /\ DOMAIN xs = 1..Len(xs) /\ Len(xs) \in Nat /\ (xs = <<>> <=> S = {})
<1>1. xs \in Seq(S) /\ DOMAIN xs = 1..Len(xs) /\ Len(xs) \in Nat
  BY DEF Lists
<1>2. ToSet(xs) = S
  BY <1>1 DEF Lists, ToSet
<1>3. xs = <<>> => S = {}
  BY DEF Lists
<1>4. S = {} => xs = <<>>
  BY <1>1
<1> QED
  BY <1>1, <1>2, <1>3, <1>4

LEMMA ListsConcat ==
  ASSUME NEW xs, NEW ys, NEW S, NEW T, Lists(xs, S), Lists(ys, T), S \cap T = {}
  PROVE  Lists(xs \o ys, S \cup T)
<1> DEFINE zs == xs \o ys
<1>1. xs \in Seq(S \cup T) /\ ys \in Seq(S \cup T) /\ xs \in Seq(S) /\ ys \in Seq(T)
  BY DEF Lists
<1>2. /\ zs \in Seq(S \cup T) /\ Len(zs) = Len(xs) + Len(ys) /\ Len(xs) \in Nat /\ Len(ys) \in Nat
      /\ \A i \in 1..Len(xs) : zs[i] = xs[i] /\ xs[i] \in S
      /\ \A i \in Len(xs) + 1..Len(xs) + Len(ys) : zs[i] = ys[i - Len(xs)] /\ ys[i - Len(xs)] \in T
  BY <1>1
<1> HIDE DEF zs
<1>3. ASSUME NEW x \in S \cup T PROVE \E i \in 1..Len(zs) : zs[i] = x
  <2>1. CASE x \in S
    <3>1. PICK i \in 1..Len(xs) : xs[i] = x
      BY <2>1 DEF Lists
    <3>2. i \in 1..Len(zs) /\ zs[i] = x
      BY <3>1, <1>2
    <3> QED
      BY <3>2
  <2>2. CASE x \in T
    <3>1. PICK i \in 1..Len(ys) : ys[i] = x
      BY <2>2 DEF Lists
    <3>2. i + Len(xs) \in Len(xs) + 1..Len(xs) + Len(ys) /\ (i + Len(xs)) - Len(xs) = i
      BY <3>1, <1>2
    <3>3. zs[i + Len(xs)] = ys[(i + Len(xs)) - Len(xs)]
      BY <3>2, <1>2
    <3>4. zs[i + Len(xs)] = x
      BY <3>1, <3>2, <3>3
    <3>5. i \in Nat /\ i >= 1 /\ i <= Len(ys) /\ Len(zs) = Len(xs) + Len(ys) /\ Len(xs) \in Nat /\ Len(ys) \in Nat
      BY <1>2
    <3>6. i + Len(xs) \in 1..Len(zs)
      BY <3>5
    <3> QED
      BY <3>4, <3>6
  <2> QED
    BY <2>1, <2>2
<1>4. ASSUME NEW i \in 1..Len(zs), NEW k \in 1..Len(zs), zs[i] = zs[k] PROVE i = k
  <2>1. CASE i <= Len(xs) /\ k <= Len(xs)
    BY <2>1, <1>2, <1>4 DEF Lists
  <2>2. CASE ~(i <= Len(xs)) /\ ~(k <= Len(xs))
    <3>1. i - Len(xs) \in 1..Len(ys) /\ k - Len(xs) \in 1..Len(ys)
      BY <2>2, <1>2
    <3>2. ys[i - Len(xs)] = ys[k - Len(xs)]
      <4>1. i \in Len(xs) + 1..Len(xs) + Len(ys) /\ k \in Len(xs) + 1..Len(xs) + Len(ys)
        BY <2>2, <1>2
      <4>2. zs[i] = ys[i - Len(xs)] /\ zs[k] = ys[k - Len(xs)]
        BY <4>1, <1>2
      <4> QED
        BY <4>2, <1>4
    <3>3. i - Len(xs) = k - Len(xs)
      BY <3>1, <3>2 DEF Lists
    <3> QED
      BY <3>3, <1>2
  <2>3. CASE i <= Len(xs) /\ ~(k <= Len(xs))
    BY <2>3, <1>2, <1>4
  <2>4. CASE ~(i <= Len(xs)) /\ k <= Len(xs)
    BY <2>4, <1>2, <1>4
  <2> QED
    BY <2>1, <2>2, <2>3, <2>4
<1> QED
  BY <1>2, <1>3, <1>4 DEF Lists, zs

LEMMA ListsExact == ASSUME NEW xs, NEW S, Lists(xs, S) PROVE ToSet(xs) = S /\ Cardinality(ToSet(xs)) = Len(xs)
<1>1. ToSet(xs) = S /\ DOMAIN xs = 1..Len(xs) /\ Len(xs) \in Nat
  BY ListsSet
<1>2. IsFiniteSet(1..Len(xs)) /\ Cardinality(1..Len(xs)) = Len(xs)
  <2>0. 1 \in Int /\ Len(xs) \in Int
    BY <1>1
  <2>1. IsFiniteSet(1..Len(xs)) /\ Cardinality(1..Len(xs)) = IF 1 > Len(xs) THEN 0 ELSE Len(xs) - 1 + 1
    BY <2>0, FS_Interval, Zenon
  <2> QED
    BY <1>1, <2>1
<1>3. xs \in [1..Len(xs) -> S]
  BY <1>1 DEF Lists
<1>4. xs \in Bijection(1..Len(xs), S)
  BY <1>3 DEF Lists, Bijection, Injection, Surjection, IsInjective
<1>5. ExistsBijection(1..Len(xs), S)
  BY <1>4 DEF ExistsBijection
<1> QED
  BY <1>1, <1>2, <1>5, FS_Bijection

LEMMA FlattenIs ==
  ASSUME NEW ss, NEW n \in Nat, n # 0, Len(ss) = n
  PROVE  \E w : /\ w = [i \in 1..n |-> IF i = 1 THEN ss[i] ELSE w[i - 1] \o ss[i]]
                /\ FlattenSeq(ss) = w[n]
<1> DEFINE IsFlat(w, m) == w = [i \in 1..m |-> IF i = 1 THEN ss[i] ELSE w[i - 1] \o ss[i]]
           S == {m \in Nat : \E w : IsFlat(w, m)}
<1>1. 0 \in S
  <2>1. IsFlat([i \in 1..0 |-> ss[1]], 0)
    OBVIOUS
  <2> QED
    BY <2>1
<1>2. ASSUME NEW m \in S PROVE m + 1 \in S
  <2>1. PICK w : IsFlat(w, m)
    OBVIOUS
  <2> DEFINE v == [i \in 1..m + 1 |-> IF i <= m THEN w[i] ELSE IF i = 1 THEN ss[i] ELSE w[m] \o ss[i]]
  <2>2. IsFlat(v, m + 1)
    <3>1. ASSUME NEW i \in 1..m + 1 PROVE v[i] = IF i = 1 THEN ss[i] ELSE v[i - 1] \o ss[i]
      <4>1. CASE i = m + 1
        BY <4>1
      <4>2. CASE i # m + 1
        <5>1. i \in 1..m /\ v[i] = w[i]
          BY <4>2
        <5>2. w[i] = IF i = 1 THEN ss[i] ELSE w[i - 1] \o ss[i]
          BY <2>1, <5>1
        <5>3. i # 1 => v[i - 1] = w[i - 1]
          BY <4>2
        <5> QED
          BY <5>1, <5>2, <5>3
      <4> QED
        BY <4>1, <4>2
    <3> QED
      BY <3>1
  <2> HIDE DEF v, IsFlat
  <2>3. m + 1 \in Nat
    OBVIOUS
  <2> QED
    BY <2>2, <2>3, Zenon
<1> HIDE DEF IsFlat
<1>3. n \in S
  <2> HIDE DEF S
  <2>1. \A m \in Nat : m \in S => m + 1 \in S
    BY <1>2, Zenon
  <2> QED
    BY <1>1, <2>1, Induction, Zenon
<1>4. IsFlat(CHOOSE w : IsFlat(w, n), n)
  BY <1>3
<1>5. FlattenSeq(ss) = (CHOOSE w : IsFlat(w, n))[n]
  BY DEF FlattenSeq, IsFlat
<1> QED
  BY <1>4, <1>5 DEF IsFlat

\* Sequences that list disjoint sets are flattened into one that lists their union.
LEMMA FlattenLists ==
  ASSUME NEW n \in Nat, NEW ss, ss = [i \in 1..n |-> ss[i]], NEW SS,
         \A i \in 1..n : Lists(ss[i], SS[i]),
         \A i, k \in 1..n : i # k => SS[i] \cap SS[k] = {}
  PROVE  Lists(FlattenSeq(ss), UNION {SS[i] : i \in 1..n})
<1>0. Len(ss) = n
  OBVIOUS
<1>1. CASE n = 0
  <2>1. ss = <<>> /\ FlattenSeq(ss) = <<>>
    BY <1>0, <1>1 DEF FlattenSeq
  <2>2. UNION {SS[i] : i \in 1..n} = {}
    BY <1>1
  <2> QED
    BY <2>1, <2>2, ListsNone
<1>2. CASE n # 0
  <2>1. PICK w : /\ w = [i \in 1..n |-> IF i = 1 THEN ss[i] ELSE w[i - 1] \o ss[i]]
                 /\ FlattenSeq(ss) = w[n]
    BY <1>0, <1>2, FlattenIs
  <2>2. \A i \in 1..n : w[i] = IF i = 1 THEN ss[i] ELSE w[i - 1] \o ss[i]
    BY <2>1, Zenon
  <2> DEFINE U(m) == UNION {SS[i] : i \in 1..m}
             S == {m \in Nat : m < n => Lists(w[m + 1], U(m + 1))}
  <2>3. 0 \in S
    <3>1. U(1) = SS[1]
      OBVIOUS
    <3>2. w[1] = ss[1] /\ 1 \in 1..n
      BY <2>2, <1>2
    <3>3. Lists(w[1], U(1))
      BY <3>1, <3>2
    <3> QED
      BY <3>3
  <2>4. ASSUME NEW m \in Nat, m \in S PROVE m + 1 \in S
    <3>1. SUFFICES ASSUME m + 1 < n PROVE Lists(w[m + 2], U(m + 2))
      <4> HIDE DEF U
      <4>1. (m + 1) + 1 = m + 2
        OBVIOUS
      <4> QED
        BY <4>1
    <3>2. m + 2 \in 1..n /\ m + 1 \in 1..n /\ m + 2 # 1 /\ m + 2 - 1 = m + 1
      BY <3>1
    <3>3. w[m + 2] = w[m + 1] \o ss[m + 2]
      <4>1. PICK k \in 1..n : k = m + 2
        BY <3>2
      <4>2. w[k] = w[k - 1] \o ss[k]
        BY <2>2, <3>2, <4>1
      <4>3. k - 1 = m + 1
        BY <4>1
      <4> QED
        BY <4>1, <4>2, <4>3
    <3>4. Lists(w[m + 1], U(m + 1))
      BY <3>1, <2>4
    <3>5. U(m + 1) \cap SS[m + 2] = {}
      <4>1. ASSUME NEW i \in 1..m + 1 PROVE SS[i] \cap SS[m + 2] = {}
        BY <3>2
      <4> QED
        BY <4>1
    <3>6. U(m + 2) = U(m + 1) \cup SS[m + 2]
      <4>1. 1..m + 2 = (1..m + 1) \cup {m + 2}
        OBVIOUS
      <4> QED
        BY <4>1
    <3>7. Lists(ss[m + 2], SS[m + 2])
      BY <3>2
    <3> HIDE DEF U
    <3> QED
      BY <3>3, <3>4, <3>5, <3>6, <3>7, ListsConcat
  <2>5. n - 1 \in S
    <3> HIDE DEF S
    <3>1. \A m \in Nat : m \in S => m + 1 \in S
      BY <2>4, Zenon
    <3>2. n - 1 \in Nat
      BY <1>2
    <3> QED
      BY <2>3, <3>1, <3>2, Induction, Zenon
  <2>6. (n - 1) + 1 = n /\ n - 1 < n
    OBVIOUS
  <2> QED
    BY <2>1, <2>5, <2>6
<1> QED
  BY <1>1, <1>2

\* Within keeps the order and the number of what it keeps.
LEMMA WithinLists ==
  ASSUME NEW xs, NEW A, NEW S, Lists(xs, A)
  PROVE  Lists(Within(xs, S), A \cap S)
<1> DEFINE n == Len(xs)
           ss == [i \in 1..n |-> IF xs[i] \in S THEN <<xs[i]>> ELSE <<>>]
           SS == [i \in 1..n |-> {xs[i]} \cap S]
<1>1. n \in Nat /\ DOMAIN xs = 1..n
  BY ListsSet
<1>2. Within(xs, S) = FlattenSeq(ss)
  BY <1>1 DEF Within
<1>3. ASSUME NEW i \in 1..n PROVE Lists(ss[i], SS[i])
  <2>1. CASE xs[i] \in S
    <3>1. ss[i] = <<xs[i]>> /\ SS[i] = {xs[i]}
      BY <2>1
    <3> QED
      BY <3>1, ListsOne
  <2>2. CASE xs[i] \notin S
    <3>1. ss[i] = <<>> /\ SS[i] = {}
      BY <2>2
    <3> QED
      BY <3>1, ListsNone
  <2> QED
    BY <2>1, <2>2
<1>4. ASSUME NEW i \in 1..n, NEW k \in 1..n, i # k PROVE SS[i] \cap SS[k] = {}
  <2>1. xs[i] # xs[k]
    BY <1>4 DEF Lists
  <2> QED
    BY <2>1
<1>5. UNION {SS[i] : i \in 1..n} = A \cap S
  <2>1. A = {xs[i] : i \in 1..n}
    BY <1>1, ListsSet DEF ToSet
  <2> QED
    BY <2>1
<1>6. ss = [i \in 1..n |-> ss[i]]
  OBVIOUS
<1> HIDE DEF ss, SS, n
<1>7. Lists(FlattenSeq(ss), UNION {SS[i] : i \in 1..n})
  BY <1>1, <1>3, <1>4, <1>6, FlattenLists
<1> QED
  BY <1>2, <1>5, <1>7

LEMMA WithinSubset == ASSUME NEW xs, NEW A, NEW S, Lists(xs, A), S \subseteq A PROVE Lists(Within(xs, S), S)
<1>1. A \cap S = S
  OBVIOUS
<1> QED
  BY <1>1, WithinLists

LEMMA WithoutLists == ASSUME NEW xs, NEW A, NEW S, Lists(xs, A) PROVE Lists(Without(xs, S), A \ S)
<1>1. Without(xs, S) = Within(xs, {x \in ToSet(xs) : x \notin S})
  BY DEF Without, Filter
<1>2. {x \in ToSet(xs) : x \notin S} = A \ S
  BY ListsSet
<1> QED
  BY <1>1, <1>2, WithinSubset

LEMMA ProductLists ==
  ASSUME NEW xs, NEW ys, NEW A, NEW B, Lists(xs, A), Lists(ys, B)
  PROVE  Lists(Product(xs, ys), A \X B)
<1> DEFINE n == Len(xs)
           ss == [i \in 1..n |-> [k \in DOMAIN ys |-> <<xs[i], ys[k]>>]]
           SS == [i \in 1..n |-> {xs[i]} \X B]
<1>1. n \in Nat /\ DOMAIN xs = 1..n
  BY ListsSet
<1>2. Product(xs, ys) = FlattenSeq(ss)
  BY <1>1 DEF Product
<1>3. ASSUME NEW i \in 1..n PROVE Lists(ss[i], SS[i])
  <2>1. DOMAIN ys = 1..Len(ys) /\ Len(ys) \in Nat /\ \A k \in 1..Len(ys) : ys[k] \in B
    BY ListsSet DEF Lists
  <2>2. /\ ss[i] \in Seq(SS[i]) /\ Len(ss[i]) = Len(ys)
        /\ \A k \in 1..Len(ys) : ss[i][k] = <<xs[i], ys[k]>>
    BY <2>1
  <2>3. ASSUME NEW p \in SS[i] PROVE \E k \in 1..Len(ss[i]) : ss[i][k] = p
    <3>1. PICK y \in B : p = <<xs[i], y>>
      OBVIOUS
    <3>2. PICK k \in 1..Len(ys) : ys[k] = y
      BY DEF Lists
    <3> QED
      BY <2>2, <3>1, <3>2
  <2>4. ASSUME NEW k \in 1..Len(ss[i]), NEW m \in 1..Len(ss[i]), ss[i][k] = ss[i][m] PROVE k = m
    <3>1. ys[k] = ys[m]
      BY <2>2, <2>4
    <3> QED
      BY <2>2, <3>1 DEF Lists
  <2> HIDE DEF ss, SS
  <2> QED
    BY <2>2, <2>3, <2>4 DEF Lists
<1>4. ASSUME NEW i \in 1..n, NEW k \in 1..n, i # k PROVE SS[i] \cap SS[k] = {}
  <2>1. xs[i] # xs[k]
    BY <1>4 DEF Lists
  <2> QED
    BY <2>1
<1>5. UNION {SS[i] : i \in 1..n} = A \X B
  <2>1. A = {xs[i] : i \in 1..n}
    BY <1>1, ListsSet DEF ToSet
  <2>2. ASSUME NEW p \in A \X B PROVE \E i \in 1..n : p \in SS[i]
    <3>1. PICK i \in 1..n : p[1] = xs[i]
      BY <2>1
    <3>2. p = <<xs[i], p[2]>> /\ p[2] \in B
      BY <3>1
    <3>3. p \in SS[i]
      BY <3>2
    <3> QED
      BY <3>3
  <2>3. ASSUME NEW i \in 1..n PROVE SS[i] \subseteq A \X B
    BY <2>1
  <2> QED
    BY <2>2, <2>3
<1>6. ss = [i \in 1..n |-> ss[i]]
  OBVIOUS
<1> HIDE DEF ss, SS, n
<1>7. Lists(FlattenSeq(ss), UNION {SS[i] : i \in 1..n})
  BY <1>1, <1>3, <1>4, <1>6, FlattenLists
<1> QED
  BY <1>2, <1>5, <1>7

LEMMA WithNullLists == ASSUME NEW xs, NEW A, Lists(xs, A) PROVE Lists(WithNull(xs), A \X {NoRow})
  BY ListsOne, ProductLists DEF WithNull

LEMMA NullWithLists == ASSUME NEW xs, NEW A, Lists(xs, A) PROVE Lists(NullWith(xs), {NoRow} \X A)
  BY ListsOne, ProductLists DEF NullWith

\* Pairs with their sides changed.
Turned(P) == {<<p[2], p[1]>> : p \in P}

LEMMA SwappedLists ==
  ASSUME NEW ps, NEW P, NEW A, NEW B, Lists(ps, P), P \subseteq A \X B
  PROVE  Lists(Swapped(ps), Turned(P))
<1>1. DOMAIN ps = 1..Len(ps) /\ Len(ps) \in Nat /\ \A i \in 1..Len(ps) : ps[i] \in P
  BY ListsSet DEF Lists
<1>2. /\ Swapped(ps) \in Seq(Turned(P)) /\ Len(Swapped(ps)) = Len(ps)
      /\ \A i \in 1..Len(ps) : Swapped(ps)[i] = <<ps[i][2], ps[i][1]>>
  BY <1>1 DEF Swapped, Turned
<1>3. ASSUME NEW q \in Turned(P) PROVE \E i \in 1..Len(ps) : Swapped(ps)[i] = q
  <2>1. PICK p \in P : q = <<p[2], p[1]>>
    BY DEF Turned
  <2>2. PICK i \in 1..Len(ps) : ps[i] = p
    BY DEF Lists
  <2> QED
    BY <1>2, <2>1, <2>2
<1>4. ASSUME NEW i \in 1..Len(ps), NEW k \in 1..Len(ps), Swapped(ps)[i] = Swapped(ps)[k] PROVE i = k
  <2>1. ps[i][1] = ps[k][1] /\ ps[i][2] = ps[k][2]
    BY <1>2, <1>4
  <2>2. ps[i] \in A \X B /\ ps[k] \in A \X B
    BY <1>1
  <2>3. ps[i] = ps[k]
    BY <2>1, <2>2
  <2> QED
    BY <2>3 DEF Lists
<1> QED
  BY <1>2, <1>3, <1>4 DEF Lists

LEMMA LeftsRights == ASSUME NEW ps, NEW P, Lists(ps, P) PROVE Lefts(ps) = {p[1] : p \in P} /\ Rights(ps) = {p[2] : p \in P}
<1>1. ToSet(ps) = P
  BY ListsSet
<1> QED
  BY <1>1 DEF Lefts, Rights

IsTable(t) == t \in Seq(Seq(TableRow))
RowIds(t) == UNION {{c} \X (1..Len(t[c])) : c \in 1..Len(t)}

LEMMA ChunkLists == ASSUME NEW t, IsTable(t), NEW c \in 1..Len(t) PROVE Lists(ChunkRows(t, c), {c} \X (1..Len(t[c])))
<1>1. t[c] \in Seq(TableRow) /\ DOMAIN t[c] = 1..Len(t[c]) /\ Len(t[c]) \in Nat
  BY DEF IsTable
<1>2. ChunkRows(t, c) = [o \in 1..Len(t[c]) |-> <<c, o>>]
  BY <1>1 DEF ChunkRows
<1>3. /\ ChunkRows(t, c) \in Seq({c} \X (1..Len(t[c]))) /\ Len(ChunkRows(t, c)) = Len(t[c])
      /\ \A o \in 1..Len(t[c]) : ChunkRows(t, c)[o] = <<c, o>>
  BY <1>1, <1>2
<1>4. ASSUME NEW x \in {c} \X (1..Len(t[c])) PROVE \E o \in 1..Len(t[c]) : ChunkRows(t, c)[o] = x
  <2>1. x[2] \in 1..Len(t[c]) /\ x = <<c, x[2]>>
    OBVIOUS
  <2> QED
    BY <1>3, <2>1
<1>5. ASSUME NEW o \in 1..Len(t[c]), NEW p \in 1..Len(t[c]), ChunkRows(t, c)[o] = ChunkRows(t, c)[p] PROVE o = p
  <2>1. <<c, o>> = <<c, p>>
    BY <1>3, <1>5
  <2> QED
    BY <2>1
<1> QED
  BY <1>3, <1>4, <1>5 DEF Lists

LEMMA TableShape == ASSUME NEW t, IsTable(t) PROVE Len(t) \in Nat /\ DOMAIN t = 1..Len(t) /\ \A c \in 1..Len(t) : Len(t[c]) \in Nat
  BY DEF IsTable

LEMMA RowsList == ASSUME NEW t, IsTable(t) PROVE Lists(Rows(t), RowIds(t))
<1> DEFINE ss == [c \in 1..Len(t) |-> ChunkRows(t, c)]
           SS == [c \in 1..Len(t) |-> {c} \X (1..Len(t[c]))]
<1>1. Len(t) \in Nat /\ DOMAIN t = 1..Len(t)
  BY TableShape
<1>2. Rows(t) = FlattenSeq(ss)
  BY <1>1 DEF Rows
<1>3. \A c \in 1..Len(t) : Lists(ss[c], SS[c])
  BY ChunkLists
<1>4. \A c, d \in 1..Len(t) : c # d => SS[c] \cap SS[d] = {}
  OBVIOUS
<1>5. UNION {SS[c] : c \in 1..Len(t)} = RowIds(t)
  BY DEF RowIds
<1>6. ss = [c \in 1..Len(t) |-> ss[c]]
  OBVIOUS
<1> HIDE DEF ss, SS
<1>7. Lists(FlattenSeq(ss), UNION {SS[c] : c \in 1..Len(t)})
  BY <1>1, <1>3, <1>4, <1>6, FlattenLists
<1> QED
  BY <1>2, <1>5, <1>7

LEMMA RowsAre == ASSUME NEW t, IsTable(t) PROVE ToSet(Rows(t)) = RowIds(t) /\ NoRow \notin RowIds(t)
<1>1. ToSet(Rows(t)) = RowIds(t)
  BY RowsList, ListsSet
<1>2. NoRow \notin RowIds(t)
  BY DEF NoRow, RowIds
<1> QED
  BY <1>1, <1>2

LEMMA KeysTyped == ASSUME NEW t, IsTable(t), NEW x \in RowIds(t) PROVE Key(t, x) \in Int \cup {Null} /\ Extra(t, x) \in Int \cup {Null}
<1>1. PICK c \in 1..Len(t) : x \in {c} \X (1..Len(t[c]))
  BY DEF RowIds
<1>2. x[1] = c /\ x[2] \in 1..Len(t[c]) /\ t[c] \in Seq(TableRow)
  BY <1>1 DEF IsTable
<1>3. t[x[1]][x[2]] \in TableRow
  BY <1>2
<1> QED
  BY <1>3 DEF TableRow, Key, Extra

Matched(j, l, r) == {p \in RowIds(l) \X RowIds(r) : Match(j, l, r, p[1], p[2])}
LoneLefts(j, l, r) == {x \in RowIds(l) : \A y \in RowIds(r) : ~Match(j, l, r, x, y)}
LoneRights(j, l, r) == {y \in RowIds(r) : \A x \in RowIds(l) : ~Match(j, l, r, x, y)}

\* The verification join in these terms.
LEMMA VerifiedIs ==
  ASSUME NEW l, NEW r, IsTable(l), IsTable(r), NEW j \in Join
  PROVE  LET pairs == Matched(j, l, r)
             loneLeft == LoneLefts(j, l, r) \X {NoRow}
             loneRight == {NoRow} \X LoneRights(j, l, r)
         IN /\ j.mode = "Inner" => Verified(j, l, r) = pairs
            /\ j.mode = "Left" => Verified(j, l, r) = pairs \cup loneLeft
            /\ j.mode = "Right" => Verified(j, l, r) = pairs \cup loneRight
            /\ j.mode = "FullOuter" => Verified(j, l, r) = pairs \cup loneLeft \cup loneRight
            /\ j.mode = "Semi" => Verified(j, l, r) = (RowIds(l) \ LoneLefts(j, l, r)) \X {NoRow}
            /\ Anti(j) => Verified(j, l, r) = loneLeft
<1>1. ToSet(Rows(l)) = RowIds(l) /\ ToSet(Rows(r)) = RowIds(r)
  BY RowsAre
<1> DEFINE ls == RowIds(l)
           rs == RowIds(r)
           pairs == {p \in ls \X rs : Match(j, l, r, p[1], p[2])}
           loneLeft == {x \in ls : \A y \in rs : <<x, y>> \notin pairs} \X {NoRow}
           loneRight == {NoRow} \X {y \in rs : \A x \in ls : <<x, y>> \notin pairs}
<1>2. Verified(j, l, r) =
        CASE j.mode = "Inner" -> pairs
          [] j.mode = "Left"  -> pairs \cup loneLeft
          [] j.mode = "Right" -> pairs \cup loneRight
          [] j.mode = "FullOuter" -> pairs \cup loneLeft \cup loneRight
          [] j.mode = "Semi" -> (ls \X {NoRow}) \ loneLeft
          [] Anti(j) -> loneLeft
  BY <1>1 DEF Verified
<1>3. pairs = Matched(j, l, r)
  BY DEF Matched
<1>4. \A x \in ls, y \in rs : <<x, y>> \in pairs <=> Match(j, l, r, x, y)
  <2> HIDE DEF ls, rs
  <2> QED
    OBVIOUS
<1>5. {x \in ls : \A y \in rs : <<x, y>> \notin pairs} = LoneLefts(j, l, r)
  <2> HIDE DEF pairs
  <2> QED
    BY <1>4 DEF LoneLefts
<1>6. {y \in rs : \A x \in ls : <<x, y>> \notin pairs} = LoneRights(j, l, r)
  <2> HIDE DEF pairs
  <2> QED
    BY <1>4 DEF LoneRights
<1>7. loneLeft = LoneLefts(j, l, r) \X {NoRow} /\ loneRight = {NoRow} \X LoneRights(j, l, r)
  BY <1>5, <1>6
<1>8. (ls \X {NoRow}) \ (LoneLefts(j, l, r) \X {NoRow}) = (RowIds(l) \ LoneLefts(j, l, r)) \X {NoRow}
  BY DEF LoneLefts
<1> HIDE DEF pairs, loneLeft, loneRight
<1> QED
  BY <1>2, <1>3, <1>7, <1>8 DEF Anti

\* A comparison read from its other side.
LEMMA FlipHolds ==
  ASSUME NEW cond \in Conditions, NEW mode, NEW a \in Int \cup {Null}, NEW b \in Int \cup {Null}
  PROVE  Satisfies(mode, Flip(cond), b, a) = Satisfies(mode, cond, a, b)
<1>1. CASE a = Null \/ b = Null
  BY <1>1 DEF Satisfies
<1>2. CASE ~(a = Null \/ b = Null)
  <2>1. a \in Int /\ b \in Int
    BY <1>2
  <2>2. Holds(Flip(cond), b, a) = Holds(cond, a, b)
    <3>1. CASE cond \in {"=", "#"}
      BY <2>1, <3>1 DEF Holds, Flip
    <3>2. CASE cond \in {"<", "<="}
      BY <2>1, <3>2 DEF Holds, Flip
    <3>3. CASE cond \in {">", ">="}
      BY <2>1, <3>3 DEF Holds, Flip
    <3> QED
      BY <3>1, <3>2, <3>3 DEF Conditions
  <2> QED
    BY <1>2, <2>2 DEF Satisfies
<1> QED
  BY <1>1, <1>2

LEMMA MirroredMatch ==
  ASSUME NEW l, NEW r, IsTable(l), IsTable(r), NEW j \in Join, NEW x \in RowIds(l), NEW y \in RowIds(r)
  PROVE  Match(Mirrored(j), r, l, y, x) = Match(j, l, r, x, y)
<1>1. Mirrored(j).mode = j.mode /\ Mirrored(j).sec = j.sec /\ Mirrored(j).cond = Flip(j.cond) /\ j.cond \in Conditions
  BY DEF Mirrored, Join
<1>0. /\ Key(l, x) \in Int \cup {Null} /\ Key(r, y) \in Int \cup {Null}
      /\ Extra(l, x) \in Int \cup {Null} /\ Extra(r, y) \in Int \cup {Null}
  BY KeysTyped
<1>2. Satisfies(j.mode, Flip(j.cond), Key(r, y), Key(l, x)) = Satisfies(j.mode, j.cond, Key(l, x), Key(r, y))
  BY <1>0, <1>1, FlipHolds, Zenon
<1>3. "=" \in Conditions /\ Flip("=") = "="
  BY DEF Conditions, Flip
<1>4. Satisfies(j.mode, "=", Extra(r, y), Extra(l, x)) = Satisfies(j.mode, "=", Extra(l, x), Extra(r, y))
  <2>1. Satisfies(j.mode, Flip("="), Extra(r, y), Extra(l, x)) = Satisfies(j.mode, "=", Extra(l, x), Extra(r, y))
    BY <1>0, <1>3, FlipHolds, ZenonT(40)
  <2> QED
    BY <1>3, <2>1
<1> QED
  BY <1>1, <1>2, <1>4 DEF Match, SatisfiesSecondary

LEMMA Outsiders ==
  ASSUME NEW l, NEW r, NEW j
  PROVE  /\ RowIds(l) \ {p[1] : p \in Matched(j, l, r)} = LoneLefts(j, l, r)
         /\ RowIds(r) \ {p[2] : p \in Matched(j, l, r)} = LoneRights(j, l, r)
         /\ RowIds(l) \cap {p[1] : p \in Matched(j, l, r)} = RowIds(l) \ LoneLefts(j, l, r)
<1>1. \A x \in RowIds(l), y \in RowIds(r) : <<x, y>> \in Matched(j, l, r) <=> Match(j, l, r, x, y)
  BY DEF Matched
<1>2. ASSUME NEW p \in Matched(j, l, r) PROVE p[1] \in RowIds(l) /\ p[2] \in RowIds(r) /\ Match(j, l, r, p[1], p[2])
  BY DEF Matched
<1>3. ASSUME NEW x \in RowIds(l) PROVE x \in {p[1] : p \in Matched(j, l, r)} <=> x \notin LoneLefts(j, l, r)
  <2>1. ASSUME x \in {p[1] : p \in Matched(j, l, r)} PROVE x \notin LoneLefts(j, l, r)
    BY <1>2, <2>1 DEF LoneLefts
  <2>2. ASSUME x \notin LoneLefts(j, l, r) PROVE x \in {p[1] : p \in Matched(j, l, r)}
    <3>1. PICK y \in RowIds(r) : Match(j, l, r, x, y)
      BY <2>2 DEF LoneLefts
    <3>2. <<x, y>> \in Matched(j, l, r) /\ <<x, y>>[1] = x
      BY <1>1, <3>1
    <3> QED
      BY <3>2
  <2> QED
    BY <2>1, <2>2
<1>4. ASSUME NEW y \in RowIds(r) PROVE y \in {p[2] : p \in Matched(j, l, r)} <=> y \notin LoneRights(j, l, r)
  <2>1. ASSUME y \in {p[2] : p \in Matched(j, l, r)} PROVE y \notin LoneRights(j, l, r)
    BY <1>2, <2>1 DEF LoneRights
  <2>2. ASSUME y \notin LoneRights(j, l, r) PROVE y \in {p[2] : p \in Matched(j, l, r)}
    <3>1. PICK x \in RowIds(l) : Match(j, l, r, x, y)
      BY <2>2 DEF LoneRights
    <3>2. <<x, y>> \in Matched(j, l, r) /\ <<x, y>>[2] = y
      BY <1>1, <3>1
    <3> QED
      BY <3>2
  <2> QED
    BY <2>1, <2>2
<1>5. LoneLefts(j, l, r) \subseteq RowIds(l) /\ LoneRights(j, l, r) \subseteq RowIds(r)
  BY DEF LoneLefts, LoneRights
<1> QED
  BY <1>3, <1>4, <1>5

\* No row id is the row of NULLs.
LEMMA PairsApart ==
  ASSUME NEW l, NEW r, IsTable(l), IsTable(r), NEW j
  PROVE  /\ Matched(j, l, r) \cap (LoneLefts(j, l, r) \X {NoRow}) = {}
         /\ Matched(j, l, r) \cap ({NoRow} \X LoneRights(j, l, r)) = {}
         /\ (LoneLefts(j, l, r) \X {NoRow}) \cap ({NoRow} \X LoneRights(j, l, r)) = {}
<1>1. NoRow \notin RowIds(l) /\ NoRow \notin RowIds(r)
  BY RowsAre
<1> QED
  BY <1>1 DEF Matched, LoneLefts, LoneRights

PairsFound(j, l, r) == Filter(Product(Rows(l), Rows(r)), LAMBDA p : Match(j, l, r, p[1], p[2]))

LoopOuter(j, l, r) == PairsFound(j, l, r) \o WithNull(Without(Rows(l), Lefts(PairsFound(j, l, r))))

\* Pairs that list the matches, and the rows of the two tables that are in none of them.
LEMMA OuterLists ==
  ASSUME NEW l, NEW r, IsTable(l), IsTable(r), NEW j, NEW pairs, Lists(pairs, Matched(j, l, r))
  PROVE  LET loneLeft == WithNull(Without(Rows(l), Lefts(pairs)))
             loneRight == NullWith(Without(Rows(r), Rights(pairs)))
         IN /\ Lists(loneLeft, LoneLefts(j, l, r) \X {NoRow})
            /\ Lists(WithNull(Within(Rows(l), Lefts(pairs))), (RowIds(l) \ LoneLefts(j, l, r)) \X {NoRow})
            /\ Lists(pairs \o loneLeft, Matched(j, l, r) \cup (LoneLefts(j, l, r) \X {NoRow}))
            /\ Lists(pairs \o loneRight, Matched(j, l, r) \cup ({NoRow} \X LoneRights(j, l, r)))
            /\ Lists(pairs \o loneLeft \o loneRight,
                     Matched(j, l, r) \cup (LoneLefts(j, l, r) \X {NoRow}) \cup ({NoRow} \X LoneRights(j, l, r)))
<1>1. Lists(Rows(l), RowIds(l)) /\ Lists(Rows(r), RowIds(r))
  BY RowsList
<1>4. Lefts(pairs) = {p[1] : p \in Matched(j, l, r)} /\ Rights(pairs) = {p[2] : p \in Matched(j, l, r)}
  BY LeftsRights
<1> DEFINE loneLeft == WithNull(Without(Rows(l), Lefts(pairs)))
           loneRight == NullWith(Without(Rows(r), Rights(pairs)))
<1>5. Lists(loneLeft, LoneLefts(j, l, r) \X {NoRow})
  <2>1. Lists(Without(Rows(l), Lefts(pairs)), LoneLefts(j, l, r))
    <3>1. Lists(Without(Rows(l), Lefts(pairs)), RowIds(l) \ Lefts(pairs))
      BY <1>1, WithoutLists
    <3> QED
      BY <1>4, <3>1, Outsiders
  <2> QED
    BY <2>1, WithNullLists
<1>6. Lists(loneRight, {NoRow} \X LoneRights(j, l, r))
  <2>1. Lists(Without(Rows(r), Rights(pairs)), LoneRights(j, l, r))
    <3>1. Lists(Without(Rows(r), Rights(pairs)), RowIds(r) \ Rights(pairs))
      BY <1>1, WithoutLists
    <3> QED
      BY <1>4, <3>1, Outsiders
  <2> QED
    BY <2>1, NullWithLists
<1>7. Lists(WithNull(Within(Rows(l), Lefts(pairs))), (RowIds(l) \ LoneLefts(j, l, r)) \X {NoRow})
  <2>1. Lists(Within(Rows(l), Lefts(pairs)), RowIds(l) \ LoneLefts(j, l, r))
    <3>1. Lists(Within(Rows(l), Lefts(pairs)), RowIds(l) \cap Lefts(pairs))
      BY <1>1, WithinLists
    <3> QED
      BY <1>4, <3>1, Outsiders
  <2> QED
    BY <2>1, WithNullLists
<1> HIDE DEF loneLeft, loneRight
<1>8. Lists(pairs \o loneLeft, Matched(j, l, r) \cup (LoneLefts(j, l, r) \X {NoRow}))
  BY <1>5, PairsApart, ListsConcat
<1>9. Lists(pairs \o loneRight, Matched(j, l, r) \cup ({NoRow} \X LoneRights(j, l, r)))
  BY <1>6, PairsApart, ListsConcat
<1>10. Lists(pairs \o loneLeft \o loneRight, Matched(j, l, r) \cup (LoneLefts(j, l, r) \X {NoRow}) \cup ({NoRow} \X LoneRights(j, l, r)))
  <2>1. (Matched(j, l, r) \cup (LoneLefts(j, l, r) \X {NoRow})) \cap ({NoRow} \X LoneRights(j, l, r)) = {}
    BY PairsApart
  <2> QED
    BY <1>6, <1>8, <2>1, ListsConcat
<1> QED
  BY <1>5, <1>7, <1>8, <1>9, <1>10 DEF loneLeft, loneRight

\* The pairs that a nested loop finds.
LEMMA LoopLists ==
  ASSUME NEW l, NEW r, IsTable(l), IsTable(r), NEW j
  PROVE  Lists(PairsFound(j, l, r), Matched(j, l, r))
<1> DEFINE pairs == PairsFound(j, l, r)
<1>1. Lists(Rows(l), RowIds(l)) /\ Lists(Rows(r), RowIds(r))
  BY RowsList
<1>2. Lists(Product(Rows(l), Rows(r)), RowIds(l) \X RowIds(r))
  BY <1>1, ProductLists
<1>3. pairs = Within(Product(Rows(l), Rows(r)), {p \in ToSet(Product(Rows(l), Rows(r))) : Match(j, l, r, p[1], p[2])})
  BY DEF Filter, PairsFound
<1>4. ToSet(Product(Rows(l), Rows(r))) = RowIds(l) \X RowIds(r)
  BY <1>2, ListsSet
<1>5. pairs = Within(Product(Rows(l), Rows(r)), Matched(j, l, r))
  BY <1>3, <1>4 DEF Matched
<1>6. Matched(j, l, r) \subseteq RowIds(l) \X RowIds(r)
  BY DEF Matched
<1> HIDE DEF pairs
<1>7. Lists(pairs, Matched(j, l, r))
  BY <1>2, <1>5, <1>6, WithinSubset
<1> QED
  BY <1>7 DEF pairs

\* Tables that change sides: the pairs turned, and the lone rows of the other side.
LEMMA MirroredSets ==
  ASSUME NEW l, NEW r, IsTable(l), IsTable(r), NEW j \in Join
  PROVE  /\ Turned(Matched(Mirrored(j), r, l)) = Matched(j, l, r)
         /\ LoneLefts(Mirrored(j), r, l) = LoneRights(j, l, r)
         /\ Turned(Matched(Mirrored(j), r, l) \cup (LoneLefts(Mirrored(j), r, l) \X {NoRow}))
              = Matched(j, l, r) \cup ({NoRow} \X LoneRights(j, l, r))
<1> DEFINE m == Mirrored(j)
<1>1. \A x \in RowIds(l), y \in RowIds(r) : Match(m, r, l, y, x) = Match(j, l, r, x, y)
  BY MirroredMatch
<1> HIDE DEF m
<1>2. Turned(Matched(m, r, l)) = Matched(j, l, r)
  <2>1. ASSUME NEW p \in Matched(j, l, r) PROVE p \in Turned(Matched(m, r, l))
    <3>1. p[1] \in RowIds(l) /\ p[2] \in RowIds(r) /\ p = <<p[1], p[2]>> /\ Match(j, l, r, p[1], p[2])
      BY DEF Matched
    <3>2. <<p[2], p[1]>> \in Matched(m, r, l)
      BY <1>1, <3>1 DEF Matched
    <3> QED
      BY <3>1, <3>2 DEF Turned
  <2>2. ASSUME NEW q \in Turned(Matched(m, r, l)) PROVE q \in Matched(j, l, r)
    <3>1. PICK p \in Matched(m, r, l) : q = <<p[2], p[1]>>
      BY DEF Turned
    <3>2. p[1] \in RowIds(r) /\ p[2] \in RowIds(l) /\ Match(m, r, l, p[1], p[2])
      BY DEF Matched
    <3> QED
      BY <1>1, <3>1, <3>2 DEF Matched
  <2> QED
    BY <2>1, <2>2
<1>3. LoneLefts(m, r, l) = LoneRights(j, l, r)
  BY <1>1 DEF LoneLefts, LoneRights
<1>4. Turned(LoneLefts(m, r, l) \X {NoRow}) = {NoRow} \X LoneLefts(m, r, l)
  <2>1. ASSUME NEW S PROVE Turned(S \X {NoRow}) = {NoRow} \X S
    <3>1. ASSUME NEW p \in S \X {NoRow} PROVE <<p[2], p[1]>> \in {NoRow} \X S
      OBVIOUS
    <3>2. ASSUME NEW q \in {NoRow} \X S PROVE q \in Turned(S \X {NoRow})
      <4>1. <<q[2], q[1]>> \in S \X {NoRow} /\ q = <<q[1], q[2]>>
        OBVIOUS
      <4> QED
        BY <4>1 DEF Turned
    <3> QED
      BY <3>1, <3>2 DEF Turned
  <2> QED
    BY <2>1
<1>5. \A P, Q : Turned(P \cup Q) = Turned(P) \cup Turned(Q)
  BY DEF Turned
<1> QED
  BY <1>2, <1>3, <1>4, <1>5 DEF m

LEMMA LoopIs ==
  ASSUME NEW l, NEW r, NEW j, j.mode \in Modes
  PROVE  LET pairs == PairsFound(j, l, r)
             outer == LoopOuter(j, l, r)
         IN /\ j.mode = "Inner" => LoopOver(j, l, r) = pairs
            /\ j.mode \in {"Left", "Right"} => LoopOver(j, l, r) = outer
            /\ j.mode = "FullOuter" => LoopOver(j, l, r) = outer \o NullWith(Without(Rows(r), Rights(pairs)))
            /\ j.mode = "Semi" => LoopOver(j, l, r) = WithNull(Within(Rows(l), Lefts(pairs)))
            /\ Anti(j) => LoopOver(j, l, r) = WithNull(Without(Rows(l), Lefts(pairs)))
  BY DEF LoopOver, Anti, Modes, PairsFound, LoopOuter

\* The nested loop join returns what the verification join does, each row once.
LEMMA NestedLoopLists ==
  ASSUME NEW l, NEW r, IsTable(l), IsTable(r), NEW j \in Join
  PROVE  Lists(NestedLoopJoin(j, l, r), Verified(j, l, r))
<1>0. j.mode \in Modes /\ Mirrored(j).mode = j.mode
  BY DEF Join, Mirrored
<1> DEFINE pairs == PairsFound(j, l, r)
           lone == WithNull(Without(Rows(l), Lefts(pairs)))
           partnered == WithNull(Within(Rows(l), Lefts(pairs)))
           full == LoopOuter(j, l, r) \o NullWith(Without(Rows(r), Rights(pairs)))
<1>7. /\ j.mode = "Inner" => LoopOver(j, l, r) = pairs
      /\ j.mode = "Left" => LoopOver(j, l, r) = LoopOuter(j, l, r)
      /\ j.mode = "FullOuter" => LoopOver(j, l, r) = full
      /\ j.mode = "Semi" => LoopOver(j, l, r) = partnered
      /\ Anti(j) => LoopOver(j, l, r) = lone
  BY <1>0, LoopIs, Zenon
<1>8. /\ Lists(pairs, Matched(j, l, r))
      /\ Lists(lone, LoneLefts(j, l, r) \X {NoRow})
      /\ Lists(partnered, (RowIds(l) \ LoneLefts(j, l, r)) \X {NoRow})
      /\ Lists(LoopOuter(j, l, r), Matched(j, l, r) \cup (LoneLefts(j, l, r) \X {NoRow}))
      /\ Lists(full, Matched(j, l, r) \cup (LoneLefts(j, l, r) \X {NoRow}) \cup ({NoRow} \X LoneRights(j, l, r)))
  BY LoopLists, OuterLists, Zenon DEF LoopOuter
<1> HIDE DEF pairs, lone, partnered, full
<1>1. CASE j.mode = "Right"
  <2> DEFINE m == Mirrored(j)
             P == Matched(m, r, l) \cup (LoneLefts(m, r, l) \X {NoRow})
  <2>1. NestedLoopJoin(j, l, r) = Swapped(LoopOver(m, r, l))
    BY <1>1 DEF NestedLoopJoin
  <2>2. Lists(LoopOver(m, r, l), P)
    <3> HIDE DEF m
    <3>1. m.mode = "Right" /\ m.mode \in Modes
      BY <1>0, <1>1 DEF m
    <3>2. LoopOver(m, r, l) = LoopOuter(m, r, l)
      BY <3>1, LoopIs, Zenon
    <3>3. Lists(LoopOuter(m, r, l), Matched(m, r, l) \cup (LoneLefts(m, r, l) \X {NoRow}))
      BY LoopLists, OuterLists, Zenon DEF LoopOuter
    <3> QED
      BY <3>2, <3>3
  <2>3. P \subseteq RowIds(r) \X (RowIds(l) \cup {NoRow})
    BY DEF Matched, LoneLefts
  <2>4. Lists(Swapped(LoopOver(m, r, l)), Turned(P))
    <3> HIDE DEF m, P
    <3> QED
      BY <2>2, <2>3, SwappedLists
  <2>5. Turned(P) = Verified(j, l, r)
    <3>1. Turned(P) = Matched(j, l, r) \cup ({NoRow} \X LoneRights(j, l, r))
      BY MirroredSets
    <3>2. Verified(j, l, r) = Matched(j, l, r) \cup ({NoRow} \X LoneRights(j, l, r))
      BY <1>1, VerifiedIs
    <3> QED
      BY <3>1, <3>2
  <2> QED
    BY <2>1, <2>4, <2>5
<1>2. CASE j.mode = "Inner"
  <2>1. NestedLoopJoin(j, l, r) = LoopOver(j, l, r) /\ Verified(j, l, r) = Matched(j, l, r)
    BY <1>2, VerifiedIs DEF NestedLoopJoin
  <2> QED
    BY <1>2, <1>7, <1>8, <2>1
<1>3. CASE j.mode = "Left"
  <2>1. NestedLoopJoin(j, l, r) = LoopOver(j, l, r) /\ Verified(j, l, r) = Matched(j, l, r) \cup (LoneLefts(j, l, r) \X {NoRow})
    BY <1>3, VerifiedIs DEF NestedLoopJoin
  <2> QED
    BY <1>3, <1>7, <1>8, <2>1
<1>4. CASE j.mode = "FullOuter"
  <2>1. /\ NestedLoopJoin(j, l, r) = LoopOver(j, l, r)
        /\ Verified(j, l, r) = Matched(j, l, r) \cup (LoneLefts(j, l, r) \X {NoRow}) \cup ({NoRow} \X LoneRights(j, l, r))
    BY <1>4, VerifiedIs DEF NestedLoopJoin
  <2> QED
    BY <1>4, <1>7, <1>8, <2>1
<1>5. CASE j.mode = "Semi"
  <2>1. NestedLoopJoin(j, l, r) = LoopOver(j, l, r) /\ Verified(j, l, r) = (RowIds(l) \ LoneLefts(j, l, r)) \X {NoRow}
    BY <1>5, VerifiedIs DEF NestedLoopJoin
  <2> QED
    BY <1>5, <1>7, <1>8, <2>1
<1>6. CASE Anti(j)
  <2>1. NestedLoopJoin(j, l, r) = LoopOver(j, l, r) /\ Verified(j, l, r) = LoneLefts(j, l, r) \X {NoRow}
    BY <1>6, VerifiedIs DEF NestedLoopJoin, Anti
  <2> QED
    BY <1>6, <1>7, <1>8, <2>1
<1> QED
  BY <1>0, <1>1, <1>2, <1>3, <1>4, <1>5, <1>6 DEF Modes, Anti

\* A table whose rows S are spread over parts.
Splits(parts, S) ==
  /\ Len(parts) \in Nat
  /\ parts = [p \in 1..Len(parts) |-> parts[p]]
  /\ \A p \in 1..Len(parts) : Lists(parts[p], ToSet(parts[p]))
  /\ \A p, q \in 1..Len(parts) : p # q => ToSet(parts[p]) \cap ToSet(parts[q]) = {}
  /\ UNION {ToSet(parts[p]) : p \in 1..Len(parts)} = S

LEMMA SplitsFlat == ASSUME NEW parts, NEW S, Splits(parts, S) PROVE Lists(FlattenSeq(parts), S)
<1> DEFINE n == Len(parts)
           SS == [p \in 1..n |-> ToSet(parts[p])]
<1>1. n \in Nat /\ parts = [p \in 1..n |-> parts[p]]
  BY DEF Splits
<1>2. \A p \in 1..n : Lists(parts[p], SS[p])
  BY DEF Splits
<1>3. \A p, q \in 1..n : p # q => SS[p] \cap SS[q] = {}
  BY DEF Splits
<1>4. UNION {SS[p] : p \in 1..n} = S
  BY DEF Splits
<1> HIDE DEF SS, n
<1>5. Lists(FlattenSeq(parts), UNION {SS[p] : p \in 1..n})
  BY <1>1, <1>2, <1>3, FlattenLists
<1> QED
  BY <1>4, <1>5

\* A function that gives each part of 1..n the list of its share splits the whole.
LEMMA SplitsOf ==
  ASSUME NEW n \in Nat, NEW parts, parts = [p \in 1..n |-> parts[p]], NEW SS,
         \A p \in 1..n : Lists(parts[p], SS[p]),
         \A p, q \in 1..n : p # q => SS[p] \cap SS[q] = {}
  PROVE  Splits(parts, UNION {SS[p] : p \in 1..n}) /\ Len(parts) = n
<1>1. Len(parts) = n
  OBVIOUS
<1>2. \A p \in 1..n : ToSet(parts[p]) = SS[p]
  BY ListsSet
<1> QED
  BY <1>1, <1>2 DEF Splits

\* The rows a side materializes.
Kept(t, keepNulls, filter) ==
  {x \in RowIds(t) : keepNulls \/ (Key(t, x) # Null /\ Slot(Key(t, x)) \in filter)}

LEMMA MaterializeSplits ==
  ASSUME NEW t, IsTable(t), NEW keepNulls, NEW filter
  PROVE  /\ Splits(Materialize(t, keepNulls, filter), Kept(t, keepNulls, filter))
         /\ Len(Materialize(t, keepNulls, filter)) = Len(t)
<1> DEFINE n == Len(t)
           Passes(x) == keepNulls \/ (Key(t, x) # Null /\ Slot(Key(t, x)) \in filter)
           parts == Materialize(t, keepNulls, filter)
           Own(c) == {c} \X (1..Len(t[c]))
           SS == [c \in 1..n |-> {x \in Own(c) : Passes(x)}]
<1>1. n \in Nat /\ DOMAIN t = 1..n
  BY TableShape
<1>2. parts = [c \in 1..n |-> Filter(ChunkRows(t, c), LAMBDA x : keepNulls \/ (Key(t, x) # Null /\ Slot(Key(t, x)) \in filter))]
  BY <1>1 DEF Materialize
<1>3. ASSUME NEW c \in 1..n PROVE Lists(parts[c], SS[c])
  <2>1. Lists(ChunkRows(t, c), Own(c))
    BY ChunkLists
  <2>2. ToSet(ChunkRows(t, c)) = Own(c)
    BY <2>1, ListsSet
  <2>3. parts[c] = Within(ChunkRows(t, c), {x \in ToSet(ChunkRows(t, c)) : Passes(x)})
    BY <1>2 DEF Filter
  <2>4. parts[c] = Within(ChunkRows(t, c), SS[c])
    BY <2>2, <2>3
  <2>5. SS[c] \subseteq Own(c)
    OBVIOUS
  <2> HIDE DEF parts, SS, Own
  <2> QED
    BY <2>1, <2>4, <2>5, WithinSubset
<1>4. ASSUME NEW c \in 1..n, NEW d \in 1..n, c # d PROVE SS[c] \cap SS[d] = {}
  BY <1>4
<1>5. UNION {SS[c] : c \in 1..n} = Kept(t, keepNulls, filter)
  <2>1. \A c \in 1..n : SS[c] = {x \in Own(c) : Passes(x)}
    OBVIOUS
  <2>2. RowIds(t) = UNION {Own(c) : c \in 1..n}
    BY DEF RowIds
  <2>3. Kept(t, keepNulls, filter) = {x \in RowIds(t) : Passes(x)}
    BY DEF Kept
  <2> HIDE DEF SS, Own, Passes
  <2> QED
    BY <2>1, <2>2, <2>3
<1>6. parts = [c \in 1..n |-> parts[c]]
  BY <1>2
<1> HIDE DEF parts, SS, n, Own, Passes
<1>7. Splits(parts, UNION {SS[c] : c \in 1..n}) /\ Len(parts) = n
  BY <1>1, <1>3, <1>4, <1>6, SplitsOf
<1> QED
  BY <1>5, <1>7 DEF parts, n

LEMMA HashedTyped ==
  ASSUME NEW t, IsTable(t), NEW x \in RowIds(t)
  PROVE  Hashed(t, x) \in Int /\ (Key(t, x) # Null => Hashed(t, x) = Key(t, x))
  BY KeysTyped DEF Hashed

LEMMA RadixSplits ==
  ASSUME NEW t, IsTable(t), NEW parts, NEW S, Splits(parts, S), S \subseteq RowIds(t), NEW bits \in Nat, 2^bits \in Nat \ {0}
  PROVE  LET radix == PartitionByRadix(t, parts, bits)
         IN /\ Splits(radix, S)
            /\ radix = <<>> <=> parts = <<>>
            /\ bits = 0 => radix = parts
            /\ bits # 0 /\ parts # <<>> =>
                 /\ Len(radix) = 2^bits
                 /\ \A p \in 1..2^bits : ToSet(radix[p]) = {x \in S : Hashed(t, x) % 2^bits = p - 1}
<1>1. CASE bits = 0 \/ parts = <<>>
  BY <1>1 DEF PartitionByRadix
<1>2. CASE bits # 0 /\ parts # <<>>
  <2> DEFINE n == 2^bits
             radix == PartitionByRadix(t, parts, bits)
             SS == [p \in 1..n |-> {x \in S : Hashed(t, x) % n = p - 1}]
  <2>1. n \in Nat /\ n # 0
    OBVIOUS
  <2>2. radix = [p \in 1..n |-> Filter(FlattenSeq(parts), LAMBDA x : Hashed(t, x) % n = p - 1)]
    BY <1>2 DEF PartitionByRadix
  <2> HIDE DEF n, radix
  <2>3. Lists(FlattenSeq(parts), S)
    BY SplitsFlat
  <2>4. ASSUME NEW p \in 1..n PROVE Lists(radix[p], SS[p])
    <3>1. ToSet(FlattenSeq(parts)) = S
      BY <2>3, ListsSet
    <3>2. radix[p] = Within(FlattenSeq(parts), {x \in ToSet(FlattenSeq(parts)) : Hashed(t, x) % n = p - 1})
      BY <2>2 DEF Filter
    <3>3. radix[p] = Within(FlattenSeq(parts), SS[p]) /\ SS[p] \subseteq S
      BY <3>1, <3>2
    <3> HIDE DEF SS
    <3> QED
      BY <2>3, <3>3, WithinSubset
  <2>5. ASSUME NEW p \in 1..n, NEW q \in 1..n, p # q PROVE SS[p] \cap SS[q] = {}
    <3>1. p - 1 # q - 1
      BY <2>5, <2>1
    <3> QED
      BY <3>1
  <2>6. UNION {SS[p] : p \in 1..n} = S
    <3>1. ASSUME NEW x \in S PROVE \E p \in 1..n : x \in SS[p]
      <4>1. Hashed(t, x) \in Int
        BY HashedTyped
      <4>2. Hashed(t, x) % n \in 0..n - 1
        BY <2>1, <4>1
      <4>3. PICK p \in 1..n : p - 1 = Hashed(t, x) % n
        <5>1. ASSUME NEW k \in 0..n - 1 PROVE k + 1 \in 1..n /\ (k + 1) - 1 = k
          BY <2>1
        <5> QED
          BY <4>2, <5>1
      <4> QED
        BY <4>3
    <3> QED
      BY <3>1
  <2>7. radix = [p \in 1..n |-> radix[p]]
    BY <2>2
  <2> HIDE DEF SS
  <2>8. Splits(radix, UNION {SS[p] : p \in 1..n}) /\ Len(radix) = n /\ \A p \in 1..n : ToSet(radix[p]) = SS[p]
    <3>1. \A p \in 1..n : Lists(radix[p], SS[p])
      BY <2>4
    <3>2. \A p, q \in 1..n : p # q => SS[p] \cap SS[q] = {}
      BY <2>5
    <3>3. n \in Nat
      BY <2>1
    <3>4. Splits(radix, UNION {SS[p] : p \in 1..n}) /\ Len(radix) = n
      BY <3>1, <3>2, <3>3, <2>7, SplitsOf
    <3>5. \A p \in 1..n : ToSet(radix[p]) = SS[p]
      BY <3>1, ListsSet
    <3> QED
      BY <3>4, <3>5
  <2>9. radix # <<>>
    BY <2>1, <2>8
  <2> QED
    BY <1>2, <2>6, <2>8, <2>9 DEF SS, radix, n
<1> QED
  BY <1>1, <1>2

\* The rows of S that hash a value v.
Hashing(t, S, v) == {y \in S : Hashed(t, y) = v}

\* A hash table has the values that pass its filter, each with the rows that have it.
LEMMA HashTableIs ==
  ASSUME NEW t, NEW xs, NEW S, Lists(xs, S), NEW single, NEW filter, NEW v, Slot(v) \in filter
  PROVE  /\ v \in DOMAIN HashTable(t, xs, single, filter) <=> Hashing(t, S, v) # {}
         /\ ~single /\ Hashing(t, S, v) # {} => Lists(HashTable(t, xs, single, filter)[v], Hashing(t, S, v))
<1> DEFINE table == HashTable(t, xs, single, filter)
           same == Hashing(t, S, v)
<1>1. ToSet(xs) = S
  BY ListsSet
<1>2. table = [w \in {Hashed(t, x) : x \in {y \in S : Slot(Hashed(t, y)) \in filter}} |->
                 IF single THEN <<>> ELSE Filter(xs, LAMBDA x : Hashed(t, x) = w)]
  BY <1>1 DEF HashTable
<1>3. v \in DOMAIN table <=> same # {}
  BY <1>2 DEF Hashing
<1>4. ASSUME ~single, same # {} PROVE Lists(table[v], same)
  <2>1. table[v] = Within(xs, {x \in ToSet(xs) : Hashed(t, x) = v})
    BY <1>2, <1>3, <1>4 DEF Filter
  <2>2. table[v] = Within(xs, same) /\ same \subseteq S
    BY <1>1, <2>1 DEF Hashing
  <2> HIDE DEF table, same
  <2> QED
    BY <2>2, WithinSubset
<1> QED
  BY <1>3, <1>4

LEMMA FilterOfIs ==
  ASSUME NEW t, NEW parts, NEW S, Splits(parts, S)
  PROVE  FilterOf(t, parts) = {Slot(Hashed(t, x)) : x \in S}
<1>1. ToSet(FlattenSeq(parts)) = S
  BY SplitsFlat, ListsSet
<1> QED
  BY <1>1 DEF FilterOf

LEMMA SlotsTrue == ASSUME BloomAssumption, NEW v \in Int PROVE Slot(v) \in AllTrue
  BY DEF BloomAssumption, Slot, AllTrue

\* The build rows B and the probe rows P that a hash join works with: all of a side that
\* keeps its NULLs; of a side that does not no NULL, and all rows with a partner.
Sides(j, build, probe, B, P) ==
  /\ B \subseteq RowIds(build) /\ P \subseteq RowIds(probe)
  /\ IF KeepsBuildNulls(j) THEN B = RowIds(build) ELSE \A y \in B : Key(build, y) # Null
  /\ IF KeepsProbeNulls(j) THEN P = RowIds(probe) ELSE \A x \in P : Key(probe, x) # Null
  /\ \A y \in RowIds(build), x \in RowIds(probe) :
       Key(build, y) # Null /\ Key(probe, x) = Key(build, y) => y \in B /\ x \in P

LEMMA KeptSides ==
  ASSUME BloomAssumption, NEW j, NEW build, NEW probe, IsTable(build), IsTable(probe), NEW fb, NEW fp,
         LET B == Kept(build, KeepsBuildNulls(j), fb)
             P == Kept(probe, KeepsProbeNulls(j), fp)
         IN \/ fb = AllTrue /\ fp = {Slot(Hashed(build, y)) : y \in B}
            \/ fp = AllTrue /\ fb = {Slot(Hashed(probe, x)) : x \in P}
  PROVE  Sides(j, build, probe, Kept(build, KeepsBuildNulls(j), fb), Kept(probe, KeepsProbeNulls(j), fp))
<1> DEFINE B == Kept(build, KeepsBuildNulls(j), fb)
           P == Kept(probe, KeepsProbeNulls(j), fp)
<1>1. /\ B \subseteq RowIds(build) /\ P \subseteq RowIds(probe)
      /\ IF KeepsBuildNulls(j) THEN B = RowIds(build) ELSE \A y \in B : Key(build, y) # Null
      /\ IF KeepsProbeNulls(j) THEN P = RowIds(probe) ELSE \A x \in P : Key(probe, x) # Null
  BY DEF Kept
<1>2. ASSUME NEW y \in RowIds(build), NEW x \in RowIds(probe), Key(build, y) # Null, Key(probe, x) = Key(build, y)
      PROVE  y \in B /\ x \in P
  <2> DEFINE v == Key(build, y)
  <2>1. v \in Int /\ Hashed(build, y) = v /\ Hashed(probe, x) = v /\ v # Null
    BY <1>2, HashedTyped
  <2>2. Slot(v) \in AllTrue
    BY <2>1, SlotsTrue
  <2>3. Slot(v) \in fb => y \in B
    BY <1>2 DEF Kept
  <2>4. Slot(v) \in fp => x \in P
    BY <1>2 DEF Kept
  <2> HIDE DEF B, P, v
  <2>5. CASE fb = AllTrue /\ fp = {Slot(Hashed(build, z)) : z \in B}
    <3>1. y \in B
      BY <2>2, <2>3, <2>5
    <3>2. Slot(v) \in fp
      BY <2>1, <2>5, <3>1
    <3> QED
      BY <2>4, <3>1, <3>2
  <2>6. CASE fp = AllTrue /\ fb = {Slot(Hashed(probe, z)) : z \in P}
    <3>1. x \in P
      BY <2>2, <2>4, <2>6
    <3>2. Slot(v) \in fb
      BY <2>1, <2>6, <3>1
    <3> QED
      BY <2>3, <3>1, <3>2
  <2> QED
    BY <2>5, <2>6 DEF B, P
<1> QED
  BY <1>1, <1>2 DEF Sides

LEMMA MaterializedSides ==
  ASSUME BloomAssumption, NEW j, NEW build, NEW probe, IsTable(build), IsTable(probe)
  PROVE  LET mat == Materialized(j, build, probe)
         IN \E B, P : /\ Sides(j, build, probe, B, P)
                      /\ Splits(mat.build, B) /\ Splits(mat.probe, P)
                      /\ Len(mat.build) = Len(build)
<1> DEFINE mat == Materialized(j, build, probe)
           kb == KeepsBuildNulls(j)
           kp == KeepsProbeNulls(j)
<1>1. CASE RowCount(build) < RowCount(probe)
  <2> DEFINE bs == Materialize(build, kb, AllTrue)
             fp == FilterOf(build, bs)
             ps == Materialize(probe, kp, fp)
             B == Kept(build, kb, AllTrue)
             P == Kept(probe, kp, fp)
  <2>1. mat.build = bs /\ mat.probe = ps
    BY <1>1 DEF Materialized
  <2>2. Splits(bs, B) /\ Len(bs) = Len(build)
    BY MaterializeSplits
  <2>3. fp = {Slot(Hashed(build, y)) : y \in B}
    BY <2>2, FilterOfIs
  <2>4. Splits(ps, P)
    BY MaterializeSplits
  <2>5. Sides(j, build, probe, B, P)
    <3> HIDE DEF fp
    <3> QED
      BY <2>3, KeptSides
  <2> HIDE DEF bs, fp, ps, B, P, mat
  <2> QED
    BY <2>1, <2>2, <2>4, <2>5 DEF mat
<1>2. CASE ~(RowCount(build) < RowCount(probe))
  <2> DEFINE ps == Materialize(probe, kp, AllTrue)
             fb == FilterOf(probe, ps)
             bs == Materialize(build, kb, fb)
             B == Kept(build, kb, fb)
             P == Kept(probe, kp, AllTrue)
  <2>1. mat.build = bs /\ mat.probe = ps
    BY <1>2 DEF Materialized
  <2>2. Splits(ps, P)
    BY MaterializeSplits
  <2>3. fb = {Slot(Hashed(probe, x)) : x \in P}
    BY <2>2, FilterOfIs
  <2>4. Splits(bs, B) /\ Len(bs) = Len(build)
    BY MaterializeSplits
  <2>5. Sides(j, build, probe, B, P)
    <3> HIDE DEF fb
    <3> QED
      BY <2>3, KeptSides
  <2> HIDE DEF bs, fb, ps, B, P, mat
  <2> QED
    BY <2>1, <2>2, <2>4, <2>5 DEF mat
<1> QED
  BY <1>1, <1>2

\* table holds the build rows Same with the value v, if any; it may be missing when there are none.
Holder(table, v, Same, single) ==
  \/ table = <<>> /\ Same = {}
  \/ /\ table # <<>>
     /\ v \in DOMAIN table[1] <=> Same # {}
     /\ ~single /\ Same # {} => Lists(table[1][v], Same)

\* The table a probed row meets has all build rows whose hashed value is its own.
LEMMA TableHolds ==
  ASSUME NEW build, NEW probe, IsTable(build), IsTable(probe), NEW bits \in Nat, 2^bits \in Nat \ {0}, NEW single,
         NEW bs, NEW ps, NEW B, NEW P, Splits(bs, B), Splits(ps, P), B \subseteq RowIds(build), P \subseteq RowIds(probe),
         NEW p \in 1..Len(PartitionByRadix(probe, ps, bits)), NEW x \in ToSet(PartitionByRadix(probe, ps, bits)[p])
  PROVE  LET tables == Build(build, PartitionByRadix(build, bs, bits), bits, single, FilterOf(probe, ps))
             table == TableFor(tables, p)
         IN /\ x \in P
            /\ Holder(table, Hashed(probe, x), Hashing(build, B, Hashed(probe, x)), single)
            /\ table # <<>> => bs # <<>>
<1> DEFINE v == Hashed(probe, x)
           Same == Hashing(build, B, v)
           filter == FilterOf(probe, ps)
           bparts == PartitionByRadix(build, bs, bits)
           pparts == PartitionByRadix(probe, ps, bits)
           tables == Build(build, bparts, bits, single, filter)
           table == TableFor(tables, p)
           n == 2^bits
<1>1. /\ Splits(bparts, B) /\ (bparts = <<>> <=> bs = <<>>) /\ (bits = 0 => bparts = bs)
      /\ bits # 0 /\ bs # <<>> =>
           Len(bparts) = n /\ \A q \in 1..n : ToSet(bparts[q]) = {y \in B : Hashed(build, y) % n = q - 1}
  BY RadixSplits
<1>2. /\ Splits(pparts, P) /\ (pparts = <<>> <=> ps = <<>>)
      /\ bits # 0 /\ ps # <<>> =>
           Len(pparts) = n /\ \A q \in 1..n : ToSet(pparts[q]) = {z \in P : Hashed(probe, z) % n = q - 1}
  BY RadixSplits
<1>3. x \in P
  BY <1>2 DEF Splits
<1>4. Slot(v) \in filter
  BY <1>3, FilterOfIs
<1> HIDE DEF bparts, pparts, filter
<1>5. CASE bs = <<>>
  <2>1. table = <<>>
    BY <1>1, <1>5 DEF Build, TableFor
  <2>2. Same = {}
    BY <1>5 DEF Splits, Hashing
  <2> HIDE DEF Same, v
  <2> QED
    BY <1>3, <2>1, <2>2 DEF Holder, bparts, filter, Same, v
<1>6. CASE bs # <<>> /\ bits = 0
  <2> DEFINE held == HashTable(build, FlattenSeq(bparts), single, filter)
  <2>1. table = <<held>>
    BY <1>1, <1>6 DEF Build, TableFor
  <2>2. Lists(FlattenSeq(bparts), B)
    BY <1>1, SplitsFlat
  <2>3. /\ v \in DOMAIN held <=> Same # {}
        /\ ~single /\ Same # {} => Lists(held[v], Same)
    <3> HIDE DEF v
    <3> QED
      BY <1>4, <2>2, HashTableIs
  <2> HIDE DEF held, Same, v
  <2> QED
    BY <1>3, <1>6, <2>1, <2>3 DEF Holder, bparts, filter, Same, v
<1>7. CASE bs # <<>> /\ bits # 0
  <2>1. ps # <<>>
    BY <1>2 DEF pparts
  <2>2. p \in 1..n /\ v % n = p - 1
    BY <1>2, <1>7, <2>1 DEF pparts
  <2>3. Len(bparts) = n /\ DOMAIN bparts = 1..n /\ bparts # <<>>
    <3>1. bparts = [q \in 1..Len(bparts) |-> bparts[q]] /\ Len(bparts) = n
      BY <1>1, <1>7 DEF Splits
    <3> QED
      BY <1>1, <1>7, <3>1
  <2> DEFINE held == HashTable(build, bparts[p], single, filter)
             mine == ToSet(bparts[p])
  <2>4. tables = [q \in 1..n |-> IF bparts[q] = <<>> THEN <<>> ELSE <<HashTable(build, bparts[q], single, filter)>>]
    BY <1>7, <2>3 DEF Build
  <2>5. table = IF bparts[p] = <<>> THEN <<>> ELSE <<held>>
    <3>1. Len(tables) = n /\ tables # <<>>
      BY <2>4
    <3>2. n > 1 \/ p = 1
      BY <2>2
    <3>3. table = tables[p]
      BY <3>1, <3>2 DEF TableFor
    <3> QED
      BY <2>2, <2>4, <3>3
  <2>6. Lists(bparts[p], mine)
    BY <1>1, <2>2, <2>3 DEF Splits
  <2>7. Same = Hashing(build, mine, v)
    <3>1. mine = {y \in B : Hashed(build, y) % n = p - 1}
      BY <1>1, <1>7, <2>2
    <3> HIDE DEF mine, v, n
    <3> QED
      BY <2>2, <3>1 DEF Hashing
  <2>8. bparts[p] = <<>> => Same = {}
    BY <2>7 DEF ToSet, Hashing
  <2>9. /\ v \in DOMAIN held <=> Same # {}
        /\ ~single /\ Same # {} => Lists(held[v], Same)
    <3> HIDE DEF mine, v, Same
    <3> DEFINE same == Hashing(build, mine, v)
    <3>1. /\ v \in DOMAIN held <=> same # {}
          /\ ~single /\ same # {} => Lists(held[v], same)
      BY <1>4, <2>6, HashTableIs
    <3> HIDE DEF same, held
    <3> QED
      BY <2>7, <3>1 DEF same
  <2> HIDE DEF held, mine, Same, v
  <2> QED
    BY <1>3, <1>7, <2>5, <2>8, <2>9 DEF Holder, bparts, filter, Same, v
<1> QED
  BY <1>5, <1>6, <1>7

\* The build rows that match a probed one.
Partners(j, build, probe, x) == {y \in RowIds(build) : Match(j, build, probe, y, x)}

\* What the join is to return for a probed row.
Due(j, build, probe, x) ==
  LET found == Partners(j, build, probe, x)
  IN IF SemiOrAnti(j) THEN IF j.mode = "Semi" <=> found # {} THEN {<<x, NoRow>>} ELSE {}
     ELSE IF found = {} /\ KeepsProbeNulls(j) THEN {<<NoRow, x>>} ELSE found \X {x}

\* Of the rows that hash like a probed one those with its key match, NULLs apart.
LEMMA PartnersHash ==
  ASSUME NEW build, NEW probe, IsTable(build), IsTable(probe), NEW j \in Join, SupportsHash(j), j.mode # "AntiNullAsTrue",
         NEW B, NEW P, Sides(j, build, probe, B, P), NEW x \in P
  PROVE  /\ Key(probe, x) = Null => Partners(j, build, probe, x) = {}
         /\ Key(probe, x) # Null =>
              Partners(j, build, probe, x)
                = {y \in Hashing(build, B, Hashed(probe, x)) : SatisfiesSecondary(j, build, probe, y, x)}
<1>1. j.cond = "=" /\ ~KeepsBuildNulls(j)
  BY DEF SupportsHash, KeepsBuildNulls
<1>2. x \in RowIds(probe) /\ B \subseteq RowIds(build) /\ \A y \in B : Key(build, y) # Null
  BY <1>1 DEF Sides
<1>3. ASSUME NEW y \in RowIds(build)
      PROVE  Match(j, build, probe, y, x)
               <=> /\ Key(build, y) # Null /\ Key(probe, x) # Null /\ Key(probe, x) = Key(build, y)
                   /\ SatisfiesSecondary(j, build, probe, y, x)
  BY <1>1 DEF Match, Satisfies, Holds
<1>4. CASE Key(probe, x) = Null
  BY <1>3, <1>4 DEF Partners
<1>5. CASE Key(probe, x) # Null
  <2>1. Hashed(probe, x) = Key(probe, x)
    BY <1>2, <1>5, HashedTyped
  <2>2. ASSUME NEW y \in RowIds(build)
        PROVE  y \in Hashing(build, B, Hashed(probe, x)) <=> Key(build, y) # Null /\ Key(probe, x) = Key(build, y)
    <3>1. Key(build, y) # Null /\ Key(probe, x) = Key(build, y) => y \in B
      BY <1>2 DEF Sides
    <3>2. Key(build, y) # Null => Hashed(build, y) = Key(build, y)
      BY HashedTyped
    <3> QED
      BY <1>2, <2>1, <3>1, <3>2 DEF Hashing
  <2>3. Hashing(build, B, Hashed(probe, x)) \subseteq RowIds(build)
    BY <1>2 DEF Hashing
  <2> QED
    BY <1>3, <1>5, <2>2, <2>3 DEF Partners
<1> QED
  BY <1>4, <1>5

LEMMA FoundLists ==
  ASSUME NEW build, NEW probe, IsTable(build), IsTable(probe), NEW j \in Join, SupportsHash(j), j.mode # "AntiNullAsTrue",
         NEW B, NEW P, Sides(j, build, probe, B, P), NEW x \in P, NEW table, NEW single, ~single,
         Holder(table, Hashed(probe, x), Hashing(build, B, Hashed(probe, x)), single)
  PROVE  Lists(Found(j, build, probe, table, x), Partners(j, build, probe, x))
<1> DEFINE v == Hashed(probe, x)
           Same == Hashing(build, B, v)
           partners == Partners(j, build, probe, x)
<1>1. /\ Key(probe, x) = Null => partners = {}
      /\ Key(probe, x) # Null => partners = {y \in Same : SatisfiesSecondary(j, build, probe, y, x)}
  BY PartnersHash
<1>2. CASE table = <<>> \/ Key(probe, x) = Null \/ v \notin DOMAIN table[1]
  <2>1. Found(j, build, probe, table, x) = <<>>
    BY <1>2 DEF Found
  <2>2. Key(probe, x) = Null \/ Same = {}
    BY <1>2 DEF Holder
  <2>3. partners = {}
    BY <1>1, <2>2
  <2> HIDE DEF partners
  <2> QED
    BY <2>1, <2>3, ListsNone DEF partners
<1>3. CASE ~(table = <<>> \/ Key(probe, x) = Null \/ v \notin DOMAIN table[1])
  <2> DEFINE xs == table[1][v]
  <2>1. Found(j, build, probe, table, x) = Within(xs, {y \in ToSet(xs) : SatisfiesSecondary(j, build, probe, y, x)})
    BY <1>3 DEF Found, Filter
  <2>2. Lists(xs, Same)
    BY <1>3 DEF Holder
  <2>3. ToSet(xs) = Same
    BY <2>2, ListsSet
  <2>4. Found(j, build, probe, table, x) = Within(xs, partners) /\ partners \subseteq Same
    BY <1>1, <1>3, <2>1, <2>3
  <2> HIDE DEF xs, Same, partners
  <2>5. Lists(Found(j, build, probe, table, x), partners)
    BY <2>2, <2>4, WithinSubset
  <2> QED
    BY <2>5 DEF partners
<1> QED
  BY <1>2, <1>3

\* Without NULLs on the build side a row with a NULL matches all build rows, and the
\* others those with their key.
LEMMA PartnersOfAnti ==
  ASSUME NEW build, NEW probe, IsTable(build), IsTable(probe), NEW j \in Join, SupportsHash(j), j.mode = "AntiNullAsTrue",
         NEW B, NEW P, Sides(j, build, probe, B, P), NEW x \in P, \A y \in RowIds(build) : Key(build, y) # Null
  PROVE  Partners(j, build, probe, x)
           = IF Key(probe, x) = Null THEN RowIds(build) ELSE Hashing(build, B, Hashed(probe, x))
<1>1. j.cond = "=" /\ j.sec = FALSE /\ KeepsBuildNulls(j)
  BY DEF SupportsHash, KeepsBuildNulls, Join
<1>2. x \in RowIds(probe) /\ B = RowIds(build)
  BY <1>1 DEF Sides
<1>3. ASSUME NEW y \in RowIds(build)
      PROVE  Match(j, build, probe, y, x) <=> Key(probe, x) = Null \/ Key(build, y) = Key(probe, x)
  BY <1>1 DEF Match, Satisfies, SatisfiesSecondary, Holds
<1>4. \A y \in RowIds(build) : Hashed(build, y) = Key(build, y)
  BY HashedTyped
<1>5. Key(probe, x) # Null => Hashed(probe, x) = Key(probe, x)
  BY <1>2, HashedTyped
<1> QED
  BY <1>2, <1>3, <1>4, <1>5 DEF Partners, Hashing

\* A probed row of an inner or outer join.
LEMMA ProbeLists ==
  ASSUME NEW build, NEW probe, IsTable(build), IsTable(probe), NEW j \in Join, SupportsHash(j), ~SemiOrAnti(j),
         NEW B, NEW P, Sides(j, build, probe, B, P), NEW x \in P, NEW table, NEW single, ~single,
         Holder(table, Hashed(probe, x), Hashing(build, B, Hashed(probe, x)), single)
  PROVE  Lists(ProbeRow(j, build, probe, table, x), Due(j, build, probe, x))
<1> DEFINE found == Found(j, build, probe, table, x)
           partners == Partners(j, build, probe, x)
<1>0. j.mode # "AntiNullAsTrue"
  BY DEF SemiOrAnti
<1>1. Lists(found, partners)
  BY <1>0, FoundLists
<1>2. found = <<>> <=> partners = {}
  BY <1>1, ListsSet
<1>3. ProbeRow(j, build, probe, table, x)
        = IF found = <<>> /\ KeepsProbeNulls(j) THEN <<<<NoRow, x>>>> ELSE Product(found, <<x>>)
  BY DEF ProbeRow, Probe
<1>4. Due(j, build, probe, x) = IF partners = {} /\ KeepsProbeNulls(j) THEN {<<NoRow, x>>} ELSE partners \X {x}
  BY DEF Due
<1> HIDE DEF found, partners
<1>5. Lists(<<<<NoRow, x>>>>, {<<NoRow, x>>})
  BY ListsOne
<1>6. Lists(Product(found, <<x>>), partners \X {x})
  BY <1>1, ListsOne, ProductLists
<1> QED
  BY <1>2, <1>3, <1>4, <1>5, <1>6

\* A probed row of a semi or anti join.
LEMMA ProbeSemiAntiIs ==
  ASSUME NEW build, NEW probe, IsTable(build), IsTable(probe), NEW j \in Join, SupportsHash(j), SemiOrAnti(j),
         NEW B, NEW P, Sides(j, build, probe, B, P), NEW x \in P, NEW table,
         Holder(table, Hashed(probe, x), Hashing(build, B, Hashed(probe, x)), ~j.sec),
         j.mode = "AntiNullAsTrue" => \A y \in RowIds(build) : Key(build, y) # Null,
         j.mode = "AntiNullAsTrue" /\ table # <<>> => RowIds(build) # {}
  PROVE  ProbeSemiAnti(j, build, probe, table, x) <=> (j.mode = "Semi" <=> Partners(j, build, probe, x) # {})
<1> DEFINE v == Hashed(probe, x)
           Same == Hashing(build, B, v)
           partners == Partners(j, build, probe, x)
           isNull == Key(probe, x) = Null
           any == IF j.sec THEN Found(j, build, probe, table, x) # <<>> ELSE v \in DOMAIN table[1]
<1>0. j.sec \in BOOLEAN
  BY DEF Join
<1>1. CASE j.mode = "AntiNullAsTrue"
  <2>1. j.sec = FALSE
    BY <1>0, <1>1 DEF SupportsHash
  <2>2. partners = IF isNull THEN RowIds(build) ELSE Same
    BY <1>1, PartnersOfAnti
  <2>3. CASE table = <<>>
    <3>1. RowCount(build) = 0 <=> RowIds(build) = {}
      <4>1. Lists(Rows(build), RowIds(build))
        BY RowsList
      <4>2. Len(Rows(build)) \in Nat /\ (Rows(build) = <<>> <=> RowIds(build) = {}) /\ Rows(build) \in Seq(RowIds(build))
        BY <4>1, ListsSet DEF Lists
      <4>3. Len(Rows(build)) = 0 <=> Rows(build) = <<>>
        BY <4>2
      <4> QED
        BY <4>2, <4>3 DEF RowCount
    <3>2. ProbeSemiAnti(j, build, probe, table, x) <=> (isNull => RowCount(build) = 0)
      BY <1>1, <2>3 DEF ProbeSemiAnti, Anti
    <3>3. Same = {}
      BY <2>3 DEF Holder
    <3> HIDE DEF Same, partners
    <3> QED
      BY <1>1, <2>2, <3>1, <3>2, <3>3 DEF partners
  <2>4. CASE table # <<>>
    <3>1. ProbeSemiAnti(j, build, probe, table, x) <=> (~isNull /\ ~(v \in DOMAIN table[1]))
      BY <1>1, <2>1, <2>4 DEF ProbeSemiAnti
    <3>2. v \in DOMAIN table[1] <=> Same # {}
      BY <2>4 DEF Holder
    <3>3. RowIds(build) # {}
      BY <1>1, <2>4
    <3> HIDE DEF Same, partners, v
    <3> QED
      BY <1>1, <2>2, <3>1, <3>2, <3>3 DEF partners
  <2> QED
    BY <2>3, <2>4
<1>2. CASE j.mode \in {"Semi", "AntiNullAsFalse"}
  <2>1. /\ isNull => partners = {}
        /\ ~isNull => partners = {y \in Same : SatisfiesSecondary(j, build, probe, y, x)}
    BY <1>2, PartnersHash
  <2>2. ~j.sec /\ ~isNull => partners = Same
    BY <2>1 DEF SatisfiesSecondary
  <2>3. j.mode = "Semi" => ~isNull
    BY DEF Sides, KeepsProbeNulls
  <2>4. CASE table = <<>>
    <3>1. Same = {}
      BY <2>4 DEF Holder
    <3>2. partners = {}
      BY <2>1, <3>1
    <3>3. ProbeSemiAnti(j, build, probe, table, x) <=> j.mode = "AntiNullAsFalse"
      BY <1>2, <2>4 DEF ProbeSemiAnti, Anti
    <3> QED
      BY <1>2, <3>2, <3>3
  <2>5. CASE table # <<>>
    <3>1. ProbeSemiAnti(j, build, probe, table, x) <=> IF j.mode = "Semi" THEN any ELSE isNull \/ ~any
      BY <1>2, <2>5 DEF ProbeSemiAnti
    <3>2. CASE j.sec
      <4>1. Lists(Found(j, build, probe, table, x), partners)
        <5>1. ~(~j.sec)
          BY <3>2
        <5> QED
          BY <1>2, <5>1, FoundLists
      <4>2. any <=> partners # {}
        BY <3>2, <4>1, ListsSet
      <4> HIDE DEF any, partners
      <4> QED
        BY <1>2, <2>1, <2>3, <3>1, <4>2 DEF partners
    <3>3. CASE ~j.sec
      <4>1. any <=> Same # {}
        BY <2>5, <3>3 DEF Holder
      <4> HIDE DEF any, partners, Same
      <4> QED
        BY <1>2, <2>1, <2>2, <2>3, <3>1, <3>3, <4>1 DEF partners
    <3> QED
      BY <3>2, <3>3
  <2> QED
    BY <2>4, <2>5
<1> QED
  BY <1>1, <1>2 DEF SemiOrAnti

\* What a semi or anti join returns for a probed row.
LEMMA SemiAntiLists ==
  ASSUME NEW build, NEW probe, IsTable(build), IsTable(probe), NEW j \in Join, SupportsHash(j), SemiOrAnti(j),
         NEW B, NEW P, Sides(j, build, probe, B, P), NEW x \in P, NEW table,
         Holder(table, Hashed(probe, x), Hashing(build, B, Hashed(probe, x)), ~j.sec),
         j.mode = "AntiNullAsTrue" => \A y \in RowIds(build) : Key(build, y) # Null,
         j.mode = "AntiNullAsTrue" /\ table # <<>> => RowIds(build) # {}
  PROVE  Lists(ProbeRow(j, build, probe, table, x), Due(j, build, probe, x))
<1> DEFINE kept == ProbeSemiAnti(j, build, probe, table, x)
           due == j.mode = "Semi" <=> Partners(j, build, probe, x) # {}
<1>1. kept <=> due
  BY ProbeSemiAntiIs
<1>2. ProbeRow(j, build, probe, table, x) = IF kept THEN <<<<x, NoRow>>>> ELSE <<>>
  BY DEF ProbeRow
<1>3. Due(j, build, probe, x) = IF due THEN {<<x, NoRow>>} ELSE {}
  BY DEF Due
<1> HIDE DEF kept, due
<1> QED
  BY <1>1, <1>2, <1>3, ListsOne, ListsNone

\* The rows of all parts.
LEMMA ProbeAllLists ==
  ASSUME NEW j, NEW build, NEW probe, NEW tables, NEW parts, NEW P, Splits(parts, P), NEW D,
         \A p \in 1..Len(parts) : \A x \in ToSet(parts[p]) :
           Lists(ProbeRow(j, build, probe, TableFor(tables, p), x), D[x]),
         \A x, y \in P : x # y => D[x] \cap D[y] = {}
  PROVE  Lists(ProbeAll(j, build, probe, tables, parts), UNION {D[x] : x \in P})
<1> DEFINE n == Len(parts)
           RowOf(p, i) == ProbeRow(j, build, probe, TableFor(tables, p), parts[p][i])
           rows == [p \in 1..n |-> FlattenSeq([i \in DOMAIN parts[p] |-> RowOf(p, i)])]
           SS == [p \in 1..n |-> UNION {D[x] : x \in ToSet(parts[p])}]
<1>1. n \in Nat /\ DOMAIN parts = 1..n
  <2>1. n \in Nat /\ parts = [p \in 1..n |-> parts[p]]
    BY DEF Splits
  <2> QED
    BY <2>1
<1>2. ProbeAll(j, build, probe, tables, parts) = FlattenSeq(rows)
  BY <1>1 DEF ProbeAll
<1>3. \A p \in 1..n : ToSet(parts[p]) \subseteq P
  BY DEF Splits
<1>4. ASSUME NEW p \in 1..n PROVE Lists(rows[p], SS[p])
  <2> DEFINE xs == parts[p]
             m == Len(xs)
             ss == [i \in 1..m |-> RowOf(p, i)]
             TT == [i \in 1..m |-> D[xs[i]]]
  <2>1. Lists(xs, ToSet(xs))
    BY DEF Splits
  <2>2. m \in Nat /\ DOMAIN xs = 1..m
    BY <2>1, ListsSet
  <2>3. ToSet(xs) = {xs[i] : i \in 1..m}
    BY <2>2 DEF ToSet
  <2>4. rows[p] = FlattenSeq(ss)
    BY <2>2
  <2>5. ASSUME NEW i \in 1..m PROVE Lists(ss[i], TT[i])
    BY <2>3
  <2>6. ASSUME NEW i \in 1..m, NEW k \in 1..m, i # k PROVE TT[i] \cap TT[k] = {}
    <3>1. xs[i] # xs[k]
      BY <2>1, <2>6 DEF Lists
    <3>2. xs[i] \in P /\ xs[k] \in P
      BY <1>3, <2>3
    <3>3. D[xs[i]] \cap D[xs[k]] = {}
      BY <3>1, <3>2
    <3> QED
      BY <3>3
  <2>7. UNION {TT[i] : i \in 1..m} = SS[p]
    BY <2>3
  <2>8. ss = [i \in 1..m |-> ss[i]]
    OBVIOUS
  <2> HIDE DEF ss, TT, m, rows, SS
  <2>9. Lists(FlattenSeq(ss), UNION {TT[i] : i \in 1..m})
    BY <2>2, <2>5, <2>6, <2>8, FlattenLists
  <2> QED
    BY <2>4, <2>7, <2>9
<1>5. ASSUME NEW p \in 1..n, NEW q \in 1..n, p # q PROVE SS[p] \cap SS[q] = {}
  <2>1. ToSet(parts[p]) \cap ToSet(parts[q]) = {}
    BY <1>5 DEF Splits
  <2>2. ASSUME NEW x \in ToSet(parts[p]), NEW y \in ToSet(parts[q]) PROVE D[x] \cap D[y] = {}
    BY <1>3, <2>1
  <2> QED
    BY <2>2
<1>6. UNION {SS[p] : p \in 1..n} = UNION {D[x] : x \in P}
  <2>1. P = UNION {ToSet(parts[p]) : p \in 1..n}
    BY DEF Splits
  <2> QED
    BY <2>1
<1>7. rows = [p \in 1..n |-> rows[p]]
  OBVIOUS
<1> HIDE DEF rows, SS, n
<1>8. Lists(FlattenSeq(rows), UNION {SS[p] : p \in 1..n})
  BY <1>1, <1>4, <1>5, <1>7, FlattenLists
<1> QED
  BY <1>2, <1>6, <1>8

\* What is due for different rows differs.
LEMMA DueApart ==
  ASSUME NEW build, NEW probe, IsTable(build), IsTable(probe), NEW j,
         NEW x \in RowIds(probe), NEW y \in RowIds(probe), x # y
  PROVE  Due(j, build, probe, x) \cap Due(j, build, probe, y) = {}
<1>1. CASE SemiOrAnti(j)
  BY <1>1 DEF Due
<1>2. CASE ~SemiOrAnti(j)
  <2>1. \A z \in {x, y} : \A p \in Due(j, build, probe, z) : p[2] = z
    BY <1>2 DEF Due
  <2> QED
    BY <2>1
<1> QED
  BY <1>1, <1>2

\* All that is due: the pairs that match and, as the mode asks, the probe rows without a partner.
LEMMA DueIs ==
  ASSUME NEW build, NEW probe, IsTable(build), IsTable(probe), NEW j \in Join, SupportsHash(j),
         NEW B, NEW P, Sides(j, build, probe, B, P)
  PROVE  UNION {Due(j, build, probe, x) : x \in P}
           = IF SemiOrAnti(j)
             THEN (IF j.mode = "Semi" THEN RowIds(probe) \ LoneRights(j, build, probe) ELSE LoneRights(j, build, probe)) \X {NoRow}
             ELSE Matched(j, build, probe) \cup (IF KeepsProbeNulls(j) THEN {NoRow} \X LoneRights(j, build, probe) ELSE {})
<1> DEFINE Lone == LoneRights(j, build, probe)
           Of(x) == Partners(j, build, probe, x)
<1>1. P \subseteq RowIds(probe) /\ (KeepsProbeNulls(j) => P = RowIds(probe))
  BY DEF Sides
<1>2. \A x \in RowIds(probe) : x \in Lone <=> Of(x) = {}
  BY DEF LoneRights, Partners
<1>3. ASSUME ~KeepsProbeNulls(j), NEW x \in RowIds(probe), Of(x) # {} PROVE x \in P
  <2>1. PICK y \in RowIds(build) : Match(j, build, probe, y, x)
    BY <1>3 DEF Partners
  <2>2. j.mode # "AntiNullAsTrue" /\ j.cond = "="
    BY <1>3 DEF KeepsProbeNulls, SupportsHash
  <2>3. Key(build, y) # Null /\ Key(probe, x) = Key(build, y)
    BY <2>1, <2>2 DEF Match, Satisfies, Holds
  <2> QED
    BY <2>3 DEF Sides
<1>4. Lone \subseteq RowIds(probe)
  BY DEF LoneRights
<1>5. CASE SemiOrAnti(j)
  <2>1. \A x : Due(j, build, probe, x) = IF j.mode = "Semi" <=> Of(x) # {} THEN {<<x, NoRow>>} ELSE {}
    BY <1>5 DEF Due
  <2>2. CASE j.mode = "Semi"
    <3>1. ~KeepsProbeNulls(j)
      BY <2>2 DEF KeepsProbeNulls
    <3>2. \A x \in RowIds(probe) \ Lone : x \in P
      BY <1>2, <1>3, <3>1
    <3>3. \A x \in P : Due(j, build, probe, x) = IF x \notin Lone THEN {<<x, NoRow>>} ELSE {}
      BY <1>1, <1>2, <2>1, <2>2
    <3> HIDE DEF Lone, Of
    <3>4. UNION {Due(j, build, probe, x) : x \in P} = (RowIds(probe) \ Lone) \X {NoRow}
      BY <1>1, <3>2, <3>3
    <3> QED
      BY <1>5, <2>2, <3>4 DEF Lone
  <2>3. CASE j.mode # "Semi"
    <3>1. P = RowIds(probe)
      BY <1>1, <1>5, <2>3 DEF KeepsProbeNulls, SemiOrAnti
    <3>2. \A x \in P : Due(j, build, probe, x) = IF x \in Lone THEN {<<x, NoRow>>} ELSE {}
      BY <1>1, <1>2, <2>1, <2>3
    <3> HIDE DEF Lone, Of
    <3>3. UNION {Due(j, build, probe, x) : x \in P} = Lone \X {NoRow}
      BY <1>4, <3>1, <3>2
    <3> QED
      BY <1>5, <2>3, <3>3 DEF Lone
  <2> QED
    BY <2>2, <2>3
<1>6. CASE ~SemiOrAnti(j)
  <2>1. \A x : Due(j, build, probe, x) = IF Of(x) = {} /\ KeepsProbeNulls(j) THEN {<<NoRow, x>>} ELSE Of(x) \X {x}
    BY <1>6 DEF Due
  <2>2. Matched(j, build, probe) = UNION {Of(x) \X {x} : x \in RowIds(probe)}
    <3>1. ASSUME NEW p \in Matched(j, build, probe) PROVE p[2] \in RowIds(probe) /\ p \in Of(p[2]) \X {p[2]}
      BY DEF Matched, Partners
    <3>2. ASSUME NEW x \in RowIds(probe), NEW p \in Of(x) \X {x} PROVE p \in Matched(j, build, probe)
      <4>1. p = <<p[1], x>> /\ p[1] \in RowIds(build) /\ Match(j, build, probe, p[1], x)
        BY DEF Partners
      <4> QED
        BY <4>1 DEF Matched
    <3> HIDE DEF Of
    <3> QED
      BY <3>1, <3>2
  <2> HIDE DEF Lone, Of
  <2>3. CASE KeepsProbeNulls(j)
    <3>1. P = RowIds(probe)
      BY <1>1, <2>3
    <3>2. \A x \in P : Due(j, build, probe, x) = (Of(x) \X {x}) \cup (IF x \in Lone THEN {<<NoRow, x>>} ELSE {})
      BY <1>2, <2>1, <2>3, <3>1
    <3>3. UNION {Due(j, build, probe, x) : x \in P} = Matched(j, build, probe) \cup ({NoRow} \X Lone)
      BY <1>4, <2>2, <3>1, <3>2
    <3> QED
      BY <1>6, <2>3, <3>3 DEF Lone
  <2>4. CASE ~KeepsProbeNulls(j)
    <3>1. \A x : Due(j, build, probe, x) = Of(x) \X {x}
      BY <2>1, <2>4
    <3>2. \A x \in RowIds(probe) \ P : Of(x) = {}
      BY <1>3, <2>4
    <3>3. UNION {Due(j, build, probe, x) : x \in P} = Matched(j, build, probe)
      BY <1>1, <2>2, <3>1, <3>2
    <3> QED
      BY <1>6, <2>4, <3>3 DEF Lone
  <2> QED
    BY <2>3, <2>4
<1> QED
  BY <1>5, <1>6

AllDue(j, build, probe) ==
  IF SemiOrAnti(j)
  THEN (IF j.mode = "Semi" THEN RowIds(probe) \ LoneRights(j, build, probe) ELSE LoneRights(j, build, probe)) \X {NoRow}
  ELSE Matched(j, build, probe) \cup (IF KeepsProbeNulls(j) THEN {NoRow} \X LoneRights(j, build, probe) ELSE {})

BuildParts(j, build, probe, bits) == PartitionByRadix(build, Materialized(j, build, probe).build, bits)
ProbeParts(j, build, probe, bits) == PartitionByRadix(probe, Materialized(j, build, probe).probe, bits)
TablesOf(j, build, probe, bits) ==
  Build(build, BuildParts(j, build, probe, bits), bits, SemiOrAnti(j) /\ ~j.sec,
        FilterOf(probe, Materialized(j, build, probe).probe))

\* The build and the probe phase together return all that is due, each row once.
LEMMA ProbedLists ==
  ASSUME BloomAssumption, NEW build, NEW probe, IsTable(build), IsTable(probe), build # <<>> => RowIds(build) # {},
         NEW j \in Join, SupportsHash(j), NEW bits \in Nat, 2^bits \in Nat \ {0}
  PROVE  /\ j.mode = "AntiNullAsTrue" => ToSet(FlattenSeq(BuildParts(j, build, probe, bits))) = RowIds(build)
         /\ (j.mode = "AntiNullAsTrue" => \A y \in RowIds(build) : Key(build, y) # Null) =>
              Lists(ProbeAll(j, build, probe, TablesOf(j, build, probe, bits), ProbeParts(j, build, probe, bits)),
                    AllDue(j, build, probe))
<1> DEFINE bs == Materialized(j, build, probe).build
           ps == Materialized(j, build, probe).probe
           bparts == BuildParts(j, build, probe, bits)
           pparts == ProbeParts(j, build, probe, bits)
           tables == TablesOf(j, build, probe, bits)
           single == SemiOrAnti(j) /\ ~j.sec
<1>1. PICK B, P : Sides(j, build, probe, B, P) /\ Splits(bs, B) /\ Splits(ps, P) /\ Len(bs) = Len(build)
  BY MaterializedSides
<1>0. /\ bparts = PartitionByRadix(build, bs, bits) /\ pparts = PartitionByRadix(probe, ps, bits)
      /\ tables = Build(build, PartitionByRadix(build, bs, bits), bits, single, FilterOf(probe, ps))
  BY DEF BuildParts, ProbeParts, TablesOf
<1> HIDE DEF bs, ps, bparts, pparts, tables, single
<1>2. B \subseteq RowIds(build) /\ P \subseteq RowIds(probe)
  BY <1>1 DEF Sides
<1>3. Splits(bparts, B) /\ Splits(pparts, P)
  BY <1>0, <1>1, <1>2, RadixSplits
<1>4. j.mode = "AntiNullAsTrue" => ToSet(FlattenSeq(bparts)) = RowIds(build)
  <2>1. ToSet(FlattenSeq(bparts)) = B
    BY <1>3, SplitsFlat, ListsSet
  <2> QED
    BY <1>1, <2>1 DEF Sides, KeepsBuildNulls
<1>5. ASSUME j.mode = "AntiNullAsTrue" => \A y \in RowIds(build) : Key(build, y) # Null
      PROVE  Lists(ProbeAll(j, build, probe, tables, pparts), AllDue(j, build, probe))
  <2> DEFINE D == [x \in P |-> Due(j, build, probe, x)]
  <2>1. ASSUME NEW p \in 1..Len(pparts), NEW x \in ToSet(pparts[p])
        PROVE  Lists(ProbeRow(j, build, probe, TableFor(tables, p), x), D[x])
    <3> DEFINE table == TableFor(tables, p)
               v == Hashed(probe, x)
               Same == Hashing(build, B, v)
    <3>1. /\ x \in P
          /\ Holder(table, v, Same, single)
          /\ table # <<>> => bs # <<>>
      BY <1>0, <1>1, <1>2, TableHolds
    <3>2. D[x] = Due(j, build, probe, x)
      BY <3>1
    <3>3. table # <<>> => RowIds(build) # {}
      <4>1. bs # <<>> => Len(bs) # 0
        <5>1. bs = [p1 \in 1..Len(bs) |-> bs[p1]] /\ Len(bs) \in Nat
          BY <1>1 DEF Splits
        <5>2. Len(bs) = 0 => bs = <<>>
          BY <5>1
        <5> QED
          BY <5>2
      <4>2. Len(build) # 0 => build # <<>>
        OBVIOUS
      <4> QED
        BY <1>1, <3>1, <4>1, <4>2
    <3> HIDE DEF table, D
    <3>4. CASE SemiOrAnti(j)
      <4>1. Holder(table, v, Same, ~j.sec)
        BY <3>1, <3>4 DEF Holder, single
      <4> QED
        BY <1>1, <1>5, <3>1, <3>2, <3>3, <3>4, <4>1, SemiAntiLists DEF table
    <3>5. CASE ~SemiOrAnti(j)
      <4>1. ~single
        BY <3>5 DEF single
      <4> QED
        BY <1>1, <3>1, <3>2, <3>5, <4>1, ProbeLists DEF table
    <3> QED
      BY <3>4, <3>5
  <2>2. ASSUME NEW x \in P, NEW y \in P, x # y PROVE D[x] \cap D[y] = {}
    <3>1. Due(j, build, probe, x) \cap Due(j, build, probe, y) = {}
      BY <1>2, <2>2, DueApart
    <3> QED
      BY <3>1
  <2>3. UNION {D[x] : x \in P} = AllDue(j, build, probe)
    <3>1. UNION {D[x] : x \in P} = UNION {Due(j, build, probe, x) : x \in P}
      OBVIOUS
    <3>2. UNION {Due(j, build, probe, x) : x \in P} = AllDue(j, build, probe)
      BY <1>1, DueIs DEF AllDue
    <3> QED
      BY <3>1, <3>2
  <2> HIDE DEF D
  <2>4. Lists(ProbeAll(j, build, probe, tables, pparts), UNION {D[x] : x \in P})
    BY <1>3, <2>1, <2>2, ProbeAllLists
  <2> QED
    BY <2>3, <2>4
<1> QED
  BY <1>4, <1>5 DEF bparts, pparts, tables

\* An equi-join is its own mirror.
LEMMA EquiMirror ==
  ASSUME NEW l, NEW r, IsTable(l), IsTable(r), NEW j \in Join, SupportsHash(j)
  PROVE  /\ Turned(Matched(j, r, l)) = Matched(j, l, r)
         /\ LoneLefts(j, r, l) = LoneRights(j, l, r)
         /\ Turned(Matched(j, r, l) \cup ({NoRow} \X LoneRights(j, r, l)))
              = Matched(j, l, r) \cup (LoneLefts(j, l, r) \X {NoRow})
<1>1. Mirrored(j) = j
  <2>1. j.cond = "=" /\ Flip(j.cond) = j.cond
    BY DEF SupportsHash, Flip
  <2>2. j = [j EXCEPT !.cond = j.cond]
    BY DEF Join
  <2> QED
    BY <2>1, <2>2 DEF Mirrored
<1>2. /\ Turned(Matched(j, r, l)) = Matched(j, l, r) /\ LoneLefts(j, r, l) = LoneRights(j, l, r)
      /\ LoneLefts(j, l, r) = LoneRights(j, r, l)
  <2>1. Turned(Matched(Mirrored(j), r, l)) = Matched(j, l, r) /\ LoneLefts(Mirrored(j), r, l) = LoneRights(j, l, r)
    BY MirroredSets, ZenonT(40)
  <2>2. LoneLefts(Mirrored(j), l, r) = LoneRights(j, r, l)
    BY MirroredSets, ZenonT(40)
  <2> QED
    BY <1>1, <2>1, <2>2
<1>3. \A S : Turned({NoRow} \X S) = S \X {NoRow}
  <2>1. ASSUME NEW S PROVE Turned({NoRow} \X S) = S \X {NoRow}
    <3>1. ASSUME NEW p \in {NoRow} \X S PROVE <<p[2], p[1]>> \in S \X {NoRow}
      OBVIOUS
    <3>2. ASSUME NEW q \in S \X {NoRow} PROVE q \in Turned({NoRow} \X S)
      <4>1. <<q[2], q[1]>> \in {NoRow} \X S /\ q = <<q[1], q[2]>>
        OBVIOUS
      <4> QED
        BY <4>1 DEF Turned
    <3> QED
      BY <3>1, <3>2 DEF Turned
  <2> QED
    BY <2>1
<1>4. Turned(Matched(j, r, l) \cup ({NoRow} \X LoneRights(j, r, l)))
        = Turned(Matched(j, r, l)) \cup Turned({NoRow} \X LoneRights(j, r, l))
  BY DEF Turned
<1>5. Turned({NoRow} \X LoneRights(j, r, l)) = LoneLefts(j, l, r) \X {NoRow}
  BY <1>2, <1>3
<1> QED
  BY <1>2, <1>4, <1>5

\* The hash join returns what the verification join does, each row once.
LEMMA HashLists ==
  ASSUME BloomAssumption, NEW l, NEW r, IsTable(l), IsTable(r), l # <<>> => RowIds(l) # {}, r # <<>> => RowIds(r) # {},
         NEW j \in Join, SupportsHash(j), NEW bits \in Nat, 2^bits \in Nat \ {0}
  PROVE  Lists(HashJoin(j, l, r, bits), Verified(j, l, r))
<1> DEFINE onRight == BuildsRight(j, l, r)
           build == IF onRight THEN r ELSE l
           probe == IF onRight THEN l ELSE r
           bparts == BuildParts(j, build, probe, bits)
           rows == ProbeAll(j, build, probe, TablesOf(j, build, probe, bits), ProbeParts(j, build, probe, bits))
           nulls == j.mode = "AntiNullAsTrue" /\ \E x \in ToSet(FlattenSeq(bparts)) : Key(build, x) = Null
<1>1. HashJoin(j, l, r, bits)
        = IF nulls THEN <<>> ELSE IF onRight /\ ~SemiOrAnti(j) THEN Swapped(rows) ELSE rows
  BY DEF HashJoin, BuildParts, ProbeParts, TablesOf
<1>2. IsTable(build) /\ IsTable(probe) /\ (build # <<>> => RowIds(build) # {})
  OBVIOUS
<1>3. /\ j.mode = "AntiNullAsTrue" => ToSet(FlattenSeq(bparts)) = RowIds(build)
      /\ (j.mode = "AntiNullAsTrue" => \A y \in RowIds(build) : Key(build, y) # Null) =>
           Lists(rows, AllDue(j, build, probe))
  <2> HIDE DEF build, probe
  <2> QED
    BY <1>2, ProbedLists
<1>4. SemiOrAnti(j) => onRight
  BY DEF BuildsRight
<1>5. nulls <=> j.mode = "AntiNullAsTrue" /\ \E y \in RowIds(build) : Key(build, y) = Null
  <2> HIDE DEF build, probe, bparts
  <2> QED
    BY <1>3
<1> HIDE DEF rows, nulls
<1>6. CASE nulls
  <2>1. build = r
    BY <1>4, <1>5, <1>6 DEF SemiOrAnti
  <2>2. PICK y \in RowIds(r) : Key(r, y) = Null
    BY <1>5, <1>6, <2>1
  <2>3. j.mode = "AntiNullAsTrue" /\ j.sec = FALSE
    BY <1>5, <1>6 DEF SupportsHash, Join
  <2>4. \A x \in RowIds(l) : Match(j, l, r, x, y)
    BY <2>2, <2>3 DEF Match, Satisfies, SatisfiesSecondary
  <2>5. LoneLefts(j, l, r) = {}
    BY <2>4 DEF LoneLefts
  <2>6. Verified(j, l, r) = LoneLefts(j, l, r) \X {NoRow}
    BY <2>3, VerifiedIs DEF Anti
  <2>7. Verified(j, l, r) = {}
    BY <2>5, <2>6
  <2> QED
    BY <1>1, <1>6, <2>7, ListsNone
<1>7. CASE ~nulls
  <2>1. Lists(rows, AllDue(j, build, probe))
    BY <1>3, <1>5, <1>7
  <2>2. CASE SemiOrAnti(j)
    <3>1. build = r /\ probe = l
      BY <1>4, <2>2
    <3>2. HashJoin(j, l, r, bits) = rows
      BY <1>1, <1>7, <2>2
    <3>3. LoneRights(j, r, l) = LoneLefts(j, l, r)
      BY EquiMirror
    <3>4. AllDue(j, r, l) = (IF j.mode = "Semi" THEN RowIds(l) \ LoneLefts(j, l, r) ELSE LoneLefts(j, l, r)) \X {NoRow}
      BY <2>2, <3>3 DEF AllDue
    <3>5. Verified(j, l, r) = (IF j.mode = "Semi" THEN RowIds(l) \ LoneLefts(j, l, r) ELSE LoneLefts(j, l, r)) \X {NoRow}
      <4>1. CASE j.mode = "Semi"
        BY <4>1, VerifiedIs
      <4>2. CASE j.mode # "Semi"
        BY <2>2, <4>2, VerifiedIs DEF SemiOrAnti, Anti
      <4> QED
        BY <4>1, <4>2
    <3> HIDE DEF build, probe
    <3> QED
      BY <2>1, <3>1, <3>2, <3>4, <3>5
  <2>3. CASE ~SemiOrAnti(j) /\ onRight
    <3>0. build = r /\ probe = l
      BY <2>3
    <3>1. HashJoin(j, l, r, bits) = Swapped(rows)
      BY <1>1, <1>7, <2>3
    <3>2. AllDue(j, r, l) \subseteq (RowIds(r) \cup {NoRow}) \X RowIds(l)
      BY <2>3 DEF AllDue, Matched, LoneRights
    <3>3. Lists(Swapped(rows), Turned(AllDue(j, r, l)))
      <4>1. Lists(rows, AllDue(j, r, l))
        BY <2>1, <3>0
      <4> QED
        BY <3>2, <4>1, SwappedLists
    <3>4. j.mode \in {"Inner", "Left"}
      BY <2>3 DEF BuildsRight
    <3>5. Turned(AllDue(j, r, l)) = Verified(j, l, r)
      <4>1. CASE j.mode = "Inner"
        <5>1. AllDue(j, r, l) = Matched(j, r, l)
          BY <2>3, <4>1 DEF AllDue, KeepsProbeNulls
        <5>2. Verified(j, l, r) = Matched(j, l, r)
          BY <4>1, VerifiedIs
        <5>3. Turned(Matched(j, r, l)) = Matched(j, l, r)
          BY EquiMirror
        <5> QED
          BY <5>1, <5>2, <5>3
      <4>2. CASE j.mode = "Left"
        <5>1. AllDue(j, r, l) = Matched(j, r, l) \cup ({NoRow} \X LoneRights(j, r, l))
          BY <2>3, <4>2 DEF AllDue, KeepsProbeNulls
        <5>2. Verified(j, l, r) = Matched(j, l, r) \cup (LoneLefts(j, l, r) \X {NoRow})
          BY <4>2, VerifiedIs
        <5>3. Turned(Matched(j, r, l) \cup ({NoRow} \X LoneRights(j, r, l)))
                = Matched(j, l, r) \cup (LoneLefts(j, l, r) \X {NoRow})
          BY EquiMirror
        <5> QED
          BY <5>1, <5>2, <5>3
      <4> QED
        BY <3>4, <4>1, <4>2
    <3> QED
      BY <3>1, <3>3, <3>5
  <2>4. CASE ~SemiOrAnti(j) /\ ~onRight
    <3>0. build = l /\ probe = r
      BY <2>4
    <3>1. HashJoin(j, l, r, bits) = rows
      BY <1>1, <1>7, <2>4
    <3>2. j.mode \in {"Inner", "Right"}
      BY <2>4 DEF BuildsRight, SemiOrAnti, SupportsHash, Join, Modes
    <3>3. AllDue(j, l, r) = Verified(j, l, r)
      <4>1. CASE j.mode = "Inner"
        <5>1. AllDue(j, l, r) = Matched(j, l, r)
          BY <2>4, <4>1 DEF AllDue, KeepsProbeNulls
        <5> QED
          BY <4>1, <5>1, VerifiedIs
      <4>2. CASE j.mode = "Right"
        <5>1. AllDue(j, l, r) = Matched(j, l, r) \cup ({NoRow} \X LoneRights(j, l, r))
          BY <2>4, <4>2 DEF AllDue, KeepsProbeNulls
        <5> QED
          BY <4>2, <5>1, VerifiedIs
      <4> QED
        BY <3>2, <4>1, <4>2
    <3> QED
      BY <2>1, <3>0, <3>1, <3>3
  <2> QED
    BY <2>2, <2>3, <2>4
<1> QED
  BY <1>6, <1>7

LEMMA Interval ==
  ASSUME NEW n \in Nat
  PROVE  IsFiniteSet(1..n) /\ Cardinality(1..n) = n
<1>1. 1 \in Int /\ n \in Int
  OBVIOUS
<1>2. IsFiniteSet(1..n) /\ Cardinality(1..n) = IF 1 > n THEN 0 ELSE n - 1 + 1
  BY <1>1, FS_Interval, Zenon
<1> QED
  BY <1>2

\* The part of a sequence between two places lists what is there.
LEMMA SubSeqLists ==
  ASSUME NEW xs, NEW S, Lists(xs, S), NEW a \in Nat, NEW b \in Nat, b <= Len(xs)
  PROVE  Lists(SubSeq(xs, a + 1, b), {xs[i] : i \in a + 1..b})
<1> DEFINE T == {xs[i] : i \in a + 1..b}
           ys == SubSeq(xs, a + 1, b)
<1>1. a + 1 \in Int /\ b \in Int /\ \A i \in a + 1..b : xs[i] \in T
  OBVIOUS
<1>2. /\ ys \in Seq(T) /\ Len(ys) = IF a + 1 <= b THEN b - (a + 1) + 1 ELSE 0
      /\ \A i \in 1..b - (a + 1) + 1 : ys[i] = xs[(a + 1) + i - 1]
  <2> HIDE DEF T
  <2> QED
    BY <1>1, SubSeqProperties
<1> HIDE DEF ys
<1>3. Len(ys) = (IF a < b THEN b - a ELSE 0) /\ \A i \in 1..Len(ys) : ys[i] = xs[a + i] /\ a + i \in 1..Len(xs) /\ a + i \in a + 1..b
  <2>1. Len(ys) = IF a < b THEN b - a ELSE 0
    BY <1>2
  <2>2. ASSUME NEW i \in 1..Len(ys) PROVE ys[i] = xs[a + i] /\ a + i \in 1..Len(xs) /\ a + i \in a + 1..b
    <3>1. i \in 1..b - (a + 1) + 1 /\ (a + 1) + i - 1 = a + i
      BY <2>1
    <3>2. Len(xs) \in Nat
      BY DEF Lists
    <3> QED
      BY <1>2, <2>1, <3>1, <3>2
  <2> QED
    BY <2>1, <2>2
<1>4. ASSUME NEW x \in T PROVE \E i \in 1..Len(ys) : ys[i] = x
  <2>1. PICK k \in a + 1..b : x = xs[k]
    OBVIOUS
  <2>2. k - a \in 1..Len(ys) /\ a + (k - a) = k
    BY <1>3
  <2> QED
    BY <1>3, <2>1, <2>2
<1>5. ASSUME NEW i \in 1..Len(ys), NEW k \in 1..Len(ys), ys[i] = ys[k] PROVE i = k
  <2>1. xs[a + i] = xs[a + k] /\ a + i \in 1..Len(xs) /\ a + k \in 1..Len(xs)
    BY <1>3, <1>5
  <2>2. a + i = a + k
    BY <2>1 DEF Lists
  <2>3. Len(ys) \in Nat
    BY <1>2
  <2> QED
    BY <2>2, <2>3
<1> HIDE DEF T
<1> QED
  BY <1>2, <1>4, <1>5 DEF Lists, T, ys

\* A set of places that holds all places before each of its own is an interval.
LEMMA Prefix ==
  ASSUME NEW n \in Nat, NEW D, D \subseteq 1..n, \A i \in D, k \in 1..n : k < i => k \in D
  PROVE  D = 1..Cardinality(D) /\ Cardinality(D) \in 0..n
<1> DEFINE M == {m \in Nat : m < n => m + 1 \notin D}
<1>1. n \in M
  OBVIOUS
<1>2. PICK m \in M : \A k \in M : m <= k
  <2>1. \E m \in M : \A k \in M : ~(<<k, m>> \in OpToRel(<, Nat))
    <3> HIDE DEF M
    <3>1. M \subseteq Nat
      BY DEF M
    <3>2. M # {}
      BY <1>1
    <3> QED
      BY <3>1, <3>2, NatLessThanWellFounded, WFMin, Zenon
  <2>2. PICK m \in M : \A k \in M : ~(<<k, m>> \in OpToRel(<, Nat))
    BY <2>1
  <2>3. ASSUME NEW k \in M PROVE m <= k
    <3>1. m \in Nat /\ k \in Nat
      OBVIOUS
    <3>2. k < m => <<k, m>> \in OpToRel(<, Nat)
      BY <3>1 DEF OpToRel
    <3>3. ~(k < m)
      BY <2>2, <3>2, Zenon
    <3> QED
      BY <3>1, <3>3
  <2> QED
    BY <2>3
<1>3. m <= n
  BY <1>1, <1>2
<1>4. ASSUME NEW i \in 1..m PROVE i \in D
  <2>1. i - 1 \in Nat /\ i - 1 < m
    OBVIOUS
  <2>2. i - 1 \notin M
    BY <1>2, <2>1
  <2>3. (i - 1) + 1 \in D
    BY <2>1, <2>2
  <2> QED
    BY <2>3
<1>5. ASSUME NEW i \in D PROVE i \in 1..m
  <2>1. CASE m = n
    BY <2>1
  <2>2. CASE m < n
    <3>1. m + 1 \notin D /\ m + 1 \in 1..n
      BY <2>2
    <3>2. ~(m + 1 < i) /\ m + 1 # i
      BY <3>1
    <3> QED
      BY <3>2
  <2> QED
    BY <1>3, <2>1, <2>2
<1>6. D = 1..m
  BY <1>4, <1>5
<1>7. Cardinality(D) = m
  BY <1>6, Interval
<1> QED
  BY <1>3, <1>6, <1>7

\* Sorted: the keys, all of them integers, ascend.
Ascends(t, xs) ==
  /\ \A i \in 1..Len(xs) : Key(t, xs[i]) \in Int
  /\ \A i, k \in 1..Len(xs) : i <= k => Key(t, xs[i]) <= Key(t, xs[k])

LEMMA Ranks ==
  ASSUME NEW t, NEW xs, NEW S, Lists(xs, S), \A x \in S : Key(t, x) \in Int
  PROVE  /\ \A k \in 1..Len(xs) : Rank(t, xs, k) \in 1..Len(xs)
         /\ \A i, k \in 1..Len(xs) : Ahead(t, xs, i, k) => Rank(t, xs, i) < Rank(t, xs, k)
         /\ \A i, k \in 1..Len(xs) : i # k => Ahead(t, xs, i, k) \/ Ahead(t, xs, k, i)
<1> DEFINE n == Len(xs)
           AheadOf(k) == {i \in 1..n : Ahead(t, xs, i, k)}
<1>1. n \in Nat /\ DOMAIN xs = 1..n /\ \A i \in 1..n : Key(t, xs[i]) \in Int
  <2>1. n \in Nat /\ DOMAIN xs = 1..n
    BY ListsSet
  <2>2. \A i \in 1..n : xs[i] \in S
    BY <2>1 DEF Lists
  <2> QED
    BY <2>1, <2>2
<1>2. \A k \in 1..n : Rank(t, xs, k) = Cardinality(AheadOf(k)) + 1
  BY <1>1 DEF Rank
<1>3. \A i, k \in 1..n : i # k => Ahead(t, xs, i, k) \/ Ahead(t, xs, k, i)
  BY <1>1 DEF Ahead
<1>4. \A i, k, m \in 1..n : Ahead(t, xs, m, i) /\ Ahead(t, xs, i, k) => Ahead(t, xs, m, k)
  BY <1>1 DEF Ahead
<1>5. \A k \in 1..n : ~Ahead(t, xs, k, k)
  BY <1>1 DEF Ahead
<1>6. ASSUME NEW k \in 1..n PROVE /\ AheadOf(k) \subseteq 1..n /\ k \notin AheadOf(k)
                                  /\ IsFiniteSet(AheadOf(k)) /\ Cardinality(AheadOf(k)) \in 0..n - 1
  <2> DEFINE B == AheadOf(k)
  <2>1. B \subseteq 1..n /\ k \notin B
    BY <1>5
  <2> HIDE DEF B
  <2>2. IsFiniteSet(1..n) /\ Cardinality(1..n) = n
    BY <1>1, Interval
  <2>3. IsFiniteSet(B) /\ Cardinality(B) <= n /\ (n = Cardinality(B) => 1..n = B)
    BY <2>1, <2>2, FS_Subset
  <2>4. Cardinality(B) # n
    BY <2>1, <2>3
  <2>5. Cardinality(B) \in Nat
    BY <2>3, FS_CardinalityType
  <2>6. Cardinality(B) \in 0..n - 1
    BY <1>1, <2>3, <2>4, <2>5
  <2> QED
    BY <2>1, <2>3, <2>6 DEF B
<1>7. ASSUME NEW i \in 1..n, NEW k \in 1..n, Ahead(t, xs, i, k) PROVE Cardinality(AheadOf(i)) < Cardinality(AheadOf(k))
  <2>1. AheadOf(i) \subseteq AheadOf(k) /\ i \in AheadOf(k) /\ i \notin AheadOf(i)
    BY <1>4, <1>5, <1>7
  <2> DEFINE A == AheadOf(i)
             B == AheadOf(k)
  <2>2. IsFiniteSet(B) /\ Cardinality(A) \in 0..n - 1 /\ Cardinality(B) \in 0..n - 1
    BY <1>6
  <2> HIDE DEF A, B
  <2>3. A \subseteq B /\ A # B
    BY <2>1 DEF A, B
  <2>4. Cardinality(A) <= Cardinality(B) /\ (Cardinality(B) = Cardinality(A) => B = A)
    BY <2>2, <2>3, FS_Subset
  <2>5. Cardinality(A) < Cardinality(B)
    BY <1>1, <2>2, <2>3, <2>4
  <2> QED
    BY <2>5 DEF A, B
<1>8. ASSUME NEW k \in 1..n PROVE Rank(t, xs, k) \in 1..n
  <2> DEFINE b == Cardinality(AheadOf(k))
  <2>1. b \in 0..n - 1 /\ Rank(t, xs, k) = b + 1
    BY <1>2, <1>6
  <2> HIDE DEF b
  <2> QED
    BY <1>1, <2>1
<1>9. ASSUME NEW i \in 1..n, NEW k \in 1..n, Ahead(t, xs, i, k) PROVE Rank(t, xs, i) < Rank(t, xs, k)
  <2> DEFINE a == Cardinality(AheadOf(i))
             b == Cardinality(AheadOf(k))
  <2>1. a \in 0..n - 1 /\ b \in 0..n - 1 /\ a < b
    BY <1>6, <1>7, <1>9
  <2>2. Rank(t, xs, i) = a + 1 /\ Rank(t, xs, k) = b + 1
    BY <1>2
  <2> HIDE DEF a, b
  <2> QED
    BY <1>1, <2>1, <2>2
<1> QED
  BY <1>3, <1>8, <1>9

\* Each place is the rank of one row.
LEMMA RanksTaken ==
  ASSUME NEW t, NEW xs, NEW S, Lists(xs, S), \A x \in S : Key(t, x) \in Int, NEW n \in 1..Len(xs)
  PROVE  \E k \in 1..Len(xs) : Rank(t, xs, k) = n
<1> DEFINE m == Len(xs)
           f == [k \in 1..m |-> Rank(t, xs, k)]
<1>1. m \in Nat
  BY ListsSet
<1>2. f \in [1..m -> 1..m] /\ \A i, k \in 1..m : i # k => f[i] # f[k]
  <2>1. \A i, k \in 1..m : i # k => f[i] < f[k] \/ f[k] < f[i]
    BY Ranks
  <2>2. f \in [1..m -> 1..m]
    BY Ranks
  <2> HIDE DEF f
  <2> QED
    BY <1>1, <2>1, <2>2
<1>3. IsFiniteSet(1..m)
  BY <1>1, Interval
<1> HIDE DEF f, m
<1>4. f \in Injection(1..m, 1..m)
  BY <1>2 DEF Injection, IsInjective
<1>5. f \in Surjection(1..m, 1..m)
  BY <1>3, <1>4, FS_Injection
<1> QED
  BY <1>5 DEF Surjection, f, m

LEMMA SortedLists ==
  ASSUME NEW t, NEW xs, NEW S, Lists(xs, S), \A x \in S : Key(t, x) \in Int
  PROVE  Lists(SortRows(t, xs), S) /\ Ascends(t, SortRows(t, xs))
<1> DEFINE m == Len(xs)
           ys == SortRows(t, xs)
           At(n) == CHOOSE k \in 1..m : Rank(t, xs, k) = n
<1>1. m \in Nat /\ DOMAIN xs = 1..m /\ \A k \in 1..m : xs[k] \in S
  BY ListsSet DEF Lists
<1>2. \A n \in 1..m : At(n) \in 1..m /\ Rank(t, xs, At(n)) = n
  BY RanksTaken
<1>3. ys = [n \in 1..m |-> xs[At(n)]]
  BY <1>1 DEF SortRows
<1> HIDE DEF ys, At
<1>4. ys \in Seq(S) /\ Len(ys) = m /\ \A n \in 1..m : ys[n] = xs[At(n)]
  BY <1>1, <1>2, <1>3
<1>5. ASSUME NEW k \in 1..m PROVE Rank(t, xs, k) \in 1..m /\ At(Rank(t, xs, k)) = k
  <2> DEFINE n == Rank(t, xs, k)
             i == At(n)
  <2>1. n \in 1..m
    BY Ranks
  <2>2. i \in 1..m /\ Rank(t, xs, i) = n
    BY <1>2, <2>1
  <2>3. i = k
    <3>1. SUFFICES ASSUME i # k PROVE FALSE
      OBVIOUS
    <3>2. Rank(t, xs, i) < Rank(t, xs, k) \/ Rank(t, xs, k) < Rank(t, xs, i)
      <4> HIDE DEF i
      <4> QED
        BY <2>2, <3>1, Ranks
    <3> HIDE DEF i
    <3> QED
      BY <1>1, <2>1, <2>2, <3>2
  <2> QED
    BY <2>1, <2>3
<1>6. ASSUME NEW x \in S PROVE \E n \in 1..m : ys[n] = x
  <2>1. PICK k \in 1..m : xs[k] = x
    BY DEF Lists
  <2> DEFINE n == Rank(t, xs, k)
  <2>2. n \in 1..m /\ At(n) = k
    BY <1>5
  <2> HIDE DEF n
  <2> QED
    BY <1>4, <2>1, <2>2
<1>7. ASSUME NEW a \in 1..m, NEW b \in 1..m, ys[a] = ys[b] PROVE a = b
  <2> DEFINE i == At(a)
             k == At(b)
  <2>1. i \in 1..m /\ k \in 1..m /\ Rank(t, xs, i) = a /\ Rank(t, xs, k) = b
    BY <1>2
  <2>2. xs[i] = xs[k]
    BY <1>4, <1>7
  <2> HIDE DEF i, k
  <2>3. i = k
    BY <2>1, <2>2 DEF Lists
  <2> QED
    BY <2>1, <2>3
<1>8. ASSUME NEW a \in 1..m, NEW b \in 1..m, a <= b PROVE Key(t, ys[a]) <= Key(t, ys[b])
  <2>1. CASE a = b
    BY <1>1, <1>2, <1>4, <2>1
  <2>2. CASE a < b
    <3> DEFINE i == At(a)
               k == At(b)
    <3>1. i \in 1..m /\ k \in 1..m /\ Rank(t, xs, i) = a /\ Rank(t, xs, k) = b
      BY <1>2
    <3> HIDE DEF i, k
    <3>2. i # k
      BY <1>1, <2>2, <3>1
    <3>3. ~Ahead(t, xs, k, i)
      <4>1. Ahead(t, xs, k, i) => b < a
        BY <3>1, Ranks
      <4> QED
        BY <1>1, <2>2, <4>1
    <3>4. Ahead(t, xs, i, k)
      BY <3>1, <3>2, <3>3, Ranks
    <3>5. Key(t, xs[i]) \in Int /\ Key(t, xs[k]) \in Int
      BY <1>1, <3>1
    <3>6. Key(t, xs[i]) <= Key(t, xs[k])
      BY <3>4, <3>5 DEF Ahead
    <3> QED
      BY <1>4, <3>6 DEF i, k
  <2> QED
    BY <1>1, <1>8, <2>1, <2>2
<1>9. \A n \in 1..m : Key(t, ys[n]) \in Int
  BY <1>1, <1>2, <1>4
<1> QED
  BY <1>4, <1>6, <1>7, <1>8, <1>9 DEF Lists, Ascends, ys

\* The bounds of a value in a sorted sequence.
LEMMA BoundsAre ==
  ASSUME NEW t, NEW xs, NEW S, Lists(xs, S), Ascends(t, xs), NEW v \in Int
  PROVE  /\ LowerBound(t, xs, v) \in 0..Len(xs) /\ UpperBound(t, xs, v) \in 0..Len(xs)
         /\ \A i \in 1..Len(xs) : i <= LowerBound(t, xs, v) <=> Key(t, xs[i]) < v
         /\ \A i \in 1..Len(xs) : i <= UpperBound(t, xs, v) <=> Key(t, xs[i]) <= v
<1> DEFINE n == Len(xs)
           L == {i \in 1..n : Key(t, xs[i]) < v}
           U == {i \in 1..n : Key(t, xs[i]) <= v}
<1>1. n \in Nat /\ DOMAIN xs = 1..n /\ \A i \in 1..n : Key(t, xs[i]) \in Int
  BY ListsSet DEF Ascends
<1>2. \A i, k \in 1..n : i < k => Key(t, xs[i]) <= Key(t, xs[k])
  BY <1>1 DEF Ascends
<1>3. L \subseteq 1..n /\ \A i \in L, k \in 1..n : k < i => k \in L
  BY <1>1, <1>2
<1>4. U \subseteq 1..n /\ \A i \in U, k \in 1..n : k < i => k \in U
  BY <1>1, <1>2
<1>5. LowerBound(t, xs, v) = Cardinality(L) /\ UpperBound(t, xs, v) = Cardinality(U)
  BY <1>1 DEF LowerBound, UpperBound
<1>6. \A i \in 1..n : (i \in L <=> Key(t, xs[i]) < v) /\ (i \in U <=> Key(t, xs[i]) <= v)
  OBVIOUS
<1> HIDE DEF L, U, n
<1>7. L = 1..Cardinality(L) /\ Cardinality(L) \in 0..n
  BY <1>1, <1>3, Prefix
<1>8. U = 1..Cardinality(U) /\ Cardinality(U) \in 0..n
  BY <1>1, <1>4, Prefix
<1>9. \A i \in 1..n : (i <= Cardinality(L) <=> i \in L) /\ (i <= Cardinality(U) <=> i \in U)
  <2>1. \A a \in 0..n, i \in 1..n : i <= a <=> i \in 1..a
    BY <1>1
  <2> QED
    BY <1>7, <1>8, <2>1
<1> QED
  BY <1>5, <1>6, <1>7, <1>8, <1>9 DEF n

\* The rows whose keys compare to a value in one way.
Below(t, S, v)  == {y \in S : Key(t, y) < v}
UpTo(t, S, v)   == {y \in S : Key(t, y) <= v}
EqualTo(t, S, v) == {y \in S : Key(t, y) = v}
NotBelow(t, S, v) == {y \in S : Key(t, y) >= v}
Above(t, S, v)  == {y \in S : Key(t, y) > v}

\* What lies below, above and at a value in a sorted sequence.
LEMMA RangesAre ==
  ASSUME NEW t, NEW xs, NEW S, Lists(xs, S), Ascends(t, xs), NEW v \in Int
  PROVE  /\ Lists(SubSeq(xs, 1, LowerBound(t, xs, v)), Below(t, S, v))
         /\ Lists(SubSeq(xs, 1, UpperBound(t, xs, v)), UpTo(t, S, v))
         /\ Lists(SubSeq(xs, LowerBound(t, xs, v) + 1, UpperBound(t, xs, v)), EqualTo(t, S, v))
         /\ Lists(SubSeq(xs, LowerBound(t, xs, v) + 1, Len(xs)), NotBelow(t, S, v))
         /\ Lists(SubSeq(xs, UpperBound(t, xs, v) + 1, Len(xs)), Above(t, S, v))
<1> DEFINE n == Len(xs)
           a == LowerBound(t, xs, v)
           b == UpperBound(t, xs, v)
<1>1. n \in Nat /\ S = {xs[i] : i \in 1..n} /\ \A i \in 1..n : Key(t, xs[i]) \in Int
  <2>1. n \in Nat /\ DOMAIN xs = 1..n /\ ToSet(xs) = S
    BY ListsSet
  <2>2. S = {xs[i] : i \in 1..n}
    BY <2>1 DEF ToSet
  <2> QED
    BY <2>1, <2>2 DEF Ascends
<1>2. /\ a \in 0..n /\ b \in 0..n
      /\ \A i \in 1..n : i <= a <=> Key(t, xs[i]) < v
      /\ \A i \in 1..n : i <= b <=> Key(t, xs[i]) <= v
  BY BoundsAre
<1> HIDE DEF a, b, n
<1>3. \A lo \in 0..n, hi \in 0..n : Lists(SubSeq(xs, lo + 1, hi), {xs[i] : i \in lo + 1..hi})
  <2>1. ASSUME NEW lo \in 0..n, NEW hi \in 0..n PROVE Lists(SubSeq(xs, lo + 1, hi), {xs[i] : i \in lo + 1..hi})
    <3>1. lo \in Nat /\ hi \in Nat /\ hi <= Len(xs)
      BY <1>1 DEF n
    <3> QED
      BY <3>1, SubSeqLists
  <2> QED
    BY <2>1
<1>4. 0 \in 0..n /\ n \in 0..n /\ 0 + 1 = 1
  BY <1>1
<1>5. \A i \in 1..n : /\ i \in 1..a <=> Key(t, xs[i]) < v
                      /\ i \in 1..b <=> Key(t, xs[i]) <= v
                      /\ i \in a + 1..b <=> Key(t, xs[i]) = v
                      /\ i \in a + 1..n <=> Key(t, xs[i]) >= v
                      /\ i \in b + 1..n <=> Key(t, xs[i]) > v
  <2>1. ASSUME NEW i \in 1..n
        PROVE  /\ i \in 1..a <=> Key(t, xs[i]) < v
               /\ i \in 1..b <=> Key(t, xs[i]) <= v
               /\ i \in a + 1..b <=> Key(t, xs[i]) = v
               /\ i \in a + 1..n <=> Key(t, xs[i]) >= v
               /\ i \in b + 1..n <=> Key(t, xs[i]) > v
    <3> DEFINE w == Key(t, xs[i])
    <3>1. w \in Int /\ (i <= a <=> w < v) /\ (i <= b <=> w <= v)
      BY <1>1, <1>2
    <3> HIDE DEF w
    <3>2. /\ i \in 1..a <=> w < v
          /\ i \in 1..b <=> w <= v
          /\ i \in a + 1..b <=> w = v
          /\ i \in a + 1..n <=> w >= v
          /\ i \in b + 1..n <=> w > v
      BY <1>1, <1>2, <3>1
    <3> QED
      BY <3>2 DEF w
  <2> QED
    BY <2>1
<1>6. {xs[i] : i \in 1..a} = Below(t, S, v)
  BY <1>1, <1>2, <1>5 DEF Below
<1>7. {xs[i] : i \in 1..b} = UpTo(t, S, v)
  BY <1>1, <1>2, <1>5 DEF UpTo
<1>8. {xs[i] : i \in a + 1..b} = EqualTo(t, S, v)
  BY <1>1, <1>2, <1>5 DEF EqualTo
<1>9. {xs[i] : i \in a + 1..n} = NotBelow(t, S, v)
  BY <1>1, <1>2, <1>5 DEF NotBelow
<1>10. {xs[i] : i \in b + 1..n} = Above(t, S, v)
  BY <1>1, <1>2, <1>5 DEF Above
<1>11. Lists(SubSeq(xs, 1, a), {xs[i] : i \in 1..a}) /\ Lists(SubSeq(xs, 1, b), {xs[i] : i \in 1..b})
  <2>1. Lists(SubSeq(xs, 0 + 1, a), {xs[i] : i \in 0 + 1..a}) /\ Lists(SubSeq(xs, 0 + 1, b), {xs[i] : i \in 0 + 1..b})
    BY <1>2, <1>3, <1>4
  <2> QED
    BY <1>4, <2>1
<1>12. /\ Lists(SubSeq(xs, a + 1, b), {xs[i] : i \in a + 1..b})
       /\ Lists(SubSeq(xs, a + 1, n), {xs[i] : i \in a + 1..n})
       /\ Lists(SubSeq(xs, b + 1, n), {xs[i] : i \in b + 1..n})
  BY <1>2, <1>3, <1>4
<1> QED
  BY <1>6, <1>7, <1>8, <1>9, <1>10, <1>11, <1>12 DEF a, b, n

RowsIn(t, c) == {c} \X (1..Len(t[c]))

LEMMA ChunkKeys ==
  ASSUME NEW t, IsTable(t), NEW c \in 1..Len(t)
  PROVE  /\ RowsIn(t, c) \subseteq RowIds(t)
         /\ \A y \in RowsIn(t, c) : y[1] = c /\ Key(t, y) \in Int \cup {Null}
<1>1. RowsIn(t, c) \subseteq RowIds(t) /\ \A y \in RowsIn(t, c) : y[1] = c
  BY DEF RowsIn, RowIds
<1> QED
  BY <1>1, KeysTyped

\* An index of a chunk holds the rows that are not NULL, in the order of their keys.
LEMMA IndexLists ==
  ASSUME NEW t, IsTable(t), NEW c \in 1..Len(t)
  PROVE  /\ Lists(IndexOf(t, c), {y \in RowsIn(t, c) : Key(t, y) # Null})
         /\ Ascends(t, IndexOf(t, c))
         /\ Lists(Filter(ChunkRows(t, c), LAMBDA x : Key(t, x) = Null), {y \in RowsIn(t, c) : Key(t, y) = Null})
<1> DEFINE rows == ChunkRows(t, c)
           S == {y \in RowsIn(t, c) : Key(t, y) # Null}
           N == {y \in RowsIn(t, c) : Key(t, y) = Null}
<1>1. Lists(rows, RowsIn(t, c)) /\ ToSet(rows) = RowsIn(t, c)
  <2>1. Lists(rows, RowsIn(t, c))
    BY ChunkLists DEF RowsIn
  <2> QED
    BY <2>1, ListsSet
<1> HIDE DEF rows
<1>2. NotNull(t, rows) = Within(rows, S)
  BY <1>1 DEF NotNull
<1>3. Filter(rows, LAMBDA x : Key(t, x) = Null) = Within(rows, N)
  BY <1>1 DEF Filter
<1>4. S \subseteq RowsIn(t, c) /\ N \subseteq RowsIn(t, c) /\ \A y \in S : Key(t, y) \in Int
  BY ChunkKeys
<1> HIDE DEF S, N
<1>5. Lists(Within(rows, S), S) /\ Lists(Within(rows, N), N)
  BY <1>1, <1>4, WithinSubset
<1>6. Lists(SortRows(t, NotNull(t, rows)), S) /\ Ascends(t, SortRows(t, NotNull(t, rows)))
  BY <1>2, <1>4, <1>5, SortedLists
<1> QED
  BY <1>3, <1>5, <1>6 DEF IndexOf, rows, S, N

\* The rows of a chunk that an index join takes for a match of a value.
Hit(j, cond, index, indexed, c, v) ==
  {y \in RowsIn(index, c) :
     \/ Satisfies(j.mode, cond, v, Key(index, y))
     \/ /\ c \in indexed /\ j.mode = "AntiNullAsTrue"
        /\ v = Null \/ \E z \in RowsIn(index, c) : Key(index, z) = Null}

LEMMA RangeLists ==
  ASSUME NEW index, IsTable(index), NEW c \in 1..Len(index), NEW indexed, c \in indexed,
         NEW j \in Join, NEW cond \in Conditions, NEW v \in Int \cup {Null}
  PROVE  Lists(IndexRange(j, cond, index, c, v), Hit(j, cond, index, indexed, c, v))
<1> DEFINE xs == IndexOf(index, c)
           nulls == Filter(ChunkRows(index, c), LAMBDA x : Key(index, x) = Null)
           R == RowsIn(index, c)
           S == {y \in R : Key(index, y) # Null}
           N == {y \in R : Key(index, y) = Null}
           lower == LowerBound(index, xs, v)
           upper == UpperBound(index, xs, v)
           hit == Hit(j, cond, index, indexed, c, v)
           range == IndexRange(j, cond, index, c, v)
           all == j.mode = "AntiNullAsTrue" /\ (v = Null \/ nulls # <<>>)
<1>1. Lists(xs, S) /\ Ascends(index, xs) /\ Lists(nulls, N)
  BY IndexLists
<1>2. range = IF all THEN xs \o nulls ELSE IF v = Null THEN <<>>
              ELSE CASE cond = "="  -> SubSeq(xs, lower + 1, upper)
                     [] cond = "#"  -> SubSeq(xs, 1, lower) \o SubSeq(xs, upper + 1, Len(xs))
                     [] cond = ">"  -> SubSeq(xs, 1, lower)
                     [] cond = ">=" -> SubSeq(xs, 1, upper)
                     [] cond = "<"  -> SubSeq(xs, upper + 1, Len(xs))
                     [] cond = "<=" -> SubSeq(xs, lower + 1, Len(xs))
  BY DEF IndexRange
<1>3. nulls = <<>> <=> N = {}
  BY <1>1, ListsSet
<1> HIDE DEF xs, nulls, range
<1>4. CASE all
  <2>1. hit = R
    BY <1>3, <1>4 DEF Hit
  <2>2. S \cap N = {} /\ S \cup N = R
    OBVIOUS
  <2> HIDE DEF S, N, R, hit
  <2>3. Lists(xs \o nulls, S \cup N)
    BY <1>1, <2>2, ListsConcat
  <2> QED
    BY <1>2, <1>4, <2>1, <2>2, <2>3 DEF hit, range
<1>5. CASE ~all /\ v = Null
  <2>1. hit = {}
    BY <1>3, <1>5 DEF Hit, Satisfies
  <2> HIDE DEF hit
  <2> QED
    BY <1>2, <1>5, <2>1, ListsNone DEF hit, range
<1>6. CASE ~all /\ v # Null
  <2>1. v \in Int
    BY <1>6
  <2>2. hit = {y \in S : Holds(cond, v, Key(index, y))}
    BY <1>3, <1>6 DEF Hit, Satisfies
  <2>3. \A y \in S : Key(index, y) \in Int
    BY ChunkKeys
  <2> HIDE DEF S, hit
  <2>4. /\ Lists(SubSeq(xs, 1, lower), Below(index, S, v))
        /\ Lists(SubSeq(xs, 1, upper), UpTo(index, S, v))
        /\ Lists(SubSeq(xs, lower + 1, upper), EqualTo(index, S, v))
        /\ Lists(SubSeq(xs, lower + 1, Len(xs)), NotBelow(index, S, v))
        /\ Lists(SubSeq(xs, upper + 1, Len(xs)), Above(index, S, v))
    BY <1>1, <2>1, RangesAre
  <2> HIDE DEF lower, upper
  <2>5. CASE cond = "="
    <3>1. hit = EqualTo(index, S, v)
      BY <2>2, <2>5 DEF Holds, Below, UpTo, EqualTo, NotBelow, Above
    <3>2. range = SubSeq(xs, lower + 1, upper)
      BY <1>2, <1>6, <2>5
    <3> QED
      BY <2>4, <3>1, <3>2 DEF hit, range
  <2>6. CASE cond = "#"
    <3> DEFINE A == Below(index, S, v)
               B == Above(index, S, v)
    <3>1. hit = A \cup B /\ A \cap B = {}
      BY <2>1, <2>2, <2>3, <2>6 DEF Holds, Below, UpTo, EqualTo, NotBelow, Above
    <3>2. range = SubSeq(xs, 1, lower) \o SubSeq(xs, upper + 1, Len(xs))
      BY <1>2, <1>6, <2>6
    <3>3. Lists(SubSeq(xs, 1, lower), A) /\ Lists(SubSeq(xs, upper + 1, Len(xs)), B)
      BY <2>4
    <3> HIDE DEF A, B
    <3>4. Lists(SubSeq(xs, 1, lower) \o SubSeq(xs, upper + 1, Len(xs)), A \cup B)
      BY <3>1, <3>3, ListsConcat
    <3> QED
      BY <3>1, <3>2, <3>4 DEF hit, range
  <2>7. CASE cond = ">"
    <3>1. hit = Below(index, S, v)
      BY <2>1, <2>2, <2>3, <2>7 DEF Holds, Below, UpTo, EqualTo, NotBelow, Above
    <3>2. range = SubSeq(xs, 1, lower)
      BY <1>2, <1>6, <2>7
    <3> QED
      BY <2>4, <3>1, <3>2 DEF hit, range
  <2>8. CASE cond = ">="
    <3>1. hit = UpTo(index, S, v)
      BY <2>1, <2>2, <2>3, <2>8 DEF Holds, Below, UpTo, EqualTo, NotBelow, Above
    <3>2. range = SubSeq(xs, 1, upper)
      BY <1>2, <1>6, <2>8
    <3> QED
      BY <2>4, <3>1, <3>2 DEF hit, range
  <2>9. CASE cond = "<"
    <3>1. hit = Above(index, S, v)
      BY <2>1, <2>2, <2>3, <2>9 DEF Holds, Below, UpTo, EqualTo, NotBelow, Above
    <3>2. range = SubSeq(xs, upper + 1, Len(xs))
      BY <1>2, <1>6, <2>9
    <3> QED
      BY <2>4, <3>1, <3>2 DEF hit, range
  <2>10. CASE cond = "<="
    <3>1. hit = NotBelow(index, S, v)
      BY <2>1, <2>2, <2>3, <2>10 DEF Holds, Below, UpTo, EqualTo, NotBelow, Above
    <3>2. range = SubSeq(xs, lower + 1, Len(xs))
      BY <1>2, <1>6, <2>10
    <3> QED
      BY <2>4, <3>1, <3>2 DEF hit, range
  <2> QED
    BY <2>5, <2>6, <2>7, <2>8, <2>9, <2>10 DEF Conditions
<1> QED
  BY <1>4, <1>5, <1>6

LEMMA MatchesInLists ==
  ASSUME NEW index, IsTable(index), NEW c \in 1..Len(index), NEW indexed,
         NEW j \in Join, NEW cond \in Conditions, NEW v \in Int \cup {Null}
  PROVE  Lists(MatchesIn(j, cond, index, indexed, c, v), Hit(j, cond, index, indexed, c, v))
<1>1. CASE c \in indexed
  BY <1>1, RangeLists DEF MatchesIn
<1>2. CASE c \notin indexed
  <2> DEFINE rows == ChunkRows(index, c)
             hit == Hit(j, cond, index, indexed, c, v)
  <2>1. Lists(rows, RowsIn(index, c))
    BY ChunkLists DEF RowsIn
  <2>2. ToSet(rows) = RowsIn(index, c)
    BY <2>1, ListsSet
  <2>3. MatchesIn(j, cond, index, indexed, c, v)
          = Within(rows, {y \in ToSet(rows) : Satisfies(j.mode, cond, v, Key(index, y))})
    BY <1>2 DEF MatchesIn, Filter
  <2>4. hit = {y \in RowsIn(index, c) : Satisfies(j.mode, cond, v, Key(index, y))}
    BY <1>2 DEF Hit
  <2>5. hit \subseteq RowsIn(index, c) /\ MatchesIn(j, cond, index, indexed, c, v) = Within(rows, hit)
    BY <2>2, <2>3, <2>4
  <2> HIDE DEF rows, hit
  <2>6. Lists(MatchesIn(j, cond, index, indexed, c, v), hit)
    BY <2>1, <2>5, WithinSubset
  <2> QED
    BY <2>6 DEF hit
<1> QED
  BY <1>1, <1>2

\* The rows of all chunks that an index join takes for a match of a value.
HitAll(j, cond, index, indexed, v) == UNION {Hit(j, cond, index, indexed, c, v) : c \in 1..Len(index)}

HitPairs(j, cond, index, indexed, probe) ==
  {p \in RowIds(probe) \X RowIds(index) : p[2] \in HitAll(j, cond, index, indexed, Key(probe, p[1]))}

LEMMA ChunksList ==
  ASSUME NEW index, IsTable(index), NEW indexed, NEW j \in Join, NEW cond \in Conditions, NEW v \in Int \cup {Null}
  PROVE  Lists(FlattenSeq([c \in DOMAIN index |-> MatchesIn(j, cond, index, indexed, c, v)]), HitAll(j, cond, index, indexed, v))
<1> DEFINE ss == [c \in 1..Len(index) |-> MatchesIn(j, cond, index, indexed, c, v)]
           SS == [c \in 1..Len(index) |-> Hit(j, cond, index, indexed, c, v)]
<1>1. Len(index) \in Nat /\ DOMAIN index = 1..Len(index)
  BY TableShape
<1>2. \A c \in 1..Len(index) : Lists(ss[c], SS[c])
  BY MatchesInLists
<1>3. \A c \in 1..Len(index) : SS[c] \subseteq RowsIn(index, c)
  BY DEF Hit
<1>4. \A c, d \in 1..Len(index) : c # d => SS[c] \cap SS[d] = {}
  BY <1>3 DEF RowsIn
<1>5. UNION {SS[c] : c \in 1..Len(index)} = HitAll(j, cond, index, indexed, v)
  BY DEF HitAll
<1>6. ss = [c \in 1..Len(index) |-> ss[c]]
  OBVIOUS
<1>7. FlattenSeq([c \in DOMAIN index |-> MatchesIn(j, cond, index, indexed, c, v)]) = FlattenSeq(ss)
  BY <1>1
<1> HIDE DEF ss, SS
<1>8. Lists(FlattenSeq(ss), UNION {SS[c] : c \in 1..Len(index)})
  BY <1>1, <1>2, <1>4, <1>6, FlattenLists
<1> QED
  BY <1>5, <1>7, <1>8

LEMMA HitsAreRows ==
  ASSUME NEW index, IsTable(index), NEW indexed, NEW j, NEW cond, NEW v
  PROVE  HitAll(j, cond, index, indexed, v) \subseteq RowIds(index)
<1>1. \A c \in 1..Len(index) : Hit(j, cond, index, indexed, c, v) \subseteq RowIds(index)
  BY ChunkKeys DEF Hit
<1> QED
  BY <1>1 DEF HitAll

LEMMA IndexPairsList ==
  ASSUME NEW index, NEW probe, IsTable(index), IsTable(probe), NEW indexed, NEW j \in Join, NEW cond \in Conditions
  PROVE  Lists(IndexPairs(j, cond, index, probe, indexed), HitPairs(j, cond, index, indexed, probe))
<1> DEFINE xs == Rows(probe)
           n == Len(xs)
           found(i) == FlattenSeq([c \in DOMAIN index |-> MatchesIn(j, cond, index, indexed, c, Key(probe, xs[i]))])
           hit(i) == HitAll(j, cond, index, indexed, Key(probe, xs[i]))
           ss == [i \in 1..n |-> Product(<<xs[i]>>, found(i))]
           SS == [i \in 1..n |-> {xs[i]} \X hit(i)]
<1>1. Lists(xs, RowIds(probe))
  BY RowsList
<1>2. n \in Nat /\ DOMAIN xs = 1..n /\ RowIds(probe) = {xs[i] : i \in 1..n}
  BY <1>1, ListsSet DEF ToSet
<1>3. IndexPairs(j, cond, index, probe, indexed) = FlattenSeq(ss)
  BY <1>2 DEF IndexPairs
<1>4. ASSUME NEW i \in 1..n PROVE Lists(ss[i], SS[i]) /\ hit(i) \subseteq RowIds(index)
  <2>1. xs[i] \in RowIds(probe)
    BY <1>2
  <2>2. Key(probe, xs[i]) \in Int \cup {Null}
    BY <2>1, KeysTyped
  <2>3. Lists(found(i), hit(i))
    BY <2>2, ChunksList
  <2>4. hit(i) \subseteq RowIds(index)
    BY HitsAreRows
  <2> HIDE DEF found, hit, xs
  <2>5. Lists(<<xs[i]>>, {xs[i]})
    BY ListsOne
  <2>6. Lists(Product(<<xs[i]>>, found(i)), {xs[i]} \X hit(i))
    BY <2>3, <2>5, ProductLists
  <2> QED
    BY <2>4, <2>6
<1> HIDE DEF found, hit, xs, n
<1>5. \A i, k \in 1..n : i # k => SS[i] \cap SS[k] = {}
  <2>1. ASSUME NEW i \in 1..n, NEW k \in 1..n, i # k PROVE SS[i] \cap SS[k] = {}
    <3>1. xs[i] # xs[k]
      BY <1>1, <2>1 DEF Lists, n
    <3> QED
      BY <3>1
  <2> QED
    BY <2>1
<1>6. UNION {SS[i] : i \in 1..n} = HitPairs(j, cond, index, indexed, probe)
  <2>1. ASSUME NEW p \in HitPairs(j, cond, index, indexed, probe) PROVE \E i \in 1..n : p \in SS[i]
    <3>1. p[1] \in RowIds(probe) /\ p = <<p[1], p[2]>> /\ p[2] \in HitAll(j, cond, index, indexed, Key(probe, p[1]))
      BY DEF HitPairs
    <3>2. PICK i \in 1..n : p[1] = xs[i]
      BY <1>2, <3>1
    <3>3. p[2] \in hit(i)
      BY <3>1, <3>2 DEF hit
    <3> QED
      BY <3>1, <3>2, <3>3
  <2>2. ASSUME NEW i \in 1..n, NEW p \in SS[i] PROVE p \in HitPairs(j, cond, index, indexed, probe)
    <3>1. p[1] = xs[i] /\ p[2] \in hit(i) /\ p = <<p[1], p[2]>>
      OBVIOUS
    <3>2. p[1] \in RowIds(probe) /\ p[2] \in RowIds(index)
      BY <1>2, <1>4, <3>1
    <3>3. p[2] \in HitAll(j, cond, index, indexed, Key(probe, p[1]))
      BY <3>1 DEF hit
    <3> QED
      BY <3>1, <3>2, <3>3 DEF HitPairs
  <2> QED
    BY <2>1, <2>2
<1>7. ss = [i \in 1..n |-> ss[i]]
  OBVIOUS
<1>8. \A i \in 1..n : Lists(ss[i], SS[i])
  BY <1>4
<1>9. n \in Nat
  BY <1>2
<1> HIDE DEF ss, SS
<1>10. Lists(FlattenSeq(ss), UNION {SS[i] : i \in 1..n})
  BY <1>5, <1>7, <1>8, <1>9, FlattenLists
<1> QED
  BY <1>3, <1>6, <1>10

\* A row is taken for a match of a value when the two satisfy the primary predicate, but for an
\* AntiNullAsTrue join: there a value is matched when some row satisfies the predicate with it.
LEMMA HitsAre ==
  ASSUME NEW index, IsTable(index), NEW indexed, NEW j, NEW cond, NEW v \in Int \cup {Null}
  PROVE  /\ j.mode # "AntiNullAsTrue" =>
              \A y : y \in HitAll(j, cond, index, indexed, v)
                      <=> y \in RowIds(index) /\ Satisfies(j.mode, cond, v, Key(index, y))
         /\ HitAll(j, cond, index, indexed, v) # {} <=> \E y \in RowIds(index) : Satisfies(j.mode, cond, v, Key(index, y))
<1>1. RowIds(index) = UNION {RowsIn(index, c) : c \in 1..Len(index)}
  BY DEF RowIds, RowsIn
<1>2. ASSUME NEW y \in RowIds(index), Satisfies(j.mode, cond, v, Key(index, y)) PROVE y \in HitAll(j, cond, index, indexed, v)
  <2>1. PICK c \in 1..Len(index) : y \in RowsIn(index, c)
    BY <1>1
  <2>2. y \in Hit(j, cond, index, indexed, c, v)
    BY <1>2, <2>1 DEF Hit
  <2> QED
    BY <2>2 DEF HitAll
<1>3. ASSUME NEW y \in HitAll(j, cond, index, indexed, v)
      PROVE  /\ y \in RowIds(index)
             /\ j.mode # "AntiNullAsTrue" => Satisfies(j.mode, cond, v, Key(index, y))
             /\ \E z \in RowIds(index) : Satisfies(j.mode, cond, v, Key(index, z))
  <2>1. PICK c \in 1..Len(index) : y \in Hit(j, cond, index, indexed, c, v)
    BY DEF HitAll
  <2>2. y \in RowsIn(index, c) /\ RowsIn(index, c) \subseteq RowIds(index)
    BY <1>1, <2>1 DEF Hit
  <2>3. j.mode # "AntiNullAsTrue" => Satisfies(j.mode, cond, v, Key(index, y))
    BY <2>1 DEF Hit
  <2>4. CASE Satisfies(j.mode, cond, v, Key(index, y))
    BY <2>2, <2>4
  <2>5. CASE j.mode = "AntiNullAsTrue" /\ v = Null
    <3>1. Satisfies(j.mode, cond, v, Key(index, y))
      BY <2>5 DEF Satisfies
    <3> QED
      BY <2>2, <3>1
  <2>6. CASE j.mode = "AntiNullAsTrue" /\ \E z \in RowsIn(index, c) : Key(index, z) = Null
    <3>1. PICK z \in RowsIn(index, c) : Key(index, z) = Null
      BY <2>6
    <3>2. Satisfies(j.mode, cond, v, Key(index, z))
      BY <2>6, <3>1 DEF Satisfies
    <3> QED
      BY <2>2, <2>6, <3>2
  <2> QED
    BY <2>1, <2>2, <2>3, <2>4, <2>5, <2>6 DEF Hit
<1>4. ASSUME j.mode # "AntiNullAsTrue", NEW y
      PROVE  y \in HitAll(j, cond, index, indexed, v) <=> y \in RowIds(index) /\ Satisfies(j.mode, cond, v, Key(index, y))
  BY <1>2, <1>3, <1>4
<1>5. HitAll(j, cond, index, indexed, v) # {} <=> \E y \in RowIds(index) : Satisfies(j.mode, cond, v, Key(index, y))
  <2> DEFINE H == HitAll(j, cond, index, indexed, v)
  <2>1. \A y \in RowIds(index) : Satisfies(j.mode, cond, v, Key(index, y)) => y \in H
    BY <1>2
  <2>2. \A y \in H : \E z \in RowIds(index) : Satisfies(j.mode, cond, v, Key(index, z))
    BY <1>3
  <2> HIDE DEF H
  <2>3. H # {} <=> \E y \in RowIds(index) : Satisfies(j.mode, cond, v, Key(index, y))
    BY <2>1, <2>2
  <2> QED
    BY <2>3 DEF H
<1> QED
  BY <1>4, <1>5

\* The pairs of an index join, with the index on the right or on the left.
PairsOf(j, l, r, side, indexed) ==
  IF side = "left" THEN Swapped(IndexPairs(j, Flip(j.cond), l, r, indexed)) ELSE IndexPairs(j, j.cond, r, l, indexed)

LEMMA IndexJoinIs ==
  ASSUME NEW j, NEW l, NEW r, NEW side, NEW indexed
  PROVE  LET pairs == PairsOf(j, l, r, side, indexed)
             loneLeft == WithNull(Without(Rows(l), Lefts(pairs)))
             loneRight == NullWith(Without(Rows(r), Rights(pairs)))
         IN /\ j.mode = "Inner" => IndexJoin(j, l, r, side, indexed) = pairs \o <<>> \o <<>>
            /\ j.mode = "Left" => IndexJoin(j, l, r, side, indexed) = pairs \o loneLeft \o <<>>
            /\ j.mode = "Right" => IndexJoin(j, l, r, side, indexed) = pairs \o <<>> \o loneRight
            /\ j.mode = "FullOuter" => IndexJoin(j, l, r, side, indexed) = pairs \o loneLeft \o loneRight
            /\ j.mode = "Semi" => IndexJoin(j, l, r, side, indexed) = WithNull(Within(Rows(l), Lefts(pairs)))
            /\ Anti(j) => IndexJoin(j, l, r, side, indexed) = loneLeft
  BY DEF IndexJoin, PairsOf, SemiOrAnti, Anti, KeepsLeft, KeepsRight

\* An index on the right finds the matches; for an AntiNullAsTrue join it finds one for
\* the rows that have one, and for no others.
LEMMA RightIndex ==
  ASSUME NEW l, NEW r, IsTable(l), IsTable(r), NEW j \in Join, ~j.sec, NEW indexed
  PROVE  /\ Lists(IndexPairs(j, j.cond, r, l, indexed), HitPairs(j, j.cond, r, indexed, l))
         /\ j.mode # "AntiNullAsTrue" => HitPairs(j, j.cond, r, indexed, l) = Matched(j, l, r)
         /\ {p[1] : p \in HitPairs(j, j.cond, r, indexed, l)} = RowIds(l) \ LoneLefts(j, l, r)
<1> DEFINE H(x) == HitAll(j, j.cond, r, indexed, Key(l, x))
           P == HitPairs(j, j.cond, r, indexed, l)
<1>1. j.cond \in Conditions
  BY DEF Join
<1>2. Lists(IndexPairs(j, j.cond, r, l, indexed), P)
  BY <1>1, IndexPairsList
<1>3. \A x \in RowIds(l), y \in RowIds(r) : Match(j, l, r, x, y) <=> Satisfies(j.mode, j.cond, Key(l, x), Key(r, y))
  BY DEF Match, SatisfiesSecondary
<1>4. ASSUME NEW x \in RowIds(l)
      PROVE  /\ j.mode # "AntiNullAsTrue" => \A y : y \in H(x) <=> y \in RowIds(r) /\ Match(j, l, r, x, y)
             /\ H(x) # {} <=> \E y \in RowIds(r) : Match(j, l, r, x, y)
             /\ H(x) \subseteq RowIds(r)
  <2>1. Key(l, x) \in Int \cup {Null}
    BY KeysTyped
  <2>2. H(x) # {} <=> \E y \in RowIds(r) : Satisfies(j.mode, j.cond, Key(l, x), Key(r, y))
    BY <2>1, HitsAre
  <2>3. j.mode # "AntiNullAsTrue" =>
          \A y : y \in H(x) <=> y \in RowIds(r) /\ Satisfies(j.mode, j.cond, Key(l, x), Key(r, y))
    BY <2>1, HitsAre
  <2>4. H(x) \subseteq RowIds(r)
    BY HitsAreRows
  <2> HIDE DEF H
  <2> QED
    BY <1>3, <2>2, <2>3, <2>4
<1>5. \A p : p \in P <=> p \in RowIds(l) \X RowIds(r) /\ p[2] \in H(p[1])
  BY DEF HitPairs
<1> HIDE DEF H, P
<1>6. j.mode # "AntiNullAsTrue" => P = Matched(j, l, r)
  <2>1. ASSUME j.mode # "AntiNullAsTrue" PROVE \A p : p \in P <=> p \in Matched(j, l, r)
    <3>1. \A p : p \in RowIds(l) \X RowIds(r) => p[1] \in RowIds(l) /\ p[2] \in RowIds(r)
      OBVIOUS
    <3> QED
      BY <1>4, <1>5, <2>1, <3>1 DEF Matched
  <2>2. \A A, B : (\A p : p \in A <=> p \in B) => A = B
    OBVIOUS
  <2> QED
    BY <2>1, <2>2
<1>7. {p[1] : p \in P} = RowIds(l) \ LoneLefts(j, l, r)
  <2>1. ASSUME NEW p \in P PROVE p[1] \in RowIds(l) \ LoneLefts(j, l, r)
    <3>1. p[1] \in RowIds(l) /\ p[2] \in H(p[1])
      BY <1>5
    <3>2. \E y \in RowIds(r) : Match(j, l, r, p[1], y)
      BY <1>4, <3>1
    <3> QED
      BY <3>1, <3>2 DEF LoneLefts
  <2>2. ASSUME NEW x \in RowIds(l) \ LoneLefts(j, l, r) PROVE \E p \in P : x = p[1]
    <3>1. \E y \in RowIds(r) : Match(j, l, r, x, y)
      BY DEF LoneLefts
    <3>2. PICK y : y \in H(x)
      BY <1>4, <3>1
    <3>3. <<x, y>> \in RowIds(l) \X RowIds(r)
      BY <1>4, <3>2
    <3>4. <<x, y>> \in P
      BY <1>5, <3>2, <3>3
    <3> QED
      BY <3>4
  <2> QED
    BY <2>1, <2>2
<1> QED
  BY <1>2, <1>6, <1>7 DEF P

\* An index on the left finds the matches of the join seen from its right table.
LEMMA LeftIndex ==
  ASSUME NEW l, NEW r, IsTable(l), IsTable(r), NEW j \in Join, ~j.sec, j.mode # "AntiNullAsTrue", NEW indexed
  PROVE  Lists(Swapped(IndexPairs(j, Flip(j.cond), l, r, indexed)), Matched(j, l, r))
<1> DEFINE m == Mirrored(j)
<1>1. m \in Join /\ m.mode = j.mode /\ ~m.sec /\ m.cond = Flip(j.cond) /\ Flip(j.cond) \in Conditions
  BY DEF Mirrored, Join, Flip, Conditions
<1> HIDE DEF m
<1>2. Lists(IndexPairs(m, m.cond, l, r, indexed), Matched(m, r, l))
  <2>1. m.mode # "AntiNullAsTrue"
    BY <1>1
  <2>2. Lists(IndexPairs(m, m.cond, l, r, indexed), HitPairs(m, m.cond, l, indexed, r))
    BY <1>1, RightIndex
  <2>3. HitPairs(m, m.cond, l, indexed, r) = Matched(m, r, l)
    BY <1>1, <2>1, RightIndex
  <2> QED
    BY <2>2, <2>3
<1>3. \A cond, c, v : MatchesIn(m, cond, l, indexed, c, v) = MatchesIn(j, cond, l, indexed, c, v)
  BY <1>1 DEF MatchesIn, IndexRange
<1>4. IndexPairs(m, m.cond, l, r, indexed) = IndexPairs(j, Flip(j.cond), l, r, indexed)
  BY <1>1, <1>3 DEF IndexPairs
<1>5. Matched(m, r, l) \subseteq RowIds(r) \X RowIds(l)
  BY DEF Matched
<1>6. Lists(Swapped(IndexPairs(j, Flip(j.cond), l, r, indexed)), Turned(Matched(m, r, l)))
  BY <1>2, <1>4, <1>5, SwappedLists
<1>7. Turned(Matched(m, r, l)) = Matched(j, l, r)
  BY MirroredSets, ZenonT(40) DEF m
<1> QED
  BY <1>6, <1>7

\* The index join returns what the verification join does, each row once, but for an
\* AntiNullAsTrue join with the index on the side it returns.
LEMMA IndexJoinLists ==
  ASSUME NEW l, NEW r, IsTable(l), IsTable(r), NEW j \in Join, ~j.sec, NEW indexed,
         NEW side \in {"left", "right"}, ~(j.mode = "AntiNullAsTrue" /\ side = "left")
  PROVE  Lists(IndexJoin(j, l, r, side, indexed), Verified(j, l, r))
<1> DEFINE pairs == PairsOf(j, l, r, side, indexed)
           loneLeft == WithNull(Without(Rows(l), Lefts(pairs)))
           loneRight == NullWith(Without(Rows(r), Rights(pairs)))
           partnered == WithNull(Within(Rows(l), Lefts(pairs)))
           result == IndexJoin(j, l, r, side, indexed)
           M == Matched(j, l, r)
           LL == LoneLefts(j, l, r) \X {NoRow}
           LR == {NoRow} \X LoneRights(j, l, r)
<1>1. CASE j.mode # "AntiNullAsTrue"
  <2>1. Lists(pairs, M)
    <3>1. CASE side = "left"
      BY <1>1, <3>1, LeftIndex DEF PairsOf
    <3>2. CASE side = "right"
      <4>1. pairs = IndexPairs(j, j.cond, r, l, indexed)
        BY <3>2 DEF PairsOf
      <4> QED
        BY <1>1, <4>1, RightIndex
    <3> QED
      BY <3>1, <3>2
  <2>2. /\ j.mode = "Inner" => result = pairs \o <<>> \o <<>>
        /\ j.mode = "Left" => result = pairs \o loneLeft \o <<>>
        /\ j.mode = "Right" => result = pairs \o <<>> \o loneRight
        /\ j.mode = "FullOuter" => result = pairs \o loneLeft \o loneRight
        /\ j.mode = "Semi" => result = partnered
        /\ Anti(j) => result = loneLeft
    BY IndexJoinIs, ZenonT(40)
  <2>3. /\ Lists(loneLeft, LL)
        /\ Lists(partnered, (RowIds(l) \ LoneLefts(j, l, r)) \X {NoRow})
        /\ Lists(pairs \o loneLeft, M \cup LL)
        /\ Lists(pairs \o loneRight, M \cup LR)
        /\ Lists(pairs \o loneLeft \o loneRight, M \cup LL \cup LR)
    <3> HIDE DEF pairs
    <3> QED
      BY <2>1, OuterLists, Zenon
  <2>4. /\ j.mode = "Inner" => Verified(j, l, r) = M
        /\ j.mode = "Left" => Verified(j, l, r) = M \cup LL
        /\ j.mode = "Right" => Verified(j, l, r) = M \cup LR
        /\ j.mode = "FullOuter" => Verified(j, l, r) = M \cup LL \cup LR
        /\ j.mode = "Semi" => Verified(j, l, r) = (RowIds(l) \ LoneLefts(j, l, r)) \X {NoRow}
        /\ Anti(j) => Verified(j, l, r) = LL
    BY VerifiedIs
  <2>5. \A xs, S : Lists(xs, S) => xs \o <<>> = xs
    BY DEF Lists
  <2>6. j.mode \in Modes
    BY DEF Join
  <2> HIDE DEF pairs, loneLeft, loneRight, partnered, result, M, LL, LR
  <2>7. /\ pairs \o <<>> = pairs /\ pairs \o loneLeft \o <<>> = pairs \o loneLeft
    BY <2>1, <2>3, <2>5
  <2> QED
    BY <2>1, <2>2, <2>3, <2>4, <2>6, <2>7 DEF Modes, Anti, result
<1>2. CASE j.mode = "AntiNullAsTrue"
  <2>1. pairs = IndexPairs(j, j.cond, r, l, indexed)
    BY <1>2 DEF PairsOf
  <2>2. Anti(j)
    BY <1>2 DEF Anti
  <2>3. result = loneLeft
    BY <2>2, IndexJoinIs, ZenonT(40)
  <2>8. Verified(j, l, r) = LL
    BY <2>2, VerifiedIs
  <2>4. Lefts(pairs) = RowIds(l) \ LoneLefts(j, l, r)
    <3>1. Lists(pairs, HitPairs(j, j.cond, r, indexed, l))
      BY <2>1, RightIndex
    <3>2. Lefts(pairs) = {p[1] : p \in HitPairs(j, j.cond, r, indexed, l)}
      BY <3>1, LeftsRights
    <3> QED
      BY <3>2, RightIndex
  <2> HIDE DEF pairs
  <2>5. RowIds(l) \ Lefts(pairs) = LoneLefts(j, l, r)
    BY <2>4 DEF LoneLefts
  <2>6. Lists(Without(Rows(l), Lefts(pairs)), LoneLefts(j, l, r))
    BY <2>5, RowsList, WithoutLists
  <2>7. Lists(loneLeft, LL)
    BY <2>6, WithNullLists
  <2> QED
    BY <2>3, <2>7, <2>8
<1> QED
  BY <1>1, <1>2

\* The inductive invariant: the inputs stay what they are, and each call lists its result.
JoinInv ==
  /\ left \in LeftTables /\ right \in RightTables
  /\ \/ join.op \in {"JoinNestedLoop", "JoinHash"}
     \/ join.op = "JoinIndex" /\ ~(join.join.mode = "AntiNullAsTrue" /\ join.side = "left")
     => ~join.fails /\ Lists(join.rows, Verified(join.join, left, right))

LEMMA InputTables ==
  ASSUME NEW t \in LeftTables \cup RightTables
  PROVE  IsTable(t) /\ (t # <<>> => RowIds(t) # {})
<1>1. t \in Seq(Seq(TableRow)) /\ (t # <<>> => Rows(t) # <<>>)
  BY TablesAssumption DEF TablesAssumption
<1>2. IsTable(t)
  BY <1>1 DEF IsTable
<1>3. Lists(Rows(t), RowIds(t))
  BY <1>2, RowsList
<1> QED
  BY <1>1, <1>2, <1>3, ListsSet

LEMMA JoinInvInit == JoinInit => JoinInv
  BY DEF JoinInit, JoinInv, NoJoin

LEMMA JoinInvNext == JoinInv /\ [JoinNext]_joinVars => JoinInv'
<1> SUFFICES ASSUME JoinInv, [JoinNext]_joinVars PROVE JoinInv'
  OBVIOUS
<1>0. left \in LeftTables /\ right \in RightTables /\ IsTable(left) /\ IsTable(right)
      /\ (left # <<>> => RowIds(left) # {}) /\ (right # <<>> => RowIds(right) # {})
  BY InputTables DEF JoinInv
<1>1. CASE JoinNestedLoop
  <2>1. PICK j \in Join : ExecuteJoin(Result("JoinNestedLoop", j, NestedLoopJoin(j, left, right)))
    BY <1>1 DEF JoinNestedLoop
  <2>2. /\ left' = left /\ right' = right /\ join'.join = j /\ ~join'.fails /\ join'.op = "JoinNestedLoop"
        /\ join'.rows = NestedLoopJoin(j, left, right)
    BY <2>1 DEF ExecuteJoin, Result
  <2>3. Lists(NestedLoopJoin(j, left, right), Verified(j, left, right))
    BY <1>0, NestedLoopLists
  <2> QED
    BY <1>0, <2>2, <2>3 DEF JoinInv
<1>2. CASE JoinHash
  <2>1. PICK j \in Join, bits \in RadixBits :
          SupportsHash(j) /\ ExecuteJoin(Result("JoinHash", j, HashJoin(j, left, right, bits)))
    BY <1>2 DEF JoinHash
  <2>2. /\ left' = left /\ right' = right /\ join'.join = j /\ ~join'.fails /\ join'.op = "JoinHash"
        /\ join'.rows = HashJoin(j, left, right, bits)
    BY <2>1 DEF ExecuteJoin, Result
  <2>3. bits \in Nat /\ 2^bits \in Nat \ {0}
    BY RadixAssumption DEF RadixAssumption
  <2>4. Lists(HashJoin(j, left, right, bits), Verified(j, left, right))
    BY <1>0, <2>1, <2>3, BloomAssumption, HashLists
  <2> QED
    BY <1>0, <2>2, <2>4 DEF JoinInv
<1>3. CASE JoinSortMerge
  <2>1. left' = left /\ right' = right /\ join'.op = "JoinSortMerge"
    BY <1>3 DEF JoinSortMerge, ExecuteJoin, Result
  <2> QED
    BY <1>0, <2>1 DEF JoinInv
<1>4. CASE JoinIndex
  <2>1. PICK j \in Join, side \in {"left", "right"} :
          \E indexed \in {{}, {1}, DOMAIN (IF side = "left" THEN left ELSE right)} :
            ~j.sec /\ ExecuteJoin([op |-> "JoinIndex", join |-> j, rows |-> IndexJoin(j, left, right, side, indexed),
                                   fails |-> FALSE, side |-> side, indexed |-> indexed])
    BY <1>4 DEF JoinIndex
  <2>2. PICK indexed \in {{}, {1}, DOMAIN (IF side = "left" THEN left ELSE right)} :
          ~j.sec /\ ExecuteJoin([op |-> "JoinIndex", join |-> j, rows |-> IndexJoin(j, left, right, side, indexed),
                                 fails |-> FALSE, side |-> side, indexed |-> indexed])
    BY <2>1
  <2>3. /\ left' = left /\ right' = right /\ join'.join = j /\ ~join'.fails /\ join'.op = "JoinIndex"
        /\ join'.side = side /\ join'.rows = IndexJoin(j, left, right, side, indexed)
    BY <2>2 DEF ExecuteJoin
  <2>4. ~(j.mode = "AntiNullAsTrue" /\ side = "left")
          => Lists(IndexJoin(j, left, right, side, indexed), Verified(j, left, right))
    BY <1>0, <2>2, IndexJoinLists
  <2> QED
    BY <1>0, <2>3, <2>4 DEF JoinInv
<1>5. CASE UNCHANGED joinVars
  BY <1>5 DEF JoinInv, joinVars
<1> QED
  BY <1>1, <1>2, <1>3, <1>4, <1>5 DEF JoinNext

\* The invariant of joins holds.
THEOREM JoinInvariant == JoinSpec => []JoinInv
  BY JoinInvInit, JoinInvNext, PTL DEF JoinSpec

\* What a call lists is exact.
LEMMA ListedIsExact == JoinInv => NestedLoopJoinExact /\ HashJoinExact /\ IndexJoinExact
  BY ListsExact DEF JoinInv, NestedLoopJoinExact, HashJoinExact, IndexJoinExact, Exact

\* The nested loop join returns what the verification join does, each row once, for all
\* tables, modes and conditions (JoinNestedLoop::_on_execute).
THEOREM NestedLoopExact == JoinSpec => []NestedLoopJoinExact
  BY JoinInvariant, ListedIsExact, PTL

\* So does the hash join, for every size of its bloom filters and number of radix
\* partitions (JoinHash::_on_execute, join_hash_steps.hpp).
THEOREM HashExact == JoinSpec => []HashJoinExact
  BY JoinInvariant, ListedIsExact, PTL

\* So does the index join, whatever chunks have an index, but for an AntiNullAsTrue join
\* that is indexed on the side it returns (JoinIndex::_on_execute).
THEOREM IndexExact == JoinSpec => []IndexJoinExact
  BY JoinInvariant, ListedIsExact, PTL
=============================================================================
