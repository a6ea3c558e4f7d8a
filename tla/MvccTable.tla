-------------------------------- MODULE MvccTable --------------------------------
(***************************************************************************)
(* The rows of one table under MVCC: the Insert, Delete and Validate       *)
(* operators of Hyrise (src/lib/operators) on the begin/end commit ids and *)
(* the transaction ids of src/lib/storage/mvcc_data.cpp.  Update is a      *)
(* Delete followed by an Insert and adds no row state of its own.          *)
(*                                                                         *)
(* Rows are numbered in the order in which Insert allocates them; a chunk  *)
(* holds ChunkSize of them.  Chunk 1 has been loaded and finalized before  *)
(* any transaction runs (its rows have begin_cid 0), the later ones are    *)
(* mutable.  Every read and write of an MVCC field is a step of its own.   *)
(* Commit ids and the order of commits come from CommitOrder, which        *)
(* TransactionManager is checked to implement.                             *)
(***************************************************************************)
EXTENDS Integers, Sequences, FiniteSets, SequencesExt

CONSTANTS
  Tx,         \* transactions; each is driven by one thread
  NoTid,      \* INVALID_TRANSACTION_ID
  ChunkSize,  \* target_chunk_size, and the number of loaded rows
  MaxRows,    \* bound: rows of the table
  MaxOps,     \* bound: read/write operators per transaction
  AnyOrder    \* whether an input of Delete may list rows out of table order

ASSUME TidAssumption == NoTid \notin Tx /\ IsFiniteSet(Tx)
ASSUME SizeAssumption == /\ ChunkSize \in Nat \ {0}
                         /\ MaxRows \in Nat /\ MaxRows >= ChunkSize
                         /\ MaxOps \in Nat
ASSUME OrderAssumption == AnyOrder \in BOOLEAN

Rows       == 1..MaxRows
Loaded     == 1..ChunkSize
ChunkOf(r) == (r - 1) \div ChunkSize + 1
Chunks     == 1..ChunkOf(MaxRows)

\* Larger than every commit id: one is handed out per transaction, from 2 on.
MAX_COMMIT_ID == Cardinality(Tx) + 2

VARIABLES
  tid, begin, end,  \* MvccData of each row
  size,             \* rows allocated so far
  invalid,          \* Chunk::_invalid_row_count
  phase,            \* TransactionContext::_phase
  ops,              \* TransactionContext::_read_write_operators
  pc,               \* where t's thread is
  op, pos,          \* operator and row position it works on
  limit,            \* Validate: last chunk of the scan, last row of its chunk
  rowTid, rowBegin, \* Validate: fields of row pos read so far
  seen              \* Validate: rows found visible

VARIABLES issued, ticket, ready, horizon, view, acked   \* of CommitOrder

rowVars     == <<tid, begin, end>>
tableVars   == <<rowVars, size, invalid>>
scanVars    == <<limit, rowTid, rowBegin, seen>>
threadVars  == <<pc, op, pos>>
managerVars == <<issued, ticket, ready, horizon, view, acked>>
vars        == <<tableVars, phase, ops, threadVars, scanVars, managerVars>>

Manager == INSTANCE CommitOrder

Operators == [type : {"Insert", "Delete"}, rows : Seq(Rows),
              state : {"Pending", "Executed", "Conflicted", "Committed", "RolledBack"}]

TypeOK ==
  /\ tid \in [Rows -> Tx \cup {NoTid}]
  /\ begin \in [Rows -> 0..MAX_COMMIT_ID] /\ end \in [Rows -> 0..MAX_COMMIT_ID]
  /\ size \in 0..MaxRows
  /\ invalid \in [Chunks -> 0..ChunkSize]
  /\ ops \in [Tx -> Seq(Operators)]
  /\ \A t \in Tx : seen[t] \subseteq 1..size /\ pos[t] \in 1..MaxRows + 1

Init ==
  /\ tid = [r \in Rows |-> NoTid]
  /\ begin = [r \in Rows |-> IF r \in Loaded THEN 0 ELSE MAX_COMMIT_ID]
  /\ end = [r \in Rows |-> MAX_COMMIT_ID]
  /\ size = ChunkSize
  /\ invalid = [c \in Chunks |-> 0]
  /\ phase = [t \in Tx |-> "Active"]
  /\ ops = [t \in Tx |-> <<>>]
  /\ pc = [t \in Tx |-> "idle"]
  /\ op = [t \in Tx |-> 1] /\ pos = [t \in Tx |-> 1]
  /\ limit = [t \in Tx |-> [chunk |-> 1, row |-> 0]]
  /\ rowTid = [t \in Tx |-> NoTid] /\ rowBegin = [t \in Tx |-> 0]
  /\ seen = [t \in Tx |-> {}]
  /\ Manager!Init

At(t, label)   == pc[t] = label
Goto(t, label) == pc' = [pc EXCEPT ![t] = label]

Begin(t) ==
  /\ At(t, "idle") /\ Goto(t, "active")
  /\ Manager!Begin(t)
  /\ UNCHANGED <<tableVars, phase, ops, op, pos, scanVars>>

----------------------------------------------------------------------------
(* GetTable and Validate.                                                  *)

\* GetTable fixes the list of chunks that is scanned.
StartValidate(t) ==
  /\ At(t, "active") /\ Goto(t, "chunk")
  /\ pos' = [pos EXCEPT ![t] = 1]
  /\ limit' = [limit EXCEPT ![t].chunk = ChunkOf(size)]
  /\ seen' = [seen EXCEPT ![t] = {}]
  /\ UNCHANGED <<tableVars, phase, ops, op, rowTid, rowBegin, managerVars>>

HasDelete(t) == \E i \in DOMAIN ops[t] : ops[t][i].type = "Delete"

\* _is_entire_chunk_visible; only the loaded chunk has a max_begin_cid, 0.
EntirelyVisible(t, c) == ~HasDelete(t) /\ c = 1 /\ invalid[c] = 0

ChunkEnd(c) == IF c * ChunkSize < size THEN c * ChunkSize ELSE size

\* Where the scan of t goes after chunk c.
AfterChunk(t, c) == IF c < limit[t].chunk THEN "chunk" ELSE "validated"

EnterChunk(t) ==
  LET c == ChunkOf(pos[t]) IN
  /\ At(t, "chunk")
  /\ IF EntirelyVisible(t, c)
     THEN /\ seen' = [seen EXCEPT ![t] = @ \cup pos[t]..ChunkEnd(c)]
          /\ pos' = [pos EXCEPT ![t] = ChunkEnd(c) + 1]
          /\ Goto(t, AfterChunk(t, c))
          /\ UNCHANGED limit
     ELSE /\ limit' = [limit EXCEPT ![t].row = ChunkEnd(c)]
          /\ Goto(t, "tid")
          /\ UNCHANGED <<pos, seen>>
  /\ UNCHANGED <<tableVars, phase, ops, op, rowTid, rowBegin, managerVars>>

ReadTid(t) ==
  /\ At(t, "tid") /\ Goto(t, "begin")
  /\ rowTid' = [rowTid EXCEPT ![t] = tid[pos[t]]]
  /\ UNCHANGED <<tableVars, phase, ops, op, pos, limit, rowBegin, seen, managerVars>>

ReadBegin(t) ==
  /\ At(t, "begin") /\ Goto(t, "end")
  /\ rowBegin' = [rowBegin EXCEPT ![t] = begin[pos[t]]]
  /\ UNCHANGED <<tableVars, phase, ops, op, pos, limit, rowTid, seen, managerVars>>

\* Mutant: or instead of exclusive or.
IsRowVisibleOr(t, snapshot, rowtid, beginCid, endCid) ==
  snapshot < endCid /\ (snapshot >= beginCid \/ rowtid = t)

\* Validate::is_row_visible.
IsRowVisible(t, snapshot, rowtid, beginCid, endCid) ==
  snapshot < endCid /\ ((snapshot >= beginCid) # (rowtid = t))

ReadEnd(t) ==
  LET r == pos[t] IN
  /\ At(t, "end")
  /\ seen' = [seen EXCEPT ![t] =
                IF IsRowVisible(t, view[t], rowTid[t], rowBegin[t], end[r]) THEN @ \cup {r} ELSE @]
  /\ pos' = [pos EXCEPT ![t] = r + 1]
  /\ Goto(t, IF r < limit[t].row THEN "tid" ELSE AfterChunk(t, ChunkOf(r)))
  /\ rowTid' = [rowTid EXCEPT ![t] = NoTid] /\ rowBegin' = [rowBegin EXCEPT ![t] = 0]
  /\ UNCHANGED <<tableVars, phase, ops, op, limit, managerVars>>

\* The statement was a SELECT: its result goes to the client.
ReturnRows(t) ==
  /\ At(t, "validated") /\ Goto(t, "active")
  /\ seen' = [seen EXCEPT ![t] = {}]
  /\ UNCHANGED <<tableVars, phase, ops, op, pos, limit, rowTid, rowBegin, managerVars>>

----------------------------------------------------------------------------
(* Delete.                                                                 *)

\* The rows reach Delete in table order, unless Validate ran in parallel jobs or
\* a join or sort came in between.
InputOrders(S) ==
  {input \in SetToSeqs(S) : AnyOrder \/ \A i, j \in DOMAIN input : i < j => input[i] < input[j]}

StartDelete(t) ==
  /\ At(t, "validated") /\ Goto(t, "delete")
  /\ Len(ops[t]) < MaxOps
  /\ \E S \in (SUBSET seen[t]) \ {{}} : \E input \in InputOrders(S) :
       ops' = [ops EXCEPT ![t] = Append(@, [type |-> "Delete", rows |-> input, state |-> "Pending"])]
  /\ op' = [op EXCEPT ![t] = Len(ops[t]) + 1]
  /\ pos' = [pos EXCEPT ![t] = 1]
  /\ seen' = [seen EXCEPT ![t] = {}]
  /\ UNCHANGED <<tableVars, phase, limit, rowTid, rowBegin, managerVars>>

Current(t)   == ops[t][op[t]]
CurrentRow(t) == Current(t).rows[pos[t]]

SetState(t, state) == ops' = [ops EXCEPT ![t][op[t]].state = state]

\* One row of Delete::_on_execute: lock it, or forget it if it is an own insert,
\* or fail.  The failed operator makes OperatorTask roll the transaction back.
DeleteRow(t) ==
  LET r == CurrentRow(t) IN
  /\ At(t, "delete")
  /\ IF tid[r] \in {NoTid, t}
     THEN /\ tid' = [tid EXCEPT ![r] = IF @ = t THEN NoTid ELSE t]
          /\ pos' = [pos EXCEPT ![t] = @ + 1]
          /\ IF pos[t] = Len(Current(t).rows)
             THEN Goto(t, "active") /\ SetState(t, "Executed")
             ELSE UNCHANGED <<pc, ops>>
          /\ UNCHANGED <<phase, op>>
     ELSE /\ SetState(t, "Conflicted")
          /\ phase' = [phase EXCEPT ![t] = "Conflicted"]
          /\ Goto(t, "rollback")
          /\ op' = [op EXCEPT ![t] = 1] /\ pos' = [pos EXCEPT ![t] = 1]
          /\ UNCHANGED tid
  /\ UNCHANGED <<begin, end, size, invalid, scanVars, managerVars>>

----------------------------------------------------------------------------
(* Insert.                                                                 *)

\* Rows are allocated under the append mutex, and the resize that publishes them
\* comes after their tids are set: one step for the other threads.
Insert(t) ==
  /\ At(t, "active")
  /\ Len(ops[t]) < MaxOps
  /\ \E n \in 1..(MaxRows - size) :
       /\ ops' = [ops EXCEPT ![t] = Append(@, [type |-> "Insert", state |-> "Executed",
                                              rows |-> [i \in 1..n |-> size + i]])]
       /\ tid' = [r \in Rows |-> IF r \in size + 1..size + n THEN t ELSE tid[r]]
       /\ size' = size + n
  /\ UNCHANGED <<begin, end, invalid, phase, threadVars, scanVars, managerVars>>

----------------------------------------------------------------------------
(* commit(): a commit id, commit_records of each operator, then pending.   *)

CommitReadOnly(t) ==
  /\ At(t, "active") /\ Goto(t, "gone")
  /\ ops[t] = <<>>
  /\ phase' = [phase EXCEPT ![t] = "Committed"]
  /\ UNCHANGED <<tableVars, ops, op, pos, scanVars, managerVars>>

StartCommit(t) ==
  /\ At(t, "active") /\ Goto(t, "commit")
  /\ ops[t] # <<>>
  /\ phase' = [phase EXCEPT ![t] = "Committing"]
  /\ op' = [op EXCEPT ![t] = 1] /\ pos' = [pos EXCEPT ![t] = 1]
  /\ Manager!TakeTicket(t)
  /\ UNCHANGED <<tableVars, ops, scanVars>>

\* After the last field of a row: the next row, or the next operator, or label.
NextRow(t, state, row, label) ==
  IF pos[t] < Len(Current(t).rows)
  THEN /\ pos' = [pos EXCEPT ![t] = @ + 1]
       /\ Goto(t, row)
       /\ UNCHANGED <<ops, op>>
  ELSE /\ pos' = [pos EXCEPT ![t] = 1]
       /\ op' = [op EXCEPT ![t] = @ + 1]
       /\ SetState(t, state)
       /\ Goto(t, IF op[t] < Len(ops[t]) THEN row ELSE label)

CommitInsertBegin(t) ==
  /\ At(t, "commit") /\ Current(t).type = "Insert" /\ Goto(t, "commitTid")
  /\ begin' = [begin EXCEPT ![CurrentRow(t)] = ticket[t]]
  /\ UNCHANGED <<tid, end, size, invalid, phase, ops, op, pos, scanVars, managerVars>>

CommitInsertTid(t) ==
  /\ At(t, "commitTid")
  /\ tid' = [tid EXCEPT ![CurrentRow(t)] = NoTid]
  /\ NextRow(t, "Committed", "commit", "pending")
  /\ UNCHANGED <<begin, end, size, invalid, phase, scanVars, managerVars>>

CommitDeleteEnd(t) ==
  /\ At(t, "commit") /\ Current(t).type = "Delete" /\ Goto(t, "commitInvalid")
  /\ end' = [end EXCEPT ![CurrentRow(t)] = ticket[t]]
  /\ UNCHANGED <<tid, begin, size, invalid, phase, ops, op, pos, scanVars, managerVars>>

\* Mutant: a committed deletion releases the row's lock.
CommitDeleteUnlocks(t) ==
  /\ At(t, "commitInvalid")
  /\ invalid' = [invalid EXCEPT ![ChunkOf(CurrentRow(t))] = @ + 1]
  /\ tid' = [tid EXCEPT ![CurrentRow(t)] = NoTid]
  /\ NextRow(t, "Committed", "commit", "pending")
  /\ UNCHANGED <<begin, end, size, phase, scanVars, managerVars>>

\* The row stays locked, so that later deletes of it fail.
CommitDeleteInvalid(t) ==
  /\ At(t, "commitInvalid")
  /\ invalid' = [invalid EXCEPT ![ChunkOf(CurrentRow(t))] = @ + 1]
  /\ NextRow(t, "Committed", "commit", "pending")
  /\ UNCHANGED <<rowVars, size, phase, scanVars, managerVars>>

MakePending(t) ==
  /\ At(t, "pending") /\ Goto(t, "await")
  /\ Manager!MakeReady(t)
  /\ UNCHANGED <<tableVars, phase, ops, op, pos, scanVars>>

Advance ==
  /\ Manager!Advance
  /\ UNCHANGED <<tableVars, phase, ops, threadVars, scanVars>>

Acknowledge(t) ==
  /\ At(t, "await") /\ Goto(t, "gone")
  /\ phase' = [phase EXCEPT ![t] = "Committed"]
  /\ Manager!Acknowledge(t)
  /\ UNCHANGED <<tableVars, ops, op, pos, scanVars>>

----------------------------------------------------------------------------
(* rollback(): rollback_records of each operator, in the same order.       *)

RollbackByUser(t) ==
  /\ At(t, "active") /\ Goto(t, IF ops[t] = <<>> THEN "rolledBack" ELSE "rollback")
  /\ op' = [op EXCEPT ![t] = 1] /\ pos' = [pos EXCEPT ![t] = 1]
  /\ UNCHANGED <<tableVars, phase, ops, scanVars, managerVars>>

\* Mutant: the invalid rows are not counted.
RollbackInsertEndUncounted(t) ==
  /\ At(t, "rollback") /\ Current(t).type = "Insert"
  /\ end' = [end EXCEPT ![CurrentRow(t)] = 0]
  /\ IF pos[t] < Len(Current(t).rows)
     THEN pos' = [pos EXCEPT ![t] = @ + 1] /\ UNCHANGED pc
     ELSE pos' = [pos EXCEPT ![t] = 1] /\ Goto(t, "rollbackBegin")
  /\ UNCHANGED <<tid, begin, size, invalid, phase, ops, op, scanVars, managerVars>>

\* Insert::_on_rollback_records, first loop; it ends before the second begins.
RollbackInsertEnd(t) ==
  /\ At(t, "rollback") /\ Current(t).type = "Insert"
  /\ end' = [end EXCEPT ![CurrentRow(t)] = 0]
  /\ invalid' = [invalid EXCEPT ![ChunkOf(CurrentRow(t))] = @ + 1]
  /\ IF pos[t] < Len(Current(t).rows)
     THEN pos' = [pos EXCEPT ![t] = @ + 1] /\ UNCHANGED pc
     ELSE pos' = [pos EXCEPT ![t] = 1] /\ Goto(t, "rollbackBegin")
  /\ UNCHANGED <<tid, begin, size, phase, ops, op, scanVars, managerVars>>

RollbackInsertBegin(t) ==
  /\ At(t, "rollbackBegin") /\ Goto(t, "rollbackTid")
  /\ begin' = [begin EXCEPT ![CurrentRow(t)] = 0]
  /\ UNCHANGED <<tid, end, size, invalid, phase, ops, op, pos, scanVars, managerVars>>

RollbackInsertTid(t) ==
  /\ At(t, "rollbackTid")
  /\ tid' = [tid EXCEPT ![CurrentRow(t)] = NoTid]
  /\ IF pos[t] < Len(Current(t).rows)
     THEN pos' = [pos EXCEPT ![t] = @ + 1] /\ Goto(t, "rollbackBegin") /\ UNCHANGED <<ops, op>>
     ELSE NextRow(t, "RolledBack", "rollback", "rolledBack")
  /\ UNCHANGED <<begin, end, size, invalid, phase, scanVars, managerVars>>

\* Mutant: the operator's last row is forgotten.
RollbackDeleteAllButLast(t) ==
  /\ At(t, "rollback") /\ Current(t).type = "Delete"
  /\ tid' = [tid EXCEPT ![CurrentRow(t)] =
               IF @ = t /\ pos[t] < Len(Current(t).rows) THEN NoTid ELSE @]
  /\ NextRow(t, "RolledBack", "rollback", "rolledBack")
  /\ UNCHANGED <<begin, end, size, invalid, phase, scanVars, managerVars>>

\* Delete::_on_rollback_records gives up at the first row it does not hold.
RollbackDeleteRow(t) ==
  LET r == CurrentRow(t) IN
  /\ At(t, "rollback") /\ Current(t).type = "Delete"
  /\ IF tid[r] = t
     THEN /\ tid' = [tid EXCEPT ![r] = NoTid]
          /\ NextRow(t, "RolledBack", "rollback", "rolledBack")
     ELSE /\ pos' = [pos EXCEPT ![t] = 1] /\ op' = [op EXCEPT ![t] = @ + 1]
          /\ SetState(t, "RolledBack")
          /\ Goto(t, IF op[t] < Len(ops[t]) THEN "rollback" ELSE "rolledBack")
          /\ UNCHANGED tid
  /\ UNCHANGED <<begin, end, size, invalid, phase, scanVars, managerVars>>

MarkAsRolledBack(t) ==
  /\ At(t, "rolledBack") /\ Goto(t, "gone")
  /\ phase' = [phase EXCEPT ![t] =
                 IF @ = "Conflicted" THEN "RolledBackAfterConflict" ELSE "RolledBackByUser"]
  /\ UNCHANGED <<tableVars, ops, op, pos, scanVars, managerVars>>

----------------------------------------------------------------------------
Validate(t) == StartValidate(t) \/ EnterChunk(t) \/ ReadTid(t) \/ ReadBegin(t) \/ ReadEnd(t)
               \/ ReturnRows(t)
Delete(t)   == StartDelete(t) \/ DeleteRow(t)
Commit(t)   == CommitReadOnly(t) \/ StartCommit(t) \/ CommitInsertBegin(t) \/ CommitInsertTid(t)
               \/ CommitDeleteEnd(t) \/ CommitDeleteInvalid(t) \/ MakePending(t) \/ Acknowledge(t)
Rollback(t) == RollbackByUser(t) \/ RollbackInsertEnd(t) \/ RollbackInsertBegin(t)
               \/ RollbackInsertTid(t) \/ RollbackDeleteRow(t) \/ MarkAsRolledBack(t)

\* The end of the workload.
Finished == (\A t \in Tx : pc[t] = "gone") /\ UNCHANGED vars

Next == (\E t \in Tx : Begin(t) \/ Validate(t) \/ Delete(t) \/ Insert(t) \/ Commit(t) \/ Rollback(t))
        \/ Advance \/ Finished

Spec == Init /\ [][Next]_vars

----------------------------------------------------------------------------
(* Properties.                                                             *)

RowsOf(t, type) == UNION {ToSet(ops[t][i].rows) : i \in {j \in DOMAIN ops[t] :
                            ops[t][j].type = type /\ ops[t][j].state \in {"Executed", "Committed"}}}

Inserted(t) == RowsOf(t, "Insert")
Deleted(t)  == RowsOf(t, "Delete")

\* Transactions that the snapshot of t covers.
Before(t) == {u \in Tx : ticket[u] # 0 /\ ticket[u] <= view[t]}

\* What t is promised to see: the loaded rows and those inserted by transactions
\* committed before it began, less those they deleted, with its own changes.
SnapshotOf(t) ==
  LET committed == UNION {Inserted(u) : u \in Before(t)}
      deleted   == UNION {Deleted(u) : u \in Before(t)}
  IN  (((Loaded \cup committed) \ deleted) \cup Inserted(t)) \ Deleted(t)

\* Validate returns exactly the transaction's snapshot, although it reads the
\* three MVCC fields of each row one after the other while other transactions
\* insert, delete, commit and roll back, and may skip whole chunks.
ValidateReturnsSnapshot == \A t \in Tx : At(t, "validated") => seen[t] = SnapshotOf(t)

\* No lost update: two transactions that both get as far as committing never
\* deleted (or updated) the same row; the second one ran into the row lock.
NoLostUpdate ==
  \A t, u \in Tx : t # u /\ {phase[t], phase[u]} \subseteq {"Committing", "Committed"} =>
                     Deleted(t) \cap Deleted(u) = {}

\* A row lock is held by a transaction that still runs, or by the one that
\* committed the deletion: a rollback unlocks everything it locked
\* (delete.cpp:122), else nobody could ever delete the row again.
RollbackReleasesLocks ==
  \A r \in Rows : tid[r] # NoTid =>
    \/ phase[tid[r]] \in {"Active", "Conflicted", "Committing"}
    \/ phase[tid[r]] = "Committed" /\ end[r] = ticket[tid[r]]

\* Between commits and rollbacks, the invalid row count of a chunk, which
\* Validate's shortcut and the delete plugin rely on, is the number of its rows
\* with an end_cid.
InvalidRowCountExact ==
  (\A t \in Tx : At(t, "active") \/ At(t, "gone")) =>
    \A c \in Chunks : invalid[c] =
      Cardinality({r \in Rows : ChunkOf(r) = c /\ end[r] # MAX_COMMIT_ID})

\* The variables have their types and the counts are exact (mvcc_data.hpp, chunk.cpp).
RowsConsistent == TypeOK /\ InvalidRowCountExact
=================================================================================
