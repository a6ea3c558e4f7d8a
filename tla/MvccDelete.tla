------------------------------- MODULE MvccDelete -------------------------------
(***************************************************************************)
(* The MVCC delete plugin (src/plugins/mvcc_delete_plugin.cpp) next to     *)
(* client transactions that read the same table through GetTable.          *)
(*                                                                         *)
(* The plugin has two threads.  The logical one moves the live rows of a   *)
(* mostly invalidated chunk to the end of the table in a transaction of    *)
(* its own (called Plugin) and gives the chunk a cleanup commit id; the    *)
(* physical one removes such a chunk once no registered snapshot is older. *)
(* Row operators and the commit protocol are atomic here: MvccTable and    *)
(* TransactionManager look inside them.                                    *)
(*                                                                         *)
(* The code lets clients and plugin race in ways that break the plugin's   *)
(* promises: a snapshot is read before it is registered; a chunk is        *)
(* cleaned up while it holds rows that are not in the plugin's snapshot; a *)
(* chunk is removed between the two loops of a GetTable.  The history      *)
(* variables tell who has raced, so that the properties can say what holds *)
(* for everybody else.                                                     *)
(***************************************************************************)
EXTENDS Integers, Sequences, FiniteSets, SequencesExt

CONSTANTS
  Tx,         \* client transactions
  Plugin,     \* the logical delete's transaction
  NoTid,      \* INVALID_TRANSACTION_ID
  ChunkSize,  \* target_chunk_size
  Dead, Live, \* invalidated and live rows that chunk 1 starts with
  MaxChunks,  \* bound: chunks of the table
  Hotness     \* DELETE_THRESHOLD_LAST_COMMIT

ASSUME TxAssumption == /\ Plugin \notin Tx /\ NoTid \notin Tx \cup {Plugin}
                       /\ IsFiniteSet(Tx) /\ Tx \cap (0..Live) = {}
ASSUME SizeAssumption == /\ {Dead, Live, Hotness} \subseteq Nat /\ ChunkSize \in Nat
                         /\ Dead + Live \in 1..ChunkSize /\ MaxChunks \in Nat \ {0}

Threads == Tx \cup {Plugin}
Chunks  == 1..MaxChunks
Keys    == Tx \cup 0..Live      \* a row's content: who inserted it, or loaded

\* Larger than every commit id: from 2 on, one is handed out to each client at most,
\* and one per chunk to the plugin.
MAX_COMMIT_ID == Cardinality(Tx) + MaxChunks + 2

VARIABLES
  rows,          \* [chunk, key, begin, end, tid] of each row, in table order
  chunkCount,    \* Table::chunk_count()
  removed,       \* chunks whose pointer is null
  cleanup,       \* Chunk::_cleanup_commit_id, 0 if not set
  queue,         \* _physical_delete_queue
  lastCommitId,
  snapshot,      \* 0 before the transaction begins
  active,        \* transactions registered with the manager
  pc,            \* of each client and of the logical delete loop
  chunk,         \* chunk a thread's loop is at
  count,         \* GetTable: chunk_count when it started
  included,      \* GetTable: chunks of the output so far
  found,         \* rows (by number) returned by Validate
  remover,       \* physical delete loop: "idle" or "remove"
  commitId,      \* TransactionContext::commit_id() of the plugin
  content,       \* history: keys in the table after each commit id
  prompt,        \* history: transactions registered while their snapshot was current
  moved          \* history: the snapshot whose rows the plugin has moved out of each chunk

tableVars  == <<rows, chunkCount, removed, cleanup>>
readVars   == <<chunk, count, included, found>>
pluginVars == <<queue, remover, commitId>>
historyVars == <<content, prompt, moved>>
vars == <<tableVars, pluginVars, lastCommitId, snapshot, active, pc, readVars, historyVars>>

RowIds     == DOMAIN rows
RowsIn(c)  == {r \in RowIds : rows[r].chunk = c}
NewRow(c, key, tid) == [chunk |-> c, key |-> key, begin |-> MAX_COMMIT_ID,
                        end |-> MAX_COMMIT_ID, tid |-> tid]

Init ==
  /\ rows = [r \in 1..Dead + Live |->
               [chunk |-> 1, key |-> IF r > Dead THEN r - Dead ELSE 0, begin |-> 0,
                end |-> IF r > Dead THEN MAX_COMMIT_ID ELSE 1, tid |-> NoTid]]
  /\ chunkCount = 1
  /\ removed = {}
  /\ cleanup = [c \in Chunks |-> 0]
  /\ queue = <<>>
  /\ lastCommitId = 1
  /\ snapshot = [t \in Threads |-> 0]
  /\ active = {}
  /\ pc = [t \in Threads |-> "idle"]
  /\ chunk = [t \in Threads |-> 1]
  /\ count = [t \in Threads |-> 0]
  /\ included = [t \in Threads |-> {}]
  /\ found = [t \in Threads |-> {}]
  /\ remover = "idle"
  /\ content = <<1..Live>>
  /\ prompt = {}
  /\ moved = [c \in Chunks |-> 0]
  /\ commitId = 0

Goto(t, from, to) == pc[t] = from /\ pc' = [pc EXCEPT ![t] = to]

----------------------------------------------------------------------------
(* The table and the transaction manager, as MvccTable and                 *)
(* TransactionManager establish them.                                      *)

Invalidated(c) == {r \in RowsIn(c) : rows[r].end # MAX_COMMIT_ID}

Visible(t, r) ==
  LET row == rows[r] IN
  snapshot[t] < row.end /\ ((snapshot[t] >= row.begin) # (row.tid = t))

\* Insert: rows go to the last chunk, and to new chunks when that one is full.
\* Chunk c of the first of n new rows, given the space left in the last one.
Space == ChunkSize - Cardinality(RowsIn(chunkCount))
ChunkOfNew(i) == IF i <= Space THEN chunkCount ELSE chunkCount + (i - Space - 1) \div ChunkSize + 1

InsertRows(t, keys) ==
  /\ keys # <<>> => ChunkOfNew(Len(keys)) <= MaxChunks
  /\ rows' = rows \o [i \in 1..Len(keys) |-> NewRow(ChunkOfNew(i), keys[i], t)]
  /\ chunkCount' = IF keys = <<>> THEN chunkCount ELSE ChunkOfNew(Len(keys))

\* Mutant: a deletion takes effect one commit late.
CommitRowLate(row, t, cid) ==
  IF row.tid # t \/ row.end # MAX_COMMIT_ID THEN row
  ELSE IF row.begin = MAX_COMMIT_ID THEN [row EXCEPT !.begin = cid, !.tid = NoTid]
  ELSE [row EXCEPT !.end = cid + 1]

\* commit() of t: its inserted rows get begin_cid, the others it holds end_cid.
CommitRow(row, t, cid) ==
  IF row.tid # t \/ row.end # MAX_COMMIT_ID THEN row
  ELSE IF row.begin = MAX_COMMIT_ID THEN [row EXCEPT !.begin = cid, !.tid = NoTid]
  ELSE [row EXCEPT !.end = cid]

RollbackRow(row, t) ==
  IF row.tid # t \/ row.end # MAX_COMMIT_ID THEN row
  ELSE IF row.begin = MAX_COMMIT_ID THEN [row EXCEPT !.begin = 0, !.end = 0, !.tid = NoTid]
  ELSE [row EXCEPT !.tid = NoTid]

KeysOf(S) == {rows[r].key : r \in S}

\* A row that was deleted keeps the id of the transaction that did it, so what t
\* holds now are rows that are still valid (Plugin names one transaction after another).
CommitRows(t) ==
  LET mine     == {r \in RowIds : rows[r].tid = t /\ rows[r].end = MAX_COMMIT_ID}
      inserted == {r \in mine : rows[r].begin = MAX_COMMIT_ID}
  IN
  /\ lastCommitId' = lastCommitId + 1
  /\ rows' = [r \in RowIds |-> CommitRow(rows[r], t, lastCommitId + 1)]
  /\ content' = Append(content,
       (content[lastCommitId] \ KeysOf(mine \ inserted)) \cup KeysOf(inserted))
  /\ UNCHANGED <<prompt, moved>>

RollbackRows(t) == rows' = [r \in RowIds |-> RollbackRow(rows[r], t)]

----------------------------------------------------------------------------
(* Begin and end of a transaction, client's or plugin's.                   *)

ReadSnapshot(t, from) ==
  /\ snapshot' = [snapshot EXCEPT ![t] = lastCommitId]
  /\ Goto(t, from, "register")
  /\ UNCHANGED <<tableVars, pluginVars, lastCommitId, active, readVars, historyVars>>

Register(t, to) ==
  /\ Goto(t, "register", to)
  /\ active' = active \cup {t}
  /\ prompt' = IF snapshot[t] = lastCommitId THEN prompt \cup {t} ELSE prompt
  /\ UNCHANGED <<tableVars, pluginVars, lastCommitId, snapshot, readVars, content, moved>>

Deregister(t, to) ==
  /\ Goto(t, "release", to)
  /\ active' = active \ {t}
  /\ found' = [found EXCEPT ![t] = {}]
  /\ UNCHANGED <<tableVars, pluginVars, lastCommitId, snapshot, chunk, count, included, historyVars>>

----------------------------------------------------------------------------
(* A client: an insert, or a scan that may delete a row it has found.      *)

Begin(t)       == ReadSnapshot(t, "idle")
RegisterTx(t)  == Register(t, "active")

Insert(t) ==
  /\ Goto(t, "active", "written")
  /\ InsertRows(t, <<t>>)
  /\ UNCHANGED <<removed, cleanup, pluginVars, lastCommitId, snapshot, active, readVars, historyVars>>

StartGetTable(t) ==
  /\ Goto(t, "active", "exclude")
  /\ count' = [count EXCEPT ![t] = chunkCount]
  /\ chunk' = [chunk EXCEPT ![t] = 1]
  /\ included' = [included EXCEPT ![t] = {}]
  /\ UNCHANGED <<tableVars, pluginVars, lastCommitId, snapshot, active, found, historyVars>>

\* Mutant: GetTable leaves out a cleaned up chunk whatever its snapshot.
ExcludeCleaned(t) ==
  LET c == chunk[t] IN
  /\ IF c < count[t]
     THEN chunk' = [chunk EXCEPT ![t] = c + 1] /\ Goto(t, "exclude", "exclude")
     ELSE chunk' = [chunk EXCEPT ![t] = 1] /\ Goto(t, "exclude", "include")
  /\ included' = [included EXCEPT ![t] = IF c \in removed \/ cleanup[c] # 0 THEN @ ELSE @ \cup {c}]
  /\ UNCHANGED <<tableVars, pluginVars, lastCommitId, snapshot, active, count, found, historyVars>>

\* The first loop of GetTable decides which chunks to leave out: removed ones
\* and those that are cleaned up in the transaction's snapshot.
ExcludeChunk(t) ==
  LET c == chunk[t] IN
  /\ IF c < count[t]
     THEN chunk' = [chunk EXCEPT ![t] = c + 1] /\ Goto(t, "exclude", "exclude")
     ELSE chunk' = [chunk EXCEPT ![t] = 1] /\ Goto(t, "exclude", "include")
  /\ included' = [included EXCEPT ![t] =
       IF c \in removed \/ (cleanup[c] # 0 /\ cleanup[c] <= snapshot[t]) THEN @ ELSE @ \cup {c}]
  /\ UNCHANGED <<tableVars, pluginVars, lastCommitId, snapshot, active, count, found, historyVars>>

\* The second loop fetches the others again and dereferences them.
IncludeChunk(t) ==
  LET c == chunk[t] IN
  /\ pc[t] = "include"
  /\ IF c \in included[t] /\ c \in removed
     THEN Goto(t, "include", "nullDereference") /\ UNCHANGED chunk
     ELSE IF c < count[t]
     THEN Goto(t, "include", "include") /\ chunk' = [chunk EXCEPT ![t] = c + 1]
     ELSE Goto(t, "include", "validate") /\ UNCHANGED chunk
  /\ UNCHANGED <<tableVars, pluginVars, lastCommitId, snapshot, active, count, included, found, historyVars>>

\* Validate on the output of GetTable, which keeps its chunks alive.
Validate(t) ==
  /\ Goto(t, "validate", "validated")
  /\ found' = [found EXCEPT ![t] =
       {r \in RowIds : rows[r].chunk \in included[t] /\ Visible(t, r)}]
  /\ UNCHANGED <<tableVars, pluginVars, lastCommitId, snapshot, active, chunk, count, included, historyVars>>

\* Delete of one of the rows; a row that is locked already is a conflict.
Delete(t) ==
  /\ \E r \in found[t] :
       IF rows[r].tid = NoTid
       THEN Goto(t, "validated", "written") /\ rows' = [rows EXCEPT ![r].tid = t]
       ELSE Goto(t, "validated", "release") /\ UNCHANGED rows
  /\ UNCHANGED <<chunkCount, removed, cleanup, pluginVars, lastCommitId, snapshot, active, readVars, historyVars>>

FinishRead(t) ==
  /\ Goto(t, "validated", "release")
  /\ UNCHANGED <<tableVars, pluginVars, lastCommitId, snapshot, active, readVars, historyVars>>

Commit(t) ==
  /\ Goto(t, "written", "release")
  /\ CommitRows(t)
  /\ UNCHANGED <<chunkCount, removed, cleanup, pluginVars, snapshot, active, readVars>>

Rollback(t) ==
  /\ Goto(t, "written", "release")
  /\ RollbackRows(t)
  /\ UNCHANGED <<chunkCount, removed, cleanup, pluginVars, lastCommitId, snapshot, active, readVars, historyVars>>

EndTx(t) == Deregister(t, "gone")

Client(t) == Begin(t) \/ RegisterTx(t) \/ Insert(t) \/ StartGetTable(t) \/ ExcludeChunk(t)
             \/ IncludeChunk(t) \/ Validate(t) \/ Delete(t) \/ FinishRead(t) \/ Commit(t)
             \/ Rollback(t) \/ EndTx(t)

----------------------------------------------------------------------------
(* _logical_delete_loop and _try_logical_delete.                           *)

StartLogicalLoop ==
  /\ Goto(Plugin, "idle", "scan")
  /\ chunk' = [chunk EXCEPT ![Plugin] = 1]
  /\ count' = [count EXCEPT ![Plugin] = chunkCount]
  /\ UNCHANGED <<tableVars, pluginVars, lastCommitId, snapshot, active, included, found, historyVars>>

\* Mostly invalidated, and not modified lately.  The last chunk is not scanned.
Candidate(c) ==
  /\ c \notin removed /\ cleanup[c] = 0
  /\ 10 * Cardinality(Invalidated(c)) >= 6 * Cardinality(RowsIn(c))
  /\ \A r \in Invalidated(c) : rows[r].end + Hotness <= lastCommitId

NextChunk ==
  LET c == chunk[Plugin] IN
  /\ IF c < count[Plugin]
     THEN ~Candidate(c) /\ Goto(Plugin, "scan", "scan") /\ chunk' = [chunk EXCEPT ![Plugin] = c + 1]
     ELSE Goto(Plugin, "scan", "idle") /\ UNCHANGED chunk
  /\ UNCHANGED <<tableVars, pluginVars, lastCommitId, snapshot, active, count, included, found, historyVars>>

BeginLogicalDelete ==
  /\ chunk[Plugin] < count[Plugin] /\ Candidate(chunk[Plugin])
  /\ ReadSnapshot(Plugin, "scan")

RegisterPlugin == Register(Plugin, "validate")

\* GetTable of this chunk alone, and Validate.
ValidateChunk ==
  /\ Goto(Plugin, "validate", "delete")
  /\ found' = [found EXCEPT ![Plugin] = {r \in RowsIn(chunk[Plugin]) : Visible(Plugin, r)}]
  /\ UNCHANGED <<tableVars, pluginVars, lastCommitId, snapshot, active, chunk, count, included, historyVars>>

\* Mutant: update->execute_failed() is not looked at.
DeleteFoundUnchecked ==
  /\ Goto(Plugin, "delete", "insert")
  /\ rows' = [r \in RowIds |-> IF r \in found[Plugin] /\ rows[r].tid = NoTid
                               THEN [rows[r] EXCEPT !.tid = Plugin] ELSE rows[r]]
  /\ UNCHANGED <<chunkCount, removed, cleanup, pluginVars, lastCommitId, snapshot, active, readVars, historyVars>>

\* Update, first part: Delete locks the rows until it meets one that is locked.
DeleteFound ==
  LET locked  == {r \in found[Plugin] : rows[r].tid # NoTid}
      reached == {r \in found[Plugin] : \A l \in locked : r < l}
  IN
  /\ Goto(Plugin, "delete", IF locked = {} THEN "insert" ELSE "conflict")
  /\ rows' = [r \in RowIds |-> IF r \in reached THEN [rows[r] EXCEPT !.tid = Plugin] ELSE rows[r]]
  /\ UNCHANGED <<chunkCount, removed, cleanup, pluginVars, lastCommitId, snapshot, active, readVars, historyVars>>

\* Rows in the order in which they are in the table.
InTableOrder(S) ==
  [i \in 1..Cardinality(S) |-> CHOOSE r \in S : Cardinality({q \in S : q <= r}) = i]

\* Update, second part: Insert of the same rows.
ReinsertFound ==
  LET order == InTableOrder(found[Plugin]) IN
  /\ Goto(Plugin, "insert", "commit")
  /\ InsertRows(Plugin, [i \in DOMAIN order |-> rows[order[i]].key])
  /\ UNCHANGED <<removed, cleanup, pluginVars, lastCommitId, snapshot, active, readVars, historyVars>>

RollbackLogicalDelete ==
  /\ Goto(Plugin, "conflict", "release")
  /\ RollbackRows(Plugin)
  /\ UNCHANGED <<chunkCount, removed, cleanup, pluginVars, lastCommitId, snapshot, active, readVars, historyVars>>

CommitLogicalDelete ==
  /\ Goto(Plugin, "commit", "cleanup")
  /\ CommitRows(Plugin)
  /\ commitId' = lastCommitId + 1
  /\ UNCHANGED <<chunkCount, removed, cleanup, queue, remover, snapshot, active, readVars>>

SetCleanupCommitId ==
  /\ Goto(Plugin, "cleanup", "push")
  /\ cleanup' = [cleanup EXCEPT ![chunk[Plugin]] = commitId]
  /\ moved' = [moved EXCEPT ![chunk[Plugin]] = snapshot[Plugin]]
  /\ UNCHANGED <<rows, chunkCount, removed, pluginVars, lastCommitId, snapshot, active, readVars, content, prompt>>

\* Needs the mutex that the physical loop holds while it works.
PushChunk ==
  /\ remover = "idle"
  /\ Goto(Plugin, "push", "release")
  /\ queue' = Append(queue, chunk[Plugin])
  /\ UNCHANGED <<tableVars, remover, commitId, lastCommitId, snapshot, active, readVars, historyVars>>

\* Mutant: the plugin holds on to its transaction context.
EndWithoutDeregistering ==
  /\ chunk' = [chunk EXCEPT ![Plugin] = @ + 1]
  /\ Goto(Plugin, "release", "scan")
  /\ found' = [found EXCEPT ![Plugin] = {}]
  /\ UNCHANGED <<tableVars, pluginVars, lastCommitId, snapshot, active, count, included, historyVars>>

\* The transaction context dies at the end of the loop's body, which goes on
\* with the next chunk; a chunk whose delete failed waits for the next round.
EndLogicalDelete ==
  /\ chunk' = [chunk EXCEPT ![Plugin] = @ + 1]
  /\ Goto(Plugin, "release", "scan")
  /\ active' = active \ {Plugin}
  /\ found' = [found EXCEPT ![Plugin] = {}]
  /\ UNCHANGED <<tableVars, pluginVars, lastCommitId, snapshot, count, included, historyVars>>

LogicalDelete ==
  StartLogicalLoop \/ NextChunk \/ BeginLogicalDelete \/ RegisterPlugin \/ ValidateChunk \/ DeleteFound
  \/ ReinsertFound \/ RollbackLogicalDelete \/ CommitLogicalDelete \/ SetCleanupCommitId \/ PushChunk
  \/ EndLogicalDelete

----------------------------------------------------------------------------
(* _physical_delete_loop: look at the front of the queue, then remove it.  *)

\* Mutant: the lowest active snapshot is not looked at.
IgnoreOldReaders ==
  /\ remover = "idle" /\ queue # <<>>
  /\ remover' = "remove"
  /\ UNCHANGED <<tableVars, queue, commitId, lastCommitId, snapshot, active, pc, readVars, historyVars>>

CheckOldReaders ==
  /\ remover = "idle" /\ queue # <<>>
  /\ \A t \in active : cleanup[Head(queue)] <= snapshot[t]
  /\ remover' = "remove"
  /\ UNCHANGED <<tableVars, queue, commitId, lastCommitId, snapshot, active, pc, readVars, historyVars>>

RemoveChunk ==
  /\ remover = "remove"
  /\ removed' = removed \cup {Head(queue)}
  /\ queue' = Tail(queue)
  /\ remover' = "idle"
  /\ UNCHANGED <<rows, chunkCount, cleanup, commitId, lastCommitId, snapshot, active, pc, readVars, historyVars>>

PhysicalDelete == CheckOldReaders \/ RemoveChunk

----------------------------------------------------------------------------
Next == (\E t \in Tx : Client(t)) \/ LogicalDelete \/ PhysicalDelete

Spec == Init /\ [][Next]_vars

\* Both loop threads run (PausableLoopThread), and a client that has begun a
\* transaction ends it; nobody has to begin one.
Fairness == /\ WF_vars(LogicalDelete) /\ WF_vars(PhysicalDelete)
            /\ \A t \in Tx : WF_vars(Client(t) /\ pc[t] # "idle")

FairSpec == Spec /\ Fairness

----------------------------------------------------------------------------
(* Properties.                                                             *)

RowType == [chunk : Chunks, key : Keys, begin : 0..MAX_COMMIT_ID, end : 0..MAX_COMMIT_ID,
            tid : Threads \cup {NoTid}]

TypeOK ==
  /\ rows \in Seq(RowType)
  /\ chunkCount \in Chunks /\ removed \subseteq 1..chunkCount
  /\ queue \in Seq(Chunks) /\ ToSet(queue) \cap removed = {}
  /\ cleanup \in [Chunks -> 0..lastCommitId]
  /\ Len(content) = lastCommitId /\ prompt \subseteq Threads
  /\ \A t \in Threads : snapshot[t] \in 0..lastCommitId /\ found[t] \subseteq RowIds

\* Rows that were still valid in chunk c when it was given its cleanup commit id.
LeftBehind(c) == {r \in RowsIn(c) : cleanup[c] # 0 /\ rows[r].end > cleanup[c]}

\* The scan of t returns the table as of its snapshot, each row exactly once, given
\* that the plugin has left no row behind (CleanedChunkFullyInvalidated).
ScanIntact(t) ==
  pc[t] = "validated" /\ (\A c \in Chunks : LeftBehind(c) = {}) =>
    /\ KeysOf(found[t]) = content[snapshot[t]]
    /\ Cardinality(found[t]) = Cardinality(content[snapshot[t]])

\* A row is visible at its original position or at the new one
\* (mvcc_delete_plugin.hpp:22), whatever part of a scan the plugin's steps fall into.
SnapshotIntact == \A t \in Tx : ScanIntact(t)

\* It is if the snapshot was still current when the transaction was registered.
PromptSnapshotIntact == \A t \in prompt \ {Plugin} : ScanIntact(t)

\* Whoever races, a scan returns no row that is not in its snapshot, and none twice:
\* what a race can cost is rows, or the process.
NoStrayRow ==
  \A t \in Tx : pc[t] = "validated" =>
    /\ KeysOf(found[t]) \subseteq content[snapshot[t]]
    /\ \A r, s \in found[t] : rows[r].key = rows[s].key => r = s

\* A chunk that has a cleanup commit id holds no row that is still valid
\* (mvcc_delete_plugin.hpp:25, table.cpp:220), so that leaving it out, and
\* removing it, loses nothing.
CleanedChunkFullyInvalidated ==
  \A c \in Chunks : cleanup[c] # 0 => RowsIn(c) = Invalidated(c)

\* At most rows that the plugin's snapshot did not contain are left behind: an update
\* that meets a row under deletion does not mark the chunk.
OnlyNewRowsLeftBehind ==
  \A c \in Chunks : \A r \in LeftBehind(c) : rows[r].begin > moved[c]

\* GetTable never dereferences the null pointer of a removed chunk.
GetTableFindsChunk == \A t \in Tx : pc[t] # "nullDereference"

\* The variables have their types, and no scan returns a stray row (mvcc_delete_plugin.cpp,
\* validate.cpp).
TableConsistent == TypeOK /\ NoStrayRow

\* A chunk that has been cleaned up is eventually removed, unless a client has ended
\* the process.
CleanedChunkIsRemoved ==
  \A c \in Chunks : cleanup[c] # 0 ~> c \in removed \/ \E t \in Tx : pc[t] = "nullDereference"
===================================================================================
