----------------------------- MODULE MvccTableProofs -----------------------------
(***************************************************************************)
(* MvccTable is correct for any finite set of transactions, any size of    *)
(* chunks and tables, and any number of operators.  The invariant speaks   *)
(* of slots: the pairs <<operator, position>> of a transaction, each with  *)
(* one row.  What the threads have done to a row follows from which slots  *)
(* they have passed.                                                       *)
(***************************************************************************)
EXTENDS MvccTable, FiniteSetTheorems, TLAPS

Slots(t, type) ==
  UNION {{<<i, j>> : j \in DOMAIN ops[t][i].rows} : i \in {k \in DOMAIN ops[t] : ops[t][k].type = type}}
InsertSlots(t) == Slots(t, "Insert")
DeleteSlots(t) == Slots(t, "Delete")
Row(t, s)      == ops[t][s[1]].rows[s[2]]
Cur(t)         == <<op[t], pos[t]>>

AllSlots(t)    == InsertSlots(t) \cup DeleteSlots(t)

InsertedBy(t, r) == \E s \in InsertSlots(t) : Row(t, s) = r
DeletedBy(t, r)  == \E s \in DeleteSlots(t) : Row(t, s) = r

Scanning    == {"chunk", "tid", "begin", "end", "validated"}
RunningPcs  == Scanning \cup {"active", "delete"}
CommitPcs   == {"commit", "commitTid", "commitInvalid"}
RollbackPcs == {"rollback", "rollbackBegin", "rollbackTid"}
Pcs         == RunningPcs \cup CommitPcs \cup RollbackPcs \cup {"idle", "pending", "await", "rolledBack", "gone"}
Phases      == {"Active", "Conflicted", "Committing", "Committed", "RolledBackByUser", "RolledBackAfterConflict"}

Running(t) == pc[t] \in RunningPcs
Rolls(t)   == \/ pc[t] \in RollbackPcs \cup {"rolledBack"}
              \/ pc[t] = "gone" /\ phase[t] \in {"RolledBackByUser", "RolledBackAfterConflict"}

\* The slots that t has left behind in the pass over its operators.
Passed(t, s)  == s[1] < op[t] \/ (s[1] = op[t] /\ s[2] < pos[t])
SecondLoop(t) == pc[t] \in {"rollbackBegin", "rollbackTid"}

\* What has been done in slot s: the row of a Delete locked; begin_cid, end_cid set by the
\* commit; end_cid, tid reset by the rollback of an Insert.
Executed(t, s)     == ~(pc[t] = "delete" /\ s[1] = op[t] /\ pos[t] <= s[2])
BeginWritten(t, s) == Passed(t, s) \/ (pc[t] = "commitTid" /\ s = Cur(t))
EndWritten(t, s)   == Passed(t, s) \/ (pc[t] = "commitInvalid" /\ s = Cur(t))
EndReset(t, s)     == Passed(t, s) \/ (SecondLoop(t) /\ s[1] = op[t])
TidReset(t, s)     == s[1] < op[t] \/ (SecondLoop(t) /\ s[1] = op[t] /\ s[2] < pos[t])

Stamped(t, s) == ticket[t] # 0 /\ BeginWritten(t, s)
Ended(t, s)   == ticket[t] # 0 /\ EndWritten(t, s)
Reset(t, s)   == Rolls(t) /\ EndReset(t, s)

RowRanges ==
  /\ tid \in [Rows -> Tx \cup {NoTid}]
  /\ begin \in [Rows -> 0..MAX_COMMIT_ID] /\ end \in [Rows -> 0..MAX_COMMIT_ID]
  /\ size \in ChunkSize..MaxRows /\ invalid \in [Chunks -> Nat]

ThreadRanges ==
  /\ phase \in [Tx -> Phases] /\ pc \in [Tx -> Pcs]
  /\ ops \in [Tx -> Seq(Operators)] /\ op \in [Tx -> Nat \ {0}] /\ pos \in [Tx -> 1..MaxRows + 1]

ScanRanges ==
  /\ limit \in [Tx -> [chunk : Nat, row : Nat]]
  /\ rowTid \in [Tx -> Tx \cup {NoTid}] /\ rowBegin \in [Tx -> Nat]
  /\ seen \in [Tx -> SUBSET Rows]

ManagerRanges ==
  /\ issued \in Nat /\ horizon \in Nat
  /\ ticket \in [Tx -> Nat] /\ view \in [Tx -> Nat] /\ ready \subseteq Tx

Ranges == RowRanges /\ ThreadRanges /\ ScanRanges /\ ManagerRanges

\* Where a thread is among its operators.
Place(t) ==
  /\ \A i \in DOMAIN ops[t] : Len(ops[t][i].rows) \in 1..MaxRows
  /\ pc[t] = "idle" => ops[t] = <<>>
  /\ pc[t] = "delete" => op[t] = Len(ops[t]) /\ Cur(t) \in DeleteSlots(t)
  /\ pc[t] \in CommitPcs \cup RollbackPcs => Cur(t) \in AllSlots(t)
  /\ pc[t] = "commitTid" \/ SecondLoop(t) => Cur(t) \in InsertSlots(t)
  /\ pc[t] = "commitInvalid" => Cur(t) \in DeleteSlots(t)
  /\ pc[t] \in {"pending", "await"} => ops[t] # <<>>
  /\ pc[t] \in {"pending", "await", "rolledBack"} => op[t] > Len(ops[t])
  /\ pc[t] = "gone" => ops[t] = <<>> \/ op[t] > Len(ops[t])

\* What this says of its phase, its commit id and the states of its operators.
Standing(t) ==
  /\ pc[t] \in RunningPcs \cup {"idle"} => phase[t] = "Active"
  /\ pc[t] \in CommitPcs \cup {"pending", "await"} => phase[t] = "Committing"
  /\ pc[t] \in RollbackPcs \cup {"rolledBack"} => phase[t] \in {"Active", "Conflicted"}
  /\ pc[t] = "gone" => phase[t] \in {"Committed", "RolledBackByUser", "RolledBackAfterConflict"}
  /\ ticket[t] # 0 <=> phase[t] \in {"Committing", "Committed"} /\ ops[t] # <<>>
  /\ t \in ready <=> pc[t] = "await" \/ (pc[t] = "gone" /\ ticket[t] # 0)
  /\ view[t] = 0 <=> pc[t] = "idle"
  /\ Running(t) => \A i \in DOMAIN ops[t] : ops[t][i].state = "Executed" \/ (pc[t] = "delete" /\ i = op[t])
  /\ ticket[t] # 0 => \A i \in DOMAIN ops[t] : ops[t][i].state \in {"Executed", "Committed"}

Positions == \A t \in Tx : Place(t) /\ Standing(t)

\* Commit ids and snapshots.
CommitIds ==
  /\ 1 <= horizon /\ horizon <= issued
  /\ issued = 1 + Cardinality({t \in Tx : ticket[t] # 0})
  /\ \A t \in Tx : /\ view[t] <= horizon
                   /\ ticket[t] # 0 => 1 < ticket[t] /\ ticket[t] <= issued /\ view[t] < ticket[t]
                   /\ ticket[t] # 0 /\ ticket[t] <= horizon => t \in ready
  /\ \A t, u \in Tx : ticket[t] = ticket[u] /\ ticket[t] # 0 => t = u

\* The snapshot of t covers u.
Covers(t, u) == ticket[u] # 0 /\ ticket[u] <= view[t]

\* A row is inserted once, and allocated later than those that its transaction can see.
InsertsApart ==
  /\ \A t \in Tx : \A s \in InsertSlots(t) : Row(t, s) > ChunkSize /\ Row(t, s) <= size
  /\ \A t, u \in Tx : \A s \in InsertSlots(t), q \in InsertSlots(u) :
       Row(t, s) = Row(u, q) => t = u /\ s = q
  /\ \A r \in Rows : r > ChunkSize /\ r <= size => \E t \in Tx : InsertedBy(t, r)
  /\ \A t, u \in Tx : \A s \in InsertSlots(t), q \in InsertSlots(u) :
       Covers(t, u) => Row(u, q) < Row(t, s)

\* A transaction deletes a row once, only after it inserted it or from its snapshot.
DeletesApart ==
  /\ \A t \in Tx : \A s \in DeleteSlots(t) : Row(t, s) \in Rows /\ Row(t, s) <= size
  /\ \A t \in Tx : \A s, q \in DeleteSlots(t) : Row(t, s) = Row(t, q) => s = q
  /\ ~AnyOrder => \A t \in Tx : \A s, q \in DeleteSlots(t) :
       s[1] = q[1] /\ s[2] < q[2] => Row(t, s) < Row(t, q)
  /\ \A t \in Tx : \A s \in DeleteSlots(t), q \in InsertSlots(t) : Row(t, s) = Row(t, q) => q[1] < s[1]
  /\ \A t, u \in Tx : \A s \in DeleteSlots(t), q \in InsertSlots(u) :
       t # u /\ Row(t, s) = Row(u, q) => Covers(t, u)
  /\ \A t, u \in Tx : \A s \in DeleteSlots(t), q \in DeleteSlots(u) :
       t # u /\ Row(t, s) = Row(u, q) => ~Covers(t, u)

\* Which locks t holds.
HoldsLocks(t) ==
  /\ \A r \in Rows : tid[r] = t => InsertedBy(t, r) \/ DeletedBy(t, r)
  /\ Running(t) => \A s \in InsertSlots(t) :
       tid[Row(t, s)] = t <=> ~\E q \in DeleteSlots(t) : Row(t, q) = Row(t, s) /\ Executed(t, q)
  /\ Running(t) => \A s \in DeleteSlots(t) :
       ~InsertedBy(t, Row(t, s)) => (tid[Row(t, s)] = t <=> Executed(t, s))
  /\ ticket[t] # 0 => \A s \in DeleteSlots(t) : ~InsertedBy(t, Row(t, s)) => tid[Row(t, s)] = t
  /\ ticket[t] # 0 => \A s \in InsertSlots(t) : Passed(t, s) => tid[Row(t, s)] # t

Locks == \A t \in Tx : HoldsLocks(t)

\* A rollback finds what its transaction has locked: in table order the locked rows of a
\* Delete come before those that were not reached and those that t itself had inserted.
FindsLocks(t) ==
  /\ \A s \in InsertSlots(t) : TidReset(t, s) => tid[Row(t, s)] # t
  /\ \A r \in Rows : tid[r] = t =>
       \/ InsertedBy(t, r)
       \/ \E s \in DeleteSlots(t) : Row(t, s) = r /\ ~Passed(t, s)
  /\ \A s, q \in DeleteSlots(t) :
       /\ s[1] = q[1] /\ s[2] < q[2] /\ ~Passed(t, s) /\ tid[Row(t, q)] = t
       /\ ~InsertedBy(t, Row(t, s)) /\ ~InsertedBy(t, Row(t, q))
       => tid[Row(t, s)] = t

RollbackLocks == \A t \in Tx : Rolls(t) => FindsLocks(t)

\* The commit ids of the rows.
Versions ==
  /\ \A r \in Loaded : begin[r] = 0
  /\ \A r \in Rows : r > size => tid[r] = NoTid /\ begin[r] = MAX_COMMIT_ID
  /\ \A t \in Tx : \A s \in InsertSlots(t) :
       \/ begin[Row(t, s)] = MAX_COMMIT_ID /\ ~Stamped(t, s)
       \/ begin[Row(t, s)] = ticket[t] /\ ticket[t] # 0
       \/ begin[Row(t, s)] = 0 /\ end[Row(t, s)] = 0
  /\ \A r \in Rows : end[r] # MAX_COMMIT_ID => \E t \in Tx :
       \/ \E s \in InsertSlots(t) : Row(t, s) = r /\ Reset(t, s) /\ end[r] = 0
       \/ \E s \in DeleteSlots(t) : Row(t, s) = r /\ Ended(t, s) /\ end[r] = ticket[t]
  /\ \A t \in Tx : \A s \in DeleteSlots(t) : Ended(t, s) => end[Row(t, s)] = ticket[t]
  /\ \A t \in Tx : \A s \in InsertSlots(t) : Reset(t, s) => end[Row(t, s)] = 0

\* What a scan has read of the row it looks at still tells whether the row is visible.
HasRead(t) ==
  /\ pc[t] \in {"begin", "end"} => (rowTid[t] = t <=> tid[pos[t]] = t)
  /\ pc[t] = "end" /\ view[t] < end[pos[t]] => (rowBegin[t] <= view[t] <=> begin[pos[t]] <= view[t])

Reads == \A t \in Tx : HasRead(t)

\* SnapshotOf, by slots.
InSnapshot(t, r) ==
  /\ ~DeletedBy(t, r)
  /\ \/ InsertedBy(t, r)
     \/ /\ r \in Loaded \/ \E u \in Tx : Covers(t, u) /\ InsertedBy(u, r)
        /\ \A u \in Tx : Covers(t, u) => ~DeletedBy(u, r)

\* Validate has found the rows of the snapshot below its position, and will look at the
\* rest of them.
Scanned(t) ==
  /\ \A r \in Rows : r \in seen[t] <=> InSnapshot(t, r) /\ (pc[t] = "validated" \/ r < pos[t])
  /\ limit[t].chunk <= ChunkOf(size)
  /\ \A r \in Rows : InSnapshot(t, r) => ChunkOf(r) <= limit[t].chunk
  /\ pc[t] # "validated" => ChunkOf(pos[t]) <= limit[t].chunk
  /\ pc[t] = "chunk" => pos[t] = (ChunkOf(pos[t]) - 1) * ChunkSize + 1
  /\ pc[t] \in {"tid", "begin", "end"} =>
       /\ pos[t] <= limit[t].row /\ limit[t].row <= size
       /\ ChunkOf(limit[t].row) = ChunkOf(pos[t])
       /\ ChunkOf(pos[t]) < limit[t].chunk => limit[t].row = ChunkOf(pos[t]) * ChunkSize
       /\ \A r \in Rows : InSnapshot(t, r) /\ ChunkOf(r) = ChunkOf(pos[t]) => r <= limit[t].row

Scan == \A t \in Tx : pc[t] \in Scanning => Scanned(t)

\* A row is invalid from the moment its end_cid is set, but for the row that a committing
\* Delete is about to count.
Counted(c) ==
  {r \in Rows : /\ ChunkOf(r) = c /\ end[r] # MAX_COMMIT_ID
                /\ \A t \in Tx : pc[t] = "commitInvalid" => r # CurrentRow(t)}

Counts == \A c \in Chunks : invalid[c] = Cardinality(Counted(c))

IInv == /\ Ranges /\ Positions /\ CommitIds /\ InsertsApart /\ DeletesApart
        /\ Locks /\ (~AnyOrder => RollbackLocks) /\ Versions /\ Reads /\ Scan /\ Counts

----------------------------------------------------------------------------
(* Slots.                                                                  *)

USE TidAssumption, SizeAssumption, OrderAssumption

LEMMA SlotFacts ==
  ASSUME Ranges, NEW t \in Tx, NEW s \in AllSlots(t)
  PROVE  /\ s = <<s[1], s[2]>> /\ s[1] \in Nat \ {0} /\ s[2] \in Nat \ {0}
         /\ s[1] \in DOMAIN ops[t] /\ s[1] <= Len(ops[t])
         /\ s[2] \in DOMAIN ops[t][s[1]].rows /\ s[2] <= Len(ops[t][s[1]].rows)
         /\ Row(t, s) \in Rows
         /\ s \in InsertSlots(t) <=> ops[t][s[1]].type = "Insert"
         /\ s \in DeleteSlots(t) <=> ops[t][s[1]].type = "Delete"
         /\ s \in InsertSlots(t) <=> s \notin DeleteSlots(t)
<1> PICK i \in DOMAIN ops[t] : \E j \in DOMAIN ops[t][i].rows : s = <<i, j>>
  BY DEF AllSlots, InsertSlots, DeleteSlots, Slots
<1> PICK j \in DOMAIN ops[t][i].rows : s = <<i, j>>
  OBVIOUS
<1> ops[t] \in Seq(Operators) /\ ops[t][i] \in Operators
  BY DEF Ranges, ThreadRanges
<1> ops[t][i].rows \in Seq(Rows) /\ ops[t][i].type \in {"Insert", "Delete"}
  BY DEF Operators
<1>1. s = <<s[1], s[2]>> /\ s[1] = i /\ s[2] = j
  OBVIOUS
<1>2. i \in Nat \ {0} /\ i <= Len(ops[t]) /\ j \in Nat \ {0} /\ j <= Len(ops[t][i].rows)
  OBVIOUS
<1>3. Row(t, s) \in Rows
  BY <1>1 DEF Row
<1>4. s \in InsertSlots(t) <=> ops[t][i].type = "Insert"
  BY DEF InsertSlots, Slots
<1>5. s \in DeleteSlots(t) <=> ops[t][i].type = "Delete"
  BY DEF DeleteSlots, Slots
<1>6. QED
  BY <1>1, <1>2, <1>3, <1>4, <1>5

LEMMA IsSlot ==
  ASSUME Ranges, NEW t \in Tx, NEW i \in DOMAIN ops[t], NEW j \in DOMAIN ops[t][i].rows
  PROVE  /\ <<i, j>> \in AllSlots(t)
         /\ <<i, j>> \in InsertSlots(t) <=> ops[t][i].type = "Insert"
         /\ <<i, j>> \in DeleteSlots(t) <=> ops[t][i].type = "Delete"
<1>1. ops[t] \in Seq(Operators) /\ ops[t][i] \in Operators
  BY DEF Ranges, ThreadRanges
<1>2. ops[t][i].type \in {"Insert", "Delete"}
  BY <1>1 DEF Operators
<1>3. QED
  BY <1>2 DEF AllSlots, InsertSlots, DeleteSlots, Slots

\* The operators of u, but for their states, are those of before.
SameSlots(u) ==
  /\ InsertSlots(u)' = InsertSlots(u) /\ DeleteSlots(u)' = DeleteSlots(u)
  /\ AllSlots(u)' = AllSlots(u)
  /\ \A s \in AllSlots(u) : Row(u, s)' = Row(u, s)
  /\ Len(ops'[u]) = Len(ops[u]) /\ DOMAIN ops'[u] = DOMAIN ops[u]
  /\ \A i \in DOMAIN ops[u] : Len(ops'[u][i].rows) = Len(ops[u][i].rows)
  /\ \A r \in Rows : /\ InsertedBy(u, r)' <=> InsertedBy(u, r)
                     /\ DeletedBy(u, r)' <=> DeletedBy(u, r)

SameLayout == \A u \in Tx : SameSlots(u)

LEMMA SameOpsSameSlots ==
  ASSUME NEW u \in Tx, ops'[u] = ops[u]
  PROVE  SameSlots(u)
<1>1. InsertSlots(u)' = InsertSlots(u) /\ DeleteSlots(u)' = DeleteSlots(u) /\ AllSlots(u)' = AllSlots(u)
  BY DEF InsertSlots, DeleteSlots, AllSlots, Slots
<1>2. \A s : Row(u, s)' = Row(u, s)
  BY DEF Row
<1>3. QED
  BY <1>1, <1>2 DEF SameSlots, InsertedBy, DeletedBy

LEMMA SetStateKeepsLayout ==
  ASSUME Ranges, NEW t \in Tx, NEW state, SetState(t, state), op[t] \in DOMAIN ops[t]
  PROVE  SameLayout /\ \A u \in Tx : ops'[u] # <<>> <=> ops[u] # <<>>
<1>1. ASSUME NEW u \in Tx, u # t PROVE SameSlots(u)
  <2>1. ops'[u] = ops[u]
    BY <1>1 DEF SetState, Ranges, ThreadRanges
  <2>2. QED
    BY <2>1, SameOpsSameSlots
<1>2. SameSlots(t)
  <2> ops[t] \in Seq(Operators)
    BY DEF Ranges, ThreadRanges
  <2>1. ops'[t] = [ops[t] EXCEPT ![op[t]].state = state]
    BY DEF SetState, Ranges, ThreadRanges
  <2>2. DOMAIN ops'[t] = DOMAIN ops[t] /\ Len(ops'[t]) = Len(ops[t])
    BY <2>1
  <2>3. ASSUME NEW i \in DOMAIN ops[t]
        PROVE  ops'[t][i].rows = ops[t][i].rows /\ ops'[t][i].type = ops[t][i].type
    <3> ops[t][i] \in Operators
      OBVIOUS
    <3>1. QED
      BY <2>1 DEF Operators
  <2>4. InsertSlots(t)' = InsertSlots(t) /\ DeleteSlots(t)' = DeleteSlots(t)
    BY <2>2, <2>3 DEF InsertSlots, DeleteSlots, Slots
  <2>5. \A s \in AllSlots(t) : Row(t, s)' = Row(t, s)
    BY <2>3, SlotFacts DEF Row
  <2>6. QED
    BY <2>2, <2>3, <2>4, <2>5 DEF SameSlots, AllSlots, InsertedBy, DeletedBy
<1>3. ops[t] # <<>> /\ ops'[t] # <<>>
  <2>1. op[t] \in DOMAIN ops'[t]
    BY <1>2 DEF SameSlots
  <2>2. \A x : x = <<>> => op[t] \notin DOMAIN x
    OBVIOUS
  <2>3. QED
    BY <2>1, <2>2
<1>4. \A u \in Tx : u # t => ops'[u] = ops[u]
  BY DEF SetState, Ranges, ThreadRanges
<1>5. QED
  BY <1>1, <1>2, <1>3, <1>4 DEF SameLayout

----------------------------------------------------------------------------
(* How the threads move.                                                   *)

Step(t) == Begin(t) \/ Validate(t) \/ Delete(t) \/ Insert(t) \/ Commit(t) \/ Rollback(t)

SameThread(u) ==
  /\ SameSlots(u) /\ ops'[u] = ops[u]
  /\ pc'[u] = pc[u] /\ op'[u] = op[u] /\ pos'[u] = pos[u] /\ phase'[u] = phase[u]
  /\ ticket'[u] = ticket[u] /\ view'[u] = view[u] /\ (u \in ready' <=> u \in ready)
  /\ limit'[u] = limit[u] /\ rowTid'[u] = rowTid[u] /\ rowBegin'[u] = rowBegin[u] /\ seen'[u] = seen[u]
  /\ Running(u)' <=> Running(u)
  /\ Rolls(u)' <=> Rolls(u)
  /\ SecondLoop(u)' <=> SecondLoop(u)
  /\ Cur(u)' = Cur(u)
  /\ \A s : /\ Passed(u, s)' <=> Passed(u, s)
            /\ Executed(u, s)' <=> Executed(u, s)
            /\ BeginWritten(u, s)' <=> BeginWritten(u, s)
            /\ EndWritten(u, s)' <=> EndWritten(u, s)
            /\ EndReset(u, s)' <=> EndReset(u, s)
            /\ TidReset(u, s)' <=> TidReset(u, s)

LEMMA SameThreadIfUnchanged ==
  ASSUME NEW u \in Tx,
         ops'[u] = ops[u], pc'[u] = pc[u], op'[u] = op[u], pos'[u] = pos[u], phase'[u] = phase[u],
         ticket'[u] = ticket[u], view'[u] = view[u], u \in ready' <=> u \in ready,
         limit'[u] = limit[u], rowTid'[u] = rowTid[u], rowBegin'[u] = rowBegin[u], seen'[u] = seen[u]
  PROVE  SameThread(u)
<1>1. SameSlots(u)
  BY SameOpsSameSlots
<1>2. Cur(u)' = Cur(u)
  BY DEF Cur
<1>3. /\ Running(u)' <=> Running(u)
      /\ Rolls(u)' <=> Rolls(u)
      /\ SecondLoop(u)' <=> SecondLoop(u)
  BY DEF Running, Rolls, SecondLoop
<1>4. \A s : /\ Passed(u, s)' <=> Passed(u, s)
             /\ Executed(u, s)' <=> Executed(u, s)
  BY DEF Passed, Executed
<1>5. \A s : /\ BeginWritten(u, s)' <=> BeginWritten(u, s)
             /\ EndWritten(u, s)' <=> EndWritten(u, s)
             /\ EndReset(u, s)' <=> EndReset(u, s)
             /\ TidReset(u, s)' <=> TidReset(u, s)
  BY <1>2, <1>3, <1>4 DEF BeginWritten, EndWritten, EndReset, TidReset
<1>6. QED
  BY <1>1, <1>2, <1>3, <1>4, <1>5 DEF SameThread

LEMMA OthersStay ==
  ASSUME Ranges, NEW t \in Tx, Step(t), NEW u \in Tx, u # t
  PROVE  SameThread(u)
<1> SUFFICES /\ ops'[u] = ops[u] /\ pc'[u] = pc[u] /\ op'[u] = op[u] /\ pos'[u] = pos[u]
             /\ phase'[u] = phase[u] /\ ticket'[u] = ticket[u] /\ view'[u] = view[u]
             /\ u \in ready' <=> u \in ready
             /\ limit'[u] = limit[u] /\ rowTid'[u] = rowTid[u] /\ rowBegin'[u] = rowBegin[u]
             /\ seen'[u] = seen[u]
  BY SameThreadIfUnchanged
<1> USE DEF Ranges, RowRanges, ThreadRanges, ScanRanges, ManagerRanges, At, Goto, SetState, NextRow, tableVars, rowVars, scanVars, threadVars, managerVars
<1>1. CASE Begin(t)
  BY <1>1 DEF Begin, Manager!Begin
<1>2. CASE StartValidate(t) \/ EnterChunk(t) \/ ReadTid(t)
  BY ZenonT(60), <1>2 DEF StartValidate, EnterChunk, ReadTid
<1>3. CASE ReadBegin(t) \/ ReadEnd(t) \/ ReturnRows(t)
  BY <1>3 DEF ReadBegin, ReadEnd, ReturnRows
<1>4. CASE StartDelete(t)
  BY <1>4 DEF StartDelete
<1>5. CASE DeleteRow(t)
  BY ZenonT(60), <1>5 DEF DeleteRow
<1>6. CASE Insert(t)
  BY <1>6 DEF Insert
<1>7. CASE CommitReadOnly(t) \/ StartCommit(t)
  BY <1>7 DEF CommitReadOnly, StartCommit, Manager!TakeTicket
<1>8. CASE CommitInsertBegin(t) \/ CommitInsertTid(t)
  BY ZenonT(60), <1>8 DEF CommitInsertBegin, CommitInsertTid
<1>9. CASE CommitDeleteEnd(t) \/ CommitDeleteInvalid(t)
  BY ZenonT(60), <1>9 DEF CommitDeleteEnd, CommitDeleteInvalid
<1>10. CASE MakePending(t) \/ Acknowledge(t)
  BY <1>10 DEF MakePending, Acknowledge, Manager!MakeReady, Manager!Acknowledge
<1>11. CASE RollbackByUser(t) \/ MarkAsRolledBack(t)
  BY <1>11 DEF RollbackByUser, MarkAsRolledBack
<1>12. CASE RollbackInsertEnd(t) \/ RollbackInsertBegin(t)
  BY <1>12 DEF RollbackInsertEnd, RollbackInsertBegin
<1>13. CASE RollbackInsertTid(t)
  BY <1>13 DEF RollbackInsertTid
<1>14. CASE RollbackDeleteRow(t)
  BY <1>14 DEF RollbackDeleteRow
<1>15. QED
  BY <1>1, <1>2, <1>3, <1>4, <1>5, <1>6, <1>7, <1>8, <1>9, <1>10, <1>11, <1>12, <1>13, <1>14
     DEF Step, Validate, Delete, Commit, Rollback

LEMMA ManagerStays ==
  ASSUME NEW t \in Tx, Validate(t) \/ Delete(t) \/ Insert(t) \/ Commit(t) \/ Rollback(t),
         ~(StartCommit(t) \/ MakePending(t) \/ Acknowledge(t))
  PROVE  UNCHANGED managerVars
  BY DEF Validate, StartValidate, EnterChunk, ReadTid, ReadBegin, ReadEnd, ReturnRows, Delete, StartDelete,
         DeleteRow, Insert, Commit, CommitReadOnly, CommitInsertBegin, CommitInsertTid, CommitDeleteEnd,
         CommitDeleteInvalid, Rollback, RollbackByUser, RollbackInsertEnd, RollbackInsertBegin,
         RollbackInsertTid, RollbackDeleteRow, MarkAsRolledBack

\* Commit ids stay below MAX_COMMIT_ID.
LEMMA CommitIdsBelowMax ==
  ASSUME Ranges, CommitIds
  PROVE  /\ MAX_COMMIT_ID \in Nat /\ issued < MAX_COMMIT_ID /\ horizon < MAX_COMMIT_ID
         /\ \A t \in Tx : ticket[t] < MAX_COMMIT_ID /\ view[t] < MAX_COMMIT_ID
<1> DEFINE T == {t \in Tx : ticket[t] # 0}
<1>1. Cardinality(T) \in Nat /\ Cardinality(Tx) \in Nat /\ Cardinality(T) <= Cardinality(Tx)
  BY FS_Subset, FS_CardinalityType, IsFiniteSet(Tx)
<1>2. issued = 1 + Cardinality(T)
  BY DEF CommitIds
<1> HIDE DEF T
<1>3. MAX_COMMIT_ID \in Nat /\ issued < MAX_COMMIT_ID
  BY <1>1, <1>2 DEF MAX_COMMIT_ID
<1>4. horizon \in Nat /\ issued \in Nat /\ horizon <= issued /\ 1 <= horizon
  BY DEF CommitIds, Ranges, ManagerRanges
<1>5. ASSUME NEW t \in Tx PROVE ticket[t] <= issued /\ view[t] <= issued /\ ticket[t] \in Nat /\ view[t] \in Nat
  BY <1>4 DEF CommitIds, Ranges, ManagerRanges
<1>6. QED
  BY <1>3, <1>4, <1>5

States == {"Pending", "Executed", "Conflicted", "Committed", "RolledBack"}

LEMMA SetStateType ==
  ASSUME Ranges, NEW t \in Tx, NEW state \in States, SetState(t, state), op[t] \in DOMAIN ops[t]
  PROVE  ops' \in [Tx -> Seq(Operators)]
<1> ops[t] \in Seq(Operators) /\ ops[t][op[t]] \in Operators
  BY DEF Ranges, ThreadRanges
<1>1. [ops[t][op[t]] EXCEPT !.state = state] \in Operators
  BY DEF Operators, States
<1>2. [ops[t] EXCEPT ![op[t]].state = state] \in Seq(Operators)
  BY <1>1
<1>3. QED
  BY <1>2 DEF SetState, Ranges, ThreadRanges

LEMMA SetStateStates ==
  ASSUME Ranges, NEW t \in Tx, NEW state \in States, SetState(t, state), op[t] \in DOMAIN ops[t]
  PROVE  \A i \in DOMAIN ops[t] : ops'[t][i].state = IF i = op[t] THEN state ELSE ops[t][i].state
<1> ops[t] \in Seq(Operators) /\ ops[t][op[t]] \in Operators
  BY DEF Ranges, ThreadRanges
<1>1. ops'[t] = [ops[t] EXCEPT ![op[t]].state = state]
  BY DEF SetState, Ranges, ThreadRanges
<1>2. QED
  BY <1>1 DEF Operators

\* The current slot of a thread that works on its operators.
LEMMA CurrentSlot ==
  ASSUME Ranges, Positions, NEW t \in Tx, pc[t] \in CommitPcs \cup RollbackPcs \cup {"delete"}
  PROVE  /\ Cur(t) \in AllSlots(t)
         /\ op[t] \in DOMAIN ops[t] /\ op[t] <= Len(ops[t])
         /\ pos[t] \in DOMAIN Current(t).rows /\ pos[t] <= Len(Current(t).rows) /\ Len(Current(t).rows) \in 1..MaxRows
         /\ CurrentRow(t) = Row(t, Cur(t)) /\ CurrentRow(t) \in Rows
         /\ Cur(t) \in InsertSlots(t) <=> Current(t).type = "Insert"
         /\ Cur(t) \in DeleteSlots(t) <=> Current(t).type = "Delete"
         /\ ~Passed(t, Cur(t))
<1>1. Cur(t) \in AllSlots(t)
  BY DEF Positions, Place, AllSlots
<1>2. Cur(t)[1] = op[t] /\ Cur(t)[2] = pos[t]
  BY DEF Cur
<1>3. op[t] \in Nat /\ pos[t] \in Nat
  BY DEF Ranges, ThreadRanges
<1>4. QED
  BY SMTT(60), <1>1, <1>2, <1>3, SlotFacts DEF Current, CurrentRow, Row, Positions, Place, Passed

\* After the last field of a row, exactly this row has been passed.
LEMMA NextRowMoves ==
  ASSUME Ranges, Positions, NEW t \in Tx, pc[t] \in CommitPcs \cup RollbackPcs,
         NEW state \in States, NEW row \in Pcs, NEW label \in Pcs, row # label,
         NextRow(t, state, row, label)
  PROVE  /\ SameLayout
         /\ \A s \in AllSlots(t) : Passed(t, s)' <=> Passed(t, s) \/ s = Cur(t)
         /\ pc' \in [Tx -> Pcs] /\ pc'[t] \in {row, label}
         /\ op' \in [Tx -> Nat \ {0}] /\ pos' \in [Tx -> 1..MaxRows + 1] /\ ops' \in [Tx -> Seq(Operators)]
         /\ pc'[t] = row => Cur(t)' \in AllSlots(t)
         /\ pc'[t] = label => op'[t] > Len(ops[t])
         /\ \A i \in DOMAIN ops[t] : ops'[t][i].state \in {ops[t][i].state, state}
         /\ ops'[t] # <<>>
<1> USE DEF Goto
<1>1. /\ Cur(t) \in AllSlots(t)
      /\ op[t] \in DOMAIN ops[t] /\ op[t] <= Len(ops[t])
      /\ pos[t] <= Len(Current(t).rows) /\ Len(Current(t).rows) \in 1..MaxRows
  BY CurrentSlot
<1>2. op[t] \in Nat \ {0} /\ pos[t] \in Nat \ {0} /\ ops[t] \in Seq(Operators)
  BY DEF Ranges, ThreadRanges
<1>3. CASE pos[t] < Len(Current(t).rows)
  <2>1. /\ pos' = [pos EXCEPT ![t] = @ + 1] /\ pc' = [pc EXCEPT ![t] = row]
        /\ ops' = ops /\ op' = op
    BY <1>3 DEF NextRow
  <2>2. SameLayout
    BY <2>1, SameOpsSameSlots DEF SameLayout
  <2>3. pos'[t] = pos[t] + 1 /\ pos' \in [Tx -> 1..MaxRows + 1] /\ pc'[t] = row /\ pc' \in [Tx -> Pcs]
    BY <2>1, <1>1, <1>2, <1>3 DEF Ranges, ThreadRanges
  <2>4. \A s \in AllSlots(t) : Passed(t, s)' <=> Passed(t, s) \/ s = Cur(t)
    BY <2>1, <2>3, <1>2, SlotFacts DEF Passed, Cur
  <2>5. Cur(t)' = <<op[t], pos[t] + 1>> /\ pos[t] + 1 \in DOMAIN ops[t][op[t]].rows
    <3> ops[t][op[t]] \in Operators
      BY <1>1, <1>2
    <3>1. ops[t][op[t]].rows \in Seq(Rows)
      BY DEF Operators
    <3>2. QED
      BY <2>1, <2>3, <1>1, <1>2, <1>3, <3>1 DEF Cur, Current
  <2>6. Cur(t)' \in AllSlots(t)
    BY <2>5, <1>1, IsSlot
  <2>7. ops'[t] # <<>>
    BY <2>1, <1>1
  <2>8. QED
    BY <2>1, <2>2, <2>3, <2>4, <2>6, <2>7 DEF Ranges, ThreadRanges
<1>4. CASE ~(pos[t] < Len(Current(t).rows))
  <2>1. /\ pos' = [pos EXCEPT ![t] = 1] /\ op' = [op EXCEPT ![t] = @ + 1]
        /\ SetState(t, state)
        /\ pc' = [pc EXCEPT ![t] = IF op[t] < Len(ops[t]) THEN row ELSE label]
    BY <1>4 DEF NextRow
  <2>2. SameLayout /\ ops'[t] # <<>> /\ ops' \in [Tx -> Seq(Operators)]
    BY <2>1, <1>1, SetStateKeepsLayout, SetStateType, CurrentSlot
  <2>3. /\ pos'[t] = 1 /\ pos' \in [Tx -> 1..MaxRows + 1] /\ op'[t] = op[t] + 1 /\ op' \in [Tx -> Nat \ {0}]
        /\ pc'[t] = (IF op[t] < Len(ops[t]) THEN row ELSE label) /\ pc' \in [Tx -> Pcs]
    BY <2>1, <1>2 DEF Ranges, ThreadRanges
  <2>4. pos[t] = Len(Current(t).rows)
    BY <1>1, <1>2, <1>4
  <2>5. \A s \in AllSlots(t) : Passed(t, s)' <=> Passed(t, s) \/ s = Cur(t)
    <3> TAKE s \in AllSlots(t)
    <3>1. s[1] \in Nat /\ s[2] \in Nat \ {0} /\ (s[1] = op[t] => s[2] <= pos[t]) /\ s = <<s[1], s[2]>>
      BY SlotFacts, <2>4 DEF Current
    <3>2. s = Cur(t) <=> s[1] = op[t] /\ s[2] = pos[t]
      BY <3>1 DEF Cur
    <3>3. Passed(t, s)' <=> s[1] <= op[t]
      BY SMTT(60), <2>3, <3>1, <1>2 DEF Passed
    <3>4. QED
      BY <3>1, <3>2, <3>3, <1>2 DEF Passed
  <2>6. ASSUME pc'[t] = row PROVE Cur(t)' \in AllSlots(t)
    <3>1. op[t] + 1 \in DOMAIN ops[t]
      BY <2>3, <2>6, <1>2
    <3>2. ops[t][op[t] + 1] \in Operators /\ Len(ops[t][op[t] + 1].rows) \in 1..MaxRows
      BY <3>1, <1>2 DEF Positions, Place
    <3>3. 1 \in DOMAIN ops[t][op[t] + 1].rows
      BY <3>2 DEF Operators
    <3>4. QED
      BY <2>3, <3>1, <3>3, IsSlot DEF Cur
  <2>7. pc'[t] = label => op'[t] > Len(ops[t])
    BY <2>3, <1>2
  <2>8. \A i \in DOMAIN ops[t] : ops'[t][i].state \in {ops[t][i].state, state}
    BY <2>1, <1>1, SetStateStates
  <2>9. QED
    BY <2>2, <2>3, <2>5, <2>6, <2>7, <2>8
<1>5. QED
  BY <1>3, <1>4

\* The slots of an operator that t registers.
NewSlots(t, n) == {<<Len(ops[t]) + 1, j>> : j \in 1..n}

LEMMA AppendOperator ==
  ASSUME Ranges, NEW t \in Tx, NEW o \in Operators, ops' = [ops EXCEPT ![t] = Append(@, o)]
  PROVE  /\ ops' \in [Tx -> Seq(Operators)] /\ Len(ops'[t]) = Len(ops[t]) + 1
         /\ Len(ops[t]) \in Nat /\ ops'[t] # <<>>
         /\ DOMAIN ops'[t] = DOMAIN ops[t] \cup {Len(ops[t]) + 1}
         /\ \A i \in DOMAIN ops[t] : ops'[t][i] = ops[t][i]
         /\ ops'[t][Len(ops[t]) + 1] = o
         /\ o.type = "Insert" => InsertSlots(t)' = InsertSlots(t) \cup NewSlots(t, Len(o.rows))
         /\ o.type # "Insert" => InsertSlots(t)' = InsertSlots(t)
         /\ o.type = "Delete" => DeleteSlots(t)' = DeleteSlots(t) \cup NewSlots(t, Len(o.rows))
         /\ o.type # "Delete" => DeleteSlots(t)' = DeleteSlots(t)
         /\ \A s \in AllSlots(t) : Row(t, s)' = Row(t, s) /\ s[1] \in Nat /\ s[1] <= Len(ops[t])
<1> ops[t] \in Seq(Operators) /\ o.rows \in Seq(Rows)
  BY DEF Ranges, ThreadRanges, Operators
<1>1. ops'[t] = Append(ops[t], o)
  BY DEF Ranges, ThreadRanges
<1>2. /\ Len(ops[t]) \in Nat /\ Len(ops'[t]) = Len(ops[t]) + 1
      /\ DOMAIN ops'[t] = DOMAIN ops[t] \cup {Len(ops[t]) + 1}
      /\ ops'[t] \in Seq(Operators)
  BY <1>1
<1>3. /\ \A i \in DOMAIN ops[t] : ops'[t][i] = ops[t][i]
      /\ ops'[t][Len(ops[t]) + 1] = o
  BY <1>1
<1>4. ops' \in [Tx -> Seq(Operators)] /\ ops'[t] # <<>>
  BY <1>2 DEF Ranges, ThreadRanges
<1>5. NewSlots(t, Len(o.rows)) = {<<Len(ops[t]) + 1, j>> : j \in DOMAIN o.rows}
  BY DEF NewSlots
<1>6. ASSUME NEW type
      PROVE  Slots(t, type)' = IF o.type = type THEN Slots(t, type) \cup NewSlots(t, Len(o.rows)) ELSE Slots(t, type)
  <2>1. {k \in DOMAIN ops'[t] : ops'[t][k].type = type} =
        {k \in DOMAIN ops[t] : ops[t][k].type = type} \cup IF o.type = type THEN {Len(ops[t]) + 1} ELSE {}
    BY <1>2, <1>3
  <2>2. \A i \in DOMAIN ops[t] : {<<i, j>> : j \in DOMAIN ops'[t][i].rows} = {<<i, j>> : j \in DOMAIN ops[t][i].rows}
    BY <1>3
  <2>3. {<<Len(ops[t]) + 1, j>> : j \in DOMAIN ops'[t][Len(ops[t]) + 1].rows} = NewSlots(t, Len(o.rows))
    BY <1>3, <1>5
  <2>4. \A s : s \in Slots(t, type)' <=>
               \E i \in {k \in DOMAIN ops'[t] : ops'[t][k].type = type} : s \in {<<i, j>> : j \in DOMAIN ops'[t][i].rows}
    BY DEF Slots
  <2>5. \A s : s \in Slots(t, type) <=>
               \E i \in {k \in DOMAIN ops[t] : ops[t][k].type = type} : s \in {<<i, j>> : j \in DOMAIN ops[t][i].rows}
    BY DEF Slots
  <2>6. \A s : s \in Slots(t, type)' <=>
               \/ \E i \in {k \in DOMAIN ops[t] : ops[t][k].type = type} : s \in {<<i, j>> : j \in DOMAIN ops'[t][i].rows}
               \/ o.type = type /\ s \in {<<Len(ops[t]) + 1, j>> : j \in DOMAIN ops'[t][Len(ops[t]) + 1].rows}
    BY <2>1, <2>4
  <2>7. \A s : s \in Slots(t, type)' <=> s \in Slots(t, type) \/ (o.type = type /\ s \in NewSlots(t, Len(o.rows)))
    BY <2>2, <2>3, <2>5, <2>6
  <2>8. QED
    BY <2>7
<1>7. \A s \in AllSlots(t) : Row(t, s)' = Row(t, s) /\ s[1] \in Nat /\ s[1] <= Len(ops[t])
  BY <1>3, SlotFacts DEF Row
<1>8. QED
  BY <1>2, <1>3, <1>4, <1>6, <1>7 DEF InsertSlots, DeleteSlots

LEMMA InsertMoves ==
  ASSUME Ranges, NEW t \in Tx, Insert(t)
  PROVE  \E n \in 1..MaxRows :
           /\ size' = size + n /\ size' \in ChunkSize..MaxRows
           /\ InsertSlots(t)' = InsertSlots(t) \cup NewSlots(t, n) /\ DeleteSlots(t)' = DeleteSlots(t)
           /\ \A s \in AllSlots(t) : Row(t, s)' = Row(t, s) /\ s[1] \in Nat /\ s[1] <= Len(ops[t])
           /\ \A s \in NewSlots(t, n) : /\ s = <<s[1], s[2]>> /\ s[1] = Len(ops[t]) + 1 /\ s[2] \in 1..n
                                        /\ Row(t, s)' = size + s[2]
           /\ \A j \in 1..n : <<Len(ops[t]) + 1, j>> \in NewSlots(t, n)
           /\ \A r \in Rows : /\ InsertedBy(t, r)' <=> InsertedBy(t, r) \/ (size < r /\ r <= size + n)
                              /\ DeletedBy(t, r)' <=> DeletedBy(t, r)
           /\ tid' = [r \in Rows |-> IF r \in size + 1..size + n THEN t ELSE tid[r]]
           /\ ops' \in [Tx -> Seq(Operators)] /\ ops'[t] # <<>> /\ Len(ops'[t]) = Len(ops[t]) + 1
           /\ \A i \in DOMAIN ops'[t] :
                \/ i \in DOMAIN ops[t] /\ ops'[t][i] = ops[t][i]
                \/ Len(ops'[t][i].rows) = n /\ ops'[t][i].state = "Executed"
<1>1. PICK n \in 1..(MaxRows - size) :
        /\ ops' = [ops EXCEPT ![t] = Append(@, [type |-> "Insert", state |-> "Executed",
                                                rows |-> [i \in 1..n |-> size + i]])]
        /\ tid' = [r \in Rows |-> IF r \in size + 1..size + n THEN t ELSE tid[r]]
        /\ size' = size + n
  BY DEF Insert
<1> DEFINE o == [type |-> "Insert", state |-> "Executed", rows |-> [i \in 1..n |-> size + i]]
<1>2. size \in ChunkSize..MaxRows /\ n \in 1..MaxRows /\ size' \in ChunkSize..MaxRows
  BY <1>1 DEF Ranges, RowRanges
<1>3. o.rows \in Seq(Rows) /\ Len(o.rows) = n /\ \A i \in 1..n : o.rows[i] = size + i
  <2>1. \A i \in 1..n : size + i \in Rows
    BY <1>1, <1>2 DEF Rows
  <2>2. o.rows \in [1..n -> Rows]
    BY <2>1
  <2>3. QED
    BY <2>2, <1>2
<1>4. o \in Operators /\ o.type = "Insert" /\ o.state = "Executed"
  BY <1>3 DEF Operators
<1>5. ops' = [ops EXCEPT ![t] = Append(@, o)]
  BY <1>1
<1> HIDE DEF o
<1>6. /\ InsertSlots(t)' = InsertSlots(t) \cup NewSlots(t, n) /\ DeleteSlots(t)' = DeleteSlots(t)
      /\ \A s \in AllSlots(t) : Row(t, s)' = Row(t, s) /\ s[1] \in Nat /\ s[1] <= Len(ops[t])
      /\ ops' \in [Tx -> Seq(Operators)] /\ ops'[t] # <<>> /\ Len(ops'[t]) = Len(ops[t]) + 1
      /\ \A s \in NewSlots(t, n) : /\ s = <<s[1], s[2]>> /\ s[1] = Len(ops[t]) + 1 /\ s[2] \in 1..n
                                   /\ Row(t, s)' = size + s[2]
  <2>1. NewSlots(t, Len(o.rows)) = NewSlots(t, n)
    BY <1>3
  <2>0. o.type = "Insert" /\ o.type # "Delete"
    BY <1>4
  <2>2. /\ InsertSlots(t)' = InsertSlots(t) \cup NewSlots(t, Len(o.rows)) /\ DeleteSlots(t)' = DeleteSlots(t)
        /\ \A s \in AllSlots(t) : Row(t, s)' = Row(t, s) /\ s[1] \in Nat /\ s[1] <= Len(ops[t])
        /\ ops' \in [Tx -> Seq(Operators)] /\ ops'[t] # <<>> /\ Len(ops'[t]) = Len(ops[t]) + 1
    BY <2>0, <1>4, <1>5, AppendOperator, Zenon
  <2>3. \A s \in NewSlots(t, Len(o.rows)) :
          /\ s = <<s[1], s[2]>> /\ s[1] = Len(ops[t]) + 1 /\ s[2] \in 1..Len(o.rows)
          /\ Row(t, s)' = o.rows[s[2]]
    <3>1. ops'[t][Len(ops[t]) + 1] = o
      BY <1>4, <1>5, AppendOperator
    <3>2. QED
      BY SMTT(60), <3>1 DEF NewSlots, Row
  <2>4. QED
    BY <2>1, <2>2, <2>3, <1>3
<1>7. \A i \in DOMAIN ops'[t] : \/ i \in DOMAIN ops[t] /\ ops'[t][i] = ops[t][i]
                                \/ Len(ops'[t][i].rows) = n /\ ops'[t][i].state = "Executed"
  BY <1>3, <1>4, <1>5, AppendOperator
<1>8. \A j \in 1..n : <<Len(ops[t]) + 1, j>> \in NewSlots(t, n)
  BY DEF NewSlots
<1>9. ASSUME NEW r \in Rows
      PROVE  InsertedBy(t, r)' <=> InsertedBy(t, r) \/ (size < r /\ r <= size + n)
  <2>1. InsertedBy(t, r)' <=> \E s \in InsertSlots(t)' : Row(t, s)' = r
    BY DEF InsertedBy
  <2>2. InsertedBy(t, r)' <=> \/ \E s \in InsertSlots(t) : Row(t, s) = r
                              \/ \E s \in NewSlots(t, n) : Row(t, s)' = r
    BY <2>1, <1>6 DEF AllSlots
  <2>3. (\E s \in NewSlots(t, n) : Row(t, s)' = r) <=> \E j \in 1..n : size + j = r
    <3>1. ASSUME NEW j \in 1..n, size + j = r PROVE \E s \in NewSlots(t, n) : Row(t, s)' = r
      <4>1. PICK s \in NewSlots(t, n) : s = <<Len(ops[t]) + 1, j>>
        BY <1>8
      <4>2. s[2] = j
        BY <4>1
      <4>3. QED
        BY <3>1, <4>2, <1>6
    <3>2. QED
      BY <3>1, <1>6
  <2>4. (\E j \in 1..n : size + j = r) <=> size < r /\ r <= size + n
    <3>1. ASSUME size < r, r <= size + n PROVE \E j \in 1..n : size + j = r
      <4>1. r - size \in 1..n /\ size + (r - size) = r
        BY <3>1, <1>2 DEF Rows
      <4>2. QED
        BY <4>1
    <3>2. QED
      BY <3>1, <1>2 DEF Rows
  <2>5. QED
    BY <2>2, <2>3, <2>4 DEF InsertedBy
<1>10. \A r \in Rows : DeletedBy(t, r)' <=> DeletedBy(t, r)
  BY <1>6 DEF DeletedBy, AllSlots
<1>11. QED
  BY <1>1, <1>2, <1>6, <1>7, <1>8, <1>9, <1>10

LEMMA StartDeleteMoves ==
  ASSUME Ranges, NEW t \in Tx, StartDelete(t)
  PROVE  \E n \in 1..MaxRows :
           /\ DeleteSlots(t)' = DeleteSlots(t) \cup NewSlots(t, n) /\ InsertSlots(t)' = InsertSlots(t)
           /\ \A s \in AllSlots(t) : Row(t, s)' = Row(t, s) /\ s[1] \in Nat /\ s[1] <= Len(ops[t])
           /\ \A s \in NewSlots(t, n) : /\ s = <<s[1], s[2]>> /\ s[1] = Len(ops[t]) + 1 /\ s[2] \in 1..n
                                        /\ Row(t, s)' \in seen[t]
           /\ \A s, q \in NewSlots(t, n) : Row(t, s)' = Row(t, q)' => s = q
           /\ ~AnyOrder => \A s, q \in NewSlots(t, n) : s[2] < q[2] => Row(t, s)' < Row(t, q)'
           /\ op'[t] = Len(ops[t]) + 1 /\ pos'[t] = 1 /\ Cur(t)' \in NewSlots(t, n)
           /\ ops' \in [Tx -> Seq(Operators)] /\ ops'[t] # <<>> /\ Len(ops'[t]) = Len(ops[t]) + 1
           /\ \A i \in DOMAIN ops'[t] :
                \/ i \in DOMAIN ops[t] /\ ops'[t][i] = ops[t][i]
                \/ Len(ops'[t][i].rows) = n /\ i = op'[t]
<1>0. PICK S \in (SUBSET seen[t]) \ {{}} : \E input \in InputOrders(S) :
        ops' = [ops EXCEPT ![t] = Append(@, [type |-> "Delete", rows |-> input, state |-> "Pending"])]
  BY DEF StartDelete
<1>1. PICK input \in InputOrders(S) :
        ops' = [ops EXCEPT ![t] = Append(@, [type |-> "Delete", rows |-> input, state |-> "Pending"])]
  BY <1>0
<1> DEFINE n == Cardinality(S)
           o == [type |-> "Delete", rows |-> input, state |-> "Pending"]
<1>2. n \in 1..MaxRows
  <2>1. MaxRows \in Nat
    BY SizeAssumption
  <2>2. S \subseteq Rows /\ S # {}
    <3>1. seen[t] \subseteq Rows
      BY DEF Ranges, ScanRanges
    <3>2. QED
      BY <3>1
  <2>3. IsFiniteSet(Rows) /\ Cardinality(Rows) = MaxRows
    <3>1. 1 \in Int /\ MaxRows \in Int /\ 1 <= MaxRows
      BY SizeAssumption
    <3>2. IsFiniteSet(1..MaxRows) /\ Cardinality(1..MaxRows) = IF 1 > MaxRows THEN 0 ELSE MaxRows - 1 + 1
      BY <3>1, FS_Interval, Zenon
    <3>3. QED
      BY <3>1, <3>2 DEF Rows
  <2>4. IsFiniteSet(S) /\ n <= MaxRows
    <3>1. IsFiniteSet(S) /\ Cardinality(S) <= Cardinality(Rows)
      BY <2>2, <2>3, FS_Subset
    <3>2. QED
      BY <2>3, <3>1
  <2>5. n \in Nat /\ n # 0
    BY <2>2, <2>4, FS_CardinalityType, FS_EmptySet
  <2>6. QED
    BY <2>1, <2>4, <2>5
<1>3. /\ input \in [1..n -> S] /\ \A i, j \in 1..n : i # j => input[i] # input[j]
      /\ ~AnyOrder => \A i, j \in 1..n : i < j => input[i] < input[j]
  BY DEF InputOrders, SetToSeqs
<1> HIDE DEF n
<1>4. input \in Seq(Rows) /\ Len(input) = n
  <2>1. input \in [1..n -> Rows]
    BY <1>1, <1>3 DEF Ranges, ScanRanges
  <2>2. QED
    BY <2>1, <1>2
<1>5. o \in Operators /\ o.type = "Delete" /\ o.rows = input
  BY <1>4 DEF Operators
<1>6. ops' = [ops EXCEPT ![t] = Append(@, o)]
  BY <1>1
<1> HIDE DEF o
<1>7. NewSlots(t, Len(o.rows)) = NewSlots(t, n) /\ o.type = "Delete" /\ o.type # "Insert"
  BY <1>4, <1>5
<1>8. /\ DeleteSlots(t)' = DeleteSlots(t) \cup NewSlots(t, Len(o.rows)) /\ InsertSlots(t)' = InsertSlots(t)
      /\ \A s \in AllSlots(t) : Row(t, s)' = Row(t, s) /\ s[1] \in Nat /\ s[1] <= Len(ops[t])
      /\ ops' \in [Tx -> Seq(Operators)] /\ ops'[t] # <<>> /\ Len(ops'[t]) = Len(ops[t]) + 1
  BY <1>5, <1>6, <1>7, AppendOperator, Zenon
<1>9. /\ ops'[t][Len(ops[t]) + 1] = o /\ DOMAIN ops'[t] = DOMAIN ops[t] \cup {Len(ops[t]) + 1}
      /\ \A i \in DOMAIN ops[t] : ops'[t][i] = ops[t][i]
  BY <1>5, <1>6, AppendOperator
<1>10. \A s \in NewSlots(t, n) : /\ s = <<s[1], s[2]>> /\ s[1] = Len(ops[t]) + 1 /\ s[2] \in 1..n
                                 /\ Row(t, s)' = input[s[2]]
  BY <1>5, <1>9 DEF NewSlots, Row
<1>11. \A s \in NewSlots(t, n) : Row(t, s)' \in seen[t]
  BY <1>1, <1>3, <1>10
<1>12. \A s, q \in NewSlots(t, n) : Row(t, s)' = Row(t, q)' => s = q
  <2> TAKE s, q \in NewSlots(t, n)
  <2>1. s[2] \in 1..n /\ q[2] \in 1..n /\ Row(t, s)' = input[s[2]] /\ Row(t, q)' = input[q[2]]
    BY <1>10
  <2>2. s[2] = q[2] => s = q
    BY <1>10
  <2>3. QED
    BY <2>1, <2>2, <1>3
<1>13. ~AnyOrder => \A s, q \in NewSlots(t, n) : s[2] < q[2] => Row(t, s)' < Row(t, q)'
  BY <1>3, <1>10
<1>14. op'[t] = Len(ops[t]) + 1 /\ pos'[t] = 1
  BY DEF StartDelete, Ranges, ThreadRanges
<1>15. Cur(t)' \in NewSlots(t, n)
  BY <1>2, <1>14 DEF Cur, NewSlots
<1>16. \A i \in DOMAIN ops'[t] : \/ i \in DOMAIN ops[t] /\ ops'[t][i] = ops[t][i]
                                 \/ Len(ops'[t][i].rows) = n /\ i = op'[t]
  BY <1>4, <1>5, <1>9, <1>14
<1>17. QED
  BY <1>2, <1>7, <1>8, <1>10, <1>11, <1>12, <1>13, <1>14, <1>15, <1>16

\* Every other step leaves the operators as they are, but for their states.
LEMMA LayoutStays ==
  ASSUME Ranges, Positions, NEW t \in Tx, Step(t), ~StartDelete(t), ~Insert(t)
  PROVE  SameLayout
<1>1. (\A u \in Tx : ops'[u] = ops[u]) => SameLayout
  BY SameOpsSameSlots DEF SameLayout
<1>2. ops' = ops => SameLayout
  BY <1>1
<1> USE DEF At, tableVars, scanVars, threadVars
<1>3. CASE Begin(t) \/ Validate(t)
  BY <1>2, <1>3 DEF Begin, Validate, StartValidate, EnterChunk, ReadTid, ReadBegin, ReadEnd, ReturnRows
<1>4. CASE DeleteRow(t)
  <2>1. op[t] \in DOMAIN ops[t]
    BY <1>4, CurrentSlot DEF DeleteRow
  <2>2. ops' = ops \/ SetState(t, "Executed") \/ SetState(t, "Conflicted")
    BY <1>4 DEF DeleteRow
  <2>3. QED
    BY <2>1, <2>2, <1>2, SetStateKeepsLayout DEF States
<1>5. CASE CommitReadOnly(t) \/ StartCommit(t) \/ CommitInsertBegin(t) \/ CommitDeleteEnd(t) \/ MakePending(t)
           \/ Acknowledge(t)
  BY <1>2, <1>5 DEF CommitReadOnly, StartCommit, CommitInsertBegin, CommitDeleteEnd, MakePending, Acknowledge
<1>6. CASE RollbackByUser(t) \/ RollbackInsertEnd(t) \/ RollbackInsertBegin(t) \/ MarkAsRolledBack(t)
  BY <1>2, <1>6 DEF RollbackByUser, RollbackInsertEnd, RollbackInsertBegin, MarkAsRolledBack
<1>7. CASE CommitInsertTid(t) \/ CommitDeleteInvalid(t) \/ RollbackInsertTid(t) \/ RollbackDeleteRow(t)
  <2>1. op[t] \in DOMAIN ops[t]
    BY <1>7, CurrentSlot DEF CommitInsertTid, CommitDeleteInvalid, RollbackInsertTid, RollbackDeleteRow, CommitPcs, RollbackPcs
  <2>2. ops' = ops \/ SetState(t, "Committed") \/ SetState(t, "RolledBack")
    BY <1>7 DEF CommitInsertTid, CommitDeleteInvalid, RollbackInsertTid, RollbackDeleteRow, NextRow
  <2>3. QED
    BY <2>1, <2>2, <1>2, SetStateKeepsLayout DEF States
<1>8. QED
  BY <1>3, <1>4, <1>5, <1>6, <1>7 DEF Step, Delete, Commit, Rollback

----------------------------------------------------------------------------
(* Types.                                                                  *)

LEMMA ChunkBounds ==
  ASSUME NEW r \in Nat \ {0}
  PROVE  /\ ChunkOf(r) \in Nat \ {0}
         /\ (ChunkOf(r) - 1) * ChunkSize < r /\ r <= ChunkOf(r) * ChunkSize
         /\ \A c \in Nat \ {0} : (c - 1) * ChunkSize < r /\ r <= c * ChunkSize => ChunkOf(r) = c
<1> DEFINE K == ChunkSize
<1>1. K \in Nat \ {0}
  OBVIOUS
<1> HIDE DEF K
<1>2. (r - 1) \div K \in Nat
  BY <1>1
<1>3. /\ ((r - 1) \div K) * K < r /\ r <= ((r - 1) \div K + 1) * K
      /\ \A c \in Nat \ {0} : (c - 1) * K < r /\ r <= c * K => (r - 1) \div K + 1 = c
  BY <1>1
<1>4. (r - 1) \div K + 1 \in Nat \ {0} /\ ((r - 1) \div K + 1) - 1 = (r - 1) \div K
  BY <1>2
<1>5. QED
  BY <1>3, <1>4 DEF ChunkOf, K

LEMMA ChunkMonotone ==
  ASSUME NEW r \in Nat \ {0}, NEW q \in Nat \ {0}, r <= q
  PROVE  ChunkOf(r) <= ChunkOf(q)
<1> DEFINE c == ChunkOf(r)  d == ChunkOf(q)  K == ChunkSize
<1>1. c \in Nat \ {0} /\ d \in Nat \ {0} /\ (c - 1) * K < r /\ q <= d * K /\ K \in Nat \ {0}
  BY ChunkBounds
<1> HIDE DEF c, d, K
<1>2. (c - 1) * K < d * K
  <2>1. (c - 1) * K \in Int /\ d * K \in Int
    BY <1>1
  <2>2. QED
    BY <1>1, <2>1
<1>3. c - 1 < d
  BY <1>1, <1>2
<1>4. QED
  BY <1>1, <1>3 DEF c, d

LEMMA ChunksOfRows ==
  /\ \A r \in Rows : ChunkOf(r) \in Chunks
  /\ 1 \in Chunks /\ Loaded \subseteq Rows
  /\ \A r \in Rows : ChunkOf(r) = 1 <=> r \in Loaded
<1>1. ASSUME NEW r \in Rows PROVE ChunkOf(r) \in Chunks /\ (ChunkOf(r) = 1 <=> r \in Loaded)
  <2>1. r \in Nat \ {0} /\ r <= MaxRows /\ MaxRows \in Nat \ {0}
    BY DEF Rows
  <2>2. ChunkOf(r) <= ChunkOf(MaxRows) /\ ChunkOf(r) \in Nat \ {0} /\ ChunkOf(MaxRows) \in Nat \ {0}
    BY <2>1, ChunkMonotone, ChunkBounds
  <2>3. (1 - 1) * ChunkSize = 0 /\ 1 * ChunkSize = ChunkSize
    OBVIOUS
  <2>4. ChunkOf(r) = 1 => r <= ChunkSize
    BY <2>1, <2>3, ChunkBounds
  <2>5. r <= ChunkSize => ChunkOf(r) = 1
    BY <2>1, <2>3, ChunkBounds
  <2>6. QED
    BY <2>1, <2>2, <2>4, <2>5 DEF Chunks, Loaded
<1>2. 1 \in Rows /\ 1 \in Loaded /\ Loaded \subseteq Rows
  BY DEF Rows, Loaded
<1>3. QED
  BY <1>1, <1>2

LEMMA SizeFacts ==
  ASSUME Ranges
  PROVE  size \in Nat \ {0} /\ size \in Rows /\ ChunkSize <= size /\ size <= MaxRows
  BY DEF Ranges, RowRanges, Rows

LEMMA InitRanges == Init => Ranges
<1> SUFFICES ASSUME Init PROVE Ranges
  OBVIOUS
<1>1. Cardinality(Tx) \in Nat
  BY FS_CardinalityType, IsFiniteSet(Tx)
<1>2. 0 \in 0..MAX_COMMIT_ID /\ MAX_COMMIT_ID \in 0..MAX_COMMIT_ID
  BY <1>1 DEF MAX_COMMIT_ID
<1>3. RowRanges
  BY <1>2 DEF Init, RowRanges
<1>4. ThreadRanges
  <2>1. 1 \in 1..MaxRows + 1
    OBVIOUS
  <2>2. QED
    BY <2>1 DEF Init, ThreadRanges, Pcs, Phases
<1>5. ScanRanges
  BY DEF Init, ScanRanges
<1>6. ManagerRanges
  BY DEF Init, Manager!Init, ManagerRanges
<1>7. QED
  BY <1>3, <1>4, <1>5, <1>6 DEF Ranges

LEMMA ValidateRanges ==
  ASSUME IInv, NEW t \in Tx, Begin(t) \/ Validate(t)
  PROVE  Ranges'
<1> USE DEF At, Goto, tableVars, rowVars, scanVars, threadVars, managerVars
<1>0. Ranges /\ RowRanges /\ ThreadRanges /\ ScanRanges /\ ManagerRanges
  BY DEF IInv, Ranges
<1>1. RowRanges'
  BY <1>0 DEF Begin, Validate, StartValidate, EnterChunk, ReadTid, ReadBegin, ReadEnd, ReturnRows, RowRanges
<1>2. ManagerRanges'
  <2>1. CASE Begin(t)
    BY <1>0, <2>1 DEF Begin, Manager!Begin, ManagerRanges
  <2>2. CASE Validate(t)
    BY <1>0, <2>2 DEF Validate, StartValidate, EnterChunk, ReadTid, ReadBegin, ReadEnd, ReturnRows, ManagerRanges
  <2>3. QED
    BY <2>1, <2>2
<1>3. pc[t] \in {"tid", "begin", "end"} => pos[t] \in Rows
  <2> SUFFICES ASSUME pc[t] \in {"tid", "begin", "end"} PROVE pos[t] \in Rows
    OBVIOUS
  <2>1. pos[t] <= limit[t].row /\ limit[t].row <= size
    BY DEF IInv, Scan, Scanned, Scanning
  <2>2. pos[t] \in Nat \ {0} /\ limit[t].row \in Nat
    BY <1>0 DEF ThreadRanges, ScanRanges
  <2>3. QED
    BY <1>0, <2>1, <2>2, SizeFacts DEF Rows
<1>4. /\ ChunkOf(pos[t]) \in Nat /\ ChunkEnd(ChunkOf(pos[t])) \in Nat /\ ChunkEnd(ChunkOf(pos[t])) <= size
      /\ ChunkEnd(ChunkOf(pos[t])) + 1 \in 1..MaxRows + 1
      /\ pos[t]..ChunkEnd(ChunkOf(pos[t])) \subseteq Rows
  <2> DEFINE c == ChunkOf(pos[t])
  <2>1. size \in Nat /\ size <= MaxRows
    BY <1>0, SizeFacts
  <2>2. pos[t] \in Nat \ {0} /\ c \in Nat
    <3>1. pos[t] \in Nat \ {0}
      BY <1>0 DEF ThreadRanges
    <3>2. QED
      BY <3>1, ChunkBounds
  <2> HIDE DEF c
  <2>3. ChunkEnd(c) \in Nat /\ ChunkEnd(c) <= size
    BY <2>1, <2>2 DEF ChunkEnd
  <2>4. ChunkEnd(c) + 1 \in 1..MaxRows + 1 /\ pos[t]..ChunkEnd(c) \subseteq Rows
    BY <2>1, <2>2, <2>3 DEF Rows
  <2>5. QED
    BY <2>2, <2>3, <2>4 DEF c
<1>5. ThreadRanges'
  <2> USE <1>0 DEF ThreadRanges, Pcs, RunningPcs, Scanning
  <2>1. CASE Begin(t)
    BY <2>1 DEF Begin
  <2>2. CASE StartValidate(t) \/ ReadTid(t) \/ ReadBegin(t) \/ ReturnRows(t)
    <3>1. 1 \in 1..MaxRows + 1
      OBVIOUS
    <3>2. QED
      BY <2>2, <3>1 DEF StartValidate, ReadTid, ReadBegin, ReturnRows
  <2>3. CASE EnterChunk(t)
    BY <1>4, <2>3, ZenonT(40) DEF EnterChunk, AfterChunk
  <2>4. CASE ReadEnd(t)
    <3>1. pos[t] + 1 \in 1..MaxRows + 1
      BY <2>4, <1>3 DEF ReadEnd, Rows
    <3>2. QED
      BY <2>4, <3>1 DEF ReadEnd, AfterChunk
  <2>5. QED
    BY <2>1, <2>2, <2>3, <2>4 DEF Validate
<1>6. ScanRanges'
  <2> USE <1>0 DEF ScanRanges
  <2>1. CASE Begin(t)
    BY <2>1 DEF Begin
  <2>2. CASE StartValidate(t)
    <3>1. ChunkOf(size) \in Nat
      BY SizeFacts, ChunkBounds
    <3>2. QED
      BY <2>2, <3>1 DEF StartValidate
  <2>3. CASE ReadTid(t) \/ ReadBegin(t)
    <3>1. begin[pos[t]] \in Nat /\ tid[pos[t]] \in Tx \cup {NoTid}
      BY <2>3, <1>3 DEF ReadTid, ReadBegin, RowRanges
    <3>2. QED
      BY <2>3, <3>1 DEF ReadTid, ReadBegin
  <2>4. CASE EnterChunk(t)
    <3> DEFINE c == ChunkOf(pos[t])
    <3>1. limit' = limit \/ limit' = [limit EXCEPT ![t].row = ChunkEnd(c)]
      BY <2>4 DEF EnterChunk
    <3>2. ChunkEnd(c) \in Nat /\ pos[t]..ChunkEnd(c) \subseteq Rows
      BY <1>4
    <3> HIDE DEF c
    <3>3. limit' \in [Tx -> [chunk : Nat, row : Nat]]
      BY <3>1, <3>2
    <3>4. seen' \in [Tx -> SUBSET Rows]
      BY <2>4, <3>2 DEF EnterChunk, c
    <3>5. QED
      BY <2>4, <3>3, <3>4 DEF EnterChunk
  <2>5. CASE ReadEnd(t)
    BY <2>5, <1>3 DEF ReadEnd
  <2>6. CASE ReturnRows(t)
    BY <2>6 DEF ReturnRows
  <2>7. QED
    BY <2>1, <2>2, <2>3, <2>4, <2>5, <2>6 DEF Validate
<1>7. QED
  BY <1>1, <1>2, <1>5, <1>6 DEF Ranges

LEMMA WriteRowRanges ==
  ASSUME IInv, NEW t \in Tx, Delete(t) \/ Insert(t) \/ Commit(t) \/ Rollback(t)
  PROVE  RowRanges'
<1> USE DEF At, Goto, tableVars, rowVars, scanVars, threadVars, managerVars
<1>1. Ranges /\ RowRanges /\ Positions /\ CommitIds
  BY DEF IInv, Ranges
<1>2. pc[t] \in CommitPcs \cup RollbackPcs \cup {"delete"} =>
        CurrentRow(t) \in Rows /\ ChunkOf(CurrentRow(t)) \in Chunks
  BY <1>1, CurrentSlot, ChunksOfRows
<1>3. ticket[t] \in 0..MAX_COMMIT_ID /\ 0 \in 0..MAX_COMMIT_ID
  <2>1. ticket[t] \in Nat
    BY <1>1 DEF Ranges, ManagerRanges
  <2>2. QED
    BY <1>1, <2>1, CommitIdsBelowMax
<1>4. CASE \/ StartDelete(t) \/ CommitReadOnly(t) \/ StartCommit(t) \/ MakePending(t) \/ Acknowledge(t)
           \/ RollbackByUser(t) \/ MarkAsRolledBack(t)
  BY <1>1, <1>4 DEF StartDelete, CommitReadOnly, StartCommit, MakePending, Acknowledge, RollbackByUser,
                    MarkAsRolledBack, RowRanges
<1>5. CASE Insert(t)
  <2>1. tid' \in [Rows -> Tx \cup {NoTid}] /\ size' \in ChunkSize..MaxRows
    BY ZenonT(60), <1>1, <1>5, InsertMoves DEF RowRanges
  <2>2. QED
    BY <1>1, <1>5, <2>1 DEF Insert, RowRanges
<1>6. CASE DeleteRow(t) \/ CommitInsertTid(t) \/ RollbackInsertTid(t) \/ RollbackDeleteRow(t)
  BY <1>1, <1>6 DEF DeleteRow, CommitInsertTid, RollbackInsertTid, RollbackDeleteRow, RowRanges
<1>7. CASE CommitInsertBegin(t) \/ RollbackInsertBegin(t)
  BY <1>1, <1>3, <1>7 DEF CommitInsertBegin, RollbackInsertBegin, RowRanges
<1>8. CASE CommitDeleteEnd(t)
  BY <1>1, <1>3, <1>8 DEF CommitDeleteEnd, RowRanges
<1>9. CASE CommitDeleteInvalid(t)
  BY <1>1, <1>2, <1>9 DEF CommitDeleteInvalid, RowRanges, CommitPcs
<1>10. CASE RollbackInsertEnd(t)
  BY <1>1, <1>2, <1>3, <1>10 DEF RollbackInsertEnd, RowRanges, RollbackPcs
<1>11. QED
  BY <1>4, <1>5, <1>6, <1>7, <1>8, <1>9, <1>10 DEF Delete, Commit, Rollback

LEMMA WriteThreadRanges ==
  ASSUME IInv, NEW t \in Tx, Delete(t) \/ Insert(t) \/ Commit(t) \/ Rollback(t)
  PROVE  ThreadRanges'
<1> USE DEF At, Goto, tableVars, rowVars, scanVars, threadVars, managerVars
<1>1. Ranges /\ ThreadRanges /\ Positions
  BY DEF IInv, Ranges
<1>2. pc[t] \in CommitPcs \cup RollbackPcs \cup {"delete"} =>
        /\ op[t] \in DOMAIN ops[t]
        /\ pos[t] < Len(Current(t).rows) => pos[t] + 1 \in 1..MaxRows + 1
        /\ pos[t] = Len(Current(t).rows) => pos[t] + 1 \in 1..MaxRows + 1
  <2> SUFFICES ASSUME pc[t] \in CommitPcs \cup RollbackPcs \cup {"delete"}
               PROVE  op[t] \in DOMAIN ops[t] /\ pos[t] + 1 \in 1..MaxRows + 1
    OBVIOUS
  <2>1. op[t] \in DOMAIN ops[t] /\ pos[t] <= Len(Current(t).rows) /\ Len(Current(t).rows) \in 1..MaxRows
    BY <1>1, CurrentSlot
  <2>2. pos[t] \in Nat
    BY <1>1 DEF ThreadRanges
  <2>3. QED
    BY <2>1, <2>2
<1>3. 1 \in 1..MaxRows + 1 /\ 1 \in Nat \ {0}
  OBVIOUS
<1>r. /\ phase \in [Tx -> Phases] /\ pc \in [Tx -> Pcs] /\ ops \in [Tx -> Seq(Operators)]
      /\ op \in [Tx -> Nat \ {0}] /\ pos \in [Tx -> 1..MaxRows + 1]
  BY <1>1 DEF ThreadRanges
<1>4. CASE StartDelete(t)
  <2>1. ops' \in [Tx -> Seq(Operators)]
    BY <1>1, <1>4, StartDeleteMoves
  <2>2. Len(ops[t]) + 1 \in Nat \ {0}
    BY <1>1 DEF ThreadRanges
  <2>3. QED
    BY <1>1, <1>3, <1>4, <2>1, <2>2 DEF StartDelete, ThreadRanges, Pcs, RunningPcs
<1>5. CASE DeleteRow(t)
  <2>1. op[t] \in DOMAIN ops[t]
    BY <1>2, <1>5 DEF DeleteRow
  <2>2. ops' = ops \/ SetState(t, "Executed") \/ SetState(t, "Conflicted")
    BY <1>5 DEF DeleteRow
  <2>3. ops' \in [Tx -> Seq(Operators)]
    BY <1>1, <2>1, <2>2, SetStateType DEF States, ThreadRanges
  <2>4. pos' \in [Tx -> 1..MaxRows + 1] /\ op' \in [Tx -> Nat \ {0}]
    <3>1. pos[t] + 1 \in 1..MaxRows + 1
      <4>1. pos[t] <= Len(Current(t).rows) /\ Len(Current(t).rows) \in 1..MaxRows
        BY <1>1, <1>5, CurrentSlot DEF DeleteRow
      <4>2. pos[t] \in Nat
        BY <1>1 DEF ThreadRanges
      <4>3. QED
        BY <4>1, <4>2
    <3>2. QED
      BY <1>r, <1>3, <1>5, <3>1 DEF DeleteRow
  <2>5. pc' \in [Tx -> Pcs] /\ phase' \in [Tx -> Phases]
    BY <1>1, <1>5 DEF DeleteRow, ThreadRanges, Pcs, Phases, RunningPcs, RollbackPcs
  <2>6. QED
    BY <2>3, <2>4, <2>5 DEF ThreadRanges
<1>6. CASE Insert(t)
  <2>1. ops' \in [Tx -> Seq(Operators)]
    BY <1>1, <1>6, InsertMoves
  <2>2. QED
    BY <1>1, <1>6, <2>1 DEF Insert, ThreadRanges
<1>7. CASE CommitReadOnly(t) \/ StartCommit(t) \/ CommitInsertBegin(t) \/ CommitDeleteEnd(t)
           \/ MakePending(t) \/ Acknowledge(t)
  <2>1. ops' = ops
    BY <1>7 DEF CommitReadOnly, StartCommit, CommitInsertBegin, CommitDeleteEnd, MakePending, Acknowledge
  <2>2. pc' \in [Tx -> Pcs] /\ phase' \in [Tx -> Phases]
    BY <1>r, <1>7 DEF CommitReadOnly, StartCommit, CommitInsertBegin, CommitDeleteEnd, MakePending,
                      Acknowledge, Pcs, CommitPcs, Phases
  <2>3. op' \in [Tx -> Nat \ {0}] /\ pos' \in [Tx -> 1..MaxRows + 1]
    BY <1>r, <1>3, <1>7 DEF CommitReadOnly, StartCommit, CommitInsertBegin, CommitDeleteEnd, MakePending,
                            Acknowledge
  <2>4. QED
    BY <1>r, <2>1, <2>2, <2>3 DEF ThreadRanges
<1>8. CASE CommitInsertTid(t) \/ CommitDeleteInvalid(t)
  <2>1. NextRow(t, "Committed", "commit", "pending") /\ pc[t] \in CommitPcs /\ phase' = phase
    BY <1>8 DEF CommitInsertTid, CommitDeleteInvalid, CommitPcs
  <2>2. QED
    BY <1>1, <2>1, NextRowMoves DEF ThreadRanges, States, Pcs, CommitPcs
<1>9. CASE RollbackByUser(t) \/ RollbackInsertBegin(t) \/ MarkAsRolledBack(t)
  <2>1. ops' = ops
    BY <1>9 DEF RollbackByUser, RollbackInsertBegin, MarkAsRolledBack
  <2>2. pc' \in [Tx -> Pcs] /\ phase' \in [Tx -> Phases]
    BY <1>r, <1>9 DEF RollbackByUser, RollbackInsertBegin, MarkAsRolledBack, Pcs, RollbackPcs, Phases
  <2>3. op' \in [Tx -> Nat \ {0}] /\ pos' \in [Tx -> 1..MaxRows + 1]
    BY <1>r, <1>3, <1>9 DEF RollbackByUser, RollbackInsertBegin, MarkAsRolledBack
  <2>4. QED
    BY <1>r, <2>1, <2>2, <2>3 DEF ThreadRanges
<1>10. CASE RollbackInsertEnd(t)
  <2>1. /\ pos[t] < Len(Current(t).rows) => pos[t] + 1 \in 1..MaxRows + 1
        /\ ops' = ops /\ op' = op /\ phase' = phase
    BY <1>2, <1>10 DEF RollbackInsertEnd, RollbackPcs
  <2>2. pos' \in [Tx -> 1..MaxRows + 1]
    BY <1>1, <1>3, <1>10, <2>1 DEF RollbackInsertEnd, ThreadRanges
  <2>3. pc' \in [Tx -> Pcs]
    BY <1>1, <1>10 DEF RollbackInsertEnd, ThreadRanges, Pcs, RollbackPcs
  <2>4. QED
    BY <1>1, <2>1, <2>2, <2>3 DEF ThreadRanges
<1>11. CASE RollbackInsertTid(t)
  <2>1. CASE pos[t] < Len(Current(t).rows)
    <3>1. pos[t] + 1 \in 1..MaxRows + 1
      BY <1>2, <1>11, <2>1 DEF RollbackInsertTid, RollbackPcs
    <3>2. QED
      BY ZenonT(60), <1>1, <1>11, <2>1, <3>1 DEF RollbackInsertTid, ThreadRanges, Pcs, RollbackPcs
  <2>2. CASE ~(pos[t] < Len(Current(t).rows))
    <3>1. NextRow(t, "RolledBack", "rollback", "rolledBack") /\ pc[t] \in RollbackPcs /\ phase' = phase
      BY <1>11, <2>2 DEF RollbackInsertTid, RollbackPcs
    <3>2. QED
      BY <1>1, <3>1, NextRowMoves DEF ThreadRanges, States, Pcs, RollbackPcs
  <2>3. QED
    BY <2>1, <2>2
<1>12. CASE RollbackDeleteRow(t)
  <2>1. CASE tid[CurrentRow(t)] = t
    <3>1. NextRow(t, "RolledBack", "rollback", "rolledBack") /\ pc[t] \in RollbackPcs /\ phase' = phase
      BY <1>12, <2>1 DEF RollbackDeleteRow, RollbackPcs
    <3>2. QED
      BY <1>1, <3>1, NextRowMoves DEF ThreadRanges, States, Pcs, RollbackPcs
  <2>2. CASE tid[CurrentRow(t)] # t
    <3>1. SetState(t, "RolledBack") /\ op[t] \in DOMAIN ops[t]
      BY <1>2, <1>12, <2>2 DEF RollbackDeleteRow, RollbackPcs
    <3>2. ops' \in [Tx -> Seq(Operators)]
      BY <1>1, <3>1, SetStateType DEF States
    <3>3. QED
      <4>1. pc' \in [Tx -> Pcs] /\ phase' = phase
        BY <1>r, <1>12, <2>2 DEF RollbackDeleteRow, Pcs, RollbackPcs
      <4>2. op' \in [Tx -> Nat \ {0}] /\ pos' \in [Tx -> 1..MaxRows + 1]
        <5>1. op[t] + 1 \in Nat \ {0}
          BY <1>r
        <5>2. op' = [op EXCEPT ![t] = op[t] + 1] /\ pos' = [pos EXCEPT ![t] = 1]
          BY <1>12, <2>2 DEF RollbackDeleteRow
        <5>3. QED
          BY <1>r, <1>3, <5>1, <5>2
      <4>3. QED
        BY <1>r, <3>2, <4>1, <4>2 DEF ThreadRanges
  <2>3. QED
    BY <2>1, <2>2
<1>13. QED
  BY <1>4, <1>5, <1>6, <1>7, <1>8, <1>9, <1>10, <1>11, <1>12 DEF Delete, Commit, Rollback

LEMMA RangesStep ==
  ASSUME IInv, [Next]_vars
  PROVE  Ranges'
<1>0. Ranges /\ RowRanges /\ ThreadRanges /\ ScanRanges /\ ManagerRanges
  BY DEF IInv, Ranges
<1>1. ASSUME NEW t \in Tx, Begin(t) \/ Validate(t) PROVE Ranges'
  BY <1>1, ValidateRanges
<1>2. ASSUME NEW t \in Tx, Delete(t) \/ Insert(t) \/ Commit(t) \/ Rollback(t) PROVE Ranges'
  <2> USE DEF tableVars, rowVars, scanVars, threadVars, managerVars
  <2>1. RowRanges' /\ ThreadRanges'
    BY <1>2, WriteRowRanges, WriteThreadRanges
  <2>2. ManagerRanges'
    <3>1. CASE StartCommit(t) \/ MakePending(t) \/ Acknowledge(t)
      BY <1>0, <3>1 DEF StartCommit, MakePending, Acknowledge, Manager!TakeTicket, Manager!MakeReady,
                        Manager!Acknowledge, ManagerRanges
    <3>2. CASE ~(StartCommit(t) \/ MakePending(t) \/ Acknowledge(t))
      <4>1. UNCHANGED managerVars
        BY <1>2, <3>2, ManagerStays
      <4>2. QED
        BY <1>0, <4>1 DEF ManagerRanges
    <3>3. QED
      BY <3>1, <3>2
  <2>3. ScanRanges'
    BY <1>0, <1>2 DEF Delete, StartDelete, DeleteRow, Insert, Commit, CommitReadOnly, StartCommit,
         CommitInsertBegin, CommitInsertTid, CommitDeleteEnd, CommitDeleteInvalid, MakePending, Acknowledge,
         Rollback, RollbackByUser, RollbackInsertEnd, RollbackInsertBegin, RollbackInsertTid,
         RollbackDeleteRow, MarkAsRolledBack, ScanRanges
  <2>4. QED
    BY <2>1, <2>2, <2>3 DEF Ranges
<1>3. CASE Advance
  BY SMTT(60), <1>0, <1>3 DEF Advance, Manager!Advance, tableVars, rowVars, scanVars, threadVars, Ranges, RowRanges,
                    ThreadRanges, ScanRanges, ManagerRanges
<1>4. CASE UNCHANGED vars
  BY <1>0, <1>4 DEF vars, tableVars, rowVars, scanVars, threadVars, managerVars, Ranges, RowRanges,
                    ThreadRanges, ScanRanges, ManagerRanges
<1>5. QED
  BY <1>1, <1>2, <1>3, <1>4 DEF Next, Finished

----------------------------------------------------------------------------
(* Positions.                                                              *)

\* What a step does to the positions and slots of its own thread.
LEMMA PlaceStep ==
  ASSUME IInv, NEW t \in Tx, Step(t)
  PROVE  Place(t)'
<1> USE DEF At, Goto, tableVars, scanVars, threadVars
<1>1. Ranges /\ ThreadRanges /\ Positions /\ Place(t)
  BY DEF IInv, Ranges, Positions
<1>2. /\ phase \in [Tx -> Phases] /\ pc \in [Tx -> Pcs] /\ ops \in [Tx -> Seq(Operators)]
      /\ op \in [Tx -> Nat \ {0}] /\ pos \in [Tx -> 1..MaxRows + 1]
  BY <1>1 DEF ThreadRanges
<1> DEFINE Same == /\ InsertSlots(t)' = InsertSlots(t) /\ DeleteSlots(t)' = DeleteSlots(t)
                   /\ AllSlots(t)' = AllSlots(t) /\ Len(ops'[t]) = Len(ops[t])
                   /\ \A i \in DOMAIN ops'[t] : Len(ops'[t][i].rows) \in 1..MaxRows
<1>3. ~StartDelete(t) /\ ~Insert(t) => Same
  BY <1>1, LayoutStays DEF SameLayout, SameSlots, Place
<1> HIDE DEF Same
<1>4. CASE Begin(t) \/ Validate(t)
  <2>1. /\ pc'[t] \in RunningPcs \ {"delete"} /\ ops' = ops
        /\ Same
    BY <1>2, <1>3, <1>4 DEF Begin, Validate, StartValidate, EnterChunk, AfterChunk, ReadTid, ReadBegin, ReadEnd,
                       ReturnRows, RunningPcs, Scanning, StartDelete, Insert
  <2>2. QED
    BY <2>1 DEF Place, Same, RunningPcs, Scanning, CommitPcs, RollbackPcs, SecondLoop
<1>5. CASE StartDelete(t)
  <2>1. pc'[t] = "delete"
    BY <1>2, <1>5 DEF StartDelete
  <2>2. PICK n \in 1..MaxRows :
          /\ DeleteSlots(t)' = DeleteSlots(t) \cup NewSlots(t, n)
          /\ op'[t] = Len(ops[t]) + 1 /\ Cur(t)' \in NewSlots(t, n) /\ Len(ops'[t]) = Len(ops[t]) + 1
          /\ \A i \in DOMAIN ops'[t] : \/ i \in DOMAIN ops[t] /\ ops'[t][i] = ops[t][i]
                                       \/ Len(ops'[t][i].rows) = n /\ i = op'[t]
    BY <1>1, <1>5, StartDeleteMoves
  <2>3. \A i \in DOMAIN ops'[t] : Len(ops'[t][i].rows) \in 1..MaxRows
    BY <1>1, <2>2 DEF Place
  <2>4. QED
    BY <2>1, <2>2, <2>3 DEF Place, CommitPcs, RollbackPcs, SecondLoop
<1>6. CASE Insert(t)
  <2>1. pc'[t] = "active"
    BY <1>2, <1>6 DEF Insert
  <2>2. PICK n \in 1..MaxRows :
          \A i \in DOMAIN ops'[t] : \/ i \in DOMAIN ops[t] /\ ops'[t][i] = ops[t][i]
                                    \/ Len(ops'[t][i].rows) = n /\ ops'[t][i].state = "Executed"
    BY <1>1, <1>6, InsertMoves
  <2>3. \A i \in DOMAIN ops'[t] : Len(ops'[t][i].rows) \in 1..MaxRows
    BY <1>1, <2>2 DEF Place
  <2>4. QED
    BY <2>1, <2>3 DEF Place, CommitPcs, RollbackPcs, SecondLoop
<1> SUFFICES ASSUME Same, ~Begin(t), ~Validate(t), ~StartDelete(t), ~Insert(t) PROVE Place(t)'
  BY <1>3, <1>4, <1>5, <1>6
<1> USE DEF Same
<1>7. CASE DeleteRow(t)
  <2>1. /\ op[t] \in DOMAIN ops[t] /\ pos[t] <= Len(Current(t).rows)
        /\ Len(Current(t).rows) \in 1..MaxRows /\ Cur(t) \in DeleteSlots(t) /\ op[t] = Len(ops[t])
    BY <1>1, <1>7, CurrentSlot DEF DeleteRow, Place
  <2>2. CASE pc'[t] = "active"
    BY <2>2 DEF Place, CommitPcs, RollbackPcs, SecondLoop
  <2>3. CASE pc' = pc
    <3>1. pc'[t] = "delete" /\ ops' = ops /\ op' = op /\ pos' = [pos EXCEPT ![t] = @ + 1] /\ pos[t] # Len(Current(t).rows)
      BY <1>2, <1>7, <2>3 DEF DeleteRow
    <3>2. pos'[t] = pos[t] + 1 /\ pos[t] + 1 \in 1..Len(Current(t).rows)
      BY <1>2, <2>1, <3>1
    <3>3. pos[t] + 1 \in DOMAIN ops[t][op[t]].rows
      <4>1. ops[t][op[t]] \in Operators
        BY <1>2, <2>1
      <4>2. QED
        BY <3>2, <4>1 DEF Current, Operators
    <3>4. Current(t).type = "Delete"
      BY <1>1, <1>7, <2>1, CurrentSlot DEF DeleteRow
    <3>5. <<op[t], pos[t] + 1>> \in DeleteSlots(t)
      BY <1>1, <2>1, <3>3, <3>4, IsSlot DEF Current
    <3>6. Cur(t)' \in DeleteSlots(t)
      BY <3>1, <3>2, <3>5 DEF Cur
    <3>7. QED
      BY <2>1, <3>1, <3>6 DEF Place, CommitPcs, RollbackPcs, SecondLoop
  <2>4. CASE pc'[t] = "rollback"
    <3>1. op'[t] = 1 /\ pos'[t] = 1
      BY <1>2, <1>7, <2>4 DEF DeleteRow
    <3>2. Cur(t)' \in AllSlots(t)
      <4>1. 1 \in DOMAIN ops[t]
        BY <1>2, <2>1
      <4>2. ops[t][1] \in Operators /\ Len(ops[t][1].rows) \in 1..MaxRows
        BY <1>1, <1>2, <4>1 DEF Place
      <4>3. 1 \in DOMAIN ops[t][1].rows
        BY <4>2 DEF Operators
      <4>4. QED
        BY <1>1, <3>1, <4>1, <4>3, IsSlot DEF Cur
    <3>3. QED
      BY <2>4, <3>2 DEF Place, CommitPcs, RollbackPcs, SecondLoop
  <2>5. QED
    BY <1>2, <1>7, <2>2, <2>3, <2>4 DEF DeleteRow
<1>8. CASE StartCommit(t) \/ RollbackByUser(t)
  <2>1. op'[t] = 1 /\ pos'[t] = 1 /\ ops' = ops
    BY <1>2, <1>8 DEF StartCommit, RollbackByUser
  <2>2. CASE ops[t] = <<>>
    <3>1. pc'[t] = "rolledBack" /\ Len(ops'[t]) = 0
      BY <1>2, <1>8, <2>1, <2>2 DEF StartCommit, RollbackByUser
    <3>2. QED
      BY <2>1, <3>1 DEF Place, CommitPcs, RollbackPcs, SecondLoop
  <2>3. CASE ops[t] # <<>>
    <3>1. pc'[t] \in {"commit", "rollback"}
      BY <1>2, <1>8, <2>3 DEF StartCommit, RollbackByUser
    <3>2. 1 \in DOMAIN ops[t]
      BY <1>2, <2>3
    <3>3. ops[t][1] \in Operators /\ Len(ops[t][1].rows) \in 1..MaxRows
      BY <1>1, <1>2, <3>2 DEF Place
    <3>4. 1 \in DOMAIN ops[t][1].rows
      BY <3>3 DEF Operators
    <3>5. Cur(t)' \in AllSlots(t)
      BY <1>1, <2>1, <3>2, <3>4, IsSlot DEF Cur
    <3>6. QED
      BY <3>1, <3>5 DEF Place, CommitPcs, RollbackPcs, SecondLoop
  <2>4. QED
    BY <2>2, <2>3
<1>9. CASE CommitInsertBegin(t) \/ CommitDeleteEnd(t) \/ RollbackInsertBegin(t)
  <2>1. /\ Cur(t)' = Cur(t) /\ Cur(t) \in AllSlots(t)
        /\ Cur(t) \in InsertSlots(t) <=> Current(t).type = "Insert"
        /\ Cur(t) \in DeleteSlots(t) <=> Current(t).type = "Delete"
        /\ pc[t] = "rollbackBegin" => Cur(t) \in InsertSlots(t)
    BY <1>1, <1>9, CurrentSlot DEF CommitInsertBegin, CommitDeleteEnd, RollbackInsertBegin, Cur, CommitPcs,
                                   RollbackPcs, Place, SecondLoop
  <2>2. \/ pc'[t] = "commitTid" /\ Current(t).type = "Insert"
        \/ pc'[t] = "commitInvalid" /\ Current(t).type = "Delete"
        \/ pc'[t] = "rollbackTid" /\ pc[t] = "rollbackBegin"
    BY <1>2, <1>9 DEF CommitInsertBegin, CommitDeleteEnd, RollbackInsertBegin
  <2>3. QED
    BY <2>1, <2>2 DEF Place, CommitPcs, RollbackPcs, SecondLoop
<1>10. CASE RollbackInsertEnd(t) \/ (RollbackInsertTid(t) /\ pos[t] < Len(Current(t).rows))
  <2>1. /\ Cur(t) \in InsertSlots(t) /\ op[t] \in DOMAIN ops[t] /\ Current(t).type = "Insert"
        /\ Len(Current(t).rows) \in 1..MaxRows
    <3>1. Cur(t) \in InsertSlots(t) \/ Current(t).type = "Insert"
      BY <1>1, <1>10 DEF RollbackInsertEnd, RollbackInsertTid, Place, SecondLoop
    <3>2. QED
      BY <1>1, <1>10, <3>1, CurrentSlot DEF RollbackInsertEnd, RollbackInsertTid, RollbackPcs
  <2>2. op' = op
    BY <1>10 DEF RollbackInsertEnd, RollbackInsertTid
  <2>3. pos'[t] \in 1..Len(Current(t).rows) /\ pc'[t] \in {"rollback", "rollbackBegin"}
    BY <1>2, <1>10, <2>1 DEF RollbackInsertEnd, RollbackInsertTid
  <2>4. pos'[t] \in DOMAIN ops[t][op[t]].rows
    <3>1. ops[t][op[t]] \in Operators
      BY <1>2, <2>1
    <3>2. QED
      BY <2>3, <3>1 DEF Current, Operators
  <2>5. Cur(t)' \in InsertSlots(t)
    <3>1. <<op[t], pos'[t]>> \in InsertSlots(t)
      BY <1>1, <2>1, <2>4, IsSlot DEF Current
    <3>2. QED
      BY <2>2, <3>1 DEF Cur
  <2>6. QED
    BY <2>3, <2>5 DEF Place, AllSlots, CommitPcs, RollbackPcs, SecondLoop
<1>11. CASE \/ CommitInsertTid(t) \/ CommitDeleteInvalid(t)
            \/ (RollbackInsertTid(t) /\ ~(pos[t] < Len(Current(t).rows)))
            \/ (RollbackDeleteRow(t) /\ tid[CurrentRow(t)] = t)
  <2>1. PICK row \in {"commit", "rollback"}, label \in {"pending", "rolledBack"}, state \in States :
          NextRow(t, state, row, label) /\ pc[t] \in CommitPcs \cup RollbackPcs
    BY <1>11 DEF CommitInsertTid, CommitDeleteInvalid, RollbackInsertTid, RollbackDeleteRow, States,
                 CommitPcs, RollbackPcs
  <2>2. /\ pc'[t] \in {row, label} /\ ops'[t] # <<>>
        /\ pc'[t] = row => Cur(t)' \in AllSlots(t)
        /\ pc'[t] = label => op'[t] > Len(ops[t])
    BY <1>1, <2>1, NextRowMoves DEF Pcs, CommitPcs, RollbackPcs
  <2>3. QED
    BY <2>2 DEF Place, CommitPcs, RollbackPcs, SecondLoop
<1>12. CASE RollbackDeleteRow(t) /\ tid[CurrentRow(t)] # t
  <2>1. op'[t] = op[t] + 1 /\ pos'[t] = 1 /\ pc'[t] = (IF op[t] < Len(ops[t]) THEN "rollback" ELSE "rolledBack")
    BY <1>2, <1>12 DEF RollbackDeleteRow
  <2>2. op[t] \in Nat /\ Len(ops[t]) \in Nat
    BY <1>2
  <2>3. CASE op[t] < Len(ops[t])
    <3>1. op[t] + 1 \in DOMAIN ops[t]
      BY <1>2, <2>3
    <3>2. ops[t][op[t] + 1] \in Operators /\ Len(ops[t][op[t] + 1].rows) \in 1..MaxRows
      BY <1>1, <1>2, <3>1 DEF Place
    <3>3. 1 \in DOMAIN ops[t][op[t] + 1].rows
      BY <3>2 DEF Operators
    <3>4. Cur(t)' \in AllSlots(t)
      BY <1>1, <2>1, <3>1, <3>3, IsSlot DEF Cur
    <3>5. QED
      BY <2>1, <2>3, <3>4 DEF Place, CommitPcs, RollbackPcs, SecondLoop
  <2>4. CASE ~(op[t] < Len(ops[t]))
    BY <2>1, <2>2, <2>4 DEF Place, CommitPcs, RollbackPcs, SecondLoop
  <2>5. QED
    BY <2>3, <2>4
<1>13. CASE CommitReadOnly(t)
  <2>1. pc'[t] = "gone" /\ ops'[t] = <<>>
    BY <1>2, <1>13 DEF CommitReadOnly
  <2>2. QED
    BY <2>1 DEF Place, CommitPcs, RollbackPcs, SecondLoop
<1>14. CASE MakePending(t) \/ Acknowledge(t) \/ MarkAsRolledBack(t)
  <2>1. /\ pc[t] \in {"pending", "await", "rolledBack"} /\ op' = op /\ ops' = ops
        /\ pc'[t] \in {"await", "gone"} /\ (pc'[t] = "await" => pc[t] = "pending")
    BY <1>2, <1>14 DEF MakePending, Acknowledge, MarkAsRolledBack
  <2>2. op'[t] > Len(ops'[t]) /\ (pc'[t] = "await" => ops'[t] # <<>>)
    BY <1>1, <2>1 DEF Place
  <2>3. QED
    BY <2>1, <2>2 DEF Place, CommitPcs, RollbackPcs, SecondLoop
<1>15. QED
  BY <1>7, <1>8, <1>9, <1>10, <1>11, <1>12, <1>13, <1>14 DEF Step, Delete, Commit, Rollback

LEMMA StandingStep ==
  ASSUME IInv, NEW t \in Tx, Step(t)
  PROVE  Standing(t)'
<1> USE DEF At, Goto, tableVars, scanVars, threadVars, managerVars
<1>1. Ranges /\ Positions /\ Place(t) /\ Standing(t) /\ CommitIds
  BY DEF IInv, Positions
<1>2. /\ phase \in [Tx -> Phases] /\ pc \in [Tx -> Pcs] /\ ops \in [Tx -> Seq(Operators)]
      /\ op \in [Tx -> Nat \ {0}] /\ ticket \in [Tx -> Nat] /\ view \in [Tx -> Nat]
      /\ issued \in Nat /\ horizon \in Nat /\ horizon # 0
  BY <1>1 DEF Ranges, ThreadRanges, ManagerRanges, CommitIds
<1> USE DEF Standing, RunningPcs, Scanning, CommitPcs, RollbackPcs, Running
<1>3. CASE Begin(t)
  <2>1. pc'[t] = "active" /\ pc[t] = "idle" /\ view'[t] = horizon /\ ready' = ready
        /\ ops' = ops /\ phase' = phase /\ ticket' = ticket
    BY <1>2, <1>3 DEF Begin, Manager!Begin
  <2>2. ops[t] = <<>> /\ phase[t] = "Active"
    BY <1>1, <2>1 DEF Place
  <2>3. DOMAIN ops[t] = {}
    BY <2>2
  <2>4. QED
    BY <1>1, <1>2, <2>1, <2>2, <2>3
<1>4. CASE StartCommit(t)
  <2>1. /\ pc[t] = "active" /\ pc'[t] = "commit" /\ phase'[t] = "Committing" /\ ops' = ops /\ ops[t] # <<>>
        /\ ticket'[t] = issued + 1 /\ ready' = ready /\ view' = view
    BY <1>2, <1>4 DEF StartCommit, Manager!TakeTicket
  <2>2. ticket'[t] # 0
    BY <1>2, <2>1
  <2>3. QED
    BY <1>1, <2>1, <2>2
<1>5. CASE MakePending(t) \/ Acknowledge(t)
  <2>1. /\ ops' = ops /\ ticket' = ticket /\ view' = view
        /\ pc'[t] \in {"await", "gone"} /\ (pc'[t] = "await" => pc[t] = "pending" /\ phase' = phase)
        /\ (pc'[t] = "gone" => pc[t] = "await" /\ phase'[t] = "Committed" /\ ready' = ready)
        /\ (pc'[t] = "await" => t \in ready')
    BY <1>2, <1>5 DEF MakePending, Acknowledge, Manager!MakeReady, Manager!Acknowledge
  <2>2. phase[t] = "Committing" /\ ops[t] # <<>>
    BY <1>1, <2>1, <1>5 DEF MakePending, Acknowledge, Place
  <2>3. QED
    BY <1>1, <2>1, <2>2
<1> SUFFICES ASSUME ~Begin(t), ~StartCommit(t), ~MakePending(t), ~Acknowledge(t) PROVE Standing(t)'
  BY <1>3, <1>4, <1>5
<1>6. ticket' = ticket /\ view' = view /\ ready' = ready
  BY ManagerStays DEF Step
<1>7. CASE Validate(t)
  <2>1. /\ pc[t] \in RunningPcs \ {"delete"} /\ pc'[t] \in RunningPcs \ {"delete"} /\ ops' = ops /\ phase' = phase
    BY <1>2, <1>7 DEF Validate, StartValidate, EnterChunk, AfterChunk, ReadTid, ReadBegin, ReadEnd, ReturnRows
  <2>2. QED
    BY <1>1, <1>6, <2>1
<1>8. CASE StartDelete(t)
  <2>1. pc[t] = "validated" /\ pc'[t] = "delete" /\ phase' = phase
    BY <1>2, <1>8 DEF StartDelete
  <2>2. /\ ops'[t] # <<>>
        /\ \A i \in DOMAIN ops'[t] : \/ i \in DOMAIN ops[t] /\ ops'[t][i] = ops[t][i]
                                     \/ i = op'[t]
    BY <1>1, <1>8, StartDeleteMoves
  <2>3. QED
    BY <1>1, <1>6, <2>1, <2>2
<1>9. CASE Insert(t)
  <2>1. pc[t] = "active" /\ pc' = pc /\ phase' = phase
    BY <1>2, <1>9 DEF Insert
  <2>2. /\ ops'[t] # <<>>
        /\ \A i \in DOMAIN ops'[t] : \/ i \in DOMAIN ops[t] /\ ops'[t][i] = ops[t][i]
                                     \/ ops'[t][i].state = "Executed"
    BY <1>1, <1>9, InsertMoves
  <2>3. QED
    BY <1>1, <1>6, <2>1, <2>2
<1>10. CASE DeleteRow(t)
  <2>1. pc[t] = "delete" /\ op[t] \in DOMAIN ops[t] /\ op[t] = Len(ops[t])
    BY <1>1, <1>10, CurrentSlot DEF DeleteRow, Place
  <2>2. ticket[t] = 0 /\ phase[t] = "Active" /\ t \notin ready /\ view[t] # 0
    BY <1>1, <2>1
  <2>3. CASE pc'[t] = "rollback"
    <3>1. phase'[t] = "Conflicted"
      BY <1>2, <1>10, <2>3 DEF DeleteRow
    <3>2. QED
      BY <1>6, <2>2, <2>3, <3>1
  <2>4. CASE pc' = pc
    <3>1. ops' = ops /\ op' = op /\ phase' = phase
      BY <1>2, <1>10, <2>1, <2>4 DEF DeleteRow
    <3>2. QED
      BY <1>1, <1>6, <2>1, <2>4, <3>1
  <2>5. CASE pc'[t] = "active"
    <3>1. SetState(t, "Executed") /\ phase' = phase
      BY <1>2, <1>10, <2>1, <2>5 DEF DeleteRow
    <3>2. /\ \A i \in DOMAIN ops[t] : ops'[t][i].state = IF i = op[t] THEN "Executed" ELSE ops[t][i].state
          /\ DOMAIN ops'[t] = DOMAIN ops[t]
      BY <1>1, <2>1, <3>1, SetStateStates, SetStateKeepsLayout DEF States, SameLayout, SameSlots
    <3>3. QED
      BY <1>1, <1>6, <2>1, <2>2, <2>5, <3>1, <3>2
  <2>6. QED
    BY <1>2, <1>10, <2>3, <2>4, <2>5 DEF DeleteRow
<1>11. CASE CommitReadOnly(t)
  <2>1. pc[t] = "active" /\ pc'[t] = "gone" /\ phase'[t] = "Committed" /\ ops' = ops /\ ops[t] = <<>>
    BY <1>2, <1>11 DEF CommitReadOnly
  <2>2. QED
    BY <1>1, <1>6, <2>1
<1>12. CASE CommitInsertBegin(t) \/ CommitDeleteEnd(t)
  <2>1. pc[t] \in CommitPcs /\ pc'[t] \in CommitPcs /\ ops' = ops /\ phase' = phase
    BY <1>2, <1>12 DEF CommitInsertBegin, CommitDeleteEnd
  <2>2. QED
    BY <1>1, <1>6, <2>1
<1>13. CASE CommitInsertTid(t) \/ CommitDeleteInvalid(t)
  <2>1. NextRow(t, "Committed", "commit", "pending") /\ pc[t] \in CommitPcs /\ phase' = phase
    BY SMTT(60), <1>13 DEF CommitInsertTid, CommitDeleteInvalid
  <2>2. /\ pc'[t] \in {"commit", "pending"} /\ ops'[t] # <<>>
        /\ \A i \in DOMAIN ops[t] : ops'[t][i].state \in {ops[t][i].state, "Committed"}
        /\ DOMAIN ops'[t] = DOMAIN ops[t]
    BY <1>1, <2>1, NextRowMoves DEF Pcs, States, SameLayout, SameSlots
  <2>3. phase[t] = "Committing" /\ ticket[t] # 0
    <3>1. op[t] \in DOMAIN ops[t]
      BY <1>1, <2>1, CurrentSlot
    <3>2. \A x : x = <<>> => op[t] \notin DOMAIN x
      OBVIOUS
    <3>3. ops[t] # <<>>
      BY <3>1, <3>2
    <3>4. QED
      BY <1>1, <2>1, <3>3
  <2>4. QED
    BY <1>1, <1>6, <2>1, <2>2, <2>3
<1>14. CASE RollbackByUser(t)
  <2>1. pc[t] = "active" /\ pc'[t] \in {"rolledBack", "rollback"} /\ ops' = ops /\ phase' = phase
    BY <1>2, <1>14 DEF RollbackByUser
  <2>2. QED
    BY <1>1, <1>6, <2>1
<1>15. CASE RollbackInsertEnd(t) \/ RollbackInsertBegin(t) \/ RollbackInsertTid(t) \/ RollbackDeleteRow(t)
  <2>1. pc[t] \in RollbackPcs /\ pc'[t] \in RollbackPcs \cup {"rolledBack"} /\ phase' = phase
    BY <1>2, <1>15 DEF RollbackInsertEnd, RollbackInsertBegin, RollbackInsertTid, RollbackDeleteRow, NextRow
  <2>2. QED
    BY <1>1, <1>6, <2>1
<1>16. CASE MarkAsRolledBack(t)
  <2>1. pc[t] = "rolledBack" /\ pc'[t] = "gone" /\ phase'[t] \in {"RolledBackByUser", "RolledBackAfterConflict"}
    BY <1>2, <1>16 DEF MarkAsRolledBack
  <2>2. QED
    BY <1>1, <1>6, <2>1
<1>17. QED
  BY <1>7, <1>8, <1>9, <1>10, <1>11, <1>12, <1>13, <1>14, <1>15, <1>16 DEF Step, Delete, Commit, Rollback

\* A thread that does not step stays where it is.
LEMMA NoStep ==
  ASSUME Advance \/ UNCHANGED vars, NEW u \in Tx
  PROVE  SameThread(u) /\ UNCHANGED <<tid, begin, end, size, invalid, ticket, view, ready>>
  BY SameThreadIfUnchanged DEF Advance, Manager!Advance, vars, tableVars, rowVars, scanVars, threadVars, managerVars

LEMMA SameThreadSamePlace ==
  ASSUME IInv, NEW u \in Tx, SameThread(u)
  PROVE  Place(u)' /\ Standing(u)'
<1>1. Place(u) /\ Standing(u)
  BY DEF IInv, Positions
<1>2. Place(u)'
  BY <1>1 DEF SameThread, SameSlots, Place
<1>3. Standing(u)'
  BY <1>1 DEF SameThread, Standing
<1>4. QED
  BY <1>2, <1>3

LEMMA PositionsStep ==
  ASSUME IInv, [Next]_vars
  PROVE  Positions'
<1>0. Ranges
  BY DEF IInv
<1>1. ASSUME NEW t \in Tx, Step(t) PROVE Positions'
  BY <1>0, <1>1, PlaceStep, StandingStep, OthersStay, SameThreadSamePlace DEF Positions
<1>2. CASE Advance \/ UNCHANGED vars
  BY <1>2, NoStep, SameThreadSamePlace DEF Positions
<1>3. QED
  BY <1>1, <1>2 DEF Next, Step, Finished

LEMMA InitPositions == Init => Positions
<1> SUFFICES ASSUME Init, NEW t \in Tx PROVE Place(t) /\ Standing(t)
  BY DEF Positions
<1>1. /\ pc[t] = "idle" /\ ops[t] = <<>> /\ phase[t] = "Active"
      /\ ticket[t] = 0 /\ view[t] = 0 /\ t \notin ready
  BY DEF Init, Manager!Init
<1>2. DOMAIN ops[t] = {}
  BY <1>1
<1>3. QED
  BY <1>1, <1>2 DEF Place, Standing, RunningPcs, Scanning, CommitPcs, RollbackPcs, SecondLoop, Running

----------------------------------------------------------------------------
(* Commit ids and what snapshots cover.                                    *)

\* Only a committing or committed transaction has a commit id.
LEMMA TicketFacts ==
  ASSUME IInv, NEW t \in Tx
  PROVE  /\ Running(t) \/ Rolls(t) \/ pc[t] = "idle" => ticket[t] = 0
         /\ Running(t) => ~Rolls(t)
         /\ pc[t] \in CommitPcs => ticket[t] # 0 /\ t \notin ready /\ horizon < ticket[t] /\ ~Rolls(t)
         /\ pc[t] = "idle" => AllSlots(t) = {}
<1>1. Ranges /\ Positions /\ Place(t) /\ Standing(t) /\ CommitIds
  BY DEF IInv, Positions
<1>2. Running(t) \/ Rolls(t) \/ pc[t] = "idle" => ticket[t] = 0
  BY <1>1 DEF Standing, Running, Rolls
<1>3. Running(t) => ~Rolls(t)
  BY DEF Running, Rolls, RunningPcs, Scanning, RollbackPcs
<1>4. ASSUME pc[t] \in CommitPcs PROVE ticket[t] # 0 /\ t \notin ready /\ horizon < ticket[t] /\ ~Rolls(t)
  <2>1. op[t] \in DOMAIN ops[t]
    BY <1>1, <1>4, CurrentSlot
  <2>2. \A x : x = <<>> => op[t] \notin DOMAIN x
    OBVIOUS
  <2>3. ops[t] # <<>>
    BY <2>1, <2>2
  <2>4. ticket[t] # 0 /\ t \notin ready
    BY <1>1, <1>4, <2>3 DEF Standing, CommitPcs
  <2>5. horizon \in Nat /\ ticket[t] \in Nat
    BY <1>1 DEF Ranges, ManagerRanges
  <2>6. horizon < ticket[t]
    BY <1>1, <2>4, <2>5 DEF CommitIds
  <2>7. QED
    BY <1>2, <2>4, <2>6
<1>5. ASSUME pc[t] = "idle", NEW s \in AllSlots(t) PROVE FALSE
  <2>1. s[1] \in DOMAIN ops[t]
    BY <1>1, SlotFacts
  <2>2. \A x : x = <<>> => s[1] \notin DOMAIN x
    OBVIOUS
  <2>3. QED
    BY <1>1, <1>5, <2>1, <2>2 DEF Place
<1>6. QED
  BY <1>2, <1>3, <1>4, <1>5

\* A transaction that a snapshot covers has written everything.
LEMMA CoveredFacts ==
  ASSUME IInv, NEW t \in Tx, NEW u \in Tx, Covers(t, u)
  PROVE  /\ t # u /\ ticket[u] # 0 /\ ticket[u] <= view[t] /\ view[t] <= horizon
         /\ u \in ready /\ pc[u] \in {"await", "gone"} /\ ~Running(u) /\ ~Rolls(u)
         /\ \A s \in AllSlots(u) : Passed(u, s) /\ BeginWritten(u, s) /\ EndWritten(u, s)
<1>1. Ranges /\ Positions /\ Place(u) /\ Standing(u) /\ CommitIds
  BY DEF IInv, Positions
<1>2. /\ ticket[t] \in Nat /\ ticket[u] \in Nat /\ view[t] \in Nat /\ horizon \in Nat
      /\ ops[u] \in Seq(Operators) /\ op[u] \in Nat
  BY <1>1 DEF Ranges, ManagerRanges, ThreadRanges
<1>3. t # u /\ ticket[u] # 0 /\ ticket[u] <= view[t] /\ view[t] <= horizon
  BY <1>1, <1>2 DEF CommitIds, Covers
<1>4. u \in ready
  BY <1>1, <1>2, <1>3 DEF CommitIds
<1>5. pc[u] \in {"await", "gone"} /\ ~Running(u) /\ ~Rolls(u)
  BY <1>1, <1>3, <1>4, TicketFacts DEF Standing
<1>6. ASSUME NEW s \in AllSlots(u) PROVE Passed(u, s)
  <2>1. s[1] \in Nat /\ s[1] \in DOMAIN ops[u] /\ s[1] <= Len(ops[u])
    BY <1>1, SlotFacts
  <2>2. \A x : x = <<>> => s[1] \notin DOMAIN x
    OBVIOUS
  <2>3. op[u] > Len(ops[u])
    BY <1>1, <1>5, <2>1, <2>2 DEF Place
  <2>4. QED
    BY <1>2, <2>1, <2>3 DEF Passed
<1>7. QED
  BY <1>3, <1>4, <1>5, <1>6 DEF BeginWritten, EndWritten

LEMMA CommitIdsStep ==
  ASSUME IInv, [Next]_vars
  PROVE  CommitIds'
<1> DEFINE T == {t \in Tx : ticket[t] # 0}
<1>1. Ranges /\ Positions /\ CommitIds /\ Ranges'
  BY RangesStep DEF IInv
<1>2. /\ issued \in Nat /\ horizon \in Nat /\ ticket \in [Tx -> Nat] /\ view \in [Tx -> Nat] /\ ready \subseteq Tx
      /\ 1 <= horizon /\ horizon <= issued /\ issued = 1 + Cardinality(T)
  BY <1>1 DEF Ranges, ManagerRanges, CommitIds
<1>3. /\ \A t \in Tx : /\ view[t] <= horizon
                       /\ ticket[t] # 0 => 1 < ticket[t] /\ ticket[t] <= issued /\ view[t] < ticket[t]
                       /\ ticket[t] # 0 /\ ticket[t] <= horizon => t \in ready
      /\ \A t, u \in Tx : ticket[t] = ticket[u] /\ ticket[t] # 0 => t = u
  BY <1>1 DEF CommitIds
<1>4. IsFiniteSet(T)
  BY FS_Subset, IsFiniteSet(Tx)
<1>5. CASE UNCHANGED managerVars
  BY <1>1, <1>5 DEF managerVars, CommitIds
<1>6. ASSUME NEW t \in Tx, Begin(t) PROVE CommitIds'
  <2>1. /\ view' = [view EXCEPT ![t] = horizon] /\ ticket' = ticket /\ issued' = issued /\ horizon' = horizon
        /\ ready' = ready /\ ticket[t] = 0
    BY <1>6, TicketFacts DEF Begin, At, Manager!Begin
  <2>2. view'[t] = horizon /\ \A u \in Tx : u # t => view'[u] = view[u]
    BY <1>2, <2>1
  <2>3. \A u \in Tx : /\ view'[u] <= horizon
                      /\ ticket[u] # 0 => 1 < ticket[u] /\ ticket[u] <= issued /\ view'[u] < ticket[u]
                      /\ ticket[u] # 0 /\ ticket[u] <= horizon => u \in ready
    BY <1>2, <1>3, <2>1, <2>2
  <2>4. QED
    BY <1>2, <1>3, <2>1, <2>3 DEF CommitIds
<1>7. ASSUME NEW t \in Tx, StartCommit(t) PROVE CommitIds'
  <2>1. /\ ticket' = [ticket EXCEPT ![t] = issued + 1] /\ ticket[t] = 0 /\ issued' = issued + 1
        /\ view' = view /\ horizon' = horizon /\ ready' = ready
    BY <1>7 DEF StartCommit, Manager!TakeTicket
  <2>2. ticket'[t] = issued + 1 /\ \A u \in Tx : u # t => ticket'[u] = ticket[u]
    BY <1>2, <2>1
  <2>3. issued' = 1 + Cardinality({u \in Tx : ticket'[u] # 0})
    <3>1. {u \in Tx : ticket'[u] # 0} = T \cup {t} /\ t \notin T
      BY <1>2, <2>1, <2>2
    <3>2. Cardinality(T \cup {t}) = Cardinality(T) + 1 /\ Cardinality(T) \in Nat
      BY <1>4, <3>1, FS_AddElement, FS_CardinalityType
    <3>3. QED
      BY <1>2, <2>1, <3>1, <3>2
  <2>4. \A u \in Tx : /\ view[u] <= horizon
                      /\ ticket'[u] # 0 => 1 < ticket'[u] /\ ticket'[u] <= issued' /\ view[u] < ticket'[u]
                      /\ ticket'[u] # 0 /\ ticket'[u] <= horizon => u \in ready
    BY <1>2, <1>3, <2>1, <2>2
  <2>5. \A u, v \in Tx : ticket'[u] = ticket'[v] /\ ticket'[u] # 0 => u = v
    BY <1>2, <1>3, <2>2
  <2>6. QED
    BY <1>2, <2>1, <2>3, <2>4, <2>5 DEF CommitIds
<1>8. ASSUME NEW t \in Tx, MakePending(t) \/ Acknowledge(t) PROVE CommitIds'
  <2>1. /\ ticket' = ticket /\ issued' = issued /\ view' = view /\ horizon' = horizon /\ ready \subseteq ready'
    BY <1>8 DEF MakePending, Acknowledge, Manager!MakeReady, Manager!Acknowledge
  <2>2. QED
    BY <1>1, <2>1 DEF CommitIds
<1>9. CASE Advance
  <2>1. PICK t \in ready : ticket[t] = horizon + 1
    BY <1>9 DEF Advance, Manager!Advance
  <2>2. ticket' = ticket /\ issued' = issued /\ view' = view /\ horizon' = horizon + 1 /\ ready' = ready
    BY <1>9 DEF Advance, Manager!Advance
  <2>3. horizon + 1 <= issued
    BY <1>2, <1>3, <2>1
  <2>4. ASSUME NEW u \in Tx
        PROVE  view[u] <= horizon + 1 /\ (ticket[u] # 0 /\ ticket[u] <= horizon + 1 => u \in ready)
    BY <1>2, <1>3, <2>1
  <2>5. QED
    BY <1>2, <1>3, <2>2, <2>3, <2>4 DEF CommitIds
<1>10. ASSUME NEW t \in Tx, Step(t), ~Begin(t), ~StartCommit(t), ~MakePending(t), ~Acknowledge(t)
       PROVE  CommitIds'
  BY <1>5, <1>10, ManagerStays DEF Step
<1>11. UNCHANGED vars => UNCHANGED managerVars
  BY DEF vars
<1>12. QED
  BY <1>5, <1>6, <1>7, <1>8, <1>9, <1>10, <1>11 DEF Next, Step, Finished

LEMMA InitCommitIds == Init => CommitIds
<1> SUFFICES ASSUME Init PROVE CommitIds
  OBVIOUS
<1>1. /\ issued = 1 /\ horizon = 1
      /\ \A t \in Tx : ticket[t] = 0 /\ view[t] = 0
  BY DEF Init, Manager!Init
<1>2. {t \in Tx : ticket[t] # 0} = {}
  BY <1>1
<1>3. Cardinality({t \in Tx : ticket[t] # 0}) = 0
  BY <1>2, FS_EmptySet
<1>4. QED
  BY <1>1, <1>3 DEF CommitIds

\* A snapshot, once taken, covers the same transactions.
LEMMA CoversStays ==
  ASSUME IInv, [Next]_vars, NEW t \in Tx, NEW u \in Tx, pc[t] # "idle"
  PROVE  Covers(t, u)' <=> Covers(t, u)
<1>1. Ranges /\ CommitIds
  BY DEF IInv
<1>2. view \in [Tx -> Nat] /\ ticket \in [Tx -> Nat] /\ issued \in Nat /\ horizon \in Nat
  BY <1>1 DEF Ranges, ManagerRanges
<1>3. view'[t] = view[t]
  <2>1. ASSUME NEW v \in Tx, Step(v) PROVE view'[t] = view[t]
    <3>1. CASE Begin(v)
      BY <1>2, <3>1 DEF Begin, Manager!Begin, At
    <3>2. CASE StartCommit(v) \/ MakePending(v) \/ Acknowledge(v)
      BY <3>2 DEF StartCommit, MakePending, Acknowledge, Manager!TakeTicket, Manager!MakeReady, Manager!Acknowledge
    <3>3. QED
      BY <2>1, <3>1, <3>2, ManagerStays DEF Step, managerVars
  <2>2. CASE Advance \/ UNCHANGED vars
    BY <2>2, NoStep
  <2>3. QED
    BY <2>1, <2>2 DEF Next, Step, Finished
<1>4. ticket'[u] = ticket[u] \/ (ticket[u] = 0 /\ ticket'[u] = issued + 1)
  <2>1. ASSUME NEW v \in Tx, Step(v) PROVE ticket'[u] = ticket[u] \/ (ticket[u] = 0 /\ ticket'[u] = issued + 1)
    <3>1. CASE StartCommit(v)
      BY <1>2, <3>1 DEF StartCommit, Manager!TakeTicket
    <3>2. CASE Begin(v) \/ MakePending(v) \/ Acknowledge(v)
      BY <3>2 DEF Begin, MakePending, Acknowledge, Manager!Begin, Manager!MakeReady, Manager!Acknowledge
    <3>3. QED
      BY <2>1, <3>1, <3>2, ManagerStays DEF Step, managerVars
  <2>2. CASE Advance \/ UNCHANGED vars
    BY <2>2, NoStep
  <2>3. QED
    BY <2>1, <2>2 DEF Next, Step, Finished
<1>5. view[t] <= issued
  BY <1>1, <1>2 DEF CommitIds
<1>6. QED
  BY <1>2, <1>3, <1>4, <1>5 DEF Covers

----------------------------------------------------------------------------
(* Which transaction inserts and deletes which rows.                       *)

LEMMA SizeStays ==
  ASSUME [Next]_vars, NEW t \in Tx, ~Insert(t), Step(t)
  PROVE  size' = size
<1> USE DEF tableVars
<1>1. CASE Begin(t) \/ Validate(t) \/ Delete(t)
  BY <1>1 DEF Begin, Validate, StartValidate, EnterChunk, ReadTid, ReadBegin, ReadEnd, ReturnRows, Delete,
              StartDelete, DeleteRow
<1>2. CASE Commit(t)
  BY <1>2 DEF Commit, CommitReadOnly, StartCommit, CommitInsertBegin, CommitInsertTid, CommitDeleteEnd,
              CommitDeleteInvalid, MakePending, Acknowledge
<1>3. CASE Rollback(t)
  BY <1>3 DEF Rollback, RollbackByUser, RollbackInsertEnd, RollbackInsertBegin,
              RollbackInsertTid, RollbackDeleteRow, MarkAsRolledBack
<1>4. QED
  BY <1>1, <1>2, <1>3 DEF Step

\* Where a step can change the layout.
LEMMA LayoutCases ==
  ASSUME IInv, [Next]_vars
  PROVE  \/ SameLayout /\ size' = size
         \/ \E t \in Tx : StartDelete(t) /\ pc[t] = "validated" /\ Running(t) /\ size' = size
         \/ \E t \in Tx : Insert(t) /\ pc[t] = "active" /\ Running(t)
<1>1. Ranges /\ Positions
  BY DEF IInv
<1>2. ASSUME NEW t \in Tx, Step(t), ~StartDelete(t), ~Insert(t) PROVE SameLayout /\ size' = size
  BY <1>1, <1>2, LayoutStays, SizeStays
<1>3. ASSUME NEW t \in Tx, StartDelete(t) PROVE pc[t] = "validated" /\ Running(t) /\ size' = size
  BY <1>3 DEF StartDelete, At, Running, RunningPcs, Scanning, tableVars
<1>4. ASSUME NEW t \in Tx, Insert(t) PROVE pc[t] = "active" /\ Running(t)
  BY <1>4 DEF Insert, At, Running, RunningPcs, Scanning
<1>5. CASE Advance \/ UNCHANGED vars
  <2>1. size' = size
    BY <1>5 DEF Advance, vars, tableVars
  <2>2. \A u \in Tx : SameSlots(u)
    BY <1>5, NoStep DEF SameThread
  <2>3. QED
    BY <2>1, <2>2 DEF SameLayout
<1>6. QED
  BY <1>2, <1>3, <1>4, <1>5 DEF Next, Step, Finished

\* A transaction whose operators change is at work, and no snapshot covers it.
LEMMA CoversOnlyFixed ==
  ASSUME IInv, [Next]_vars, NEW t \in Tx, NEW u \in Tx
  PROVE  /\ Covers(t, u)' /\ AllSlots(t) # {} => Covers(t, u)
         /\ Running(u) => ~Covers(t, u)
<1>1. pc[t] = "idle" => AllSlots(t) = {}
  BY TicketFacts
<1>2. QED
  BY <1>1, CoversStays, CoveredFacts

LEMMA InsertsApartStep ==
  ASSUME IInv, [Next]_vars
  PROVE  InsertsApart'
<1>1. Ranges /\ Positions /\ InsertsApart /\ Ranges'
  BY RangesStep DEF IInv
<1>2. size \in Nat /\ size' \in Nat /\ ChunkSize \in Nat /\ ChunkSize <= size
  BY <1>1, SizeFacts DEF Ranges, RowRanges
<1>3. /\ \A t \in Tx : \A s \in InsertSlots(t) : Row(t, s) > ChunkSize /\ Row(t, s) <= size
      /\ \A t, u \in Tx : \A s \in InsertSlots(t), q \in InsertSlots(u) :
           Row(t, s) = Row(u, q) => t = u /\ s = q
      /\ \A r \in Rows : r > ChunkSize /\ r <= size => \E t \in Tx : InsertedBy(t, r)
      /\ \A t, u \in Tx : \A s \in InsertSlots(t), q \in InsertSlots(u) :
           Covers(t, u) => Row(u, q) < Row(t, s)
  BY <1>1 DEF InsertsApart
<1>4. \A t, u \in Tx : \A s \in InsertSlots(t) : Covers(t, u)' => Covers(t, u)
  BY CoversOnlyFixed DEF AllSlots
<1>5. ASSUME size' = size,
             \A u \in Tx : /\ InsertSlots(u)' = InsertSlots(u)
                           /\ \A s \in InsertSlots(u) : Row(u, s)' = Row(u, s)
      PROVE  InsertsApart'
  <2>1. \A r \in Rows, t \in Tx : InsertedBy(t, r)' <=> InsertedBy(t, r)
    BY <1>5 DEF InsertedBy
  <2>2. QED
    BY <1>3, <1>4, <1>5, <2>1 DEF InsertsApart
<1>6. CASE SameLayout /\ size' = size
  BY <1>5, <1>6 DEF SameLayout, SameSlots, AllSlots
<1>7. ASSUME NEW t \in Tx, StartDelete(t), size' = size PROVE InsertsApart'
  <2>1. Step(t)
    BY <1>7 DEF Step, Delete
  <2>2. InsertSlots(t)' = InsertSlots(t) /\ \A s \in AllSlots(t) : Row(t, s)' = Row(t, s)
    BY <1>1, <1>7, StartDeleteMoves
  <2>3. \A u \in Tx : u # t => SameSlots(u)
    BY <1>1, <2>1, OthersStay DEF SameThread
  <2>4. QED
    BY <1>5, <1>7, <2>2, <2>3 DEF SameSlots, AllSlots
<1>8. ASSUME NEW t \in Tx, Insert(t), Running(t) PROVE InsertsApart'
  <2>1. Step(t)
    BY <1>8 DEF Step
  <2>2. PICK n \in 1..MaxRows :
           /\ size' = size + n
           /\ InsertSlots(t)' = InsertSlots(t) \cup NewSlots(t, n)
           /\ \A s \in AllSlots(t) : Row(t, s)' = Row(t, s)
           /\ \A s \in NewSlots(t, n) : /\ s = <<s[1], s[2]>> /\ s[1] = Len(ops[t]) + 1 /\ s[2] \in 1..n
                                        /\ Row(t, s)' = size + s[2]
           /\ \A r \in Rows : InsertedBy(t, r)' <=> InsertedBy(t, r) \/ (size < r /\ r <= size + n)
    BY <1>1, <1>8, InsertMoves
  <2>3. \A u \in Tx : u # t => SameSlots(u)
    BY <1>1, <2>1, OthersStay DEF SameThread
  <2>4. \A u \in Tx : u # t => InsertSlots(u)' = InsertSlots(u)
    BY <2>3 DEF SameSlots
  <2>5. \A u \in Tx : \A s \in InsertSlots(u) : Row(u, s)' = Row(u, s) /\ Row(u, s) \in Nat
    BY <1>1, <2>2, <2>3, SlotFacts DEF SameSlots, AllSlots, Rows
  <2>6. \A s \in NewSlots(t, n) : Row(t, s)' \in Nat /\ Row(t, s)' > size /\ Row(t, s)' <= size'
    BY <1>2, <2>2
  <2>7. \A s, q \in NewSlots(t, n) : Row(t, s)' = Row(t, q)' => s = q
    <3> TAKE s, q \in NewSlots(t, n)
    <3>1. /\ s[2] \in Nat /\ q[2] \in Nat /\ Row(t, s)' = size + s[2] /\ Row(t, q)' = size + q[2]
          /\ s = <<Len(ops[t]) + 1, s[2]>> /\ q = <<Len(ops[t]) + 1, q[2]>>
      BY <2>2
    <3>2. Row(t, s)' = Row(t, q)' => s[2] = q[2]
      BY <1>2, <3>1
    <3>3. QED
      BY <3>1, <3>2
  <2>8. \A u \in Tx : \A s \in InsertSlots(u)' : s \in InsertSlots(u) \/ (u = t /\ s \in NewSlots(t, n))
    BY <2>2, <2>4
  <2>9. \A v, u \in Tx : \A s \in InsertSlots(v)', q \in InsertSlots(u)' :
          Row(v, s)' = Row(u, q)' => v = u /\ s = q
    <3> SUFFICES ASSUME NEW v \in Tx, NEW u \in Tx, NEW s \in InsertSlots(v)', NEW q \in InsertSlots(u)',
                        Row(v, s)' = Row(u, q)'
                 PROVE  v = u /\ s = q
      OBVIOUS
    <3>1. CASE s \in InsertSlots(v) /\ q \in InsertSlots(u)
      BY <1>3, <2>5, <3>1
    <3>2. CASE v = t /\ s \in NewSlots(t, n) /\ u = t /\ q \in NewSlots(t, n)
      BY <2>7, <3>2
    <3>3. CASE v = t /\ s \in NewSlots(t, n) /\ q \in InsertSlots(u)
      BY <1>2, <1>3, <2>5, <2>6, <3>3
    <3>4. CASE u = t /\ q \in NewSlots(t, n) /\ s \in InsertSlots(v)
      BY <1>2, <1>3, <2>5, <2>6, <3>4
    <3>5. QED
      BY <2>8, <3>1, <3>2, <3>3, <3>4
  <2>10. \A r \in Rows : r > ChunkSize /\ r <= size' => \E u \in Tx : InsertedBy(u, r)'
    <3>1. \A u \in Tx, r \in Rows : InsertedBy(u, r) => InsertedBy(u, r)'
      BY <2>2, <2>3 DEF SameSlots
    <3>2. ASSUME NEW r \in Rows, r > ChunkSize, r <= size', ~(r <= size) PROVE InsertedBy(t, r)'
      BY <1>2, <2>2, <3>2 DEF Rows
    <3>3. QED
      BY <1>3, <3>1, <3>2
  <2>11. \A v, u \in Tx : \A s \in InsertSlots(v)', q \in InsertSlots(u)' :
           Covers(v, u)' => Row(u, q)' < Row(v, s)'
    <3> SUFFICES ASSUME NEW v \in Tx, NEW u \in Tx, NEW s \in InsertSlots(v)', NEW q \in InsertSlots(u)',
                        Covers(v, u)'
                 PROVE  Row(u, q)' < Row(v, s)'
      OBVIOUS
    <3>1. Covers(v, u) /\ u # t
      <4>1. Covers(v, u)
        <5>1. CASE v = t
          BY <5>1, <1>8, CoversStays DEF Running, RunningPcs, Scanning
        <5>2. CASE v # t
          BY <5>2, <1>4, <2>4
        <5>3. QED
          BY <5>1, <5>2
      <4>2. QED
        BY <4>1, <1>8, CoversOnlyFixed
    <3>2. q \in InsertSlots(u)
      BY <2>4, <3>1
    <3>3. CASE s \in InsertSlots(v)
      BY <1>3, <2>5, <3>1, <3>2, <3>3
    <3>4. CASE v = t /\ s \in NewSlots(t, n)
      BY <1>2, <1>3, <2>5, <2>6, <3>2, <3>4
    <3>5. QED
      BY <2>8, <3>3, <3>4
  <2>12. \A u \in Tx : \A s \in InsertSlots(u)' : Row(u, s)' > ChunkSize /\ Row(u, s)' <= size'
    <3> TAKE u \in Tx
    <3> TAKE s \in InsertSlots(u)'
    <3>1. n \in Nat /\ size' = size + n
      BY <2>2
    <3>2. CASE s \in InsertSlots(u)
      <4>1. Row(u, s)' = Row(u, s) /\ Row(u, s) \in Nat /\ Row(u, s) > ChunkSize /\ Row(u, s) <= size
        BY <1>3, <2>5, <3>2
      <4>2. QED
        BY <1>2, <3>1, <4>1
    <3>3. CASE u = t /\ s \in NewSlots(t, n)
      BY <1>2, <2>6, <3>3
    <3>4. QED
      BY <2>8, <3>2, <3>3
  <2>13. QED
    BY <2>9, <2>10, <2>11, <2>12 DEF InsertsApart
<1>9. QED
  BY <1>6, <1>7, <1>8, LayoutCases

LEMMA DeletesApartStep ==
  ASSUME IInv, [Next]_vars
  PROVE  DeletesApart'
<1>1. Ranges /\ Positions /\ InsertsApart /\ DeletesApart /\ Ranges' /\ Scan
  BY RangesStep DEF IInv
<1>2. size \in Nat /\ size' \in Nat /\ ChunkSize \in Nat /\ ChunkSize <= size
  BY <1>1, SizeFacts DEF Ranges, RowRanges
<1>3. /\ \A t \in Tx : \A s \in DeleteSlots(t) : Row(t, s) \in Rows /\ Row(t, s) <= size
      /\ \A t \in Tx : \A s, q \in DeleteSlots(t) : Row(t, s) = Row(t, q) => s = q
      /\ ~AnyOrder => \A t \in Tx : \A s, q \in DeleteSlots(t) :
           s[1] = q[1] /\ s[2] < q[2] => Row(t, s) < Row(t, q)
      /\ \A t \in Tx : \A s \in DeleteSlots(t), q \in InsertSlots(t) : Row(t, s) = Row(t, q) => q[1] < s[1]
      /\ \A t, u \in Tx : \A s \in DeleteSlots(t), q \in InsertSlots(u) :
           t # u /\ Row(t, s) = Row(u, q) => Covers(t, u)
      /\ \A t, u \in Tx : \A s \in DeleteSlots(t), q \in DeleteSlots(u) :
           t # u /\ Row(t, s) = Row(u, q) => ~Covers(t, u)
  BY <1>1 DEF DeletesApart
<1>4. /\ \A t \in Tx : \A s \in InsertSlots(t) : Row(t, s) > ChunkSize /\ Row(t, s) <= size
      /\ \A t, u \in Tx : \A s \in InsertSlots(t), q \in InsertSlots(u) :
           Row(t, s) = Row(u, q) => t = u /\ s = q
  BY <1>1 DEF InsertsApart
<1>5. \A t, u \in Tx : pc[t] # "idle" => (Covers(t, u)' <=> Covers(t, u))
  BY CoversStays
<1>6. \A t \in Tx : \A s \in DeleteSlots(t) : pc[t] # "idle"
  BY TicketFacts DEF AllSlots
<1>7. CASE SameLayout /\ size' = size
  <2>1. \A u \in Tx : /\ InsertSlots(u)' = InsertSlots(u) /\ DeleteSlots(u)' = DeleteSlots(u)
                      /\ \A s \in InsertSlots(u) : Row(u, s)' = Row(u, s)
                      /\ \A s \in DeleteSlots(u) : Row(u, s)' = Row(u, s)
    BY <1>7 DEF SameLayout, SameSlots, AllSlots
  <2>2. QED
    BY <1>3, <1>5, <1>6, <1>7, <2>1 DEF DeletesApart
<1>8. ASSUME NEW t \in Tx, StartDelete(t), pc[t] = "validated", Running(t), size' = size PROVE DeletesApart'
  <2>1. Step(t)
    BY <1>8 DEF Step, Delete
  <2>2. PICK n \in 1..MaxRows :
           /\ DeleteSlots(t)' = DeleteSlots(t) \cup NewSlots(t, n) /\ InsertSlots(t)' = InsertSlots(t)
           /\ \A s \in AllSlots(t) : Row(t, s)' = Row(t, s) /\ s[1] \in Nat /\ s[1] <= Len(ops[t])
           /\ \A s \in NewSlots(t, n) : s[1] = Len(ops[t]) + 1 /\ s[2] \in 1..n /\ Row(t, s)' \in seen[t]
           /\ \A s, q \in NewSlots(t, n) : Row(t, s)' = Row(t, q)' => s = q
           /\ ~AnyOrder => \A s, q \in NewSlots(t, n) : s[2] < q[2] => Row(t, s)' < Row(t, q)'
    BY <1>1, <1>8, StartDeleteMoves
  <2>3. \A u \in Tx : u # t => SameSlots(u)
    BY <1>1, <2>1, OthersStay DEF SameThread
  <2>4. /\ \A u \in Tx : InsertSlots(u)' = InsertSlots(u)
        /\ \A u \in Tx : u # t => DeleteSlots(u)' = DeleteSlots(u)
        /\ \A u \in Tx : \A s \in InsertSlots(u) : Row(u, s)' = Row(u, s)
        /\ \A u \in Tx : \A s \in DeleteSlots(u) : Row(u, s)' = Row(u, s)
    BY <2>2, <2>3 DEF SameSlots, AllSlots
  <2>5. Len(ops[t]) \in Nat /\ \A s \in AllSlots(t) : s[1] \in Nat /\ s[1] <= Len(ops[t])
    BY <1>1, <2>2 DEF Ranges, ThreadRanges
  <2>6. \A r \in seen[t] : r \in Rows /\ InSnapshot(t, r)
    BY <1>1, <1>8 DEF Scan, Scanned, Scanning, Ranges, ScanRanges
  <2>7. ASSUME NEW s \in NewSlots(t, n)
        PROVE  /\ Row(t, s)' \in Rows /\ Row(t, s)' <= size /\ InSnapshot(t, Row(t, s)')
               /\ \A q \in DeleteSlots(t) : Row(t, q) # Row(t, s)'
               /\ \A u \in Tx : \A q \in InsertSlots(u) : u # t /\ Row(t, s)' = Row(u, q) => Covers(t, u)
               /\ \A u \in Tx : \A q \in DeleteSlots(u) : u # t /\ Row(t, s)' = Row(u, q) => ~Covers(t, u)
    <3> DEFINE r == Row(t, s)'
    <3>1. r \in Rows /\ InSnapshot(t, r)
      BY <2>2, <2>6
    <3> HIDE DEF r
    <3>2. /\ ~DeletedBy(t, r)
          /\ \/ InsertedBy(t, r)
             \/ /\ r \in Loaded \/ \E u \in Tx : Covers(t, u) /\ InsertedBy(u, r)
                /\ \A u \in Tx : Covers(t, u) => ~DeletedBy(u, r)
      BY <3>1 DEF InSnapshot
    <3>3. r <= size
      BY <1>2, <1>4, <3>1, <3>2 DEF InsertedBy, Loaded, Rows
    <3>4. \A q \in DeleteSlots(t) : Row(t, q) # r
      BY <3>2 DEF DeletedBy
    <3>5. ASSUME NEW u \in Tx, NEW q \in InsertSlots(u), u # t, r = Row(u, q) PROVE Covers(t, u)
      <4>1. r \notin Loaded
        BY <1>2, <1>4, <3>1, <3>5 DEF Loaded, Rows
      <4>2. \A v \in Tx : InsertedBy(v, r) => v = u
        BY <1>4, <3>5 DEF InsertedBy
      <4>3. QED
        BY <3>2, <3>5, <4>1, <4>2
    <3>6. ASSUME NEW u \in Tx, NEW q \in DeleteSlots(u), u # t, r = Row(u, q), Covers(t, u) PROVE FALSE
      <4>1. InsertedBy(t, r)
        BY <3>2, <3>6 DEF DeletedBy
      <4>2. Covers(u, t)
        BY <1>3, <3>6, <4>1 DEF InsertedBy
      <4>3. QED
        BY <4>2, <1>8, CoversOnlyFixed
    <3>7. QED
      BY <3>1, <3>3, <3>4, <3>5, <3>6 DEF r
  <2>8. \A u \in Tx : \A s \in DeleteSlots(u)' : s \in DeleteSlots(u) \/ (u = t /\ s \in NewSlots(t, n))
    BY <2>2, <2>4
  <2>9. \A u \in Tx : \A s \in DeleteSlots(u)' : Row(u, s)' \in Rows /\ Row(u, s)' <= size'
    BY <1>3, <1>8, <2>4, <2>7, <2>8
  <2>10. \A u \in Tx : \A s, q \in DeleteSlots(u)' : Row(u, s)' = Row(u, q)' => s = q
    <3> TAKE u \in Tx
    <3> TAKE s, q \in DeleteSlots(u)'
    <3>1. CASE s \in DeleteSlots(u) /\ q \in DeleteSlots(u)
      BY <1>3, <2>4, <3>1
    <3>2. CASE u = t /\ s \in NewSlots(t, n) /\ q \in NewSlots(t, n)
      BY <2>2, <3>2
    <3>3. CASE u = t /\ s \in NewSlots(t, n) /\ q \in DeleteSlots(t)
      BY <2>4, <2>7, <3>3
    <3>4. CASE u = t /\ q \in NewSlots(t, n) /\ s \in DeleteSlots(t)
      BY <2>4, <2>7, <3>4
    <3>5. QED
      BY <2>8, <3>1, <3>2, <3>3, <3>4
  <2>11. ~AnyOrder => \A u \in Tx : \A s, q \in DeleteSlots(u)' :
           s[1] = q[1] /\ s[2] < q[2] => Row(u, s)' < Row(u, q)'
    <3> SUFFICES ASSUME ~AnyOrder, NEW u \in Tx, NEW s \in DeleteSlots(u)', NEW q \in DeleteSlots(u)',
                        s[1] = q[1], s[2] < q[2]
                 PROVE  Row(u, s)' < Row(u, q)'
      OBVIOUS
    <3>1. CASE s \in DeleteSlots(u) /\ q \in DeleteSlots(u)
      BY <1>3, <2>4, <3>1
    <3>2. CASE u = t /\ s \in NewSlots(t, n) /\ q \in NewSlots(t, n)
      BY <2>2, <3>2
    <3>3. CASE u = t /\ s \in NewSlots(t, n) /\ q \in DeleteSlots(t)
      BY <2>2, <2>5, <3>3 DEF AllSlots
    <3>4. CASE u = t /\ q \in NewSlots(t, n) /\ s \in DeleteSlots(t)
      BY <2>2, <2>5, <3>4 DEF AllSlots
    <3>5. QED
      BY <2>8, <3>1, <3>2, <3>3, <3>4
  <2>12. \A u \in Tx : \A s \in DeleteSlots(u)', q \in InsertSlots(u)' : Row(u, s)' = Row(u, q)' => q[1] < s[1]
    <3> TAKE u \in Tx
    <3> TAKE s \in DeleteSlots(u)', q \in InsertSlots(u)'
    <3>1. CASE s \in DeleteSlots(u)
      BY <1>3, <2>4, <3>1
    <3>2. CASE u = t /\ s \in NewSlots(t, n)
      <4>1. s[1] = Len(ops[t]) + 1 /\ q[1] \in Nat /\ q[1] <= Len(ops[t])
        BY <2>2, <2>4, <2>5, <3>2 DEF AllSlots
      <4>2. QED
        BY <2>5, <4>1
    <3>3. QED
      BY <2>8, <3>1, <3>2
  <2>13. \A v, u \in Tx : \A s \in DeleteSlots(v)', q \in InsertSlots(u)' :
           v # u /\ Row(v, s)' = Row(u, q)' => Covers(v, u)'
    <3> SUFFICES ASSUME NEW v \in Tx, NEW u \in Tx, NEW s \in DeleteSlots(v)', NEW q \in InsertSlots(u)',
                        v # u, Row(v, s)' = Row(u, q)'
                 PROVE  Covers(v, u)'
      OBVIOUS
    <3>1. CASE s \in DeleteSlots(v)
      BY <1>3, <1>5, <1>6, <2>4, <3>1
    <3>2. CASE v = t /\ s \in NewSlots(t, n)
      BY <1>5, <1>8, <2>4, <2>7, <3>2
    <3>3. QED
      BY <2>8, <3>1, <3>2
  <2>14. \A v, u \in Tx : \A s \in DeleteSlots(v)', q \in DeleteSlots(u)' :
           v # u /\ Row(v, s)' = Row(u, q)' => ~Covers(v, u)'
    <3> SUFFICES ASSUME NEW v \in Tx, NEW u \in Tx, NEW s \in DeleteSlots(v)', NEW q \in DeleteSlots(u)',
                        v # u, Row(v, s)' = Row(u, q)', Covers(v, u)'
                 PROVE  FALSE
      OBVIOUS
    <3>1. pc[v] # "idle"
      BY <1>6, <1>8, <2>8
    <3>2. Covers(v, u) /\ u # t
      BY <1>5, <1>8, <3>1, CoversOnlyFixed
    <3>3. q \in DeleteSlots(u) /\ Row(u, q)' = Row(u, q)
      BY <2>4, <3>2
    <3>4. CASE s \in DeleteSlots(v)
      BY <1>3, <2>4, <3>2, <3>3, <3>4
    <3>5. CASE v = t /\ s \in NewSlots(t, n)
      BY <2>7, <3>2, <3>3, <3>5
    <3>6. QED
      BY <2>8, <3>4, <3>5
  <2>15. QED
    BY <2>9, <2>10, <2>11, <2>12, <2>13, <2>14 DEF DeletesApart
<1>9. ASSUME NEW t \in Tx, Insert(t), Running(t) PROVE DeletesApart'
  <2>1. Step(t)
    BY <1>9 DEF Step
  <2>2. PICK n \in 1..MaxRows :
           /\ size' = size + n
           /\ InsertSlots(t)' = InsertSlots(t) \cup NewSlots(t, n) /\ DeleteSlots(t)' = DeleteSlots(t)
           /\ \A s \in AllSlots(t) : Row(t, s)' = Row(t, s)
           /\ \A s \in NewSlots(t, n) : s[2] \in 1..n /\ Row(t, s)' = size + s[2]
    BY <1>1, <1>9, InsertMoves
  <2>3. \A u \in Tx : u # t => SameSlots(u)
    BY <1>1, <2>1, OthersStay DEF SameThread
  <2>4. /\ \A u \in Tx : DeleteSlots(u)' = DeleteSlots(u)
        /\ \A u \in Tx : \A s \in InsertSlots(u) : Row(u, s)' = Row(u, s)
        /\ \A u \in Tx : \A s \in DeleteSlots(u) : Row(u, s)' = Row(u, s)
    BY <2>2, <2>3 DEF SameSlots, AllSlots
  <2>5. \A v, u \in Tx : \A s \in DeleteSlots(v), q \in InsertSlots(u)' :
          Row(v, s)' = Row(u, q)' => q \in InsertSlots(u)
    <3> SUFFICES ASSUME NEW v \in Tx, NEW u \in Tx, NEW s \in DeleteSlots(v), NEW q \in InsertSlots(u)',
                        Row(v, s)' = Row(u, q)', q \notin InsertSlots(u)
                 PROVE  FALSE
      OBVIOUS
    <3>1. u = t /\ q \in NewSlots(t, n)
      BY <2>2, <2>3 DEF SameSlots
    <3>2. Row(v, s)' <= size /\ Row(v, s)' \in Nat
      BY <1>3, <2>4 DEF Rows
    <3>3. QED
      BY <1>2, <2>2, <3>1, <3>2
  <2>6. \A u \in Tx : \A s \in DeleteSlots(u) : Row(u, s)' \in Rows /\ Row(u, s)' <= size'
    BY <1>2, <1>3, <2>2, <2>4 DEF Rows
  <2>7. QED
    BY <1>3, <1>5, <1>6, <2>4, <2>5, <2>6 DEF DeletesApart
<1>10. QED
  BY <1>7, <1>8, <1>9, LayoutCases

LEMMA InitApart == Init => InsertsApart /\ DeletesApart
<1> SUFFICES ASSUME Init PROVE InsertsApart /\ DeletesApart
  OBVIOUS
<1>1. \A t \in Tx : DOMAIN ops[t] = {}
  BY DEF Init
<1>2. \A t \in Tx : InsertSlots(t) = {} /\ DeleteSlots(t) = {}
  BY <1>1 DEF InsertSlots, DeleteSlots, Slots
<1>3. size = ChunkSize
  BY DEF Init
<1>4. \A r \in Rows : ~(r > ChunkSize /\ r <= size)
  BY <1>3 DEF Rows
<1>5. QED
  BY <1>2, <1>4 DEF InsertsApart, DeletesApart

----------------------------------------------------------------------------
(* Locks.                                                                  *)

\* Nobody else deletes or locks a row before the transaction that inserted it is ready.
LEMMA OwnUntilReady ==
  ASSUME IInv, NEW t \in Tx, NEW s \in InsertSlots(t), t \notin ready, NEW u \in Tx, u # t
  PROVE  ~InsertedBy(u, Row(t, s)) /\ ~DeletedBy(u, Row(t, s)) /\ tid[Row(t, s)] # u
<1>1. ~InsertedBy(u, Row(t, s))
  BY DEF IInv, InsertsApart, InsertedBy
<1>2. ~DeletedBy(u, Row(t, s))
  <2>1. DeletedBy(u, Row(t, s)) => Covers(u, t)
    BY DEF IInv, DeletesApart, DeletedBy
  <2>2. QED
    BY <2>1, CoveredFacts
<1>3. Row(t, s) \in Rows
  BY SlotFacts DEF IInv, AllSlots
<1>4. QED
  BY <1>1, <1>2, <1>3 DEF IInv, Locks, HoldsLocks

\* One transaction deletes a row for good.
LEMMA OneDeleter ==
  ASSUME IInv, NEW t \in Tx, NEW u \in Tx, NEW s \in DeleteSlots(t), NEW q \in DeleteSlots(u),
         Row(t, s) = Row(u, q), ticket[t] # 0, ticket[u] # 0
  PROVE  t = u /\ s = q
<1>1. \A v, w \in Tx : \A x \in DeleteSlots(v), y \in InsertSlots(w) : v # w /\ Row(v, x) = Row(w, y) => Covers(v, w)
  BY DEF IInv, DeletesApart
<1>2. \A v, w \in Tx : \A x \in DeleteSlots(v), y \in DeleteSlots(w) : v # w /\ Row(v, x) = Row(w, y) => ~Covers(v, w)
  BY DEF IInv, DeletesApart
<1>3. t # u => ~InsertedBy(t, Row(t, s)) /\ ~InsertedBy(u, Row(t, s))
  BY <1>1, <1>2 DEF InsertedBy
<1>4. t # u => tid[Row(t, s)] = t /\ tid[Row(t, s)] = u
  BY <1>3 DEF IInv, Locks, HoldsLocks
<1>5. t = u
  BY <1>4
<1>6. QED
  BY <1>5 DEF IInv, DeletesApart

\* Where an action that works on a row is.
LEMMA RowActions ==
  ASSUME IInv, NEW t \in Tx
  PROVE  /\ DeleteRow(t) => pc[t] = "delete" /\ Running(t) /\ Cur(t) \in DeleteSlots(t)
         /\ CommitInsertBegin(t) => pc[t] = "commit" /\ ticket[t] # 0 /\ t \notin ready /\ Cur(t) \in InsertSlots(t)
         /\ CommitInsertTid(t) => pc[t] = "commitTid" /\ ticket[t] # 0 /\ t \notin ready /\ Cur(t) \in InsertSlots(t)
         /\ CommitDeleteEnd(t) => pc[t] = "commit" /\ ticket[t] # 0 /\ t \notin ready /\ Cur(t) \in DeleteSlots(t)
         /\ CommitDeleteInvalid(t) => pc[t] = "commitInvalid" /\ ticket[t] # 0 /\ t \notin ready /\ Cur(t) \in DeleteSlots(t)
         /\ RollbackInsertEnd(t) => pc[t] = "rollback" /\ Rolls(t) /\ Cur(t) \in InsertSlots(t)
         /\ RollbackInsertBegin(t) => pc[t] = "rollbackBegin" /\ Rolls(t) /\ Cur(t) \in InsertSlots(t)
         /\ RollbackInsertTid(t) => pc[t] = "rollbackTid" /\ Rolls(t) /\ Cur(t) \in InsertSlots(t)
         /\ RollbackDeleteRow(t) => pc[t] = "rollback" /\ Rolls(t) /\ Cur(t) \in DeleteSlots(t)
         /\ pc[t] \in CommitPcs \cup RollbackPcs \cup {"delete"} =>
              Cur(t) \in AllSlots(t) /\ CurrentRow(t) = Row(t, Cur(t)) /\ CurrentRow(t) \in Rows
         /\ Running(t) \/ Rolls(t) => t \notin ready
<1>1. Ranges /\ Positions /\ Place(t) /\ Standing(t)
  BY DEF IInv, Positions
<1>2. pc[t] \in CommitPcs \cup RollbackPcs \cup {"delete"} =>
        /\ Cur(t) \in AllSlots(t) /\ CurrentRow(t) = Row(t, Cur(t)) /\ CurrentRow(t) \in Rows
        /\ Cur(t) \in InsertSlots(t) <=> Current(t).type = "Insert"
        /\ Cur(t) \in DeleteSlots(t) <=> Current(t).type = "Delete"
  BY <1>1, CurrentSlot
<1>3. pc[t] \in CommitPcs => ticket[t] # 0 /\ t \notin ready
  BY TicketFacts
<1>4. /\ pc[t] = "commitTid" \/ SecondLoop(t) => Cur(t) \in InsertSlots(t)
      /\ pc[t] = "commitInvalid" => Cur(t) \in DeleteSlots(t)
  BY <1>1 DEF Place
<1>5. Running(t) \/ Rolls(t) => t \notin ready
  BY <1>1, TicketFacts DEF Standing, Running, Rolls, RunningPcs, Scanning, RollbackPcs
<1>6. /\ pc[t] = "delete" => Running(t)
      /\ pc[t] \in {"rollback", "rollbackBegin", "rollbackTid"} => Rolls(t) /\ pc[t] \in RollbackPcs
      /\ pc[t] \in {"rollbackBegin", "rollbackTid"} => SecondLoop(t)
      /\ pc[t] \in {"commit", "commitTid", "commitInvalid"} => pc[t] \in CommitPcs
  BY DEF Running, RunningPcs, Rolls, SecondLoop, CommitPcs, RollbackPcs
<1>7. pc[t] = "delete" => Cur(t) \in DeleteSlots(t)
  BY <1>1 DEF Place
<1>8. DeleteRow(t) => pc[t] = "delete" /\ Running(t) /\ Cur(t) \in DeleteSlots(t)
  BY <1>6, <1>7 DEF DeleteRow, At
<1>9. /\ CommitInsertBegin(t) => pc[t] = "commit" /\ ticket[t] # 0 /\ t \notin ready /\ Cur(t) \in InsertSlots(t)
      /\ CommitDeleteEnd(t) => pc[t] = "commit" /\ ticket[t] # 0 /\ t \notin ready /\ Cur(t) \in DeleteSlots(t)
  BY <1>2, <1>3, <1>6 DEF CommitInsertBegin, CommitDeleteEnd, At
<1>10. /\ CommitInsertTid(t) => pc[t] = "commitTid" /\ ticket[t] # 0 /\ t \notin ready /\ Cur(t) \in InsertSlots(t)
       /\ CommitDeleteInvalid(t) => pc[t] = "commitInvalid" /\ ticket[t] # 0 /\ t \notin ready /\ Cur(t) \in DeleteSlots(t)
  BY <1>3, <1>4, <1>6 DEF CommitInsertTid, CommitDeleteInvalid, At
<1>11. /\ RollbackInsertEnd(t) => pc[t] = "rollback" /\ Rolls(t) /\ Cur(t) \in InsertSlots(t)
       /\ RollbackDeleteRow(t) => pc[t] = "rollback" /\ Rolls(t) /\ Cur(t) \in DeleteSlots(t)
  BY <1>2, <1>6 DEF RollbackInsertEnd, RollbackDeleteRow, At
<1>12. /\ RollbackInsertBegin(t) => pc[t] = "rollbackBegin" /\ Rolls(t) /\ Cur(t) \in InsertSlots(t)
       /\ RollbackInsertTid(t) => pc[t] = "rollbackTid" /\ Rolls(t) /\ Cur(t) \in InsertSlots(t)
  BY <1>4, <1>6 DEF RollbackInsertBegin, RollbackInsertTid, At
<1>13. QED
  BY <1>2, <1>5, <1>8, <1>9, <1>10, <1>11, <1>12

\* The steps that lock and unlock.
LockSteps(t) == Insert(t) \/ DeleteRow(t) \/ CommitInsertTid(t) \/ RollbackInsertTid(t) \/ RollbackDeleteRow(t)

LEMMA TidStays ==
  ASSUME NEW t \in Tx, Step(t), ~LockSteps(t)
  PROVE  tid' = tid
<1> USE DEF tableVars, rowVars
<1>1. CASE Begin(t) \/ Validate(t) \/ StartDelete(t)
  BY <1>1 DEF Begin, Validate, StartValidate, EnterChunk, ReadTid, ReadBegin, ReadEnd, ReturnRows, StartDelete
<1>2. CASE Commit(t)
  BY <1>2 DEF LockSteps, Commit, CommitReadOnly, StartCommit, CommitInsertBegin, CommitDeleteEnd,
              CommitDeleteInvalid, MakePending, Acknowledge
<1>3. CASE Rollback(t)
  BY <1>3 DEF LockSteps, Rollback, RollbackByUser, RollbackInsertEnd, RollbackInsertBegin, MarkAsRolledBack
<1>4. QED
  BY <1>1, <1>2, <1>3 DEF Step, Delete, LockSteps

\* The value that such a step gives to the tid of the current row.
LEMMA TidSteps ==
  ASSUME IInv, NEW t \in Tx
  PROVE  /\ DeleteRow(t) /\ tid[CurrentRow(t)] \in {NoTid, t} =>
              tid' = [tid EXCEPT ![CurrentRow(t)] = IF tid[CurrentRow(t)] = t THEN NoTid ELSE t]
         /\ DeleteRow(t) /\ tid[CurrentRow(t)] \notin {NoTid, t} => tid' = tid
         /\ CommitInsertTid(t) \/ RollbackInsertTid(t) => tid' = [tid EXCEPT ![CurrentRow(t)] = NoTid]
         /\ RollbackDeleteRow(t) /\ tid[CurrentRow(t)] = t => tid' = [tid EXCEPT ![CurrentRow(t)] = NoTid]
         /\ RollbackDeleteRow(t) /\ tid[CurrentRow(t)] # t => tid' = tid
<1>1. tid \in [Rows -> Tx \cup {NoTid}]
  BY DEF IInv, Ranges, RowRanges
<1>2. QED
  BY <1>1 DEF DeleteRow, CommitInsertTid, RollbackInsertTid, RollbackDeleteRow

\* A step does not touch the locks of the others.
LEMMA OthersLocks ==
  ASSUME IInv, NEW t \in Tx, Step(t), NEW u \in Tx, u # t, NEW r \in Rows
  PROVE  tid'[r] = u <=> tid[r] = u
<1>1. Ranges /\ Positions /\ tid \in [Rows -> Tx \cup {NoTid}] /\ NoTid # u
  BY DEF IInv, Ranges, RowRanges
<1>2. CASE Insert(t)
  <2>1. PICK n \in 1..MaxRows : tid' = [q \in Rows |-> IF q \in size + 1..size + n THEN t ELSE tid[q]]
    BY <1>1, <1>2, InsertMoves
  <2>2. size \in Nat
    BY <1>1, SizeFacts
  <2>3. r \in size + 1..size + n => tid[r] = NoTid
    BY <2>2 DEF IInv, Versions, Rows
  <2>4. QED
    BY <1>1, <2>1, <2>3
<1>3. CASE DeleteRow(t) \/ RollbackDeleteRow(t)
  BY <1>1, <1>3, TidSteps
<1>4. CASE CommitInsertTid(t) \/ RollbackInsertTid(t)
  <2>1. Cur(t) \in InsertSlots(t) /\ t \notin ready /\ CurrentRow(t) = Row(t, Cur(t))
    BY <1>4, RowActions DEF CommitPcs, RollbackPcs
  <2>2. tid[CurrentRow(t)] # u
    BY <2>1, OwnUntilReady
  <2>3. QED
    BY <1>1, <1>4, <2>2, TidSteps
<1>5. CASE ~LockSteps(t)
  BY <1>5, TidStays
<1>6. QED
  BY <1>2, <1>3, <1>4, <1>5 DEF LockSteps

LEMMA OthersHoldLocks ==
  ASSUME IInv, NEW t \in Tx, Step(t), NEW u \in Tx, u # t
  PROVE  HoldsLocks(u)' /\ (FindsLocks(u) => FindsLocks(u)')
<1>1. Ranges /\ HoldsLocks(u)
  BY DEF IInv, Locks
<1>2. SameThread(u) /\ SameSlots(u)
  BY <1>1, OthersStay DEF SameThread
<1>3. \A r \in Rows : tid'[r] = u <=> tid[r] = u
  BY OthersLocks
<1>4. /\ \A s \in InsertSlots(u) : Row(u, s)' = Row(u, s) /\ Row(u, s) \in Rows
      /\ \A s \in DeleteSlots(u) : Row(u, s)' = Row(u, s) /\ Row(u, s) \in Rows
      /\ InsertSlots(u)' = InsertSlots(u) /\ DeleteSlots(u)' = DeleteSlots(u)
      /\ \A r \in Rows : /\ InsertedBy(u, r)' <=> InsertedBy(u, r)
                         /\ DeletedBy(u, r)' <=> DeletedBy(u, r)
  BY <1>1, <1>2, SlotFacts DEF SameSlots, AllSlots
<1>5. /\ Running(u)' <=> Running(u)
      /\ ticket'[u] = ticket[u]
      /\ \A s : /\ Passed(u, s)' <=> Passed(u, s)
                /\ Executed(u, s)' <=> Executed(u, s)
                /\ TidReset(u, s)' <=> TidReset(u, s)
  BY <1>2 DEF SameThread
<1>6. HoldsLocks(u)'
  BY <1>1, <1>3, <1>4, <1>5 DEF HoldsLocks
<1>7. FindsLocks(u) => FindsLocks(u)'
  BY <1>3, <1>4, <1>5 DEF FindsLocks
<1>8. QED
  BY <1>6, <1>7

LEMMA OwnHoldsLocks ==
  ASSUME IInv, NEW t \in Tx, Step(t)
  PROVE  HoldsLocks(t)'
<1> USE DEF At, Goto
<1>1. Ranges /\ Positions /\ HoldsLocks(t) /\ DeletesApart /\ InsertsApart
  BY DEF IInv, Locks
<1>2. /\ pc \in [Tx -> Pcs] /\ op \in [Tx -> Nat \ {0}] /\ pos \in [Tx -> 1..MaxRows + 1] /\ ticket \in [Tx -> Nat]
      /\ tid \in [Rows -> Tx \cup {NoTid}] /\ issued \in Nat /\ t # NoTid
  BY <1>1 DEF Ranges, RowRanges, ThreadRanges, ManagerRanges
<1>3. /\ \A r \in Rows : tid[r] = t => InsertedBy(t, r) \/ DeletedBy(t, r)
      /\ Running(t) => \A s \in InsertSlots(t) :
           tid[Row(t, s)] = t <=> ~\E q \in DeleteSlots(t) : Row(t, q) = Row(t, s) /\ Executed(t, q)
      /\ Running(t) => \A s \in DeleteSlots(t) :
           ~InsertedBy(t, Row(t, s)) => (tid[Row(t, s)] = t <=> Executed(t, s))
      /\ ticket[t] # 0 => \A s \in DeleteSlots(t) : ~InsertedBy(t, Row(t, s)) => tid[Row(t, s)] = t
      /\ ticket[t] # 0 => \A s \in InsertSlots(t) : Passed(t, s) => tid[Row(t, s)] # t
  BY <1>1 DEF HoldsLocks
<1>4. /\ \A s \in AllSlots(t) : Row(t, s) \in Rows
      /\ \A s \in InsertSlots(t) : s \in AllSlots(t) /\ Row(t, s) \in Rows
      /\ \A s \in DeleteSlots(t) : s \in AllSlots(t) /\ Row(t, s) \in Rows
      /\ \A s \in InsertSlots(t) : s \notin DeleteSlots(t)
      /\ \A s, q \in DeleteSlots(t) : Row(t, s) = Row(t, q) => s = q
      /\ \A s, q \in InsertSlots(t) : Row(t, s) = Row(t, q) => s = q
  BY <1>1, SlotFacts DEF AllSlots, DeletesApart, InsertsApart
<1> DEFINE Layout == /\ InsertSlots(t)' = InsertSlots(t) /\ DeleteSlots(t)' = DeleteSlots(t)
                     /\ \A s \in InsertSlots(t) : Row(t, s)' = Row(t, s)
                     /\ \A s \in DeleteSlots(t) : Row(t, s)' = Row(t, s)
                     /\ \A r \in Rows : /\ InsertedBy(t, r)' <=> InsertedBy(t, r)
                                        /\ DeletedBy(t, r)' <=> DeletedBy(t, r)
<1>5. ~StartDelete(t) /\ ~Insert(t) => Layout
  BY <1>1, LayoutStays DEF SameLayout, SameSlots, AllSlots
<1> HIDE DEF Layout
\* A step that leaves the locks alone.
<1>6. ASSUME Layout, tid' = tid,
             Running(t)' => Running(t) /\ \A s : Executed(t, s)' <=> Executed(t, s),
             ticket'[t] # 0 => ticket[t] # 0 /\ \A s \in InsertSlots(t) : Passed(t, s)' => Passed(t, s)
      PROVE  HoldsLocks(t)'
  BY <1>3, <1>4, <1>6 DEF HoldsLocks, Layout
<1>7. CASE Begin(t)
  <2>1. tid' = tid /\ ticket' = ticket /\ pc[t] = "idle" /\ ~StartDelete(t) /\ ~Insert(t)
    BY <1>7 DEF Begin, Manager!Begin, tableVars, rowVars, StartDelete, Insert
  <2>2. Layout /\ InsertSlots(t) = {} /\ DeleteSlots(t) = {} /\ ticket[t] = 0
    BY <1>5, <2>1, TicketFacts DEF AllSlots
  <2>3. QED
    BY <1>3, <2>1, <2>2 DEF HoldsLocks, Layout
<1>8. CASE Validate(t)
  <2>1. /\ pc[t] \in RunningPcs \ {"delete"} /\ pc'[t] \in RunningPcs \ {"delete"}
        /\ tid' = tid /\ ticket' = ticket /\ ~StartDelete(t) /\ ~Insert(t)
    <3>1. tid' = tid /\ ticket' = ticket
      BY <1>8 DEF Validate, StartValidate, EnterChunk, ReadTid, ReadBegin, ReadEnd, ReturnRows,
                  tableVars, rowVars, managerVars
    <3>2. pc[t] \in RunningPcs \ {"delete"} /\ pc'[t] \in RunningPcs \ {"delete"}
      BY <1>2, <1>8 DEF Validate, StartValidate, EnterChunk, AfterChunk, ReadTid, ReadBegin, ReadEnd, ReturnRows,
                        RunningPcs, Scanning
    <3>3. ~StartDelete(t) /\ ~Insert(t)
      BY <1>2, <1>8 DEF Validate, StartValidate, EnterChunk, AfterChunk, ReadTid, ReadBegin, ReadEnd, ReturnRows,
                        StartDelete, Insert, threadVars
    <3>4. QED
      BY <3>1, <3>2, <3>3
  <2>2. Running(t) /\ ticket[t] = 0 /\ \A s : Executed(t, s)' /\ Executed(t, s)
    BY <2>1, TicketFacts DEF Running, Executed
  <2>3. QED
    BY <1>5, <1>6, <2>1, <2>2
<1>9. CASE StartDelete(t)
  <2>1. /\ pc[t] = "validated" /\ pc'[t] = "delete" /\ ticket' = ticket /\ tid' = tid /\ Running(t)
    BY <1>2, <1>9 DEF StartDelete, tableVars, rowVars, managerVars, Running, RunningPcs, Scanning
  <2>2. ticket[t] = 0
    BY <2>1, TicketFacts
  <2>3. PICK n \in 1..MaxRows :
           /\ DeleteSlots(t)' = DeleteSlots(t) \cup NewSlots(t, n) /\ InsertSlots(t)' = InsertSlots(t)
           /\ \A s \in AllSlots(t) : Row(t, s)' = Row(t, s) /\ s[1] \in Nat /\ s[1] <= Len(ops[t])
           /\ \A s \in NewSlots(t, n) : s[1] = Len(ops[t]) + 1 /\ s[2] \in 1..n /\ Row(t, s)' \in seen[t]
           /\ op'[t] = Len(ops[t]) + 1 /\ pos'[t] = 1
    BY <1>1, <1>9, StartDeleteMoves
  <2>4. Len(ops[t]) \in Nat
    BY <1>1 DEF Ranges, ThreadRanges
  <2>5. /\ \A s \in AllSlots(t) : Executed(t, s)' /\ Executed(t, s)
        /\ \A s \in NewSlots(t, n) : ~Executed(t, s)'
    BY <2>1, <2>3, <2>4 DEF Executed
  <2>6. /\ \A r \in Rows : InsertedBy(t, r)' <=> InsertedBy(t, r)
        /\ \A r \in Rows : DeletedBy(t, r) => DeletedBy(t, r)'
    BY <1>4, <2>3 DEF InsertedBy, DeletedBy
  <2>7. ASSUME NEW s \in NewSlots(t, n)
        PROVE  /\ Row(t, s)' \in Rows /\ ~DeletedBy(t, Row(t, s)')
               /\ ~InsertedBy(t, Row(t, s)') => tid[Row(t, s)'] # t
    <3>1. Row(t, s)' \in Rows /\ InSnapshot(t, Row(t, s)')
      BY <1>1, <2>1, <2>3 DEF IInv, Scan, Scanned, Scanning, Ranges, ScanRanges
    <3>2. QED
      BY <1>3, <3>1 DEF InSnapshot
  <2>8. \A s \in InsertSlots(t) : \A q \in NewSlots(t, n) : Row(t, q)' = Row(t, s)' => ~Executed(t, q)'
    BY <2>5
  <2>9. \A s \in InsertSlots(t) :
          tid'[Row(t, s)'] = t <=> ~\E q \in DeleteSlots(t)' : Row(t, q)' = Row(t, s)' /\ Executed(t, q)'
    <3> TAKE s \in InsertSlots(t)
    <3>1. Row(t, s)' = Row(t, s) /\ (tid[Row(t, s)] = t <=> ~\E q \in DeleteSlots(t) : Row(t, q) = Row(t, s))
      BY <1>3, <1>4, <2>1, <2>3, <2>5
    <3>2. (\E q \in DeleteSlots(t)' : Row(t, q)' = Row(t, s)' /\ Executed(t, q)')
            <=> \E q \in DeleteSlots(t) : Row(t, q) = Row(t, s)
      BY <1>4, <2>3, <2>5, <3>1
    <3>3. QED
      BY <2>1, <3>1, <3>2
  <2>10. \A s \in DeleteSlots(t)' :
           ~InsertedBy(t, Row(t, s))' => (tid'[Row(t, s)'] = t <=> Executed(t, s)')
    <3> TAKE s \in DeleteSlots(t)'
    <3>0. InsertedBy(t, Row(t, s))' <=> \E q \in InsertSlots(t) : Row(t, q) = Row(t, s)'
      BY <1>4, <2>3 DEF InsertedBy
    <3>1. CASE s \in DeleteSlots(t)
      <4>1. Row(t, s)' = Row(t, s) /\ Row(t, s) \in Rows /\ Executed(t, s) /\ Executed(t, s)'
        BY <1>4, <2>3, <2>5, <3>1
      <4>2. InsertedBy(t, Row(t, s))' <=> InsertedBy(t, Row(t, s))
        BY <3>0, <4>1 DEF InsertedBy
      <4>3. QED
        BY <1>3, <2>1, <3>1, <4>1, <4>2
    <3>2. CASE s \in NewSlots(t, n)
      <4>1. Row(t, s)' \in Rows /\ ~Executed(t, s)' /\ (~InsertedBy(t, Row(t, s)') => tid[Row(t, s)'] # t)
        BY <2>5, <2>7, <3>2
      <4>2. InsertedBy(t, Row(t, s))' <=> InsertedBy(t, Row(t, s)')
        BY <3>0 DEF InsertedBy
      <4>3. QED
        BY <2>1, <4>1, <4>2
    <3>3. QED
      BY <2>3, <3>1, <3>2
  <2>11. QED
    BY <1>3, <2>1, <2>2, <2>3, <2>6, <2>9, <2>10 DEF HoldsLocks
<1>10. CASE Insert(t)
  <2>1. /\ pc[t] = "active" /\ pc' = pc /\ ticket' = ticket /\ Running(t) /\ ticket[t] = 0
    BY <1>2, <1>10, TicketFacts DEF Insert, threadVars, managerVars, Running, RunningPcs, Scanning
  <2>2. PICK n \in 1..MaxRows :
           /\ InsertSlots(t)' = InsertSlots(t) \cup NewSlots(t, n) /\ DeleteSlots(t)' = DeleteSlots(t)
           /\ \A s \in AllSlots(t) : Row(t, s)' = Row(t, s)
           /\ \A s \in NewSlots(t, n) : s[2] \in 1..n /\ Row(t, s)' = size + s[2]
           /\ \A r \in Rows : /\ InsertedBy(t, r)' <=> InsertedBy(t, r) \/ (size < r /\ r <= size + n)
                              /\ DeletedBy(t, r)' <=> DeletedBy(t, r)
           /\ tid' = [r \in Rows |-> IF r \in size + 1..size + n THEN t ELSE tid[r]]
           /\ size' = size + n /\ size' \in ChunkSize..MaxRows
    BY <1>1, <1>10, InsertMoves
  <2>3. size \in Nat /\ \A s \in AllSlots(t) : Row(t, s) <= size /\ Row(t, s) \in Nat
    BY <1>1, <1>4, SizeFacts DEF InsertsApart, DeletesApart, AllSlots, Rows
  <2>4. \A s \in AllSlots(t) : tid'[Row(t, s)] = tid[Row(t, s)]
    BY <1>4, <2>2, <2>3
  <2>5. \A s : Executed(t, s)' /\ Executed(t, s)
    BY <2>1 DEF Executed
  <2>6. ASSUME NEW s \in NewSlots(t, n)
        PROVE  tid'[Row(t, s)'] = t /\ \A q \in DeleteSlots(t) : Row(t, q) # Row(t, s)'
    <3>1. Row(t, s)' \in Nat /\ Row(t, s)' > size /\ Row(t, s)' <= size + n
      BY <2>2, <2>3
    <3>2. Row(t, s)' \in size + 1..size + n /\ Row(t, s)' \in Rows
      <4>1. size + n <= MaxRows
        BY <2>2
      <4>2. QED
        BY <2>2, <2>3, <3>1, <4>1 DEF Rows
    <3>3. QED
      BY <1>4, <2>2, <2>3, <3>1, <3>2
  <2>7. \A r \in Rows : tid'[r] = t => InsertedBy(t, r)' \/ DeletedBy(t, r)'
    <3> TAKE r \in Rows
    <3>1. tid'[r] = t => tid[r] = t \/ (size < r /\ r <= size + n)
      BY <2>2, <2>3 DEF Rows
    <3>2. QED
      BY <1>3, <2>2, <3>1
  <2>8. \A s \in InsertSlots(t)' :
          tid'[Row(t, s)'] = t <=> ~\E q \in DeleteSlots(t)' : Row(t, q)' = Row(t, s)' /\ Executed(t, q)'
    <3> TAKE s \in InsertSlots(t)'
    <3>1. CASE s \in InsertSlots(t)
      BY <1>3, <1>4, <2>1, <2>2, <2>4, <2>5, <3>1
    <3>2. CASE s \in NewSlots(t, n)
      BY <1>4, <2>2, <2>6, <3>2
    <3>3. QED
      BY <2>2, <3>1, <3>2
  <2>9. \A s \in DeleteSlots(t)' :
          ~InsertedBy(t, Row(t, s))' => (tid'[Row(t, s)'] = t <=> Executed(t, s)')
    <3> TAKE s \in DeleteSlots(t)'
    <3>1. s \in DeleteSlots(t) /\ Row(t, s)' = Row(t, s)
      BY <1>4, <2>2
    <3>2. InsertedBy(t, Row(t, s)) => InsertedBy(t, Row(t, s))'
      BY <1>4, <2>2, <3>1 DEF InsertedBy
    <3>3. QED
      BY <1>3, <1>4, <2>1, <2>4, <2>5, <3>1, <3>2
  <2>10. QED
    BY <2>1, <2>7, <2>8, <2>9 DEF HoldsLocks
<1> SUFFICES ASSUME ~Begin(t), ~Validate(t), ~StartDelete(t), ~Insert(t) PROVE HoldsLocks(t)'
  BY <1>7, <1>8, <1>9, <1>10
<1> Layout
  BY <1>5
<1>11. CASE StartCommit(t)
  <2>1. pc[t] = "active" /\ pc'[t] = "commit" /\ tid' = tid /\ op'[t] = 1 /\ pos'[t] = 1 /\ Running(t)
    BY <1>2, <1>11 DEF StartCommit, tableVars, rowVars, Running, RunningPcs, Scanning
  <2>2. ~Running(t)' /\ (\A s : Executed(t, s)) /\ \A s \in AllSlots(t) : ~Passed(t, s)'
    <3>1. \A s \in AllSlots(t) : s[1] \in Nat \ {0} /\ s[2] \in Nat \ {0}
      BY <1>1, SlotFacts
    <3>2. QED
      BY <2>1, <3>1 DEF Running, RunningPcs, Scanning, Executed, Passed
  <2>3. QED
    BY <1>3, <1>4, <2>1, <2>2 DEF HoldsLocks, Layout
<1>12. CASE CommitReadOnly(t) \/ RollbackByUser(t)
  <2>1. pc[t] = "active" /\ pc'[t] \in {"gone", "rolledBack", "rollback"} /\ tid' = tid /\ ticket' = ticket
    BY <1>2, <1>12 DEF CommitReadOnly, RollbackByUser, tableVars, rowVars, managerVars
  <2>2. ~Running(t)' /\ ticket[t] = 0
    BY <2>1, TicketFacts DEF Running, RunningPcs, Scanning
  <2>3. QED
    BY <1>6, <2>1, <2>2
<1>13. CASE RollbackInsertEnd(t) \/ RollbackInsertBegin(t) \/ MarkAsRolledBack(t)
  <2>1. /\ pc[t] \in {"rollback", "rollbackBegin", "rolledBack"} /\ tid' = tid /\ ticket' = ticket
        /\ pc'[t] \in {"rollback", "rollbackBegin", "rollbackTid", "gone"}
    BY <1>2, <1>13 DEF RollbackInsertEnd, RollbackInsertBegin, MarkAsRolledBack, tableVars, rowVars, managerVars
  <2>2. ~Running(t)' /\ ticket[t] = 0
    BY <2>1, TicketFacts DEF Running, RunningPcs, Scanning, Rolls, RollbackPcs
  <2>3. QED
    BY <1>6, <2>1, <2>2
<1>14. CASE CommitInsertBegin(t) \/ CommitDeleteEnd(t) \/ MakePending(t) \/ Acknowledge(t)
  <2>1. /\ tid' = tid /\ pc'[t] \in {"commitTid", "commitInvalid", "await", "gone"} /\ op' = op /\ pos' = pos
        /\ ticket' = ticket
    BY <1>2, <1>14 DEF CommitInsertBegin, CommitDeleteEnd, MakePending, Acknowledge, tableVars, rowVars, managerVars,
                       Manager!MakeReady, Manager!Acknowledge
  <2>2. ~Running(t)' /\ \A s : Passed(t, s)' <=> Passed(t, s)
    BY <2>1 DEF Running, RunningPcs, Scanning, Passed
  <2>3. QED
    BY <1>6, <2>1, <2>2
<1>15. CASE CommitInsertTid(t) \/ CommitDeleteInvalid(t)
  <2>1. NextRow(t, "Committed", "commit", "pending") /\ pc[t] \in CommitPcs /\ ticket' = ticket
    BY <1>15 DEF CommitInsertTid, CommitDeleteInvalid, CommitPcs, managerVars
  <2>2. /\ pc'[t] \in {"commit", "pending"}
        /\ \A s \in AllSlots(t) : Passed(t, s)' <=> Passed(t, s) \/ s = Cur(t)
    BY <1>1, <2>1, NextRowMoves DEF Pcs, CommitPcs, States
  <2>3. ~Running(t)'
    BY <2>2 DEF Running, RunningPcs, Scanning
  <2>4. CASE CommitDeleteInvalid(t)
    <3>1. tid' = tid /\ Cur(t) \in DeleteSlots(t)
      BY <2>4, RowActions DEF CommitDeleteInvalid, rowVars
    <3>2. QED
      BY <1>4, <1>6, <2>1, <2>2, <2>3, <3>1
  <2>5. CASE CommitInsertTid(t)
    <3>1. /\ tid' = [tid EXCEPT ![Row(t, Cur(t))] = NoTid] /\ Cur(t) \in InsertSlots(t)
          /\ ticket[t] # 0
      BY <2>5, TidSteps, RowActions DEF CommitPcs
    <3>2. \A r \in Rows : tid'[r] = t <=> tid[r] = t /\ r # Row(t, Cur(t))
      BY <1>2, <3>1
    <3>3. InsertedBy(t, Row(t, Cur(t)))
      BY <3>1 DEF InsertedBy
    <3>4. QED
      BY <1>3, <1>4, <2>1, <2>2, <2>3, <3>1, <3>2, <3>3 DEF HoldsLocks, Layout
  <2>6. QED
    BY <1>15, <2>4, <2>5
<1>16. CASE RollbackInsertTid(t) \/ RollbackDeleteRow(t)
  <2>1. ticket[t] = 0 /\ ticket' = ticket /\ CurrentRow(t) \in Rows
    BY <1>16, RowActions, TicketFacts DEF RollbackInsertTid, RollbackDeleteRow, managerVars, RollbackPcs
  <2>2. ~Running(t)'
    <3>1. pc'[t] \in {"rollback", "rollbackBegin", "rolledBack"}
      BY <1>2, <1>16 DEF RollbackInsertTid, RollbackDeleteRow, NextRow
    <3>2. QED
      BY <3>1 DEF Running, RunningPcs, Scanning
  <2>3. \A r \in Rows : tid'[r] = t => tid[r] = t
    BY <1>2, <1>16, <2>1, TidSteps
  <2>4. QED
    BY <1>3, <2>1, <2>2, <2>3 DEF HoldsLocks, Layout
<1>17. CASE DeleteRow(t)
  <2> DEFINE r == CurrentRow(t)
  <2>1. /\ pc[t] = "delete" /\ Running(t) /\ Cur(t) \in DeleteSlots(t) /\ r = Row(t, Cur(t)) /\ r \in Rows
        /\ ticket[t] = 0 /\ ticket' = ticket /\ tid[r] \in Tx \cup {NoTid}
    BY <1>2, <1>17, RowActions, TicketFacts DEF DeleteRow, managerVars
  <2>2. ~Executed(t, Cur(t)) /\ op[t] \in Nat /\ pos[t] \in Nat
    BY <1>2, <2>1 DEF Executed, Cur
  <2> HIDE DEF r
  <2>3. CASE tid[r] \notin {NoTid, t}
    <3>1. tid' = tid /\ pc'[t] = "rollback"
      BY <1>2, <1>17, <2>3, TidSteps DEF DeleteRow, r
    <3>2. ~Running(t)'
      BY <3>1 DEF Running, RunningPcs, Scanning
    <3>3. QED
      BY <1>6, <2>1, <3>1, <3>2
  <2>4. CASE tid[r] \in {NoTid, t}
    <3>1. \A x \in Rows : tid'[x] = IF x = r THEN (IF tid[r] = t THEN NoTid ELSE t) ELSE tid[x]
      BY <1>2, <1>17, <2>1, <2>4, TidSteps DEF r
    <3>2. \A s \in AllSlots(t) : Executed(t, s)' <=> Executed(t, s) \/ s = Cur(t)
      <4> TAKE s \in AllSlots(t)
      <4>1. s = <<s[1], s[2]>> /\ s[1] \in Nat /\ s[2] \in Nat /\ s[2] <= Len(ops[t][s[1]].rows) /\ s[1] <= Len(ops[t])
        BY <1>1, SlotFacts
      <4>2. s = Cur(t) <=> s[1] = op[t] /\ s[2] = pos[t]
        BY <4>1 DEF Cur
      <4>3. op'[t] = op[t] /\ pos'[t] = pos[t] + 1 /\ pc'[t] = IF pos[t] = Len(Current(t).rows) THEN "active" ELSE "delete"
        <5>1. /\ pos' = [pos EXCEPT ![t] = @ + 1] /\ op' = op
              /\ IF pos[t] = Len(Current(t).rows) THEN pc' = [pc EXCEPT ![t] = "active"] ELSE pc' = pc
          BY <1>17, <2>4 DEF DeleteRow, r
        <5>2. QED
          BY <1>2, <2>1, <5>1
      <4>4. CASE pos[t] = Len(Current(t).rows)
        BY SMTT(60), <2>1, <2>2, <4>1, <4>2, <4>3, <4>4 DEF Executed, Current
      <4>5. CASE pos[t] # Len(Current(t).rows)
        BY <2>1, <2>2, <4>1, <4>2, <4>3, <4>5 DEF Executed
      <4>6. QED
        BY <4>4, <4>5
    <3>3. InsertedBy(t, r) <=> tid[r] = t
      <4>1. ASSUME ~InsertedBy(t, r) PROVE tid[r] # t
        BY <1>3, <2>1, <2>2, <4>1
      <4>2. ASSUME NEW s \in InsertSlots(t), Row(t, s) = r PROVE tid[r] = t
        BY <1>3, <1>4, <2>1, <2>2, <4>2
      <4>3. QED
        BY <4>1, <4>2 DEF InsertedBy
    <3>4. DeletedBy(t, r)
      BY <2>1 DEF DeletedBy
    <3>5. \A x \in Rows : tid'[x] = t => InsertedBy(t, x) \/ DeletedBy(t, x)
      BY <1>3, <3>1, <3>4
    <3>6. \A s \in InsertSlots(t) :
            tid'[Row(t, s)] = t <=> ~\E q \in DeleteSlots(t) : Row(t, q) = Row(t, s) /\ Executed(t, q)'
      <4> TAKE s \in InsertSlots(t)
      <4>1. CASE Row(t, s) = r
        <5>1. tid[r] = t /\ tid'[r] = NoTid
          BY <2>1, <3>1, <3>3, <4>1 DEF InsertedBy
        <5>2. PICK q \in DeleteSlots(t) : q = Cur(t)
          BY <2>1
        <5>3. Executed(t, q)' /\ Row(t, q) = Row(t, s)
          BY <1>4, <2>1, <3>2, <4>1, <5>2
        <5>4. QED
          BY <1>2, <4>1, <5>1, <5>3
      <4>2. CASE Row(t, s) # r
        BY <1>3, <1>4, <2>1, <3>1, <3>2, <4>2
      <4>3. QED
        BY <4>1, <4>2
    <3>7. \A s \in DeleteSlots(t) : ~InsertedBy(t, Row(t, s)) => (tid'[Row(t, s)] = t <=> Executed(t, s)')
      <4> TAKE s \in DeleteSlots(t)
      <4>1. CASE s = Cur(t)
        BY <1>4, <2>1, <3>1, <3>2, <3>3, <4>1
      <4>2. CASE s # Cur(t)
        BY <1>3, <1>4, <2>1, <3>1, <3>2, <4>2
      <4>3. QED
        BY <4>1, <4>2
    <3>8. QED
      BY <1>4, <2>1, <3>5, <3>6, <3>7 DEF HoldsLocks, Layout
  <2>5. QED
    BY <2>3, <2>4
<1>18. QED
  BY <1>11, <1>12, <1>13, <1>14, <1>15, <1>16, <1>17 DEF Step, Delete, Commit, Rollback

LEMMA LocksStep ==
  ASSUME IInv, [Next]_vars
  PROVE  Locks'
<1>1. ASSUME NEW t \in Tx, Step(t), NEW u \in Tx PROVE HoldsLocks(u)'
  BY <1>1, OwnHoldsLocks, OthersHoldLocks
<1>2. ASSUME Advance \/ UNCHANGED vars, NEW u \in Tx PROVE HoldsLocks(u)'
  <2>1. HoldsLocks(u) /\ SameThread(u) /\ tid' = tid
    BY <1>2, NoStep DEF IInv, Locks
  <2>2. \A s \in InsertSlots(u) : s \in AllSlots(u) /\ Row(u, s) \in Rows
    BY SlotFacts DEF AllSlots, IInv
  <2>3. \A s \in DeleteSlots(u) : s \in AllSlots(u) /\ Row(u, s) \in Rows
    BY SlotFacts DEF AllSlots, IInv
  <2>4. QED
    BY <2>1, <2>2, <2>3 DEF SameThread, SameSlots, HoldsLocks
<1>3. QED
  BY <1>1, <1>2 DEF Locks, Next, Step, Finished

LEMMA InitSlots ==
  ASSUME Init, NEW t \in Tx
  PROVE  InsertSlots(t) = {} /\ DeleteSlots(t) = {}
<1>1. DOMAIN ops[t] = {}
  BY DEF Init
<1>2. QED
  BY <1>1 DEF InsertSlots, DeleteSlots, Slots

LEMMA InitLocks == Init => Locks
<1> SUFFICES ASSUME Init, NEW t \in Tx PROVE HoldsLocks(t)
  BY DEF Locks
<1>1. \A r \in Rows : tid[r] # t
  BY DEF Init
<1>2. QED
  BY <1>1, InitSlots DEF HoldsLocks

----------------------------------------------------------------------------
(* Rollbacks find the locks.                                               *)

LEMMA RollbackStarts ==
  ASSUME IInv, NEW t \in Tx, RollbackByUser(t) \/ (DeleteRow(t) /\ tid[CurrentRow(t)] \notin {NoTid, t})
  PROVE  FindsLocks(t)'
<1>1. Ranges /\ Positions /\ HoldsLocks(t)
  BY DEF IInv, Locks
<1>2. Step(t)
  BY DEF Step, Rollback, Delete
<1>3. SameSlots(t)
  <2>1. ~StartDelete(t) /\ ~Insert(t)
    BY <1>1, RowActions DEF RollbackByUser, StartDelete, Insert, At, DeleteRow, threadVars, Goto, Ranges, ThreadRanges
  <2>2. QED
    BY <1>1, <1>2, <2>1, LayoutStays DEF SameLayout
<1>4. /\ Running(t) /\ pc[t] \in {"active", "delete"} /\ pc'[t] \in {"rollback", "rolledBack"} /\ tid' = tid
      /\ op'[t] = 1 /\ pos'[t] = 1 /\ op[t] \in Nat /\ pos[t] \in Nat
  BY <1>1, TidSteps DEF RollbackByUser, DeleteRow, At, Goto, tableVars, rowVars, Running, RunningPcs, Scanning,
                        Ranges, ThreadRanges
<1>5. /\ \A s \in InsertSlots(t) : s \in AllSlots(t)
      /\ \A s \in DeleteSlots(t) : s \in AllSlots(t)
      /\ \A s \in AllSlots(t) : Row(t, s) \in Rows /\ s[1] \in Nat \ {0} /\ s[2] \in Nat \ {0}
  BY <1>1, SlotFacts DEF AllSlots
<1>6. \A s \in AllSlots(t) : ~Passed(t, s)' /\ ~TidReset(t, s)'
  BY <1>4, <1>5 DEF Passed, TidReset, SecondLoop
<1>7. \A s, q \in DeleteSlots(t) :
        /\ s[1] = q[1] /\ s[2] < q[2] /\ tid[Row(t, q)] = t
        /\ ~InsertedBy(t, Row(t, s)) /\ ~InsertedBy(t, Row(t, q))
        => tid[Row(t, s)] = t
  <2> SUFFICES ASSUME NEW s \in DeleteSlots(t), NEW q \in DeleteSlots(t), s[1] = q[1], s[2] < q[2],
                      tid[Row(t, q)] = t, ~InsertedBy(t, Row(t, s)), ~InsertedBy(t, Row(t, q))
               PROVE  tid[Row(t, s)] = t
    OBVIOUS
  <2>1. Executed(t, q)
    BY <1>1, <1>4 DEF HoldsLocks
  <2>2. Executed(t, s)
    BY <1>4, <1>5, <2>1 DEF Executed
  <2>3. QED
    BY <1>1, <1>4, <2>2 DEF HoldsLocks
<1>8. \A r \in Rows : tid[r] = t => InsertedBy(t, r) \/ \E s \in DeleteSlots(t) : Row(t, s) = r
  BY <1>1 DEF HoldsLocks, DeletedBy
<1>9. QED
  BY <1>3, <1>4, <1>5, <1>6, <1>7, <1>8 DEF FindsLocks, SameSlots

\* Delete gives up at the first row it does not hold.  It may: in table order, what it
\* passes over was not locked.
LEMMA RollbackDeleteFinds ==
  ASSUME IInv, ~AnyOrder, NEW t \in Tx, RollbackDeleteRow(t)
  PROVE  FindsLocks(t)'
<1> DEFINE r == CurrentRow(t)
<1>1. Ranges /\ Positions /\ InsertsApart /\ DeletesApart
  BY DEF IInv
<1>2. /\ pc[t] = "rollback" /\ Rolls(t) /\ Cur(t) \in DeleteSlots(t) /\ r = Row(t, Cur(t)) /\ r \in Rows
      /\ ~SecondLoop(t)
  BY RowActions DEF RollbackPcs, SecondLoop
<1>3. FindsLocks(t)
  BY <1>2 DEF IInv, RollbackLocks
<1>4. /\ \A s \in InsertSlots(t) : TidReset(t, s) => tid[Row(t, s)] # t
      /\ \A x \in Rows : tid[x] = t =>
           \/ InsertedBy(t, x)
           \/ \E s \in DeleteSlots(t) : Row(t, s) = x /\ ~Passed(t, s)
      /\ \A s, q \in DeleteSlots(t) :
           /\ s[1] = q[1] /\ s[2] < q[2] /\ ~Passed(t, s) /\ tid[Row(t, q)] = t
           /\ ~InsertedBy(t, Row(t, s)) /\ ~InsertedBy(t, Row(t, q))
           => tid[Row(t, s)] = t
  BY <1>3 DEF FindsLocks
<1>5. SameSlots(t)
  <2>1. Step(t) /\ ~StartDelete(t) /\ ~Insert(t)
    BY <1>2 DEF Step, Rollback, StartDelete, Insert, At
  <2>2. QED
    BY <1>1, <2>1, LayoutStays DEF SameLayout
<1>6. /\ \A s \in InsertSlots(t) : s \in AllSlots(t) /\ s \notin DeleteSlots(t)
      /\ \A s \in DeleteSlots(t) : s \in AllSlots(t)
      /\ \A s \in AllSlots(t) : /\ Row(t, s) \in Rows /\ s[1] \in Nat \ {0} /\ s[2] \in Nat \ {0}
                                /\ s = <<s[1], s[2]>>
                                /\ s \in InsertSlots(t) <=> ops[t][s[1]].type = "Insert"
                                /\ s \in DeleteSlots(t) <=> ops[t][s[1]].type = "Delete"
  BY <1>1, SlotFacts DEF AllSlots
<1>7. /\ op \in [Tx -> Nat \ {0}] /\ pos \in [Tx -> 1..MaxRows + 1] /\ pc \in [Tx -> Pcs] /\ t # NoTid
      /\ tid \in [Rows -> Tx \cup {NoTid}] /\ ops[t][op[t]].type = "Delete"
  <2>1. Current(t).type = "Delete"
    BY DEF RollbackDeleteRow
  <2>2. QED
    BY <1>1, <2>1 DEF Ranges, RowRanges, ThreadRanges, Current
<1>8. ~SecondLoop(t)'
  <2>1. pc'[t] \in {"rollback", "rolledBack"}
    BY <1>7 DEF RollbackDeleteRow, NextRow, Goto
  <2>2. QED
    BY <2>1 DEF SecondLoop
<1> HIDE DEF r
<1>9. CASE tid[r] = t
  <2>1. \A x \in Rows : tid'[x] = t <=> tid[x] = t /\ x # r
    BY <1>2, <1>7, <1>9, TidSteps DEF r
  <2>2. \A s \in AllSlots(t) : Passed(t, s)' <=> Passed(t, s) \/ s = Cur(t)
    <3>1. NextRow(t, "RolledBack", "rollback", "rolledBack")
      BY <1>9 DEF RollbackDeleteRow, r
    <3>2. QED
      BY <1>1, <1>2, <3>1, NextRowMoves DEF States, Pcs, RollbackPcs
  <2>3. \A s \in InsertSlots(t) : TidReset(t, s)' => TidReset(t, s)
    <3> SUFFICES ASSUME NEW s \in InsertSlots(t), TidReset(t, s)' PROVE TidReset(t, s)
      OBVIOUS
    <3>1. Passed(t, s)'
      BY <1>8 DEF TidReset, Passed
    <3>2. Passed(t, s)
      BY <1>2, <1>6, <2>2, <3>1
    <3>3. s[1] # op[t]
      BY <1>6, <1>7
    <3>4. QED
      BY <3>2, <3>3 DEF Passed, TidReset
  <2>4. /\ \A s \in InsertSlots(t) : TidReset(t, s)' => tid'[Row(t, s)] # t
        /\ \A x \in Rows : tid'[x] = t =>
             \/ InsertedBy(t, x)
             \/ \E s \in DeleteSlots(t) : Row(t, s) = x /\ ~Passed(t, s)'
    BY <1>2, <1>4, <1>6, <2>1, <2>2, <2>3
  <2>5. \A s, q \in DeleteSlots(t) :
           /\ s[1] = q[1] /\ s[2] < q[2] /\ ~Passed(t, s)' /\ tid'[Row(t, q)] = t
           /\ ~InsertedBy(t, Row(t, s)) /\ ~InsertedBy(t, Row(t, q))
           => tid'[Row(t, s)] = t
    <3>1. \A s \in DeleteSlots(t) : Row(t, s) = r => s = Cur(t)
      BY <1>1, <1>2 DEF DeletesApart
    <3>2. QED
      BY <1>4, <1>6, <2>1, <2>2, <3>1
  <2>6. QED
    BY <1>5, <1>6, <2>4, <2>5 DEF FindsLocks, SameSlots
<1>10. CASE tid[r] # t
  <2>1. tid' = tid /\ op'[t] = op[t] + 1 /\ pos'[t] = 1
    BY <1>7, <1>10, TidSteps DEF RollbackDeleteRow, r
  <2>2. \A s \in AllSlots(t) : Passed(t, s)' <=> s[1] <= op[t]
    BY <1>6, <1>7, <2>1 DEF Passed
  <2>3. \A s \in AllSlots(t) : Passed(t, s) => Passed(t, s)'
    BY <1>6, <1>7, <2>2 DEF Passed
  <2>4. \A s \in InsertSlots(t) : TidReset(t, s)' => TidReset(t, s)
    <3> SUFFICES ASSUME NEW s \in InsertSlots(t), TidReset(t, s)' PROVE TidReset(t, s)
      OBVIOUS
    <3>1. s[1] < op[t] + 1 /\ s[1] # op[t] /\ s[1] \in Nat
      BY <1>6, <1>7, <1>8, <2>1 DEF TidReset
    <3>2. QED
      BY <1>7, <3>1 DEF TidReset
  <2>5. ASSUME NEW x \in Rows, tid[x] = t, ~InsertedBy(t, x),
               NEW s \in DeleteSlots(t), Row(t, s) = x, ~Passed(t, s), Passed(t, s)'
        PROVE  FALSE
    <3>1. s[1] = op[t] /\ s[2] > pos[t]
      <4>1. s[1] = op[t] /\ ~(s[2] < pos[t]) /\ s[2] \in Nat /\ pos[t] \in Nat
        BY <1>6, <1>7, <2>2, <2>5 DEF Passed
      <4>2. s # Cur(t)
        BY <1>2, <1>10, <2>5
      <4>3. s[2] # pos[t]
        BY <1>6, <4>1, <4>2 DEF Cur
      <4>4. QED
        BY <4>1, <4>3
    <3>2. Cur(t)[1] = s[1] /\ Cur(t)[2] < s[2] /\ ~Passed(t, Cur(t))
      BY <1>7, <3>1 DEF Cur, Passed
    <3>3. CASE ~InsertedBy(t, r)
      BY <1>2, <1>4, <1>10, <2>5, <3>2, <3>3
    <3>4. CASE InsertedBy(t, r)
      <4>1. r < x /\ r \in Nat /\ x \in Nat
        BY <1>1, <1>2, <2>5, <3>2 DEF DeletesApart, Rows
      <4>2. PICK y \in InsertSlots(t) : Row(t, y) = r
        BY <3>4 DEF InsertedBy
      <4>3. r > ChunkSize /\ x > ChunkSize /\ x <= size
        BY <1>1, <2>5, <4>1, <4>2 DEF InsertsApart, DeletesApart
      <4>4. PICK v \in Tx : InsertedBy(v, x)
        BY <1>1, <4>3 DEF InsertsApart
      <4>5. v # t
        BY <2>5, <4>4
      <4>6. PICK z \in InsertSlots(v) : Row(v, z) = x
        BY <4>4 DEF InsertedBy
      <4>7. Covers(t, v)
        BY <1>1, <2>5, <4>5, <4>6 DEF DeletesApart
      <4>8. x < r
        BY <1>1, <4>2, <4>6, <4>7 DEF InsertsApart
      <4>9. QED
        BY <4>1, <4>8
    <3>5. QED
      BY <3>3, <3>4
  <2>6. /\ \A s \in InsertSlots(t) : TidReset(t, s)' => tid'[Row(t, s)] # t
        /\ \A x \in Rows : tid'[x] = t =>
             \/ InsertedBy(t, x)
             \/ \E s \in DeleteSlots(t) : Row(t, s) = x /\ ~Passed(t, s)'
    BY <1>4, <2>1, <2>4, <2>5
  <2>7. \A s, q \in DeleteSlots(t) :
           /\ s[1] = q[1] /\ s[2] < q[2] /\ ~Passed(t, s)' /\ tid'[Row(t, q)] = t
           /\ ~InsertedBy(t, Row(t, s)) /\ ~InsertedBy(t, Row(t, q))
           => tid'[Row(t, s)] = t
    BY <1>4, <1>6, <2>1, <2>3
  <2>8. QED
    BY <1>5, <1>6, <2>6, <2>7 DEF FindsLocks, SameSlots
<1>11. QED
  BY <1>9, <1>10

\* Insert forgets its locks row by row.
LEMMA RollbackInsertFinds ==
  ASSUME IInv, ~AnyOrder, NEW t \in Tx,
         RollbackInsertEnd(t) \/ RollbackInsertBegin(t) \/ RollbackInsertTid(t)
  PROVE  FindsLocks(t)'
<1> DEFINE r == CurrentRow(t)
<1>1. Ranges /\ Positions
  BY DEF IInv
<1>2. /\ pc[t] \in RollbackPcs /\ Rolls(t) /\ Cur(t) \in InsertSlots(t) /\ r = Row(t, Cur(t)) /\ r \in Rows
      /\ RollbackInsertEnd(t) => pc[t] = "rollback"
      /\ RollbackInsertBegin(t) => pc[t] = "rollbackBegin"
      /\ RollbackInsertTid(t) => pc[t] = "rollbackTid"
  BY RowActions DEF RollbackPcs
<1>3. FindsLocks(t)
  BY <1>2 DEF IInv, RollbackLocks
<1>4. /\ \A s \in InsertSlots(t) : TidReset(t, s) => tid[Row(t, s)] # t
      /\ \A x \in Rows : tid[x] = t =>
           \/ InsertedBy(t, x)
           \/ \E s \in DeleteSlots(t) : Row(t, s) = x /\ ~Passed(t, s)
      /\ \A s, q \in DeleteSlots(t) :
           /\ s[1] = q[1] /\ s[2] < q[2] /\ ~Passed(t, s) /\ tid[Row(t, q)] = t
           /\ ~InsertedBy(t, Row(t, s)) /\ ~InsertedBy(t, Row(t, q))
           => tid[Row(t, s)] = t
  BY <1>3 DEF FindsLocks
<1>5. SameSlots(t)
  <2>1. Step(t) /\ ~StartDelete(t) /\ ~Insert(t)
    BY <1>2 DEF Step, Rollback, StartDelete, Insert, At, RollbackPcs
  <2>2. QED
    BY <1>1, <2>1, LayoutStays DEF SameLayout
<1>6. /\ \A s \in InsertSlots(t) : s \in AllSlots(t) /\ s \notin DeleteSlots(t)
      /\ \A s \in DeleteSlots(t) : s \in AllSlots(t)
      /\ \A s \in AllSlots(t) : /\ Row(t, s) \in Rows /\ s[1] \in Nat \ {0} /\ s[2] \in Nat \ {0}
                                /\ s = <<s[1], s[2]>> /\ s[2] <= Len(ops[t][s[1]].rows)
                                /\ s \in InsertSlots(t) <=> ops[t][s[1]].type = "Insert"
                                /\ s \in DeleteSlots(t) <=> ops[t][s[1]].type = "Delete"
  BY <1>1, SlotFacts DEF AllSlots
<1>7. /\ op \in [Tx -> Nat \ {0}] /\ pos \in [Tx -> 1..MaxRows + 1] /\ pc \in [Tx -> Pcs] /\ t # NoTid
      /\ tid \in [Rows -> Tx \cup {NoTid}] /\ ops[t][op[t]].type = "Insert"
  <2>1. Current(t).type = "Insert"
    BY <1>1, <1>2, CurrentSlot
  <2>2. QED
    BY <1>1, <2>1 DEF Ranges, RowRanges, ThreadRanges, Current
<1> HIDE DEF r
<1>8. /\ \A x \in Rows : tid'[x] = t => tid[x] = t
      /\ \A x \in Rows : tid[x] = t /\ tid'[x] # t => x = r
      /\ RollbackInsertTid(t) => tid'[r] # t
  BY <1>2, <1>7, TidSteps DEF RollbackInsertEnd, RollbackInsertBegin, rowVars, r
<1>9. /\ \A s \in InsertSlots(t) : TidReset(t, s)' => TidReset(t, s) \/ (RollbackInsertTid(t) /\ s = Cur(t))
      /\ \A s \in DeleteSlots(t) : Passed(t, s)' <=> Passed(t, s)
  <2>1. CASE RollbackInsertEnd(t)
    <3>1. /\ op'[t] = op[t] /\ pos[t] \in Nat
          /\ pc'[t] = "rollback" \/ (pc'[t] = "rollbackBegin" /\ pos'[t] = 1)
      BY <1>2, <1>7, <2>1 DEF RollbackInsertEnd, Goto
    <3>2. QED
      BY <1>6, <1>7, <2>1, <3>1 DEF TidReset, SecondLoop, Passed
  <2>2. CASE RollbackInsertBegin(t)
    <3>1. op'[t] = op[t] /\ pos'[t] = pos[t] /\ SecondLoop(t) /\ SecondLoop(t)'
      BY <1>2, <1>7, <2>2 DEF RollbackInsertBegin, Goto, SecondLoop
    <3>2. QED
      BY <3>1 DEF TidReset, Passed
  <2>3. CASE RollbackInsertTid(t)
    <3>1. SecondLoop(t)
      BY <1>2, <2>3 DEF SecondLoop
    <3>2. CASE pos[t] < Len(Current(t).rows)
      <4>1. op'[t] = op[t] /\ pos'[t] = pos[t] + 1 /\ SecondLoop(t)' /\ pos[t] \in Nat
        BY <1>7, <2>3, <3>2 DEF RollbackInsertTid, Goto, SecondLoop
      <4>2. QED
        BY <1>6, <1>7, <2>3, <3>1, <4>1 DEF TidReset, Passed, Cur
    <3>3. CASE ~(pos[t] < Len(Current(t).rows))
      <4>1. NextRow(t, "RolledBack", "rollback", "rolledBack")
        BY <2>3, <3>3 DEF RollbackInsertTid
      <4>2. \A s \in AllSlots(t) : Passed(t, s)' <=> Passed(t, s) \/ s = Cur(t)
        BY <1>1, <1>2, <4>1, NextRowMoves DEF States, Pcs, RollbackPcs
      <4>3. ~SecondLoop(t)'
        BY <1>7, <3>3, <4>1 DEF NextRow, Goto, SecondLoop
      <4>4. \A s \in InsertSlots(t) : TidReset(t, s)' => TidReset(t, s) \/ s = Cur(t)
        BY <1>6, <3>1, <4>2, <4>3 DEF TidReset, Passed
      <4>5. QED
        BY <1>2, <1>6, <2>3, <4>2, <4>4
    <3>4. QED
      BY <3>2, <3>3
  <2>4. QED
    BY <2>1, <2>2, <2>3
<1>10. InsertedBy(t, r)
  BY <1>2 DEF InsertedBy
<1>11. /\ \A s \in InsertSlots(t) : TidReset(t, s)' => tid'[Row(t, s)] # t
       /\ \A x \in Rows : tid'[x] = t =>
            \/ InsertedBy(t, x)
            \/ \E s \in DeleteSlots(t) : Row(t, s) = x /\ ~Passed(t, s)'
  BY <1>2, <1>4, <1>6, <1>8, <1>9
<1>12. \A s, q \in DeleteSlots(t) :
           /\ s[1] = q[1] /\ s[2] < q[2] /\ ~Passed(t, s)' /\ tid'[Row(t, q)] = t
           /\ ~InsertedBy(t, Row(t, s)) /\ ~InsertedBy(t, Row(t, q))
           => tid'[Row(t, s)] = t
  BY <1>4, <1>6, <1>8, <1>9, <1>10
<1>13. QED
  BY <1>5, <1>6, <1>11, <1>12 DEF FindsLocks, SameSlots

LEMMA RollbackLocksStep ==
  ASSUME IInv, [Next]_vars, ~AnyOrder
  PROVE  RollbackLocks'
<1>1. Ranges /\ Positions /\ RollbackLocks
  BY DEF IInv
<1>2. ASSUME NEW t \in Tx, Step(t), NEW u \in Tx, u # t, Rolls(u)' PROVE FindsLocks(u)'
  BY <1>1, <1>2, OthersStay, OthersHoldLocks DEF SameThread, RollbackLocks
<1>3. ASSUME NEW t \in Tx, Step(t), Rolls(t)' PROVE FindsLocks(t)'
  <2>1. pc \in [Tx -> Pcs] /\ phase \in [Tx -> Phases]
    BY <1>1 DEF Ranges, ThreadRanges
  <2>2. /\ pc'[t] \in {"rollback", "rollbackBegin", "rollbackTid", "rolledBack", "gone"}
        /\ pc'[t] = "gone" => phase'[t] # "Committed"
    BY <1>3 DEF Rolls, RollbackPcs
  <2>3. ~Begin(t) /\ ~Validate(t) /\ ~StartDelete(t) /\ ~Insert(t)
    BY <2>1, <2>2 DEF Begin, Validate, StartValidate, EnterChunk, AfterChunk, ReadTid, ReadBegin, ReadEnd,
                      ReturnRows, StartDelete, Insert, At, Goto, threadVars
  <2>4. ~Commit(t)
    BY <2>1, <2>2 DEF Commit, CommitReadOnly, StartCommit, CommitInsertBegin, CommitInsertTid, CommitDeleteEnd,
                      CommitDeleteInvalid, MakePending, Acknowledge, NextRow, At, Goto
  <2>5. CASE MarkAsRolledBack(t)
    <3>1. /\ pc[t] = "rolledBack" /\ tid' = tid /\ op' = op /\ pos' = pos /\ pc'[t] = "gone"
      BY <2>1, <2>5 DEF MarkAsRolledBack, At, Goto, tableVars, rowVars
    <3>2. SameSlots(t)
      BY <2>5, SameOpsSameSlots DEF MarkAsRolledBack
    <3>3. FindsLocks(t) /\ ~SecondLoop(t) /\ ~SecondLoop(t)'
      BY <1>1, <3>1 DEF RollbackLocks, Rolls, SecondLoop
    <3>4. \A s : (Passed(t, s)' <=> Passed(t, s)) /\ (TidReset(t, s)' <=> TidReset(t, s))
      BY <3>1, <3>3 DEF Passed, TidReset
    <3>5. /\ \A s \in InsertSlots(t) : Row(t, s)' = Row(t, s) /\ Row(t, s) \in Rows
          /\ \A s \in DeleteSlots(t) : Row(t, s)' = Row(t, s) /\ Row(t, s) \in Rows
      BY <1>1, <3>2, SlotFacts DEF SameSlots, AllSlots
    <3>6. QED
      BY <3>1, <3>2, <3>3, <3>4, <3>5 DEF FindsLocks, SameSlots
  <2>6. CASE DeleteRow(t)
    <3>1. tid[CurrentRow(t)] \notin {NoTid, t}
      BY <2>1, <2>2, <2>6 DEF DeleteRow, At, Goto
    <3>2. QED
      BY <2>6, <3>1, RollbackStarts
  <2>7. QED
    BY <1>3, <2>3, <2>4, <2>5, <2>6, RollbackStarts, RollbackDeleteFinds, RollbackInsertFinds DEF Step, Delete, Rollback
<1>4. ASSUME Advance \/ UNCHANGED vars, NEW u \in Tx, Rolls(u)' PROVE FindsLocks(u)'
  <2>1. FindsLocks(u) /\ SameThread(u) /\ tid' = tid
    BY <1>1, <1>4, NoStep DEF RollbackLocks, SameThread
  <2>2. /\ \A s \in InsertSlots(u) : s \in AllSlots(u) /\ Row(u, s) \in Rows
        /\ \A s \in DeleteSlots(u) : s \in AllSlots(u) /\ Row(u, s) \in Rows
    BY <1>1, SlotFacts DEF AllSlots
  <2>3. QED
    BY <2>1, <2>2 DEF SameThread, SameSlots, FindsLocks
<1>5. QED
  BY <1>2, <1>3, <1>4 DEF RollbackLocks, Next, Step, Finished

LEMMA InitRollbackLocks == Init => RollbackLocks
<1> SUFFICES ASSUME Init, NEW t \in Tx PROVE FindsLocks(t)
  BY DEF RollbackLocks
<1>1. \A r \in Rows : tid[r] # t
  BY DEF Init
<1>2. QED
  BY <1>1, InitSlots DEF FindsLocks

----------------------------------------------------------------------------
(* The commit ids of the rows.                                             *)

LEMMA FieldsStay ==
  ASSUME NEW t \in Tx, Step(t)
  PROVE  /\ ~CommitInsertBegin(t) /\ ~RollbackInsertBegin(t) => begin' = begin
         /\ ~CommitDeleteEnd(t) /\ ~RollbackInsertEnd(t) => end' = end
         /\ ~CommitDeleteInvalid(t) /\ ~RollbackInsertEnd(t) => invalid' = invalid
<1> USE DEF tableVars, rowVars
<1>1. CASE Begin(t) \/ Validate(t) \/ Delete(t) \/ Insert(t)
  BY <1>1 DEF Begin, Validate, StartValidate, EnterChunk, ReadTid, ReadBegin, ReadEnd, ReturnRows, Delete,
              StartDelete, DeleteRow, Insert
<1>2. CASE Commit(t)
  BY <1>2 DEF Commit, CommitReadOnly, StartCommit, CommitInsertBegin, CommitInsertTid, CommitDeleteEnd,
              CommitDeleteInvalid, MakePending, Acknowledge
<1>3. CASE Rollback(t)
  BY <1>3 DEF Rollback, RollbackByUser, RollbackInsertEnd, RollbackInsertBegin,
              RollbackInsertTid, RollbackDeleteRow, MarkAsRolledBack
<1>4. QED
  BY <1>1, <1>2, <1>3 DEF Step

LEMMA FieldSteps ==
  ASSUME IInv, NEW t \in Tx
  PROVE  /\ CommitInsertBegin(t) => begin' = [begin EXCEPT ![CurrentRow(t)] = ticket[t]] /\ end' = end
         /\ RollbackInsertBegin(t) => begin' = [begin EXCEPT ![CurrentRow(t)] = 0] /\ end' = end
         /\ CommitDeleteEnd(t) => end' = [end EXCEPT ![CurrentRow(t)] = ticket[t]] /\ begin' = begin
         /\ RollbackInsertEnd(t) => end' = [end EXCEPT ![CurrentRow(t)] = 0] /\ begin' = begin
  BY DEF CommitInsertBegin, RollbackInsertBegin, CommitDeleteEnd, RollbackInsertEnd

\* An end_cid is written once: no two transactions end a row, and no step ends it twice.
LEMMA EndWasOpen ==
  ASSUME IInv, NEW t \in Tx, CommitDeleteEnd(t) \/ RollbackInsertEnd(t)
  PROVE  end[CurrentRow(t)] = MAX_COMMIT_ID
<1> SUFFICES ASSUME end[CurrentRow(t)] # MAX_COMMIT_ID PROVE FALSE
  OBVIOUS
<1>1. /\ CurrentRow(t) = Row(t, Cur(t)) /\ CurrentRow(t) \in Rows /\ t \notin ready /\ ~Passed(t, Cur(t))
      /\ pc[t] \in {"commit", "rollback"}
      /\ CommitDeleteEnd(t) => ticket[t] # 0 /\ pc[t] = "commit" /\ Cur(t) \in DeleteSlots(t)
      /\ RollbackInsertEnd(t) => Rolls(t) /\ Cur(t) \in InsertSlots(t) /\ ticket[t] = 0
  BY RowActions, CurrentSlot, TicketFacts DEF CommitPcs, RollbackPcs, IInv
<1>2. PICK u \in Tx :
        \/ \E s \in InsertSlots(u) : Row(u, s) = CurrentRow(t) /\ Reset(u, s)
        \/ \E s \in DeleteSlots(u) : Row(u, s) = CurrentRow(t) /\ Ended(u, s)
  BY <1>1 DEF IInv, Versions
<1>3. ASSUME NEW s \in InsertSlots(u), Row(u, s) = CurrentRow(t), Reset(u, s) PROVE FALSE
  <2>1. Rolls(u) /\ EndReset(u, s) /\ ticket[u] = 0
    BY <1>3, TicketFacts DEF Reset
  <2>2. CASE CommitDeleteEnd(t)
    <3>1. u # t
      BY <1>1, <2>1, <2>2
    <3>2. Covers(t, u)
      BY <1>1, <1>3, <2>2, <3>1 DEF IInv, DeletesApart
    <3>3. QED
      BY <2>1, <3>2 DEF Covers
  <2>3. CASE RollbackInsertEnd(t)
    <3>1. u = t /\ s = Cur(t)
      BY <1>1, <1>3, <2>3 DEF IInv, InsertsApart
    <3>2. QED
      BY <1>1, <2>1, <3>1 DEF EndReset, SecondLoop
  <2>4. QED
    BY <2>2, <2>3
<1>4. ASSUME NEW s \in DeleteSlots(u), Row(u, s) = CurrentRow(t), Ended(u, s) PROVE FALSE
  <2>1. ticket[u] # 0 /\ EndWritten(u, s)
    BY <1>4 DEF Ended
  <2>2. CASE CommitDeleteEnd(t)
    <3>1. u = t /\ s = Cur(t)
      BY <1>1, <1>4, <2>1, <2>2, OneDeleter
    <3>2. QED
      BY <1>1, <2>1, <3>1 DEF EndWritten
  <2>3. CASE RollbackInsertEnd(t)
    <3>1. u # t
      BY <1>1, <2>1, <2>3
    <3>2. QED
      BY <1>1, <1>4, <2>3, <3>1, OwnUntilReady DEF DeletedBy
  <2>4. QED
    BY <2>2, <2>3
<1>5. QED
  BY <1>2, <1>3, <1>4

LEMMA EndOnce ==
  ASSUME IInv, [Next]_vars, NEW r \in Rows, end[r] # MAX_COMMIT_ID
  PROVE  end'[r] = end[r]
<1>1. end \in [Rows -> 0..MAX_COMMIT_ID]
  BY DEF IInv, Ranges, RowRanges
<1>2. ASSUME NEW t \in Tx, CommitDeleteEnd(t) \/ RollbackInsertEnd(t) PROVE end'[r] = end[r]
  BY <1>1, <1>2, EndWasOpen, FieldSteps
<1>3. ASSUME NEW t \in Tx, Step(t), ~CommitDeleteEnd(t), ~RollbackInsertEnd(t) PROVE end'[r] = end[r]
  BY <1>3, FieldsStay
<1>4. CASE Advance \/ UNCHANGED vars
  BY <1>4 DEF Advance, vars, tableVars, rowVars
<1>5. QED
  BY <1>2, <1>3, <1>4 DEF Next, Step, Finished

\* What a step stamps, ends and resets.
LEMMA OwnFlags ==
  ASSUME IInv, NEW t \in Tx, Step(t)
  PROVE  /\ ticket[t] # 0 => ticket'[t] = ticket[t]
         /\ \A s \in InsertSlots(t) : Stamped(t, s)' => Stamped(t, s) \/ (CommitInsertBegin(t) /\ s = Cur(t))
         /\ \A s \in DeleteSlots(t) : Ended(t, s)' <=> Ended(t, s) \/ (CommitDeleteEnd(t) /\ s = Cur(t))
         /\ \A s \in InsertSlots(t) : Reset(t, s)' <=> Reset(t, s) \/ (RollbackInsertEnd(t) /\ s = Cur(t))
         /\ Running(t) /\ Running(t)' => \A s : ~Stamped(t, s)' /\ ~Ended(t, s)' /\ ~Reset(t, s)'
<1> USE DEF At, Goto
<1>1. Ranges /\ Positions
  BY DEF IInv
<1>2. /\ pc \in [Tx -> Pcs] /\ op \in [Tx -> Nat \ {0}] /\ pos \in [Tx -> 1..MaxRows + 1] /\ ticket \in [Tx -> Nat]
      /\ phase \in [Tx -> Phases] /\ issued \in Nat
  BY <1>1 DEF Ranges, ThreadRanges, ManagerRanges
<1>3. /\ \A s \in InsertSlots(t) : s \in AllSlots(t) /\ s \notin DeleteSlots(t)
      /\ \A s \in DeleteSlots(t) : s \in AllSlots(t)
      /\ \A s \in AllSlots(t) : /\ s[1] \in Nat \ {0} /\ s[2] \in Nat \ {0}
                                /\ s = <<s[1], s[2]>> /\ s[2] <= Len(ops[t][s[1]].rows)
                                /\ s \in InsertSlots(t) <=> ops[t][s[1]].type = "Insert"
                                /\ s \in DeleteSlots(t) <=> ops[t][s[1]].type = "Delete"
  BY <1>1, SlotFacts DEF AllSlots
<1> DEFINE Goal ==
         /\ ticket[t] # 0 => ticket'[t] = ticket[t]
         /\ \A s \in InsertSlots(t) : Stamped(t, s)' => Stamped(t, s) \/ (CommitInsertBegin(t) /\ s = Cur(t))
         /\ \A s \in DeleteSlots(t) : Ended(t, s)' <=> Ended(t, s) \/ (CommitDeleteEnd(t) /\ s = Cur(t))
         /\ \A s \in InsertSlots(t) : Reset(t, s)' <=> Reset(t, s) \/ (RollbackInsertEnd(t) /\ s = Cur(t))
         /\ Running(t) /\ Running(t)' => \A s : ~Stamped(t, s)' /\ ~Ended(t, s)' /\ ~Reset(t, s)'
\* A transaction without a commit id that does not roll back.
<1>4. ASSUME ticket[t] = 0, ~Rolls(t), ticket'[t] = 0, ~Rolls(t)', pc[t] \notin {"commit", "rollback"} PROVE Goal
  <2>1. ~CommitDeleteEnd(t) /\ ~RollbackInsertEnd(t)
    BY <1>4 DEF CommitDeleteEnd, RollbackInsertEnd
  <2>2. QED
    BY <1>4, <2>1 DEF Stamped, Ended, Reset
<1>5. CASE Begin(t) \/ Validate(t) \/ Delete(t) \/ Insert(t) \/ CommitReadOnly(t)
  <2>1. pc[t] \in RunningPcs \cup {"idle"} /\ ticket'[t] = ticket[t]
    <3>1. pc[t] \in RunningPcs \cup {"idle"}
      BY <1>5 DEF Begin, Validate, StartValidate, EnterChunk, ReadTid, ReadBegin, ReadEnd, ReturnRows, Delete,
                  StartDelete, DeleteRow, Insert, CommitReadOnly, RunningPcs, Scanning
    <3>2. ticket'[t] = ticket[t]
      <4>1. CASE Begin(t)
        BY <4>1 DEF Begin, Manager!Begin
      <4>2. CASE ~Begin(t)
        BY <1>5, <4>2, <3>1, ManagerStays
           DEF managerVars, Validate, StartValidate, EnterChunk, ReadTid, ReadBegin, ReadEnd, ReturnRows, Delete,
               StartDelete, DeleteRow, Insert, CommitReadOnly
      <4>3. QED
        BY <4>1, <4>2
    <3>3. QED
      BY <3>1, <3>2
  <2>2. ticket[t] = 0 /\ ~Rolls(t) /\ pc[t] \notin {"commit", "rollback"}
    BY <2>1, TicketFacts DEF Running, Rolls, RunningPcs, Scanning, RollbackPcs
  <2>3. CASE ~Rolls(t)'
    BY <1>4, <2>1, <2>2, <2>3
  <2>4. CASE Rolls(t)'
    <3>1. pc'[t] = "rollback" /\ op'[t] = 1 /\ pos'[t] = 1
      <4>1. pc'[t] \in {"rollback", "rollbackBegin", "rollbackTid", "rolledBack", "gone"}
            /\ (pc'[t] = "gone" => phase'[t] # "Committed")
        BY <2>4 DEF Rolls, RollbackPcs
      <4>2. ~CommitReadOnly(t)
        BY <1>2, <4>1 DEF CommitReadOnly
      <4>3. ~Begin(t) /\ ~Validate(t) /\ ~StartDelete(t) /\ ~Insert(t)
        BY <1>2, <4>1 DEF Begin, Validate, StartValidate, EnterChunk, AfterChunk, ReadTid, ReadBegin, ReadEnd,
                          ReturnRows, StartDelete, Insert, threadVars
      <4>4. QED
        BY <1>2, <1>5, <4>1, <4>2, <4>3 DEF Delete, DeleteRow
    <3>2. \A s \in AllSlots(t) : ~Passed(t, s)'
      BY <1>3, <3>1 DEF Passed
    <3>3. \A s \in AllSlots(t) : ~Stamped(t, s)' /\ ~Ended(t, s)' /\ ~Reset(t, s)'
      BY <2>1, <2>2, <3>1, <3>2 DEF Stamped, Ended, Reset, EndReset, SecondLoop
    <3>4. ~Running(t)'
      BY <3>1 DEF Running, RunningPcs, Scanning
    <3>5. ~CommitDeleteEnd(t) /\ ~RollbackInsertEnd(t)
      BY <2>2 DEF CommitDeleteEnd, RollbackInsertEnd
    <3>6. QED
      BY <1>3, <2>1, <2>2, <3>3, <3>4, <3>5 DEF Stamped, Ended, Reset
  <2>5. QED
    BY <2>3, <2>4
<1>6. CASE StartCommit(t) \/ RollbackByUser(t)
  <2>1. pc[t] = "active" /\ op'[t] = 1 /\ pos'[t] = 1 /\ pc'[t] \in {"commit", "rollback", "rolledBack"}
    BY <1>2, <1>6 DEF StartCommit, RollbackByUser
  <2>2. ticket[t] = 0 /\ ~Rolls(t)
    BY <2>1, TicketFacts DEF Running, RunningPcs, Scanning
  <2>3. \A s \in AllSlots(t) : ~Passed(t, s)'
    BY <1>3, <2>1 DEF Passed
  <2>4. \A s \in AllSlots(t) : ~Stamped(t, s)' /\ ~Ended(t, s)' /\ ~Reset(t, s)'
    BY <2>1, <2>3 DEF Stamped, Ended, Reset, BeginWritten, EndWritten, EndReset, SecondLoop
  <2>5. ~Running(t)'
    BY <2>1 DEF Running, RunningPcs, Scanning
  <2>6. ~CommitDeleteEnd(t) /\ ~RollbackInsertEnd(t)
    BY <2>1 DEF CommitDeleteEnd, RollbackInsertEnd
  <2>7. QED
    BY <1>3, <2>2, <2>4, <2>5, <2>6 DEF Stamped, Ended, Reset
<1>7. CASE CommitInsertBegin(t) \/ CommitDeleteEnd(t)
  <2>1. /\ pc[t] = "commit" /\ op' = op /\ pos' = pos /\ ticket' = ticket /\ ticket[t] # 0
        /\ CommitInsertBegin(t) => pc'[t] = "commitTid" /\ Cur(t) \in InsertSlots(t) /\ ~CommitDeleteEnd(t)
        /\ CommitDeleteEnd(t) => pc'[t] = "commitInvalid" /\ Cur(t) \in DeleteSlots(t)
        /\ ~RollbackInsertEnd(t)
    BY <1>2, <1>7, RowActions DEF CommitInsertBegin, CommitDeleteEnd, RollbackInsertEnd, managerVars
  <2>2. Cur(t)' = Cur(t) /\ (\A s : Passed(t, s)' <=> Passed(t, s)) /\ ~Rolls(t) /\ ~Rolls(t)' /\ ~Running(t)'
    BY <1>7, <2>1 DEF Cur, Passed, Rolls, RollbackPcs, Running, RunningPcs, Scanning
  <2>3. QED
    BY <1>3, <1>7, <2>1, <2>2 DEF Stamped, Ended, Reset, BeginWritten, EndWritten
<1>8. CASE CommitInsertTid(t) \/ CommitDeleteInvalid(t)
  <2>1. /\ NextRow(t, "Committed", "commit", "pending") /\ ticket' = ticket /\ ticket[t] # 0
        /\ CommitInsertTid(t) => pc[t] = "commitTid" /\ Cur(t) \in InsertSlots(t)
        /\ CommitDeleteInvalid(t) => pc[t] = "commitInvalid" /\ Cur(t) \in DeleteSlots(t)
    BY <1>8, RowActions DEF CommitInsertTid, CommitDeleteInvalid, managerVars
  <2>2. /\ pc'[t] \in {"commit", "pending"}
        /\ \A s \in AllSlots(t) : Passed(t, s)' <=> Passed(t, s) \/ s = Cur(t)
    BY <1>1, <1>8, <2>1, NextRowMoves DEF Pcs, CommitPcs, States
  <2>3. ~Rolls(t) /\ ~Rolls(t)' /\ ~Running(t)'
    BY <1>8, <2>1, <2>2 DEF Rolls, RollbackPcs, Running, RunningPcs, Scanning
  <2>4. ~CommitDeleteEnd(t) /\ ~RollbackInsertEnd(t)
    BY <1>8, <2>1 DEF CommitDeleteEnd, RollbackInsertEnd
  <2>5. QED
    BY <1>3, <1>8, <2>1, <2>2, <2>3, <2>4 DEF Stamped, Ended, Reset, BeginWritten, EndWritten
<1>9. CASE MakePending(t) \/ Acknowledge(t)
  <2>1. /\ pc[t] \in {"pending", "await"} /\ pc'[t] \in {"await", "gone"} /\ op' = op /\ pos' = pos /\ ticket' = ticket
        /\ pc'[t] = "gone" => phase'[t] = "Committed"
    BY <1>2, <1>9 DEF MakePending, Acknowledge, Manager!MakeReady, Manager!Acknowledge
  <2>2. (\A s : Passed(t, s)' <=> Passed(t, s)) /\ ~Rolls(t) /\ ~Rolls(t)' /\ ~Running(t)'
    BY <2>1 DEF Passed, Rolls, RollbackPcs, Running, RunningPcs, Scanning
  <2>3. ~CommitDeleteEnd(t) /\ ~RollbackInsertEnd(t)
    BY <2>1 DEF CommitDeleteEnd, RollbackInsertEnd
  <2>4. QED
    BY <2>1, <2>2, <2>3 DEF Stamped, Ended, Reset, BeginWritten, EndWritten
<1>10. CASE MarkAsRolledBack(t)
  <2>1. /\ pc[t] = "rolledBack" /\ pc'[t] = "gone" /\ op' = op /\ pos' = pos /\ ticket' = ticket
        /\ phase'[t] \in {"RolledBackByUser", "RolledBackAfterConflict"}
    BY <1>2, <1>10 DEF MarkAsRolledBack, managerVars
  <2>2. /\ \A s : Passed(t, s)' <=> Passed(t, s)
        /\ Rolls(t) /\ Rolls(t)' /\ ~Running(t)' /\ ~SecondLoop(t) /\ ~SecondLoop(t)'
    BY <2>1 DEF Passed, Rolls, RollbackPcs, Running, RunningPcs, Scanning, SecondLoop
  <2>3. ticket[t] = 0
    BY <2>2, TicketFacts
  <2>4. ~CommitDeleteEnd(t) /\ ~RollbackInsertEnd(t)
    BY <2>1 DEF CommitDeleteEnd, RollbackInsertEnd
  <2>5. QED
    BY <2>1, <2>2, <2>3, <2>4 DEF Stamped, Ended, Reset, EndReset
<1>11. CASE RollbackInsertEnd(t) \/ RollbackInsertBegin(t) \/ RollbackInsertTid(t) \/ RollbackDeleteRow(t)
  <2>1. /\ pc[t] \in RollbackPcs /\ Rolls(t) /\ ticket' = ticket /\ ticket[t] = 0
        /\ pc'[t] \in {"rollback", "rollbackBegin", "rollbackTid", "rolledBack"}
    BY <1>2, <1>11, RowActions, TicketFacts DEF RollbackInsertEnd, RollbackInsertBegin, RollbackInsertTid, RollbackDeleteRow,
       NextRow, managerVars, RollbackPcs
  <2>2. Rolls(t)' /\ ~Running(t)'
    BY <2>1 DEF Rolls, RollbackPcs, Running, RunningPcs, Scanning
  <2>3. ~CommitDeleteEnd(t) /\ ~CommitInsertBegin(t)
    BY <2>1 DEF CommitDeleteEnd, CommitInsertBegin, RollbackPcs
  <2>4. \A s \in InsertSlots(t) : EndReset(t, s)' <=> EndReset(t, s) \/ (RollbackInsertEnd(t) /\ s = Cur(t))
    <3>1. CASE RollbackInsertEnd(t)
      <4>1. /\ op'[t] = op[t] /\ ~SecondLoop(t) /\ pos[t] \in Nat /\ op[t] \in Nat
            /\ IF pos[t] < Len(Current(t).rows) THEN pos'[t] = pos[t] + 1 /\ ~SecondLoop(t)'
                                                ELSE SecondLoop(t)'
        BY <1>2, <3>1 DEF RollbackInsertEnd, SecondLoop
      <4>2. pos[t] <= Len(Current(t).rows) /\ Len(Current(t).rows) \in Nat
        BY <1>1, <2>1, CurrentSlot
      <4>3. \A s \in InsertSlots(t) : s = Cur(t) <=> s[1] = op[t] /\ s[2] = pos[t]
        BY <1>3 DEF Cur
      <4>4. CASE pos[t] < Len(Current(t).rows)
        BY <1>3, <3>1, <4>1, <4>3, <4>4 DEF EndReset, Passed
      <4>5. CASE ~(pos[t] < Len(Current(t).rows))
        <5>1. \A s \in InsertSlots(t) : s[1] = op[t] => s[2] < pos[t] \/ s[2] = pos[t]
          BY SMTT(60), <1>3, <4>1, <4>2, <4>5 DEF Current
        <5>2. QED
          BY <1>3, <3>1, <4>1, <4>3, <4>5, <5>1 DEF EndReset, Passed
      <4>6. QED
        BY <4>4, <4>5
    <3>2. CASE RollbackInsertBegin(t)
      <4>1. op'[t] = op[t] /\ pos'[t] = pos[t] /\ SecondLoop(t) /\ SecondLoop(t)' /\ ~RollbackInsertEnd(t)
        BY <1>2, <3>2 DEF RollbackInsertBegin, RollbackInsertEnd, SecondLoop
      <4>2. QED
        BY <4>1 DEF EndReset, Passed
    <3>3. CASE RollbackInsertTid(t)
      <4>1. SecondLoop(t) /\ ~RollbackInsertEnd(t) /\ pos[t] \in Nat /\ op[t] \in Nat
        BY <1>2, <3>3 DEF RollbackInsertTid, RollbackInsertEnd, SecondLoop
      <4>2. CASE pos[t] < Len(Current(t).rows)
        <5>1. op'[t] = op[t] /\ SecondLoop(t)'
          BY <1>2, <3>3, <4>2 DEF RollbackInsertTid, SecondLoop
        <5>2. QED
          BY <1>2, <1>3, <4>1, <5>1 DEF EndReset, Passed
      <4>3. CASE ~(pos[t] < Len(Current(t).rows))
        <5>1. NextRow(t, "RolledBack", "rollback", "rolledBack")
          BY <3>3, <4>3 DEF RollbackInsertTid
        <5>2. op'[t] = op[t] + 1 /\ pos'[t] = 1 /\ ~SecondLoop(t)'
          BY <1>2, <4>3, <5>1 DEF NextRow, SecondLoop
        <5>3. \A s \in InsertSlots(t) : (EndReset(t, s)' <=> s[1] <= op[t]) /\ (EndReset(t, s) <=> s[1] <= op[t])
          BY SMTT(60), <1>2, <1>3, <4>1, <5>2 DEF EndReset, Passed
        <5>4. QED
          BY <4>1, <5>3
      <4>4. QED
        BY <4>2, <4>3
    <3>4. CASE RollbackDeleteRow(t)
      <4>1. /\ Cur(t) \in DeleteSlots(t) /\ ~SecondLoop(t) /\ ~SecondLoop(t)' /\ ~RollbackInsertEnd(t)
            /\ ops[t][op[t]].type = "Delete"
        <5>1. Cur(t) \in DeleteSlots(t) /\ pc[t] = "rollback"
          BY <3>4, RowActions
        <5>2. ~SecondLoop(t) /\ Current(t).type = "Delete" /\ ~RollbackInsertEnd(t)
          BY <3>4, <5>1 DEF SecondLoop, RollbackDeleteRow, RollbackInsertEnd
        <5>3. pc'[t] \in {"rollback", "rolledBack"}
          BY <1>2, <3>4 DEF RollbackDeleteRow, NextRow
        <5>4. QED
          BY <5>1, <5>2, <5>3 DEF SecondLoop, Current
      <4>2. \A s \in InsertSlots(t) : s[1] # op[t]
        BY <1>3, <4>1
      <4>3. op'[t] \in {op[t], op[t] + 1} /\ op[t] \in Nat /\ (op'[t] = op[t] + 1 => pos'[t] = 1)
        BY <1>2, <3>4 DEF RollbackDeleteRow, NextRow
      <4>4. QED
        BY SMTT(60), <1>3, <4>1, <4>2, <4>3 DEF EndReset, Passed
    <3>5. QED
      BY <1>11, <3>1, <3>2, <3>3, <3>4
  <2>5. QED
    BY <2>1, <2>2, <2>3, <2>4 DEF Stamped, Ended, Reset
<1>12. Goal
  BY <1>5, <1>6, <1>7, <1>8, <1>9, <1>10, <1>11 DEF Step, Commit, Rollback
<1>13. QED
  BY <1>12

\* The same for every transaction.
LEMMA Flags ==
  ASSUME IInv, NEW t \in Tx, Step(t), NEW u \in Tx
  PROVE  /\ ticket[u] # 0 => ticket'[u] = ticket[u]
         /\ \A s \in InsertSlots(u) : Stamped(u, s)' => Stamped(u, s) \/ (u = t /\ CommitInsertBegin(t) /\ s = Cur(t))
         /\ \A s \in DeleteSlots(u) : Ended(u, s)' <=> Ended(u, s) \/ (u = t /\ CommitDeleteEnd(t) /\ s = Cur(t))
         /\ \A s \in InsertSlots(u) : Reset(u, s)' <=> Reset(u, s) \/ (u = t /\ RollbackInsertEnd(t) /\ s = Cur(t))
<1>1. CASE u = t
  BY <1>1, OwnFlags
<1>2. CASE u # t
  <2>1. SameThread(u)
    BY <1>2, OthersStay DEF IInv
  <2>2. \A s : /\ Stamped(u, s)' <=> Stamped(u, s)
               /\ Ended(u, s)' <=> Ended(u, s)
               /\ Reset(u, s)' <=> Reset(u, s)
    BY <2>1 DEF SameThread, Stamped, Ended, Reset
  <2>3. QED
    BY <1>2, <2>1, <2>2 DEF SameThread
<1>3. QED
  BY <1>1, <1>2

\* The slots after a step: those before, and the new ones of a transaction that runs on.
LEMMA SlotsStep ==
  ASSUME IInv, NEW t \in Tx, Step(t), NEW u \in Tx
  PROVE  /\ InsertSlots(u) \subseteq InsertSlots(u)' /\ DeleteSlots(u) \subseteq DeleteSlots(u)'
         /\ \A s \in AllSlots(u) : Row(u, s)' = Row(u, s)
         /\ \A s \in InsertSlots(u)' : s \notin InsertSlots(u) =>
              /\ u = t /\ Running(t) /\ Running(t)' /\ Insert(t) /\ Row(t, s)' \in Rows
              /\ Row(t, s)' > size /\ Row(t, s)' <= size'
         /\ \A s \in DeleteSlots(u)' : s \notin DeleteSlots(u) => u = t /\ Running(t) /\ Running(t)'
<1>1. Ranges /\ Positions
  BY DEF IInv
<1>2. CASE u # t \/ (~StartDelete(t) /\ ~Insert(t))
  <2>1. SameSlots(u)
    BY <1>1, <1>2, OthersStay, LayoutStays DEF SameThread, SameLayout
  <2>2. QED
    BY <2>1 DEF SameSlots
<1>3. CASE StartDelete(t) /\ u = t
  <2>1. PICK n \in 1..MaxRows :
           /\ DeleteSlots(t)' = DeleteSlots(t) \cup NewSlots(t, n) /\ InsertSlots(t)' = InsertSlots(t)
           /\ \A s \in AllSlots(t) : Row(t, s)' = Row(t, s)
    BY <1>1, <1>3, StartDeleteMoves
  <2>2. Running(t) /\ Running(t)'
    <3>1. pc[t] = "validated" /\ pc'[t] = "delete"
      BY <1>1, <1>3 DEF StartDelete, At, Goto, Ranges, ThreadRanges
    <3>2. QED
      BY <3>1 DEF Running, RunningPcs, Scanning
  <2>3. QED
    BY <1>3, <2>1, <2>2
<1>4. CASE Insert(t) /\ u = t
  <2>1. PICK n \in 1..MaxRows :
           /\ InsertSlots(t)' = InsertSlots(t) \cup NewSlots(t, n) /\ DeleteSlots(t)' = DeleteSlots(t)
           /\ \A s \in AllSlots(t) : Row(t, s)' = Row(t, s)
           /\ \A s \in NewSlots(t, n) : s[2] \in 1..n /\ Row(t, s)' = size + s[2]
           /\ size' = size + n /\ size' \in ChunkSize..MaxRows
    BY <1>1, <1>4, InsertMoves
  <2>2. Running(t) /\ Running(t)'
    <3>1. pc[t] = "active" /\ pc' = pc
      BY <1>4 DEF Insert, At, threadVars
    <3>2. QED
      BY <3>1 DEF Running, RunningPcs, Scanning
  <2>3. \A s \in NewSlots(t, n) : Row(t, s)' \in Rows /\ Row(t, s)' > size /\ Row(t, s)' <= size'
    <3>1. size \in Nat /\ n \in Nat /\ size + n <= MaxRows
      BY <1>1, <2>1, SizeFacts
    <3>2. QED
      BY <2>1, <3>1 DEF Rows
  <2>4. QED
    BY <1>4, <2>1, <2>2, <2>3
<1>5. QED
  BY <1>2, <1>3, <1>4

LEMMA VersionsStep ==
  ASSUME IInv, [Next]_vars
  PROVE  Versions'
<1>1. Ranges /\ Positions /\ CommitIds /\ InsertsApart /\ DeletesApart /\ Versions
  BY DEF IInv
<1>2. /\ tid \in [Rows -> Tx \cup {NoTid}] /\ begin \in [Rows -> 0..MAX_COMMIT_ID] /\ end \in [Rows -> 0..MAX_COMMIT_ID]
      /\ size \in Nat /\ ChunkSize <= size /\ MAX_COMMIT_ID \in Nat /\ MAX_COMMIT_ID # 0
      /\ \A u \in Tx : ticket[u] \in Nat /\ ticket[u] < MAX_COMMIT_ID
  BY <1>1, SizeFacts, CommitIdsBelowMax DEF Ranges, RowRanges, ManagerRanges
<1>3. /\ \A r \in Loaded : begin[r] = 0
      /\ \A r \in Rows : r > size => tid[r] = NoTid /\ begin[r] = MAX_COMMIT_ID
      /\ \A u \in Tx : \A s \in InsertSlots(u) :
           \/ begin[Row(u, s)] = MAX_COMMIT_ID /\ ~Stamped(u, s)
           \/ begin[Row(u, s)] = ticket[u] /\ ticket[u] # 0
           \/ begin[Row(u, s)] = 0 /\ end[Row(u, s)] = 0
      /\ \A r \in Rows : end[r] # MAX_COMMIT_ID => \E u \in Tx :
           \/ \E s \in InsertSlots(u) : Row(u, s) = r /\ Reset(u, s) /\ end[r] = 0
           \/ \E s \in DeleteSlots(u) : Row(u, s) = r /\ Ended(u, s) /\ end[r] = ticket[u]
      /\ \A u \in Tx : \A s \in DeleteSlots(u) : Ended(u, s) => end[Row(u, s)] = ticket[u]
      /\ \A u \in Tx : \A s \in InsertSlots(u) : Reset(u, s) => end[Row(u, s)] = 0
  BY <1>1 DEF Versions
<1>4. /\ \A u \in Tx : \A s \in InsertSlots(u) : /\ s \in AllSlots(u) /\ Row(u, s) \in Rows
                                                 /\ Row(u, s) > ChunkSize /\ Row(u, s) <= size
      /\ \A u \in Tx : \A s \in DeleteSlots(u) : s \in AllSlots(u) /\ Row(u, s) \in Rows
      /\ \A u, v \in Tx : \A s \in InsertSlots(u), q \in InsertSlots(v) : Row(u, s) = Row(v, q) => u = v /\ s = q
      /\ \A u \in Tx : \A s \in AllSlots(u) : Row(u, s) <= size
  BY <1>1, SlotFacts DEF AllSlots, InsertsApart, DeletesApart
<1>5. \A r \in Rows : end[r] # MAX_COMMIT_ID => end'[r] = end[r]
  BY EndOnce
<1>6. ASSUME NEW t \in Tx, Step(t) PROVE Versions'
  <2> DEFINE cr == CurrentRow(t)
  <2>1. /\ CommitInsertBegin(t) \/ CommitInsertTid(t) \/ RollbackInsertEnd(t) \/ RollbackInsertBegin(t) \/ RollbackInsertTid(t) =>
             Cur(t) \in InsertSlots(t) /\ cr = Row(t, Cur(t))
        /\ CommitDeleteEnd(t) \/ RollbackDeleteRow(t) \/ DeleteRow(t) =>
             Cur(t) \in DeleteSlots(t) /\ cr = Row(t, Cur(t))
        /\ CommitInsertBegin(t) \/ CommitDeleteEnd(t) => ticket[t] # 0
        /\ RollbackInsertBegin(t) => Rolls(t) /\ SecondLoop(t)
    BY <1>6, RowActions DEF CommitPcs, RollbackPcs, SecondLoop
  <2>2. /\ CommitInsertBegin(t) => \A r \in Rows : begin'[r] = (IF r = cr THEN ticket[t] ELSE begin[r]) /\ end'[r] = end[r]
        /\ RollbackInsertBegin(t) => \A r \in Rows : begin'[r] = (IF r = cr THEN 0 ELSE begin[r]) /\ end'[r] = end[r]
        /\ CommitDeleteEnd(t) => \A r \in Rows : end'[r] = (IF r = cr THEN ticket[t] ELSE end[r]) /\ begin'[r] = begin[r]
        /\ RollbackInsertEnd(t) => \A r \in Rows : end'[r] = (IF r = cr THEN 0 ELSE end[r]) /\ begin'[r] = begin[r]
    BY <1>2, FieldSteps
  <2>3. /\ ~CommitInsertBegin(t) /\ ~RollbackInsertBegin(t) => begin' = begin
        /\ ~CommitDeleteEnd(t) /\ ~RollbackInsertEnd(t) => end' = end
    BY <1>6, FieldsStay
  <2> HIDE DEF cr
  <2>4. /\ \A u \in Tx : ticket[u] # 0 => ticket'[u] = ticket[u]
        /\ \A u \in Tx : \A s \in InsertSlots(u) : Stamped(u, s)' => Stamped(u, s) \/ (u = t /\ CommitInsertBegin(t) /\ s = Cur(t))
        /\ \A u \in Tx : \A s \in DeleteSlots(u) : Ended(u, s)' <=> Ended(u, s) \/ (u = t /\ CommitDeleteEnd(t) /\ s = Cur(t))
        /\ \A u \in Tx : \A s \in InsertSlots(u) : Reset(u, s)' <=> Reset(u, s) \/ (u = t /\ RollbackInsertEnd(t) /\ s = Cur(t))
    BY <1>6, Flags
  <2>5. /\ \A u \in Tx : InsertSlots(u) \subseteq InsertSlots(u)' /\ DeleteSlots(u) \subseteq DeleteSlots(u)'
        /\ \A u \in Tx : \A s \in AllSlots(u) : Row(u, s)' = Row(u, s)
        /\ \A u \in Tx : \A s \in InsertSlots(u)' : s \notin InsertSlots(u) =>
             /\ Row(u, s)' \in Rows /\ Row(u, s)' > size /\ Insert(t)
             /\ ~Stamped(u, s)' /\ ~Reset(u, s)'
        /\ \A u \in Tx : \A s \in DeleteSlots(u)' : s \notin DeleteSlots(u) => ~Ended(u, s)'
    BY <1>6, SlotsStep, OwnFlags
  <2>6. \A r \in Loaded : begin'[r] = 0
    <3>1. \A r \in Loaded : r \in Rows /\ r <= ChunkSize
      BY ChunksOfRows DEF Loaded
    <3>2. \A r \in Loaded : (CommitInsertBegin(t) \/ RollbackInsertBegin(t)) => r # cr
      BY <1>4, <2>1, <3>1 DEF Rows
    <3>3. QED
      BY <1>3, <2>2, <2>3, <3>1, <3>2
  <2>7. \A r \in Rows : r > size' => tid'[r] = NoTid /\ begin'[r] = MAX_COMMIT_ID
    <3> TAKE r \in Rows
    <3> HAVE r > size'
    <3>1. size' \in Nat /\ size <= size'
      <4>1. CASE Insert(t)
        BY <1>1, <1>2, <4>1, InsertMoves
      <4>2. CASE ~Insert(t)
        BY <1>2, <1>6, <4>2, SizeStays
      <4>3. QED
        BY <4>1, <4>2
    <3>2. r > size /\ tid[r] = NoTid /\ begin[r] = MAX_COMMIT_ID
      BY <1>2, <1>3, <3>1 DEF Rows
    <3>3. \A s \in AllSlots(t) : Row(t, s) # r
      BY <1>2, <1>4, <3>2 DEF Rows
    <3>4. begin'[r] = MAX_COMMIT_ID
      BY <1>4, <2>1, <2>2, <2>3, <3>2, <3>3
    <3>5. CASE Insert(t)
      <4>1. PICK n \in 1..MaxRows :
              /\ tid' = [x \in Rows |-> IF x \in size + 1..size + n THEN t ELSE tid[x]]
              /\ size' = size + n
        BY <1>1, <3>5, InsertMoves
      <4>2. r \notin size + 1..size + n
        BY <4>1
      <4>3. QED
        BY <3>2, <3>4, <4>1, <4>2
    <3>6. CASE ~LockSteps(t)
      BY <1>6, <3>2, <3>4, <3>6, TidStays
    <3>7. CASE LockSteps(t) /\ ~Insert(t)
      <4>1. cr # r
        BY <1>4, <2>1, <3>3, <3>7 DEF LockSteps
      <4>2. tid'[r] = tid[r]
        BY <1>2, <3>7, <4>1, TidSteps DEF LockSteps, cr
      <4>3. QED
        BY <3>2, <3>4, <4>2
    <3>8. QED
      BY <3>5, <3>6, <3>7
  <2>8. \A u \in Tx : \A s \in InsertSlots(u)' :
           \/ begin'[Row(u, s)'] = MAX_COMMIT_ID /\ ~Stamped(u, s)'
           \/ begin'[Row(u, s)'] = ticket'[u] /\ ticket'[u] # 0
           \/ begin'[Row(u, s)'] = 0 /\ end'[Row(u, s)'] = 0
    <3> TAKE u \in Tx
    <3> TAKE s \in InsertSlots(u)'
    <3>1. CASE s \notin InsertSlots(u)
      <4>1. Row(u, s)' \in Rows /\ Row(u, s)' > size /\ Insert(t) /\ ~Stamped(u, s)'
        BY <2>5, <3>1
      <4>2. begin' = begin
        BY <4>1 DEF Insert
      <4>3. QED
        BY <1>3, <4>1, <4>2
    <3>2. CASE s \in InsertSlots(u)
      <4> DEFINE x == Row(u, s)
      <4>1. /\ Row(u, s)' = x /\ x \in Rows /\ (ticket[u] # 0 => ticket'[u] = ticket[u])
            /\ Stamped(u, s)' => Stamped(u, s) \/ (u = t /\ CommitInsertBegin(t) /\ s = Cur(t))
        BY <1>4, <2>4, <2>5, <3>2
      <4>2. \/ begin[x] = MAX_COMMIT_ID /\ ~Stamped(u, s)
            \/ begin[x] = ticket[u] /\ ticket[u] # 0
            \/ begin[x] = 0 /\ end[x] = 0
        BY <1>3, <3>2
      <4>3. end[x] = 0 => end'[x] = 0
        BY <1>2, <1>5, <4>1
      <4>4. CASE CommitInsertBegin(t)
        <5>1. x = cr => u = t /\ s = Cur(t) /\ begin'[x] = ticket[t] /\ ticket'[t] = ticket[t] /\ ticket[t] # 0
          BY <1>4, <2>1, <2>2, <2>4, <3>2, <4>1, <4>4
        <5>2. x # cr => begin'[x] = begin[x] /\ ~(u = t /\ s = Cur(t))
          BY <2>1, <2>2, <4>1, <4>4
        <5>3. QED
          BY <4>1, <4>2, <4>3, <5>1, <5>2
      <4>5. CASE RollbackInsertBegin(t)
        <5>1. ~CommitInsertBegin(t)
          BY <4>5 DEF RollbackInsertBegin, CommitInsertBegin, At
        <5>2. x = cr => u = t /\ s = Cur(t) /\ begin'[x] = 0
          BY <1>4, <2>1, <2>2, <3>2, <4>1, <4>5
        <5>3. x = cr => Reset(u, s)
          <6>1. Cur(t)[1] = op[t]
            BY DEF Cur
          <6>2. QED
            BY <2>1, <4>5, <5>2, <6>1 DEF Reset, EndReset
        <5>4. x = cr => end[x] = 0
          BY <1>3, <3>2, <5>3
        <5>5. x # cr => begin'[x] = begin[x]
          BY <2>2, <4>1, <4>5
        <5>6. QED
          BY <4>1, <4>2, <4>3, <5>1, <5>2, <5>4, <5>5
      <4>6. CASE ~CommitInsertBegin(t) /\ ~RollbackInsertBegin(t)
        BY <2>3, <4>1, <4>2, <4>3, <4>6
      <4>7. QED
        BY <4>4, <4>5, <4>6
    <3>3. QED
      BY <3>1, <3>2
  <2>9. \A r \in Rows : end'[r] # MAX_COMMIT_ID => \E u \in Tx :
           \/ \E s \in InsertSlots(u)' : Row(u, s)' = r /\ Reset(u, s)' /\ end'[r] = 0
           \/ \E s \in DeleteSlots(u)' : Row(u, s)' = r /\ Ended(u, s)' /\ end'[r] = ticket'[u]
    <3> TAKE r \in Rows
    <3> HAVE end'[r] # MAX_COMMIT_ID
    <3>1. CASE end[r] # MAX_COMMIT_ID
      <4>1. end'[r] = end[r]
        BY <1>5, <3>1
      <4>2. PICK u \in Tx :
           \/ \E s \in InsertSlots(u) : Row(u, s) = r /\ Reset(u, s) /\ end[r] = 0
           \/ \E s \in DeleteSlots(u) : Row(u, s) = r /\ Ended(u, s) /\ end[r] = ticket[u]
        BY <1>3, <3>1
      <4>3. CASE \E s \in InsertSlots(u) : Row(u, s) = r /\ Reset(u, s) /\ end[r] = 0
        <5>1. PICK s \in InsertSlots(u) : Row(u, s) = r /\ Reset(u, s) /\ end[r] = 0
          BY <4>3
        <5>2. s \in InsertSlots(u)' /\ Row(u, s)' = r /\ Reset(u, s)'
          BY <1>4, <2>4, <2>5, <5>1
        <5>3. QED
          BY <4>1, <5>1, <5>2
      <4>4. CASE \E s \in DeleteSlots(u) : Row(u, s) = r /\ Ended(u, s) /\ end[r] = ticket[u]
        <5>1. PICK s \in DeleteSlots(u) : Row(u, s) = r /\ Ended(u, s) /\ end[r] = ticket[u]
          BY <4>4
        <5>2. s \in DeleteSlots(u)' /\ Row(u, s)' = r /\ Ended(u, s)' /\ ticket'[u] = ticket[u]
          BY <1>4, <2>4, <2>5, <5>1 DEF Ended
        <5>3. QED
          BY <4>1, <5>1, <5>2
      <4>5. QED
        BY <4>2, <4>3, <4>4
    <3>2. CASE end[r] = MAX_COMMIT_ID
      <4>1. (CommitDeleteEnd(t) \/ RollbackInsertEnd(t)) /\ r = cr
        BY <2>2, <2>3, <3>2
      <4>2. CASE CommitDeleteEnd(t)
        <5>1. PICK s \in DeleteSlots(t) : s = Cur(t)
          BY <2>1, <4>2
        <5>2. Row(t, s) = r /\ end'[r] = ticket[t] /\ ticket'[t] = ticket[t]
          BY <2>1, <2>2, <2>4, <4>1, <4>2, <5>1
        <5>3. s \in DeleteSlots(t)' /\ Row(t, s)' = r /\ Ended(t, s)'
          BY <1>4, <2>4, <2>5, <4>2, <5>1, <5>2
        <5>4. QED
          BY <5>2, <5>3
      <4>3. CASE RollbackInsertEnd(t)
        <5>1. PICK s \in InsertSlots(t) : s = Cur(t)
          BY <2>1, <4>3
        <5>2. Row(t, s) = r /\ end'[r] = 0
          BY <2>1, <2>2, <4>1, <4>3, <5>1
        <5>3. s \in InsertSlots(t)' /\ Row(t, s)' = r /\ Reset(t, s)'
          BY <1>4, <2>4, <2>5, <4>3, <5>1, <5>2
        <5>4. QED
          BY <5>2, <5>3
      <4>4. QED
        BY <4>1, <4>2, <4>3
    <3>3. QED
      BY <3>1, <3>2
  <2>10. \A u \in Tx : \A s \in DeleteSlots(u)' : Ended(u, s)' => end'[Row(u, s)'] = ticket'[u]
    <3> SUFFICES ASSUME NEW u \in Tx, NEW s \in DeleteSlots(u)', Ended(u, s)' PROVE end'[Row(u, s)'] = ticket'[u]
      OBVIOUS
    <3>1. s \in DeleteSlots(u) /\ Row(u, s)' = Row(u, s) /\ Row(u, s) \in Rows
      BY <1>4, <2>5
    <3>2. CASE Ended(u, s)
      <4>1. end[Row(u, s)] = ticket[u] /\ ticket[u] # 0 /\ end[Row(u, s)] # MAX_COMMIT_ID
        BY <1>2, <1>3, <3>1, <3>2 DEF Ended
      <4>2. QED
        BY <1>5, <2>4, <3>1, <4>1
    <3>3. CASE ~Ended(u, s)
      <4>1. u = t /\ CommitDeleteEnd(t) /\ s = Cur(t)
        BY <2>4, <3>1, <3>3
      <4>2. QED
        BY <2>1, <2>2, <2>4, <3>1, <4>1
    <3>4. QED
      BY <3>2, <3>3
  <2>11. \A u \in Tx : \A s \in InsertSlots(u)' : Reset(u, s)' => end'[Row(u, s)'] = 0
    <3> SUFFICES ASSUME NEW u \in Tx, NEW s \in InsertSlots(u)', Reset(u, s)' PROVE end'[Row(u, s)'] = 0
      OBVIOUS
    <3>1. s \in InsertSlots(u) /\ Row(u, s)' = Row(u, s) /\ Row(u, s) \in Rows
      BY <1>4, <2>5
    <3>2. CASE Reset(u, s)
      BY <1>2, <1>3, <1>5, <3>1, <3>2
    <3>3. CASE ~Reset(u, s)
      BY <2>1, <2>2, <2>4, <3>1, <3>3
    <3>4. QED
      BY <3>2, <3>3
  <2>12. MAX_COMMIT_ID' = MAX_COMMIT_ID
    BY DEF MAX_COMMIT_ID
  <2>13. QED
    BY <2>6, <2>7, <2>8, <2>9, <2>10, <2>11, <2>12 DEF Versions
<1>7. CASE Advance \/ UNCHANGED vars
  <2>0. \A u \in Tx : SameThread(u)
    BY <1>7, NoStep
  <2>1. /\ tid' = tid /\ begin' = begin /\ end' = end /\ size' = size
        /\ \A u \in Tx : SameThread(u)
    BY <1>7, <2>0 DEF Advance, vars, tableVars, rowVars
  <2>2. \A u \in Tx : /\ InsertSlots(u)' = InsertSlots(u) /\ DeleteSlots(u)' = DeleteSlots(u) /\ ticket'[u] = ticket[u]
                      /\ \A s \in AllSlots(u) : Row(u, s)' = Row(u, s)
                      /\ \A s : Stamped(u, s)' <=> Stamped(u, s)
                      /\ \A s : Ended(u, s)' <=> Ended(u, s)
                      /\ \A s : Reset(u, s)' <=> Reset(u, s)
    BY <2>1 DEF SameThread, SameSlots, Stamped, Ended, Reset
  <2>3. QED
    BY <1>3, <1>4, <2>1, <2>2 DEF Versions
<1>8. QED
  BY <1>6, <1>7 DEF Next, Step, Finished

LEMMA InitVersions == Init => Versions
<1> SUFFICES ASSUME Init PROVE Versions
  OBVIOUS
<1>1. /\ \A r \in Rows : tid[r] = NoTid /\ end[r] = MAX_COMMIT_ID
      /\ \A r \in Rows : r > size => begin[r] = MAX_COMMIT_ID
      /\ \A r \in Loaded : begin[r] = 0
  BY ChunksOfRows DEF Init, Loaded, Rows
<1>2. QED
  BY <1>1, InitSlots DEF Versions

----------------------------------------------------------------------------
(* Validate reads the snapshot.                                            *)

\* What a transaction is promised to see changes only by its own operators.
LEMMA SnapshotStays ==
  ASSUME IInv, [Next]_vars, NEW u \in Tx, pc[u] # "idle", SameSlots(u)
  PROVE  \A r \in Rows : InSnapshot(u, r)' <=> InSnapshot(u, r)
<1>1. Ranges
  BY DEF IInv
<1>2. \A v \in Tx : Covers(u, v)' <=> Covers(u, v)
  BY CoversStays
<1>3. \A v \in Tx : Covers(u, v) => SameSlots(v)
  <2>1. CASE SameLayout
    BY <2>1 DEF SameLayout
  <2>2. ASSUME NEW t \in Tx, StartDelete(t) \/ Insert(t), Running(t) PROVE \A v \in Tx : Covers(u, v) => SameSlots(v)
    <3>1. Step(t)
      BY <2>2 DEF Step, Delete
    <3>2. \A v \in Tx : v # t => SameSlots(v)
      BY <1>1, <3>1, OthersStay DEF SameThread
    <3>3. ~Covers(u, t)
      BY <2>2, CoversOnlyFixed
    <3>4. QED
      BY <3>2, <3>3
  <2>3. QED
    BY <2>1, <2>2, LayoutCases
<1>4. \A v \in Tx : Covers(u, v) => \A r \in Rows : /\ InsertedBy(v, r)' <=> InsertedBy(v, r)
                                                    /\ DeletedBy(v, r)' <=> DeletedBy(v, r)
  BY <1>3 DEF SameSlots
<1>5. \A r \in Rows : /\ InsertedBy(u, r)' <=> InsertedBy(u, r)
                      /\ DeletedBy(u, r)' <=> DeletedBy(u, r)
  BY DEF SameSlots
<1>6. QED
  BY <1>2, <1>4, <1>5 DEF InSnapshot, Loaded

\* end_cid is at most the snapshot where a transaction that the snapshot covers has deleted
\* the row, or its own transaction rolls it back.
LEMMA EndInSnapshot ==
  ASSUME IInv, NEW t \in Tx, NEW r \in Rows, pc[t] # "idle"
  PROVE  /\ end[r] <= view[t] =>
              \/ \E u \in Tx : Covers(t, u) /\ DeletedBy(u, r)
              \/ \E u \in Tx : InsertedBy(u, r) /\ Rolls(u)
         /\ \A u \in Tx : Covers(t, u) /\ DeletedBy(u, r) => end[r] <= view[t]
<1>1. Ranges /\ Versions /\ CommitIds
  BY DEF IInv
<1>2. /\ \A u \in Tx : ticket[u] \in Nat /\ view[u] \in Nat /\ view[u] < MAX_COMMIT_ID
      /\ end[r] \in Nat /\ MAX_COMMIT_ID \in Nat
  BY <1>1, CommitIdsBelowMax DEF Ranges, ManagerRanges, RowRanges
<1>3. ASSUME end[r] <= view[t]
      PROVE  \/ \E u \in Tx : Covers(t, u) /\ DeletedBy(u, r)
             \/ \E u \in Tx : InsertedBy(u, r) /\ Rolls(u)
  <2>1. end[r] # MAX_COMMIT_ID
    BY <1>2, <1>3
  <2>2. PICK u \in Tx :
           \/ \E s \in InsertSlots(u) : Row(u, s) = r /\ Reset(u, s) /\ end[r] = 0
           \/ \E s \in DeleteSlots(u) : Row(u, s) = r /\ Ended(u, s) /\ end[r] = ticket[u]
    BY <1>1, <2>1 DEF Versions
  <2>3. CASE \E s \in InsertSlots(u) : Row(u, s) = r /\ Reset(u, s)
    BY <2>3 DEF InsertedBy, Reset
  <2>4. CASE \E s \in DeleteSlots(u) : Row(u, s) = r /\ Ended(u, s) /\ end[r] = ticket[u]
    BY <1>3, <2>4 DEF DeletedBy, Ended, Covers
  <2>5. QED
    BY <2>2, <2>3, <2>4
<1>4. ASSUME NEW u \in Tx, Covers(t, u), NEW s \in DeleteSlots(u), Row(u, s) = r PROVE end[r] <= view[t]
  <2>1. Ended(u, s) /\ ticket[u] <= view[t]
    BY <1>4, CoveredFacts DEF Ended, AllSlots
  <2>2. end[r] = ticket[u]
    BY <1>1, <1>4, <2>1 DEF Versions
  <2>3. QED
    BY <2>1, <2>2
<1>5. QED
  BY <1>3, <1>4 DEF DeletedBy

\* Validate::is_row_visible tells whether a row is in the snapshot.
LEMMA Visible ==
  ASSUME IInv, NEW t \in Tx, pc[t] \in Scanning, NEW r \in Rows, r <= size
  PROVE  view[t] < end[r] /\ ((begin[r] <= view[t]) # (tid[r] = t)) <=> InSnapshot(t, r)
<1>1. Ranges /\ Versions /\ CommitIds /\ InsertsApart /\ DeletesApart /\ Locks
  BY DEF IInv
<1>2. Running(t) /\ pc[t] # "delete" /\ pc[t] # "idle"
  BY DEF Running, RunningPcs, Scanning
<1>3. ticket[t] = 0 /\ ~Rolls(t)
  BY <1>2, TicketFacts
<1>4. /\ \A u \in Tx : ticket[u] \in Nat /\ view[u] \in Nat /\ view[u] < MAX_COMMIT_ID
      /\ end[r] \in Nat /\ begin[r] \in Nat /\ MAX_COMMIT_ID \in Nat /\ tid[r] \in Tx \cup {NoTid}
      /\ r \in Nat /\ ChunkSize \in Nat /\ end[r] <= MAX_COMMIT_ID
  BY SMTT(60), <1>1, CommitIdsBelowMax DEF Ranges, ManagerRanges, RowRanges, Rows
<1>5. /\ end[r] <= view[t] =>
              \/ \E u \in Tx : Covers(t, u) /\ DeletedBy(u, r)
              \/ \E u \in Tx : InsertedBy(u, r) /\ Rolls(u)
      /\ \A u \in Tx : Covers(t, u) /\ DeletedBy(u, r) => end[r] <= view[t]
  BY <1>2, EndInSnapshot
<1>6. \A u \in Tx : ~Covers(u, t)
  BY <1>3 DEF Covers
<1>7. \A u \in Tx : u # t /\ InsertedBy(u, r) => ~InsertedBy(t, r)
  BY <1>1 DEF InsertsApart, InsertedBy
<1>8. CASE InsertedBy(t, r)
  <2>1. PICK s \in InsertSlots(t) : Row(t, s) = r
    BY <1>8 DEF InsertedBy
  <2>2. tid[r] = t <=> ~DeletedBy(t, r)
    BY <1>1, <1>2, <2>1 DEF Locks, HoldsLocks, Executed, DeletedBy
  <2>3. end[r] = MAX_COMMIT_ID
    <3>1. SUFFICES ASSUME end[r] # MAX_COMMIT_ID PROVE FALSE
      OBVIOUS
    <3>2. PICK u \in Tx : \/ \E q \in InsertSlots(u) : Row(u, q) = r /\ Reset(u, q)
                          \/ \E q \in DeleteSlots(u) : Row(u, q) = r /\ Ended(u, q)
      BY <1>1, <3>1 DEF Versions
    <3>3. CASE \E q \in InsertSlots(u) : Row(u, q) = r /\ Reset(u, q)
      BY <1>3, <1>7, <1>8, <3>3 DEF Reset, InsertedBy
    <3>4. CASE \E q \in DeleteSlots(u) : Row(u, q) = r /\ Ended(u, q)
      <4>1. u # t
        BY <1>3, <3>4 DEF Ended
      <4>2. QED
        BY <1>1, <1>6, <2>1, <3>4, <4>1 DEF DeletesApart
    <3>5. QED
      BY <3>2, <3>3, <3>4
  <2>4. begin[r] = MAX_COMMIT_ID
    BY <1>1, <1>3, <1>4, <2>1, <2>3 DEF Versions, MAX_COMMIT_ID
  <2>5. view[t] < end[r] /\ ~(begin[r] <= view[t])
    BY <1>4, <2>3, <2>4
  <2>6. QED
    BY <1>8, <2>2, <2>5 DEF InSnapshot
<1>9. CASE ~InsertedBy(t, r)
  <2>1. \A u \in Tx : Covers(t, u) /\ InsertedBy(u, r) => begin[r] <= view[t]
    <3>1. ASSUME NEW u \in Tx, Covers(t, u), NEW s \in InsertSlots(u), Row(u, s) = r PROVE begin[r] <= view[t]
      <4>1. Stamped(u, s) /\ ticket[u] <= view[t]
        BY <3>1, CoveredFacts DEF Stamped, AllSlots
      <4>2. begin[r] = ticket[u] \/ begin[r] = 0
        BY <1>1, <3>1, <4>1 DEF Versions
      <4>3. QED
        BY <1>4, <4>1, <4>2
    <3>2. QED
      BY <3>1 DEF InsertedBy
  <2>2. r \in Loaded => begin[r] <= view[t]
    BY <1>1, <1>4 DEF Versions
  <2>3. view[t] < end[r] /\ begin[r] <= view[t] => r \in Loaded \/ \E u \in Tx : Covers(t, u) /\ InsertedBy(u, r)
    <3>1. SUFFICES ASSUME view[t] < end[r], begin[r] <= view[t], r \notin Loaded
                   PROVE  \E u \in Tx : Covers(t, u) /\ InsertedBy(u, r)
      OBVIOUS
    <3>2. r > ChunkSize
      BY <1>4, <3>1 DEF Loaded, Rows
    <3>3. PICK u \in Tx : InsertedBy(u, r)
      BY <1>1, <3>2 DEF InsertsApart
    <3>4. PICK s \in InsertSlots(u) : Row(u, s) = r
      BY <3>3 DEF InsertedBy
    <3>5. begin[r] = MAX_COMMIT_ID \/ (begin[r] = ticket[u] /\ ticket[u] # 0) \/ end[r] = 0
      BY <1>1, <3>4 DEF Versions
    <3>6. begin[r] = ticket[u] /\ ticket[u] # 0
      BY <1>4, <3>1, <3>5
    <3>7. QED
      BY <3>1, <3>3, <3>6 DEF Covers
  <2>4. CASE DeletedBy(t, r)
    <3>1. tid[r] = t
      BY <1>1, <1>2, <1>9, <2>4 DEF Locks, HoldsLocks, Executed, DeletedBy
    <3>2. r \in Loaded \/ \E u \in Tx : Covers(t, u) /\ InsertedBy(u, r)
      <4>1. SUFFICES ASSUME r \notin Loaded PROVE \E u \in Tx : Covers(t, u) /\ InsertedBy(u, r)
        OBVIOUS
      <4>2. r > ChunkSize
        BY <1>4, <4>1 DEF Loaded, Rows
      <4>3. PICK u \in Tx : InsertedBy(u, r)
        BY <1>1, <4>2 DEF InsertsApart
      <4>4. u # t
        BY <1>9, <4>3
      <4>5. QED
        BY <1>1, <2>4, <4>3, <4>4 DEF DeletesApart, DeletedBy, InsertedBy
    <3>3. begin[r] <= view[t]
      BY <2>1, <2>2, <3>2
    <3>4. QED
      BY <2>4, <3>1, <3>3 DEF InSnapshot
  <2>5. CASE ~DeletedBy(t, r)
    <3>1. tid[r] # t
      BY <1>1, <1>9, <2>5 DEF Locks, HoldsLocks
    <3>2. ASSUME InSnapshot(t, r) PROVE view[t] < end[r] /\ begin[r] <= view[t]
      <4>1. /\ r \in Loaded \/ \E u \in Tx : Covers(t, u) /\ InsertedBy(u, r)
            /\ \A u \in Tx : Covers(t, u) => ~DeletedBy(u, r)
        BY <1>9, <3>2 DEF InSnapshot
      <4>2. begin[r] <= view[t]
        BY <2>1, <2>2, <4>1
      <4>3. ASSUME NEW u \in Tx, InsertedBy(u, r), Rolls(u) PROVE FALSE
        <5>1. r \notin Loaded
          BY <1>1, <1>4, <4>3 DEF InsertsApart, InsertedBy, Loaded
        <5>2. PICK v \in Tx : Covers(t, v) /\ InsertedBy(v, r)
          BY <4>1, <5>1
        <5>3. v = u
          BY <1>1, <4>3, <5>2 DEF InsertsApart, InsertedBy
        <5>4. QED
          BY <4>3, <5>2, <5>3, CoveredFacts
      <4>4. ~(end[r] <= view[t])
        BY <1>5, <4>1, <4>3
      <4>5. QED
        BY <1>4, <4>2, <4>4
    <3>3. ASSUME view[t] < end[r], begin[r] <= view[t] PROVE InSnapshot(t, r)
      <4>1. ~(end[r] <= view[t])
        BY <1>4, <3>3
      <4>2. QED
        BY <1>5, <2>3, <2>5, <3>3, <4>1 DEF InSnapshot
    <3>4. QED
      BY <3>1, <3>2, <3>3
  <2>6. QED
    BY <2>4, <2>5
<1>10. QED
  BY <1>8, <1>9

\* The steps that go on with a scan.
LEMMA ScanSteps ==
  ASSUME Ranges, NEW t \in Tx, Step(t), pc'[t] \in Scanning
  PROVE  /\ StartValidate(t) \/ EnterChunk(t) \/ ReadTid(t) \/ ReadBegin(t) \/ ReadEnd(t)
         /\ pc'[t] \in {"begin", "end"} => ReadTid(t) \/ ReadBegin(t)
<1> USE DEF At, Goto, Scanning
<1>1. pc \in [Tx -> Pcs]
  BY DEF Ranges, ThreadRanges
<1>2. ~Begin(t) /\ ~ReturnRows(t) /\ ~StartDelete(t) /\ ~Insert(t)
  BY <1>1 DEF Begin, ReturnRows, StartDelete, Insert, threadVars
<1>3. ~DeleteRow(t)
  BY <1>1 DEF DeleteRow
<1>4. ~CommitReadOnly(t) /\ ~StartCommit(t) /\ ~CommitInsertBegin(t) /\ ~CommitDeleteEnd(t) /\ ~MakePending(t) /\ ~Acknowledge(t)
  BY <1>1 DEF CommitReadOnly, StartCommit, CommitInsertBegin, CommitDeleteEnd, MakePending, Acknowledge
<1>5. ~CommitInsertTid(t) /\ ~CommitDeleteInvalid(t)
  BY <1>1 DEF CommitInsertTid, CommitDeleteInvalid, NextRow
<1>6. ~RollbackByUser(t) /\ ~RollbackInsertEnd(t) /\ ~RollbackInsertBegin(t) /\ ~MarkAsRolledBack(t)
  BY <1>1 DEF RollbackByUser, RollbackInsertEnd, RollbackInsertBegin, MarkAsRolledBack
<1>7. ~RollbackInsertTid(t) /\ ~RollbackDeleteRow(t)
  BY <1>1 DEF RollbackInsertTid, RollbackDeleteRow, NextRow
<1>8. StartValidate(t) \/ EnterChunk(t) \/ ReadEnd(t) => pc'[t] \notin {"begin", "end"}
  BY <1>1 DEF StartValidate, EnterChunk, ReadEnd, AfterChunk
<1>9. QED
  BY <1>2, <1>3, <1>4, <1>5, <1>6, <1>7, <1>8 DEF Step, Validate, Delete, Commit, Rollback

\* What the steps of the other transactions mean for a row that is being read.
LEMMA OthersHaveRead ==
  ASSUME IInv, [Next]_vars, NEW t \in Tx, Step(t), NEW u \in Tx, u # t
  PROVE  HasRead(u)'
<1>1. Ranges /\ HasRead(u) /\ (pc[u] \in Scanning => Scanned(u)) /\ Versions
  BY DEF IInv, Reads, Scan
<1>2. SameThread(u)
  BY <1>1, OthersStay
<1>3. CASE pc[u] \notin {"begin", "end"}
  BY <1>2, <1>3 DEF SameThread, HasRead
<1>4. CASE pc[u] \in {"begin", "end"}
  <2> DEFINE r == pos[u]
  <2>1. r \in Rows
    <3>1. pos[u] <= limit[u].row /\ limit[u].row <= size
      BY <1>1, <1>4 DEF Scanned, Scanning
    <3>2. pos[u] \in Nat \ {0} /\ limit[u].row \in Nat /\ size \in Nat /\ size <= MaxRows
      <4>1. limit[u] \in [chunk : Nat, row : Nat]
        BY <1>1 DEF Ranges, ScanRanges
      <4>2. pos[u] \in 1..MaxRows + 1
        BY <1>1 DEF Ranges, ThreadRanges
      <4>3. QED
        BY <1>1, <4>1, <4>2, SizeFacts
    <3>3. QED
      BY <3>1, <3>2 DEF Rows
  <2>2. /\ \A v \in Tx : ticket[v] \in Nat /\ view[v] \in Nat /\ view[v] < MAX_COMMIT_ID /\ view[v] <= horizon
        /\ end[r] \in Nat /\ begin[r] \in Nat /\ MAX_COMMIT_ID \in Nat /\ horizon \in Nat
        /\ begin \in [Rows -> 0..MAX_COMMIT_ID] /\ end \in [Rows -> 0..MAX_COMMIT_ID]
    BY <1>1, <2>1, CommitIdsBelowMax DEF Ranges, ManagerRanges, RowRanges, IInv, CommitIds
  <2>3. tid'[r] = u <=> tid[r] = u
    BY <2>1, OthersLocks
  <2> HIDE DEF r
  <2>4. view[u] < end'[r] => view[u] < end[r]
    BY <2>1, <2>2, EndOnce
  <2>5. ASSUME view[u] < end'[r] PROVE begin'[r] <= view[u] <=> begin[r] <= view[u]
    <3>1. CASE CommitInsertBegin(t) /\ r = CurrentRow(t)
      <4>1. pc[t] = "commit" /\ ticket[t] # 0 /\ Cur(t) \in InsertSlots(t) /\ r = Row(t, Cur(t))
        BY <3>1, RowActions DEF CommitPcs
      <4>2. horizon < ticket[t] /\ ~Passed(t, Cur(t))
        BY <1>1, <4>1, TicketFacts, CurrentSlot DEF CommitPcs, IInv
      <4>3. begin[r] = MAX_COMMIT_ID \/ begin[r] = ticket[t] \/ end[r] = 0
        BY <1>1, <4>1 DEF Versions
      <4>4. begin'[r] = ticket[t]
        BY <2>1, <2>2, <3>1, FieldSteps
      <4>5. QED
        BY <2>2, <2>4, <2>5, <4>2, <4>3, <4>4
    <3>2. CASE RollbackInsertBegin(t) /\ r = CurrentRow(t)
      <4>1. Rolls(t) /\ SecondLoop(t) /\ Cur(t) \in InsertSlots(t) /\ r = Row(t, Cur(t))
        BY <3>2, RowActions DEF RollbackPcs, SecondLoop
      <4>2. Reset(t, Cur(t))
        BY <4>1 DEF Reset, EndReset, Cur
      <4>3. end[r] = 0
        BY <1>1, <4>1, <4>2 DEF Versions
      <4>4. QED
        BY <2>2, <2>4, <2>5, <4>3
    <3>3. CASE ~(CommitInsertBegin(t) /\ r = CurrentRow(t)) /\ ~(RollbackInsertBegin(t) /\ r = CurrentRow(t))
      <4>1. begin'[r] = begin[r]
        BY <2>1, <2>2, <3>3, FieldsStay, FieldSteps
      <4>2. QED
        BY <4>1
    <3>4. QED
      BY <3>1, <3>2, <3>3
  <2>6. pos'[u] = r /\ pc'[u] = pc[u] /\ view'[u] = view[u] /\ rowTid'[u] = rowTid[u] /\ rowBegin'[u] = rowBegin[u]
    BY <1>2 DEF SameThread, r
  <2>7. /\ rowTid[u] = u <=> tid[r] = u
        /\ pc[u] = "end" /\ view[u] < end[r] => (rowBegin[u] <= view[u] <=> begin[r] <= view[u])
    BY <1>1, <1>4 DEF HasRead, r
  <2>8. QED
    BY <2>3, <2>4, <2>5, <2>6, <2>7 DEF HasRead
<1>5. QED
  BY <1>3, <1>4

LEMMA ReadsStep ==
  ASSUME IInv, [Next]_vars
  PROVE  Reads'
<1>1. Ranges /\ Reads
  BY DEF IInv
<1>2. ASSUME NEW t \in Tx, Step(t) PROVE Reads'
  <2>1. HasRead(t)'
    <3>1. CASE pc'[t] \notin {"begin", "end"}
      BY <3>1 DEF HasRead
    <3>2. CASE ReadTid(t)
      BY <1>1, <3>2 DEF ReadTid, HasRead, At, Goto, tableVars, rowVars, managerVars, Ranges, ThreadRanges, ScanRanges
    <3>3. CASE ReadBegin(t)
      BY <1>1, <3>3 DEF ReadBegin, HasRead, Reads, At, Goto, tableVars, rowVars, managerVars, Ranges, ThreadRanges, ScanRanges
    <3>4. QED
      BY <1>1, <1>2, <3>1, <3>2, <3>3, ScanSteps DEF Scanning
  <2>2. QED
    BY <1>2, <2>1, OthersHaveRead DEF Reads
<1>3. CASE Advance \/ UNCHANGED vars
  <2>1. \A u \in Tx : SameThread(u)
    BY <1>3, NoStep
  <2>2. tid' = tid /\ begin' = begin /\ end' = end
    BY <1>3 DEF Advance, vars, tableVars, rowVars
  <2>3. QED
    BY <1>1, <2>1, <2>2 DEF Reads, HasRead, SameThread
<1>4. QED
  BY <1>2, <1>3 DEF Next, Step, Finished

LEMMA InitReads == Init => Reads
  BY DEF Init, Reads, HasRead

\* Rows in the snapshot are allocated, and the table only grows.
LEMMA SnapshotAllocated ==
  ASSUME IInv, NEW t \in Tx, NEW r \in Rows, InSnapshot(t, r)
  PROVE  r <= size
<1>1. Ranges /\ InsertsApart
  BY DEF IInv
<1>2. CASE \E u \in Tx : InsertedBy(u, r)
  BY <1>1, <1>2 DEF InsertsApart, InsertedBy
<1>3. CASE r \in Loaded
  BY <1>1, <1>3, SizeFacts DEF Loaded
<1>4. QED
  BY <1>2, <1>3 DEF InSnapshot

LEMMA SizeGrows ==
  ASSUME IInv, [Next]_vars
  PROVE  size' \in Nat \ {0} /\ size <= size' /\ ChunkOf(size) <= ChunkOf(size')
<1>1. Ranges /\ size \in Nat \ {0}
  BY SizeFacts DEF IInv
<1>2. size' \in Nat \ {0} /\ size <= size'
  <2>1. CASE size' = size
    BY <1>1, <2>1
  <2>2. ASSUME NEW t \in Tx, Insert(t) PROVE size' \in Nat \ {0} /\ size <= size'
    BY <1>1, <2>2, InsertMoves
  <2>3. QED
    BY <2>1, <2>2, LayoutCases
<1>3. QED
  BY <1>1, <1>2, ChunkMonotone

\* The chunk after the c-th one.
LEMMA NextChunk ==
  ASSUME NEW c \in Nat \ {0}
  PROVE  /\ c * ChunkSize \in Nat \ {0} /\ (c - 1) * ChunkSize \in Nat /\ c * ChunkSize = (c - 1) * ChunkSize + ChunkSize
         /\ ChunkOf(c * ChunkSize + 1) = c + 1
         /\ c * ChunkSize + 1 = (ChunkOf(c * ChunkSize + 1) - 1) * ChunkSize + 1
<1>1. c * ChunkSize \in Nat \ {0} /\ (c - 1) * ChunkSize \in Nat /\ c * ChunkSize = (c - 1) * ChunkSize + ChunkSize
  OBVIOUS
<1>2. (c + 1) * ChunkSize = c * ChunkSize + ChunkSize /\ (c + 1) - 1 = c
  OBVIOUS
<1>3. ((c + 1) - 1) * ChunkSize = c * ChunkSize
  BY <1>2
<1>4. ((c + 1) - 1) * ChunkSize < c * ChunkSize + 1 /\ c * ChunkSize + 1 <= (c + 1) * ChunkSize
  BY <1>1, <1>2, <1>3
<1>5. ChunkOf(c * ChunkSize + 1) = c + 1
  <2> DEFINE r == c * ChunkSize + 1
             d == c + 1
  <2>1. r \in Nat \ {0} /\ d \in Nat \ {0}
    BY <1>1
  <2>2. (d - 1) * ChunkSize < r /\ r <= d * ChunkSize
    BY <1>4
  <2> HIDE DEF r, d
  <2>3. ChunkOf(r) = d
    BY <2>1, <2>2, ChunkBounds
  <2>4. QED
    BY <2>3 DEF r, d
<1>6. QED
  BY <1>1, <1>3, <1>5

\* Where a scan is.
LEMMA ScanFacts ==
  ASSUME IInv, NEW t \in Tx, pc[t] \in Scanning
  PROVE  /\ pos[t] \in Nat \ {0} /\ limit[t].chunk \in Nat /\ limit[t].row \in Nat
         /\ seen[t] \subseteq Rows /\ view[t] \in Nat
         /\ pc[t] \in {"tid", "begin", "end"} => pos[t] \in Rows /\ pos[t] <= size
<1>1. Ranges /\ Scanned(t)
  BY DEF IInv, Scan
<1>2. limit[t] \in [chunk : Nat, row : Nat] /\ seen[t] \subseteq Rows /\ view[t] \in Nat
  BY <1>1 DEF Ranges, ScanRanges, ManagerRanges
<1>3. pos[t] \in 1..MaxRows + 1
  BY <1>1 DEF Ranges, ThreadRanges
<1>4. size \in Nat /\ size <= MaxRows
  BY <1>1, SizeFacts
<1>5. pc[t] \in {"tid", "begin", "end"} => pos[t] <= limit[t].row /\ limit[t].row <= size
  BY <1>1 DEF Scanned
<1>6. QED
  BY <1>2, <1>3, <1>4, <1>5 DEF Rows

\* The steps of the others leave a scan where it is.
LEMMA OthersScan ==
  ASSUME IInv, [Next]_vars, NEW u \in Tx, SameThread(u), pc[u] \in Scanning
  PROVE  Scanned(u)'
<1>1. Ranges /\ Scanned(u)
  BY DEF IInv, Scan
<1>2. \A r \in Rows : InSnapshot(u, r)' <=> InSnapshot(u, r)
  BY SnapshotStays DEF SameThread, Scanning
<1>3. size' \in Nat /\ size \in Nat /\ size <= size' /\ ChunkOf(size) <= ChunkOf(size')
      /\ ChunkOf(size) \in Nat /\ ChunkOf(size') \in Nat
  BY <1>1, SizeGrows, SizeFacts, ChunkBounds
<1>4. limit[u].chunk \in Nat /\ limit[u].row \in Nat
  BY ScanFacts
<1>5. pc'[u] = pc[u] /\ pos'[u] = pos[u] /\ limit'[u] = limit[u] /\ seen'[u] = seen[u]
  BY DEF SameThread
<1>6. limit[u].chunk <= ChunkOf(size')
  BY <1>1, <1>3, <1>4 DEF Scanned
<1>7. limit[u].row <= size => limit[u].row <= size'
  BY <1>3, <1>4
<1>8. QED
  BY <1>1, <1>2, <1>5, <1>6, <1>7 DEF Scanned

\* A chunk without invalid rows has no row that another transaction deleted before.
LEMMA ChunkWithoutDeletions ==
  ASSUME IInv, NEW t \in Tx, pc[t] # "idle", invalid[1] = 0, NEW r \in Loaded, NEW u \in Tx, Covers(t, u)
  PROVE  ~DeletedBy(u, r)
<1> SUFFICES ASSUME NEW s \in DeleteSlots(u), Row(u, s) = r PROVE FALSE
  BY DEF DeletedBy
<1>1. Ranges /\ Positions /\ CommitIds /\ Versions /\ Counts
  BY DEF IInv
<1>2. 1 \in Chunks /\ r \in Rows /\ ChunkOf(r) = 1
  BY ChunksOfRows
<1>3. Counted(1) = {}
  <2>1. Counted(1) \subseteq Rows
    BY DEF Counted
  <2>2. IsFiniteSet(Rows)
    BY FS_Interval DEF Rows
  <2>3. IsFiniteSet(Counted(1))
    BY <2>1, <2>2, FS_Subset
  <2>4. Cardinality(Counted(1)) = 0
    BY <1>1, <1>2 DEF Counts
  <2>5. QED
    BY <2>3, <2>4, FS_EmptySet
<1>4. Ended(u, s) /\ ticket[u] # 0 /\ pc[u] \in {"await", "gone"}
  BY CoveredFacts DEF Ended, AllSlots
<1>5. end[r] # MAX_COMMIT_ID
  <2>1. end[r] = ticket[u]
    BY <1>1, <1>4 DEF Versions
  <2>2. ticket[u] \in Nat /\ ticket[u] < MAX_COMMIT_ID /\ MAX_COMMIT_ID \in Nat
    BY <1>1, CommitIdsBelowMax DEF Ranges, ManagerRanges
  <2>3. QED
    BY <2>1, <2>2
<1>6. PICK v \in Tx : pc[v] = "commitInvalid" /\ r = CurrentRow(v)
  BY <1>2, <1>3, <1>5 DEF Counted
<1>7. Cur(v) \in DeleteSlots(v) /\ Row(v, Cur(v)) = r /\ ticket[v] # 0
  BY <1>1, <1>6, CurrentSlot, TicketFacts DEF CommitPcs, Positions, Place
<1>8. u = v
  BY <1>4, <1>7, OneDeleter
<1>9. QED
  BY <1>4, <1>6, <1>8

LEMMA StartValidateScans ==
  ASSUME IInv, [Next]_vars, NEW t \in Tx, StartValidate(t)
  PROVE  Scanned(t)'
<1>1. Ranges
  BY DEF IInv
<1>2. /\ pc[t] = "active" /\ pc'[t] = "chunk" /\ pos'[t] = 1 /\ limit'[t].chunk = ChunkOf(size) /\ seen'[t] = {}
      /\ size' = size /\ ops' = ops
  BY <1>1 DEF StartValidate, At, Goto, tableVars, Ranges, ThreadRanges, ScanRanges
<1>3. \A r \in Rows : InSnapshot(t, r)' <=> InSnapshot(t, r)
  BY <1>2, SameOpsSameSlots, SnapshotStays
<1>4. \A r \in Rows : InSnapshot(t, r) => ChunkOf(r) <= ChunkOf(size)
  <2>1. size \in Nat \ {0} /\ \A r \in Rows : r \in Nat \ {0}
    BY <1>1, SizeFacts DEF Rows
  <2>2. QED
    BY <2>1, SnapshotAllocated, ChunkMonotone
<1>5. ChunkOf(1) = 1 /\ ChunkOf(1) <= ChunkOf(size) /\ ChunkOf(size) \in Nat
  <2>1. ChunkOf(1) <= ChunkOf(size) /\ ChunkOf(size) \in Nat
    BY <1>1, SizeFacts, ChunkMonotone, ChunkBounds
  <2>2. 1 \in Loaded /\ 1 \in Rows
    BY DEF Loaded, Rows
  <2>3. QED
    BY <2>1, <2>2, ChunksOfRows
<1>6. 1 = (1 - 1) * ChunkSize + 1
  OBVIOUS
<1>7. \A r \in Rows : ~(r < 1)
  BY DEF Rows
<1>8. QED
  BY <1>2, <1>3, <1>4, <1>5, <1>6, <1>7 DEF Scanned

\* The chunk that is entered ends where its rows or the table end.
LEMMA ChunkEndFacts ==
  ASSUME IInv, NEW t \in Tx, pc[t] = "chunk"
  PROVE  /\ pos[t] \in Rows /\ pos[t] <= ChunkEnd(ChunkOf(pos[t])) /\ ChunkEnd(ChunkOf(pos[t])) <= size
         /\ ChunkEnd(ChunkOf(pos[t])) \in Rows
         /\ ChunkOf(ChunkEnd(ChunkOf(pos[t]))) = ChunkOf(pos[t])
         /\ ChunkOf(pos[t]) < limit[t].chunk => ChunkEnd(ChunkOf(pos[t])) = ChunkOf(pos[t]) * ChunkSize
         /\ \A r \in Rows : InSnapshot(t, r) /\ ChunkOf(r) = ChunkOf(pos[t]) => r <= ChunkEnd(ChunkOf(pos[t]))
<1> DEFINE c == ChunkOf(pos[t])
           e == ChunkEnd(c)
<1>1. Ranges /\ Scanned(t)
  BY DEF IInv, Scan, Scanning
<1>2. pos[t] \in Nat \ {0} /\ limit[t].chunk \in Nat
  BY ScanFacts DEF Scanning
<1>3. size \in Nat \ {0} /\ size <= MaxRows
  BY <1>1, SizeFacts
<1>4. c \in Nat \ {0} /\ pos[t] = (c - 1) * ChunkSize + 1 /\ c <= limit[t].chunk /\ limit[t].chunk <= ChunkOf(size)
  BY <1>1, <1>2, ChunkBounds DEF Scanned
<1> HIDE DEF c
<1>5. /\ c * ChunkSize \in Nat \ {0} /\ (c - 1) * ChunkSize \in Nat
      /\ c * ChunkSize = (c - 1) * ChunkSize + ChunkSize
  BY <1>4, NextChunk
<1>6. ChunkOf(size) \in Nat \ {0} /\ (ChunkOf(size) - 1) * ChunkSize < size
  BY <1>3, ChunkBounds
<1>7. c <= ChunkOf(size) /\ (c < limit[t].chunk => c <= ChunkOf(size) - 1)
  BY <1>2, <1>4, <1>6
<1>8. /\ (c - 1) * ChunkSize < size
      /\ c < limit[t].chunk => c * ChunkSize < size
  <2>1. \A a, b \in Nat : a <= b => a * ChunkSize <= b * ChunkSize
    OBVIOUS
  <2>2. c - 1 \in Nat /\ c \in Nat /\ ChunkOf(size) - 1 \in Nat /\ c - 1 <= ChunkOf(size) - 1
    BY <1>4, <1>6, <1>7
  <2>3. (c - 1) * ChunkSize <= (ChunkOf(size) - 1) * ChunkSize
    BY <2>1, <2>2
  <2>4. c < limit[t].chunk => c * ChunkSize <= (ChunkOf(size) - 1) * ChunkSize
    BY <1>7, <2>1, <2>2
  <2>5. (ChunkOf(size) - 1) * ChunkSize \in Nat
    BY <1>6, NextChunk
  <2>6. QED
    BY <1>3, <1>5, <1>6, <2>3, <2>4, <2>5
<1>9. e = IF c * ChunkSize < size THEN c * ChunkSize ELSE size
  BY DEF ChunkEnd
<1> HIDE DEF e
<1>10. /\ e \in Nat \ {0} /\ pos[t] <= e /\ e <= size /\ e <= MaxRows /\ (c - 1) * ChunkSize < e /\ e <= c * ChunkSize
       /\ c < limit[t].chunk => e = c * ChunkSize
  BY <1>2, <1>3, <1>4, <1>5, <1>8, <1>9
<1>11. ChunkOf(e) = c
  BY <1>4, <1>10, ChunkBounds
<1>12. \A r \in Rows : InSnapshot(t, r) /\ ChunkOf(r) = c => r <= e
  <2>1. ASSUME NEW r \in Rows, InSnapshot(t, r), ChunkOf(r) = c PROVE r <= e
    <3>1. r \in Nat \ {0} /\ r <= size /\ r <= c * ChunkSize
      <4>1. r \in Nat \ {0}
        BY DEF Rows
      <4>2. QED
        BY <2>1, <4>1, SnapshotAllocated, ChunkBounds
    <3>2. QED
      BY <1>3, <1>5, <1>9, <3>1
  <2>2. QED
    BY <2>1
<1>13. pos[t] \in Rows /\ e \in Rows
  BY <1>2, <1>3, <1>10 DEF Rows
<1>14. QED
  BY <1>10, <1>11, <1>12, <1>13 DEF c, e

LEMMA EnterChunkScans ==
  ASSUME IInv, [Next]_vars, NEW t \in Tx, EnterChunk(t)
  PROVE  Scanned(t)'
<1> DEFINE c == ChunkOf(pos[t])
<1>1. pc[t] = "chunk" /\ size' = size /\ ops' = ops
  BY DEF EnterChunk, At, tableVars
<1>2. Ranges /\ Scanned(t)
  BY <1>1 DEF IInv, Scan, Scanning
<1>3. /\ pos[t] \in Nat \ {0} /\ limit[t].chunk \in Nat /\ c \in Nat \ {0}
      /\ pos[t] = (c - 1) * ChunkSize + 1 /\ c <= limit[t].chunk /\ limit[t].chunk <= ChunkOf(size)
  BY <1>1, <1>2, ScanFacts, ChunkBounds DEF Scanned, Scanning
<1>4. /\ pos[t] \in Rows /\ pos[t] <= ChunkEnd(c) /\ ChunkEnd(c) <= size /\ ChunkEnd(c) \in Rows
      /\ ChunkOf(ChunkEnd(c)) = c
      /\ c < limit[t].chunk => ChunkEnd(c) = c * ChunkSize
      /\ \A r \in Rows : InSnapshot(t, r) /\ ChunkOf(r) = c => r <= ChunkEnd(c)
  BY <1>1, ChunkEndFacts
<1>5. \A r \in Rows : InSnapshot(t, r)' <=> InSnapshot(t, r)
  BY <1>1, SameOpsSameSlots, SnapshotStays
<1>6. CASE ~EntirelyVisible(t, c)
  <2>1. /\ limit'[t].row = ChunkEnd(c) /\ limit'[t].chunk = limit[t].chunk
        /\ pc'[t] = "tid" /\ pos' = pos /\ seen' = seen
    BY <1>2, <1>6 DEF EnterChunk, Goto, Ranges, ThreadRanges, ScanRanges
  <2>2. QED
    BY <1>1, <1>2, <1>4, <1>5, <2>1 DEF Scanned
<1>7. CASE EntirelyVisible(t, c)
  <2>1. /\ seen'[t] = seen[t] \cup pos[t]..ChunkEnd(c) /\ pos'[t] = ChunkEnd(c) + 1
        /\ pc'[t] = (IF c < limit[t].chunk THEN "chunk" ELSE "validated") /\ limit' = limit
    BY <1>2, <1>7 DEF EnterChunk, AfterChunk, Goto, Ranges, ThreadRanges, ScanRanges
  <2>2. c = 1 /\ ~HasDelete(t) /\ invalid[1] = 0
    BY <1>7 DEF EntirelyVisible
  <2>3. pos[t] = 1 /\ ChunkEnd(c) = ChunkSize
    <3>1. pos[t] = 1
      BY <1>3, <2>2
    <3>2. size \in Nat /\ ChunkSize <= size /\ c * ChunkSize = ChunkSize
      BY <1>2, <2>2, SizeFacts
    <3>3. QED
      BY <3>1, <3>2 DEF ChunkEnd
  <2>4. \A r \in Loaded : InSnapshot(t, r)
    <3>1. \A r \in Rows : ~DeletedBy(t, r)
      BY <2>2 DEF HasDelete, DeletedBy, DeleteSlots, Slots
    <3>2. \A r \in Loaded : \A u \in Tx : Covers(t, u) => ~DeletedBy(u, r)
      BY <1>1, <2>2, ChunkWithoutDeletions
    <3>3. QED
      BY <3>1, <3>2, ChunksOfRows DEF InSnapshot
  <2>5. \A r \in Rows : r \in seen'[t] <=> r \in Loaded
    <3>1. \A r \in Rows : r \notin seen[t]
      <4>1. \A r \in Rows : ~(r < 1)
        BY DEF Rows
      <4>2. QED
        BY <1>1, <1>2, <2>3, <4>1 DEF Scanned
    <3>2. QED
      BY <2>1, <2>3, <3>1 DEF Loaded
  <2>6. \A r \in Rows : r \in seen'[t] <=> InSnapshot(t, r) /\ (pc'[t] = "validated" \/ r < ChunkSize + 1)
    <3>1. ASSUME NEW r \in Rows, InSnapshot(t, r), pc'[t] = "validated" PROVE r \in Loaded
      <4>1. ~(c < limit[t].chunk)
        BY <2>1, <3>1
      <4>2. limit[t].chunk = 1
        BY <1>3, <2>2, <4>1
      <4>3. ChunkOf(r) <= 1
        BY <1>2, <3>1, <4>2 DEF Scanned
      <4>4. ChunkOf(r) = 1
        BY <4>3, ChunkBounds DEF Rows
      <4>5. QED
        BY <4>4, ChunksOfRows
    <3>2. \A r \in Rows : r \in Loaded <=> r < ChunkSize + 1
      BY DEF Rows, Loaded
    <3>3. QED
      BY <2>4, <2>5, <3>1, <3>2
  <2>7. pc'[t] = "chunk" => /\ ChunkOf(ChunkSize + 1) <= limit[t].chunk
                            /\ ChunkSize + 1 = (ChunkOf(ChunkSize + 1) - 1) * ChunkSize + 1
    <3>1. 1 * ChunkSize = ChunkSize
      OBVIOUS
    <3>2. ChunkOf(ChunkSize + 1) = 1 + 1 /\ ChunkSize + 1 = (ChunkOf(ChunkSize + 1) - 1) * ChunkSize + 1
      BY <3>1, NextChunk
    <3>3. pc'[t] = "chunk" => c < limit[t].chunk
      BY <2>1
    <3>4. QED
      BY <1>3, <2>2, <3>2, <3>3
  <2>8. pc'[t] \in {"chunk", "validated"} /\ pos'[t] = ChunkSize + 1
    BY <2>1, <2>3
  <2>9. QED
    BY <1>1, <1>2, <1>5, <2>1, <2>6, <2>7, <2>8 DEF Scanned
<1>8. QED
  BY <1>6, <1>7

LEMMA ReadFieldScans ==
  ASSUME IInv, [Next]_vars, NEW t \in Tx, ReadTid(t) \/ ReadBegin(t)
  PROVE  Scanned(t)'
<1>1. /\ pc[t] \in {"tid", "begin"} /\ pc'[t] \in {"begin", "end"} /\ pos' = pos /\ limit' = limit
      /\ seen' = seen /\ size' = size /\ ops' = ops
  BY DEF ReadTid, ReadBegin, At, Goto, tableVars, IInv, Ranges, ThreadRanges
<1>2. Scanned(t)
  BY <1>1 DEF IInv, Scan, Scanning
<1>3. \A r \in Rows : InSnapshot(t, r)' <=> InSnapshot(t, r)
  BY <1>1, SameOpsSameSlots, SnapshotStays
<1>4. QED
  BY <1>1, <1>2, <1>3 DEF Scanned

LEMMA ReadEndScans ==
  ASSUME IInv, [Next]_vars, NEW t \in Tx, ReadEnd(t)
  PROVE  Scanned(t)'
<1> DEFINE r == pos[t]
           c == ChunkOf(r)
           e == limit[t].row
           last == limit[t].chunk
<1>1. pc[t] = "end" /\ size' = size /\ ops' = ops /\ limit' = limit
  BY DEF ReadEnd, At, tableVars
<1>2. Ranges /\ Scanned(t) /\ HasRead(t)
  BY <1>1 DEF IInv, Scan, Scanning, Reads
<1>3. /\ r \in Rows /\ r <= size /\ r \in Nat \ {0} /\ e \in Nat /\ last \in Nat /\ view[t] \in Nat
      /\ rowBegin[t] \in Nat /\ \A q \in Rows : q \in Nat \ {0}
  BY <1>1, <1>2, ScanFacts DEF Scanning, Ranges, ScanRanges, Rows
<1>4. /\ r <= e /\ e <= size /\ ChunkOf(e) = c /\ c <= last /\ last <= ChunkOf(size)
      /\ c < last => e = c * ChunkSize
      /\ \A q \in Rows : InSnapshot(t, q) => ChunkOf(q) <= last /\ (ChunkOf(q) = c => q <= e)
      /\ \A q \in Rows : q \in seen[t] <=> InSnapshot(t, q) /\ q < r
  BY <1>1, <1>2 DEF Scanned
<1>5. \A q \in Rows : InSnapshot(t, q)' <=> InSnapshot(t, q)
  BY <1>1, SameOpsSameSlots, SnapshotStays
<1>6. /\ seen'[t] = IF IsRowVisible(t, view[t], rowTid[t], rowBegin[t], end[r]) THEN seen[t] \cup {r} ELSE seen[t]
      /\ pos'[t] = r + 1
      /\ pc'[t] = IF r < e THEN "tid" ELSE IF c < last THEN "chunk" ELSE "validated"
  BY <1>2 DEF ReadEnd, AfterChunk, Goto, Ranges, ThreadRanges, ScanRanges
<1>7. IsRowVisible(t, view[t], rowTid[t], rowBegin[t], end[r]) <=> InSnapshot(t, r)
  <2>1. view[t] < end[r] /\ ((begin[r] <= view[t]) # (tid[r] = t)) <=> InSnapshot(t, r)
    BY <1>1, <1>3, Visible DEF Scanning
  <2>2. view[t] < end[r] => (rowBegin[t] <= view[t] <=> begin[r] <= view[t]) /\ (rowTid[t] = t <=> tid[r] = t)
    BY <1>1, <1>2 DEF HasRead
  <2>3. (view[t] >= rowBegin[t]) = (rowBegin[t] <= view[t])
    BY <1>3
  <2>4. IsRowVisible(t, view[t], rowTid[t], rowBegin[t], end[r]) <=> view[t] < end[r] /\ ((rowBegin[t] <= view[t]) # (rowTid[t] = t))
    BY <2>3 DEF IsRowVisible
  <2>5. QED
    BY <2>1, <2>2, <2>4
<1>8. c \in Nat \ {0}
  BY <1>3, ChunkBounds
<1>9. \A q \in Rows : r <= q => c <= ChunkOf(q) /\ ChunkOf(q) \in Nat
  BY <1>3, ChunkMonotone, ChunkBounds
<1> HIDE DEF r, c, e, last
<1>10. \A q \in Rows : q \in seen'[t] <=> InSnapshot(t, q) /\ q < r + 1
  <2>1. \A q \in Rows : q \in seen'[t] <=> q \in seen[t] \/ (q = r /\ InSnapshot(t, r))
    BY <1>6, <1>7
  <2>2. \A q \in Rows : q < r + 1 <=> q < r \/ q = r
    BY <1>3
  <2>3. QED
    BY <1>3, <1>4, <2>1, <2>2
<1>11. CASE r < e
  <2>1. pc'[t] = "tid" /\ r + 1 <= e /\ r + 1 \in Nat \ {0} /\ e \in Nat \ {0}
    BY <1>3, <1>6, <1>11
  <2>2. c <= ChunkOf(r + 1) /\ ChunkOf(r + 1) <= ChunkOf(e) /\ ChunkOf(r + 1) \in Nat
    <3>1. r \in Nat \ {0} /\ r <= r + 1
      BY <1>3
    <3>2. ChunkOf(r) <= ChunkOf(r + 1)
      BY <2>1, <3>1, ChunkMonotone
    <3>3. ChunkOf(r + 1) <= ChunkOf(e)
      BY <2>1, ChunkMonotone
    <3>4. ChunkOf(r + 1) \in Nat
      BY <2>1, ChunkBounds
    <3>5. QED
      BY <3>2, <3>3, <3>4 DEF c
  <2>3. ChunkOf(r + 1) = c
    BY <1>4, <1>8, <2>2
  <2>4. pc'[t] # "validated" /\ pc'[t] # "chunk" /\ limit'[t].row = e /\ limit'[t].chunk = last /\ size' = size
    BY <1>1, <2>1 DEF e, last
  <2>5. QED
    BY <1>4, <1>5, <1>6, <1>10, <2>1, <2>3, <2>4 DEF Scanned
<1>12. CASE ~(r < e) /\ c < last
  <2>1. pc'[t] = "chunk" /\ r = c * ChunkSize
    BY <1>3, <1>4, <1>6, <1>12
  <2>2. ChunkOf(r + 1) = c + 1 /\ r + 1 = (ChunkOf(r + 1) - 1) * ChunkSize + 1
    BY <1>8, <2>1, NextChunk
  <2>3. ChunkOf(r + 1) <= last
    BY <1>3, <1>8, <1>12, <2>2
  <2>4. limit'[t].row = e /\ limit'[t].chunk = last /\ size' = size
    BY <1>1 DEF e, last
  <2>5. QED
    BY <1>4, <1>5, <1>6, <1>10, <2>1, <2>2, <2>3, <2>4 DEF Scanned
<1>13. CASE ~(r < e) /\ ~(c < last)
  <2>1. pc'[t] = "validated" /\ r = e /\ c = last
    BY <1>3, <1>4, <1>6, <1>8, <1>13
  <2>2. \A q \in Rows : InSnapshot(t, q) => q < r + 1
    <3>1. SUFFICES ASSUME NEW q \in Rows, InSnapshot(t, q), ~(q < r + 1) PROVE FALSE
      OBVIOUS
    <3>2. r <= q /\ r < q
      BY <1>3, <3>1
    <3>3. ChunkOf(q) = c
      BY <1>4, <1>8, <1>9, <2>1, <3>1, <3>2
    <3>4. QED
      BY <1>3, <1>4, <2>1, <3>1, <3>2, <3>3
  <2>3. limit'[t].row = e /\ limit'[t].chunk = last /\ size' = size
    BY <1>1 DEF e, last
  <2>4. QED
    BY <1>4, <1>5, <1>6, <1>10, <2>1, <2>2, <2>3 DEF Scanned
<1>14. QED
  BY <1>11, <1>12, <1>13

LEMMA ScanStep ==
  ASSUME IInv, [Next]_vars
  PROVE  Scan'
<1>1. Ranges
  BY DEF IInv
<1>2. ASSUME NEW t \in Tx, Step(t), NEW u \in Tx, pc'[u] \in Scanning PROVE Scanned(u)'
  <2>1. CASE u = t
    <3>1. StartValidate(t) \/ EnterChunk(t) \/ ReadTid(t) \/ ReadBegin(t) \/ ReadEnd(t)
      BY <1>1, <1>2, <2>1, ScanSteps
    <3>2. QED
      BY <2>1, <3>1, StartValidateScans, EnterChunkScans, ReadFieldScans, ReadEndScans
  <2>2. CASE u # t
    <3>1. SameThread(u)
      BY <1>1, <1>2, <2>2, OthersStay
    <3>2. pc[u] \in Scanning
      BY <1>2, <3>1 DEF SameThread
    <3>3. QED
      BY <3>1, <3>2, OthersScan
  <2>3. QED
    BY <2>1, <2>2
<1>3. ASSUME Advance \/ UNCHANGED vars, NEW u \in Tx, pc'[u] \in Scanning PROVE Scanned(u)'
  <2>1. SameThread(u)
    BY <1>3, NoStep
  <2>2. pc[u] \in Scanning
    BY <1>3, <2>1 DEF SameThread
  <2>3. QED
    BY <2>1, <2>2, OthersScan
<1>4. QED
  BY <1>2, <1>3 DEF Next, Step, Finished, Scan

LEMMA InitScan == Init => Scan
  BY DEF Init, Scan, Scanning

----------------------------------------------------------------------------
(* The invalid row counts.                                                 *)

LEMMA CommitInvalidSteps ==
  ASSUME Ranges, NEW t \in Tx, Step(t)
  PROVE  /\ pc[t] = "commitInvalid" => CommitDeleteInvalid(t)
         /\ pc'[t] = "commitInvalid" => CommitDeleteEnd(t)
<1> USE DEF At, Goto
<1>1. pc \in [Tx -> Pcs]
  BY DEF Ranges, ThreadRanges
<1> DEFINE Away == pc[t] # "commitInvalid" /\ pc'[t] # "commitInvalid"
<1>2. Begin(t) \/ StartValidate(t) \/ EnterChunk(t) \/ ReadTid(t) \/ ReadBegin(t) \/ ReadEnd(t) \/ ReturnRows(t) => Away
  BY <1>1 DEF Begin, StartValidate, EnterChunk, AfterChunk, ReadTid, ReadBegin, ReadEnd, ReturnRows
<1>3. StartDelete(t) \/ DeleteRow(t) \/ Insert(t) => Away
  BY <1>1 DEF StartDelete, DeleteRow, Insert, threadVars
<1>4. CommitReadOnly(t) \/ StartCommit(t) \/ CommitInsertBegin(t) \/ MakePending(t) \/ Acknowledge(t) => Away
  BY <1>1 DEF CommitReadOnly, StartCommit, CommitInsertBegin, MakePending, Acknowledge
<1>5. CommitInsertTid(t) => Away
  BY <1>1 DEF CommitInsertTid, NextRow
<1>6. CommitDeleteInvalid(t) => pc'[t] # "commitInvalid"
  BY <1>1 DEF CommitDeleteInvalid, NextRow
<1>7. CommitDeleteEnd(t) => pc[t] # "commitInvalid"
  BY DEF CommitDeleteEnd
<1>8. RollbackByUser(t) \/ RollbackInsertEnd(t) \/ RollbackInsertBegin(t) \/ MarkAsRolledBack(t) => Away
  BY <1>1 DEF RollbackByUser, RollbackInsertEnd, RollbackInsertBegin, MarkAsRolledBack
<1>9. RollbackInsertTid(t) \/ RollbackDeleteRow(t) => Away
  BY <1>1 DEF RollbackInsertTid, RollbackDeleteRow, NextRow
<1>10. QED
  BY <1>2, <1>3, <1>4, <1>5, <1>6, <1>7, <1>8, <1>9 DEF Step, Validate, Delete, Commit, Rollback

\* The rows that a committing Delete is about to count.
Uncounted == {r \in Rows : \E t \in Tx : pc[t] = "commitInvalid" /\ r = CurrentRow(t)}

LEMMA CountedRows ==
  /\ \A c : Counted(c) = {r \in Rows : ChunkOf(r) = c /\ end[r] # MAX_COMMIT_ID /\ r \notin Uncounted}
  /\ \A c : Counted(c)' = {r \in Rows : ChunkOf(r) = c /\ end'[r] # MAX_COMMIT_ID /\ r \notin Uncounted'}
<1>1. MAX_COMMIT_ID' = MAX_COMMIT_ID
  BY DEF MAX_COMMIT_ID
<1>2. QED
  BY <1>1 DEF Counted, Uncounted

LEMMA CountedFinite ==
  ASSUME NEW c
  PROVE  IsFiniteSet(Counted(c))
<1>1. Counted(c) \subseteq Rows
  BY DEF Counted
<1>2. IsFiniteSet(Rows)
  BY FS_Interval DEF Rows
<1>3. QED
  BY <1>1, <1>2, FS_Subset

LEMMA CountOne ==
  ASSUME IInv, NEW r \in Rows, invalid' = [invalid EXCEPT ![ChunkOf(r)] = @ + 1],
         \A c \in Chunks : Counted(c)' = IF c = ChunkOf(r) THEN Counted(c) \cup {r} ELSE Counted(c),
         r \notin Counted(ChunkOf(r))
  PROVE  Counts'
<1>1. Counts /\ invalid \in [Chunks -> Nat]
  BY DEF IInv, Ranges, RowRanges
<1>2. Cardinality(Counted(ChunkOf(r)) \cup {r}) = Cardinality(Counted(ChunkOf(r))) + 1
  BY CountedFinite, FS_AddElement
<1>3. Chunks' = Chunks
  BY DEF Chunks
<1>4. ASSUME NEW c \in Chunks PROVE invalid'[c] = Cardinality(Counted(c)')
  <2>1. CASE c = ChunkOf(r)
    BY <1>1, <1>2, <2>1 DEF Counts
  <2>2. CASE c # ChunkOf(r)
    BY <1>1, <2>2 DEF Counts
  <2>3. QED
    BY <2>1, <2>2
<1>5. QED
  BY <1>3, <1>4 DEF Counts

LEMMA CountsStep ==
  ASSUME IInv, [Next]_vars
  PROVE  Counts'
<1>1. Ranges /\ Positions /\ CommitIds /\ Versions /\ Counts
  BY DEF IInv
<1>2. /\ end \in [Rows -> 0..MAX_COMMIT_ID] /\ MAX_COMMIT_ID \in Nat /\ MAX_COMMIT_ID # 0
      /\ \A u \in Tx : ticket[u] \in Nat /\ ticket[u] < MAX_COMMIT_ID
  BY <1>1, CommitIdsBelowMax DEF Ranges, RowRanges, ManagerRanges
<1>3. ASSUME Uncounted' = Uncounted, end' = end, invalid' = invalid PROVE Counts'
  <2>1. \A c \in Chunks : Counted(c)' = Counted(c)
    BY <1>3, CountedRows
  <2>2. Chunks' = Chunks
    BY DEF Chunks
  <2>3. QED
    BY <1>1, <1>3, <2>1, <2>2 DEF Counts
<1>4. ASSUME NEW t \in Tx, Step(t) PROVE Counts'
  <2> DEFINE cr == CurrentRow(t)
             Rest == {r \in Rows : \E u \in Tx : u # t /\ pc[u] = "commitInvalid" /\ r = CurrentRow(u)}
  <2>1. \A u \in Tx : u # t => pc'[u] = pc[u] /\ CurrentRow(u)' = CurrentRow(u)
    BY <1>1, <1>4, OthersStay DEF SameThread, CurrentRow, Current
  <2>2. Uncounted = Rest \cup (IF pc[t] = "commitInvalid" THEN {cr} \cap Rows ELSE {})
    BY DEF Uncounted
  <2>3. Uncounted' = Rest \cup (IF pc'[t] = "commitInvalid" THEN {CurrentRow(t)'} \cap Rows ELSE {})
    BY <2>1 DEF Uncounted
  <2>4. /\ pc[t] = "commitInvalid" => CommitDeleteInvalid(t)
        /\ pc'[t] = "commitInvalid" => CommitDeleteEnd(t)
    BY <1>1, <1>4, CommitInvalidSteps
  <2>5. pc[t] \in CommitPcs \cup RollbackPcs => cr \in Rows /\ cr = Row(t, Cur(t)) /\ ChunkOf(cr) \in Chunks
    BY RowActions, ChunksOfRows
  <2>6. \A r \in Rest : \E u \in Tx : /\ u # t /\ ticket[u] # 0
                                      /\ \E q \in DeleteSlots(u) : Row(u, q) = r
    <3>1. ASSUME NEW u \in Tx, pc[u] = "commitInvalid"
          PROVE  ticket[u] # 0 /\ Cur(u) \in DeleteSlots(u) /\ Row(u, Cur(u)) = CurrentRow(u)
      BY <1>1, <3>1, CurrentSlot, TicketFacts DEF CommitPcs, Positions, Place
    <3>2. QED
      BY <3>1
  <2> HIDE DEF cr, Rest
  <2>7. CASE CommitDeleteEnd(t)
    <3>1. /\ pc[t] = "commit" /\ pc'[t] = "commitInvalid" /\ CurrentRow(t)' = cr /\ invalid' = invalid
          /\ end' = [end EXCEPT ![cr] = ticket[t]]
      BY <1>1, <2>7 DEF CommitDeleteEnd, At, Goto, CurrentRow, Current, cr, Ranges, ThreadRanges
    <3>2. cr \in Rows
      BY <2>5, <3>1 DEF CommitPcs
    <3>3. Uncounted' = Uncounted \cup {cr} /\ end[cr] = MAX_COMMIT_ID
      BY <2>2, <2>3, <2>7, <3>1, <3>2, EndWasOpen DEF cr
    <3>4. \A r \in Rows : r # cr => end'[r] = end[r]
      BY <1>2, <3>1
    <3>5. \A c \in Chunks : Counted(c)' = Counted(c)
      <4>1. ASSUME NEW c \in Chunks, NEW r \in Rows
            PROVE  end'[r] # MAX_COMMIT_ID /\ r \notin Uncounted' <=> end[r] # MAX_COMMIT_ID /\ r \notin Uncounted
        BY <3>3, <3>4
      <4>2. QED
        BY <4>1, CountedRows
    <3>6. Chunks' = Chunks
      BY DEF Chunks
    <3>7. QED
      BY <1>1, <3>1, <3>5, <3>6 DEF Counts
  <2>8. CASE CommitDeleteInvalid(t)
    <3>1. /\ pc[t] = "commitInvalid" /\ pc'[t] # "commitInvalid" /\ end' = end
          /\ invalid' = [invalid EXCEPT ![ChunkOf(cr)] = @ + 1] /\ Cur(t) \in DeleteSlots(t) /\ ticket[t] # 0
      <4>1. pc[t] = "commitInvalid" /\ Cur(t) \in DeleteSlots(t) /\ ticket[t] # 0
        BY <2>8, RowActions
      <4>2. ~CommitDeleteEnd(t)
        BY <4>1 DEF CommitDeleteEnd, At
      <4>3. end' = end /\ invalid' = [invalid EXCEPT ![ChunkOf(cr)] = @ + 1]
        BY <2>8 DEF CommitDeleteInvalid, rowVars, cr
      <4>4. QED
        BY <2>4, <4>1, <4>2, <4>3
    <3>2. cr \in Rows /\ cr = Row(t, Cur(t))
      BY <2>5, <3>1 DEF CommitPcs
    <3>3. end[cr] # MAX_COMMIT_ID
      <4>1. Ended(t, Cur(t))
        BY <3>1 DEF Ended, EndWritten
      <4>2. end[cr] = ticket[t]
        BY <1>1, <3>1, <3>2, <4>1 DEF Versions
      <4>3. QED
        BY <1>2, <4>2
    <3>4. cr \notin Rest
      BY <2>6, <3>1, <3>2, OneDeleter
    <3>5. Uncounted = Rest \cup {cr} /\ Uncounted' = Rest
      BY <2>2, <2>3, <3>1, <3>2
    <3>6. \A r \in Rows : end'[r] # MAX_COMMIT_ID /\ r \notin Uncounted' <=>
                            (end[r] # MAX_COMMIT_ID /\ r \notin Uncounted) \/ r = cr
      BY <3>1, <3>3, <3>4, <3>5
    <3>7. \A c \in Chunks : Counted(c)' = IF c = ChunkOf(cr) THEN Counted(c) \cup {cr} ELSE Counted(c)
      BY <3>2, <3>6, CountedRows
    <3>8. cr \notin Counted(ChunkOf(cr))
      BY <3>5, CountedRows
    <3>9. QED
      BY <3>1, <3>2, <3>7, <3>8, CountOne
  <2>9. CASE RollbackInsertEnd(t)
    <3>1. pc[t] = "rollback" /\ Cur(t) \in InsertSlots(t) /\ t \notin ready
      BY <2>9, RowActions
    <3>2. cr \in Rows /\ cr = Row(t, Cur(t))
      BY <2>5, <3>1 DEF RollbackPcs
    <3>3. end[cr] = MAX_COMMIT_ID
      BY <2>9, EndWasOpen DEF cr
    <3>4. \A r \in Rows : end'[r] = IF r = cr THEN 0 ELSE end[r]
      BY <1>2, <2>9, FieldSteps DEF cr
    <3>5. cr \notin Rest
      BY <2>6, <3>1, <3>2, OwnUntilReady DEF DeletedBy
    <3>6. Uncounted = Rest /\ Uncounted' = Rest
      <4>1. ~CommitDeleteEnd(t)
        BY <2>9 DEF CommitDeleteEnd, RollbackInsertEnd, At
      <4>2. QED
        BY <2>2, <2>3, <2>4, <3>1, <4>1
    <3>7. \A r \in Rows : end'[r] # MAX_COMMIT_ID /\ r \notin Uncounted' <=>
                            (end[r] # MAX_COMMIT_ID /\ r \notin Uncounted) \/ r = cr
      BY <1>2, <3>4, <3>5, <3>6
    <3>8. \A c \in Chunks : Counted(c)' = IF c = ChunkOf(cr) THEN Counted(c) \cup {cr} ELSE Counted(c)
      BY <3>2, <3>7, CountedRows
    <3>9. cr \notin Counted(ChunkOf(cr))
      BY <3>3, CountedRows
    <3>10. invalid' = [invalid EXCEPT ![ChunkOf(cr)] = @ + 1]
      BY <2>9 DEF RollbackInsertEnd, cr
    <3>11. QED
      BY <3>2, <3>8, <3>9, <3>10, CountOne
  <2>10. CASE ~CommitDeleteEnd(t) /\ ~CommitDeleteInvalid(t) /\ ~RollbackInsertEnd(t)
    <3>1. end' = end /\ invalid' = invalid
      BY <1>4, <2>10, FieldsStay
    <3>2. Uncounted' = Uncounted
      BY <2>2, <2>3, <2>4, <2>10
    <3>3. QED
      BY <1>3, <3>1, <3>2
  <2>11. QED
    BY <2>7, <2>8, <2>9, <2>10
<1>5. CASE Advance \/ UNCHANGED vars
  <2>1. end' = end /\ invalid' = invalid /\ pc' = pc /\ ops' = ops /\ op' = op /\ pos' = pos
    BY <1>5 DEF Advance, vars, tableVars, rowVars, threadVars
  <2>2. Uncounted' = Uncounted
    BY <2>1 DEF Uncounted, CurrentRow, Current
  <2>3. QED
    BY <1>3, <2>1, <2>2
<1>6. QED
  BY <1>4, <1>5 DEF Next, Step, Finished

LEMMA InitCounts == Init => Counts
<1> SUFFICES ASSUME Init, NEW c \in Chunks PROVE invalid[c] = Cardinality(Counted(c))
  BY DEF Counts
<1>1. Counted(c) = {}
  BY DEF Init, Counted
<1>2. Cardinality(Counted(c)) = 0
  BY <1>1, FS_EmptySet
<1>3. QED
  BY <1>2 DEF Init

----------------------------------------------------------------------------
(* The invariant and what follows from it.                                 *)

\* The invariant of the rows, the threads and the commit ids holds throughout.
THEOREM Invariance == Spec => []IInv
<1>1. Init => IInv
  BY InitRanges, InitPositions, InitCommitIds, InitApart, InitLocks, InitRollbackLocks, InitVersions,
     InitReads, InitScan, InitCounts DEF IInv
<1>2. IInv /\ [Next]_vars => IInv'
  BY RangesStep, PositionsStep, CommitIdsStep, InsertsApartStep, DeletesApartStep, LocksStep,
     RollbackLocksStep, VersionsStep, ReadsStep, ScanStep, CountsStep DEF IInv
<1>3. QED
  BY <1>1, <1>2, PTL DEF Spec

\* The rows of the operators that have not failed are those of their slots.
LEMMA RowsOfSlots ==
  ASSUME NEW t \in Tx
  PROVE  /\ \A r : r \in Inserted(t) => InsertedBy(t, r)
         /\ \A r : r \in Deleted(t) => DeletedBy(t, r)
         /\ (\A i \in DOMAIN ops[t] : ops[t][i].state \in {"Executed", "Committed"}) =>
              \A r : (r \in Inserted(t) <=> InsertedBy(t, r)) /\ (r \in Deleted(t) <=> DeletedBy(t, r))
<1>1. ASSUME NEW type \in {"Insert", "Delete"}, NEW r
      PROVE  /\ r \in RowsOf(t, type) => \E s \in Slots(t, type) : Row(t, s) = r
             /\ (\A i \in DOMAIN ops[t] : ops[t][i].state \in {"Executed", "Committed"}) =>
                  (r \in RowsOf(t, type) <=> \E s \in Slots(t, type) : Row(t, s) = r)
  <2> DEFINE P(i) == ops[t][i].type = type
             Q(i) == \E j \in DOMAIN ops[t][i].rows : ops[t][i].rows[j] = r
             R(i) == ops[t][i].state \in {"Executed", "Committed"}
  <2>1. \A s : s \in Slots(t, type) <=> \E i \in DOMAIN ops[t] : P(i) /\ \E j \in DOMAIN ops[t][i].rows : s = <<i, j>>
    BY DEF Slots
  <2>2. \A i, j : Row(t, <<i, j>>) = ops[t][i].rows[j]
    BY DEF Row
  <2>3. r \in RowsOf(t, type) <=> \E i \in DOMAIN ops[t] : P(i) /\ R(i) /\ Q(i)
    BY DEF RowsOf, ToSet
  <2> HIDE DEF P, R
  <2>4. ASSUME NEW s \in Slots(t, type), Row(t, s) = r PROVE \E i \in DOMAIN ops[t] : P(i) /\ Q(i)
    <3>1. PICK i \in DOMAIN ops[t] : P(i) /\ \E j \in DOMAIN ops[t][i].rows : s = <<i, j>>
      BY <2>1, <2>4
    <3>2. PICK j \in DOMAIN ops[t][i].rows : s = <<i, j>>
      BY <3>1
    <3>3. ops[t][i].rows[j] = r
      BY <2>2, <2>4, <3>2
    <3>4. QED
      BY <3>1, <3>3
  <2>5. ASSUME NEW i \in DOMAIN ops[t], P(i), Q(i) PROVE \E s \in Slots(t, type) : Row(t, s) = r
    <3>1. PICK j \in DOMAIN ops[t][i].rows : ops[t][i].rows[j] = r
      BY <2>5
    <3>2. <<i, j>> \in Slots(t, type) /\ Row(t, <<i, j>>) = r
      BY <2>1, <2>2, <2>5, <3>1
    <3>3. QED
      BY <3>2
  <2>6. (\E s \in Slots(t, type) : Row(t, s) = r) <=> \E i \in DOMAIN ops[t] : P(i) /\ Q(i)
    BY <2>4, <2>5
  <2> HIDE DEF Q
  <2>7. (\A i \in DOMAIN ops[t] : R(i)) =>
          ((\E i \in DOMAIN ops[t] : P(i) /\ R(i) /\ Q(i)) <=> \E i \in DOMAIN ops[t] : P(i) /\ Q(i))
    OBVIOUS
  <2>8. r \in RowsOf(t, type) => \E s \in Slots(t, type) : Row(t, s) = r
    BY <2>3, <2>6
  <2>9. (\A i \in DOMAIN ops[t] : R(i)) => (r \in RowsOf(t, type) <=> \E s \in Slots(t, type) : Row(t, s) = r)
    BY <2>3, <2>6, <2>7
  <2>10. QED
    BY <2>8, <2>9 DEF R
<1>2. /\ \A r : InsertedBy(t, r) <=> \E s \in Slots(t, "Insert") : Row(t, s) = r
      /\ \A r : DeletedBy(t, r) <=> \E s \in Slots(t, "Delete") : Row(t, s) = r
  BY DEF InsertedBy, DeletedBy, InsertSlots, DeleteSlots
<1>3. QED
  BY <1>1, <1>2 DEF Inserted, Deleted

\* Validate returns exactly the snapshot of its transaction: the loaded rows and those inserted by the
\* transactions committed before it began, less those they deleted, with its own changes; whatever
\* other transactions do between its reads of a row's fields (validate.cpp, is_row_visible and the
\* shortcut for entirely visible chunks).
THEOREM SnapshotReads == Spec => []ValidateReturnsSnapshot
<1>1. ASSUME IInv, NEW t \in Tx, At(t, "validated") PROVE seen[t] = SnapshotOf(t)
  <2>1. Ranges /\ Positions /\ Scanned(t) /\ Running(t) /\ pc[t] # "delete"
    BY <1>1 DEF IInv, Scan, At, Scanning, Running, RunningPcs
  <2>2. \A r \in Rows : r \in seen[t] <=> InSnapshot(t, r)
    BY <1>1, <2>1 DEF Scanned, At
  <2>3. seen[t] \subseteq Rows
    BY <2>1 DEF Ranges, ScanRanges
  <2>4. Before(t) = {u \in Tx : Covers(t, u)}
    BY DEF Before, Covers
  <2>5. \A r : (r \in Inserted(t) <=> InsertedBy(t, r)) /\ (r \in Deleted(t) <=> DeletedBy(t, r))
    BY <2>1, RowsOfSlots DEF Positions, Standing
  <2>6. \A u \in Before(t) : \A r : (r \in Inserted(u) <=> InsertedBy(u, r)) /\ (r \in Deleted(u) <=> DeletedBy(u, r))
    BY <2>1, <2>4, RowsOfSlots DEF Positions, Standing, Covers
  <2>7. \A r : r \in SnapshotOf(t) => r \in Rows
    <3>1. \A u \in Tx : \A r : InsertedBy(u, r) => r \in Rows
      BY <2>1, SlotFacts DEF InsertedBy, AllSlots
    <3>2. QED
      BY <2>4, <2>5, <2>6, <3>1, ChunksOfRows DEF SnapshotOf
  <2>8. \A r \in Rows : r \in SnapshotOf(t) <=> InSnapshot(t, r)
    BY <2>4, <2>5, <2>6 DEF SnapshotOf, InSnapshot
  <2>9. QED
    BY <2>2, <2>3, <2>7, <2>8
<1>2. IInv => ValidateReturnsSnapshot
  BY <1>1 DEF ValidateReturnsSnapshot
<1>3. QED
  BY <1>2, Invariance, PTL

\* Two transactions that both get as far as committing have never deleted the same row: no update is
\* lost (delete.cpp, the compare and swap on the row's tid).
THEOREM UpdatesKept == Spec => []NoLostUpdate
<1>1. ASSUME IInv, NEW t \in Tx, NEW u \in Tx, t # u, {phase[t], phase[u]} \subseteq {"Committing", "Committed"},
             NEW r, r \in Deleted(t), r \in Deleted(u)
      PROVE  FALSE
  <2>1. PICK s \in DeleteSlots(t) : Row(t, s) = r
    BY <1>1, RowsOfSlots DEF DeletedBy
  <2>2. PICK q \in DeleteSlots(u) : Row(u, q) = r
    BY <1>1, RowsOfSlots DEF DeletedBy
  <2>3. ops[t] # <<>> /\ ops[u] # <<>>
    <3>1. ASSUME NEW v \in Tx, NEW p \in AllSlots(v) PROVE ops[v] # <<>>
      <4>1. p[1] \in DOMAIN ops[v] /\ ops[v] \in Seq(Operators)
        BY <1>1, SlotFacts DEF IInv, Ranges, ThreadRanges
      <4>2. \A x : x = <<>> => p[1] \notin DOMAIN x
        OBVIOUS
      <4>3. QED
        BY <4>1, <4>2
    <3>2. QED
      BY <3>1 DEF AllSlots
  <2>4. ticket[t] # 0 /\ ticket[u] # 0
    BY <1>1, <2>3 DEF IInv, Positions, Standing
  <2>5. QED
    BY <1>1, <2>1, <2>2, <2>4, OneDeleter
<1>2. IInv => NoLostUpdate
  BY <1>1 DEF NoLostUpdate
<1>3. QED
  BY <1>2, Invariance, PTL

\* A finished transaction has passed its slots.
LEMMA GonePassed ==
  ASSUME IInv, NEW t \in Tx, pc[t] = "gone", NEW s \in AllSlots(t)
  PROVE  Passed(t, s) /\ TidReset(t, s) /\ ops[t] # <<>>
<1>1. Ranges /\ Positions
  BY DEF IInv
<1>2. s[1] \in DOMAIN ops[t] /\ s[1] <= Len(ops[t]) /\ s[1] \in Nat /\ Len(ops[t]) \in Nat /\ op[t] \in Nat
  BY <1>1, SlotFacts DEF Ranges, ThreadRanges
<1>3. ops[t] # <<>>
  <2>1. \A x : x = <<>> => s[1] \notin DOMAIN x
    OBVIOUS
  <2>2. QED
    BY <1>2, <2>1
<1>4. op[t] > Len(ops[t])
  BY <1>1, <1>3 DEF Positions, Place
<1>5. s[1] < op[t]
  BY <1>2, <1>4
<1>6. QED
  BY <1>3, <1>5 DEF Passed, TidReset

\* As long as the rows reach Delete in table order, a row is locked only by a transaction that still
\* runs, or by the one that has committed its deletion: a rollback releases everything that its
\* transaction had locked, although it stops at the first row it does not hold (delete.cpp,
\* _on_rollback_records).
THEOREM RollbacksRelease ==
  ASSUME ~AnyOrder
  PROVE  Spec => []RollbackReleasesLocks
<1>1. ASSUME IInv, NEW r \in Rows, tid[r] # NoTid,
             phase[tid[r]] \notin {"Active", "Conflicted", "Committing"}
      PROVE  phase[tid[r]] = "Committed" /\ end[r] = ticket[tid[r]]
  <2> DEFINE t == tid[r]
  <2>1. Ranges /\ Positions /\ Locks /\ RollbackLocks /\ Versions
    BY <1>1 DEF IInv
  <2>2. t \in Tx /\ phase[t] \in Phases /\ pc[t] \in Pcs
    BY <1>1, <2>1 DEF Ranges, RowRanges, ThreadRanges
  <2> HIDE DEF t
  <2>3. pc[t] = "gone" /\ phase[t] \in {"Committed", "RolledBackByUser", "RolledBackAfterConflict"}
    <3>1. Standing(t) /\ phase[t] \notin {"Active", "Conflicted", "Committing"}
      BY <1>1, <2>1, <2>2 DEF Positions, t
    <3>2. QED
      BY <2>2, <3>1 DEF Standing, Pcs
  <2>4. \A s \in AllSlots(t) : Passed(t, s) /\ TidReset(t, s) /\ ops[t] # <<>>
    BY <1>1, <2>2, <2>3, GonePassed
  <2>5. tid[r] = t
    BY DEF t
  <2>6. CASE phase[t] = "Committed"
    <3>1. InsertedBy(t, r) \/ DeletedBy(t, r)
      BY <2>1, <2>2, <2>5 DEF Locks, HoldsLocks
    <3>2. ticket[t] # 0
      BY <2>1, <2>2, <2>4, <2>6, <3>1 DEF Positions, Standing, InsertedBy, DeletedBy, AllSlots
    <3>3. ~InsertedBy(t, r)
      BY <2>1, <2>2, <2>4, <2>5, <3>2 DEF Locks, HoldsLocks, InsertedBy, AllSlots
    <3>4. PICK s \in DeleteSlots(t) : Row(t, s) = r
      BY <3>1, <3>3 DEF DeletedBy
    <3>5. Ended(t, s)
      BY <2>4, <3>2, <3>4 DEF Ended, EndWritten, AllSlots
    <3>6. end[r] = ticket[t]
      BY <2>1, <2>2, <3>4, <3>5 DEF Versions
    <3>7. QED
      BY <2>6, <3>6 DEF t
  <2>7. CASE phase[t] # "Committed"
    <3>1. FindsLocks(t)
      BY <2>1, <2>2, <2>3, <2>7 DEF RollbackLocks, Rolls
    <3>2. ~InsertedBy(t, r)
      BY <2>4, <2>5, <3>1 DEF FindsLocks, InsertedBy, AllSlots
    <3>3. QED
      BY <2>4, <2>5, <3>1, <3>2 DEF FindsLocks, AllSlots
  <2>8. QED
    BY <2>6, <2>7
<1>2. IInv => RollbackReleasesLocks
  BY <1>1 DEF RollbackReleasesLocks
<1>3. QED
  BY <1>2, Invariance, PTL

\* Rows that a scan has found are allocated.
SeenAllocated == \A t \in Tx : seen[t] \subseteq 1..size

LEMMA SeenStep ==
  ASSUME IInv, SeenAllocated, [Next]_vars
  PROVE  SeenAllocated'
<1>1. Ranges /\ size \in Nat /\ size' \in Nat /\ size <= size'
  BY SizeFacts, SizeGrows DEF IInv
<1>2. 1..size \subseteq 1..size'
  BY <1>1
<1>3. seen \in [Tx -> SUBSET Rows] /\ \A u \in Tx : seen[u] \subseteq 1..size
  BY <1>1 DEF Ranges, ScanRanges, SeenAllocated
<1>4. ASSUME NEW t \in Tx, Step(t) PROVE seen'[t] \subseteq 1..size
  <2>1. CASE Validate(t)
    <3>1. CASE EnterChunk(t)
      <4>1. pc[t] = "chunk"
        BY <3>1 DEF EnterChunk, At
      <4>2. ChunkEnd(ChunkOf(pos[t])) <= size /\ pos[t] \in Rows /\ ChunkEnd(ChunkOf(pos[t])) \in Rows
        BY <4>1, ChunkEndFacts
      <4>3. pos[t]..ChunkEnd(ChunkOf(pos[t])) \subseteq 1..size
        BY <1>1, <4>2 DEF Rows
      <4>4. QED
        BY <1>3, <3>1, <4>3 DEF EnterChunk
    <3>2. CASE ReadEnd(t)
      <4>1. pos[t] \in Rows /\ pos[t] <= size
        BY <3>2, ScanFacts DEF ReadEnd, At, Scanning
      <4>2. QED
        BY <1>1, <1>3, <3>2, <4>1 DEF ReadEnd, Rows
    <3>3. CASE StartValidate(t) \/ ReturnRows(t)
      BY <1>3, <3>3 DEF StartValidate, ReturnRows
    <3>4. CASE ReadTid(t) \/ ReadBegin(t)
      BY <1>3, <3>4 DEF ReadTid, ReadBegin
    <3>5. QED
      BY <2>1, <3>1, <3>2, <3>3, <3>4 DEF Validate
  <2>2. CASE StartDelete(t)
    BY <1>3, <2>2 DEF StartDelete
  <2>3. CASE Begin(t) \/ DeleteRow(t) \/ Insert(t)
    BY <1>3, <2>3 DEF Begin, DeleteRow, Insert, scanVars
  <2>4. CASE Commit(t)
    <3>1. seen' = seen
      BY <2>4 DEF Commit, CommitReadOnly, StartCommit, CommitInsertBegin, CommitInsertTid, CommitDeleteEnd,
                  CommitDeleteInvalid, MakePending, Acknowledge, scanVars
    <3>2. QED
      BY <1>3, <3>1
  <2>5. CASE Rollback(t)
    <3>1. seen' = seen
      BY <2>5 DEF Rollback, RollbackByUser, RollbackInsertEnd, RollbackInsertBegin, RollbackInsertTid,
                  RollbackDeleteRow, MarkAsRolledBack, scanVars
    <3>2. QED
      BY <1>3, <3>1
  <2>6. QED
    BY <1>4, <2>1, <2>2, <2>3, <2>4, <2>5 DEF Step, Delete
<1>5. ASSUME NEW t \in Tx, Step(t), NEW u \in Tx, u # t PROVE seen'[u] \subseteq 1..size
  BY <1>1, <1>3, <1>5, OthersStay DEF SameThread
<1>6. CASE Advance \/ UNCHANGED vars
  BY <1>2, <1>3, <1>6 DEF Advance, vars, scanVars, SeenAllocated
<1>7. QED
  BY <1>2, <1>4, <1>5, <1>6 DEF Next, Step, Finished, SeenAllocated

\* The variables have their types, so that no invalid row count exceeds the size of a chunk; and
\* between commits and rollbacks the count of a chunk is the number of its rows with an end_cid
\* (Chunk::increase_invalid_row_count).
THEOREM RowsStayConsistent == Spec => []RowsConsistent
<1>1. ASSUME IInv, NEW c \in Chunks PROVE invalid[c] \in 0..ChunkSize
  <2>1. c \in Nat \ {0}
    <3>1. MaxRows \in Nat \ {0}
      BY SizeAssumption
    <3>2. ChunkOf(MaxRows) \in Nat
      BY <3>1, ChunkBounds
    <3>3. QED
      BY <3>2 DEF Chunks
  <2>2. /\ c * ChunkSize \in Nat /\ (c - 1) * ChunkSize \in Nat
        /\ c * ChunkSize = (c - 1) * ChunkSize + ChunkSize /\ ChunkSize \in Nat \ {0}
    BY <2>1, NextChunk, SizeAssumption
  <2> DEFINE a == (c - 1) * ChunkSize + 1
             b == c * ChunkSize
  <2>3. Counted(c) \subseteq a..b
    <3>1. ASSUME NEW r \in Counted(c) PROVE r \in a..b
      <4>1. r \in Nat \ {0} /\ ChunkOf(r) = c
        BY DEF Counted, Rows
      <4>2. (c - 1) * ChunkSize < r /\ r <= c * ChunkSize
        BY <4>1, ChunkBounds
      <4>3. QED
        BY <2>2, <4>1, <4>2
    <3>2. QED
      BY <3>1
  <2>4. a \in Int /\ b \in Int /\ ~(a > b) /\ b - a + 1 = ChunkSize
    BY <2>2
  <2> HIDE DEF a, b
  <2>5. IsFiniteSet(a..b) /\ Cardinality(a..b) = ChunkSize
    BY <2>4, FS_Interval
  <2>6. Cardinality(Counted(c)) <= ChunkSize
    BY <2>3, <2>5, FS_Subset
  <2>7. Cardinality(Counted(c)) \in Nat
    BY CountedFinite, FS_CardinalityType
  <2>8. QED
    BY <1>1, <2>2, <2>6, <2>7 DEF IInv, Counts
<1>2. IInv /\ SeenAllocated => TypeOK
  <2> SUFFICES ASSUME IInv, SeenAllocated PROVE TypeOK
    OBVIOUS
  <2>1. Ranges /\ size \in 0..MaxRows
    BY SizeFacts, SizeAssumption DEF IInv
  <2>2. invalid \in [Chunks -> 0..ChunkSize]
    BY <1>1, <2>1 DEF Ranges, RowRanges
  <2>3. QED
    BY <2>1, <2>2 DEF TypeOK, Ranges, RowRanges, ThreadRanges, SeenAllocated
<1>3. IInv => InvalidRowCountExact
  <2> SUFFICES ASSUME IInv, \A t \in Tx : At(t, "active") \/ At(t, "gone"), NEW c \in Chunks
               PROVE  invalid[c] = Cardinality({r \in Rows : ChunkOf(r) = c /\ end[r] # MAX_COMMIT_ID})
    BY DEF InvalidRowCountExact
  <2>1. Counted(c) = {r \in Rows : ChunkOf(r) = c /\ end[r] # MAX_COMMIT_ID}
    BY DEF Counted, At
  <2>2. QED
    BY <2>1 DEF IInv, Counts
<1>4. Init => SeenAllocated
  BY DEF Init, SeenAllocated
<1>5. IInv /\ SeenAllocated /\ [Next]_vars => SeenAllocated'
  BY SeenStep
<1>6. IInv /\ SeenAllocated => RowsConsistent
  BY <1>2, <1>3 DEF RowsConsistent
<1>7. QED
  BY <1>4, <1>5, <1>6, Invariance, PTL DEF Spec
================================================================================
