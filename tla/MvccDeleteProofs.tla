----------------------------- MODULE MvccDeleteProofs -----------------------------
(***************************************************************************)
(* The plugin keeps every snapshot intact, for any finite set of clients   *)
(* and any number and size of chunks.  The invariant relates the rows to   *)
(* the history of the table: a snapshot is what its commit id covers, and  *)
(* no step of a client, of the plugin or of the remover changes it.        *)
(***************************************************************************)
EXTENDS MvccDelete, PausableLoopThread, FiniteSetTheorems, TLAPS

\* Rows that t has inserted or locked and not yet committed or rolled back.
Held(t) == {r \in RowIds : rows[r].tid = t /\ rows[r].end = MAX_COMMIT_ID}

\* The rows that are valid as of commit id s.
Snap(s) == {r \in RowIds : rows[r].begin <= s /\ s < rows[r].end}

NewlyHeld(t) == {r \in Held(t) : rows[r].begin = MAX_COMMIT_ID}

Scanning  == {"exclude", "include", "validate", "validated"}
ClientPcs == Scanning \cup {"idle", "register", "active", "nullDereference", "written", "release", "gone"}
PluginPcs == {"idle", "scan", "register", "validate", "delete", "insert", "conflict", "commit",
              "cleanup", "push", "release"}

\* The positions in which the plugin knows which rows of its chunk are to be moved, and those
\* in which its chunk is not cleaned up yet.
Moving  == {"delete", "insert", "commit", "cleanup"}
Working == Moving \cup {"register", "validate", "conflict"}

RowRanges == rows \in Seq(RowType)

PcRanges == /\ pc \in [Threads -> ClientPcs \cup PluginPcs]
            /\ (\A t \in Tx : pc[t] \in ClientPcs) /\ pc[Plugin] \in PluginPcs

Ranges ==
  /\ content \in Seq(SUBSET Keys)
  /\ chunkCount \in Chunks /\ removed \subseteq Chunks /\ queue \in Seq(Chunks)
  /\ cleanup \in [Chunks -> Nat] /\ moved \in [Chunks -> Nat]
  /\ lastCommitId \in Nat \ {0} /\ commitId \in Nat
  /\ snapshot \in [Threads -> Nat] /\ active \subseteq Threads /\ prompt \subseteq Threads
  /\ chunk \in [Threads -> Nat \ {0}] /\ count \in [Threads -> Nat]
  /\ included \in [Threads -> SUBSET Chunks] /\ found \in [Threads -> SUBSET Nat]
  /\ remover \in {"idle", "remove"}

\* Nothing is younger than the last commit, or behind the last chunk.
Bounds ==
  /\ Len(content) = lastCommitId /\ commitId <= lastCommitId
  /\ \A r \in RowIds : /\ rows[r].chunk <= chunkCount
                       /\ rows[r].begin = MAX_COMMIT_ID \/ rows[r].begin <= lastCommitId
                       /\ rows[r].end = MAX_COMMIT_ID \/ rows[r].end <= lastCommitId
  /\ \A c \in Chunks : /\ cleanup[c] <= lastCommitId /\ moved[c] <= lastCommitId
                       /\ cleanup[c] # 0 => c <= chunkCount
  /\ \A t \in Threads : /\ snapshot[t] <= lastCommitId /\ count[t] <= chunkCount
                        /\ found[t] \subseteq RowIds
                        /\ pc[t] \notin {"idle", "scan"} => snapshot[t] # 0
  /\ \A t \in Tx : pc[t] \in {"exclude", "include"} => chunk[t] <= count[t]
  /\ pc[Plugin] = "scan" => chunk[Plugin] <= count[Plugin]
  /\ pc[Plugin] \notin {"idle", "scan"} => chunk[Plugin] < count[Plugin]

\* A commit id is used up by a client that has ended, or for a chunk that is cleaned up.
Ended   == {t \in Tx : pc[t] \in {"release", "gone"}}
Cleaned == {c \in Chunks : cleanup[c] # 0}

CommitIds ==
  lastCommitId <= 1 + Cardinality(Ended) + Cardinality(Cleaned) + (IF pc[Plugin] = "cleanup" THEN 1 ELSE 0)

RowStates ==
  \A r \in RowIds :
    /\ rows[r].begin = MAX_COMMIT_ID => rows[r].end = MAX_COMMIT_ID /\ rows[r].tid # NoTid
    /\ rows[r].tid = NoTid => rows[r].end = MAX_COMMIT_ID \/ rows[r].end <= 1

\* When a thread may hold rows.
Locks ==
  /\ \A r \in RowIds : \A t \in Tx : rows[r].tid = t =>
       /\ pc[t] \in {"written", "release", "gone"}
       /\ rows[r].end = MAX_COMMIT_ID => pc[t] = "written"
       /\ rows[r].begin = MAX_COMMIT_ID => rows[r].key = t
  /\ \A r \in RowIds : rows[r].tid = Plugin =>
       /\ rows[r].end = MAX_COMMIT_ID => pc[Plugin] \in {"insert", "conflict", "commit"}
       /\ rows[r].begin = MAX_COMMIT_ID => pc[Plugin] = "commit"
       /\ pc[Plugin] \in {"register", "validate"} => rows[r].end <= snapshot[Plugin]

\* A client inserts one row, and nobody has its key before the client has committed.
Fresh ==
  \A t \in Tx :
    /\ pc[t] \notin {"written", "release", "gone"} => \A r \in RowIds : rows[r].key # t
    /\ pc[t] = "written" => \A r \in RowIds : rows[r].key = t =>
         rows[r].begin = MAX_COMMIT_ID /\ \A q \in RowIds : rows[q].key = t => q = r

\* The rows of a snapshot are the table as of its commit id, each once.
Contents ==
  \A s \in 1..lastCommitId :
    /\ KeysOf(Snap(s)) = content[s]
    /\ \A r, q \in Snap(s) : rows[r].key = rows[q].key => r = q

\* The chunk that the plugin works on is not cleaned up yet.
Unclean == pc[Plugin] \in Working => cleanup[chunk[Plugin]] = 0

\* The course of a logical delete.
Course ==
  /\ pc[Plugin] \in Moving =>
       /\ found[Plugin] \subseteq Snap(snapshot[Plugin])
       /\ \A r \in RowsIn(chunk[Plugin]) : rows[r].begin <= snapshot[Plugin] =>
            r \in found[Plugin] \/ rows[r].end <= snapshot[Plugin]
  /\ pc[Plugin] = "insert" => Held(Plugin) = found[Plugin]
  /\ pc[Plugin] = "commit" =>
       /\ Held(Plugin) = found[Plugin] \cup NewlyHeld(Plugin)
       /\ KeysOf(NewlyHeld(Plugin)) = KeysOf(found[Plugin])
       /\ \A r, q \in NewlyHeld(Plugin) : rows[r].key = rows[q].key => r = q
  /\ pc[Plugin] = "cleanup" =>
       commitId > snapshot[Plugin] /\ \A r \in found[Plugin] : rows[r].end <= commitId
  /\ pc[Plugin] = "push" => cleanup[chunk[Plugin]] # 0 /\ chunk[Plugin] \notin removed \cup ToSet(queue)

\* What is left in a chunk that has been cleaned up.
Leftovers ==
  \A c \in Chunks : cleanup[c] # 0 =>
    \A r \in RowsIn(c) : rows[r].begin <= moved[c] => rows[r].end <= cleanup[c]

\* The remover passes over chunks that a promptly registered transaction still needs.
Queues ==
  /\ removed \cap ToSet(queue) = {}
  /\ \A c \in removed \cup ToSet(queue) : cleanup[c] # 0
  /\ \A i, j \in 1..Len(queue) : queue[i] = queue[j] => i = j
  /\ remover = "remove" => queue # <<>>
  /\ \A t \in Tx : t \in active <=> pc[t] \notin {"idle", "register", "gone"}
  /\ \A t \in Tx \cap prompt : pc[t] \notin {"idle", "register"}
  /\ \A t \in prompt \cap active : t \in Tx =>
       /\ \A c \in removed : cleanup[c] <= snapshot[t]
       /\ remover = "remove" => cleanup[Head(queue)] <= snapshot[t]

\* Why a scan of t may do without chunk c.
Dispensable(t, c) ==
  c \in included[t] \/ c \in removed \/ (cleanup[c] # 0 /\ cleanup[c] <= snapshot[t])

Scans ==
  \A t \in Tx :
    /\ pc[t] \in Scanning => \A r \in Snap(snapshot[t]) : rows[r].chunk <= count[t]
    /\ pc[t] = "exclude" => \A c \in 1..chunk[t] - 1 : Dispensable(t, c)
    /\ pc[t] \in Scanning \ {"exclude"} => \A c \in 1..count[t] : Dispensable(t, c)
    /\ pc[t] = "validated" => found[t] = {r \in Snap(snapshot[t]) : rows[r].chunk \in included[t]}

IInv == /\ PcRanges /\ Ranges /\ RowRanges /\ Bounds /\ Unclean /\ CommitIds /\ RowStates /\ Locks
        /\ Fresh /\ Contents /\ Course /\ Leftovers /\ Queues /\ Scans

----------------------------------------------------------------------------
(* Facts about the operators of the model.                                 *)

\* An earlier new row is in the same chunk or in an earlier one.
LEMMA DivMonotone ==
  ASSUME NEW n \in Nat \ {0}, NEW a \in Nat, NEW b \in Nat, a <= b
  PROVE  a \div n \in Nat /\ b \div n \in Nat /\ a \div n <= b \div n
<1>1. a \div n \in Nat /\ b \div n \in Nat
  OBVIOUS
<1>2. /\ n * (a \div n) <= a
      /\ b < n * (b \div n) + n
  OBVIOUS
<1>3. ASSUME b \div n < a \div n PROVE FALSE
  <2> DEFINE x == a \div n
             y == b \div n
  <2>1. n * x <= a /\ b < n * y + n /\ y + 1 <= x /\ x \in Nat /\ y \in Nat
    BY <1>1, <1>2, <1>3
  <2> HIDE DEF x, y
  <2>2. n * (y + 1) <= n * x
    BY <2>1
  <2> QED
    BY <2>1, <2>2
<1> QED
  BY <1>1, <1>3

\* The parameters of the table.
LEMMA SizeFacts == ChunkSize \in Nat \ {0} /\ MaxChunks \in Nat \ {0} /\ Dead \in Nat /\ Live \in Nat
  BY SizeAssumption

\* The commit id that stands for no commit.
LEMMA MaxFacts == MAX_COMMIT_ID \in Nat /\ MAX_COMMIT_ID = Cardinality(Tx) + MaxChunks + 2 /\ Cardinality(Tx) \in Nat
  BY SizeAssumption, TxAssumption, FS_CardinalityType DEF MAX_COMMIT_ID

\* Every row is a record of its type.
LEMMA RowFacts ==
  ASSUME RowRanges
  PROVE  /\ Len(rows) \in Nat /\ RowIds = 1..Len(rows)
         /\ \A r \in RowIds :
              /\ r \in Nat /\ rows[r] \in RowType
              /\ rows[r].chunk \in Chunks /\ rows[r].key \in Keys /\ rows[r].tid \in Threads \cup {NoTid}
              /\ rows[r].begin \in 0..MAX_COMMIT_ID /\ rows[r].end \in 0..MAX_COMMIT_ID
              /\ rows[r].begin \in Nat /\ rows[r].end \in Nat
<1>1. Len(rows) \in Nat /\ RowIds = 1..Len(rows)
  BY DEF RowRanges, RowIds
<1>2. ASSUME NEW r \in RowIds PROVE r \in Nat /\ rows[r] \in RowType
  BY <1>1, <1>2 DEF RowRanges
<1>3. ASSUME NEW row \in RowType
      PROVE  /\ row.chunk \in Chunks /\ row.key \in Keys /\ row.tid \in Threads \cup {NoTid}
             /\ row.begin \in 0..MAX_COMMIT_ID /\ row.end \in 0..MAX_COMMIT_ID
  BY <1>3 DEF RowType
<1> QED
  BY <1>1, <1>2, <1>3, MaxFacts

\* New rows go to the last chunk or behind it, the later the further.
LEMMA ChunkOfNewFacts ==
  ASSUME Ranges, RowRanges
  PROVE  /\ \A i \in Nat \ {0} : ChunkOfNew(i) \in Nat /\ ChunkOfNew(i) >= chunkCount
         /\ \A i, j \in Nat \ {0} : i <= j => ChunkOfNew(i) <= ChunkOfNew(j)
<1>1. Space \in Int
  <2>1. IsFiniteSet(RowsIn(chunkCount))
    <3>1. IsFiniteSet(RowIds)
      <4>1. RowIds = 1..Len(rows) /\ Len(rows) \in Int
        BY RowFacts
      <4> QED
        BY <4>1, FS_Interval
    <3> QED
      BY <3>1, FS_Subset DEF RowsIn
  <2> QED
    BY <2>1, FS_CardinalityType, SizeFacts DEF Space
<1>2. chunkCount \in Nat
  BY SizeFacts DEF Ranges, Chunks
<1>3. ASSUME NEW i \in Nat \ {0}, NEW j \in Nat \ {0}, i <= j
      PROVE  ChunkOfNew(i) \in Nat /\ ChunkOfNew(i) >= chunkCount /\ ChunkOfNew(i) <= ChunkOfNew(j)
  <2> DEFINE sp == Space
  <2>1. sp \in Int
    BY <1>1
  <2> HIDE DEF sp
  <2>2. CASE j <= sp
    BY <1>2, <1>3, <2>1, <2>2 DEF ChunkOfNew, sp
  <2>3. CASE i <= sp /\ j > sp
    <3>1. j - sp - 1 \in Nat
      BY <2>1, <2>3, <1>3
    <3>2. (j - sp - 1) \div ChunkSize \in Nat
      BY <3>1, DivMonotone, SizeFacts
    <3> QED
      BY <1>2, <2>3, <3>2, <2>1 DEF ChunkOfNew, sp
  <2>4. CASE i > sp
    <3>1. i - sp - 1 \in Nat /\ j - sp - 1 \in Nat /\ i - sp - 1 <= j - sp - 1 /\ j > sp
      BY <2>1, <2>4, <1>3
    <3>2. /\ (i - sp - 1) \div ChunkSize \in Nat /\ (j - sp - 1) \div ChunkSize \in Nat
          /\ (i - sp - 1) \div ChunkSize <= (j - sp - 1) \div ChunkSize
      BY <3>1, DivMonotone, SizeFacts
    <3> QED
      BY <1>2, <2>4, <3>1, <3>2, <2>1 DEF ChunkOfNew, sp
  <2> QED
    BY <1>3, <2>1, <2>2, <2>3, <2>4
<1> QED
  BY <1>3

\* The order in which an Update inserts the rows that it has deleted has each of them once.
LEMMA TableOrder ==
  ASSUME NEW S, S \subseteq Nat, IsFiniteSet(S)
  PROVE  /\ Cardinality(S) \in Nat
         /\ InTableOrder(S) \in [1..Cardinality(S) -> S]
         /\ \A r \in S : \E i \in 1..Cardinality(S) : InTableOrder(S)[i] = r
         /\ \A i, j \in 1..Cardinality(S) : InTableOrder(S)[i] = InTableOrder(S)[j] => i = j
<1> DEFINE n == Cardinality(S)
           Upto(r) == {q \in S : q <= r}
           rank == [r \in S |-> Cardinality(Upto(r))]
<1>1. n \in Nat
  BY FS_CardinalityType
<1>2. \A r \in S : IsFiniteSet(Upto(r)) /\ Cardinality(Upto(r)) \in 1..n
  <2> TAKE r \in S
  <2>1. IsFiniteSet(Upto(r)) /\ Cardinality(Upto(r)) <= n
    BY FS_Subset
  <2>2. Cardinality(Upto(r)) \in Nat /\ Cardinality(Upto(r)) # 0
    <3>1. r \in Upto(r)
      OBVIOUS
    <3> QED
      BY <2>1, <3>1, FS_CardinalityType, FS_EmptySet
  <2> QED
    BY <1>1, <2>1, <2>2
<1>3. ASSUME NEW r \in S, NEW q \in S, rank[r] = rank[q], r < q PROVE FALSE
  <2>1. Upto(r) \subseteq Upto(q) /\ q \in Upto(q) /\ q \notin Upto(r)
    <3>1. \A p \in S : p \in Nat
      OBVIOUS
    <3>2. r \in Nat /\ q \in Nat /\ r < q /\ q \in S
      BY <1>3, <3>1
    <3>3. \A p \in S : p <= r => p <= q
      BY <3>1, <3>2
    <3>4. q <= q /\ ~(q <= r)
      BY <3>2
    <3> QED
      BY <3>2, <3>3, <3>4
  <2>2. IsFiniteSet(Upto(q)) /\ Cardinality(Upto(r)) = Cardinality(Upto(q))
    BY <1>2, <1>3
  <2>3. Upto(r) = Upto(q)
    BY <2>1, <2>2, FS_Subset
  <2> QED
    BY <2>1, <2>3
<1>4. \A r, q \in S : rank[r] = rank[q] => r = q
  BY <1>3
<1>5. rank \in Injection(S, 1..n)
  BY <1>2, <1>4 DEF Injection, IsInjective
<1>6. rank \in Surjection(S, 1..n)
  BY <1>1, <1>5, FS_Injection, FS_Interval
<1>7. \A i \in 1..n : \E r \in S : Cardinality(Upto(r)) = i
  BY <1>6 DEF Surjection
<1>8. \A i \in 1..n : InTableOrder(S)[i] \in S /\ rank[InTableOrder(S)[i]] = i
  BY <1>7 DEF InTableOrder
<1>9. \A r \in S : rank[r] \in 1..n /\ InTableOrder(S)[rank[r]] = r
  BY <1>2, <1>4, <1>8
<1>10. InTableOrder(S) \in [1..n -> S]
  BY <1>7 DEF InTableOrder
<1> HIDE DEF rank
<1> QED
  BY <1>1, <1>8, <1>9, <1>10

----------------------------------------------------------------------------
(* What the steps do to the rows.                                          *)

\* Insert puts its rows behind those of the table, into the last chunk or later ones.
LEMMA InsertEffect ==
  ASSUME Ranges, RowRanges, NEW t \in Threads, NEW keys \in Seq(Keys), InsertRows(t, keys)
  PROVE  /\ rows' \in Seq(RowType) /\ Len(rows') = Len(rows) + Len(keys)
         /\ \A r \in RowIds : rows'[r] = rows[r]
         /\ \A i \in 1..Len(keys) :
              /\ rows'[Len(rows) + i] = NewRow(ChunkOfNew(i), keys[i], t)
              /\ chunkCount <= ChunkOfNew(i) /\ ChunkOfNew(i) <= chunkCount'
         /\ chunkCount' \in Chunks /\ chunkCount <= chunkCount'
<1> DEFINE new == [i \in 1..Len(keys) |-> NewRow(ChunkOfNew(i), keys[i], t)]
           n == Len(keys)
<1>1. n \in Nat /\ Len(rows) \in Nat /\ RowIds = 1..Len(rows) /\ \A i \in 1..n : keys[i] \in Keys
  BY RowFacts
<1>2. chunkCount \in Nat /\ chunkCount >= 1 /\ MaxChunks \in Nat /\ chunkCount \in Chunks
  BY SizeFacts DEF Ranges, Chunks
<1>3. keys = <<>> <=> n = 0
  OBVIOUS
<1>4. CASE n = 0
  <2>1. rows' = rows \o new /\ chunkCount' = chunkCount
    BY <1>3, <1>4 DEF InsertRows
  <2>2. new = <<>>
    BY <1>4
  <2>3. rows' = rows
    BY <2>1, <2>2 DEF RowRanges
  <2> QED
    BY <1>1, <1>2, <1>4, <2>1, <2>3 DEF RowRanges
<1>5. CASE n # 0
  <2>1. rows' = rows \o new /\ ChunkOfNew(n) <= MaxChunks /\ chunkCount' = ChunkOfNew(n)
    BY <1>3, <1>5 DEF InsertRows
  <2>2. \A i \in 1..n : ChunkOfNew(i) \in Nat /\ chunkCount <= ChunkOfNew(i) /\ ChunkOfNew(i) <= ChunkOfNew(n)
    BY <1>1, <1>2, <1>5, ChunkOfNewFacts
  <2>3. \A i \in 1..n : ChunkOfNew(i) \in Chunks
    BY <1>1, <1>2, <2>1, <2>2 DEF Chunks
  <2>4. \A i \in 1..n : new[i] \in RowType
    <3> TAKE i \in 1..n
    <3>1. new[i] = NewRow(ChunkOfNew(i), keys[i], t)
      OBVIOUS
    <3>2. ChunkOfNew(i) \in Chunks /\ keys[i] \in Keys /\ t \in Threads \cup {NoTid} /\ MAX_COMMIT_ID \in 0..MAX_COMMIT_ID
      BY <1>1, <2>3, MaxFacts
    <3> HIDE DEF new
    <3> QED
      BY <3>1, <3>2 DEF NewRow, RowType
  <2>5. new \in Seq(RowType) /\ Len(new) = n
    <3>1. new \in [1..n -> RowType]
      BY <2>4
    <3>2. DOMAIN new = 1..n
      OBVIOUS
    <3> HIDE DEF new
    <3> QED
      BY <1>1, <3>1, <3>2
  <2>6. \A i \in 1..n : new[i] = NewRow(ChunkOfNew(i), keys[i], t)
    OBVIOUS
  <2> HIDE DEF new
  <2>7. rows' \in Seq(RowType) /\ Len(rows') = Len(rows) + n
    <3>1. rows \in Seq(RowType) /\ new \in Seq(RowType)
      BY <2>5 DEF RowRanges
    <3>2. rows \o new \in Seq(RowType) /\ Len(rows \o new) = Len(rows) + Len(new)
      BY <3>1
    <3> QED
      BY <2>1, <2>5, <3>2
  <2>8. \A r \in RowIds : rows'[r] = rows[r]
    BY <1>1, <2>1, <2>5 DEF RowRanges
  <2>9. \A i \in 1..n : rows'[Len(rows) + i] = new[i]
    BY <1>1, <2>1, <2>5 DEF RowRanges
  <2>10. chunkCount' \in Chunks /\ chunkCount <= chunkCount'
    BY <1>1, <1>5, <2>1, <2>2, <2>3
  <2> QED
    BY <2>1, <2>2, <2>6, <2>7, <2>8, <2>9, <2>10
<1> QED
  BY <1>4, <1>5

\* The rows are the same, but for what a step has done to some of them.
LEMMA SameRows ==
  ASSUME RowRanges, NEW F \in [RowIds -> RowType], rows' = F
  PROVE  rows' \in Seq(RowType) /\ Len(rows') = Len(rows)
<1>1. Len(rows) \in Nat /\ RowIds = 1..Len(rows)
  BY RowFacts
<1> QED
  BY <1>1

\* commit() gives the rows that t holds its commit id.
LEMMA CommitEffect ==
  ASSUME RowRanges, Ranges, lastCommitId < MAX_COMMIT_ID, NEW t \in Threads, CommitRows(t)
  PROVE  /\ rows' \in Seq(RowType) /\ Len(rows') = Len(rows) /\ lastCommitId' = lastCommitId + 1
         /\ \A r \in RowIds : rows'[r].chunk = rows[r].chunk /\ rows'[r].key = rows[r].key
         /\ \A r \in RowIds : r \notin Held(t) => rows'[r] = rows[r]
         /\ \A r \in NewlyHeld(t) : /\ rows'[r].begin = lastCommitId + 1 /\ rows'[r].end = MAX_COMMIT_ID
                                    /\ rows'[r].tid = NoTid
         /\ \A r \in Held(t) \ NewlyHeld(t) : /\ rows'[r].begin = rows[r].begin
                                              /\ rows'[r].end = lastCommitId + 1
                                              /\ rows'[r].tid = t
<1> DEFINE cid == lastCommitId + 1
           R(r) == CommitRow(rows[r], t, cid)
<1>1. cid \in 0..MAX_COMMIT_ID /\ rows' = [r \in RowIds |-> R(r)] /\ lastCommitId' = cid
  BY MaxFacts DEF CommitRows, Ranges
<1>2. ASSUME NEW r \in RowIds
      PROVE  /\ R(r) \in RowType /\ R(r).chunk = rows[r].chunk /\ R(r).key = rows[r].key
             /\ r \notin Held(t) => R(r) = rows[r]
             /\ r \in NewlyHeld(t) => R(r).begin = cid /\ R(r).end = MAX_COMMIT_ID /\ R(r).tid = NoTid
             /\ r \in Held(t) \ NewlyHeld(t) => R(r).begin = rows[r].begin /\ R(r).end = cid /\ R(r).tid = t
  <2>1. rows[r] \in RowType
    BY RowFacts
  <2> HIDE DEF cid
  <2> QED
    BY <1>1, <2>1 DEF CommitRow, RowType, Held, NewlyHeld
<1> HIDE DEF R, cid
<1>3. [r \in RowIds |-> R(r)] \in [RowIds -> RowType]
  BY <1>1, <1>2
<1>4. rows' \in Seq(RowType) /\ Len(rows') = Len(rows) /\ \A r \in RowIds : rows'[r] = R(r)
  BY <1>1, <1>2, <1>3, SameRows
<1> QED
  BY <1>1, <1>2, <1>4 DEF cid, Held, NewlyHeld

\* A rollback gives them up: inserted rows are never valid.
LEMMA RollbackEffect ==
  ASSUME RowRanges, NEW t \in Threads, RollbackRows(t)
  PROVE  /\ rows' \in Seq(RowType) /\ Len(rows') = Len(rows)
         /\ \A r \in RowIds : rows'[r].chunk = rows[r].chunk /\ rows'[r].key = rows[r].key
         /\ \A r \in RowIds : r \notin Held(t) => rows'[r] = rows[r]
         /\ \A r \in Held(t) : rows'[r].tid = NoTid
         /\ \A r \in NewlyHeld(t) : rows'[r].begin = 0 /\ rows'[r].end = 0
         /\ \A r \in Held(t) \ NewlyHeld(t) : rows'[r].begin = rows[r].begin /\ rows'[r].end = MAX_COMMIT_ID
<1> DEFINE R(r) == RollbackRow(rows[r], t)
<1>1. rows' = [r \in RowIds |-> R(r)]
  BY DEF RollbackRows
<1>2. ASSUME NEW r \in RowIds
      PROVE  /\ R(r) \in RowType /\ R(r).chunk = rows[r].chunk /\ R(r).key = rows[r].key
             /\ r \notin Held(t) => R(r) = rows[r]
             /\ r \in Held(t) => R(r).tid = NoTid
             /\ r \in NewlyHeld(t) => R(r).begin = 0 /\ R(r).end = 0
             /\ r \in Held(t) \ NewlyHeld(t) => R(r).begin = rows[r].begin /\ R(r).end = MAX_COMMIT_ID
  <2>1. rows[r] \in RowType /\ 0 \in 0..MAX_COMMIT_ID
    BY RowFacts, MaxFacts
  <2> QED
    BY <2>1 DEF RollbackRow, RowType, Held, NewlyHeld
<1> HIDE DEF R
<1>3. [r \in RowIds |-> R(r)] \in [RowIds -> RowType]
  BY <1>1, <1>2
<1>4. rows' \in Seq(RowType) /\ Len(rows') = Len(rows) /\ \A r \in RowIds : rows'[r] = R(r)
  BY <1>1, <1>2, <1>3, SameRows
<1> QED
  BY <1>2, <1>4 DEF Held, NewlyHeld

\* Delete locks rows for t.
LEMMA LockEffect ==
  ASSUME RowRanges, NEW t \in Threads, NEW S \in SUBSET RowIds,
         rows' = [r \in RowIds |-> IF r \in S THEN [rows[r] EXCEPT !.tid = t] ELSE rows[r]]
  PROVE  /\ rows' \in Seq(RowType) /\ Len(rows') = Len(rows)
         /\ \A r \in RowIds : /\ rows'[r].chunk = rows[r].chunk /\ rows'[r].key = rows[r].key
                              /\ rows'[r].begin = rows[r].begin /\ rows'[r].end = rows[r].end
         /\ \A r \in RowIds : r \notin S => rows'[r] = rows[r]
         /\ \A r \in S : rows'[r].tid = t
<1> DEFINE R(r) == IF r \in S THEN [rows[r] EXCEPT !.tid = t] ELSE rows[r]
<1>1. ASSUME NEW r \in RowIds
      PROVE  /\ R(r) \in RowType /\ R(r).chunk = rows[r].chunk /\ R(r).key = rows[r].key
             /\ R(r).begin = rows[r].begin /\ R(r).end = rows[r].end
             /\ r \notin S => R(r) = rows[r]
             /\ r \in S => R(r).tid = t
  <2>1. rows[r] \in RowType
    BY RowFacts
  <2> QED
    BY <2>1 DEF RowType
<1>2. rows' = [r \in RowIds |-> R(r)]
  OBVIOUS
<1> HIDE DEF R
<1>3. [r \in RowIds |-> R(r)] \in [RowIds -> RowType]
  BY <1>1, <1>2
<1>4. rows' \in Seq(RowType) /\ Len(rows') = Len(rows) /\ \A r \in RowIds : rows'[r] = R(r)
  BY <1>1, <1>2, <1>3, SameRows
<1> QED
  BY ZenonT(60), <1>1, <1>4

----------------------------------------------------------------------------
(* Types.                                                                  *)

\* What rows hold is of the type of a row's content.
LEMMA KeyTypes ==
  ASSUME RowRanges, NEW S \in SUBSET RowIds
  PROVE  KeysOf(S) \subseteq Keys
  BY RowFacts DEF KeysOf

\* A commit writes the history of the table.
LEMMA CommitTypes ==
  ASSUME Ranges, RowRanges, Len(content) = lastCommitId, NEW t \in Threads, CommitRows(t)
  PROVE  content' \in Seq(SUBSET Keys) /\ lastCommitId' \in Nat \ {0} /\ UNCHANGED <<prompt, moved>>
<1> DEFINE mine == {r \in RowIds : rows[r].tid = t /\ rows[r].end = MAX_COMMIT_ID}
           inserted == {r \in mine : rows[r].begin = MAX_COMMIT_ID}
           new == (content[lastCommitId] \ KeysOf(mine \ inserted)) \cup KeysOf(inserted)
<1>1. content' = Append(content, new) /\ lastCommitId' = lastCommitId + 1 /\ UNCHANGED <<prompt, moved>>
  BY DEF CommitRows
<1>2. new \in SUBSET Keys
  <2>1. KeysOf(inserted) \subseteq Keys
    BY KeyTypes
  <2>2. content[lastCommitId] \subseteq Keys
    BY DEF Ranges
  <2> QED
    BY <2>1, <2>2
<1> HIDE DEF new
<1> QED
  BY <1>1, <1>2 DEF Ranges

\* The plugin inserts the keys of the rows that it has deleted, one row for each.
LEMMA ReinsertedKeys ==
  ASSUME RowRanges, found[Plugin] \subseteq RowIds, ReinsertFound
  PROVE  \E keys \in Seq(Keys) :
           /\ InsertRows(Plugin, keys) /\ Len(keys) = Cardinality(found[Plugin])
           /\ \A i \in 1..Len(keys) : \E r \in found[Plugin] : keys[i] = rows[r].key
           /\ \A r \in found[Plugin] : \E i \in 1..Len(keys) : keys[i] = rows[r].key
           /\ (\A r, q \in found[Plugin] : rows[r].key = rows[q].key => r = q) =>
                \A i, j \in 1..Len(keys) : keys[i] = keys[j] => i = j
<1> DEFINE F == found[Plugin]
           order == InTableOrder(F)
           keys == [i \in DOMAIN order |-> rows[order[i]].key]
           n == Cardinality(F)
<1>1. F \subseteq Nat /\ IsFiniteSet(F) /\ F \subseteq RowIds
  <2>1. IsFiniteSet(RowIds) /\ RowIds \subseteq Nat
    BY RowFacts, FS_Interval
  <2> QED
    BY <2>1, FS_Subset
<1>2. InsertRows(Plugin, keys)
  BY DEF ReinsertFound
<1> HIDE DEF F
<1>3. /\ n \in Nat /\ order \in [1..n -> F]
      /\ \A r \in F : \E i \in 1..n : order[i] = r
      /\ \A i, j \in 1..n : order[i] = order[j] => i = j
  BY <1>1, TableOrder
<1> HIDE DEF order, n
<1>4. keys \in [1..n -> Keys] /\ \A i \in 1..n : order[i] \in F /\ keys[i] = rows[order[i]].key
  BY <1>1, <1>3, RowFacts
<1> HIDE DEF keys
<1>5. keys \in Seq(Keys) /\ Len(keys) = n
  BY <1>3, <1>4
<1>6. \A i \in 1..n : \E r \in F : keys[i] = rows[r].key
  BY <1>4
<1>7. \A r \in F : \E i \in 1..n : keys[i] = rows[r].key
  BY <1>3, <1>4
<1>8. ASSUME \A r, q \in F : rows[r].key = rows[q].key => r = q, NEW i \in 1..n, NEW j \in 1..n, keys[i] = keys[j]
      PROVE  i = j
  BY <1>3, <1>4, <1>8
<1>9. Len(keys) = Cardinality(F)
  BY <1>5 DEF n
<1> QED
  BY <1>2, <1>5, <1>6, <1>7, <1>8, <1>9 DEF F

\* A thread goes from one of its positions to another.
LEMMA PcStep == ASSUME PcRanges, [Next]_vars PROVE PcRanges'
<1> USE TxAssumption DEF PcRanges, Threads
<1>1. ASSUME NEW t \in Tx, NEW from, NEW to \in ClientPcs, Goto(t, from, to) PROVE PcRanges'
  BY <1>1 DEF Goto
<1>2. ASSUME NEW from, NEW to \in PluginPcs, Goto(Plugin, from, to) PROVE PcRanges'
  BY <1>2 DEF Goto
<1>3. CASE UNCHANGED pc
  BY <1>3
<1> HIDE DEF PcRanges, Threads
<1>4. CASE UNCHANGED vars
  BY <1>3, <1>4 DEF vars
<1>5. ASSUME NEW t \in Tx, Client(t) PROVE PcRanges'
  <2> USE DEF ClientPcs, Scanning
  <2>1. CASE Begin(t) \/ RegisterTx(t) \/ Insert(t) \/ StartGetTable(t)
    BY <1>1, <2>1 DEF Begin, ReadSnapshot, RegisterTx, Register, Insert, StartGetTable
  <2>2. CASE ExcludeChunk(t) \/ IncludeChunk(t) \/ Validate(t)
    BY <1>1, <2>2 DEF ExcludeChunk, IncludeChunk, Validate
  <2>3. CASE Delete(t) \/ FinishRead(t) \/ Commit(t) \/ Rollback(t) \/ EndTx(t)
    BY <1>1, <2>3 DEF Delete, FinishRead, Commit, Rollback, EndTx, Deregister
  <2> QED
    BY <1>5, <2>1, <2>2, <2>3 DEF Client
<1>6. CASE LogicalDelete
  <2> USE DEF PluginPcs
  <2>1. CASE StartLogicalLoop \/ NextChunk \/ BeginLogicalDelete \/ RegisterPlugin
    BY <1>2, <2>1 DEF StartLogicalLoop, NextChunk, BeginLogicalDelete, ReadSnapshot, RegisterPlugin, Register
  <2>2. CASE ValidateChunk \/ DeleteFound \/ ReinsertFound \/ RollbackLogicalDelete
    BY <1>2, <2>2 DEF ValidateChunk, DeleteFound, ReinsertFound, RollbackLogicalDelete
  <2>3. CASE CommitLogicalDelete \/ SetCleanupCommitId \/ PushChunk \/ EndLogicalDelete
    BY <1>2, <2>3 DEF CommitLogicalDelete, SetCleanupCommitId, PushChunk, EndLogicalDelete
  <2> QED
    BY <1>6, <2>1, <2>2, <2>3 DEF LogicalDelete
<1>7. CASE PhysicalDelete
  BY <1>3, <1>7 DEF PhysicalDelete, CheckOldReaders, RemoveChunk
<1> QED
  BY <1>4, <1>5, <1>6, <1>7 DEF Next

\* No step takes a variable out of its type.
LEMMA RangesStep == ASSUME Ranges, RowRanges, Bounds, Queues, [Next]_vars PROVE Ranges'
<1>0. /\ Plugin \in Threads /\ \A t \in Tx : t \in Threads
      /\ chunkCount \in Nat /\ Chunks \subseteq Nat /\ \A n \in Nat \ {0} : n <= chunkCount => n \in Chunks
  BY SizeFacts DEF Ranges, Threads, Chunks
<1> USE <1>0 DEF Ranges, tableVars, readVars, pluginVars, historyVars
<1>1. CASE UNCHANGED vars
  BY <1>1 DEF vars
<1>2. ASSUME NEW t \in Tx, Begin(t) PROVE Ranges'
  BY <1>2 DEF Begin, ReadSnapshot
<1>3. ASSUME NEW t \in Tx, RegisterTx(t) PROVE Ranges'
  BY <1>3 DEF RegisterTx, Register
<1>4. ASSUME NEW t \in Tx, Insert(t) PROVE Ranges'
  <2>1. chunkCount' \in Chunks
    <3>1. <<t>> \in Seq(Keys)
      BY DEF Keys
    <3> QED
      BY <1>4, <3>1, InsertEffect DEF Insert
  <2> QED
    BY <1>4, <2>1 DEF Insert
<1>5. ASSUME NEW t \in Tx, StartGetTable(t) PROVE Ranges'
  BY SMTT(60), <1>5 DEF StartGetTable
<1>6. ASSUME NEW t \in Tx, ExcludeChunk(t) PROVE Ranges'
  <2>1. chunk[t] \in Chunks /\ chunk[t] + 1 \in Nat \ {0}
    <3>1. pc[t] = "exclude"
      BY <1>6 DEF ExcludeChunk, Goto
    <3>2. chunk[t] <= count[t] /\ count[t] <= chunkCount /\ chunk[t] \in Nat \ {0} /\ count[t] \in Nat
      BY <3>1 DEF Bounds
    <3> QED
      BY <3>2
  <2>2. chunk' \in [Threads -> Nat \ {0}]
    <3>1. chunk' = [chunk EXCEPT ![t] = chunk[t] + 1] \/ chunk' = [chunk EXCEPT ![t] = 1]
      BY <1>6 DEF ExcludeChunk
    <3>2. 1 \in Nat \ {0} /\ chunk \in [Threads -> Nat \ {0}]
      OBVIOUS
    <3>3. CASE chunk' = [chunk EXCEPT ![t] = chunk[t] + 1]
      BY <2>1, <3>2, <3>3
    <3>4. CASE chunk' = [chunk EXCEPT ![t] = 1]
      BY <3>2, <3>4
    <3> QED
      BY <3>1, <3>3, <3>4
  <2>3. included' \in [Threads -> SUBSET Chunks]
    BY <1>6, <2>1 DEF ExcludeChunk
  <2> QED
    BY <1>6, <2>2, <2>3 DEF ExcludeChunk
<1>7. ASSUME NEW t \in Tx, IncludeChunk(t) PROVE Ranges'
  <2>1. chunk' \in [Threads -> Nat \ {0}]
    <3>1. chunk' = chunk \/ chunk' = [chunk EXCEPT ![t] = chunk[t] + 1]
      BY <1>7 DEF IncludeChunk
    <3>2. chunk[t] + 1 \in Nat \ {0}
      OBVIOUS
    <3> QED
      BY <3>1, <3>2
  <2> QED
    BY <1>7, <2>1 DEF IncludeChunk
<1>8. ASSUME NEW t \in Tx, Validate(t) PROVE Ranges'
  BY <1>8, RowFacts DEF Validate
<1>9. ASSUME NEW t \in Tx, Delete(t) PROVE Ranges'
  BY <1>9 DEF Delete
<1>10. ASSUME NEW t \in Tx, FinishRead(t) \/ EndTx(t) PROVE Ranges'
  BY <1>10 DEF FinishRead, EndTx, Deregister
<1>11. ASSUME NEW t \in Tx, Commit(t) PROVE Ranges'
  BY <1>11, CommitTypes DEF Commit, Bounds
<1>12. ASSUME NEW t \in Tx, Rollback(t) PROVE Ranges'
  BY <1>12 DEF Rollback
<1>13. CASE StartLogicalLoop \/ NextChunk
  <2>1. chunk' \in [Threads -> Nat \ {0}]
    <3>1. \E k \in Nat \ {0} : chunk' = chunk \/ chunk' = [chunk EXCEPT ![Plugin] = k]
      BY <1>13 DEF StartLogicalLoop, NextChunk
    <3> QED
      BY <3>1
  <2>2. count' = count \/ count' = [count EXCEPT ![Plugin] = chunkCount]
    BY <1>13 DEF StartLogicalLoop, NextChunk
  <2> QED
    BY <1>13, <2>1, <2>2 DEF StartLogicalLoop, NextChunk
<1>14. CASE BeginLogicalDelete
  BY <1>14 DEF BeginLogicalDelete, ReadSnapshot
<1>15. CASE RegisterPlugin
  BY <1>15 DEF RegisterPlugin, Register
<1>16. CASE ValidateChunk
  BY <1>16, RowFacts DEF ValidateChunk, RowsIn
<1>17. CASE DeleteFound \/ RollbackLogicalDelete
  BY <1>17 DEF DeleteFound, RollbackLogicalDelete
<1>18. CASE ReinsertFound
  <2>1. PICK keys \in Seq(Keys) : InsertRows(Plugin, keys)
    BY <1>18, ReinsertedKeys DEF Bounds
  <2>2. chunkCount' \in Chunks
    BY <2>1, InsertEffect
  <2> QED
    BY <1>18, <2>2 DEF ReinsertFound
<1>19. CASE CommitLogicalDelete
  <2>1. content' \in Seq(SUBSET Keys) /\ lastCommitId' \in Nat \ {0} /\ UNCHANGED <<prompt, moved>>
    BY <1>19, CommitTypes DEF CommitLogicalDelete, Bounds
  <2> QED
    BY SMTT(60), <1>19, <2>1 DEF CommitLogicalDelete
<1>20. CASE SetCleanupCommitId
  BY <1>20 DEF SetCleanupCommitId
<1>21. CASE PushChunk
  <2>1. chunk[Plugin] \in Chunks
    BY SMTT(60), <1>21 DEF PushChunk, Goto, Bounds
  <2> QED
    BY SMTT(60), <1>21, <2>1 DEF PushChunk
<1>22. CASE EndLogicalDelete
  BY SMTT(60), <1>22 DEF EndLogicalDelete
<1>23. CASE CheckOldReaders
  BY <1>23 DEF CheckOldReaders
<1>24. CASE RemoveChunk
  <2>1. queue # <<>> /\ queue \in Seq(Chunks)
    BY <1>24 DEF RemoveChunk, Queues
  <2>2. Head(queue) \in Chunks /\ Tail(queue) \in Seq(Chunks)
    BY <2>1
  <2> QED
    BY <1>24, <2>2 DEF RemoveChunk
<1> QED
  BY <1>1, <1>2, <1>3, <1>4, <1>5, <1>6, <1>7, <1>8, <1>9, <1>10, <1>11, <1>12, <1>13, <1>14, <1>15, <1>16, <1>17,
     <1>18, <1>19, <1>20, <1>21, <1>22, <1>23, <1>24
     DEF Next, Client, LogicalDelete, PhysicalDelete

----------------------------------------------------------------------------
(* Who changes what.                                                       *)

\* Nothing of thread u changes.
Untouched(u) ==
  /\ pc'[u] = pc[u] /\ snapshot'[u] = snapshot[u] /\ chunk'[u] = chunk[u] /\ count'[u] = count[u]
  /\ included'[u] = included[u] /\ found'[u] = found[u]
  /\ (u \in active' <=> u \in active) /\ (u \in prompt' <=> u \in prompt)

\* A client's step.
LEMMA ClientFrame ==
  ASSUME PcRanges, Ranges, NEW t \in Tx, Client(t)
  PROVE  /\ \A u \in Threads \ {t} : Untouched(u)
         /\ UNCHANGED <<removed, cleanup, queue, remover, commitId, moved>>
<1> USE DEF Untouched, Goto, PcRanges, Ranges, tableVars, readVars, pluginVars, historyVars
<1>1. CASE Begin(t) \/ RegisterTx(t)
  BY <1>1 DEF Begin, ReadSnapshot, RegisterTx, Register
<1>2. CASE Insert(t) \/ StartGetTable(t)
  BY <1>2 DEF Insert, StartGetTable
<1>3. CASE ExcludeChunk(t)
  BY <1>3 DEF ExcludeChunk
<1>4. CASE IncludeChunk(t)
  BY <1>4 DEF IncludeChunk
<1>5. CASE Validate(t) \/ Delete(t) \/ FinishRead(t)
  BY <1>5 DEF Validate, Delete, FinishRead
<1>6. CASE Commit(t)
  BY <1>6 DEF Commit, CommitRows
<1>7. CASE Rollback(t) \/ EndTx(t)
  BY <1>7 DEF Rollback, EndTx, Deregister
<1> QED
  BY <1>1, <1>2, <1>3, <1>4, <1>5, <1>6, <1>7 DEF Client

\* A step of the logical delete.
LEMMA PluginFrame ==
  ASSUME PcRanges, Ranges, LogicalDelete, NEW u \in Tx
  PROVE  Untouched(u)
<1> USE TxAssumption DEF Untouched, Goto, PcRanges, Ranges, Threads, tableVars, readVars, pluginVars, historyVars
<1>1. CASE StartLogicalLoop
  BY <1>1 DEF StartLogicalLoop
<1>2. CASE NextChunk
  BY <1>2 DEF NextChunk
<1>3. CASE BeginLogicalDelete \/ RegisterPlugin
  BY <1>3 DEF BeginLogicalDelete, ReadSnapshot, RegisterPlugin, Register
<1>4. CASE ValidateChunk \/ DeleteFound \/ ReinsertFound
  BY <1>4 DEF ValidateChunk, DeleteFound, ReinsertFound
<1>5. CASE RollbackLogicalDelete
  BY <1>5 DEF RollbackLogicalDelete
<1>6. CASE CommitLogicalDelete
  BY <1>6 DEF CommitLogicalDelete, CommitRows
<1>7. CASE SetCleanupCommitId \/ PushChunk \/ EndLogicalDelete
  BY <1>7 DEF SetCleanupCommitId, PushChunk, EndLogicalDelete
<1> QED
  BY <1>1, <1>2, <1>3, <1>4, <1>5, <1>6, <1>7 DEF LogicalDelete

\* A step of the physical delete.
LEMMA RemoverFrame ==
  ASSUME PhysicalDelete
  PROVE  /\ UNCHANGED <<rows, chunkCount, cleanup, lastCommitId, commitId, content, moved>>
         /\ \A u \in Threads : Untouched(u)
  BY DEF PhysicalDelete, CheckOldReaders, RemoveChunk, Untouched, readVars, historyVars, tableVars

\* No step at all.
LEMMA IdleFrame ==
  ASSUME UNCHANGED vars
  PROVE  /\ UNCHANGED <<rows, chunkCount, removed, cleanup, queue, lastCommitId, remover, commitId, content, moved>>
         /\ \A u \in Threads : Untouched(u)
  BY DEF vars, Untouched, tableVars, readVars, pluginVars, historyVars

\* The plugin's chunk keeps its state until the plugin sets the cleanup commit id.
LEMMA UncleanStep == ASSUME PcRanges, Ranges, Bounds, Unclean, [Next]_vars PROVE Unclean'
<1>0. Plugin \in Threads /\ \A t \in Tx : Plugin \in Threads \ {t}
  BY TxAssumption DEF Threads
<1>1. ASSUME cleanup' = cleanup, Untouched(Plugin) PROVE Unclean'
  BY <1>1 DEF Unclean, Untouched
<1>2. ASSUME NEW t \in Tx, Client(t) PROVE Unclean'
  BY <1>0, <1>1, <1>2, ClientFrame
<1>3. CASE PhysicalDelete \/ UNCHANGED vars
  BY <1>0, <1>1, <1>3, RemoverFrame, IdleFrame
<1>4. CASE StartLogicalLoop \/ NextChunk \/ SetCleanupCommitId \/ PushChunk \/ EndLogicalDelete
  BY <1>0, <1>4 DEF StartLogicalLoop, NextChunk, SetCleanupCommitId, PushChunk, EndLogicalDelete, Goto,
     PcRanges, Unclean, Working, Moving
<1>5. CASE BeginLogicalDelete
  BY <1>0, <1>5 DEF BeginLogicalDelete, ReadSnapshot, Candidate, Unclean, tableVars, readVars
<1>6. CASE RegisterPlugin \/ ValidateChunk \/ DeleteFound \/ ReinsertFound \/ RollbackLogicalDelete \/ CommitLogicalDelete
  <2>1. pc[Plugin] \in Working /\ cleanup' = cleanup /\ chunk' = chunk
    BY <1>6 DEF RegisterPlugin, Register, ValidateChunk, DeleteFound, ReinsertFound, RollbackLogicalDelete,
       CommitLogicalDelete, Goto, Working, Moving, tableVars, readVars
  <2> QED
    BY <2>1 DEF Unclean
<1> QED
  BY <1>2, <1>3, <1>4, <1>5, <1>6 DEF Next, LogicalDelete

\* Part of a finite set.
LEMMA Counted ==
  ASSUME NEW T, NEW S, IsFiniteSet(T), S \subseteq T
  PROVE  IsFiniteSet(S) /\ Cardinality(S) \in Nat /\ Cardinality(T) \in Nat /\ Cardinality(S) <= Cardinality(T)
  BY FS_Subset, FS_CardinalityType

\* The clients that have ended and the chunks that are cleaned up can be counted.
LEMMA FiniteCounts ==
  /\ IsFiniteSet(Ended) /\ Cardinality(Ended) \in Nat /\ Cardinality(Ended) <= Cardinality(Tx)
  /\ IsFiniteSet(Cleaned) /\ Cardinality(Cleaned) \in Nat /\ Cardinality(Cleaned) <= MaxChunks
  /\ IsFiniteSet(Chunks) /\ Cardinality(Chunks) = MaxChunks
<1>1. IsFiniteSet(Chunks) /\ Cardinality(Chunks) = MaxChunks
  BY SizeFacts, FS_Interval DEF Chunks
<1> QED
  BY <1>1, TxAssumption, Counted DEF Ended, Cleaned

\* A client that has ended stays so.
LEMMA ClientEnds ==
  ASSUME PcRanges, NEW t \in Tx, Client(t)
  PROVE  /\ pc[t] \in {"release", "gone"} => pc'[t] \in {"release", "gone"}
         /\ lastCommitId' = lastCommitId \/ (Commit(t) /\ lastCommitId' = lastCommitId + 1)
<1> USE DEF Goto, PcRanges, Threads
<1>1. CASE Begin(t) \/ RegisterTx(t)
  BY <1>1 DEF Begin, ReadSnapshot, RegisterTx, Register
<1>2. CASE Insert(t) \/ StartGetTable(t)
  BY <1>2 DEF Insert, StartGetTable
<1>3. CASE ExcludeChunk(t)
  BY <1>3 DEF ExcludeChunk
<1>4. CASE IncludeChunk(t)
  BY <1>4 DEF IncludeChunk
<1>5. CASE Validate(t) \/ Delete(t) \/ FinishRead(t)
  BY <1>5 DEF Validate, Delete, FinishRead
<1>6. CASE Commit(t)
  BY <1>6 DEF Commit, CommitRows
<1>7. CASE Rollback(t) \/ EndTx(t)
  BY <1>7 DEF Rollback, EndTx, Deregister
<1> QED
  BY <1>1, <1>2, <1>3, <1>4, <1>5, <1>6, <1>7 DEF Client

\* Every commit id is accounted for.
LEMMA CommitIdsStep ==
  ASSUME PcRanges, Ranges, Bounds, Unclean, CommitIds, Course, [Next]_vars
  PROVE  CommitIds'
<1>0. /\ Plugin \in Threads /\ \A t \in Tx : t \in Threads /\ Plugin \in Threads \ {t}
      /\ lastCommitId \in Nat
  BY TxAssumption DEF Threads, Ranges
<1> DEFINE C == IF pc[Plugin] = "cleanup" THEN 1 ELSE 0
<1>1. /\ lastCommitId <= 1 + Cardinality(Ended) + Cardinality(Cleaned) + C
      /\ CommitIds' <=> lastCommitId' <= 1 + Cardinality(Ended') + Cardinality(Cleaned') + C'
  BY DEF CommitIds
<1>2. /\ IsFiniteSet(Ended) /\ Cardinality(Ended) \in Nat /\ IsFiniteSet(Cleaned) /\ Cardinality(Cleaned) \in Nat
      /\ IsFiniteSet(Ended') /\ Cardinality(Ended') \in Nat /\ IsFiniteSet(Cleaned') /\ Cardinality(Cleaned') \in Nat
  <2>1. IsFiniteSet(Ended') /\ IsFiniteSet(Cleaned')
    BY FiniteCounts, TxAssumption, Counted DEF Ended, Cleaned
  <2> QED
    BY <2>1, FiniteCounts, FS_CardinalityType
<1>3. ASSUME lastCommitId' = lastCommitId, Ended \subseteq Ended', Cleaned \subseteq Cleaned', C' = C PROVE CommitIds'
  <2>1. Cardinality(Ended) <= Cardinality(Ended') /\ Cardinality(Cleaned) <= Cardinality(Cleaned')
    BY <1>2, <1>3, Counted
  <2>2. C \in Nat
    OBVIOUS
  <2> HIDE DEF C
  <2> QED
    BY <1>0, <1>1, <1>2, <1>3, <2>1, <2>2
<1>4. ASSUME cleanup' = cleanup, Untouched(Plugin) PROVE Cleaned' = Cleaned /\ C' = C
  BY <1>4 DEF Cleaned, Untouched
<1>5. ASSUME NEW t \in Tx, Client(t) PROVE CommitIds'
  <2>1. Ended \subseteq Ended' /\ (Commit(t) => t \notin Ended /\ t \in Ended')
    BY <1>0, <1>5, ClientFrame, ClientEnds DEF Ended, Untouched, Commit, Goto, PcRanges
  <2>2. Cleaned' = Cleaned /\ C' = C
    BY <1>0, <1>4, <1>5, ClientFrame
  <2>3. CASE lastCommitId' = lastCommitId
    BY <1>3, <2>1, <2>2, <2>3
  <2>4. CASE Commit(t) /\ lastCommitId' = lastCommitId + 1
    <3>1. Ended \cup {t} \subseteq Ended' /\ t \notin Ended
      BY <2>1, <2>4
    <3>2. Cardinality(Ended \cup {t}) = Cardinality(Ended) + 1
      BY <1>2, <3>1, FS_AddElement
    <3>3. Cardinality(Ended) + 1 <= Cardinality(Ended')
      BY <1>2, <3>1, <3>2, Counted
    <3>4. C \in Nat
      OBVIOUS
    <3> HIDE DEF C
    <3> QED
      BY <1>0, <1>1, <1>2, <2>2, <2>4, <3>3, <3>4
  <2> QED
    BY <1>5, <2>3, <2>4, ClientEnds
<1>6. CASE PhysicalDelete \/ UNCHANGED vars
  <2>1. lastCommitId' = lastCommitId /\ cleanup' = cleanup /\ \A u \in Threads : Untouched(u)
    BY <1>6, RemoverFrame, IdleFrame
  <2>2. Ended' = Ended
    BY <1>0, <2>1 DEF Ended, Untouched
  <2>3. Cleaned' = Cleaned /\ C' = C
    BY <1>0, <1>4, <2>1
  <2> QED
    BY <1>3, <2>1, <2>2, <2>3
<1>7. CASE LogicalDelete
  <2>1. Ended' = Ended
    BY <1>7, PluginFrame DEF Ended, Untouched
  <2>2. CASE CommitLogicalDelete
    <3>1. lastCommitId' = lastCommitId + 1 /\ C = 0 /\ C' = 1 /\ Cleaned' = Cleaned
      BY <1>0, <2>2 DEF CommitLogicalDelete, CommitRows, Goto, Cleaned, PcRanges
    <3> HIDE DEF C
    <3> QED
      BY <1>0, <1>1, <1>2, <2>1, <3>1
  <2>3. CASE SetCleanupCommitId
    <3>1. lastCommitId' = lastCommitId /\ C = 1 /\ C' = 0 /\ pc[Plugin] = "cleanup"
      BY <1>0, <2>3 DEF SetCleanupCommitId, Goto, PcRanges
    <3>2. chunk[Plugin] \in Chunks /\ commitId # 0
      <4>1. commitId > snapshot[Plugin] /\ chunk[Plugin] < count[Plugin] /\ count[Plugin] <= chunkCount
        BY <1>0, <3>1 DEF Course, Bounds
      <4> QED
        BY SMTT(60), <1>0, <4>1, SizeFacts DEF Ranges, Chunks
    <3>3. Cleaned' = Cleaned \cup {chunk[Plugin]} /\ chunk[Plugin] \notin Cleaned
      BY <2>3, <3>1, <3>2 DEF SetCleanupCommitId, Cleaned, Unclean, Working, Moving, Ranges
    <3>4. Cardinality(Cleaned') = Cardinality(Cleaned) + 1
      BY <1>2, <3>3, FS_AddElement
    <3> HIDE DEF C
    <3> QED
      BY <1>0, <1>1, <1>2, <2>1, <3>1, <3>4
  <2>4. CASE ~CommitLogicalDelete /\ ~SetCleanupCommitId
    <3>1. lastCommitId' = lastCommitId /\ cleanup' = cleanup /\ C' = C
      BY <1>0, <1>7, <2>4 DEF LogicalDelete, StartLogicalLoop, NextChunk, BeginLogicalDelete, ReadSnapshot, RegisterPlugin,
         Register, ValidateChunk, DeleteFound, ReinsertFound, RollbackLogicalDelete, PushChunk, EndLogicalDelete,
         Goto, PcRanges, tableVars
    <3>2. Cleaned' = Cleaned
      BY <3>1 DEF Cleaned
    <3> QED
      BY <1>3, <2>1, <3>1, <3>2
  <2> QED
    BY <2>2, <2>3, <2>4
<1> QED
  BY <1>5, <1>6, <1>7 DEF Next

\* No commit id reaches the one that stands for no commit.
LEMMA BelowMax ==
  ASSUME PcRanges, Ranges, Bounds, Unclean, CommitIds
  PROVE  lastCommitId < MAX_COMMIT_ID
<1>1. lastCommitId \in Nat /\ lastCommitId <= 1 + Cardinality(Ended) + Cardinality(Cleaned) + 1
  BY FiniteCounts DEF CommitIds, Ranges
<1>2. CASE pc[Plugin] # "cleanup"
  BY <1>1, <1>2, FiniteCounts, MaxFacts, SizeFacts DEF CommitIds
<1>3. CASE pc[Plugin] = "cleanup"
  <2>1. chunk[Plugin] \in Chunks /\ chunk[Plugin] \notin Cleaned
    <3>1. chunk[Plugin] < count[Plugin] /\ count[Plugin] <= chunkCount /\ Plugin \in Threads
      BY <1>3 DEF Bounds, Threads
    <3>2. chunk[Plugin] \in Chunks
      BY SMTT(60), <3>1, SizeFacts DEF Ranges, Chunks
    <3> QED
      BY <1>3, <3>2 DEF Unclean, Working, Moving, Cleaned
  <2>2. Cleaned \subseteq Chunks \ {chunk[Plugin]}
    BY <2>1 DEF Cleaned
  <2>3. Cardinality(Chunks \ {chunk[Plugin]}) = MaxChunks - 1 /\ IsFiniteSet(Chunks \ {chunk[Plugin]})
    BY <2>1, FiniteCounts, FS_RemoveElement
  <2>4. Cardinality(Cleaned) <= MaxChunks - 1
    BY <2>2, <2>3, FS_Subset
  <2> QED
    BY <1>1, <2>4, FiniteCounts, MaxFacts, SizeFacts
<1> QED
  BY <1>2, <1>3

----------------------------------------------------------------------------
(* The course of a row: inserted, committed or rolled back, deleted.       *)

RowCourse ==
  /\ Len(rows) <= Len(rows') /\ chunkCount <= chunkCount' /\ lastCommitId <= lastCommitId'
  /\ \A r \in RowIds :
       /\ rows'[r].chunk = rows[r].chunk /\ rows'[r].key = rows[r].key
       /\ \/ rows'[r].begin = rows[r].begin /\ rows'[r].end = rows[r].end
          \/ /\ rows[r].end = MAX_COMMIT_ID /\ lastCommitId' = lastCommitId + 1
             /\ \/ /\ rows[r].begin = MAX_COMMIT_ID
                   /\ rows'[r].begin = lastCommitId + 1 /\ rows'[r].end = MAX_COMMIT_ID
                \/ /\ rows[r].begin # MAX_COMMIT_ID
                   /\ rows'[r].begin = rows[r].begin /\ rows'[r].end = lastCommitId + 1
          \/ /\ rows[r].begin = MAX_COMMIT_ID /\ rows[r].end = MAX_COMMIT_ID
             /\ rows'[r].begin = 0 /\ rows'[r].end = 0
  /\ \A r \in Len(rows) + 1 .. Len(rows') :
       /\ rows'[r].begin = MAX_COMMIT_ID /\ rows'[r].end = MAX_COMMIT_ID
       /\ chunkCount <= rows'[r].chunk /\ rows'[r].chunk <= chunkCount'

\* The locks that Delete takes, in an update of the plugin or by itself.
LEMMA DeleteLocks ==
  ASSUME RowRanges, Bounds, NEW t \in Tx, Delete(t)
  PROVE  \E r \in found[t] :
           /\ r \in RowIds
           /\ \/ /\ rows[r].tid = NoTid /\ Goto(t, "validated", "written")
                 /\ rows' = [q \in RowIds |-> IF q \in {r} THEN [rows[q] EXCEPT !.tid = t] ELSE rows[q]]
              \/ rows[r].tid # NoTid /\ Goto(t, "validated", "release") /\ rows' = rows
<1>1. PICK r \in found[t] : IF rows[r].tid = NoTid
                            THEN Goto(t, "validated", "written") /\ rows' = [rows EXCEPT ![r].tid = t]
                            ELSE Goto(t, "validated", "release") /\ UNCHANGED rows
  BY DEF Delete
<1>2. r \in RowIds
  BY DEF Bounds, Threads
<1>3. [rows EXCEPT ![r].tid = t] = [q \in RowIds |-> IF q \in {r} THEN [rows[q] EXCEPT !.tid = t] ELSE rows[q]]
  <2>1. rows = [q \in RowIds |-> rows[q]]
    BY RowFacts DEF RowRanges
  <2> QED
    BY <1>2, <2>1
<1> QED
  BY <1>1, <1>2, <1>3

Reached == {r \in found[Plugin] : rows[r].tid = NoTid
                                  /\ \A l \in found[Plugin] : rows[l].tid # NoTid => r < l}

\* The plugin's Delete reaches the rows in front of the first one that is locked.
LEMMA PluginLocks ==
  ASSUME RowRanges, Bounds, DeleteFound
  PROVE  /\ Reached \subseteq RowIds
         /\ rows' = [r \in RowIds |-> IF r \in Reached THEN [rows[r] EXCEPT !.tid = Plugin] ELSE rows[r]]
         /\ IF \A r \in found[Plugin] : rows[r].tid = NoTid
            THEN Goto(Plugin, "delete", "insert") /\ Reached = found[Plugin]
            ELSE Goto(Plugin, "delete", "conflict")
<1> DEFINE locked  == {r \in found[Plugin] : rows[r].tid # NoTid}
           reached == {r \in found[Plugin] : \A l \in locked : r < l}
<1>1. /\ Goto(Plugin, "delete", IF locked = {} THEN "insert" ELSE "conflict")
      /\ rows' = [r \in RowIds |-> IF r \in reached THEN [rows[r] EXCEPT !.tid = Plugin] ELSE rows[r]]
  BY DEF DeleteFound
<1>2. found[Plugin] \subseteq RowIds
  BY DEF Bounds, Threads
<1>3. reached = Reached
  <2>1. \A r \in found[Plugin] : r \in Nat /\ ~(r < r)
    BY <1>2, RowFacts
  <2> QED
    BY <2>1 DEF Reached
<1>4. locked = {} <=> \A r \in found[Plugin] : rows[r].tid = NoTid
  OBVIOUS
<1> HIDE DEF locked, reached
<1>5. (\A r \in found[Plugin] : rows[r].tid = NoTid) => Reached = found[Plugin]
  BY DEF Reached
<1> QED
  BY <1>1, <1>2, <1>3, <1>4, <1>5 DEF Reached

\* No step takes a row off its course.
LEMMA RowStep ==
  ASSUME Ranges, RowRanges, Bounds, lastCommitId < MAX_COMMIT_ID, [Next]_vars
  PROVE  RowRanges' /\ RowCourse
<1>0. /\ Plugin \in Threads /\ \A t \in Tx : t \in Threads /\ <<t>> \in Seq(Keys)
      /\ lastCommitId \in Nat /\ chunkCount \in Nat /\ Len(rows) \in Nat /\ RowIds = 1..Len(rows)
  BY RowFacts, SizeFacts DEF Ranges, Threads, Keys, Chunks
<1>1. ASSUME UNCHANGED <<rows, chunkCount, lastCommitId>> PROVE RowRanges' /\ RowCourse
  BY <1>0, <1>1 DEF RowRanges, RowCourse
<1>2. ASSUME NEW t \in Threads, NEW keys \in Seq(Keys), InsertRows(t, keys), lastCommitId' = lastCommitId
      PROVE  RowRanges' /\ RowCourse
  <2>1. /\ rows' \in Seq(RowType) /\ Len(rows') = Len(rows) + Len(keys) /\ Len(keys) \in Nat
        /\ \A r \in RowIds : rows'[r] = rows[r]
        /\ \A i \in 1..Len(keys) :
              /\ rows'[Len(rows) + i] = NewRow(ChunkOfNew(i), keys[i], t)
              /\ chunkCount <= ChunkOfNew(i) /\ ChunkOfNew(i) <= chunkCount'
        /\ chunkCount <= chunkCount'
    BY <1>2, InsertEffect
  <2>2. \A r \in Len(rows) + 1 .. Len(rows') :
          /\ rows'[r].begin = MAX_COMMIT_ID /\ rows'[r].end = MAX_COMMIT_ID
          /\ chunkCount <= rows'[r].chunk /\ rows'[r].chunk <= chunkCount'
    <3> TAKE r \in Len(rows) + 1 .. Len(rows')
    <3>1. PICK i \in 1..Len(keys) : Len(rows) + i = r
      <4>1. r - Len(rows) \in 1..Len(keys) /\ Len(rows) + (r - Len(rows)) = r
        BY <1>0, <2>1
      <4> QED
        BY <4>1
    <3>2. rows'[r] = NewRow(ChunkOfNew(i), keys[i], t) /\ chunkCount <= ChunkOfNew(i) /\ ChunkOfNew(i) <= chunkCount'
      BY <2>1, <3>1
    <3> QED
      BY <3>2 DEF NewRow
  <2> QED
    BY <1>0, <1>2, <2>1, <2>2 DEF RowRanges, RowCourse
<1>3. ASSUME NEW t \in Threads, CommitRows(t), chunkCount' = chunkCount PROVE RowRanges' /\ RowCourse
  <2>1. /\ rows' \in Seq(RowType) /\ Len(rows') = Len(rows) /\ lastCommitId' = lastCommitId + 1
        /\ \A r \in RowIds : rows'[r].chunk = rows[r].chunk /\ rows'[r].key = rows[r].key
        /\ \A r \in RowIds : r \notin Held(t) => rows'[r] = rows[r]
        /\ \A r \in NewlyHeld(t) : rows'[r].begin = lastCommitId + 1 /\ rows'[r].end = MAX_COMMIT_ID
        /\ \A r \in Held(t) \ NewlyHeld(t) : rows'[r].begin = rows[r].begin /\ rows'[r].end = lastCommitId + 1
    BY <1>3, CommitEffect
  <2>2. \A r \in Held(t) : rows[r].end = MAX_COMMIT_ID /\ (r \in NewlyHeld(t) <=> rows[r].begin = MAX_COMMIT_ID)
    BY DEF Held, NewlyHeld
  <2> QED
    BY <1>0, <1>3, <2>1, <2>2 DEF RowRanges, RowCourse
<1>4. ASSUME NEW t \in Threads, RollbackRows(t), UNCHANGED <<chunkCount, lastCommitId>> PROVE RowRanges' /\ RowCourse
  <2>1. /\ rows' \in Seq(RowType) /\ Len(rows') = Len(rows)
        /\ \A r \in RowIds : rows'[r].chunk = rows[r].chunk /\ rows'[r].key = rows[r].key
        /\ \A r \in RowIds : r \notin Held(t) => rows'[r] = rows[r]
        /\ \A r \in NewlyHeld(t) : rows'[r].begin = 0 /\ rows'[r].end = 0
        /\ \A r \in Held(t) \ NewlyHeld(t) : rows'[r].begin = rows[r].begin /\ rows'[r].end = MAX_COMMIT_ID
    BY <1>4, RollbackEffect
  <2>2. \A r \in Held(t) : rows[r].end = MAX_COMMIT_ID /\ (r \in NewlyHeld(t) <=> rows[r].begin = MAX_COMMIT_ID)
    BY DEF Held, NewlyHeld
  <2> QED
    BY <1>0, <1>4, <2>1, <2>2 DEF RowRanges, RowCourse
<1>5. ASSUME NEW t \in Threads, NEW S \in SUBSET RowIds, UNCHANGED <<chunkCount, lastCommitId>>,
             rows' = [r \in RowIds |-> IF r \in S THEN [rows[r] EXCEPT !.tid = t] ELSE rows[r]]
      PROVE  RowRanges' /\ RowCourse
  <2>1. /\ rows' \in Seq(RowType) /\ Len(rows') = Len(rows)
        /\ \A r \in RowIds : /\ rows'[r].chunk = rows[r].chunk /\ rows'[r].key = rows[r].key
                              /\ rows'[r].begin = rows[r].begin /\ rows'[r].end = rows[r].end
    BY <1>5, LockEffect
  <2> QED
    BY <1>0, <1>5, <2>1 DEF RowRanges, RowCourse
<1>6. ASSUME NEW t \in Tx, Client(t) PROVE RowRanges' /\ RowCourse
  <2>1. CASE Begin(t) \/ RegisterTx(t) \/ StartGetTable(t) \/ ExcludeChunk(t) \/ IncludeChunk(t) \/ Validate(t)
             \/ FinishRead(t) \/ EndTx(t)
    BY <1>1, <2>1 DEF Begin, ReadSnapshot, RegisterTx, Register, StartGetTable, ExcludeChunk, IncludeChunk, Validate,
       FinishRead, EndTx, Deregister, tableVars
  <2>2. CASE Insert(t)
    BY <1>0, <1>2, <2>2 DEF Insert
  <2>3. CASE Delete(t)
    <3>1. UNCHANGED <<chunkCount, lastCommitId>>
      BY <2>3 DEF Delete
    <3>2. PICK r \in RowIds :
            \/ rows' = [q \in RowIds |-> IF q \in {r} THEN [rows[q] EXCEPT !.tid = t] ELSE rows[q]]
            \/ rows' = rows
      BY <2>3, DeleteLocks
    <3>3. CASE rows' = rows
      BY <1>1, <3>1, <3>3
    <3>4. CASE rows' = [q \in RowIds |-> IF q \in {r} THEN [rows[q] EXCEPT !.tid = t] ELSE rows[q]]
      <4>1. {r} \in SUBSET RowIds
        OBVIOUS
      <4> QED
        BY <1>0, <1>5, <3>1, <3>4, <4>1
    <3> QED
      BY <3>2, <3>3, <3>4
  <2>4. CASE Commit(t)
    BY <1>0, <1>3, <2>4 DEF Commit
  <2>5. CASE Rollback(t)
    BY <1>0, <1>4, <2>5 DEF Rollback
  <2> QED
    BY <1>6, <2>1, <2>2, <2>3, <2>4, <2>5 DEF Client
<1>7. CASE LogicalDelete
  <2>1. CASE StartLogicalLoop \/ NextChunk \/ BeginLogicalDelete \/ RegisterPlugin \/ ValidateChunk
             \/ SetCleanupCommitId \/ PushChunk \/ EndLogicalDelete
    BY <1>1, <2>1 DEF StartLogicalLoop, NextChunk, BeginLogicalDelete, ReadSnapshot, RegisterPlugin, Register,
       ValidateChunk, SetCleanupCommitId, PushChunk, EndLogicalDelete, tableVars
  <2>2. CASE DeleteFound
    <3>1. UNCHANGED <<chunkCount, lastCommitId>>
      BY <2>2 DEF DeleteFound
    <3> QED
      BY <1>0, <1>5, <2>2, <3>1, PluginLocks
  <2>3. CASE ReinsertFound
    <3>1. PICK keys \in Seq(Keys) : InsertRows(Plugin, keys)
      BY <1>0, <2>3, ReinsertedKeys DEF Bounds
    <3> QED
      BY <1>0, <1>2, <2>3, <3>1 DEF ReinsertFound
  <2>4. CASE RollbackLogicalDelete
    BY <1>0, <1>4, <2>4 DEF RollbackLogicalDelete
  <2>5. CASE CommitLogicalDelete
    BY <1>0, <1>3, <2>5 DEF CommitLogicalDelete
  <2> QED
    BY <1>7, <2>1, <2>2, <2>3, <2>4, <2>5 DEF LogicalDelete
<1>8. CASE PhysicalDelete \/ UNCHANGED vars
  BY <1>1, <1>8, RemoverFrame, IdleFrame
<1> QED
  BY <1>6, <1>7, <1>8 DEF Next

\* Neither a commit nor a rollback nor new rows change what the table was as of a commit id.
LEMMA SnapKept ==
  ASSUME Ranges, RowRanges, RowRanges', Bounds, RowCourse, lastCommitId < MAX_COMMIT_ID
  PROVE  /\ \A s \in 0..lastCommitId : Snap(s)' = Snap(s) /\ KeysOf(Snap(s))' = KeysOf(Snap(s))
         /\ \A r \in RowIds : r \in RowIds' /\ rows'[r].chunk = rows[r].chunk /\ rows'[r].key = rows[r].key
<1>1. /\ \A r \in RowIds : r \in RowIds' /\ rows'[r].chunk = rows[r].chunk /\ rows'[r].key = rows[r].key
      /\ \A r \in RowIds' : r \in RowIds \/ r \in Len(rows) + 1 .. Len(rows')
  <2>1. RowIds = 1..Len(rows) /\ Len(rows) \in Nat /\ RowIds' = 1..Len(rows') /\ Len(rows') \in Nat
    BY DEF RowIds, RowRanges
  <2> QED
    BY <2>1 DEF RowCourse
<1>2. ASSUME NEW s \in 0..lastCommitId PROVE Snap(s)' = Snap(s) /\ KeysOf(Snap(s))' = KeysOf(Snap(s))
  <2>1. s \in Nat /\ s <= lastCommitId /\ lastCommitId \in Nat /\ MAX_COMMIT_ID \in Nat
    BY MaxFacts DEF Ranges
  <2>2. ASSUME NEW r \in RowIds
        PROVE (rows'[r].begin <= s /\ s < rows'[r].end) <=> (rows[r].begin <= s /\ s < rows[r].end)
    <3>1. rows[r].begin \in Nat /\ rows[r].end \in Nat
      BY RowFacts
    <3> QED
      BY SMTT(60), <2>1, <3>1 DEF RowCourse
  <2>3. ASSUME NEW r \in Len(rows) + 1 .. Len(rows') PROVE ~(rows'[r].begin <= s)
    BY <2>1 DEF RowCourse
  <2>4. Snap(s)' = Snap(s)
    BY <1>1, <2>2, <2>3 DEF Snap
  <2>5. KeysOf(Snap(s))' = {rows'[r].key : r \in Snap(s)}
    BY <2>4 DEF KeysOf
  <2>6. \A r \in Snap(s) : rows'[r].key = rows[r].key
    BY <1>1 DEF Snap
  <2>7. {rows'[r].key : r \in Snap(s)} = {rows[r].key : r \in Snap(s)}
    BY <2>6
  <2> QED
    BY <2>4, <2>5, <2>7 DEF KeysOf
<1> QED
  BY <1>1, <1>2

\* No step is ahead of the last commit or of the last chunk.
LEMMA BoundsStep ==
  ASSUME PcRanges, Ranges, RowRanges, Bounds, Course, RowCourse, RowRanges', Ranges',
         lastCommitId < MAX_COMMIT_ID, [Next]_vars
  PROVE  Bounds'
<1>0. /\ Plugin \in Threads /\ Plugin \notin Tx /\ \A t \in Tx : t \in Threads
      /\ Threads = Tx \cup {Plugin}
      /\ lastCommitId \in Nat /\ lastCommitId' \in Nat /\ lastCommitId <= lastCommitId'
      /\ chunkCount \in Nat /\ chunkCount' \in Nat /\ chunkCount <= chunkCount' /\ 1 <= chunkCount
      /\ lastCommitId # 0 /\ RowIds \subseteq RowIds'
  <2>1. chunkCount \in Nat /\ chunkCount' \in Nat /\ 1 <= chunkCount
    BY SizeFacts DEF Ranges, Chunks
  <2> QED
    BY <2>1, TxAssumption, SnapKept DEF RowCourse, Threads, Ranges
<1>1. Len(content') = lastCommitId' /\ commitId' <= lastCommitId'
  <2>1. CASE UNCHANGED <<content, lastCommitId, commitId>>
    BY <2>1 DEF Bounds
  <2>2. ASSUME NEW t \in Threads, CommitRows(t), commitId' \in {commitId, lastCommitId + 1}
        PROVE  Len(content') = lastCommitId' /\ commitId' <= lastCommitId'
    <3>1. \E new : content' = Append(content, new)
      BY <2>2 DEF CommitRows
    <3>2. lastCommitId' = lastCommitId + 1 /\ Len(content') = Len(content) + 1
      BY <2>2, <3>1 DEF CommitRows, Ranges
    <3> QED
      BY <1>0, <2>2, <3>2 DEF Bounds, Ranges
  <2>3. ASSUME NEW t \in Tx, Client(t) PROVE Len(content') = lastCommitId' /\ commitId' <= lastCommitId'
    BY <1>0, <2>1, <2>2, <2>3 DEF Client, Begin, ReadSnapshot, RegisterTx, Register, Insert, StartGetTable, ExcludeChunk,
       IncludeChunk, Validate, Delete, FinishRead, Commit, Rollback, EndTx, Deregister, pluginVars, historyVars
  <2>4. CASE LogicalDelete
    BY <1>0, <2>1, <2>2, <2>4 DEF LogicalDelete, StartLogicalLoop, NextChunk, BeginLogicalDelete, ReadSnapshot,
       RegisterPlugin, Register, ValidateChunk, DeleteFound, ReinsertFound, RollbackLogicalDelete, CommitLogicalDelete,
       SetCleanupCommitId, PushChunk, EndLogicalDelete, pluginVars, historyVars
  <2> QED
    BY <2>1, <2>3, <2>4, RemoverFrame, IdleFrame DEF Next
<1>2. \A r \in RowIds' : /\ rows'[r].chunk <= chunkCount'
                         /\ rows'[r].begin = MAX_COMMIT_ID \/ rows'[r].begin <= lastCommitId'
                         /\ rows'[r].end = MAX_COMMIT_ID \/ rows'[r].end <= lastCommitId'
  <2> TAKE r \in RowIds'
  <2>1. r \in RowIds \/ r \in Len(rows) + 1 .. Len(rows')
    <3>1. RowIds = 1..Len(rows) /\ Len(rows) \in Nat /\ RowIds' = 1..Len(rows') /\ Len(rows') \in Nat
      BY DEF RowIds, RowRanges
    <3> QED
      BY <3>1
  <2>2. CASE r \in RowIds
    <3>1. /\ rows[r].chunk <= chunkCount /\ rows[r].chunk \in Nat
          /\ rows[r].begin = MAX_COMMIT_ID \/ rows[r].begin <= lastCommitId
          /\ rows[r].end = MAX_COMMIT_ID \/ rows[r].end <= lastCommitId
          /\ rows[r].begin \in Nat /\ rows[r].end \in Nat
      BY <2>2, RowFacts DEF Bounds, Chunks
    <3>2. /\ rows'[r].chunk = rows[r].chunk
          /\ rows'[r].begin \in {rows[r].begin, 0} \/ (rows'[r].begin = lastCommitId + 1 /\ lastCommitId' = lastCommitId + 1)
          /\ rows'[r].end \in {rows[r].end, MAX_COMMIT_ID, 0} \/ (rows'[r].end = lastCommitId + 1 /\ lastCommitId' = lastCommitId + 1)
      BY <2>2 DEF RowCourse
    <3> QED
      BY <1>0, <3>1, <3>2, MaxFacts
  <2>3. CASE r \in Len(rows) + 1 .. Len(rows')
    BY <2>3 DEF RowCourse
  <2> QED
    BY <2>1, <2>2, <2>3
<1>3. \A c \in Chunks : /\ cleanup'[c] <= lastCommitId' /\ moved'[c] <= lastCommitId'
                        /\ cleanup'[c] # 0 => c <= chunkCount'
  <2> TAKE c \in Chunks
  <2>0. cleanup[c] \in Nat /\ moved[c] \in Nat /\ c \in Nat
    <3>1. c \in Nat
      BY SizeFacts DEF Chunks
    <3> QED
      BY <3>1 DEF Ranges
  <2>1. CASE cleanup'[c] = cleanup[c] /\ moved'[c] = moved[c]
    BY <1>0, <2>0, <2>1 DEF Bounds
  <2>2. CASE SetCleanupCommitId
    <3>1. c # chunk[Plugin] => cleanup'[c] = cleanup[c] /\ moved'[c] = moved[c]
      BY <2>2 DEF SetCleanupCommitId, Ranges
    <3>2. CASE c = chunk[Plugin]
      <4>1. cleanup'[c] = commitId /\ moved'[c] = snapshot[Plugin] /\ pc[Plugin] = "cleanup"
        BY <2>2, <3>2 DEF SetCleanupCommitId, Ranges, Goto
      <4>2. /\ commitId <= lastCommitId /\ snapshot[Plugin] <= lastCommitId /\ chunk[Plugin] < count[Plugin]
            /\ count[Plugin] <= chunkCount /\ commitId \in Nat /\ snapshot[Plugin] \in Nat /\ count[Plugin] \in Nat
        BY <1>0, <4>1 DEF Bounds, Ranges
      <4> QED
        BY <1>0, <2>0, <3>2, <4>1, <4>2
    <3> QED
      BY <2>1, <3>1, <3>2
  <2>3. CASE LogicalDelete /\ ~SetCleanupCommitId
    <3>1. cleanup' = cleanup /\ moved' = moved
      BY <2>3 DEF LogicalDelete, StartLogicalLoop, NextChunk, BeginLogicalDelete, ReadSnapshot, RegisterPlugin, Register,
       ValidateChunk, DeleteFound, ReinsertFound, RollbackLogicalDelete, CommitLogicalDelete, CommitRows, PushChunk,
       EndLogicalDelete, tableVars, historyVars
    <3> QED
      BY <2>1, <3>1
  <2>4. ASSUME NEW t \in Tx, Client(t) PROVE cleanup' = cleanup /\ moved' = moved
    BY <2>4, ClientFrame
  <2> QED
    BY <2>1, <2>2, <2>3, <2>4, RemoverFrame, IdleFrame DEF Next
<1> DEFINE TB(t) ==
      /\ snapshot[t] <= lastCommitId /\ count[t] <= chunkCount /\ found[t] \subseteq RowIds
      /\ pc[t] \notin {"idle", "scan"} => snapshot[t] # 0
      /\ t \in Tx /\ pc[t] \in {"exclude", "include"} => chunk[t] <= count[t]
      /\ t = Plugin /\ pc[t] = "scan" => chunk[t] <= count[t]
      /\ t = Plugin /\ pc[t] \notin {"idle", "scan"} => chunk[t] < count[t]
<1>4. \A t \in Threads : /\ TB(t) /\ snapshot[t] \in Nat /\ chunk[t] \in Nat \ {0} /\ count[t] \in Nat
                         /\ snapshot \in [Threads -> Nat] /\ count \in [Threads -> Nat] /\ chunk \in [Threads -> Nat \ {0}]
                         /\ found \in [Threads -> SUBSET Nat] /\ pc \in [Threads -> ClientPcs \cup PluginPcs]
  BY <1>0 DEF Bounds, Ranges, PcRanges
<1>5. ASSUME NEW t \in Threads, Untouched(t) PROVE TB(t)'
  BY <1>0, <1>4, <1>5 DEF Untouched
<1>6. ASSUME NEW t \in Tx, Client(t) PROVE TB(t)'
  <2>0. t \in Threads /\ t # Plugin
    BY <1>0
  <2>1. CASE Begin(t) \/ RegisterTx(t)
    BY <1>0, <1>4, <2>0, <2>1 DEF Begin, ReadSnapshot, RegisterTx, Register, Goto, readVars
  <2>2. CASE Insert(t) \/ StartGetTable(t)
    BY <1>0, <1>4, <2>0, <2>2 DEF Insert, StartGetTable, Goto, readVars
  <2>3. CASE ExcludeChunk(t)
    BY <1>0, <1>4, <2>0, <2>3 DEF ExcludeChunk, Goto
  <2>4. CASE IncludeChunk(t)
    BY <1>0, <1>4, <2>0, <2>4 DEF IncludeChunk, Goto
  <2>5. CASE Validate(t)
    BY <1>0, <1>4, <2>0, <2>5 DEF Validate, Goto
  <2>6. CASE Delete(t) \/ FinishRead(t) \/ Commit(t) \/ Rollback(t)
    <3>1. pc[t] \in {"validated", "written"} /\ pc'[t] \in {"written", "release"} /\ UNCHANGED <<snapshot, readVars>>
      BY <1>4, <2>0, <2>6 DEF Delete, FinishRead, Commit, Rollback, Goto
    <3> QED
      BY <1>0, <1>4, <2>0, <3>1 DEF readVars
  <2>7. CASE EndTx(t)
    BY <1>0, <1>4, <2>0, <2>7 DEF EndTx, Deregister, Goto
  <2> QED
    BY <1>6, <2>1, <2>2, <2>3, <2>4, <2>5, <2>6, <2>7 DEF Client
<1>7. ASSUME LogicalDelete PROVE TB(Plugin)'
  <2> DEFINE p == Plugin
  <2>0. p \in Threads /\ p \notin Tx
    BY <1>0
  <2>1. CASE StartLogicalLoop
    BY <1>0, <1>4, <2>0, <2>1 DEF StartLogicalLoop, Goto
  <2>2. CASE NextChunk
    BY <1>0, <1>4, <2>0, <2>2 DEF NextChunk, Goto
  <2>3. CASE BeginLogicalDelete \/ RegisterPlugin
    BY <1>0, <1>4, <2>0, <2>3 DEF BeginLogicalDelete, ReadSnapshot, RegisterPlugin, Register, Goto, readVars
  <2>4. CASE ValidateChunk
    BY <1>0, <1>4, <2>0, <2>4 DEF ValidateChunk, Goto, RowsIn
  <2>5. CASE \/ DeleteFound \/ ReinsertFound \/ RollbackLogicalDelete \/ CommitLogicalDelete \/ SetCleanupCommitId \/ PushChunk
    <3>1. pc[p] \notin {"idle", "scan"} /\ pc'[p] \notin {"idle", "scan"} /\ UNCHANGED <<snapshot, readVars>>
      BY <1>4, <2>0, <2>5 DEF DeleteFound, ReinsertFound, RollbackLogicalDelete, CommitLogicalDelete, SetCleanupCommitId,
         PushChunk, Goto
    <3> QED
      BY <1>0, <1>4, <2>0, <3>1 DEF readVars
  <2>6. CASE EndLogicalDelete
    BY <1>0, <1>4, <2>0, <2>6 DEF EndLogicalDelete, Goto
  <2> QED
    BY <1>7, <2>1, <2>2, <2>3, <2>4, <2>5, <2>6 DEF LogicalDelete
<1>8. ASSUME NEW t \in Threads PROVE TB(t)'
  <2> HIDE DEF TB
  <2>1. CASE \E u \in Tx : Client(u)
    <3>1. PICK u \in Tx : Client(u)
      BY <2>1
    <3> QED
      BY <1>5, <1>6, <3>1, ClientFrame
  <2>2. CASE LogicalDelete
    BY <1>0, <1>5, <1>7, <2>2, PluginFrame
  <2>3. CASE PhysicalDelete \/ UNCHANGED vars
    BY <1>5, <2>3, RemoverFrame, IdleFrame
  <2> QED
    BY <2>1, <2>2, <2>3 DEF Next
<1> QED
  BY <1>0, <1>1, <1>2, <1>3, <1>8 DEF Bounds

----------------------------------------------------------------------------
(* Locks.                                                                  *)

Steps(t) == (t \in Tx /\ Client(t)) \/ (t = Plugin /\ LogicalDelete)

\* What a step of t may do to the rows.
LEMMA RowCases ==
  ASSUME RowRanges, Bounds, PcRanges, NEW t \in Threads, Steps(t)
  PROVE  \/ /\ rows' = rows /\ lastCommitId' = lastCommitId /\ content' = content
            /\ t \in Tx => ~Commit(t) /\ ~Rollback(t)
            /\ t = Plugin => ~DeleteFound /\ ~ReinsertFound /\ ~RollbackLogicalDelete /\ ~CommitLogicalDelete
         \/ /\ \E keys \in Seq(Keys) : InsertRows(t, keys)
            /\ lastCommitId' = lastCommitId /\ content' = content
            /\ (t \in Tx /\ Insert(t)) \/ (t = Plugin /\ ReinsertFound)
         \/ /\ \E S \in SUBSET RowIds : 
                 /\ \A r \in S : rows[r].tid = NoTid
                 /\ rows' = [q \in RowIds |-> IF q \in S THEN [rows[q] EXCEPT !.tid = t] ELSE rows[q]]
            /\ lastCommitId' = lastCommitId /\ content' = content
            /\ (t \in Tx /\ Delete(t) /\ Goto(t, "validated", "written")) \/ (t = Plugin /\ DeleteFound)
         \/ CommitRows(t) /\ ((t \in Tx /\ Commit(t)) \/ (t = Plugin /\ CommitLogicalDelete))
         \/ /\ RollbackRows(t) /\ lastCommitId' = lastCommitId /\ content' = content
            /\ (t \in Tx /\ Rollback(t)) \/ (t = Plugin /\ RollbackLogicalDelete)
<1>0. t = Plugin => t \notin Tx
  BY TxAssumption
<1>1. CASE t \in Tx
  <2>0. Client(t) /\ t # Plugin /\ pc \in [Threads -> ClientPcs \cup PluginPcs]
    BY <1>0, <1>1 DEF Steps, PcRanges
  <2>1. CASE Begin(t) \/ RegisterTx(t) \/ StartGetTable(t) \/ ExcludeChunk(t) \/ IncludeChunk(t) \/ Validate(t)
             \/ FinishRead(t) \/ EndTx(t)
    <3>1. rows' = rows /\ lastCommitId' = lastCommitId /\ content' = content /\ pc[t] # "written"
      BY <2>1 DEF Begin, ReadSnapshot, RegisterTx, Register, StartGetTable, ExcludeChunk, IncludeChunk, Validate,
         FinishRead, EndTx, Deregister, Goto, tableVars, historyVars
    <3>2. ~Commit(t) /\ ~Rollback(t)
      BY <3>1 DEF Commit, Rollback, Goto
    <3> QED
      BY <1>0, <1>1, <3>1, <3>2
  <2>2. CASE Insert(t)
    <3>1. <<t>> \in Seq(Keys)
      BY <1>1 DEF Keys
    <3>2. InsertRows(t, <<t>>) /\ lastCommitId' = lastCommitId /\ content' = content
      BY <2>2 DEF Insert, historyVars
    <3> QED
      BY <1>1, <2>2, <3>1, <3>2
  <2>3. CASE Delete(t)
    <3>0. lastCommitId' = lastCommitId /\ content' = content /\ pc[t] = "validated"
      BY <2>3 DEF Delete, historyVars, Goto
    <3>1. ~Commit(t) /\ ~Rollback(t)
      BY <3>0 DEF Commit, Rollback, Goto
    <3>2. PICK r \in RowIds :
            \/ /\ rows[r].tid = NoTid /\ Goto(t, "validated", "written")
               /\ rows' = [q \in RowIds |-> IF q \in {r} THEN [rows[q] EXCEPT !.tid = t] ELSE rows[q]]
            \/ rows[r].tid # NoTid /\ Goto(t, "validated", "release") /\ rows' = rows
      BY <1>1, <2>3, DeleteLocks
    <3>3. CASE rows' = rows
      BY <1>0, <1>1, <3>0, <3>1, <3>3
    <3>4. CASE /\ rows[r].tid = NoTid /\ Goto(t, "validated", "written")
               /\ rows' = [q \in RowIds |-> IF q \in {r} THEN [rows[q] EXCEPT !.tid = t] ELSE rows[q]]
      <4>1. {r} \in SUBSET RowIds /\ \A q \in {r} : rows[q].tid = NoTid
        BY <3>4
      <4> QED
        BY <1>1, <2>3, <3>0, <3>4, <4>1
    <3> QED
      BY <3>2, <3>3, <3>4
  <2>4. CASE Commit(t)
    BY <1>1, <2>4 DEF Commit
  <2>5. CASE Rollback(t)
    BY <1>1, <2>5 DEF Rollback, historyVars
  <2> QED
    BY <2>0, <2>1, <2>2, <2>3, <2>4, <2>5 DEF Client
<1>2. CASE t = Plugin
  <2>0. LogicalDelete /\ t \notin Tx /\ pc \in [Threads -> ClientPcs \cup PluginPcs]
    BY <1>0, <1>2 DEF Steps, PcRanges
  <2>1. CASE StartLogicalLoop \/ NextChunk \/ BeginLogicalDelete \/ RegisterPlugin \/ ValidateChunk
             \/ SetCleanupCommitId \/ PushChunk \/ EndLogicalDelete
    <3>1. rows' = rows /\ lastCommitId' = lastCommitId /\ content' = content
          /\ pc[Plugin] \notin {"delete", "insert", "conflict", "commit"}
      BY <2>1 DEF StartLogicalLoop, NextChunk, BeginLogicalDelete, ReadSnapshot, RegisterPlugin, Register,
         ValidateChunk, SetCleanupCommitId, PushChunk, EndLogicalDelete, Goto, tableVars, historyVars
    <3>2. ~DeleteFound /\ ~ReinsertFound /\ ~RollbackLogicalDelete /\ ~CommitLogicalDelete
      BY <3>1 DEF DeleteFound, ReinsertFound, RollbackLogicalDelete, CommitLogicalDelete, Goto
    <3> QED
      BY <2>0, <3>1, <3>2
  <2>2. CASE DeleteFound
    <3>1. lastCommitId' = lastCommitId /\ content' = content
      BY <2>2 DEF DeleteFound, historyVars
    <3>2. /\ Reached \in SUBSET RowIds
          /\ rows' = [r \in RowIds |-> IF r \in Reached THEN [rows[r] EXCEPT !.tid = Plugin] ELSE rows[r]]
          /\ \A r \in Reached : rows[r].tid = NoTid
      BY <2>2, PluginLocks DEF Reached
    <3> QED
      BY <1>2, <2>2, <3>1, <3>2
  <2>3. CASE ReinsertFound
    <3>1. PICK keys \in Seq(Keys) : InsertRows(Plugin, keys)
      BY <2>3, ReinsertedKeys DEF Bounds, Threads
    <3>2. lastCommitId' = lastCommitId /\ content' = content
      BY <2>3 DEF ReinsertFound, historyVars
    <3> QED
      BY <1>2, <2>3, <3>1, <3>2
  <2>4. CASE RollbackLogicalDelete
    BY <1>2, <2>4 DEF RollbackLogicalDelete, historyVars
  <2>5. CASE CommitLogicalDelete
    BY <1>2, <2>5 DEF CommitLogicalDelete
  <2> QED
    BY <2>0, <2>1, <2>2, <2>3, <2>4, <2>5 DEF LogicalDelete
<1> QED
  BY <1>1, <1>2 DEF Steps

\* Only a transaction itself touches the rows that bear its id, and no other puts it there.
LEMMA OwnRows ==
  ASSUME Ranges, RowRanges, Bounds, PcRanges, lastCommitId < MAX_COMMIT_ID, NEW t \in Threads, Steps(t),
         NEW u \in Threads \ {t}
  PROVE  /\ \A r \in RowIds : rows[r].tid = u => r \in RowIds' /\ rows'[r] = rows[r]
         /\ \A r \in RowIds' : rows'[r].tid = u => r \in RowIds /\ rows'[r] = rows[r]
<1>0. /\ u # NoTid /\ u # t /\ RowIds = 1..Len(rows) /\ Len(rows) \in Nat
      /\ \A r \in RowIds : rows[r].tid = u => r \notin Held(t)
  BY TxAssumption, RowFacts DEF Threads, Held
<1>1. CASE rows' = rows
  BY <1>1 DEF RowIds
<1>2. ASSUME NEW keys \in Seq(Keys), InsertRows(t, keys)
      PROVE  /\ \A r \in RowIds : rows[r].tid = u => r \in RowIds' /\ rows'[r] = rows[r]
             /\ \A r \in RowIds' : rows'[r].tid = u => r \in RowIds /\ rows'[r] = rows[r]
  <2>1. /\ rows' \in Seq(RowType) /\ Len(rows') = Len(rows) + Len(keys) /\ Len(keys) \in Nat
        /\ \A r \in RowIds : rows'[r] = rows[r]
        /\ \A i \in 1..Len(keys) : rows'[Len(rows) + i] = NewRow(ChunkOfNew(i), keys[i], t)
    BY SMTT(60), <1>2, InsertEffect
  <2>2. RowIds' = 1..Len(rows) + Len(keys)
    BY <2>1 DEF RowIds
  <2>3. \A r \in RowIds' : r \in RowIds \/ \E i \in 1..Len(keys) : Len(rows) + i = r
    <3> TAKE r \in RowIds'
    <3>1. r \notin RowIds => r - Len(rows) \in 1..Len(keys) /\ Len(rows) + (r - Len(rows)) = r
      BY <1>0, <2>1, <2>2
    <3> QED
      BY <3>1
  <2>4. ASSUME NEW i \in 1..Len(keys) PROVE rows'[Len(rows) + i].tid # u
    <3>1. rows'[Len(rows) + i] = NewRow(ChunkOfNew(i), keys[i], t)
      BY <2>1
    <3> QED
      BY <1>0, <3>1 DEF NewRow
  <2>5. RowIds \subseteq RowIds'
    BY <1>0, <2>1, <2>2
  <2>6. ASSUME NEW r \in RowIds', rows'[r].tid = u PROVE r \in RowIds
    BY <2>3, <2>4, <2>6
  <2> QED
    BY <2>1, <2>5, <2>6
<1>3. ASSUME rows' \in Seq(RowType), Len(rows') = Len(rows),
             NEW S \in SUBSET RowIds, \A r \in S : rows[r].tid # u /\ rows'[r].tid # u,
             \A r \in RowIds \ S : rows'[r] = rows[r]
      PROVE  /\ \A r \in RowIds : rows[r].tid = u => r \in RowIds' /\ rows'[r] = rows[r]
             /\ \A r \in RowIds' : rows'[r].tid = u => r \in RowIds /\ rows'[r] = rows[r]
  <2>1. RowIds' = RowIds
    BY <1>0, <1>3 DEF RowIds
  <2> QED
    BY <1>3, <2>1
<1>4. ASSUME NEW S \in SUBSET RowIds, \A r \in S : rows[r].tid = NoTid,
             rows' = [q \in RowIds |-> IF q \in S THEN [rows[q] EXCEPT !.tid = t] ELSE rows[q]]
      PROVE  /\ \A r \in RowIds : rows[r].tid = u => r \in RowIds' /\ rows'[r] = rows[r]
             /\ \A r \in RowIds' : rows'[r].tid = u => r \in RowIds /\ rows'[r] = rows[r]
  <2>1. /\ rows' \in Seq(RowType) /\ Len(rows') = Len(rows)
        /\ \A r \in RowIds : r \notin S => rows'[r] = rows[r]
        /\ \A r \in S : rows'[r].tid = t
    BY <1>4, LockEffect
  <2> QED
    BY <1>0, <1>3, <1>4, <2>1
<1>5. CASE CommitRows(t)
  <2>1. /\ rows' \in Seq(RowType) /\ Len(rows') = Len(rows)
        /\ \A r \in RowIds : r \notin Held(t) => rows'[r] = rows[r]
        /\ \A r \in NewlyHeld(t) : rows'[r].tid = NoTid
        /\ \A r \in Held(t) \ NewlyHeld(t) : rows'[r].tid = t
    BY <1>5, CommitEffect
  <2>2. Held(t) \in SUBSET RowIds /\ \A r \in Held(t) : rows[r].tid # u /\ rows'[r].tid # u
    BY <1>0, <2>1 DEF Held
  <2> QED
    BY <1>3, <2>1, <2>2
<1>6. CASE RollbackRows(t)
  <2>1. /\ rows' \in Seq(RowType) /\ Len(rows') = Len(rows)
        /\ \A r \in RowIds : r \notin Held(t) => rows'[r] = rows[r]
        /\ \A r \in Held(t) : rows'[r].tid = NoTid
    BY <1>6, RollbackEffect
  <2>2. Held(t) \in SUBSET RowIds /\ \A r \in Held(t) : rows[r].tid # u /\ rows'[r].tid # u
    BY <1>0, <2>1 DEF Held
  <2> QED
    BY <1>3, <2>1, <2>2
<1> QED
  BY <1>1, <1>2, <1>4, <1>5, <1>6, RowCases

\* The rows after an insert.
LEMMA NewRows ==
  ASSUME Ranges, RowRanges, NEW t \in Threads, NEW keys \in Seq(Keys), InsertRows(t, keys)
  PROVE  /\ RowIds \subseteq RowIds' /\ \A r \in RowIds : rows'[r] = rows[r]
         /\ \A i \in 1..Len(keys) : Len(rows) + i \in RowIds' \ RowIds
         /\ \A r \in RowIds' \ RowIds : \E i \in 1..Len(keys) :
              /\ r = Len(rows) + i
              /\ rows'[r].key = keys[i] /\ rows'[r].tid = t
              /\ rows'[r].begin = MAX_COMMIT_ID /\ rows'[r].end = MAX_COMMIT_ID
<1>1. /\ rows' \in Seq(RowType) /\ Len(rows') = Len(rows) + Len(keys) /\ Len(keys) \in Nat
      /\ \A r \in RowIds : rows'[r] = rows[r]
      /\ \A i \in 1..Len(keys) : rows'[Len(rows) + i] = NewRow(ChunkOfNew(i), keys[i], t)
      /\ RowIds = 1..Len(rows) /\ Len(rows) \in Nat
  BY InsertEffect, RowFacts
<1>2. RowIds' = 1..Len(rows) + Len(keys)
  BY <1>1 DEF RowIds
<1>3. RowIds \subseteq RowIds' /\ \A i \in 1..Len(keys) : Len(rows) + i \in RowIds' \ RowIds
  BY <1>1, <1>2
<1>4. ASSUME NEW r \in RowIds' \ RowIds
      PROVE  \E i \in 1..Len(keys) :
              /\ r = Len(rows) + i
              /\ rows'[r].key = keys[i] /\ rows'[r].tid = t
              /\ rows'[r].begin = MAX_COMMIT_ID /\ rows'[r].end = MAX_COMMIT_ID
  <2>1. PICK i \in 1..Len(keys) : r = Len(rows) + i
    <3>1. r - Len(rows) \in 1..Len(keys) /\ r = Len(rows) + (r - Len(rows))
      BY <1>1, <1>2
    <3> QED
      BY <3>1
  <2>2. rows'[r] = NewRow(ChunkOfNew(i), keys[i], t)
    BY <1>1, <2>1
  <2> QED
    BY <2>1, <2>2 DEF NewRow
<1> QED
  BY <1>1, <1>3, <1>4

\* A client inserts one row, with its key.
LEMMA OneNewRow ==
  ASSUME Ranges, RowRanges, NEW t \in Tx, Insert(t)
  PROVE  \A r \in RowIds' \ RowIds : /\ r = Len(rows) + 1
                                     /\ rows'[r].key = t /\ rows'[r].tid = t
                                     /\ rows'[r].begin = MAX_COMMIT_ID /\ rows'[r].end = MAX_COMMIT_ID
<1> DEFINE keys == <<t>>
<1>1. keys \in Seq(Keys) /\ Len(keys) = 1 /\ keys[1] = t /\ InsertRows(t, keys) /\ t \in Threads
  BY DEF Insert, Keys, Threads
<1> HIDE DEF keys
<1>2. \A r \in RowIds' \ RowIds : \E i \in 1..Len(keys) :
              /\ r = Len(rows) + i
              /\ rows'[r].key = keys[i] /\ rows'[r].tid = t
              /\ rows'[r].begin = MAX_COMMIT_ID /\ rows'[r].end = MAX_COMMIT_ID
  BY <1>1, NewRows
<1>3. \A i \in 1..Len(keys) : i = 1
  BY <1>1
<1> QED
  BY <1>1, <1>2, <1>3

\* A row that is not committed is held by a transaction.
LEMMA RowStatesStep ==
  ASSUME PcRanges, Ranges, RowRanges, Bounds, RowStates, RowRanges', lastCommitId < MAX_COMMIT_ID,
         lastCommitId' < MAX_COMMIT_ID, [Next]_vars
  PROVE  RowStates'
<1>0. lastCommitId \in Nat /\ MAX_COMMIT_ID \in Nat /\ NoTid \notin Threads /\ 1 <= lastCommitId
  BY MaxFacts, TxAssumption DEF Ranges, Threads
<1> DEFINE OK(row) == /\ row.begin = MAX_COMMIT_ID => row.end = MAX_COMMIT_ID /\ row.tid # NoTid
                      /\ row.tid = NoTid => row.end = MAX_COMMIT_ID \/ row.end <= 1
<1>1. \A r \in RowIds : OK(rows[r])
  BY DEF RowStates
<1>2. (\A r \in RowIds' : OK(rows'[r])) => RowStates'
  BY DEF RowStates
<1> HIDE DEF OK
<1>3. CASE rows' = rows
  BY <1>1, <1>2, <1>3 DEF RowIds
<1>4. ASSUME rows' \in Seq(RowType), Len(rows') = Len(rows), \A r \in RowIds : OK(rows'[r]) PROVE RowStates'
  <2>1. RowIds' = RowIds
    BY <1>4, RowFacts DEF RowIds
  <2> QED
    BY <1>2, <1>4, <2>1
<1>5. ASSUME NEW t \in Threads, NEW keys \in Seq(Keys), InsertRows(t, keys) PROVE RowStates'
  <2>1. \A r \in RowIds' \ RowIds : OK(rows'[r])
    BY <1>0, <1>5, NewRows DEF OK
  <2> QED
    BY <1>1, <1>2, <1>5, <2>1, NewRows
<1>6. ASSUME NEW t \in Threads, NEW S \in SUBSET RowIds, \A r \in S : rows[r].tid = NoTid,
             rows' = [q \in RowIds |-> IF q \in S THEN [rows[q] EXCEPT !.tid = t] ELSE rows[q]]
      PROVE  RowStates'
  <2>1. /\ rows' \in Seq(RowType) /\ Len(rows') = Len(rows)
        /\ \A r \in RowIds : /\ rows'[r].begin = rows[r].begin /\ rows'[r].end = rows[r].end
        /\ \A r \in RowIds : r \notin S => rows'[r] = rows[r]
        /\ \A r \in S : rows'[r].tid = t
    BY <1>6, LockEffect
  <2>2. ASSUME NEW r \in RowIds PROVE OK(rows'[r])
    <3>1. CASE r \notin S
      BY <1>1, <2>1, <3>1
    <3>2. CASE r \in S
      BY <1>0, <1>1, <1>6, <2>1, <3>2 DEF OK
    <3> QED
      BY <3>1, <3>2
  <2> QED
    BY <1>4, <2>1, <2>2
<1>7. ASSUME NEW t \in Threads, CommitRows(t) PROVE RowStates'
  <2>1. /\ rows' \in Seq(RowType) /\ Len(rows') = Len(rows) /\ lastCommitId' = lastCommitId + 1
        /\ \A r \in RowIds : r \notin Held(t) => rows'[r] = rows[r]
        /\ \A r \in NewlyHeld(t) : /\ rows'[r].begin = lastCommitId + 1 /\ rows'[r].end = MAX_COMMIT_ID
        /\ \A r \in Held(t) \ NewlyHeld(t) : /\ rows'[r].begin = rows[r].begin
                                              /\ rows'[r].tid = t
    BY <1>7, CommitEffect
  <2>2. ASSUME NEW r \in RowIds PROVE OK(rows'[r])
    <3>1. CASE r \notin Held(t)
      BY <1>1, <2>1, <3>1
    <3>2. CASE r \in NewlyHeld(t)
      BY <1>0, <2>1, <3>2 DEF OK
    <3>3. CASE r \in Held(t) \ NewlyHeld(t)
      <4>1. rows[r].begin # MAX_COMMIT_ID
        BY <3>3 DEF NewlyHeld
      <4> QED
        BY <1>0, <2>1, <3>3, <4>1 DEF OK
    <3> QED
      BY <3>1, <3>2, <3>3
  <2> QED
    BY <1>4, <2>1, <2>2
<1>8. ASSUME NEW t \in Threads, RollbackRows(t) PROVE RowStates'
  <2>1. /\ rows' \in Seq(RowType) /\ Len(rows') = Len(rows)
        /\ \A r \in RowIds : r \notin Held(t) => rows'[r] = rows[r]
        /\ \A r \in NewlyHeld(t) : rows'[r].begin = 0 /\ rows'[r].end = 0
        /\ \A r \in Held(t) \ NewlyHeld(t) : rows'[r].begin = rows[r].begin /\ rows'[r].end = MAX_COMMIT_ID
    BY <1>8, RollbackEffect
  <2>2. ASSUME NEW r \in RowIds PROVE OK(rows'[r])
    <3>1. CASE r \notin Held(t)
      BY <1>1, <2>1, <3>1
    <3>2. CASE r \in NewlyHeld(t)
      <4>1. MAX_COMMIT_ID # 0
        BY <1>0
      <4> QED
        BY <2>1, <3>2, <4>1 DEF OK
    <3>3. CASE r \in Held(t) \ NewlyHeld(t)
      <4>1. rows[r].begin # MAX_COMMIT_ID
        BY <3>3 DEF NewlyHeld
      <4> QED
        BY <1>0, <2>1, <3>3, <4>1 DEF OK
    <3> QED
      BY <3>1, <3>2, <3>3
  <2> QED
    BY <1>4, <2>1, <2>2
<1>9. ASSUME NEW t \in Threads, Steps(t) PROVE RowStates'
  BY <1>3, <1>5, <1>6, <1>7, <1>8, <1>9, RowCases
<1>10. CASE PhysicalDelete \/ UNCHANGED vars
  BY <1>3, <1>10, RemoverFrame, IdleFrame
<1> QED
  BY <1>9, <1>10 DEF Next, Steps, Threads

\* A thread holds rows only between the operator that has taken them and its commit or
\* rollback.
LEMMA LocksStep ==
  ASSUME PcRanges, Ranges, RowRanges, Bounds, RowStates, Locks, RowRanges', lastCommitId < MAX_COMMIT_ID,
         lastCommitId' < MAX_COMMIT_ID, [Next]_vars
  PROVE  Locks'
<1>0. /\ lastCommitId \in Nat /\ MAX_COMMIT_ID \in Nat /\ NoTid \notin Threads /\ Plugin \notin Tx
      /\ Threads = Tx \cup {Plugin} /\ pc \in [Threads -> ClientPcs \cup PluginPcs] /\ snapshot \in [Threads -> Nat]
      /\ Plugin \in Threads
  BY MaxFacts, TxAssumption DEF Ranges, Threads, PcRanges
<1> DEFINE LC(t) == \A r \in RowIds : rows[r].tid = t =>
                      /\ pc[t] \in {"written", "release", "gone"}
                      /\ rows[r].end = MAX_COMMIT_ID => pc[t] = "written"
                      /\ rows[r].begin = MAX_COMMIT_ID => rows[r].key = t
           LP == \A r \in RowIds : rows[r].tid = Plugin =>
                      /\ rows[r].end = MAX_COMMIT_ID => pc[Plugin] \in {"insert", "conflict", "commit"}
                      /\ rows[r].begin = MAX_COMMIT_ID => pc[Plugin] = "commit"
                      /\ pc[Plugin] \in {"register", "validate"} => rows[r].end <= snapshot[Plugin]
<1>1. LP /\ \A t \in Tx : LC(t)
  BY DEF Locks
<1>2. LP' /\ (\A t \in Tx : LC(t)') => Locks'
  BY DEF Locks
<1>3. \A r \in RowIds : /\ rows[r].tid = NoTid => rows[r].begin # MAX_COMMIT_ID
                        /\ rows[r].begin = MAX_COMMIT_ID => rows[r].end = MAX_COMMIT_ID
  BY DEF RowStates
<1>4. ASSUME rows' = rows, NEW t \in Tx, Untouched(t) PROVE LC(t)'
  BY <1>1, <1>4 DEF RowIds, Untouched
<1>5. ASSUME rows' = rows, Untouched(Plugin) PROVE LP'
  BY <1>1, <1>5 DEF RowIds, Untouched
<1>6. ASSUME NEW t \in Threads, Steps(t), NEW u \in Tx, u # t PROVE LC(u)'
  <2>1. Untouched(u)
    BY <1>0, <1>6, ClientFrame, PluginFrame DEF Steps
  <2>2. \A r \in RowIds' : rows'[r].tid = u => r \in RowIds /\ rows'[r] = rows[r]
    BY <1>0, <1>6, OwnRows
  <2> QED
    BY <1>1, <2>1, <2>2 DEF Untouched
<1>7. ASSUME NEW t \in Tx, Client(t) PROVE LP'
  <2>1. Untouched(Plugin)
    BY <1>0, <1>7, ClientFrame DEF Steps
  <2>2. \A r \in RowIds' : rows'[r].tid = Plugin => r \in RowIds /\ rows'[r] = rows[r]
    <3>1. t \in Threads /\ Plugin \in Threads \ {t} /\ Steps(t)
      BY <1>0, <1>7 DEF Steps
    <3> QED
      BY <3>1, OwnRows
  <2> QED
    BY <1>1, <2>1, <2>2 DEF Untouched
<1>8. ASSUME NEW t \in Tx, Client(t) PROVE LC(t)'
  <2>0. t \in Threads /\ t # NoTid /\ RowIds = 1..Len(rows)
    BY <1>0, RowFacts
  <2>1. CASE Begin(t) \/ RegisterTx(t) \/ StartGetTable(t) \/ ExcludeChunk(t) \/ IncludeChunk(t) \/ Validate(t) \/ FinishRead(t)
    <3>1. rows' = rows /\ pc[t] \in {"idle", "register", "active", "exclude", "include", "validate", "validated"}
      BY <2>1 DEF Begin, ReadSnapshot, RegisterTx, Register, StartGetTable, ExcludeChunk, IncludeChunk, Validate,
       FinishRead, Goto, tableVars
    <3>2. \A r \in RowIds : rows[r].tid # t
      BY <1>1, <3>1
    <3> QED
      BY <3>1, <3>2 DEF RowIds
  <2>2. CASE Insert(t)
    <3>1. pc[t] = "active" /\ pc'[t] = "written" /\ InsertRows(t, <<t>>) /\ <<t>> \in Seq(Keys)
      BY <1>0, <2>0, <2>2 DEF Insert, Goto, Keys
    <3>2. \A r \in RowIds : rows[r].tid # t
      BY <1>1, <3>1
    <3>3. \A r \in RowIds' \ RowIds : rows'[r].key = t
      BY <2>2, OneNewRow
    <3>4. \A r \in RowIds : rows'[r] = rows[r]
      BY <2>0, <3>1, NewRows
    <3> QED
      BY <3>1, <3>2, <3>3, <3>4
  <2>3. CASE Delete(t)
    <3>0. pc[t] = "validated"
      BY <2>3 DEF Delete, Goto
    <3>1. \A r \in RowIds : rows[r].tid # t
      BY <1>1, <3>0
    <3>2. PICK r \in RowIds :
            \/ /\ rows[r].tid = NoTid /\ Goto(t, "validated", "written")
               /\ rows' = [q \in RowIds |-> IF q \in {r} THEN [rows[q] EXCEPT !.tid = t] ELSE rows[q]]
            \/ rows[r].tid # NoTid /\ Goto(t, "validated", "release") /\ rows' = rows
      BY <2>3, DeleteLocks
    <3>3. CASE rows' = rows
      BY <3>1, <3>3 DEF RowIds
    <3>4. CASE /\ rows[r].tid = NoTid /\ Goto(t, "validated", "written")
               /\ rows' = [q \in RowIds |-> IF q \in {r} THEN [rows[q] EXCEPT !.tid = t] ELSE rows[q]]
      <4>1. pc'[t] = "written" /\ {r} \in SUBSET RowIds
        BY <1>0, <2>0, <3>4 DEF Goto
      <4>2. /\ Len(rows') = Len(rows)
            /\ \A q \in RowIds : rows'[q].begin = rows[q].begin
            /\ \A q \in RowIds : q # r => rows'[q] = rows[q]
        BY <2>0, <3>4, <4>1, LockEffect
      <4>3. RowIds' = RowIds
        BY SMTT(60), <2>0, <4>2 DEF RowIds, RowRanges
      <4>4. rows'[r].begin # MAX_COMMIT_ID
        BY <1>3, <3>4, <4>2
      <4> QED
        BY <3>1, <4>1, <4>2, <4>3, <4>4
    <3> QED
      BY <3>2, <3>3, <3>4
  <2>4. CASE Commit(t)
    <3>1. pc'[t] = "release" /\ CommitRows(t)
      BY <1>0, <2>0, <2>4 DEF Commit, Goto
    <3>2. /\ rows' \in Seq(RowType) /\ Len(rows') = Len(rows) /\ lastCommitId' = lastCommitId + 1
          /\ \A r \in RowIds : r \notin Held(t) => rows'[r] = rows[r]
          /\ \A r \in NewlyHeld(t) : rows'[r].tid = NoTid
          /\ \A r \in Held(t) \ NewlyHeld(t) : rows'[r].begin = rows[r].begin /\ rows'[r].end = lastCommitId + 1
      BY <2>0, <3>1, CommitEffect
    <3>3. RowIds' = RowIds
      BY <2>0, <3>2 DEF RowIds
    <3>4. ASSUME NEW r \in RowIds, rows'[r].tid = t
          PROVE  rows'[r].end # MAX_COMMIT_ID /\ (rows'[r].begin = MAX_COMMIT_ID => rows'[r].key = t)
      <4>1. CASE r \notin Held(t)
        BY <1>1, <1>3, <3>2, <3>4, <4>1 DEF Held
      <4>2. CASE r \in NewlyHeld(t)
        BY <2>0, <3>2, <3>4, <4>2
      <4>3. CASE r \in Held(t) \ NewlyHeld(t)
        BY <1>0, <3>2, <4>3 DEF NewlyHeld
      <4> QED
        BY <4>1, <4>2, <4>3
    <3> QED
      BY <3>1, <3>3, <3>4
  <2>5. CASE Rollback(t)
    <3>1. pc'[t] = "release" /\ RollbackRows(t)
      BY <1>0, <2>0, <2>5 DEF Rollback, Goto
    <3>2. /\ rows' \in Seq(RowType) /\ Len(rows') = Len(rows)
          /\ \A r \in RowIds : r \notin Held(t) => rows'[r] = rows[r]
          /\ \A r \in Held(t) : rows'[r].tid = NoTid
      BY <2>0, <3>1, RollbackEffect
    <3>3. RowIds' = RowIds
      BY <2>0, <3>2 DEF RowIds
    <3>4. ASSUME NEW r \in RowIds, rows'[r].tid = t
          PROVE  rows'[r].end # MAX_COMMIT_ID /\ (rows'[r].begin = MAX_COMMIT_ID => rows'[r].key = t)
      BY <1>1, <1>3, <2>0, <3>2, <3>4 DEF Held
    <3> QED
      BY <3>1, <3>3, <3>4
  <2>6. CASE EndTx(t)
    <3>1. rows' = rows /\ pc[t] = "release" /\ pc'[t] = "gone"
      BY <1>0, <2>0, <2>6 DEF EndTx, Deregister, Goto, tableVars
    <3> QED
      BY <1>1, <3>1 DEF RowIds
  <2> QED
    BY <1>8, <2>1, <2>2, <2>3, <2>4, <2>5, <2>6 DEF Client
<1>9. ASSUME LogicalDelete PROVE LP'
  <2>0. Plugin # NoTid /\ RowIds = 1..Len(rows)
    BY <1>0, RowFacts
  <2>1. CASE StartLogicalLoop \/ NextChunk \/ SetCleanupCommitId \/ PushChunk \/ EndLogicalDelete \/ ValidateChunk
    <3>1. /\ rows' = rows /\ pc[Plugin] \notin {"insert", "conflict", "commit"} /\ pc'[Plugin] \notin {"register", "validate"}
      BY <1>0, <2>1 DEF StartLogicalLoop, NextChunk, SetCleanupCommitId, PushChunk, EndLogicalDelete, ValidateChunk, Goto, tableVars
    <3> QED
      BY <1>1, <3>1 DEF RowIds
  <2>2. CASE BeginLogicalDelete
    <3>1. rows' = rows /\ pc[Plugin] = "scan" /\ pc'[Plugin] = "register" /\ snapshot'[Plugin] = lastCommitId
      BY <1>0, <2>2 DEF BeginLogicalDelete, ReadSnapshot, Goto, tableVars
    <3>2. ASSUME NEW r \in RowIds, rows[r].tid = Plugin PROVE rows[r].end # MAX_COMMIT_ID /\ rows[r].end <= lastCommitId
      BY <1>1, <3>1, <3>2 DEF Bounds
    <3> QED
      BY <1>1, <3>1, <3>2 DEF RowIds
  <2>3. CASE RegisterPlugin
    <3>1. rows' = rows /\ pc[Plugin] = "register" /\ pc'[Plugin] = "validate" /\ snapshot' = snapshot
      BY <1>0, <2>3 DEF RegisterPlugin, Register, Goto, tableVars
    <3> QED
      BY <1>1, <3>1 DEF RowIds
  <2>4. CASE DeleteFound
    <3>1. pc[Plugin] = "delete" /\ pc'[Plugin] \in {"insert", "conflict"}
      BY <1>0, <2>4 DEF DeleteFound, Goto
    <3>2. /\ Reached \in SUBSET RowIds /\ \A r \in Reached : rows[r].tid = NoTid
          /\ rows' = [r \in RowIds |-> IF r \in Reached THEN [rows[r] EXCEPT !.tid = Plugin] ELSE rows[r]]
      BY <2>4, PluginLocks DEF Reached
    <3>3. /\ Len(rows') = Len(rows)
          /\ \A q \in RowIds : rows'[q].begin = rows[q].begin
          /\ \A q \in RowIds : q \notin Reached => rows'[q] = rows[q]
      BY <1>0, <3>2, LockEffect
    <3>4. RowIds' = RowIds
      BY <2>0, <3>3 DEF RowIds, RowRanges
    <3>5. \A r \in Reached : rows'[r].begin # MAX_COMMIT_ID
      BY <1>3, <3>2, <3>3
    <3> QED
      BY <1>1, <3>1, <3>3, <3>4, <3>5
  <2>5. CASE ReinsertFound
    <3>1. pc'[Plugin] = "commit"
      BY <1>0, <2>5 DEF ReinsertFound, Goto
    <3> QED
      BY <3>1
  <2>6. CASE RollbackLogicalDelete
    <3>1. pc[Plugin] = "conflict" /\ pc'[Plugin] = "release" /\ RollbackRows(Plugin)
      BY <1>0, <2>6 DEF RollbackLogicalDelete, Goto
    <3>2. /\ rows' \in Seq(RowType) /\ Len(rows') = Len(rows)
          /\ \A r \in RowIds : r \notin Held(Plugin) => rows'[r] = rows[r]
          /\ \A r \in Held(Plugin) : rows'[r].tid = NoTid
      BY <1>0, <3>1, RollbackEffect
    <3>3. RowIds' = RowIds
      BY <2>0, <3>2 DEF RowIds
    <3>4. ASSUME NEW r \in RowIds, rows'[r].tid = Plugin
          PROVE  rows'[r].end # MAX_COMMIT_ID /\ rows'[r].begin # MAX_COMMIT_ID
      BY <1>1, <1>3, <2>0, <3>1, <3>2, <3>4 DEF Held
    <3> QED
      BY <3>1, <3>3, <3>4
  <2>7. CASE CommitLogicalDelete
    <3>1. pc'[Plugin] = "cleanup" /\ CommitRows(Plugin)
      BY <1>0, <2>7 DEF CommitLogicalDelete, Goto
    <3>2. /\ rows' \in Seq(RowType) /\ Len(rows') = Len(rows) /\ lastCommitId' = lastCommitId + 1
          /\ \A r \in RowIds : r \notin Held(Plugin) => rows'[r] = rows[r]
          /\ \A r \in NewlyHeld(Plugin) : rows'[r].tid = NoTid
          /\ \A r \in Held(Plugin) \ NewlyHeld(Plugin) : rows'[r].begin = rows[r].begin /\ rows'[r].end = lastCommitId + 1
      BY <1>0, <3>1, CommitEffect
    <3>3. RowIds' = RowIds
      BY <2>0, <3>2 DEF RowIds
    <3>4. ASSUME NEW r \in RowIds, rows'[r].tid = Plugin
          PROVE  rows'[r].end # MAX_COMMIT_ID /\ rows'[r].begin # MAX_COMMIT_ID
      <4>1. CASE r \notin Held(Plugin)
        BY <1>3, <3>2, <3>4, <4>1 DEF Held
      <4>2. CASE r \in NewlyHeld(Plugin)
        BY <2>0, <3>2, <3>4, <4>2
      <4>3. CASE r \in Held(Plugin) \ NewlyHeld(Plugin)
        BY <1>0, <3>2, <4>3 DEF NewlyHeld, Held
      <4> QED
        BY <4>1, <4>2, <4>3
    <3> QED
      BY <3>1, <3>3, <3>4
  <2> QED
    BY <1>9, <2>1, <2>2, <2>3, <2>4, <2>5, <2>6, <2>7 DEF LogicalDelete
<1> HIDE DEF LP, LC
<1>10. CASE \E t \in Tx : Client(t)
  BY <1>0, <1>2, <1>6, <1>7, <1>8, <1>10 DEF Steps
<1>11. CASE LogicalDelete
  BY <1>0, <1>2, <1>6, <1>9, <1>11 DEF Steps
<1>12. CASE PhysicalDelete \/ UNCHANGED vars
  BY <1>0, <1>2, <1>4, <1>5, <1>12, RemoverFrame, IdleFrame
<1> QED
  BY <1>10, <1>11, <1>12 DEF Next

\* Where a client may have come from.
LEMMA ClientMoves ==
  ASSUME PcRanges, NEW t \in Tx, Client(t)
  PROVE  /\ pc'[t] \notin {"written", "release", "gone"} => pc[t] \notin {"written", "release", "gone"} /\ ~Insert(t)
         /\ pc'[t] = "written" => pc[t] \in {"active", "validated"} /\ (Insert(t) \/ Delete(t))
<1> USE DEF Goto, PcRanges, Threads
<1>1. CASE Begin(t) \/ RegisterTx(t)
  BY <1>1 DEF Begin, ReadSnapshot, RegisterTx, Register, Insert
<1>2. CASE Insert(t)
  BY <1>2 DEF Insert
<1>3. CASE StartGetTable(t)
  BY <1>3 DEF StartGetTable, Insert
<1>4. CASE ExcludeChunk(t)
  BY <1>4 DEF ExcludeChunk, Insert
<1>5. CASE IncludeChunk(t)
  BY <1>5 DEF IncludeChunk, Insert
<1>6. CASE Validate(t) \/ FinishRead(t) \/ Commit(t) \/ Rollback(t) \/ EndTx(t)
  BY <1>6 DEF Validate, FinishRead, Commit, Rollback, EndTx, Deregister, Insert
<1>7. CASE Delete(t)
  BY <1>7 DEF Delete
<1> QED
  BY <1>1, <1>2, <1>3, <1>4, <1>5, <1>6, <1>7 DEF Client

\* The keys of new rows: a client's own, or those of rows that the plugin has found.
LEMMA NewKeys ==
  ASSUME Ranges, RowRanges, Bounds, PcRanges, NEW s \in Threads, Steps(s), NEW r \in RowIds' \ RowIds
  PROVE  /\ s \in Tx => Insert(s) /\ rows'[r].key = s
         /\ s = Plugin => ReinsertFound /\ \E q \in found[Plugin] : q \in RowIds /\ rows'[r].key = rows[q].key
         /\ rows'[r].tid = s /\ rows'[r].begin = MAX_COMMIT_ID /\ rows'[r].end = MAX_COMMIT_ID
<1>0. RowIds = 1..Len(rows) /\ Len(rows) \in Nat /\ Plugin \notin Tx /\ Plugin \in Threads
  BY RowFacts, TxAssumption DEF Threads
<1>1. ASSUME Len(rows') = Len(rows), rows' \in Seq(RowType) PROVE FALSE
  BY <1>0, <1>1 DEF RowIds
<1>2. rows' # rows /\ ~CommitRows(s) /\ ~RollbackRows(s)
  <2>1. ~CommitRows(s)
    <3>1. ASSUME CommitRows(s) PROVE FALSE
      <4>1. RowIds' = RowIds
        BY <3>1 DEF CommitRows, RowIds
      <4> QED
        BY <4>1
    <3> QED
      BY <3>1
  <2>2. ~RollbackRows(s)
    <3>1. ASSUME RollbackRows(s) PROVE FALSE
      <4>1. RowIds' = RowIds
        BY <3>1 DEF RollbackRows, RowIds
      <4> QED
        BY <4>1
    <3> QED
      BY <3>1
  <2> QED
    BY <2>1, <2>2 DEF RowIds
<1>3. ASSUME NEW S \in SUBSET RowIds, rows' = [q \in RowIds |-> IF q \in S THEN [rows[q] EXCEPT !.tid = s] ELSE rows[q]]
      PROVE  FALSE
  <2>1. RowIds' = RowIds
    BY <1>3 DEF RowIds
  <2> QED
    BY <2>1
<1>4. (s \in Tx /\ Insert(s)) \/ (s = Plugin /\ ReinsertFound)
  BY <1>2, <1>3, RowCases
<1>5. CASE s \in Tx
  <2>1. Insert(s) /\ s # Plugin
    BY <1>0, <1>4, <1>5
  <2> QED
    BY <1>5, <2>1, OneNewRow
<1>6. CASE s = Plugin
  <2>1. found[Plugin] \subseteq RowIds /\ ReinsertFound
    BY <1>0, <1>4, <1>6 DEF Bounds
  <2>2. PICK keys \in Seq(Keys) :
           /\ InsertRows(Plugin, keys)
           /\ \A i \in 1..Len(keys) : \E q \in found[Plugin] : keys[i] = rows[q].key
    BY <2>1, ReinsertedKeys
  <2>3. PICK i \in 1..Len(keys) : /\ rows'[r].key = keys[i] /\ rows'[r].tid = Plugin
                                  /\ rows'[r].begin = MAX_COMMIT_ID /\ rows'[r].end = MAX_COMMIT_ID
    BY <1>0, <2>2, NewRows
  <2> QED
    BY <1>0, <1>6, <2>1, <2>2, <2>3
<1> QED
  BY <1>4, <1>5, <1>6

\* A row whose begin commit id a step sets was inserted by the thread that steps.
LEMMA SetBegin ==
  ASSUME Ranges, RowRanges, Bounds, PcRanges, Locks, lastCommitId < MAX_COMMIT_ID,
         NEW s \in Threads, Steps(s), NEW r \in RowIds, rows'[r].begin # rows[r].begin
  PROVE  /\ r \in NewlyHeld(s)
         /\ s \in Tx => rows[r].key = s
         /\ s = Plugin => pc[Plugin] = "commit"
<1>1. r \in NewlyHeld(s)
  <2>1. rows' # rows
    OBVIOUS
  <2>2. ASSUME NEW keys \in Seq(Keys), InsertRows(s, keys) PROVE FALSE
    BY <2>2, NewRows
  <2>3. ASSUME NEW S \in SUBSET RowIds, rows' = [q \in RowIds |-> IF q \in S THEN [rows[q] EXCEPT !.tid = s] ELSE rows[q]]
        PROVE  FALSE
    BY <2>3, LockEffect
  <2>4. CommitRows(s) => r \in NewlyHeld(s)
    BY CommitEffect
  <2>5. RollbackRows(s) => r \in NewlyHeld(s)
    BY RollbackEffect
  <2> QED
    BY <2>1, <2>2, <2>3, <2>4, <2>5, RowCases
<1> QED
  BY <1>1 DEF NewlyHeld, Held, Locks

\* A client's key is in the table only once it has been inserted.
LEMMA FreshStep ==
  ASSUME PcRanges, Ranges, RowRanges, Bounds, Locks, Fresh, Course, RowCourse, RowRanges', Ranges',
         lastCommitId < MAX_COMMIT_ID, [Next]_vars
  PROVE  Fresh'
<1>0. /\ Plugin \notin Tx /\ Threads = Tx \cup {Plugin} /\ Plugin \in Threads
      /\ lastCommitId \in Nat /\ MAX_COMMIT_ID \in Nat
      /\ \A r \in RowIds : r \in RowIds' /\ rows'[r].key = rows[r].key
  BY TxAssumption, MaxFacts, SnapKept DEF Threads, Ranges
<1> DEFINE F(t) == /\ pc[t] \notin {"written", "release", "gone"} => \A r \in RowIds : rows[r].key # t
                   /\ pc[t] = "written" => \A r \in RowIds : rows[r].key = t =>
                        rows[r].begin = MAX_COMMIT_ID /\ \A q \in RowIds : rows[q].key = t => q = r
<1>1. \A t \in Tx : F(t)
  BY DEF Fresh
<1>2. ASSUME NEW t \in Tx, Untouched(t), rows' = rows PROVE F(t)'
  BY <1>1, <1>2 DEF Untouched, RowIds
\* What the plugin has found is in a snapshot.
<1>3. ASSUME NEW q \in found[Plugin], pc[Plugin] \in Moving PROVE q \in RowIds /\ rows[q].begin # MAX_COMMIT_ID
  <2>1. q \in Snap(snapshot[Plugin]) /\ snapshot[Plugin] <= lastCommitId /\ snapshot[Plugin] \in Nat
    BY <1>0, <1>3 DEF Course, Bounds, Ranges
  <2> QED
    BY <1>0, <2>1 DEF Snap
<1>4. ASSUME NEW t \in Tx, NEW s \in Threads, Steps(s), s # t, pc[t] \notin {"release", "gone"}, NEW r \in RowIds' \ RowIds
      PROVE  rows'[r].key # t
  <2>1. CASE s \in Tx
    BY <1>4, <2>1, NewKeys
  <2>2. CASE s = Plugin
    <3>1. PICK q \in found[Plugin] : ReinsertFound /\ q \in RowIds /\ rows'[r].key = rows[q].key
      BY <1>4, <2>2, NewKeys
    <3>2. pc[Plugin] \in Moving
      BY <3>1 DEF ReinsertFound, Goto, Moving
    <3>3. rows[q].begin # MAX_COMMIT_ID
      BY <1>3, <3>1, <3>2
    <3> QED
      BY <1>1, <1>4, <3>1, <3>3
  <2> QED
    BY <1>0, <2>1, <2>2
<1>5. ASSUME NEW t \in Tx, NEW s \in Threads, Steps(s), s # t, pc[t] = "written", NEW r \in RowIds, rows[r].key = t
      PROVE  rows'[r].begin = MAX_COMMIT_ID
  <2>1. rows[r].begin = MAX_COMMIT_ID
    BY <1>1, <1>5
  <2>2. ASSUME rows'[r].begin # rows[r].begin PROVE FALSE
    <3>1. /\ r \in NewlyHeld(s)
          /\ s \in Tx => rows[r].key = s
          /\ s = Plugin => pc[Plugin] = "commit"
      BY <1>5, <2>2, SetBegin
    <3>2. s = Plugin
      BY <1>0, <1>5, <3>1
    <3>3. rows[r].key \in KeysOf(found[Plugin])
      BY <3>1, <3>2 DEF Course, KeysOf
    <3>4. PICK q \in found[Plugin] : rows[q].key = t
      BY <1>5, <3>3 DEF KeysOf
    <3>5. q \in RowIds /\ rows[q].begin # MAX_COMMIT_ID
      BY <1>3, <3>1, <3>2 DEF Moving
    <3> QED
      BY <1>1, <1>5, <3>4, <3>5
  <2> QED
    BY <2>1, <2>2
<1>6. ASSUME NEW t \in Tx, NEW s \in Threads, Steps(s), s # t PROVE F(t)'
  <2>1. Untouched(t)
    BY <1>0, <1>6, ClientFrame, PluginFrame DEF Steps
  <2>2. CASE pc[t] \notin {"written", "release", "gone"}
    <3>1. \A r \in RowIds' : rows'[r].key # t
      BY <1>0, <1>1, <1>4, <1>6, <2>2
    <3> QED
      BY <2>1, <2>2, <3>1 DEF Untouched
  <2>3. CASE pc[t] = "written"
    <3>1. \A r \in RowIds' : rows'[r].key = t => r \in RowIds /\ rows[r].key = t
      BY <1>0, <1>4, <1>6, <2>3
    <3>2. \A r \in RowIds' : rows'[r].key = t => rows'[r].begin = MAX_COMMIT_ID
      BY <1>5, <1>6, <2>3, <3>1
    <3>3. \A r, q \in RowIds' : rows'[r].key = t /\ rows'[q].key = t => q = r
      BY <1>1, <2>3, <3>1
    <3> QED
      BY <2>1, <2>3, <3>2, <3>3 DEF Untouched
  <2>4. CASE pc[t] \in {"release", "gone"}
    BY <2>1, <2>4 DEF Untouched
  <2> QED
    BY <2>2, <2>3, <2>4
<1>7. ASSUME NEW t \in Tx, Client(t) PROVE F(t)'
  <2>0. t \in Threads /\ Steps(t)
    BY <1>0, <1>7 DEF Steps
  <2>1. CASE pc'[t] \notin {"written", "release", "gone"}
    <3>1. pc[t] \notin {"written", "release", "gone"} /\ ~Insert(t)
      BY <1>7, <2>1, ClientMoves
    <3>2. \A r \in RowIds' : r \in RowIds
      BY <2>0, <3>1, NewKeys
    <3>3. \A r \in RowIds' : rows'[r].key # t
      BY <1>0, <1>1, <3>1, <3>2
    <3> QED
      BY <2>1, <3>3
  <2>2. CASE pc'[t] = "written"
    <3>1. pc[t] \in {"active", "validated"} /\ (Insert(t) \/ Delete(t))
      BY <1>7, <2>2, ClientMoves
    <3>2. \A r \in RowIds : rows'[r].key # t
      BY <1>0, <1>1, <3>1
    <3>3. \A r \in RowIds' \ RowIds : rows'[r].begin = MAX_COMMIT_ID
      BY <2>0, NewKeys
    <3>4. ASSUME NEW r \in RowIds' \ RowIds, NEW q \in RowIds' \ RowIds PROVE q = r
      <4>1. Insert(t)
        BY <2>0, NewKeys
      <4> QED
        BY <4>1, OneNewRow
    <3> QED
      BY <2>2, <3>2, <3>3, <3>4
  <2>3. CASE pc'[t] \in {"release", "gone"}
    BY <2>3
  <2> QED
    BY <2>1, <2>2, <2>3
<1>8. ASSUME NEW t \in Tx PROVE F(t)'
  <2> HIDE DEF F
  <2>1. CASE \E s \in Tx : Client(s)
    BY <1>0, <1>6, <1>7, <2>1 DEF Steps
  <2>2. CASE LogicalDelete
    BY <1>0, <1>6, <2>2 DEF Steps
  <2>3. CASE PhysicalDelete \/ UNCHANGED vars
    BY <1>0, <1>2, <2>3, RemoverFrame, IdleFrame
  <2> QED
    BY <2>1, <2>2, <2>3 DEF Next
<1> QED
  BY <1>8 DEF Fresh

----------------------------------------------------------------------------
(* The snapshots and the history of the table.                             *)

\* A commit makes the next snapshot out of the last one.
LEMMA CommitSnap ==
  ASSUME Ranges, RowRanges, Bounds, Contents, lastCommitId < MAX_COMMIT_ID, lastCommitId + 1 < MAX_COMMIT_ID,
         NEW t \in Threads, CommitRows(t), NEW s \in Nat, s = lastCommitId + 1,
         \A r, q \in NewlyHeld(t) : rows[r].key = rows[q].key => r = q,
         \A r \in NewlyHeld(t) : \A q \in Snap(lastCommitId) \ Held(t) : rows[r].key # rows[q].key
  PROVE  /\ KeysOf(Snap(s))' = content'[s]
         /\ \A r, q \in Snap(s)' : rows'[r].key = rows'[q].key => r = q
<1> DEFINE D == Held(t) \ NewlyHeld(t)
           N == NewlyHeld(t)
           L == Snap(lastCommitId)
<1>0. lastCommitId \in Nat /\ MAX_COMMIT_ID \in Nat /\ 1 <= lastCommitId /\ RowIds = 1..Len(rows) /\ Len(rows) \in Nat
  BY SMTT(60), MaxFacts, RowFacts DEF Ranges
<1>1. /\ rows' \in Seq(RowType) /\ Len(rows') = Len(rows)
      /\ \A r \in RowIds : rows'[r].key = rows[r].key
      /\ \A r \in RowIds : r \notin Held(t) => rows'[r] = rows[r]
      /\ \A r \in N : rows'[r].begin = lastCommitId + 1 /\ rows'[r].end = MAX_COMMIT_ID
      /\ \A r \in D : rows'[r].end = lastCommitId + 1
  BY CommitEffect
<1>2. RowIds' = RowIds
  BY <1>0, <1>1 DEF RowIds
<1>3. ASSUME NEW r \in RowIds
      PROVE  /\ rows[r].begin \in Nat /\ rows[r].end \in Nat
             /\ rows[r].begin = MAX_COMMIT_ID \/ rows[r].begin <= lastCommitId
             /\ rows[r].end = MAX_COMMIT_ID \/ rows[r].end <= lastCommitId
  BY RowFacts DEF Bounds
<1>4. N \subseteq RowIds /\ D \subseteq RowIds /\ L \subseteq RowIds
  BY DEF NewlyHeld, Held, Snap
<1>5. D \subseteq L
  <2>1. ASSUME NEW r \in D PROVE r \in RowIds /\ rows[r].end = MAX_COMMIT_ID /\ rows[r].begin # MAX_COMMIT_ID
    BY DEF NewlyHeld, Held
  <2>2. ASSUME NEW r \in D PROVE rows[r].begin <= lastCommitId /\ lastCommitId < rows[r].end
    BY <1>0, <1>3, <2>1
  <2> QED
    BY <2>1, <2>2 DEF Snap
<1>6. Snap(s)' = (L \ D) \cup N
  <2>1. ASSUME NEW r \in RowIds
        PROVE  (rows'[r].begin <= s /\ s < rows'[r].end) <=> (r \in L /\ r \notin D) \/ r \in N
    <3>1. CASE r \notin Held(t)
      <4>1. r \notin D /\ r \notin N /\ rows'[r] = rows[r]
        BY <1>1, <3>1 DEF NewlyHeld
      <4>2. (rows[r].begin <= s /\ s < rows[r].end) <=> (rows[r].begin <= lastCommitId /\ lastCommitId < rows[r].end)
        BY <1>0, <1>3
      <4> QED
        BY <4>1, <4>2 DEF Snap
    <3>2. CASE r \in N
      BY <1>0, <1>1, <3>2
    <3>3. CASE r \in D
      BY <1>0, <1>1, <3>3
    <3> QED
      BY <3>1, <3>2, <3>3
  <2> QED
    BY <1>2, <1>4, <2>1 DEF Snap
<1>7. content'[s] = (content[lastCommitId] \ KeysOf(D)) \cup KeysOf(N)
  <2> DEFINE mine == {r \in RowIds : rows[r].tid = t /\ rows[r].end = MAX_COMMIT_ID}
             inserted == {r \in mine : rows[r].begin = MAX_COMMIT_ID}
             new == (content[lastCommitId] \ KeysOf(mine \ inserted)) \cup KeysOf(inserted)
  <2>1. content' = Append(content, new)
    BY DEF CommitRows
  <2>2. mine = Held(t) /\ inserted = N
    BY DEF Held, NewlyHeld
  <2> HIDE DEF mine, inserted
  <2>3. new = (content[lastCommitId] \ KeysOf(D)) \cup KeysOf(N)
    BY <2>2
  <2> HIDE DEF new
  <2>4. s = Len(content) + 1 /\ content \in Seq(SUBSET Keys)
    BY DEF Bounds, Ranges
  <2> QED
    BY <2>1, <2>3, <2>4
<1>8. /\ content[lastCommitId] = KeysOf(L)
      /\ \A r, q \in L : rows[r].key = rows[q].key => r = q
  BY <1>0 DEF Contents
<1> HIDE DEF D, N, L
<1>9. KeysOf(L) \ KeysOf(D) = KeysOf(L \ D)
  BY <1>5, <1>8 DEF KeysOf
<1>10. KeysOf(Snap(s))' = KeysOf((L \ D) \cup N)
  <2>1. KeysOf(Snap(s))' = {rows'[r].key : r \in Snap(s)'}
    BY DEF KeysOf
  <2>2. \A r \in (L \ D) \cup N : rows'[r].key = rows[r].key
    BY <1>1, <1>4
  <2>3. {rows'[r].key : r \in (L \ D) \cup N} = {rows[r].key : r \in (L \ D) \cup N}
    BY <2>2
  <2> QED
    BY <1>6, <2>1, <2>3 DEF KeysOf
<1>11. KeysOf((L \ D) \cup N) = KeysOf(L \ D) \cup KeysOf(N)
  BY DEF KeysOf
<1>12. ASSUME NEW r \in (L \ D) \cup N, NEW q \in (L \ D) \cup N, rows[r].key = rows[q].key PROVE r = q
  <2>1. \A a, b \in N : rows[a].key = rows[b].key => a = b
    BY DEF N
  <2>2. \A a \in N : \A b \in L \ D : rows[a].key = rows[b].key => b \in N
    BY DEF N, L, D
  <2> QED
    BY <1>8, <1>12, <2>1, <2>2
<1>13. \A r \in (L \ D) \cup N : r \in RowIds
  BY <1>4
<1>14. KeysOf(Snap(s))' = content'[s]
  BY <1>7, <1>8, <1>9, <1>10, <1>11
<1>15. ASSUME NEW r \in (L \ D) \cup N, NEW q \in (L \ D) \cup N, rows'[r].key = rows'[q].key PROVE r = q
  BY <1>1, <1>12, <1>13, <1>15
<1> QED
  BY <1>6, <1>14, <1>15

\* Every snapshot is the table as of its commit id, each row once.
LEMMA ContentsStep ==
  ASSUME PcRanges, Ranges, RowRanges, Bounds, Locks, Fresh, Contents, Course, RowCourse, RowRanges', Ranges',
         lastCommitId < MAX_COMMIT_ID, lastCommitId' < MAX_COMMIT_ID, [Next]_vars
  PROVE  Contents'
<1>0. /\ Plugin \notin Tx /\ Threads = Tx \cup {Plugin} /\ Plugin \in Threads
      /\ lastCommitId \in Nat /\ MAX_COMMIT_ID \in Nat /\ 1 <= lastCommitId
  BY TxAssumption, MaxFacts DEF Threads, Ranges
<1>1. \A s \in 1..lastCommitId : /\ KeysOf(Snap(s))' = content[s]
                                 /\ \A r, q \in Snap(s)' : rows'[r].key = rows'[q].key => r = q
  <2> TAKE s \in 1..lastCommitId
  <2>1. s \in 0..lastCommitId
    BY <1>0
  <2>2. KeysOf(Snap(s)) = content[s] /\ \A r, q \in Snap(s) : rows[r].key = rows[q].key => r = q
    BY DEF Contents
  <2>3. Snap(s)' = Snap(s) /\ KeysOf(Snap(s))' = KeysOf(Snap(s))
    BY <2>1, SnapKept
  <2>4. \A r \in Snap(s) : rows'[r].key = rows[r].key
    BY SnapKept DEF Snap
  <2> QED
    BY <2>2, <2>3, <2>4
<1>2. CASE lastCommitId' = lastCommitId /\ content' = content
  BY <1>1, <1>2 DEF Contents
<1>3. ASSUME NEW t \in Threads, CommitRows(t),
             \A r, q \in NewlyHeld(t) : rows[r].key = rows[q].key => r = q,
             \A r \in NewlyHeld(t) : \A q \in Snap(lastCommitId) \ Held(t) : rows[r].key # rows[q].key
      PROVE  Contents'
  <2>1. lastCommitId' = lastCommitId + 1 /\ \A s \in 1..lastCommitId : content'[s] = content[s]
    <3>1. \E new : content' = Append(content, new)
      BY <1>3 DEF CommitRows
    <3>2. \A s \in 1..lastCommitId : content'[s] = content[s]
      BY <3>1 DEF Bounds, Ranges
    <3> QED
      BY <1>3, <3>2 DEF CommitRows
  <2>2. ASSUME NEW s \in 1..lastCommitId'
        PROVE  /\ KeysOf(Snap(s))' = content'[s]
               /\ \A r, q \in Snap(s)' : rows'[r].key = rows'[q].key => r = q
    <3>1. CASE s \in 1..lastCommitId
      BY <1>1, <2>1, <3>1
    <3>2. CASE s = lastCommitId + 1
      <4>1. s \in Nat /\ lastCommitId + 1 < MAX_COMMIT_ID
        BY <1>0, <2>1, <3>2
      <4> QED
        BY <1>3, <3>2, <4>1, CommitSnap
    <3> QED
      BY <1>0, <2>1, <3>1, <3>2
  <2> QED
    BY <2>2 DEF Contents
<1>4. ASSUME NEW t \in Tx, Commit(t) PROVE Contents'
  <2>1. CommitRows(t) /\ pc[t] = "written"
    BY <1>4 DEF Commit, Goto
  <2>2. \A r \in NewlyHeld(t) : r \in RowIds /\ rows[r].key = t
    BY DEF NewlyHeld, Held, Locks
  <2>3. ASSUME NEW r \in NewlyHeld(t), NEW q \in RowIds, rows[q].key = t PROVE q = r
    BY <2>1, <2>2, <2>3 DEF Fresh
  <2>4. \A q \in Snap(lastCommitId) \ Held(t) : q \in RowIds
    BY DEF Snap
  <2> QED
    BY <1>0, <1>3, <2>1, <2>2, <2>3, <2>4 DEF NewlyHeld
<1>5. CASE CommitLogicalDelete
  <2>1. CommitRows(Plugin) /\ pc[Plugin] = "commit"
    BY <1>5 DEF CommitLogicalDelete, Goto
  <2>2. /\ found[Plugin] \subseteq Snap(snapshot[Plugin])
        /\ Held(Plugin) = found[Plugin] \cup NewlyHeld(Plugin)
        /\ KeysOf(NewlyHeld(Plugin)) = KeysOf(found[Plugin])
        /\ \A r, q \in NewlyHeld(Plugin) : rows[r].key = rows[q].key => r = q
    BY <2>1 DEF Course, Moving
  <2>3. found[Plugin] \subseteq Snap(lastCommitId)
    <3>1. snapshot[Plugin] \in Nat /\ snapshot[Plugin] <= lastCommitId
      BY <1>0 DEF Ranges, Bounds
    <3>2. ASSUME NEW f \in found[Plugin] PROVE f \in Snap(lastCommitId)
      <4>1. f \in RowIds /\ rows[f].begin <= snapshot[Plugin] /\ rows[f].end = MAX_COMMIT_ID /\ rows[f].begin \in Nat
        BY <2>2, RowFacts DEF Snap, Held
      <4> QED
        BY <1>0, <3>1, <4>1 DEF Snap
    <3> QED
      BY <3>2
  <2>4. ASSUME NEW r \in NewlyHeld(Plugin), NEW q \in Snap(lastCommitId) \ Held(Plugin), rows[r].key = rows[q].key
        PROVE  FALSE
    <3>1. rows[r].key \in KeysOf(found[Plugin])
      BY <2>2 DEF KeysOf
    <3>2. PICK f \in found[Plugin] : rows[f].key = rows[q].key
      BY <2>4, <3>1 DEF KeysOf
    <3>3. f = q
      BY <1>0, <2>3, <3>2 DEF Contents
    <3> QED
      BY <2>2, <3>3
  <2> QED
    BY <1>0, <1>3, <2>1, <2>2, <2>4
<1>6. ASSUME NEW t \in Threads, Steps(t) PROVE Contents'
  BY <1>2, <1>4, <1>5, <1>6, RowCases
<1>7. CASE PhysicalDelete \/ UNCHANGED vars
  BY <1>2, <1>7, RemoverFrame, IdleFrame
<1> QED
  BY <1>0, <1>6, <1>7 DEF Next, Steps

----------------------------------------------------------------------------
(* The logical delete.                                                     *)

\* What the plugin knows of its chunk stays true whatever happens to the rows.
Gathered == /\ found[Plugin] \subseteq Snap(snapshot[Plugin])
            /\ \A r \in RowsIn(chunk[Plugin]) : rows[r].begin <= snapshot[Plugin] =>
                  r \in found[Plugin] \/ rows[r].end <= snapshot[Plugin]

\* Rows that the plugin has not found are not in its snapshot.
LEMMA GatheredKept ==
  ASSUME Ranges, RowRanges, Bounds, Gathered, RowCourse, RowRanges', Ranges', lastCommitId < MAX_COMMIT_ID,
         found'[Plugin] = found[Plugin], snapshot'[Plugin] = snapshot[Plugin], chunk'[Plugin] = chunk[Plugin]
  PROVE  Gathered'
<1>0. /\ snapshot[Plugin] \in 0..lastCommitId /\ snapshot[Plugin] \in Nat /\ lastCommitId \in Nat /\ MAX_COMMIT_ID \in Nat
      /\ RowIds = 1..Len(rows) /\ Len(rows) \in Nat /\ RowIds' = 1..Len(rows') /\ Len(rows') \in Nat
      /\ snapshot[Plugin] <= lastCommitId
  <2>1. /\ snapshot[Plugin] \in Nat /\ lastCommitId \in Nat /\ snapshot[Plugin] <= lastCommitId
    BY DEF Ranges, Bounds, Threads
  <2> QED
    BY <2>1, MaxFacts DEF RowIds, RowRanges
<1> DEFINE s == snapshot[Plugin]
<1>1. Snap(snapshot[Plugin])' = Snap(snapshot[Plugin])
  <2>1. \A k \in 0..lastCommitId : Snap(k)' = Snap(k)
    BY SnapKept
  <2> QED
    BY <1>0, <2>1 DEF Snap
<1>2. ASSUME NEW r \in RowsIn(chunk[Plugin])', rows'[r].begin <= s
      PROVE  r \in found[Plugin] \/ rows'[r].end <= s
  <2>1. r \in RowIds' /\ rows'[r].chunk = chunk[Plugin]
    BY <1>2 DEF RowsIn
  <2>2. CASE r \in Len(rows) + 1 .. Len(rows')
    BY <1>0, <1>2, <2>2 DEF RowCourse
  <2>3. CASE r \in RowIds
    <3>1. rows[r].chunk = chunk[Plugin] /\ rows[r].begin \in Nat /\ rows[r].end \in Nat
      BY <2>1, <2>3, RowFacts DEF RowCourse
    <3>2. rows[r].begin <= s => r \in found[Plugin] \/ rows[r].end <= s
      BY <2>3, <3>1 DEF Gathered, RowsIn
    <3> QED
      BY <1>0, <1>2, <2>3, <3>1, <3>2 DEF RowCourse
  <2> QED
    BY <1>0, <2>1, <2>2, <2>3
<1> QED
  BY <1>1, <1>2 DEF Gathered

\* The plugin moves the rows of its snapshot, each once, and marks the chunk after that.
LEMMA CourseStep ==
  ASSUME PcRanges, Ranges, RowRanges, Bounds, Unclean, RowStates, Locks, Contents, Course, Queues, RowCourse,
         RowRanges', Ranges', lastCommitId < MAX_COMMIT_ID, lastCommitId' < MAX_COMMIT_ID, [Next]_vars
  PROVE  Course'
<1>0. /\ Plugin \notin Tx /\ Threads = Tx \cup {Plugin} /\ Plugin \in Threads
      /\ lastCommitId \in Nat /\ MAX_COMMIT_ID \in Nat /\ 1 <= lastCommitId
      /\ pc \in [Threads -> ClientPcs \cup PluginPcs]
      /\ snapshot[Plugin] \in Nat /\ snapshot[Plugin] <= lastCommitId
      /\ found[Plugin] \subseteq RowIds
      /\ RowIds = 1..Len(rows) /\ Len(rows) \in Nat
  <2>1. /\ Plugin \notin Tx /\ Threads = Tx \cup {Plugin} /\ Plugin \in Threads
    BY TxAssumption DEF Threads
  <2>2. lastCommitId \in Nat /\ 1 <= lastCommitId /\ snapshot[Plugin] \in Nat
    BY <2>1 DEF Ranges
  <2>3. snapshot[Plugin] <= lastCommitId /\ found[Plugin] \subseteq RowIds
    BY <2>1 DEF Bounds
  <2> QED
    BY <2>1, <2>2, <2>3, MaxFacts, RowFacts DEF PcRanges
<1> DEFINE C1 == pc[Plugin] \in Moving => Gathered
           C2 == pc[Plugin] = "insert" => Held(Plugin) = found[Plugin]
           C3 == pc[Plugin] = "commit" =>
                   /\ Held(Plugin) = found[Plugin] \cup NewlyHeld(Plugin)
                   /\ KeysOf(NewlyHeld(Plugin)) = KeysOf(found[Plugin])
                   /\ \A r, q \in NewlyHeld(Plugin) : rows[r].key = rows[q].key => r = q
           C4 == pc[Plugin] = "cleanup" =>
                   commitId > snapshot[Plugin] /\ \A r \in found[Plugin] : rows[r].end <= commitId
           C5 == pc[Plugin] = "push" => cleanup[chunk[Plugin]] # 0 /\ chunk[Plugin] \notin removed \cup ToSet(queue)
<1>1. C1 /\ C2 /\ C3 /\ C4 /\ C5
  BY DEF Course, Gathered
<1>2. C1' /\ C2' /\ C3' /\ C4' /\ C5' => Course'
  BY DEF Course, Gathered
\* Steps of the others leave the plugin's rows alone.
<1>3. ASSUME Untouched(Plugin), UNCHANGED <<cleanup, commitId>>, removed' \cup ToSet(queue') \subseteq removed \cup ToSet(queue),
             \A r \in RowIds : rows[r].tid = Plugin => r \in RowIds' /\ rows'[r] = rows[r],
             \A r \in RowIds' : rows'[r].tid = Plugin => r \in RowIds /\ rows'[r] = rows[r]
      PROVE  Course'
  <2>1. /\ pc'[Plugin] = pc[Plugin] /\ snapshot'[Plugin] = snapshot[Plugin] /\ chunk'[Plugin] = chunk[Plugin]
        /\ found'[Plugin] = found[Plugin]
    BY <1>3 DEF Untouched
  <2>2. C1'
    BY <1>1, <2>1, GatheredKept
  <2>3. Held(Plugin)' = Held(Plugin) /\ NewlyHeld(Plugin)' = NewlyHeld(Plugin)
    <3>1. Held(Plugin)' = Held(Plugin)
      BY <1>3 DEF Held
    <3>2. \A r \in Held(Plugin) : rows'[r] = rows[r]
      BY <1>3 DEF Held
    <3> QED
      BY <3>1, <3>2 DEF NewlyHeld
  <2>4. C2'
    BY <1>1, <2>1, <2>3
  <2>5. \A r \in RowIds : rows'[r].key = rows[r].key
    BY SnapKept
  <2>6. \A r \in NewlyHeld(Plugin) : r \in RowIds
    BY DEF NewlyHeld, Held
  <2>7. C3'
    <3>1. ASSUME NEW S \in SUBSET RowIds PROVE {rows'[r].key : r \in S} = KeysOf(S)
      BY <2>5 DEF KeysOf
    <3>2. KeysOf(NewlyHeld(Plugin))' = {rows'[r].key : r \in NewlyHeld(Plugin)}
      BY <2>3 DEF KeysOf
    <3>3. KeysOf(found[Plugin])' = {rows'[r].key : r \in found[Plugin]}
      BY <2>1 DEF KeysOf
    <3>4. NewlyHeld(Plugin) \in SUBSET RowIds /\ found[Plugin] \in SUBSET RowIds
      BY <1>0, <2>6
    <3>5. KeysOf(NewlyHeld(Plugin))' = KeysOf(NewlyHeld(Plugin)) /\ KeysOf(found[Plugin])' = KeysOf(found[Plugin])
      BY <3>1, <3>2, <3>3, <3>4
    <3> QED
      BY <1>1, <2>1, <2>3, <2>5, <2>6, <3>5
  <2>8. C4'
    <3>1. ASSUME NEW r \in RowIds, rows[r].end <= commitId, commitId <= lastCommitId, commitId \in Nat PROVE rows'[r].end <= commitId
      <4>1. rows[r].end \in Nat /\ rows[r].end # MAX_COMMIT_ID
        BY <1>0, <3>1, RowFacts
      <4> QED
        BY <3>1, <4>1 DEF RowCourse
    <3>2. commitId <= lastCommitId /\ commitId \in Nat
      BY DEF Bounds, Ranges
    <3> QED
      BY <1>0, <1>1, <1>3, <2>1, <3>1, <3>2
  <2>9. C5'
    BY <1>1, <1>3, <2>1
  <2> QED
    BY <1>2, <2>2, <2>4, <2>7, <2>8, <2>9
<1>4. ASSUME NEW t \in Tx, Client(t) PROVE Course'
  <2>1. t \in Threads /\ Plugin \in Threads \ {t} /\ Steps(t)
    BY <1>0, <1>4 DEF Steps
  <2>2. Untouched(Plugin) /\ UNCHANGED <<removed, cleanup, queue, commitId>>
    BY <1>4, <2>1, ClientFrame
  <2> QED
    BY <1>3, <2>1, <2>2, OwnRows
<1>5. CASE PhysicalDelete \/ UNCHANGED vars
  <2>1. rows' = rows /\ UNCHANGED <<cleanup, commitId>> /\ Untouched(Plugin)
    BY <1>0, <1>5, RemoverFrame, IdleFrame
  <2>2. removed' \cup ToSet(queue') \subseteq removed \cup ToSet(queue)
    <3>1. CASE RemoveChunk
      <4>1. queue \in Seq(Chunks) /\ queue # <<>> /\ removed' = removed \cup {Head(queue)} /\ queue' = Tail(queue)
        BY <3>1 DEF RemoveChunk, Ranges, Queues
      <4>2. Head(queue) \in ToSet(queue) /\ ToSet(Tail(queue)) \subseteq ToSet(queue)
        BY <4>1 DEF ToSet
      <4> QED
        BY <4>1, <4>2
    <3>2. CASE CheckOldReaders \/ UNCHANGED vars
      BY <3>2 DEF CheckOldReaders, vars, tableVars, pluginVars
    <3> QED
      BY <1>5, <3>1, <3>2 DEF PhysicalDelete
  <2>3. RowIds' = RowIds
    BY <2>1 DEF RowIds
  <2> QED
    BY <1>3, <2>1, <2>2, <2>3
<1>6. ASSUME pc'[Plugin] \notin Moving \cup {"push"} PROVE Course'
  BY <1>2, <1>6 DEF Moving
<1>7. CASE StartLogicalLoop \/ NextChunk \/ BeginLogicalDelete \/ RegisterPlugin \/ PushChunk \/ EndLogicalDelete \/ RollbackLogicalDelete
  <2>1. pc'[Plugin] \notin Moving \cup {"push"}
    BY <1>0, <1>7 DEF StartLogicalLoop, NextChunk, BeginLogicalDelete, ReadSnapshot, RegisterPlugin, Register, PushChunk,
       EndLogicalDelete, RollbackLogicalDelete, Goto, Moving
  <2> QED
    BY <1>6, <2>1
<1>8. CASE ValidateChunk
  <2>1. /\ pc[Plugin] = "validate" /\ pc'[Plugin] = "delete" /\ rows' = rows /\ chunk' = chunk /\ snapshot' = snapshot
        /\ found'[Plugin] = {r \in RowsIn(chunk[Plugin]) : Visible(Plugin, r)}
    BY <1>0, <1>8 DEF ValidateChunk, Goto, Ranges, tableVars
  <2>2. ASSUME NEW r \in RowIds
        PROVE  Visible(Plugin, r) <=> rows[r].begin <= snapshot[Plugin] /\ snapshot[Plugin] < rows[r].end
    <3>1. rows[r].begin \in Nat /\ rows[r].end \in Nat /\ (rows[r].tid = Plugin => rows[r].end <= snapshot[Plugin])
      BY <2>1, RowFacts DEF Locks
    <3> QED
      BY <1>0, <3>1 DEF Visible
  <2>3. ASSUME NEW r \in RowIds PROVE rows[r].begin \in Nat /\ rows[r].end \in Nat
    BY RowFacts
  <2>4. Gathered'
    <3>1. Snap(snapshot[Plugin])' = Snap(snapshot[Plugin]) /\ RowsIn(chunk[Plugin])' = RowsIn(chunk[Plugin])
      BY <2>1 DEF Snap, RowsIn, RowIds
    <3>2. found'[Plugin] \subseteq Snap(snapshot[Plugin])
      BY <2>1, <2>2 DEF Snap, RowsIn
    <3>3. \A r \in RowsIn(chunk[Plugin]) : rows[r].begin <= snapshot[Plugin] =>
            r \in found'[Plugin] \/ rows[r].end <= snapshot[Plugin]
      BY <1>0, <2>1, <2>2, <2>3 DEF RowsIn
    <3> QED
      BY <2>1, <3>1, <3>2, <3>3 DEF Gathered
  <2> QED
    BY <1>2, <2>1, <2>4
<1>9. ASSUME LogicalDelete, pc[Plugin] \in Moving, UNCHANGED <<found, snapshot, chunk>> PROVE Gathered'
  BY <1>1, <1>9, GatheredKept
<1>10. CASE DeleteFound
  <2>1. /\ pc[Plugin] = "delete" /\ UNCHANGED <<found, snapshot, chunk>> /\ LogicalDelete
        /\ Reached \in SUBSET RowIds
        /\ rows' = [r \in RowIds |-> IF r \in Reached THEN [rows[r] EXCEPT !.tid = Plugin] ELSE rows[r]]
        /\ IF \A r \in found[Plugin] : rows[r].tid = NoTid
            THEN Goto(Plugin, "delete", "insert") /\ Reached = found[Plugin]
            ELSE Goto(Plugin, "delete", "conflict")
    BY <1>10, PluginLocks DEF DeleteFound, Goto, readVars, LogicalDelete
  <2>2. CASE pc'[Plugin] = "conflict"
    BY <1>6, <2>2 DEF Moving
  <2>3. CASE pc'[Plugin] = "insert"
    <3>1. Reached = found[Plugin] /\ \A r \in found[Plugin] : rows[r].tid = NoTid
      BY <1>0, <2>1, <2>3 DEF Goto
    <3>2. /\ Len(rows') = Len(rows) /\ rows' \in Seq(RowType)
          /\ \A r \in RowIds : rows'[r].end = rows[r].end
          /\ \A r \in RowIds : r \notin Reached => rows'[r] = rows[r]
          /\ \A r \in Reached : rows'[r].tid = Plugin
      BY <1>0, <2>1, LockEffect
    <3>3. RowIds' = RowIds
      BY <1>0, <3>2 DEF RowIds
    <3>4. Held(Plugin) = {}
      BY <2>1 DEF Held, Locks
    <3>5. ASSUME NEW r \in found[Plugin] PROVE rows[r].end = MAX_COMMIT_ID
      <4>1. r \in RowIds /\ snapshot[Plugin] < rows[r].end /\ snapshot[Plugin] # 0 /\ rows[r].end \in Nat
        <5>1. r \in Snap(snapshot[Plugin])
          BY <1>1, <2>1 DEF Gathered, Moving
        <5> QED
          BY <1>0, <2>1, <5>1, RowFacts DEF Snap, Bounds
      <4> QED
        BY <1>0, <3>1, <4>1 DEF RowStates
    <3>6. ASSUME NEW r \in RowIds PROVE (rows'[r].tid = Plugin /\ rows'[r].end = MAX_COMMIT_ID) <=> r \in found[Plugin]
      BY <1>0, <3>1, <3>2, <3>4, <3>5 DEF Held
    <3>7. C2'
      BY <1>0, <2>1, <3>3, <3>6 DEF Held
    <3>8. C1'
      BY <1>9, <2>1 DEF Moving
    <3> QED
      BY <1>2, <2>3, <3>7, <3>8
  <2> QED
    BY <1>0, <2>1, <2>2, <2>3 DEF Goto
<1>11. CASE ReinsertFound
  <2>1. pc[Plugin] = "insert" /\ pc'[Plugin] = "commit" /\ UNCHANGED <<found, snapshot, chunk>> /\ LogicalDelete
    BY <1>0, <1>11 DEF ReinsertFound, Goto, readVars, LogicalDelete
  <2>2. \A r, q \in found[Plugin] : rows[r].key = rows[q].key => r = q
    <3>1. found[Plugin] \subseteq Snap(snapshot[Plugin]) /\ snapshot[Plugin] # 0
      BY <1>0, <1>1, <2>1 DEF Gathered, Moving, Bounds
    <3>2. snapshot[Plugin] \in 1..lastCommitId
      BY <1>0, <3>1
    <3> QED
      BY <3>1, <3>2 DEF Contents
  <2>3. PICK keys \in Seq(Keys) :
           /\ InsertRows(Plugin, keys)
           /\ \A i \in 1..Len(keys) : \E r \in found[Plugin] : keys[i] = rows[r].key
           /\ \A r \in found[Plugin] : \E i \in 1..Len(keys) : keys[i] = rows[r].key
           /\ \A i, j \in 1..Len(keys) : keys[i] = keys[j] => i = j
    BY <1>0, <1>11, <2>2, ReinsertedKeys
  <2>4. /\ RowIds \subseteq RowIds' /\ \A r \in RowIds : rows'[r] = rows[r]
        /\ \A i \in 1..Len(keys) : Len(rows) + i \in RowIds' \ RowIds
        /\ \A r \in RowIds' \ RowIds : \E i \in 1..Len(keys) :
              /\ r = Len(rows) + i
              /\ rows'[r].key = keys[i] /\ rows'[r].tid = Plugin
              /\ rows'[r].begin = MAX_COMMIT_ID /\ rows'[r].end = MAX_COMMIT_ID
    BY <1>0, <2>3, NewRows
  <2>5. Held(Plugin) = found[Plugin] /\ NewlyHeld(Plugin) = {}
    BY <1>1, <2>1 DEF NewlyHeld, Held, Locks
  <2>6. NewlyHeld(Plugin)' = RowIds' \ RowIds /\ Held(Plugin)' = found[Plugin] \cup (RowIds' \ RowIds)
    <3>1. \A r \in RowIds' \ RowIds : rows'[r].tid = Plugin /\ rows'[r].begin = MAX_COMMIT_ID /\ rows'[r].end = MAX_COMMIT_ID
      BY <2>4
    <3>2. \A r \in RowIds : /\ (rows[r].tid = Plugin /\ rows[r].end = MAX_COMMIT_ID) <=> r \in found[Plugin]
                            /\ r \in found[Plugin] => rows[r].begin # MAX_COMMIT_ID
      BY <2>5 DEF Held, NewlyHeld
    <3>3. Held(Plugin)' = found[Plugin] \cup (RowIds' \ RowIds)
      <4>1. ASSUME NEW r \in RowIds'
            PROVE  (rows'[r].tid = Plugin /\ rows'[r].end = MAX_COMMIT_ID) <=> r \in found[Plugin] \cup (RowIds' \ RowIds)
        <5>1. CASE r \in RowIds
          BY <2>4, <3>2, <5>1
        <5>2. CASE r \notin RowIds
          BY <3>1, <5>2
        <5> QED
          BY <5>1, <5>2
      <4> QED
        BY <1>0, <2>4, <4>1 DEF Held
    <3>4. \A r \in RowIds : r \in found[Plugin] => r \in RowIds' /\ rows'[r] = rows[r]
      BY <2>4
    <3>5. NewlyHeld(Plugin)' = {r \in Held(Plugin)' : rows'[r].begin = MAX_COMMIT_ID}
      BY DEF NewlyHeld
    <3>6. found[Plugin] \subseteq RowIds
      BY <1>0
    <3> QED
      BY <3>1, <3>2, <3>3, <3>4, <3>5, <3>6
  <2> DEFINE N == RowIds' \ RowIds
  <2>7. \A r \in N : \E i \in 1..Len(keys) : r = Len(rows) + i /\ rows'[r].key = keys[i]
    BY <2>4
  <2>8. \A r, q \in N : rows'[r].key = rows'[q].key => r = q
    BY <2>3, <2>7
  <2>9. \A i \in 1..Len(keys) : Len(rows) + i \in N /\ rows'[Len(rows) + i].key = keys[i]
    <3> TAKE i \in 1..Len(keys)
    <3>1. PICK j \in 1..Len(keys) : Len(rows) + i = Len(rows) + j /\ rows'[Len(rows) + i].key = keys[j]
      BY <2>4, <2>7
    <3>2. i = j
      BY <1>0, <3>1
    <3> QED
      BY <2>4, <3>1, <3>2
  <2> HIDE DEF N
  <2>10. {rows'[r].key : r \in N} = {rows[r].key : r \in found[Plugin]}
    <3>1. \A r \in N : \E q \in found[Plugin] : rows'[r].key = rows[q].key
      BY <2>3, <2>7
    <3>2. \A q \in found[Plugin] : \E r \in N : rows'[r].key = rows[q].key
      <4> TAKE q \in found[Plugin]
      <4>1. PICK i \in 1..Len(keys) : keys[i] = rows[q].key
        BY <2>3
      <4> QED
        BY <2>9, <4>1
    <3> QED
      BY <3>1, <3>2
  <2>11. KeysOf(NewlyHeld(Plugin))' = KeysOf(found[Plugin])'
    <3>1. KeysOf(NewlyHeld(Plugin))' = {rows'[r].key : r \in N}
      BY <2>6 DEF KeysOf, N
    <3>2. KeysOf(found[Plugin])' = {rows'[r].key : r \in found[Plugin]}
      BY <2>1 DEF KeysOf
    <3>3. {rows'[r].key : r \in found[Plugin]} = {rows[r].key : r \in found[Plugin]}
      BY SMTT(60), <1>0, <2>4
    <3> QED
      BY <2>10, <3>1, <3>2, <3>3
  <2>12. C3'
    <3>1. NewlyHeld(Plugin)' = N /\ Held(Plugin)' = found'[Plugin] \cup N
      BY <2>1, <2>6 DEF N
    <3> QED
      BY <2>8, <2>11, <3>1
  <2>13. C1'
    BY <1>9, <2>1 DEF Moving
  <2> QED
    BY <1>2, <2>1, <2>12, <2>13
<1>12. CASE CommitLogicalDelete
  <2>1. /\ pc[Plugin] = "commit" /\ pc'[Plugin] = "cleanup" /\ UNCHANGED <<found, snapshot, chunk>> /\ LogicalDelete
        /\ CommitRows(Plugin) /\ commitId' = lastCommitId + 1
    BY <1>0, <1>12 DEF CommitLogicalDelete, Goto, readVars, LogicalDelete
  <2>2. \A r \in Held(Plugin) \ NewlyHeld(Plugin) : rows'[r].end = lastCommitId + 1
    BY <1>0, <2>1, CommitEffect
  <2>3. ASSUME NEW r \in found[Plugin] PROVE r \in Held(Plugin) \ NewlyHeld(Plugin)
    <3>1. r \in Snap(snapshot[Plugin]) /\ r \in Held(Plugin)
      BY <1>1, <2>1 DEF Gathered, Moving
    <3> QED
      BY <1>0, <3>1 DEF Snap, NewlyHeld
  <2>4. C4'
    BY <1>0, <2>1, <2>2, <2>3
  <2>5. C1'
    BY <1>9, <2>1 DEF Moving
  <2> QED
    BY <1>2, <2>1, <2>4, <2>5
<1>13. CASE SetCleanupCommitId
  <2>1. /\ pc[Plugin] = "cleanup" /\ pc'[Plugin] = "push" /\ chunk' = chunk /\ removed' = removed /\ queue' = queue
        /\ cleanup' = [cleanup EXCEPT ![chunk[Plugin]] = commitId]
    BY <1>0, <1>13 DEF SetCleanupCommitId, Goto, readVars, pluginVars
  <2>2. chunk[Plugin] \in Chunks /\ commitId # 0
    <3>1. chunk[Plugin] < count[Plugin] /\ count[Plugin] <= chunkCount
      BY <1>0, <2>1 DEF Bounds
    <3>2. chunk[Plugin] \in Chunks
      <4>1. chunk[Plugin] \in Nat \ {0} /\ count[Plugin] \in Nat /\ chunkCount \in Chunks
        BY <1>0 DEF Ranges
      <4> QED
        BY <3>1, <4>1, SizeFacts DEF Chunks
    <3>3. commitId > snapshot[Plugin] /\ commitId \in Nat
      BY <1>1, <2>1 DEF Ranges
    <3> QED
      BY <1>0, <3>2, <3>3
  <2>3. cleanup[chunk[Plugin]] = 0
    BY <2>1 DEF Unclean, Working, Moving
  <2>4. C5'
    BY <2>1, <2>2, <2>3 DEF Queues, Ranges
  <2> QED
    BY <1>2, <2>1, <2>4 DEF Moving
<1> QED
  BY <1>4, <1>5, <1>7, <1>8, <1>10, <1>11, <1>12, <1>13 DEF Next, LogicalDelete

\* No row that the plugin's snapshot contains is left behind in a cleaned up chunk.
LEMMA LeftoversStep ==
  ASSUME PcRanges, Ranges, RowRanges, Bounds, Course, Leftovers, RowCourse, RowRanges', Ranges',
         lastCommitId < MAX_COMMIT_ID, [Next]_vars
  PROVE  Leftovers'
<1>0. /\ Plugin \notin Tx /\ Plugin \in Threads /\ lastCommitId \in Nat /\ MAX_COMMIT_ID \in Nat
      /\ RowIds = 1..Len(rows) /\ Len(rows) \in Nat /\ RowIds' = 1..Len(rows') /\ Len(rows') \in Nat
  <2>1. lastCommitId \in Nat
    BY DEF Ranges
  <2> QED
    BY <2>1, TxAssumption, MaxFacts DEF Threads, RowIds, RowRanges
<1>1. ASSUME NEW c \in Chunks, cleanup'[c] = cleanup[c], moved'[c] = moved[c], cleanup'[c] # 0,
             NEW r \in RowsIn(c)', rows'[r].begin <= moved'[c]
      PROVE  rows'[r].end <= cleanup'[c]
  <2>0. cleanup[c] \in Nat /\ moved[c] \in Nat /\ cleanup[c] <= lastCommitId /\ moved[c] <= lastCommitId
    BY DEF Ranges, Bounds
  <2>1. r \in RowIds' /\ rows'[r].chunk = c
    BY <1>1 DEF RowsIn
  <2>2. CASE r \in Len(rows) + 1 .. Len(rows')
    BY <1>0, <1>1, <2>0, <2>2 DEF RowCourse
  <2>3. CASE r \in RowIds
    <3>1. rows[r].chunk = c /\ rows[r].begin \in Nat /\ rows[r].end \in Nat
      BY <2>1, <2>3, RowFacts DEF RowCourse
    <3>2. rows[r].begin <= moved[c] => rows[r].end <= cleanup[c]
      BY <1>1, <2>3, <3>1 DEF Leftovers, RowsIn
    <3> QED
      BY SMTT(60), <1>0, <1>1, <2>0, <2>3, <3>1, <3>2 DEF RowCourse
  <2> QED
    BY <1>0, <2>1, <2>2, <2>3
<1>2. CASE UNCHANGED <<cleanup, moved>>
  BY <1>1, <1>2 DEF Leftovers
<1>3. CASE SetCleanupCommitId
  <2>1. /\ pc[Plugin] = "cleanup" /\ rows' = rows
        /\ cleanup' = [cleanup EXCEPT ![chunk[Plugin]] = commitId]
        /\ moved' = [moved EXCEPT ![chunk[Plugin]] = snapshot[Plugin]]
    BY <1>3 DEF SetCleanupCommitId, Goto
  <2>2. ASSUME NEW r \in RowsIn(chunk[Plugin]), rows[r].begin <= snapshot[Plugin] PROVE rows[r].end <= commitId
    <3>1. r \in found[Plugin] \/ rows[r].end <= snapshot[Plugin]
      BY <2>1, <2>2 DEF Course, Moving
    <3>2. commitId > snapshot[Plugin] /\ \A q \in found[Plugin] : rows[q].end <= commitId
      BY <2>1 DEF Course
    <3>3. r \in RowIds
      BY DEF RowsIn
    <3>4. rows[r].end \in Nat /\ commitId \in Nat /\ snapshot[Plugin] \in Nat
      BY <1>0, <3>3, RowFacts DEF Ranges
    <3> QED
      BY <3>1, <3>2, <3>4
  <2>3. \A c \in Chunks : RowsIn(c)' = RowsIn(c)
    BY <2>1 DEF RowsIn, RowIds
  <2>4. ASSUME NEW c \in Chunks, cleanup'[c] # 0, NEW r \in RowsIn(c), rows[r].begin <= moved'[c] PROVE rows[r].end <= cleanup'[c]
    <3>1. CASE c = chunk[Plugin]
      BY <2>1, <2>2, <2>4, <3>1 DEF Ranges
    <3>2. CASE c # chunk[Plugin]
      BY <2>1, <2>4, <3>2 DEF Ranges, Leftovers
    <3> QED
      BY <3>1, <3>2
  <2> QED
    BY <2>1, <2>3, <2>4 DEF Leftovers
<1>4. CASE LogicalDelete /\ ~SetCleanupCommitId
  <2>1. cleanup' = cleanup /\ moved' = moved
    BY <1>4 DEF LogicalDelete, StartLogicalLoop, NextChunk, BeginLogicalDelete, ReadSnapshot, RegisterPlugin, Register,
       ValidateChunk, DeleteFound, ReinsertFound, RollbackLogicalDelete, CommitLogicalDelete, CommitRows, PushChunk,
       EndLogicalDelete, tableVars, historyVars
  <2> QED
    BY <1>2, <2>1
<1>5. ASSUME NEW t \in Tx, Client(t) PROVE Leftovers'
  BY <1>2, <1>5, ClientFrame
<1> QED
  BY <1>2, <1>3, <1>4, <1>5, RemoverFrame, IdleFrame DEF Next

----------------------------------------------------------------------------
(* The queue and the registered transactions.                              *)

\* How a step changes the queue and the removed chunks.
LEMMA QueueMoves ==
  ASSUME PcRanges, Ranges, [Next]_vars
  PROVE  \/ UNCHANGED <<queue, removed, remover>>
         \/ PushChunk /\ removed' = removed /\ remover' = remover
         \/ CheckOldReaders
         \/ RemoveChunk
<1>1. ASSUME NEW t \in Tx, Client(t) PROVE UNCHANGED <<queue, removed, remover>>
  BY <1>1, ClientFrame
<1>2. CASE UNCHANGED vars
  BY <1>2, IdleFrame
<1>3. CASE LogicalDelete
  BY <1>3 DEF LogicalDelete, StartLogicalLoop, NextChunk, BeginLogicalDelete, ReadSnapshot, RegisterPlugin, Register,
     ValidateChunk, DeleteFound, ReinsertFound, RollbackLogicalDelete, CommitLogicalDelete, SetCleanupCommitId, PushChunk,
     EndLogicalDelete, tableVars, pluginVars
<1> QED
  BY <1>1, <1>2, <1>3 DEF Next, PhysicalDelete

\* Chunks that are queued or removed are cleaned up, and keep their cleanup commit id.
LEMMA CleanupKept ==
  ASSUME PcRanges, Ranges, Unclean, [Next]_vars
  PROVE  \A c \in Chunks : cleanup[c] # 0 => cleanup'[c] = cleanup[c]
<1>1. CASE SetCleanupCommitId
  BY <1>1 DEF SetCleanupCommitId, Unclean, Working, Moving, Goto, Ranges
<1>2. CASE LogicalDelete /\ ~SetCleanupCommitId
  BY <1>2 DEF LogicalDelete, StartLogicalLoop, NextChunk, BeginLogicalDelete, ReadSnapshot, RegisterPlugin, Register,
     ValidateChunk, DeleteFound, ReinsertFound, RollbackLogicalDelete, CommitLogicalDelete, PushChunk,
     EndLogicalDelete, tableVars
<1>3. ASSUME NEW t \in Tx, Client(t) PROVE cleanup' = cleanup
  BY <1>3, ClientFrame
<1> QED
  BY <1>1, <1>2, <1>3, RemoverFrame, IdleFrame DEF Next

\* A client is registered from the moment it becomes active until it ends.
LEMMA ClientRegistered ==
  ASSUME PcRanges, Ranges, NEW t \in Tx, Client(t)
  PROVE  /\ (t \in active <=> pc[t] \notin {"idle", "register", "gone"})
              => (t \in active' <=> pc'[t] \notin {"idle", "register", "gone"})
         /\ t \in active' => t \in active \/ pc[t] = "register"
         /\ t \in prompt' => t \in prompt \/ (RegisterTx(t) /\ snapshot[t] = lastCommitId)
         /\ (t \in prompt => pc[t] \notin {"idle", "register"}) => (t \in prompt' => pc'[t] \notin {"idle", "register"})
         /\ pc[t] \notin {"idle", "register"} => snapshot'[t] = snapshot[t] /\ pc'[t] \notin {"idle", "register"}
         /\ RegisterTx(t) => snapshot'[t] = snapshot[t]
<1>0. pc \in [Threads -> ClientPcs \cup PluginPcs] /\ t \in Threads /\ active \subseteq Threads
  BY DEF PcRanges, Ranges, Threads
<1> USE <1>0 DEF Goto, historyVars
<1>1. CASE Begin(t)
  BY <1>1 DEF Begin, ReadSnapshot, RegisterTx, Register
<1>2. CASE RegisterTx(t)
  BY <1>2 DEF RegisterTx, Register
<1>3. CASE Insert(t) \/ StartGetTable(t) \/ Validate(t) \/ FinishRead(t) \/ Rollback(t)
  BY <1>3 DEF Insert, StartGetTable, Validate, FinishRead, Rollback, RegisterTx, Register
<1>4. CASE ExcludeChunk(t)
  BY <1>4 DEF ExcludeChunk, RegisterTx, Register
<1>5. CASE IncludeChunk(t)
  BY <1>5 DEF IncludeChunk, RegisterTx, Register
<1>6. CASE Delete(t)
  BY <1>6 DEF Delete, RegisterTx, Register
<1>7. CASE Commit(t)
  BY <1>7 DEF Commit, CommitRows, RegisterTx, Register
<1>8. CASE EndTx(t)
  BY <1>8 DEF EndTx, Deregister, RegisterTx, Register
<1> QED
  BY <1>1, <1>2, <1>3, <1>4, <1>5, <1>6, <1>7, <1>8 DEF Client

\* The remover keeps what the registered transactions need.
LEMMA QueuesStep ==
  ASSUME PcRanges, Ranges, Ranges', Bounds, Unclean, Course, Queues, [Next]_vars
  PROVE  Queues'
<1>0. /\ Plugin \notin Tx /\ Plugin \in Threads /\ Threads = Tx \cup {Plugin} /\ lastCommitId \in Nat
      /\ queue \in Seq(Chunks) /\ removed \subseteq Chunks /\ ToSet(queue) \subseteq Chunks
      /\ pc \in [Threads -> ClientPcs \cup PluginPcs]
      /\ \A c \in Chunks : cleanup[c] \in Nat /\ cleanup[c] <= lastCommitId
      /\ \A t \in Threads : snapshot[t] \in Nat
  <2>1. queue \in Seq(Chunks) /\ removed \subseteq Chunks /\ lastCommitId \in Nat
    BY DEF Ranges
  <2>2. ToSet(queue) \subseteq Chunks
    BY <2>1 DEF ToSet
  <2>3. \A c \in Chunks : cleanup[c] \in Nat /\ cleanup[c] <= lastCommitId
    BY DEF Ranges, Bounds
  <2>4. \A t \in Threads : snapshot[t] \in Nat
    BY DEF Ranges
  <2> QED
    BY <2>1, <2>2, <2>3, <2>4, TxAssumption DEF Threads, PcRanges
<1> DEFINE Qd == removed \cup ToSet(queue)
           Q1 == /\ removed \cap ToSet(queue) = {}
                 /\ \A c \in Qd : cleanup[c] # 0
                 /\ \A i, j \in 1..Len(queue) : queue[i] = queue[j] => i = j
                 /\ remover = "remove" => queue # <<>>
           Q2(t) == /\ t \in active <=> pc[t] \notin {"idle", "register", "gone"}
                    /\ t \in prompt => pc[t] \notin {"idle", "register"}
           Q3(t) == t \in prompt \cap active =>
                      /\ \A c \in removed : cleanup[c] <= snapshot[t]
                      /\ remover = "remove" => cleanup[Head(queue)] <= snapshot[t]
<1>1. Q1 /\ \A t \in Tx : Q2(t) /\ Q3(t)
  BY DEF Queues
<1>2. Q1' /\ (\A t \in Tx : Q2(t)' /\ Q3(t)') => Queues'
  BY DEF Queues
<1>3. \A c \in Qd : c \in Chunks /\ cleanup[c] # 0 /\ cleanup'[c] = cleanup[c]
  BY <1>0, <1>1, CleanupKept
<1>4. CASE UNCHANGED <<queue, removed, remover>>
  <2>1. Q1'
    BY <1>1, <1>3, <1>4
  <2>2. ASSUME remover = "remove" PROVE Head(queue) \in Qd
    BY <1>0, <1>1, <2>2 DEF ToSet
  <2>3. ASSUME NEW t \in Tx, Untouched(t) PROVE Q2(t)' /\ Q3(t)'
    BY <1>1, <1>3, <1>4, <2>2, <2>3 DEF Untouched
  <2>4. ASSUME NEW t \in Tx, Client(t) PROVE Q2(t)' /\ Q3(t)'
    <3>1. /\ (t \in active <=> pc[t] \notin {"idle", "register", "gone"})
              => (t \in active' <=> pc'[t] \notin {"idle", "register", "gone"})
          /\ t \in active' => t \in active \/ pc[t] = "register"
          /\ t \in prompt' => t \in prompt \/ (RegisterTx(t) /\ snapshot[t] = lastCommitId)
          /\ (t \in prompt => pc[t] \notin {"idle", "register"}) => (t \in prompt' => pc'[t] \notin {"idle", "register"})
          /\ pc[t] \notin {"idle", "register"} => snapshot'[t] = snapshot[t] /\ pc'[t] \notin {"idle", "register"}
          /\ RegisterTx(t) => snapshot'[t] = snapshot[t]
      BY <2>4, ClientRegistered
    <3>2. Q2(t)'
      BY <1>1, <3>1
    <3>3. CASE t \in prompt
      <4>1. pc[t] \notin {"idle", "register"} /\ snapshot'[t] = snapshot[t] /\ (t \in active' => t \in active)
        BY <1>1, <3>1, <3>3
      <4> QED
        BY <1>1, <1>3, <1>4, <2>2, <3>2, <3>3, <4>1
    <3>4. CASE RegisterTx(t) /\ snapshot[t] = lastCommitId
      <4>1. \A c \in Qd : cleanup'[c] <= snapshot'[t]
        BY <1>0, <1>3, <3>1, <3>4
      <4> QED
        BY <1>4, <2>2, <3>2, <4>1
    <3>5. CASE t \notin prompt'
      BY <3>2, <3>5
    <3> QED
      BY <3>1, <3>3, <3>4, <3>5
  <2>5. ASSUME NEW t \in Tx PROVE Q2(t)' /\ Q3(t)'
    <3> HIDE DEF Q2, Q3
    <3>1. CASE \E u \in Tx : Client(u)
      BY <1>0, <2>3, <2>4, <3>1, ClientFrame
    <3>2. CASE LogicalDelete
      BY <2>3, <3>2, PluginFrame
    <3>3. CASE PhysicalDelete \/ UNCHANGED vars
      BY <1>0, <2>3, <3>3, RemoverFrame, IdleFrame
    <3> QED
      BY <3>1, <3>2, <3>3 DEF Next
  <2> QED
    BY <1>2, <2>1, <2>5
<1>5. CASE PushChunk /\ removed' = removed /\ remover' = remover
  <2>1. /\ remover = "idle" /\ pc[Plugin] = "push" /\ queue' = Append(queue, chunk[Plugin]) /\ cleanup' = cleanup
    BY <1>5 DEF PushChunk, Goto, tableVars
  <2>2. cleanup[chunk[Plugin]] # 0 /\ chunk[Plugin] \notin Qd
    BY <2>1 DEF Course
  <2>3. ToSet(queue') = ToSet(queue) \cup {chunk[Plugin]}
    BY SMTT(60), <1>0, <2>1 DEF ToSet
  <2>4. \A i, j \in 1..Len(queue') : queue'[i] = queue'[j] => i = j
    <3>1. \A i \in 1..Len(queue) : queue[i] \in ToSet(queue)
      BY <1>0 DEF ToSet
    <3> QED
      BY <1>0, <1>1, <2>1, <2>2, <3>1
  <2>5. Q1'
    <3>1. /\ removed' \cap ToSet(queue') = {} /\ removed' \cup ToSet(queue') = Qd \cup {chunk[Plugin]}
      BY <1>1, <1>5, <2>2, <2>3
    <3> QED
      BY <1>1, <1>5, <2>1, <2>2, <2>4, <3>1
  <2>6. ASSUME NEW t \in Tx PROVE Q2(t)' /\ Q3(t)'
    <3>1. Untouched(t)
      BY <1>5, PluginFrame DEF LogicalDelete
    <3> QED
      BY <1>1, <1>5, <2>1, <3>1 DEF Untouched
  <2> QED
    BY <1>2, <2>5, <2>6
<1>6. CASE CheckOldReaders
  <2>1. /\ queue # <<>> /\ \A t \in active : cleanup[Head(queue)] <= snapshot[t]
        /\ UNCHANGED <<queue, removed, cleanup>> /\ \A u \in Threads : Untouched(u)
    BY <1>6, RemoverFrame DEF CheckOldReaders, tableVars, PhysicalDelete
  <2>2. Q1'
    BY <1>1, <2>1
  <2>3. ASSUME NEW t \in Tx PROVE Q2(t)' /\ Q3(t)'
    BY <1>0, <1>1, <2>1 DEF Untouched
  <2> QED
    BY <1>2, <2>2, <2>3
<1>7. CASE RemoveChunk
  <2>1. /\ remover = "remove" /\ queue # <<>> /\ removed' = removed \cup {Head(queue)} /\ queue' = Tail(queue)
        /\ remover' = "idle" /\ cleanup' = cleanup /\ \A u \in Threads : Untouched(u)
    BY <1>1, <1>7, RemoverFrame DEF RemoveChunk, PhysicalDelete
  <2>2. /\ \A i \in 1..Len(Tail(queue)) : i + 1 \in 1..Len(queue) /\ Tail(queue)[i] = queue[i + 1] /\ i \in Nat
        /\ Head(queue) = queue[1] /\ 1 \in 1..Len(queue) /\ Len(queue) \in Nat
    BY <1>0, <2>1
  <2>3. Head(queue) \in ToSet(queue) /\ ToSet(Tail(queue)) \subseteq ToSet(queue) \ {Head(queue)}
    <3>1. ToSet(Tail(queue)) = {Tail(queue)[i] : i \in 1..Len(Tail(queue))} /\ ToSet(queue) = {queue[i] : i \in 1..Len(queue)}
      <4>1. DOMAIN queue = 1..Len(queue) /\ DOMAIN Tail(queue) = 1..Len(Tail(queue))
        BY <1>0, <2>1
      <4> QED
        BY <4>1 DEF ToSet
    <3>2. \A i \in 1..Len(Tail(queue)) : i + 1 # 1
      BY <2>2
    <3> QED
      BY <1>1, <2>2, <3>1, <3>2
  <2>4. \A i, j \in 1..Len(Tail(queue)) : Tail(queue)[i] = Tail(queue)[j] => i = j
    BY <1>1, <2>2
  <2>5. Q1'
    BY <1>1, <2>1, <2>3, <2>4
  <2>6. ASSUME NEW t \in Tx PROVE Q2(t)' /\ Q3(t)'
    BY <1>0, <1>1, <2>1 DEF Untouched
  <2> QED
    BY <1>2, <2>5, <2>6
<1> QED
  BY <1>4, <1>5, <1>6, <1>7, QueueMoves

----------------------------------------------------------------------------
(* Scans.                                                                  *)

\* A removed chunk does not come back.
LEMMA RemovedGrows == ASSUME PcRanges, Ranges, [Next]_vars PROVE removed \subseteq removed'
  BY QueueMoves DEF CheckOldReaders, RemoveChunk, tableVars

\* A scan leaves out only what its snapshot can do without.
LEMMA ScansStep ==
  ASSUME PcRanges, Ranges, Ranges', RowRanges, Bounds, Unclean, Locks, Scans, RowCourse, RowRanges',
         lastCommitId < MAX_COMMIT_ID, [Next]_vars
  PROVE  Scans'
<1>0. /\ Plugin \notin Tx /\ Plugin \in Threads /\ Threads = Tx \cup {Plugin} /\ lastCommitId \in Nat
      /\ pc \in [Threads -> ClientPcs \cup PluginPcs]
      /\ \A t \in Threads : snapshot[t] \in 0..lastCommitId /\ snapshot[t] \in Nat
  <2>1. lastCommitId \in Nat /\ \A t \in Threads : snapshot[t] \in Nat
    BY DEF Ranges
  <2> QED
    BY <2>1, TxAssumption DEF Threads, PcRanges, Bounds
<1> DEFINE S1(t) == pc[t] \in Scanning => \A r \in Snap(snapshot[t]) : rows[r].chunk <= count[t]
           S2(t) == /\ pc[t] = "exclude" => \A c \in 1..chunk[t] - 1 : Dispensable(t, c)
                    /\ pc[t] \in Scanning \ {"exclude"} => \A c \in 1..count[t] : Dispensable(t, c)
           S3(t) == pc[t] = "validated" => found[t] = {r \in Snap(snapshot[t]) : rows[r].chunk \in included[t]}
<1>1. \A t \in Tx : S1(t) /\ S2(t) /\ S3(t)
  BY DEF Scans
<1>2. (\A t \in Tx : S1(t)' /\ S2(t)' /\ S3(t)') => Scans'
  BY DEF Scans
<1>3. ASSUME NEW t \in Tx, snapshot'[t] = snapshot[t]
      PROVE  Snap(snapshot[t])' = Snap(snapshot[t]) /\ \A r \in Snap(snapshot[t]) : rows'[r].chunk = rows[r].chunk
  <2>1. \A s \in 0..lastCommitId : Snap(s)' = Snap(s)
    BY SnapKept
  <2>2. Snap(snapshot[t])' = Snap(snapshot[t])
    BY <1>0, <1>3, <2>1 DEF Snap
  <2>3. \A r \in Snap(snapshot[t]) : rows'[r].chunk = rows[r].chunk
    BY SnapKept DEF Snap
  <2> QED
    BY <2>2, <2>3
<1>4. ASSUME NEW t \in Tx, NEW c \in Chunks, Dispensable(t, c), snapshot'[t] = snapshot[t],
             c \in included[t] => c \in included'[t]
      PROVE  Dispensable(t, c)'
  <2>1. c \in removed => c \in removed'
    BY RemovedGrows
  <2>2. cleanup[c] # 0 => cleanup'[c] = cleanup[c]
    BY CleanupKept
  <2> QED
    BY <1>4, <2>1, <2>2 DEF Dispensable
<1>5. ASSUME NEW t \in Tx PROVE \A c \in Nat \ {0} : c <= count[t] => c \in Chunks
  <2>1. count[t] \in Nat /\ count[t] <= chunkCount /\ chunkCount \in Chunks
    BY <1>0 DEF Ranges, Bounds
  <2> QED
    BY <2>1, SizeFacts DEF Chunks
<1>6. ASSUME NEW t \in Tx
      PROVE  /\ count[t] \in Nat /\ chunk[t] \in Nat \ {0}
             /\ pc[t] \in {"exclude", "include"} => chunk[t] <= count[t]
  BY <1>0 DEF Ranges, Bounds
<1>7. ASSUME NEW t \in Tx, Untouched(t) PROVE S1(t)' /\ S2(t)' /\ S3(t)'
  <2>1. /\ pc'[t] = pc[t] /\ snapshot'[t] = snapshot[t] /\ chunk'[t] = chunk[t] /\ count'[t] = count[t]
        /\ included'[t] = included[t] /\ found'[t] = found[t]
    BY <1>7 DEF Untouched
  <2>2. S1(t)' /\ S3(t)'
    BY <1>1, <1>3, <2>1
  <2>3. S2(t)'
    <3>1. \A c \in 1..chunk[t] - 1 : pc[t] = "exclude" => c \in Chunks
      BY <1>5, <1>6
    <3>2. \A c \in 1..count[t] : c \in Chunks
      BY <1>5, <1>6
    <3> QED
      BY <1>1, <1>4, <2>1, <3>1, <3>2
  <2> QED
    BY <2>2, <2>3
<1>8. ASSUME NEW t \in Tx, pc'[t] \notin Scanning PROVE S1(t)' /\ S2(t)' /\ S3(t)'
  BY <1>8 DEF Scanning
<1>9. ASSUME NEW t \in Tx, Client(t) PROVE S1(t)' /\ S2(t)' /\ S3(t)'
  <2>0. t \in Threads
    BY <1>0
  <2>1. CASE Begin(t) \/ RegisterTx(t) \/ Insert(t) \/ FinishRead(t) \/ Commit(t) \/ Rollback(t) \/ EndTx(t)
    <3>1. pc'[t] \notin Scanning
      BY <1>0, <2>0, <2>1 DEF Begin, ReadSnapshot, RegisterTx, Register, Insert, FinishRead, Commit, Rollback, EndTx, Deregister,
         Goto, Scanning
    <3> QED
      BY <1>8, <3>1
  <2>2. CASE Delete(t)
    <3>1. pc'[t] \notin Scanning
      BY <1>0, <2>0, <2>2 DEF Delete, Goto, Scanning
    <3> QED
      BY <1>8, <3>1
  <2>3. CASE StartGetTable(t)
    <3>1. /\ pc'[t] = "exclude" /\ count'[t] = chunkCount /\ chunk'[t] = 1 /\ rows' = rows
      BY <1>0, <2>0, <2>3 DEF StartGetTable, Goto, Ranges, tableVars
    <3>2. S1(t)'
      BY <3>1 DEF Bounds, Snap, RowIds
    <3>3. S2(t)' /\ S3(t)'
      BY <3>1 DEF Scanning
    <3> QED
      BY <3>2, <3>3
  <2>4. CASE ExcludeChunk(t)
    <3>0. PICK c \in Nat \ {0} : c = chunk[t]
      BY <1>6
    <3>1. /\ pc[t] = "exclude" /\ count' = count /\ snapshot' = snapshot /\ rows' = rows /\ cleanup' = cleanup /\ removed' = removed
          /\ included'[t] = IF c \in removed \/ (cleanup[c] # 0 /\ cleanup[c] <= snapshot[t])
                            THEN included[t] ELSE included[t] \cup {c}
          /\ \/ c < count[t] /\ pc'[t] = "exclude" /\ chunk'[t] = c + 1
             \/ ~(c < count[t]) /\ pc'[t] = "include"
      BY SMTT(60), <1>0, <1>6, <2>0, <2>4, <3>0 DEF ExcludeChunk, Goto, Ranges, tableVars
    <3>2. c \in Nat \ {0} /\ count[t] \in Nat /\ c <= count[t]
      BY <1>6, <3>0, <3>1
    <3>3. Dispensable(t, c)'
      BY <3>1 DEF Dispensable
    <3>4. ASSUME NEW d \in 1..c PROVE Dispensable(t, d)'
      <4>1. CASE d = c
        BY <3>3, <4>1
      <4>2. CASE d # c
        <5>1. d \in 1..c - 1 /\ d \in Nat \ {0} /\ d <= count[t]
          BY <3>2, <4>2
        <5>2. Dispensable(t, d) /\ d \in Chunks
          BY <1>1, <1>5, <3>0, <3>1, <5>1
        <5> QED
          BY <1>4, <3>1, <5>2
      <4> QED
        BY <4>1, <4>2
    <3>5. S1(t)'
      BY <1>1, <1>3, <3>1 DEF Scanning
    <3>6. S2(t)'
      <4>1. CASE c < count[t] /\ pc'[t] = "exclude" /\ chunk'[t] = c + 1
        <5>1. 1..chunk'[t] - 1 = 1..c
          BY <3>2, <4>1
        <5> QED
          BY <3>4, <4>1, <5>1
      <4>2. CASE ~(c < count[t]) /\ pc'[t] = "include"
        <5>1. count'[t] = c
          BY <3>1, <3>2, <4>2
        <5> QED
          BY <3>4, <4>2, <5>1
      <4> QED
        BY <3>1, <4>1, <4>2
    <3>7. S3(t)'
      BY <3>1
    <3> QED
      BY <3>5, <3>6, <3>7
  <2>5. CASE IncludeChunk(t)
    <3>1. /\ pc[t] = "include" /\ pc'[t] \in {"include", "validate", "nullDereference"}
          /\ UNCHANGED <<count, snapshot, rows, included>>
      BY <1>0, <2>0, <2>5 DEF IncludeChunk, Goto, tableVars
    <3>2. S1(t)' /\ S3(t)'
      BY <1>1, <1>3, <3>1 DEF Scanning
    <3>3. \A c \in 1..count[t] : c \in Chunks /\ Dispensable(t, c)
      BY <1>1, <1>5, <1>6, <3>1 DEF Scanning
    <3>4. S2(t)'
      BY <1>4, <3>1, <3>3
    <3> QED
      BY <3>2, <3>4
  <2>6. CASE Validate(t)
    <3>1. /\ pc[t] = "validate" /\ pc'[t] = "validated"
          /\ UNCHANGED <<count, snapshot, rows, included>>
          /\ found'[t] = {r \in RowIds : rows[r].chunk \in included[t] /\ Visible(t, r)}
      BY <1>0, <2>0, <2>6 DEF Validate, Goto, Ranges, tableVars, readVars
    <3>2. ASSUME NEW r \in RowIds
          PROVE  Visible(t, r) <=> rows[r].begin <= snapshot[t] /\ snapshot[t] < rows[r].end
      <4>1. rows[r].begin \in Nat /\ rows[r].end \in Nat /\ rows[r].tid # t
        BY <3>1, RowFacts DEF Locks
      <4> QED
        BY <1>0, <2>0, <4>1 DEF Visible
    <3>3. found'[t] = {r \in Snap(snapshot[t]) : rows[r].chunk \in included[t]}
      BY <3>1, <3>2 DEF Snap
    <3>4. S3(t)'
      BY <3>1, <3>3 DEF Snap, RowIds
    <3>5. S1(t)'
      BY <1>1, <1>3, <3>1 DEF Scanning
    <3>6. \A c \in 1..count[t] : c \in Chunks /\ Dispensable(t, c)
      BY <1>1, <1>5, <1>6, <3>1 DEF Scanning
    <3>7. S2(t)'
      BY <1>4, <3>1, <3>6
    <3> QED
      BY <3>4, <3>5, <3>7
  <2> QED
    BY <1>9, <2>1, <2>2, <2>3, <2>4, <2>5, <2>6 DEF Client
<1>10. ASSUME NEW t \in Tx PROVE S1(t)' /\ S2(t)' /\ S3(t)'
  <2> HIDE DEF S1, S2, S3
  <2>1. CASE \E u \in Tx : Client(u)
    BY <1>0, <1>7, <1>9, <2>1, ClientFrame
  <2>2. CASE LogicalDelete
    BY <1>7, <2>2, PluginFrame
  <2>3. CASE PhysicalDelete \/ UNCHANGED vars
    BY <1>0, <1>7, <2>3, RemoverFrame, IdleFrame
  <2> QED
    BY <2>1, <2>2, <2>3 DEF Next
<1> QED
  BY <1>2, <1>10

----------------------------------------------------------------------------
(* The invariant.                                                          *)

\* A table of one chunk with some rows invalidated.
LEMMA InitIInv == ASSUME Init PROVE IInv
<1>0. /\ Plugin \notin Tx /\ Plugin \in Threads /\ NoTid \notin Threads
      /\ MAX_COMMIT_ID \in Nat /\ MAX_COMMIT_ID >= 3 /\ Dead \in Nat /\ Live \in Nat
      /\ Chunks \subseteq Nat \ {0} /\ 1 \in Chunks
  BY TxAssumption, SizeFacts, MaxFacts DEF Threads, Chunks
<1> DEFINE row(r) == [chunk |-> 1, key |-> IF r > Dead THEN r - Dead ELSE 0, begin |-> 0,
                      end |-> IF r > Dead THEN MAX_COMMIT_ID ELSE 1, tid |-> NoTid]
<1>1. rows = [r \in 1..Dead + Live |-> row(r)]
  BY DEF Init
<1>2. ASSUME NEW r \in 1..Dead + Live
      PROVE  /\ row(r) \in RowType
             /\ row(r).chunk = 1 /\ row(r).begin = 0 /\ row(r).tid = NoTid
             /\ r > Dead => row(r).key = r - Dead /\ row(r).end = MAX_COMMIT_ID
             /\ r <= Dead => row(r).key = 0 /\ row(r).end = 1
             /\ row(r).key \in 0..Live
  <2>1. (IF r > Dead THEN r - Dead ELSE 0) \in 0..Live
    BY <1>0
  <2>2. (IF r > Dead THEN MAX_COMMIT_ID ELSE 1) \in 0..MAX_COMMIT_ID /\ 0 \in 0..MAX_COMMIT_ID
    BY <1>0
  <2> QED
    BY <1>0, <2>1, <2>2 DEF RowType, Keys
<1> HIDE DEF row
<1>3. rows \in [1..Dead + Live -> RowType]
  BY <1>1, <1>2
<1>4. /\ rows \in Seq(RowType) /\ RowIds = 1..Dead + Live
      /\ \A r \in RowIds : rows[r] = row(r)
  BY <1>0, <1>1, <1>3 DEF RowIds
<1>5. RowRanges
  BY <1>4 DEF RowRanges
<1>6. PcRanges
  <2>1. pc = [t \in Threads |-> "idle"] /\ \A t \in Tx : t \in Threads
    BY DEF Init, Threads
  <2>2. "idle" \in ClientPcs /\ "idle" \in PluginPcs
    BY DEF ClientPcs, PluginPcs
  <2> QED
    BY <1>0, <2>1, <2>2 DEF PcRanges
<1>7. Ranges
  <2>1. content = <<1..Live>> /\ 1..Live \subseteq Keys
    BY <1>0 DEF Init, Keys
  <2>2. content \in Seq(SUBSET Keys)
    BY <2>1
  <2> QED
    BY <1>0, <2>2 DEF Init, Ranges
<1>8. Bounds
  <2>1. Len(content) = 1
    BY DEF Init
  <2>2. \A t \in Tx : t \in Threads
    BY DEF Threads
  <2> QED
    BY <1>0, <1>2, <1>4, <2>1, <2>2 DEF Init, Bounds
<1>9. Unclean
  BY <1>0 DEF Init, Unclean, Working, Moving
<1>10. CommitIds
  BY <1>0, FiniteCounts DEF Init, CommitIds
<1>11. RowStates /\ Locks
  BY <1>0, <1>2, <1>4 DEF RowStates, Locks, Threads
<1>12. Fresh
  BY <1>2, <1>4, TxAssumption DEF Init, Fresh, Threads
<1>13. Contents
  <2>1. lastCommitId = 1 /\ content[1] = 1..Live
    BY DEF Init
  <2>2. ASSUME NEW r \in RowIds PROVE r \in Snap(1) <=> r > Dead
    BY <1>0, <1>2, <1>4 DEF Snap
  <2>3. Snap(1) = Dead + 1 .. Dead + Live
    BY <1>0, <1>4, <2>2 DEF Snap
  <2>4. ASSUME NEW r \in Snap(1) PROVE rows[r].key = r - Dead
    <3>1. r \in 1..Dead + Live /\ r > Dead
      BY <1>0, <2>3
    <3> QED
      BY <1>2, <1>4, <3>1
  <2>5. KeysOf(Snap(1)) = 1..Live
    <3>1. \A r \in Snap(1) : rows[r].key \in 1..Live
      BY <1>0, <2>3, <2>4
    <3>2. \A k \in 1..Live : k + Dead \in Snap(1) /\ rows[k + Dead].key = k
      BY <1>0, <2>3, <2>4
    <3> QED
      BY <3>1, <3>2 DEF KeysOf
  <2>6. \A r, q \in Snap(1) : rows[r].key = rows[q].key => r = q
    BY <1>0, <2>3, <2>4
  <2> QED
    BY <2>1, <2>5, <2>6 DEF Contents
<1>14. Course /\ Leftovers
  BY <1>0 DEF Init, Course, Leftovers, Moving
<1>15. Queues
  <2>1. queue = <<>> /\ ToSet(queue) = {} /\ removed = {} /\ Len(queue) = 0
    BY DEF Init, ToSet
  <2>2. \A t \in Tx : t \in Threads
    BY DEF Threads
  <2> QED
    BY <2>1, <2>2 DEF Init, Queues
<1>16. Scans
  BY DEF Init, Scans, Scanning, Threads
<1> QED
  BY <1>5, <1>6, <1>7, <1>8, <1>9, <1>10, <1>11, <1>12, <1>13, <1>14, <1>15, <1>16 DEF IInv

\* Every step of a client, of the plugin or of the remover keeps the invariant.
LEMMA StepIInv == ASSUME IInv, [Next]_vars PROVE IInv'
<1>1. /\ PcRanges /\ Ranges /\ RowRanges /\ Bounds /\ Unclean /\ CommitIds /\ RowStates /\ Locks
      /\ Fresh /\ Contents /\ Course /\ Leftovers /\ Queues /\ Scans
  BY DEF IInv
<1>2. lastCommitId < MAX_COMMIT_ID
  BY <1>1, BelowMax
<1>3. PcRanges' /\ Ranges'
  BY <1>1, PcStep, RangesStep
<1>4. RowRanges' /\ RowCourse
  BY <1>1, <1>2, RowStep
<1>5. Bounds' /\ Unclean' /\ CommitIds'
  BY <1>1, <1>2, <1>3, <1>4, BoundsStep, UncleanStep, CommitIdsStep
<1>6. lastCommitId' < MAX_COMMIT_ID
  <2>1. MAX_COMMIT_ID' = MAX_COMMIT_ID
    BY DEF MAX_COMMIT_ID
  <2>2. (lastCommitId < MAX_COMMIT_ID)'
    BY <1>3, <1>5, BelowMax, PTL
  <2> QED
    BY <2>1, <2>2
<1>7. RowStates' /\ Locks' /\ Fresh'
  BY <1>1, <1>2, <1>3, <1>4, <1>6, RowStatesStep, LocksStep, FreshStep
<1>8. Contents' /\ Course' /\ Leftovers'
  BY <1>1, <1>2, <1>3, <1>4, <1>6, ContentsStep, CourseStep, LeftoversStep
<1>9. Queues' /\ Scans'
  BY <1>1, <1>2, <1>3, <1>4, QueuesStep, ScansStep
<1> QED
  BY <1>3, <1>4, <1>5, <1>7, <1>8, <1>9 DEF IInv

\* The rows, the history and the scans fit together in every state.
THEOREM Invariance == Spec => []IInv
  BY InitIInv, StepIInv, PTL DEF Spec

----------------------------------------------------------------------------
(* What the project checks about the plugin.                               *)

\* The rows that a scan returns are rows of its snapshot.
LEMMA FoundInSnapshot ==
  ASSUME IInv, NEW t \in Tx, pc[t] = "validated"
  PROVE  /\ snapshot[t] \in 1..lastCommitId
         /\ found[t] = {r \in Snap(snapshot[t]) : rows[r].chunk \in included[t]}
         /\ KeysOf(Snap(snapshot[t])) = content[snapshot[t]]
         /\ \A r, q \in Snap(snapshot[t]) : rows[r].key = rows[q].key => r = q
<1>1. snapshot[t] \in 1..lastCommitId
  <2>1. t \in Threads
    BY DEF Threads
  <2>2. snapshot[t] \in Nat /\ lastCommitId \in Nat
    BY <2>1 DEF IInv, Ranges
  <2>3. snapshot[t] <= lastCommitId /\ snapshot[t] # 0
    BY <2>1 DEF IInv, Bounds
  <2> QED
    BY <2>2, <2>3
<1>2. found[t] = {r \in Snap(snapshot[t]) : rows[r].chunk \in included[t]}
  BY DEF IInv, Scans
<1> QED
  BY <1>1, <1>2 DEF IInv, Contents

\* The variables have their types, and whoever races, a scan returns no row that is not in
\* its snapshot, and none twice (mvcc_delete_plugin.cpp, validate.cpp).
THEOREM NothingStray == Spec => []TableConsistent
<1>1. IInv => TypeOK
  <2> SUFFICES ASSUME IInv PROVE TypeOK
    OBVIOUS
  <2>1. PcRanges /\ Ranges /\ RowRanges /\ Bounds /\ Queues
    BY DEF IInv
  <2>2. chunkCount \in Chunks /\ lastCommitId \in Nat /\ removed \subseteq Chunks /\ queue \in Seq(Chunks)
        /\ cleanup \in [Chunks -> Nat] /\ prompt \subseteq Threads
    BY <2>1 DEF Ranges
  <2>3. cleanup \in [Chunks -> 0..lastCommitId]
    BY <2>1, <2>2 DEF Bounds
  <2>4. removed \subseteq 1..chunkCount
    <3>1. ASSUME NEW c \in removed PROVE c \in 1..chunkCount
      <4>1. c \in Chunks /\ c <= chunkCount
        BY <2>1, <2>2 DEF Queues, Bounds
      <4> QED
        BY <2>2, <4>1, SizeFacts DEF Chunks
    <3> QED
      BY <3>1
  <2>5. \A t \in Threads : snapshot[t] \in 0..lastCommitId /\ found[t] \subseteq RowIds
    <3>1. \A t \in Threads : snapshot[t] \in Nat
      BY <2>1 DEF Ranges
    <3> QED
      BY <2>1, <2>2, <3>1 DEF Bounds
  <2>6. ToSet(queue) \cap removed = {} /\ Len(content) = lastCommitId
    BY <2>1 DEF Queues, Bounds
  <2> QED
    BY <2>1, <2>2, <2>3, <2>4, <2>5, <2>6 DEF TypeOK, RowRanges
<1>2. IInv => NoStrayRow
  <2> SUFFICES ASSUME IInv, NEW t \in Tx, pc[t] = "validated"
               PROVE  /\ KeysOf(found[t]) \subseteq content[snapshot[t]]
                      /\ \A r, s \in found[t] : rows[r].key = rows[s].key => r = s
    BY DEF NoStrayRow
  <2> QED
    BY FoundInSnapshot DEF KeysOf
<1> QED
  BY <1>1, <1>2, Invariance, PTL DEF TableConsistent

\* A cleaned up chunk holds no valid row that the plugin's snapshot contained: an update that
\* meets a row under deletion does not mark the chunk (mvcc_delete_plugin.cpp).
THEOREM OldRowsMoved == Spec => []OnlyNewRowsLeftBehind
<1>1. IInv => OnlyNewRowsLeftBehind
  <2> SUFFICES ASSUME IInv, NEW c \in Chunks, NEW r \in LeftBehind(c) PROVE rows[r].begin > moved[c]
    BY DEF OnlyNewRowsLeftBehind
  <2>1. r \in RowsIn(c) /\ r \in RowIds /\ cleanup[c] # 0 /\ rows[r].end > cleanup[c]
    BY DEF LeftBehind, RowsIn
  <2>2. rows[r].begin \in Nat /\ rows[r].end \in Nat /\ moved[c] \in Nat /\ cleanup[c] \in Nat
    BY <2>1, RowFacts DEF IInv, Ranges
  <2>3. rows[r].begin <= moved[c] => rows[r].end <= cleanup[c]
    BY <2>1 DEF IInv, Leftovers
  <2> QED
    BY <2>1, <2>2, <2>3
<1> QED
  BY <1>1, Invariance, PTL

\* The scan of a transaction that was registered while its snapshot was still current returns
\* the table as of that snapshot, each row once, given that no row has been left behind: the
\* chunks it leaves out, and those that were removed, hold nothing that it could see.
THEOREM PromptScans == Spec => []PromptSnapshotIntact
<1>1. IInv => PromptSnapshotIntact
  <2> SUFFICES ASSUME IInv, NEW t \in prompt \ {Plugin}, pc[t] = "validated", \A c \in Chunks : LeftBehind(c) = {}
               PROVE  /\ KeysOf(found[t]) = content[snapshot[t]]
                      /\ Cardinality(found[t]) = Cardinality(content[snapshot[t]])
    BY DEF PromptSnapshotIntact, ScanIntact
  <2>0. t \in Tx /\ t \in Threads /\ t \in active
    <3>1. t \in Tx /\ t \in Threads
      BY DEF IInv, Ranges, Threads
    <3> QED
      BY <3>1 DEF IInv, Queues
  <2> DEFINE s == snapshot[t]
  <2>1. /\ s \in 1..lastCommitId
        /\ found[t] = {r \in Snap(s) : rows[r].chunk \in included[t]}
        /\ KeysOf(Snap(s)) = content[s]
        /\ \A r, q \in Snap(s) : rows[r].key = rows[q].key => r = q
    BY <2>0, FoundInSnapshot
  <2>2. ASSUME NEW r \in Snap(s) PROVE rows[r].chunk \in included[t]
    <3> DEFINE c == rows[r].chunk
    <3>1. r \in RowIds /\ s < rows[r].end /\ c \in Chunks /\ rows[r].end \in Nat
      BY RowFacts DEF Snap, IInv
    <3>2. c \in 1..count[t]
      <4>1. c <= count[t] /\ count[t] \in Nat
        BY <2>0 DEF IInv, Scans, Scanning, Ranges
      <4> QED
        BY <3>1, <4>1, SizeFacts DEF Chunks
    <3>3. Dispensable(t, c)
      BY <2>0, <3>2 DEF IInv, Scans, Scanning
    <3>4. ~(cleanup[c] # 0 /\ cleanup[c] <= s)
      <4>1. ASSUME cleanup[c] # 0, cleanup[c] <= s PROVE FALSE
        <5>1. cleanup[c] \in Nat /\ s \in Nat
          BY <2>0, <3>1 DEF IInv, Ranges
        <5>2. rows[r].end > cleanup[c]
          BY <3>1, <4>1, <5>1
        <5>3. r \in LeftBehind(c)
          BY <3>1, <4>1, <5>2 DEF LeftBehind, RowsIn
        <5> QED
          BY <3>1, <5>3
      <4> QED
        BY <4>1
    <3>5. c \in removed => cleanup[c] # 0 /\ cleanup[c] <= s
      BY <2>0 DEF IInv, Queues
    <3> QED
      BY <3>3, <3>4, <3>5 DEF Dispensable
  <2>3. found[t] = Snap(s)
    BY <2>1, <2>2
  <2>4. KeysOf(found[t]) = content[s]
    BY <2>1, <2>3
  <2>5. IsFiniteSet(found[t])
    <3>1. IsFiniteSet(RowIds)
      BY RowFacts, FS_Interval DEF IInv
    <3>2. found[t] \subseteq RowIds
      BY <2>3 DEF Snap
    <3> QED
      BY <3>1, <3>2, FS_Subset
  <2> DEFINE key == [r \in found[t] |-> rows[r].key]
  <2>6. key \in Bijection(found[t], content[s])
    <3>1. /\ \A r \in found[t] : key[r] \in content[s]
          /\ \A r, q \in found[t] : key[r] = key[q] => r = q
          /\ \A k \in content[s] : \E r \in found[t] : key[r] = k
      BY <2>1, <2>3, <2>4 DEF KeysOf
    <3>2. key \in [found[t] -> content[s]]
      BY <3>1
    <3> HIDE DEF key
    <3> QED
      BY <3>1, <3>2 DEF Bijection, Injection, Surjection, IsInjective
  <2> HIDE DEF key
  <2>7. Cardinality(found[t]) = Cardinality(content[s])
    BY <2>5, <2>6, FS_Bijection DEF ExistsBijection
  <2> QED
    BY <2>4, <2>7
<1> QED
  BY <1>1, Invariance, PTL
----------------------------------------------------------------------------
(***************************************************************************)
(* The thread that runs each loop of the plugin.  Its first pause() keeps  *)
(* its promise for every number of calls by the owner: the thread enters   *)
(* its wait only with _pause_requested set, and before the first resume()  *)
(* nothing but a shutdown lets it out again.                               *)
(***************************************************************************)
Waiting == {"predicate", "block", "blocked", "woken"}

\* Before the first resume(): whoever waits has been asked to, and leaves for a shutdown
\* only; _is_paused is true at most during the wait and after it; pause() has seen it.
FirstPauseInv ==
  ~everResumed =>
    /\ thread \in Waiting \cup {"setPaused"} => pauseRequested
    /\ thread = "woken" => shutdown
    /\ isPaused => pauseRequested /\ thread \in Waiting \cup {"exited"}
    /\ owner = "paused" => isPaused

LoopInv == LoopTypeOK /\ FirstPauseInv

LEMMA LoopStarts == LoopInit => LoopInv
<1>1. LoopInit => calls \in 0..Calls
  BY CallsAssumption DEF LoopInit
<1>2. QED
  BY <1>1, Zenon DEF LoopInit, LoopInv, LoopTypeOK, FirstPauseInv, Waiting

LEMMA LoopThreadKeepsLoopInv == LoopInv /\ LoopThread => LoopInv'
<1> SUFFICES ASSUME LoopInv, LoopThread PROVE LoopInv'
  OBVIOUS
<1> USE DEF LoopInv, LoopTypeOK, FirstPauseInv, Waiting, MoveThread, ThreadOnly
<1>1. CASE CheckShutdown
  BY <1>1 DEF CheckShutdown
<1>2. CASE Sleep
  BY <1>2 DEF Sleep
<1>3. CASE AfterSleep
  BY <1>3 DEF AfterSleep
<1>4. CASE AskPauseRequested
  BY <1>4 DEF AskPauseRequested
<1>5. CASE ClearPaused
  BY <1>5 DEF ClearPaused
<1>6. CASE SetPaused
  BY <1>6 DEF SetPaused
<1>7. CASE EvaluatePredicate
  BY <1>7 DEF EvaluatePredicate
<1>8. CASE Block
  BY <1>8 DEF Block
<1>9. CASE AfterWait
  BY <1>9 DEF AfterWait
<1>10. CASE FinishIteration
  BY <1>10 DEF FinishIteration
<1>11. QED
  BY <1>1, <1>2, <1>3, <1>4, <1>5, <1>6, <1>7, <1>8, <1>9, <1>10 DEF LoopThread

LEMMA OwnerKeepsLoopInv == ASSUME LoopInv, Owner PROVE LoopInv'
<1> USE DEF LoopInv, LoopTypeOK, FirstPauseInv, Waiting, OwnerOnly, flags
<1>1. CASE RequestPause
  <2>1. calls' \in 0..Calls
    BY <1>1, CallsAssumption DEF RequestPause
  <2>2. QED
    BY <1>1, <2>1 DEF RequestPause
<1>2. CASE Resume
  <2>1. calls' \in 0..Calls
    BY <1>2, CallsAssumption DEF Resume
  <2>2. QED
    BY <1>2, <2>1 DEF Resume
<1>3. CASE StartDestructor
  BY <1>3 DEF StartDestructor
<1>4. CASE AwaitPaused
  BY <1>4 DEF AwaitPaused
<1>5. CASE NotifyResumed
  BY <1>5 DEF NotifyResumed, Notify
<1>6. CASE SetShutdownFlag
  BY <1>6 DEF SetShutdownFlag
<1>7. CASE NotifyShutdown
  BY <1>7 DEF NotifyShutdown, Notify
<1>8. CASE Join
  BY <1>8 DEF Join
<1>9. QED
  BY <1>1, <1>2, <1>3, <1>4, <1>5, <1>6, <1>7, <1>8 DEF Owner, FinishCall

\* Once the first pause() has returned, and until resume() is called for the first time,
\* the loop function neither runs nor is entered; and the variables have their types
\* (PausableLoopThread::pause, the loop of its constructor).
THEOREM FirstPause == LoopSpec => []LoopConsistent
<1>1. LoopInv /\ [LoopNext]_(loopVars) => LoopInv'
  <2> SUFFICES ASSUME LoopInv, [LoopNext]_(loopVars) PROVE LoopInv'
    OBVIOUS
  <2>1. CASE LoopThread
    BY <2>1, LoopThreadKeepsLoopInv
  <2>2. CASE SpuriousWakeup
    BY <2>2 DEF SpuriousWakeup, MoveThread, ThreadOnly, LoopInv, LoopTypeOK, FirstPauseInv, Waiting
  <2>3. CASE Owner
    BY <2>3, OwnerKeepsLoopInv
  <2>4. CASE UNCHANGED loopVars
    BY <2>4 DEF loopVars, flags, LoopInv, LoopTypeOK, FirstPauseInv
  <2>5. QED
    BY <2>1, <2>2, <2>3, <2>4 DEF LoopNext
<1>2. LoopInv => LoopConsistent
  BY DEF LoopInv, LoopConsistent, FirstPauseInv, FirstPauseHolds, Waiting
<1>3. QED
  BY LoopStarts, <1>1, <1>2, PTL DEF LoopSpec
====================================================================================
