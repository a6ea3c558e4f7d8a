----------------------------- MODULE StarSchema -----------------------------
(* The hand-crafted star schema benchmark (src/ssb/handcrafted/ssb.cpp):   *)
(* workers take queries from a queue; for a query each socket starts       *)
(* threads that scan their blocks of lineorder into their shares of an     *)
(* intermediate buffer, group there in place, and the groups of the        *)
(* threads, then of the sockets, are copied together and grouped again.    *)
EXTENDS Integers, Sequences, FiniteSets, FiniteSetsExt, SequencesExt

CONSTANTS Configs,  \* command lines, table and buffer sizes, and the queue that was filled
          Keys      \* the groups; a lineorder tuple belongs to one of them, or to none (0)

\* A query: QF1 counts lines, QF2, QF3 and QF4.1 sum a value per group ("groups"),
\* QF4.2 and QF4.3 sum the revenue less the cost ("profit").  keys: what it selects.
Query == [flight : {"lines", "groups", "profit"}, keys : SUBSET Keys]

BufferShare(c) == c.slots \div c.threads
BlockSize(c) == c.tuples \div c.threads

\* The buffers hold what the last thread and the second socket may add to them
\* (the code does not look).
ASSUME ConfigAssumption ==
  /\ Keys \subseteq Nat \ {0}
  /\ \A c \in Configs :
       /\ {c.workers, c.threads, c.tuples, c.slots} \subseteq Nat \ {0} /\ c.sockets \in 1..2
       /\ ToSet(c.queue) \subseteq Query
       /\ (c.threads - 1) * BufferShare(c) + BlockSize(c) <= c.slots
       /\ c.sockets = 2 => 2 * c.threads <= c.slots

VARIABLES
  config, lo,        \* the command line; lo[s][i]: group of tuple i of the part of lineorder on socket s
  queriesLeft, queryQueueIndex,
  worker,            \* worker[w]: position, the values it has loaded, its query
  thread,            \* thread[w][s][t]: position, next tuple, stored tuples
  buffer,            \* buffer[w][s]: the intermediate buffer, in slots of one payload tuple
  tuples,            \* tuples[w][s]: payload tuples at the start of the buffer
  executed, together \* history: executions of each query; two workers have met at the queue

starVars == <<config, lo, queriesLeft, queryQueueIndex, worker, thread, buffer, tuples, executed, together>>
queueVars == <<config, lo, queriesLeft, queryQueueIndex, executed, together>>

Workers == 1..config.workers
Sockets == 1..config.sockets
ScanThreads == 0..config.threads - 1

Blank == [key |-> 0, sum |-> 0, cost |-> 0]
Idle  == [at |-> "joined", next |-> 0, stored |-> 0]

StarInit ==
  /\ config \in Configs
  /\ lo \in [Sockets -> [0..config.tuples - 1 -> {0} \cup Keys]]
  /\ queriesLeft = Len(config.queue) /\ queryQueueIndex = 0
  /\ worker = [w \in Workers |-> [at |-> "check", left |-> 0, index |-> 0, query |-> 0]]
  /\ thread = [w \in Workers |-> [s \in Sockets |-> [t \in ScanThreads |-> Idle]]]
  /\ buffer = [w \in Workers |-> [s \in Sockets |-> [i \in 0..config.slots - 1 |-> Blank]]]
  /\ tuples = [w \in Workers |-> [s \in Sockets |-> 0]]
  /\ executed = [i \in 1..Len(config.queue) |-> 0] /\ together = FALSE

Labels == {"check", "decrement", "take", "advance", "run", "done", "undefined"}

StarTypeOK ==
  /\ queriesLeft \in Int /\ queryQueueIndex \in Nat
  /\ \A w \in Workers : worker[w].at \in Labels /\ worker[w].query \in 0..Len(config.queue)
  /\ \A w \in Workers, s \in Sockets : tuples[w][s] \in 0..config.slots
  /\ \A w \in Workers, s \in Sockets, t \in ScanThreads :
       thread[w][s][t].at \in {"scan", "joined"} /\ thread[w][s][t].stored \in 0..config.tuples

----------------------------------------------------------------------------
(* Payload tuples and their grouping.                                      *)

QueryOf(w) == config.queue[worker[w].query]

\* join_and_filter: the filters and the probes of the hash tables.
JoinAndFilter(q, s, i) == lo[s][i] \in q.keys

\* store_intermediate.  Each tuple has its own revenue, so that sums tell which tuples
\* are in them; the cost is 1.
Payload(q, s, i) ==
  IF q.flight = "lines" THEN [key |-> 1, sum |-> 1, cost |-> 0]
  ELSE [key |-> lo[s][i], sum |-> 2 ^ ((s - 1) * config.tuples + i + 1), cost |-> 1]

\* A tuple of the group at hand is added to its representative; the first one of a new
\* group becomes the representative.  A profit is made by subtracting the cost here,
\* except from the very first tuple.
AddTuple(q, groups, e) ==
  LET profit == IF q.flight = "profit" THEN e.sum - e.cost ELSE e.sum IN
  IF groups = <<>> THEN <<e>>
  ELSE IF Last(groups).key = e.key
       THEN Append(Front(groups), [Last(groups) EXCEPT !.sum = @ + profit])
       ELSE Append(groups, [e EXCEPT !.sum = profit])

\* Mutant: the tuples are not sorted.
GroupedUnsorted(q, s) == FoldLeft(LAMBDA groups, e : AddTuple(q, groups, e), <<>>, s)

\* group: sort the tuples, then move the representatives to the front.  The tuples that
\* an earlier query left in a slot count as they are.
Grouped(q, s) == FoldLeft(LAMBDA groups, e : AddTuple(q, groups, e), <<>>,
                          SortSeq(s, LAMBDA a, b : a.key < b.key))

\* aggregate: n tuples from slot start on, in place; no tuples count as one group.  (The
\* slots behind the groups keep tuples that nothing reads any more.)
Aggregate(q, b, start, n) ==
  LET groups == Grouped(q, [i \in 1..n |-> b[start + i - 1]])
  IN [buffer |-> [i \in DOMAIN b |-> IF i \in start..start + Len(groups) - 1
                                     THEN groups[i - start + 1] ELSE b[i]],
      count  |-> Max({1, Len(groups)})]

----------------------------------------------------------------------------
(* thread_function.                                                        *)

\* The part of the table is divided by the number of threads; the rest belongs to nobody.
\* (ACCESS_SIZE is a multiple of TUPLE_SIZE, so its chunks end between tuples.)
TupleBlock(t) == t * BlockSize(config)..(t + 1) * BlockSize(config) - 1

BufferStart(t) == BufferShare(config) * t

SetThread(w, s, t, record) == thread' = [thread EXCEPT ![w][s][t] = record]

\* One tuple: its payload goes behind those stored before, also when that slot is the
\* next thread's.
ThreadScan(w, s, t) ==
  LET me == thread[w][s][t]
      match == JoinAndFilter(QueryOf(w), s, me.next) IN
  /\ me.at = "scan" /\ me.next \in TupleBlock(t)
  /\ SetThread(w, s, t, [me EXCEPT !.next = @ + 1, !.stored = IF match THEN @ + 1 ELSE @])
  /\ buffer' = IF match THEN [buffer EXCEPT ![w][s][BufferStart(t) + me.stored] = Payload(QueryOf(w), s, me.next)]
               ELSE buffer
  /\ UNCHANGED <<worker, tuples, queueVars>>

ThreadAggregate(w, s, t) ==
  LET me == thread[w][s][t]
      result == Aggregate(QueryOf(w), buffer[w][s], BufferStart(t), me.stored) IN
  /\ me.at = "scan" /\ me.next \notin TupleBlock(t)
  /\ SetThread(w, s, t, [me EXCEPT !.at = "joined", !.stored = result.count])
  /\ buffer' = [buffer EXCEPT ![w][s] = result.buffer]
  /\ UNCHANGED <<worker, tuples, queueVars>>

----------------------------------------------------------------------------
(* socket_function.                                                        *)

Copy(to, at, from, start, n) ==
  [i \in DOMAIN to |-> IF i \in at..at + n - 1 THEN from[start + i - at] ELSE to[i]]

\* collect_socket_intermediates moves the groups of the threads together, within the
\* buffer.
Collected(b, ts) ==
  FoldLeft(LAMBDA acc, t : [buffer |-> Copy(acc.buffer, acc.end, acc.buffer, BufferStart(t), ts[t].stored),
                            end    |-> acc.end + ts[t].stored],
           [buffer |-> b, end |-> 0], [i \in 1..config.threads |-> i - 1]).buffer

\* What collect_socket_intermediates returns: it counts threads, not groups.
TupleCount == config.threads

\* All threads are joined; their groups are collected and grouped, once.
SocketFunction(w, s) ==
  LET result == Aggregate(QueryOf(w), Collected(buffer[w][s], thread[w][s]), 0, TupleCount) IN
  /\ worker[w].at = "run" /\ tuples[w][s] = 0
  /\ \A t \in ScanThreads : thread[w][s][t].at = "joined"
  /\ buffer' = [buffer EXCEPT ![w][s] = result.buffer]
  /\ tuples' = [tuples EXCEPT ![w][s] = result.count]
  /\ UNCHANGED <<worker, thread, queueVars>>

----------------------------------------------------------------------------
(* worker_function and get_worker_query.  The counters are plain ints: the *)
(* optimised build may keep a value it has loaded, the debug build loads   *)
(* it again.                                                               *)

MoveWorker(w, at, record) == worker' = [worker EXCEPT ![w] = [record EXCEPT !.at = at]]

AtQueue(w) == worker[w].at \in {"decrement", "take", "advance"}

\* Mutant: the last query is left in the queue.
CheckMoreThanOne(w) ==
  /\ worker[w].at = "check"
  /\ IF queriesLeft > 1 THEN MoveWorker(w, "decrement", [worker[w] EXCEPT !.left = queriesLeft])
     ELSE MoveWorker(w, "done", worker[w])
  /\ together' = (together \/ \E v \in Workers \ {w} : AtQueue(v))
  /\ UNCHANGED <<config, lo, queriesLeft, queryQueueIndex, thread, buffer, tuples, executed>>

Check(w) ==
  /\ worker[w].at = "check"
  /\ IF queriesLeft > 0 THEN MoveWorker(w, "decrement", [worker[w] EXCEPT !.left = queriesLeft])
     ELSE MoveWorker(w, "done", worker[w])
  /\ together' = (together \/ \E v \in Workers \ {w} : AtQueue(v))
  /\ UNCHANGED <<config, lo, queriesLeft, queryQueueIndex, thread, buffer, tuples, executed>>

\* Mutant: the decrement is forgotten.
DecrementLost(w) ==
  /\ worker[w].at = "decrement"
  /\ MoveWorker(w, "take", worker[w])
  /\ UNCHANGED <<config, lo, queriesLeft, queryQueueIndex, thread, buffer, tuples, executed, together>>

Decrement(w) ==
  /\ worker[w].at = "decrement"
  /\ \E v \in {worker[w].left, queriesLeft} : queriesLeft' = v - 1
  /\ MoveWorker(w, "take", worker[w])
  /\ UNCHANGED <<config, lo, queryQueueIndex, thread, buffer, tuples, executed, together>>

\* An index behind the end of the vector is undefined behaviour: the worker is lost.
TakeQuery(w) ==
  LET i == queryQueueIndex + 1 IN
  /\ worker[w].at = "take"
  /\ IF i <= Len(config.queue)
     THEN /\ MoveWorker(w, "advance", [worker[w] EXCEPT !.index = queryQueueIndex, !.query = i])
          /\ executed' = [executed EXCEPT ![i] = @ + 1]
     ELSE MoveWorker(w, "undefined", worker[w]) /\ UNCHANGED executed
  /\ UNCHANGED <<config, lo, queriesLeft, queryQueueIndex, thread, buffer, tuples, together>>

\* query_queue_index++; the socket functions and their threads begin.
Advance(w) ==
  /\ worker[w].at = "advance"
  /\ \E v \in {worker[w].index, queryQueueIndex} : queryQueueIndex' = v + 1
  /\ MoveWorker(w, "run", worker[w])
  /\ tuples' = [tuples EXCEPT ![w] = [s \in Sockets |-> 0]]
  /\ thread' = [thread EXCEPT ![w] = [s \in Sockets |-> [t \in ScanThreads |->
                  [at |-> "scan", next |-> t * BlockSize(config), stored |-> 0]]]]
  /\ UNCHANGED <<config, lo, queriesLeft, buffer, executed, together>>

\* Mutant: the groups of the second socket replace those of the first.
MergeOverwriting(w) ==
  LET first == tuples[w][1]
      both  == Aggregate(QueryOf(w), Copy(buffer[w][1], 0, buffer[w][2], 0, tuples[w][2]), 0, first) IN
  /\ worker[w].at = "run" /\ \A s \in Sockets : tuples[w][s] > 0
  /\ MoveWorker(w, "check", worker[w])
  /\ IF config.sockets = 1 THEN UNCHANGED <<buffer, tuples>>
     ELSE /\ buffer' = [buffer EXCEPT ![w][1] = both.buffer]
          /\ tuples' = [tuples EXCEPT ![w][1] = both.count]
  /\ UNCHANGED <<thread, queueVars>>

\* The sockets are joined; the groups of the second one are appended to those of the
\* first and grouped again.  (order_by permutes the groups.)
Merge(w) ==
  LET first == tuples[w][1]
      both  == Aggregate(QueryOf(w), Copy(buffer[w][1], first, buffer[w][2], 0, tuples[w][2]), 0,
                         first + tuples[w][2]) IN
  /\ worker[w].at = "run" /\ \A s \in Sockets : tuples[w][s] > 0
  /\ MoveWorker(w, "check", worker[w])
  /\ IF config.sockets = 1 THEN UNCHANGED <<buffer, tuples>>
     ELSE /\ buffer' = [buffer EXCEPT ![w][1] = both.buffer]
          /\ tuples' = [tuples EXCEPT ![w][1] = both.count]
  /\ UNCHANGED <<thread, queueVars>>

Work(w) ==
  \/ Check(w) \/ Decrement(w) \/ TakeQuery(w) \/ Advance(w) \/ Merge(w)
  \/ \E s \in Sockets : SocketFunction(w, s)
  \/ \E s \in Sockets, t \in ScanThreads : ThreadScan(w, s, t) \/ ThreadAggregate(w, s, t)

\* main() joins the workers.
Ended == (\A w \in Workers : worker[w].at \in {"done", "undefined"}) /\ UNCHANGED starVars

StarNext == (\E w \in Workers : Work(w)) \/ Ended

StarSpec == StarInit /\ [][StarNext]_starVars

\* The operating system schedules every thread; those of one worker only wait for each
\* other's end.
FairStarSpec == StarSpec /\ \A w \in 1..Max({c.workers : c \in Configs}) : WF_starVars(w \in Workers /\ Work(w))

----------------------------------------------------------------------------
(* Properties.                                                             *)

\* What the query is meant to return: for each group the sum over the whole table, but
\* for the last tuples if the number of threads does not divide their number.
Scanned == 0..(config.tuples \div config.threads) * config.threads - 1

Matches(q, key) == {m \in Sockets \X Scanned : JoinAndFilter(q, m[1], m[2]) /\ Payload(q, m[1], m[2]).key = key}

Reference(q) ==
  {[key |-> k, sum |-> MapThenSumSet(LAMBDA m : Payload(q, m[1], m[2]).sum, Matches(q, k))]
     : k \in {key \in Keys : Matches(q, key) # {}}}

\* The query of w has run, and its result is at the start of the first socket's buffer.
HasResult(w) == worker[w].at = "check" /\ worker[w].query # 0
Result(w)    == [i \in 1..tuples[w][1] |-> buffer[w][1][i - 1]]

KeysOf(q, s, t) == {Payload(q, s, i).key : i \in {j \in TupleBlock(t) : JoinAndFilter(q, s, j)}}
Fits(q) == \A s \in Sockets, t \in ScanThreads :
             Cardinality({i \in TupleBlock(t) : JoinAndFilter(q, s, i)}) \in 1..BufferShare(config)

\* Blocks, shares, grouping in place, collecting and merging fit together: if every
\* thread finds tuples, and of one group, the query returns exactly the groups and sums
\* of the table.
ResultExact ==
  \A w \in Workers : HasResult(w) =>
    LET q == QueryOf(w) IN
    (/\ q.flight # "profit" /\ Fits(q)
     /\ \A s \in Sockets, t \in ScanThreads : Cardinality(KeysOf(q, s, t)) = 1)
    => {[key |-> e.key, sum |-> e.sum] : e \in ToSet(Result(w))} = Reference(q)

\* Also with several groups per thread, which are not all collected, no group is
\* returned twice and no tuple is counted twice or invented.
ResultSound ==
  \A w \in Workers : HasResult(w) =>
    LET q == QueryOf(w) IN
    q.flight # "profit" /\ Fits(q) =>
      /\ \A i, j \in 1..tuples[w][1] : i < j => Result(w)[i].key < Result(w)[j].key
      /\ \A e \in ToSet(Result(w)) : \E r \in Reference(q) : e.key = r.key /\ e.sum <= r.sum

\* As long as no two workers meet at the queue (on whose "low probability" the code
\* relies), no query is executed twice and none is left out.
EachQueryOnce ==
  ~together =>
    /\ \A i \in DOMAIN executed : executed[i] <= 1
    /\ (\A w \in Workers : worker[w].at = "done") => \A i \in DOMAIN executed : executed[i] = 1

\* Every worker finds the queue empty and returns; only workers that have got in each
\* other's way may run past its end.
WorkersReturn == <>(\A w \in Workers : worker[w].at = "done" \/ (worker[w].at = "undefined" /\ together))

\* "returning the number of groups" (ssb.cpp:748).
ResultComplete ==
  \A w \in Workers : HasResult(w) /\ Fits(QueryOf(w)) => tuples[w][1] = Cardinality(Reference(QueryOf(w)))

\* The variables have their types, and what a query returns is true (group, aggregate,
\* collect_socket_intermediates and worker_function of ssb.cpp).
ResultsTrue == StarTypeOK /\ ResultExact /\ ResultSound
=============================================================================
