--------------------------- MODULE Microbenchmark ---------------------------
(***************************************************************************)
(* The bandwidth microbenchmark, src/microbenchmarks/benchmark/: one       *)
(* operation of main.c.  Its memory is mapped; for random reads a ring of  *)
(* jump addresses is built by shuffling a doubly linked list and written   *)
(* into the memory; threads run a kernel over the memory, and the main     *)
(* thread measures the time between a barrier and their end.               *)
(*                                                                         *)
(* Addresses count cache lines of 64 bytes, which is also the alignment of *)
(* the threads' shares.  Abstracted: the vector instructions, the data,    *)
(* and the random generators, which may yield any value of their range.    *)
(***************************************************************************)
EXTENDS Naturals, FiniteSets

CONSTANTS
  Operations,   \* the operations that may be asked for
  Block         \* 8192 bytes in lines, 128 in the code: what the macros *_NT_8192_ASM span

Kernels == {"nt", "simd", "clwb", "store"}
Modes == {"read", "write"}

ASSUME BlockAssumption == Block \in Nat \ {0}

\* An operation: its kernel and options (README.md), the size of the memory,
\* the access distance and the accesses that one turn of a loop makes.
ASSUME OperationsAssumption ==
  Operations \subseteq [mode : Modes, kernel : Kernels, random : BOOLEAN,
                        pattern : {"log", "disjoint"}, size : Nat \ {0},
                        ad : Nat \ {0}, threads : Nat \ {0}, perLoop : Nat \ {0}]

PowerOf2(n) == \A d \in 3 .. n : n % d = 0 => d % 2 = 0

\* get_access_mask: offsets of as many bits as the size has, but for the first.
OffsetsIn(size) ==
  LET powers == {p \in 1 .. size : PowerOf2(p)} IN {o \in 0 .. size - 1 : \E p \in powers : o < p}

\* The mask is made of DEVDAX_FILE_SIZE, 70 GiB, and that is the memory of random writes:
\* beyond the offsets there is room for an access.
ASSUME MaskAssumption ==
  \A o \in Operations : o.mode = "write" /\ o.random /\ o.kernel = "nt" =>
    \A n \in OffsetsIn(o.size) : n + o.ad <= o.size

VARIABLES
  op,       \* the operation
  phase,    \* of the main thread: "shuffle", "fill", "create", "barrier", "join", "done",
            \* and "exit" or "crash" where there is no ring
  i,        \* its loop counter
  next, prev, jump, \* the linked list
  memory,   \* the jump address in each slot of the memory
  start,    \* thread_start_addr
  pc,       \* per thread: "none", "barrier", "run", "done"
  addr,     \* per thread: the address it is at
  count,    \* per thread: the accesses it has made
  touched   \* per thread: the lines it has touched

list == <<next, prev, jump>>
vars == <<op, phase, i, next, prev, jump, memory, start, pc, addr, count, touched>>

Min2(a, b) == IF a < b THEN a ELSE b
Threads == 0 .. op.threads - 1
accessCount == op.size \div op.ad
accessesPerThread == accessCount \div op.threads
Nodes == 0 .. accessCount - 1
RandomRead == op.mode = "read" /\ op.random

----------------------------------------------------------------------------
(* pmem_mapping.c: the ring of jump addresses.                             *)

\* linked_list_create and linked_list_init_jumps, for two nodes or more
RingOf(n, step) == [k \in 0 .. n - 1 |-> (k + step) % n]

\* linked_list_swap_nodes of a and b that are apart: the neighbours, one store
\* after the other, then the nodes.
SwappedApart(nx, pv, a, b) ==
  LET pv1 == [pv EXCEPT ![nx[a]] = b]
      nx1 == [nx EXCEPT ![pv1[a]] = b]
      pv2 == [pv1 EXCEPT ![nx1[b]] = a]
      nx2 == [nx1 EXCEPT ![pv2[b]] = a]
  IN <<[nx2 EXCEPT ![a] = nx2[b], ![b] = nx2[a]], [pv2 EXCEPT ![a] = pv2[b], ![b] = pv2[a]]>>

\* ... and of a and b that follows it directly.
SwappedNeighbours(nx, pv, a, b) ==
  LET nx1 == [nx EXCEPT ![pv[a]] = b]
      pv1 == [pv EXCEPT ![nx1[b]] = a]
  IN <<[nx1 EXCEPT ![a] = nx1[b], ![b] = a], [pv1 EXCEPT ![b] = pv1[a], ![a] = b]>>

\* Mutant: no special treatment of neighbours.
SwappedAlways(nx, pv, a, b) ==
  IF a = b THEN <<nx, pv>> ELSE SwappedApart(nx, pv, a, b)

\* b shall be right of a, if they are neighbours at all.
Swapped(nx, pv, a, b) ==
  IF a = b THEN <<nx, pv>>
  ELSE IF nx[b] = a THEN SwappedNeighbours(nx, pv, b, a)
  ELSE IF nx[a] = b THEN SwappedNeighbours(nx, pv, a, b)
  ELSE SwappedApart(nx, pv, a, b)

\* fill_with_random_offsets: node i is swapped with any node.
Shuffle ==
  /\ phase = "shuffle" /\ i < accessCount
  /\ \E j \in Nodes : LET s == Swapped(next, prev, i, j)
                      IN next' = s[1] /\ prev' = s[2]
  /\ i' = i + 1
  /\ UNCHANGED <<op, phase, jump, memory, start, pc, addr, count, touched>>

Walk(f, from, n) == LET w[k \in 0 .. n] == IF k = 0 THEN from ELSE f[w[k - 1]] IN w[n]

\* linked_list_is_ring and memory_is_ring: the walk from 0 returns after n steps,
\* and not before.
IsRing(f, n) == Walk(f, 0, n) = 0 /\ \A k \in 1 .. n - 1 : Walk(f, 0, k) # 0

CheckList ==
  /\ phase = "shuffle" /\ i = accessCount
  /\ phase' = IF IsRing(next, accessCount) THEN "fill" ELSE "exit"
  /\ i' = 0
  /\ UNCHANGED <<op, list, memory, start, pc, addr, count, touched>>

\* Mutant: a node's jump address is written to where it jumps to itself.
FillOwn ==
  /\ phase = "fill" /\ i < accessCount
  /\ LET current == Walk(next, 0, i)
     IN memory' = [memory EXCEPT ![jump[current]] = jump[current]]
  /\ i' = i + 1
  /\ UNCHANGED <<op, phase, list, start, pc, addr, count, touched>>

\* Each node's jump address is written to where its predecessor jumps to.
Fill ==
  /\ phase = "fill" /\ i < accessCount
  /\ LET current == Walk(next, 0, i)
     IN memory' = [memory EXCEPT ![jump[prev[current]]] = jump[current]]
  /\ i' = i + 1
  /\ UNCHANGED <<op, phase, list, start, pc, addr, count, touched>>

\* memory_is_ring and set_thread_start_addresses
CheckMemory ==
  /\ phase = "fill" /\ i = accessCount
  /\ phase' = IF IsRing(memory, accessCount) THEN "create" ELSE "exit"
  /\ start' = [t \in Threads |-> Walk(memory, 0, t * accessesPerThread)]
  /\ i' = 0
  /\ UNCHANGED <<op, list, memory, pc, addr, count, touched>>

----------------------------------------------------------------------------
(* bw_benchmark.c: process_operation.                                      *)

\* The access distances of read_nt and write_nt, at random or not, that have a kernel
\* of their own: 64 to 65536 bytes.
Unrolled == {n \in 1 .. 8 * Block : PowerOf2(n)}
OwnKernel == op.ad \in Unrolled

\* Those kernels and write_nt step through the memory in the way of set_access_pattern,
\* the others like the log pattern, a chunk at a time.
Chunked == op.kernel # "nt" \/ (op.mode = "read" /\ ~OwnKernel)
Chunk == IF op.kernel = "nt" THEN Block ELSE 1

\* set_access_pattern: where thread t begins and ends and how far it steps.
Share == op.size \div op.threads
Disjoint == op.pattern = "disjoint" /\ ~Chunked
BeginOf(t) == IF Disjoint THEN t * Share ELSE t * op.ad

\* Mutant: every thread goes on to the end of the memory.
EndOfMemory(t) == op.size

EndOf(t) == IF Disjoint THEN Min2(BeginOf(t) + Share, op.size) ELSE op.size

\* Mutant: the disjoint pattern steps over the other threads' accesses.
StrideOfAll == op.ad * op.threads

Stride == IF Disjoint THEN op.ad ELSE op.ad * op.threads

\* Only the nt kernels wait at the barrier.
CreateThread ==
  /\ phase = "create" /\ i < op.threads
  /\ pc' = [pc EXCEPT ![i] = IF op.kernel = "nt" THEN "barrier" ELSE "run"]
  /\ addr' = [addr EXCEPT ![i] = IF RandomRead THEN start[i] ELSE BeginOf(i)]
  /\ i' = i + 1
  /\ UNCHANGED <<op, phase, list, memory, start, count, touched>>

AwaitBarrier ==
  /\ phase = "create" /\ i = op.threads
  /\ phase' = "barrier"
  /\ UNCHANGED <<op, i, list, memory, start, pc, addr, count, touched>>

\* Mutant: the main thread does not count.
PassBarrierWithoutMain ==
  /\ phase = "create" /\ \A t \in Threads : pc[t] = "barrier"
  /\ pc' = [t \in Threads |-> "run"]
  /\ UNCHANGED <<op, phase, i, list, memory, start, addr, count, touched>>

\* The barrier is initialised for all threads and the main thread.
PassBarrier ==
  /\ phase = "barrier" /\ \A t \in Threads : pc[t] = "barrier"
  /\ phase' = "join"
  /\ pc' = [t \in Threads |-> "run"]
  /\ UNCHANGED <<op, i, list, memory, start, addr, count, touched>>

Join ==
  /\ phase = "join" /\ \A t \in Threads : pc[t] = "done"
  /\ phase' = "done"
  /\ UNCHANGED <<op, i, list, memory, start, pc, addr, count, touched>>

----------------------------------------------------------------------------
(* read_bw_benchmark.c and write_bw_benchmark.c: one turn of a kernel.     *)

Lines(from, n) == from .. from + n - 1
Running(t) == phase # "done" /\ pc[t] = "run"
Touch(t, lines) == touched' = [touched EXCEPT ![t] = @ \cup lines]
Finish(t) == pc' = [pc EXCEPT ![t] = "done"] /\ UNCHANGED <<addr, count, touched>>

\* The blocks that write_nt writes at an access distance without a kernel of its own:
\* as many as the distance has, none if it is shorter than one, and up to the thread's end.
\* The address goes on by a block in the assembler and by another one behind it.
WriteBlock == 16 * Block
WrittenBlocks(a, end) ==
  UNION {Lines(a + 2 * k * WriteBlock, WriteBlock) :
           k \in {l \in 0 .. (op.ad \div WriteBlock) - 1 : a + (2 * l + 1) * WriteBlock <= end}}

\* read_nt_*, write_nt_* and write_nt
SequentialAccess(t) ==
  /\ Running(t) /\ ~op.random /\ ~Chunked
  /\ IF addr[t] + op.ad <= EndOf(t)
     THEN /\ Touch(t, IF OwnKernel THEN Lines(addr[t], op.ad) ELSE WrittenBlocks(addr[t], EndOf(t)))
          /\ addr' = [addr EXCEPT ![t] = @ + Stride]
          /\ UNCHANGED <<pc, count>>
     ELSE Finish(t)
  /\ UNCHANGED <<op, phase, i, list, memory, start>>

\* The chunks from a on, up to the access distance or to a chunk before the end.
Chunks(a) ==
  UNION {Lines(m, Chunk) :
           m \in {n \in a .. a + op.ad - 1 : (n - a) % Chunk = 0 /\ n + Chunk < op.size}}

\* read_nt beyond the unrolled sizes, read_simd, write_clwb, write_store
ChunkedAccess(t) ==
  /\ Running(t) /\ ~op.random /\ Chunked
  /\ IF addr[t] < op.size
     THEN /\ Touch(t, Chunks(addr[t]))
          /\ addr' = [addr EXCEPT ![t] = @ + Stride]
          /\ UNCHANGED <<pc, count>>
     ELSE Finish(t)
  /\ UNCHANGED <<op, phase, i, list, memory, start>>

\* What a jump reads at node n.  Without a kernel of its own, read_nt_random reads one
\* block over and over, its address being no output of the assembler; what follows the
\* first reading of it may be at the next node, and is there from the second loop on.
Ahead == IF op.ad \div (8 * Block) > 1 THEN {TRUE} ELSE BOOLEAN
ReadAt(n, ahead) ==
  IF OwnKernel THEN Lines(op.ad * n, op.ad)
  ELSE Lines(op.ad * n, Block) \cup (IF ahead THEN Lines(op.ad * memory[n], Block) ELSE {})

\* read_nt_random_* and read_nt_random: a turn follows the ring for perLoop jumps.
RandomReads(t) ==
  /\ Running(t) /\ RandomRead
  /\ IF count[t] < accessesPerThread
     THEN /\ \E ahead \in Ahead :
               Touch(t, UNION {ReadAt(Walk(memory, addr[t], k), ahead) : k \in 0 .. op.perLoop - 1})
          /\ addr' = [addr EXCEPT ![t] = Walk(memory, addr[t], op.perLoop)]
          /\ count' = [count EXCEPT ![t] = @ + op.perLoop]
          /\ UNCHANGED pc
     ELSE Finish(t)
  /\ UNCHANGED <<op, phase, i, list, memory, start>>

\* What a random write at o writes: without a kernel of its own, write_nt_random makes a
\* loop for each 8 blocks of the distance, and each goes on with the last block of the
\* one before.
WrittenAt(o) ==
  LET loops == op.ad \div (8 * Block) IN
  IF OwnKernel THEN Lines(o, op.ad)
  ELSE IF loops = 0 THEN {} ELSE Lines(o, (7 * loops + 1) * Block)

\* write_nt_random_* and write_nt_random
RandomWrite(t) ==
  /\ Running(t) /\ op.random /\ op.mode = "write" /\ op.kernel = "nt"
  /\ IF count[t] < accessesPerThread
     THEN /\ \E o \in OffsetsIn(op.size) : Touch(t, WrittenAt(o))
          /\ count' = [count EXCEPT ![t] = @ + 1]
          /\ UNCHANGED <<addr, pc>>
     ELSE Finish(t)
  /\ UNCHANGED <<op, phase, i, list, memory, start>>

\* write_clwb_random and write_store_random: they count down to zero inclusively.
RandomStore(t) ==
  /\ Running(t) /\ op.random /\ op.mode = "write" /\ op.kernel # "nt"
  /\ IF count[t] * op.ad <= Share
     THEN /\ \E o \in 0 .. op.size - 1 : Touch(t, Chunks(o))
          /\ count' = [count EXCEPT ![t] = @ + 1]
          /\ UNCHANGED <<addr, pc>>
     ELSE Finish(t)
  /\ UNCHANGED <<op, phase, i, list, memory, start>>

----------------------------------------------------------------------------
\* map_operation.  A list of less than two nodes is written to beyond its ends.
Init ==
  /\ op \in Operations
  /\ phase = IF ~RandomRead THEN "create" ELSE IF accessCount < 2 THEN "crash" ELSE "shuffle"
  /\ i = 0
  /\ next = RingOf(accessCount, 1)
  /\ prev = RingOf(accessCount, accessCount - 1)
  /\ jump = RingOf(accessCount, 1)
  /\ memory = [n \in Nodes |-> 0]
  /\ start = [t \in Threads |-> 0]
  /\ pc = [t \in Threads |-> "none"]
  /\ addr = [t \in Threads |-> 0]
  /\ count = [t \in Threads |-> 0]
  /\ touched = [t \in Threads |-> {}]

Main == Shuffle \/ CheckList \/ Fill \/ CheckMemory \/ CreateThread \/ AwaitBarrier
        \/ PassBarrier \/ Join
Kernel(t) == SequentialAccess(t) \/ ChunkedAccess(t) \/ RandomReads(t) \/ RandomWrite(t)
             \/ RandomStore(t)
Next == Main \/ \E t \in Threads : Kernel(t)
Spec == Init /\ [][Next]_vars

\* The operating system runs every thread.
FairSpec == Spec /\ WF_vars(Main) /\ WF_vars(\E t \in Threads : Kernel(t))

----------------------------------------------------------------------------
(* Properties.                                                             *)

\* The variables have their types, and no thread leaves the mapped memory, at
\* random or at the end of its share (the kernels of both .c files); but read_nt_random
\* reads a block even if the distance is shorter, and leaves it behind the last node.
LastLine == op.size - 1 + (IF RandomRead /\ ~OwnKernel /\ op.ad < Block THEN Block ELSE 0)
TypeOK ==
  /\ phase \in {"shuffle", "fill", "create", "barrier", "join", "done", "exit", "crash"}
  /\ next \in [Nodes -> Nodes] /\ prev \in [Nodes -> Nodes] /\ jump \in [Nodes -> Nodes]
  /\ memory \in [Nodes -> Nodes]
  /\ pc \in [Threads -> {"none", "barrier", "run", "done"}]
  /\ touched \in [Threads -> SUBSET (0 .. LastLine)]

\* Whatever nodes are swapped, the list stays one ring of all nodes with prev
\* the inverse of next (linked_list_swap_nodes); a ring of two nodes does not.
ListIsRing ==
  accessCount > 2 /\ phase \in {"shuffle", "fill"} =>
    /\ \A n \in Nodes : prev[next[n]] = n /\ next[prev[n]] = n
    /\ IsRing(next, accessCount)

\* The jump addresses in memory are one ring of all slots, so the program never
\* gives up on its own checks (fill_with_random_offsets).
MemoryIsRing ==
  /\ accessCount > 2 => phase # "exit"
  /\ RandomRead /\ phase \in {"create", "barrier", "join", "done"} =>
       {Walk(memory, 0, n) : n \in Nodes} = Nodes

Apart == \A t, u \in Threads : t # u => touched[t] \cap touched[u] = {}

\* write_nt goes on behind its access if that has two blocks or more, which in the log
\* pattern is where another thread writes.
Overruns ==
  op.mode = "write" /\ op.kernel = "nt" /\ ~op.random /\ ~Disjoint /\ op.ad >= 2 * WriteBlock

\* Two threads never touch the same line, unless they write at random, read more per turn
\* of the loop than their share allows or at the next node as well, read chunks that the
\* access distance is no multiple of, or overrun their accesses (set_access_pattern,
\* set_thread_start_addresses, the kernels).
ThreadsApart ==
  /\ op.mode = "write" => ~op.random
  /\ RandomRead => OwnKernel /\ accessesPerThread % op.perLoop = 0
  /\ Chunked /\ ~op.random => op.ad % Chunk = 0
  /\ ~Overruns
  => Apart

\* A kernel touches all lines of its accesses.
WholeAccesses == OwnKernel \/ (~op.random /\ (Chunked \/ op.ad = WriteBlock))

\* No more is left out when the threads are done than less than an access of each thread
\* at random reads and at the disjoint pattern, the last chunk at the kernels that go by
\* chunks, and less than one access at the log pattern.
RemaindersLeft ==
  LET untouched == op.size - Cardinality(UNION {touched[t] : t \in Threads}) IN
  (\A t \in Threads : pc[t] = "done") /\ (op.mode = "write" => ~op.random) =>
    IF RandomRead \/ Disjoint THEN untouched < op.ad * op.threads
    ELSE IF Chunked THEN untouched <= Chunk
    ELSE untouched < op.ad

\* An operation whose kernel touches all of an access touches all of the memory but
\* remainders of the divisions.
AllTouched == WholeAccesses => RemaindersLeft

\* What README.md says of the access distance, "the number of bytes each thread reads during
\* a cycle", for every operation.  It fails for read_nt_random and write_nt at most
\* distances beyond 65536 bytes or between the sizes that have kernels.
EveryLineTouched == RemaindersLeft

\* What the access patterns are for.  It fails for write_nt from 262144 bytes on.
WritersApart == op.mode = "write" /\ ~op.random => Apart

\* An operation with one of the kernels that wait at the barrier comes to its end, if
\* random reads have a ring of at least two nodes.
BarrierKernelsFinish ==
  (op.kernel = "nt" /\ (RandomRead => accessCount > 1)) ~> phase \in {"done", "exit"}

\* Every operation that the README offers comes to its end.
OperationFinishes == <>(phase \in {"done", "exit"})

\* The ring stays one through every swap and in the memory (fill_with_random_offsets).
RingIntact == ListIsRing /\ MemoryIsRing

\* The threads stay in the memory and in their shares, and leave out no more than remainders
\* (set_access_pattern and the kernels).
SharesKept == TypeOK /\ ThreadsApart /\ AllTouched
=============================================================================
