-------------------------- MODULE MCMicrobenchmark --------------------------
(* Instances of Microbenchmark for TLC. *)
EXTENDS Microbenchmark

Operation(mode, kernel, random, pattern, size, ad, threads, perLoop) ==
  [mode |-> mode, kernel |-> kernel, random |-> random, pattern |-> pattern, size |-> size,
   ad |-> ad, threads |-> threads, perLoop |-> perLoop]

\* Kernels of their own (a block is 2 lines here, so they are for 1, 2, 4, 8 and 16 lines):
\* sizes that the access distance and the threads divide and ones they do not; rings of
\* none to five nodes.
MCOwnKernels ==
  {Operation(m, "nt", FALSE, p, n, ad, t, 1) :
     m \in Modes, p \in {"log", "disjoint"}, n \in {6, 7, 9}, ad \in {1, 2}, t \in {1, 2, 3}}
  \cup {Operation("read", "nt", TRUE, "log", n, 2, t, loop) :
          n \in {1, 2, 4, 6, 8, 11}, t \in {1, 2}, loop \in {1, 2}}
  \cup {Operation("write", "nt", TRUE, "log", n, 2, 2, 1) : n \in {5, 6}}

\* Kernels that go by chunks, of a block or of a line.
MCChunkKernels ==
  {Operation("read", "nt", FALSE, p, n, ad, 2, 1) : p \in {"log", "disjoint"}, n \in {12, 17}, ad \in {3, 6}}
  \cup {Operation("read", "simd", FALSE, "log", n, ad, 2, 1) : n \in {6, 7}, ad \in {1, 2}}
  \cup {Operation("write", k, FALSE, "log", n, ad, 2, 1) :
          k \in {"clwb", "store"}, n \in {6, 7}, ad \in {1, 2, 3}}
  \cup {Operation("write", "store", TRUE, "log", 6, 2, 2, 1)}

\* write_nt and the random kernels at other distances: shorter than a block, of one, two
\* and three blocks of write_nt (32 lines), of one and two loops of read_nt_random (16
\* lines), and of one and two loops of write_nt_random.
MCGeneralKernels ==
  {Operation("write", "nt", FALSE, p, n, ad, t, 1) :
     p \in {"log", "disjoint"}, n \in {128, 150}, ad \in {3, 32, 40, 64, 96}, t \in {1, 2}}
  \cup {Operation("read", "nt", TRUE, "log", size, ad, 2, loop) :
          size \in {70, 100}, ad \in {20, 32}, loop \in {1, 2}}
  \cup {Operation("read", "nt", TRUE, "log", 12, 3, 2, 1)}
  \cup {Operation("write", "nt", TRUE, "log", 56, 24, t, 1) : t \in {1, 2}}
  \cup {Operation("write", "nt", TRUE, "log", 96, 33, 1, 1)}
  \cup {Operation("write", "nt", TRUE, "log", 6, 3, 1, 1)}

MCOperations == MCOwnKernels \cup MCChunkKernels \cup MCGeneralKernels
=============================================================================
