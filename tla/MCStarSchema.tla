---------------------------- MODULE MCStarSchema ----------------------------
(* Instances of StarSchema for TLC.                                        *)
EXTENDS StarSchema

TwoKeys == {1, 2}

Lines  == [flight |-> "lines", keys |-> {1, 2}]
All    == [flight |-> "groups", keys |-> {1, 2}]
Second == [flight |-> "groups", keys |-> {2}]
Profit == [flight |-> "profit", keys |-> {1, 2}]

Command(workers, threads, sockets, n, slots, queue) ==
  [workers |-> workers, threads |-> threads, sockets |-> sockets, tuples |-> n, slots |-> slots, queue |-> queue]

\* Two threads and a tuple that is left over; shares that are too small; two sockets,
\* with one query and with two that share the buffers; two workers.
Commands ==
  {Command(1, 2, 1, 5, 4, <<All>>), Command(1, 2, 1, 4, 3, <<All>>),
   Command(1, 2, 2, 2, 4, <<All>>), Command(1, 1, 2, 2, 4, <<Profit, Second>>),
   Command(1, 2, 1, 3, 4, <<All, Lines>>), Command(2, 1, 1, 1, 1, <<Lines, All, Second>>)}
=============================================================================
