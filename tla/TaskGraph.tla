-------------------------------- MODULE TaskGraph --------------------------------
(***************************************************************************)
(* What a scheduler promises: each task runs once, after its predecessors; *)
(* and once the scheduler is closed every task has run.                    *)
(***************************************************************************)
CONSTANTS
  Tasks,
  Edges      \* pairs <<p, s>>: p is a predecessor of s

VARIABLES
  started,   \* tasks whose work has begun
  completed, \* tasks whose work has ended
  closed     \* the scheduler accepts no more tasks

vars == <<started, completed, closed>>

Predecessors(t) == {p \in Tasks : <<p, t>> \in Edges}

Init == started = {} /\ completed = {} /\ closed = FALSE

Start(t) ==
  /\ t \notin started /\ ~closed
  /\ Predecessors(t) \subseteq completed
  /\ started' = started \cup {t}
  /\ UNCHANGED <<completed, closed>>

Complete(t) ==
  /\ t \in started \ completed
  /\ completed' = completed \cup {t}
  /\ UNCHANGED <<started, closed>>

Close ==
  /\ completed = Tasks
  /\ closed' = TRUE
  /\ UNCHANGED <<started, completed>>

Next == (\E t \in Tasks : Start(t) \/ Complete(t)) \/ Close

Spec == Init /\ [][Next]_vars
==================================================================================
