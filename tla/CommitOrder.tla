------------------------------- MODULE CommitOrder -------------------------------
(***************************************************************************)
(* What Hyrise's transaction manager promises, without its lock-free list: *)
(* committing transactions are handed consecutive commit ids; the commit   *)
(* horizon passes them one at a time, in that order, and only when they    *)
(* have written everything; a transaction reads as of the horizon at its   *)
(* begin; and nobody is told that a commit succeeded before the horizon    *)
(* has passed it.                                                          *)
(***************************************************************************)
EXTENDS Naturals

CONSTANT Tx

VARIABLES
  issued,    \* the highest commit id handed out
  ticket,    \* the commit id of a transaction, 0 while it has none
  ready,     \* transactions that have written everything they write
  horizon,   \* the last commit id: what new snapshots see
  view,      \* the horizon at which a transaction began, 0 before
  acked      \* transactions whose client knows that they are committed

vars == <<issued, ticket, ready, horizon, view, acked>>

Init ==
  /\ issued = 1
  /\ ticket = [t \in Tx |-> 0]
  /\ ready = {}
  /\ horizon = 1
  /\ view = [t \in Tx |-> 0]
  /\ acked = {}

Begin(t) ==
  /\ view[t] = 0
  /\ view' = [view EXCEPT ![t] = horizon]
  /\ UNCHANGED <<issued, ticket, ready, horizon, acked>>

TakeTicket(t) ==
  /\ ticket[t] = 0
  /\ issued' = issued + 1
  /\ ticket' = [ticket EXCEPT ![t] = issued + 1]
  /\ UNCHANGED <<ready, horizon, view, acked>>

MakeReady(t) ==
  /\ ticket[t] # 0
  /\ ready' = ready \cup {t}
  /\ UNCHANGED <<issued, ticket, horizon, view, acked>>

Advance ==
  /\ \E t \in ready : ticket[t] = horizon + 1
  /\ horizon' = horizon + 1
  /\ UNCHANGED <<issued, ticket, ready, view, acked>>

Acknowledge(t) ==
  /\ ticket[t] # 0 /\ ticket[t] <= horizon
  /\ acked' = acked \cup {t}
  /\ UNCHANGED <<issued, ticket, ready, horizon, view>>

Next ==
  \/ \E t \in Tx : Begin(t) \/ TakeTicket(t) \/ MakeReady(t) \/ Acknowledge(t)
  \/ Advance

\* A ready transaction that is next in line is eventually passed, and a passed
\* one whose turn it is to be acknowledged eventually is.
Spec == Init /\ [][Next]_vars

Fairness == WF_vars(Advance) /\ \A t \in Tx : WF_vars(Acknowledge(t))

FairSpec == Spec /\ Fairness
==================================================================================
