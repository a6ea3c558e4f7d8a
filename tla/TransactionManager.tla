--------------------------- MODULE TransactionManager ---------------------------
(***************************************************************************)
(* The commit protocol of Hyrise: src/lib/concurrency of                   *)
(* ssb/hyrise-dram (transaction_manager.cpp, transaction_context.cpp,      *)
(* commit_context.cpp).                                                    *)
(*                                                                         *)
(* Each transaction t is driven by a thread of its own, whose program      *)
(* counter is pc[t]; an action is one atomic access to shared state, so    *)
(* every interleaving of the lock-free code is a behaviour.  A thread that *)
(* advances the commit horizon may run the callback of ANOTHER             *)
(* transaction, hence the variable inc[t].                                 *)
(*                                                                         *)
(* A commit context object is named after the transaction that allocates   *)
(* it; Root is the one the manager is constructed with.  The contexts form *)
(* a linked list through next.  What a transaction writes is reduced to    *)
(* the number of its records that already carry its commit id (stamped).   *)
(***************************************************************************)
EXTENDS Integers, FiniteSets, Bags

CONSTANTS
  Tx,         \* transactions; a transaction is not restarted
  Root,       \* the commit context created by the manager's constructor
  None,       \* the null shared_ptr
  Records     \* records each writing transaction modifies

ASSUME ContextAssumption == /\ Root \notin Tx
                            /\ None \notin Tx \cup {Root}
ASSUME RecordsAssumption == Records \in Nat \ {0}

Contexts == Tx \cup {Root}

INITIAL_COMMIT_ID == 1

VARIABLES
  lastCommitId,     \* _last_commit_id
  lastContext,      \* _last_commit_context
  activeSnapshots,  \* _active_snapshot_commit_ids, a multiset
  cid,              \* CommitContext::_commit_id (0: no context made yet)
  next,             \* CommitContext::_next
  pending,          \* CommitContext::_pending
  callback,         \* whether CommitContext::_callback is set
  phase,            \* TransactionContext::_phase
  snapshot,         \* TransactionContext::_snapshot_commit_id (0: not begun)
  stamped,          \* records that commit_records has given the commit id
  done,             \* the promise that commit() waits for is fulfilled
  pc,               \* where t's thread is
  cur,              \* current_context in _new_commit_context
  inc               \* current_context in _try_increment_last_commit_id

managerVars == <<lastCommitId, lastContext, activeSnapshots>>
contextVars == <<cid, next, pending, callback>>
txVars      == <<phase, snapshot, stamped, done>>
threadVars  == <<pc, cur, inc>>
vars        == <<managerVars, contextVars, txVars, threadVars>>

Phases == {"Active", "Conflicted", "RolledBackAfterConflict",
           "RolledBackByUser", "Committing", "Committed"}

Labels == {"idle", "register", "active", "rollback", "load", "spin", "trySet",
           "swing", "stamp", "setCallback", "setPending", "isPending",
           "increment", "fire", "notify", "follow", "await", "release",
           "gone", "assertion"}

TypeOK ==
  /\ lastCommitId \in Nat
  /\ lastContext \in Contexts
  /\ IsABag(activeSnapshots)
  /\ cid \in [Contexts -> Nat]
  /\ next \in [Contexts -> Contexts \cup {None}]
  /\ pending \in [Contexts -> BOOLEAN]
  /\ callback \in [Contexts -> BOOLEAN]
  /\ phase \in [Tx -> Phases]
  /\ snapshot \in [Tx -> Nat]
  /\ stamped \in [Tx -> 0..Records]
  /\ done \in [Tx -> BOOLEAN]
  /\ pc \in [Tx -> Labels]
  /\ cur \in [Tx -> Contexts]
  /\ inc \in [Tx -> Contexts]

Init ==
  /\ lastCommitId = INITIAL_COMMIT_ID
  /\ lastContext = Root
  /\ activeSnapshots = EmptyBag
  /\ cid = [c \in Contexts |-> IF c = Root THEN INITIAL_COMMIT_ID ELSE 0]
  /\ next = [c \in Contexts |-> None]
  /\ pending = [c \in Contexts |-> FALSE]
  /\ callback = [c \in Contexts |-> FALSE]
  /\ phase = [t \in Tx |-> "Active"]
  /\ snapshot = [t \in Tx |-> 0]
  /\ stamped = [t \in Tx |-> 0]
  /\ done = [t \in Tx |-> FALSE]
  /\ pc = [t \in Tx |-> "idle"]
  /\ cur = [t \in Tx |-> Root]
  /\ inc = [t \in Tx |-> Root]

Goto(t, from, to) == pc[t] = from /\ pc' = [pc EXCEPT ![t] = to]

\* TransactionContext::_transition: a compare-and-swap of the phase of u, run
\* by the thread of t; a failed exchange is a failed Assert in that thread.
Transition(t, u, from, to, label) ==
  IF phase[u] = from
  THEN /\ phase' = [phase EXCEPT ![u] = to]
       /\ pc' = [pc EXCEPT ![t] = label]
  ELSE /\ pc' = [pc EXCEPT ![t] = "assertion"]
       /\ UNCHANGED phase

----------------------------------------------------------------------------
(* Begin: the snapshot is read first and registered later.                 *)

ReadSnapshot(t) ==
  /\ Goto(t, "idle", "register")
  /\ snapshot' = [snapshot EXCEPT ![t] = lastCommitId]
  /\ UNCHANGED <<managerVars, contextVars, phase, stamped, done, cur, inc>>

Register(t) ==
  /\ Goto(t, "register", "active")
  /\ activeSnapshots' = activeSnapshots (+) SetToBag({snapshot[t]})
  /\ UNCHANGED <<lastCommitId, lastContext, contextVars, txVars, cur, inc>>

----------------------------------------------------------------------------
(* The ways out of Active.                                                 *)

\* commit() of a transaction without read/write operators.
CommitReadOnly(t) ==
  /\ pc[t] = "active"
  /\ Transition(t, t, "Active", "Committed", "release")
  /\ UNCHANGED <<managerVars, contextVars, snapshot, stamped, done, cur, inc>>

\* rollback(RollbackReason::User) skips Conflicted.
RollbackByUser(t) ==
  /\ pc[t] = "active"
  /\ Transition(t, t, "Active", "RolledBackByUser", "release")
  /\ UNCHANGED <<managerVars, contextVars, snapshot, stamped, done, cur, inc>>

\* rollback(RollbackReason::Conflict): _mark_as_conflicted ...
MarkAsConflicted(t) ==
  /\ pc[t] = "active"
  /\ Transition(t, t, "Active", "Conflicted", "rollback")
  /\ UNCHANGED <<managerVars, contextVars, snapshot, stamped, done, cur, inc>>

\* ... and, the operators rolled back, _mark_as_rolled_back.
MarkAsRolledBack(t) ==
  /\ pc[t] = "rollback"
  /\ Transition(t, t, "Conflicted", "RolledBackAfterConflict", "release")
  /\ UNCHANGED <<managerVars, contextVars, snapshot, stamped, done, cur, inc>>

PrepareCommit(t) ==
  /\ pc[t] = "active"
  /\ Transition(t, t, "Active", "Committing", "load")
  /\ UNCHANGED <<managerVars, contextVars, snapshot, stamped, done, cur, inc>>

----------------------------------------------------------------------------
(* TransactionManager::_new_commit_context.                                *)

LoadLastContext(t) ==
  /\ Goto(t, "load", "spin")
  /\ cur' = [cur EXCEPT ![t] = lastContext]
  /\ UNCHANGED <<managerVars, contextVars, txVars, inc>>

\* Mutant: a context that could not be linked is used again, with its commit id.
SpinHasNextOnce(t) ==
  /\ IF next[cur[t]] # None
     THEN Goto(t, "spin", "load") /\ UNCHANGED cid
     ELSE /\ Goto(t, "spin", "trySet")
          /\ cid' = [cid EXCEPT ![t] = IF @ = 0 THEN cid[cur[t]] + 1 ELSE @]
  /\ UNCHANGED <<managerVars, next, pending, callback, txVars, cur, inc>>

\* while (current_context->has_next()) reload; then allocate the successor.
SpinHasNext(t) ==
  /\ IF next[cur[t]] # None
     THEN Goto(t, "spin", "load") /\ UNCHANGED cid
     ELSE Goto(t, "spin", "trySet") /\ cid' = [cid EXCEPT ![t] = cid[cur[t]] + 1]
  /\ UNCHANGED <<managerVars, next, pending, callback, txVars, cur, inc>>

\* try_set_next: has_next and the exchange of a null pointer fail alike.
TrySetNext(t) ==
  /\ IF next[cur[t]] = None
     THEN Goto(t, "trySet", "swing") /\ next' = [next EXCEPT ![cur[t]] = t]
     ELSE Goto(t, "trySet", "spin") /\ UNCHANGED next
  /\ UNCHANGED <<managerVars, cid, pending, callback, txVars, cur, inc>>

\* The exchange of _last_commit_context, with Assert(success).
SwingLastContext(t) ==
  /\ IF lastContext = cur[t]
     THEN Goto(t, "swing", "stamp") /\ lastContext' = t
     ELSE Goto(t, "swing", "assertion") /\ UNCHANGED lastContext
  /\ UNCHANGED <<lastCommitId, activeSnapshots, contextVars, txVars, cur, inc>>

----------------------------------------------------------------------------
(* commit_async: commit_records, then _mark_as_pending_and_try_commit.     *)

CommitRecord(t) ==
  /\ Goto(t, "stamp", IF stamped[t] + 1 = Records THEN "setCallback" ELSE "stamp")
  /\ stamped' = [stamped EXCEPT ![t] = @ + 1]
  /\ UNCHANGED <<managerVars, contextVars, phase, snapshot, done, cur, inc>>

SetCallback(t) ==
  /\ Goto(t, "setCallback", "setPending")
  /\ callback' = [callback EXCEPT ![t] = TRUE]
  /\ UNCHANGED <<managerVars, cid, next, pending, txVars, cur, inc>>

SetPending(t) ==
  /\ Goto(t, "setPending", "isPending")
  /\ pending' = [pending EXCEPT ![t] = TRUE]
  /\ inc' = [inc EXCEPT ![t] = t]
  /\ UNCHANGED <<managerVars, cid, next, callback, txVars, cur>>

----------------------------------------------------------------------------
(* TransactionManager::_try_increment_last_commit_id, from inc[t] on.      *)

\* Mutant: the loop does not look whether the context is pending.
SkipPendingCheck(t) ==
  /\ Goto(t, "isPending", "increment")
  /\ UNCHANGED <<managerVars, contextVars, txVars, cur, inc>>

CheckPending(t) ==
  /\ Goto(t, "isPending", IF pending[inc[t]] THEN "increment" ELSE "await")
  /\ UNCHANGED <<managerVars, contextVars, txVars, cur, inc>>

\* Mutants of the exchange: its failure does not end the loop; its expected
\* value is not checked.
FireRegardless(t) ==
  /\ Goto(t, "increment", "fire")
  /\ lastCommitId' = IF lastCommitId = cid[inc[t]] - 1 THEN cid[inc[t]] ELSE lastCommitId
  /\ UNCHANGED <<lastContext, activeSnapshots, contextVars, txVars, cur, inc>>

IncrementBlindly(t) ==
  /\ Goto(t, "increment", "fire") /\ lastCommitId' = cid[inc[t]]
  /\ UNCHANGED <<lastContext, activeSnapshots, contextVars, txVars, cur, inc>>

IncrementLastCommitId(t) ==
  /\ IF lastCommitId = cid[inc[t]] - 1
     THEN Goto(t, "increment", "fire") /\ lastCommitId' = cid[inc[t]]
     ELSE Goto(t, "increment", "await") /\ UNCHANGED lastCommitId
  /\ UNCHANGED <<lastContext, activeSnapshots, contextVars, txVars, cur, inc>>

\* fire_callback, first half: the phase of the context's transaction.  The
\* context still exists: its thread is in commit(), which returns only after
\* the second half.
FireTransition(t) ==
  /\ pc[t] = "fire"
  /\ IF callback[inc[t]]
     THEN Transition(t, inc[t], "Committing", "Committed", "notify")
     ELSE pc' = [pc EXCEPT ![t] = "follow"] /\ UNCHANGED phase
  /\ UNCHANGED <<managerVars, contextVars, snapshot, stamped, done, cur, inc>>

\* fire_callback, second half: the caller's callback fulfils the promise.
FireNotify(t) ==
  /\ Goto(t, "notify", "follow")
  /\ done' = [done EXCEPT ![inc[t]] = TRUE]
  /\ UNCHANGED <<managerVars, contextVars, phase, snapshot, stamped, cur, inc>>

\* Mutant: a thread publishes its own transaction only.
StopAfterOne(t) ==
  /\ Goto(t, "follow", "await")
  /\ UNCHANGED <<managerVars, contextVars, txVars, cur, inc>>

FollowNext(t) ==
  /\ IF next[inc[t]] = None
     THEN Goto(t, "follow", "await") /\ UNCHANGED inc
     ELSE Goto(t, "follow", "isPending") /\ inc' = [inc EXCEPT ![t] = next[inc[t]]]
  /\ UNCHANGED <<managerVars, contextVars, txVars, cur>>

----------------------------------------------------------------------------
(* The end of commit() and of the transaction context.                     *)

AwaitCommitted(t) ==
  /\ done[t]
  /\ Goto(t, "await", "release")
  /\ UNCHANGED <<managerVars, contextVars, txVars, cur, inc>>

\* Mutant: every occurrence of the snapshot is erased.
DeregisterAll(t) ==
  /\ Goto(t, "release", "gone")
  /\ activeSnapshots' = [s \in BagToSet(activeSnapshots) \ {snapshot[t]} |-> activeSnapshots[s]]
  /\ UNCHANGED <<lastCommitId, lastContext, contextVars, txVars, cur, inc>>

\* ~TransactionContext: _deregister_transaction erases one occurrence.
Deregister(t) ==
  /\ Goto(t, "release", "gone")
  /\ activeSnapshots' = activeSnapshots (-) SetToBag({snapshot[t]})
  /\ UNCHANGED <<lastCommitId, lastContext, contextVars, txVars, cur, inc>>

----------------------------------------------------------------------------
Decide(t) == CommitReadOnly(t) \/ RollbackByUser(t) \/ MarkAsConflicted(t) \/ PrepareCommit(t)

\* What a thread does on its own once its client has decided.
Proceed(t) ==
  \/ Register(t) \/ MarkAsRolledBack(t)
  \/ LoadLastContext(t) \/ SpinHasNext(t) \/ TrySetNext(t) \/ SwingLastContext(t)
  \/ CommitRecord(t) \/ SetCallback(t) \/ SetPending(t)
  \/ CheckPending(t) \/ IncrementLastCommitId(t)
  \/ FireTransition(t) \/ FireNotify(t) \/ FollowNext(t)
  \/ AwaitCommitted(t) \/ Deregister(t)

\* The end of the workload: every transaction context has been destroyed.
Finished == (\A t \in Tx : pc[t] = "gone") /\ UNCHANGED vars

Next == (\E t \in Tx : ReadSnapshot(t) \/ Decide(t) \/ Proceed(t)) \/ Finished

Spec == Init /\ [][Next]_vars

\* Threads are scheduled by the operating system: a thread that can take a step
\* of the protocol eventually takes it.  Clients owe nothing.
Fairness == \A t \in Tx : WF_vars(Proceed(t))

FairSpec == Spec /\ Fairness

----------------------------------------------------------------------------
(* Properties.                                                             *)

\* t's context is in the list: its commit id is final.
Linked(t) == \E c \in Contexts : next[c] = t

\* The multiset returned by get_lowest_active_snapshot_commit_id's scan.
LowestActiveSnapshot ==
  CHOOSE s \in BagToSet(activeSnapshots) : \A r \in BagToSet(activeSnapshots) : s <= r

Registered(t) == pc[t] \notin {"idle", "register", "gone"}

\* Commit ids are unique and gapless whatever the interleaving of the threads
\* in _new_commit_context: each context in the list has the id after its
\* predecessor's, and no two share one.
CommitIdsUniqueAndDense ==
  /\ \A c, d \in Contexts : next[c] = d => cid[d] = cid[c] + 1
  /\ \A c, d \in {Root} \cup {t \in Tx : Linked(t)} : cid[c] = cid[d] => c = d

\* A commit id that _last_commit_id has reached belongs to a transaction whose
\* commit_records is complete: no snapshot sees half a transaction.
NoPartialCommitVisible ==
  \A t \in Tx : Linked(t) /\ cid[t] <= lastCommitId => stamped[t] = Records /\ pending[t]

\* Records of u that carry a commit id which the snapshot of t covers.
VisibleRecords(t) ==
  [u \in Tx |-> IF Linked(u) /\ cid[u] <= snapshot[t] THEN stamped[u] ELSE 0]

\* What a transaction's snapshot covers never changes while it runs: commits
\* that are in progress when it begins, or start later, stay invisible
\* (transaction_manager.hpp, MVCC overview).
SnapshotStable ==
  [][\A t \in Tx : pc[t] # "idle" => VisibleRecords(t)' = VisibleRecords(t)]_vars

\* When commit() reports success (promise fulfilled, phase Committed), every
\* snapshot taken from then on covers the transaction, although another
\* thread may have done the last step for it.
AcknowledgedIsVisible ==
  \A t \in Tx : done[t] \/ (phase[t] = "Committed" /\ Linked(t)) =>
                  Linked(t) /\ cid[t] <= lastCommitId

\* Neither the compare-and-swap of _last_commit_context nor a phase transition
\* ever fails, so no Assert throws out of commit(), and no callback is run
\* for a transaction twice.
NoAssertionFails == \A t \in Tx : pc[t] # "assertion"

\* t's thread is about to advance the horizon to u's commit id.
WillAdvanceTo(t, u) ==
  \/ pc[t] \in {"isPending", "increment"} /\ inc[t] = u
  \/ pc[t] \in {"fire", "notify", "follow"} /\ next[inc[t]] = u

\* The hand-off of _try_increment_last_commit_id never drops a commit: when the
\* next commit id in line is ready, some thread is on its way to publish it.
NoLostCommit ==
  \A u \in Tx : Linked(u) /\ pending[u] /\ cid[u] = lastCommitId + 1 =>
                  \E t \in Tx : WillAdvanceTo(t, u)

CopiesOf(s) == IF BagIn(s, activeSnapshots) THEN activeSnapshots[s] ELSE 0

\* The multiset counts exactly the registered transactions, so that its minimum
\* bounds the snapshot of each of them however registrations interleave.
ActiveSnapshotsExact ==
  \A s \in 0..lastCommitId :
    CopiesOf(s) = Cardinality({t \in Tx : Registered(t) /\ snapshot[t] = s})

\* The protocol implements the abstract commit order.
Order == INSTANCE CommitOrder WITH
  issued  <- IF next[lastContext] = None THEN cid[lastContext] ELSE cid[lastContext] + 1,
  ticket  <- [t \in Tx |-> IF Linked(t) THEN cid[t] ELSE 0],
  ready   <- {t \in Tx : pending[t]},
  horizon <- lastCommitId,
  view    <- snapshot,
  acked   <- {t \in Tx : done[t]}

ImplementsCommitOrder == Order!Spec

\* A transaction that has started to commit finishes: its commit() returns and
\* its context is released, whatever the others do, provided they are scheduled;
\* the horizon advances and acknowledgements come as the commit order demands.
CommitReturns ==
  /\ Order!FairSpec
  /\ \A t \in Tx : phase[t] = "Committing" ~> pc[t] = "gone"
=================================================================================
