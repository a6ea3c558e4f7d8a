------------------------ MODULE TransactionManagerProofs ------------------------
(***************************************************************************)
(* Safety of the commit protocol for any number of transactions and of     *)
(* records.  The proofs rest on one inductive invariant, IInv, which says  *)
(* in which order the list of commit contexts grows, gets ready and is     *)
(* passed by the commit horizon.                                           *)
(***************************************************************************)
EXTENDS TransactionManager, FiniteSetTheorems, TLAPS

----------------------------------------------------------------------------
(* The inductive invariant.                                                *)

\* t's context is ready: its commit_records and callback are done.
Ready(t) == \/ pc[t] \in {"isPending", "increment", "fire", "notify", "follow", "await"}
            \/ pc[t] \in {"release", "gone"} /\ done[t]

\* t's context is in the list.
In(t) == pc[t] \in {"swing", "stamp", "setCallback", "setPending"} \/ Ready(t)

Member(c) == c = Root \/ (c \in Tx /\ In(c))

\* t's thread holds inc[t] in the loop of _try_increment_last_commit_id.
Publishing(t) == pc[t] \in {"isPending", "increment", "fire", "notify", "follow"}

\* A context in the list was put there by its own thread, after cur.
ListShape ==
  /\ \A c \in Contexts : next[c] # None =>
       Member(c) /\ next[c] \in Tx /\ In(next[c]) /\ cur[next[c]] = c
  /\ \A t \in Tx : In(t) => Member(cur[t]) /\ next[cur[t]] = t /\ cid[t] = cid[cur[t]] + 1

IdsDistinct == \A c, d \in Contexts : Member(c) /\ Member(d) /\ cid[c] = cid[d] => c = d

\* The list ends at _last_commit_context or one after it, while the thread of
\* that context is about to swing the pointer.
ListEnd ==
  /\ Member(lastContext)
  /\ \A c \in Contexts : Member(c) =>
       /\ cid[c] <= cid[lastContext] \/ c = next[lastContext]
       /\ next[c] = None => c = lastContext \/ c = next[lastContext]
  /\ next[lastContext] # None => pc[next[lastContext]] = "swing"
  /\ \A t \in Tx : pc[t] = "swing" => cur[t] = lastContext

\* What a thread in _new_commit_context knows of the context it looked at.
Search ==
  \A t \in Tx :
    /\ pc[t] \in {"spin", "trySet"} => Member(cur[t]) /\ cid[cur[t]] <= cid[lastContext]
    /\ pc[t] = "trySet" => cid[t] = cid[cur[t]] + 1

Stamping ==
  /\ ~pending[Root]
  /\ \A t \in Tx :
       /\ pending[t] <=> Ready(t)
       /\ pc[t] = "swing" \/ ~In(t) => stamped[t] = 0
       /\ pc[t] = "stamp" => stamped[t] < Records
       /\ pc[t] \in {"setCallback", "setPending"} \/ Ready(t) => stamped[t] = Records
       /\ pc[t] = "setPending" \/ Ready(t) => callback[t]

\* The horizon has passed only ready contexts, and is behind the list's end.
Horizon ==
  /\ INITIAL_COMMIT_ID <= lastCommitId /\ lastCommitId <= cid[lastContext]
  /\ \A t \in Tx : In(t) /\ cid[t] <= lastCommitId => pending[t]
  /\ \A t \in Tx : snapshot[t] <= lastCommitId /\ (pc[t] = "idle" => snapshot[t] = 0)

\* The contexts that threads of the increment loop hold; each is fired once.
Publication ==
  /\ \A t \in Tx : Publishing(t) => inc[t] \in Tx /\ In(inc[t])
  /\ \A t \in Tx : Publishing(t) /\ pc[t] # "isPending" => pending[inc[t]]
  /\ \A t \in Tx : pc[t] \in {"fire", "notify", "follow"} => cid[inc[t]] <= lastCommitId
  /\ \A t \in Tx : pc[t] = "fire" => phase[inc[t]] = "Committing"
  /\ \A t, u \in Tx : pc[t] = "fire" /\ pc[u] = "fire" /\ inc[t] = inc[u] => t = u
  /\ \A t \in Tx : done[t] => pending[t] /\ cid[t] <= lastCommitId

PhaseOf ==
  \A t \in Tx :
    /\ pc[t] \in {"idle", "register", "active"} => phase[t] = "Active"
    /\ pc[t] = "rollback" => phase[t] = "Conflicted"
    /\ pc[t] \in {"load", "spin", "trySet"} => phase[t] = "Committing"
    /\ In(t) => phase[t] \in {"Committing", "Committed"}
    /\ In(t) /\ phase[t] = "Committed" => cid[t] <= lastCommitId

Structure == /\ ListShape /\ IdsDistinct /\ ListEnd /\ Search /\ Stamping /\ Horizon
             /\ Publication /\ PhaseOf /\ NoAssertionFails

IInv == TypeOK /\ Structure

\* The constructor establishes the invariant.
LEMMA InitIInv == Init => IInv
  BY ContextAssumption, RecordsAssumption
  DEF Init, IInv, Structure, TypeOK, ListShape, IdsDistinct, ListEnd, Search, Stamping, Horizon, Publication, PhaseOf,
      NoAssertionFails, Member, In, Ready, Publishing, Contexts, INITIAL_COMMIT_ID, Phases, Labels,
      IsABag, EmptyBag, SetToBag

\* Registration and deregistration keep the multiset a multiset.
LEMMA BagAdd == ASSUME NEW B, IsABag(B), NEW s PROVE IsABag(B (+) SetToBag({s}))
  BY DEF IsABag, SetToBag, (+)

\* A multiset of snapshots stays one when a snapshot is taken out (deregister).
LEMMA BagRemove == ASSUME NEW B, IsABag(B), NEW s PROVE IsABag(B (-) SetToBag({s}))
  BY DEF IsABag, SetToBag, (-)

\* Every step of a thread keeps the types.
LEMMA TypeStep == ASSUME IInv, [Next]_vars PROVE TypeOK'
<1> USE ContextAssumption, RecordsAssumption DEF IInv, Structure, TypeOK, Contexts, Phases, Labels, Goto, Transition,
      managerVars, contextVars, txVars, threadVars, Stamping
<1>1. ASSUME NEW t \in Tx, ReadSnapshot(t) PROVE TypeOK'
  BY <1>1 DEF ReadSnapshot
<1>2. ASSUME NEW t \in Tx, Register(t) PROVE TypeOK'
  BY <1>2, BagAdd DEF Register
<1>3. ASSUME NEW t \in Tx, Decide(t) PROVE TypeOK'
  BY <1>3 DEF Decide, CommitReadOnly, RollbackByUser, MarkAsConflicted, PrepareCommit
<1>4. ASSUME NEW t \in Tx, CommitRecord(t) PROVE TypeOK'
  BY <1>4 DEF CommitRecord
<1>5. ASSUME NEW t \in Tx, Deregister(t) PROVE TypeOK'
  BY <1>5, BagRemove DEF Deregister
<1>6. ASSUME NEW t \in Tx, IncrementLastCommitId(t) PROVE TypeOK'
  BY <1>6 DEF IncrementLastCommitId
<1>7. ASSUME NEW t \in Tx, SpinHasNext(t) PROVE TypeOK'
  BY <1>7 DEF SpinHasNext
<1>8. ASSUME NEW t \in Tx, FollowNext(t) PROVE TypeOK'
  BY <1>8 DEF FollowNext
<1>9. ASSUME NEW t \in Tx, MarkAsRolledBack(t) PROVE TypeOK'
  BY <1>9 DEF MarkAsRolledBack
<1>10. ASSUME NEW t \in Tx, LoadLastContext(t) PROVE TypeOK'
  BY <1>10 DEF LoadLastContext
<1>11. ASSUME NEW t \in Tx, TrySetNext(t) PROVE TypeOK'
  BY <1>11 DEF TrySetNext
<1>12. ASSUME NEW t \in Tx, SwingLastContext(t) PROVE TypeOK'
  BY <1>12 DEF SwingLastContext
<1>13. ASSUME NEW t \in Tx, SetCallback(t) PROVE TypeOK'
  BY <1>13 DEF SetCallback
<1>14. ASSUME NEW t \in Tx, SetPending(t) PROVE TypeOK'
  BY <1>14 DEF SetPending
<1>15. ASSUME NEW t \in Tx, CheckPending(t) PROVE TypeOK'
  BY <1>15 DEF CheckPending
<1>16. ASSUME NEW t \in Tx, FireTransition(t) PROVE TypeOK'
  BY SMTT(60), <1>16 DEF FireTransition, Publication, Publishing
<1>17. ASSUME NEW t \in Tx, FireNotify(t) PROVE TypeOK'
  BY <1>17 DEF FireNotify, Publication, Publishing
<1>18. ASSUME NEW t \in Tx, AwaitCommitted(t) PROVE TypeOK'
  BY <1>18 DEF AwaitCommitted
<1>19. ASSUME UNCHANGED vars PROVE TypeOK'
  BY <1>19 DEF vars
<1> QED
  BY <1>1, <1>2, <1>3, <1>4, <1>5, <1>6, <1>7, <1>8, <1>9, <1>10, <1>11, <1>12, <1>13, <1>14, <1>15, <1>16, <1>17, <1>18, <1>19
     DEF Next, Proceed, Finished

----------------------------------------------------------------------------
(* Steps that leave the list and its members alone.                        *)

Framed ==
  /\ next' = next
  /\ \A u \in Tx : In(u)' <=> In(u)
  /\ \A u \in Tx : In(u) => cur'[u] = cur[u]
  /\ \A c \in Contexts : Member(c) => cid'[c] = cid[c]

EndFramed == lastContext' = lastContext /\ \A u \in Tx : pc'[u] = "swing" <=> pc[u] = "swing"

\* Steps that move no thread in or out of the list keep its members,
LEMMA FrameMember == ASSUME Framed, NEW c PROVE Member(c)' <=> Member(c)
  BY DEF Framed, Member

\* ... its shape,
LEMMA FrameListShape == ASSUME IInv, TypeOK', Framed PROVE ListShape'
<1>1. ASSUME NEW c \in Contexts, next'[c] # None
      PROVE  Member(c)' /\ next'[c] \in Tx /\ In(next[c])' /\ cur'[next'[c]] = c
  <2>1. Member(c) /\ next[c] \in Tx /\ In(next[c]) /\ cur[next[c]] = c /\ next'[c] = next[c]
    BY <1>1 DEF IInv, Structure, ListShape, Framed
  <2> QED
    BY <2>1, FrameMember DEF Framed, In, Ready
<1>2. ASSUME NEW u \in Tx, In(u)'
      PROVE  Member(cur[u])' /\ next'[cur'[u]] = u /\ cid'[u] = cid'[cur'[u]] + 1
  <2>1. In(u) /\ Member(cur[u]) /\ next[cur[u]] = u /\ cid[u] = cid[cur[u]] + 1
    BY <1>2 DEF IInv, Structure, ListShape, Framed
  <2>2. cur'[u] = cur[u] /\ cid'[u] = cid[u] /\ cid'[cur[u]] = cid[cur[u]] /\ cur[u] \in Contexts /\ u \in Contexts
    BY <2>1 DEF Framed, Member, IInv, Structure, TypeOK, Contexts
  <2> QED
    BY <2>1, <2>2 DEF Framed, In, Member, Ready
<1> QED
  BY <1>1, <1>2 DEF ListShape

\* ... the distinctness of its ids,
LEMMA FrameIds == ASSUME IInv, TypeOK', Framed PROVE IdsDistinct'
  BY DEF Framed, IInv, Structure, IdsDistinct, Member, In, Ready

\* ... and its end.
LEMMA FrameListEnd == ASSUME IInv, TypeOK', Framed, EndFramed PROVE ListEnd'
<1>1. Member(lastContext)' /\ cid'[lastContext'] = cid[lastContext]
  BY DEF Framed, EndFramed, IInv, Structure, ListEnd, Member, In, Ready, TypeOK
<1>2. ASSUME NEW c \in Contexts, Member(c)'
      PROVE  /\ cid'[c] <= cid'[lastContext'] \/ c = next'[lastContext']
             /\ next'[c] = None => c = lastContext' \/ c = next'[lastContext']
  <2>1. Member(c)
    BY <1>2, FrameMember
  <2> QED
    BY <1>1, <2>1 DEF Framed, EndFramed, IInv, Structure, ListEnd
<1>3. next'[lastContext'] # None => pc'[next'[lastContext']] = "swing"
  <2>1. next[lastContext] # None => next[lastContext] \in Tx /\ pc[next[lastContext]] = "swing"
    BY DEF IInv, Structure, ListEnd, ListShape, TypeOK
  <2> QED
    BY <2>1 DEF Framed, EndFramed
<1>4. ASSUME NEW u \in Tx, pc'[u] = "swing" PROVE cur'[u] = lastContext'
  BY <1>4 DEF Framed, EndFramed, IInv, Structure, ListEnd, In
<1> QED
  BY <1>1, <1>2, <1>3, <1>4 DEF ListEnd

----------------------------------------------------------------------------
(* Each action preserves the invariant: first those of one thread's own       *)
(* state, ...                                                              *)

\* new_transaction_context reads the horizon: the snapshot is not above it.
LEMMA ReadSnapshotStep == ASSUME IInv, TypeOK', NEW t \in Tx, ReadSnapshot(t) PROVE Structure'
<1> USE ContextAssumption, RecordsAssumption
    DEF IInv, Structure, TypeOK, Contexts, Goto, Transition, managerVars, contextVars, txVars, threadVars, In, Ready,
        Member, Publishing, Labels, Phases, INITIAL_COMMIT_ID
<1>1. Framed /\ EndFramed
  BY DEF ReadSnapshot, Framed, EndFramed, Publication, Stamping
<1>2. ListShape' /\ IdsDistinct' /\ ListEnd'
  BY <1>1, FrameListShape, FrameIds, FrameListEnd
<1>3. Search' /\ Stamping' /\ Horizon'
  BY DEF ReadSnapshot, ListEnd, Search, Stamping, Horizon, Publication, PhaseOf
<1>4. Publication' /\ PhaseOf' /\ NoAssertionFails'
  BY DEF ReadSnapshot, ListEnd, Search, Stamping, Horizon, Publication, PhaseOf, NoAssertionFails
<1> QED
  BY <1>2, <1>3, <1>4

\* _register_transaction touches neither the list nor the horizon.
LEMMA RegisterStep == ASSUME IInv, TypeOK', NEW t \in Tx, Register(t) PROVE Structure'
<1> USE ContextAssumption, RecordsAssumption
    DEF IInv, Structure, TypeOK, Contexts, Goto, Transition, managerVars, contextVars, txVars, threadVars, In, Ready,
        Member, Publishing, Labels, Phases, INITIAL_COMMIT_ID
<1>1. Framed /\ EndFramed
  BY DEF Register, Framed, EndFramed, Publication, Stamping
<1>2. ListShape' /\ IdsDistinct' /\ ListEnd'
  BY <1>1, FrameListShape, FrameIds, FrameListEnd
<1>3. Search' /\ Stamping' /\ Horizon'
  BY DEF Register, ListEnd, Search, Stamping, Horizon, Publication, PhaseOf
<1>4. Publication' /\ PhaseOf' /\ NoAssertionFails'
  BY DEF Register, ListEnd, Search, Stamping, Horizon, Publication, PhaseOf, NoAssertionFails
<1> QED
  BY <1>2, <1>3, <1>4

\* commit() without read/write operators only changes the phase, outside the list.
LEMMA CommitReadOnlyStep == ASSUME IInv, TypeOK', NEW t \in Tx, CommitReadOnly(t) PROVE Structure'
<1> USE DEF IInv, Structure, TypeOK, Contexts, contextVars, managerVars
<1>1. /\ pc[t] = "active" /\ pc' = [pc EXCEPT ![t] = "release"] /\ phase' = [phase EXCEPT ![t] = "Committed"]
      /\ UNCHANGED <<managerVars, contextVars, snapshot, stamped, done, cur, inc>>
  BY DEF CommitReadOnly, Transition, PhaseOf
<1>2. ~In(t) /\ ~pending[t] /\ ~done[t]
  BY <1>1 DEF In, Ready, Stamping, Publication
<1>3. ~In(t)' /\ ~Ready(t)' /\ \A u \in Tx : u # t => (In(u)' <=> In(u)) /\ (Ready(u)' <=> Ready(u))
  BY <1>1, <1>2 DEF In, Ready
<1>4. Framed /\ EndFramed
  BY <1>1, <1>2, <1>3 DEF Framed, EndFramed
<1>5. ListShape' /\ IdsDistinct' /\ ListEnd'
  BY <1>4, FrameListShape, FrameIds, FrameListEnd
<1>6. Search'
  BY <1>1, <1>2, <1>3 DEF Search, Member, In, Ready
<1>7. Stamping' /\ Horizon'
  BY <1>1, <1>2, <1>3, RecordsAssumption DEF Stamping, Horizon
<1>8. \A u \in Tx : Publishing(u)' <=> Publishing(u)
  BY <1>1 DEF Publishing
<1>9. \A u \in Tx : Publishing(u) => inc[u] \in Tx /\ In(inc[u]) /\ In(inc[u])'
  BY <1>1, <1>2, <1>3 DEF Publication, In, Ready
<1>10. Publication'
  BY <1>1, <1>8, <1>9, <1>2 DEF Publication, Publishing
<1>11. PhaseOf' /\ NoAssertionFails'
  BY <1>1, <1>2, <1>3 DEF PhaseOf, NoAssertionFails
<1> QED
  BY <1>5, <1>6, <1>7, <1>10, <1>11

\* A rollback by the user ends a transaction that is not in the list.
LEMMA RollbackByUserStep == ASSUME IInv, TypeOK', NEW t \in Tx, RollbackByUser(t) PROVE Structure'
<1> USE DEF IInv, Structure, TypeOK, Contexts, contextVars, managerVars
<1>1. /\ pc[t] = "active" /\ pc' = [pc EXCEPT ![t] = "release"] /\ phase' = [phase EXCEPT ![t] = "RolledBackByUser"]
      /\ UNCHANGED <<managerVars, contextVars, snapshot, stamped, done, cur, inc>>
  BY DEF RollbackByUser, Transition, PhaseOf
<1>2. ~In(t) /\ ~pending[t] /\ ~done[t]
  BY <1>1 DEF In, Ready, Stamping, Publication
<1>3. ~In(t)' /\ ~Ready(t)' /\ \A u \in Tx : u # t => (In(u)' <=> In(u)) /\ (Ready(u)' <=> Ready(u))
  BY <1>1, <1>2 DEF In, Ready
<1>4. Framed /\ EndFramed
  BY <1>1, <1>2, <1>3 DEF Framed, EndFramed
<1>5. ListShape' /\ IdsDistinct' /\ ListEnd'
  BY <1>4, FrameListShape, FrameIds, FrameListEnd
<1>6. Search'
  BY <1>1, <1>2, <1>3 DEF Search, Member, In, Ready
<1>7. Stamping' /\ Horizon'
  BY <1>1, <1>2, <1>3, RecordsAssumption DEF Stamping, Horizon
<1>8. \A u \in Tx : Publishing(u)' <=> Publishing(u)
  BY <1>1 DEF Publishing
<1>9. \A u \in Tx : Publishing(u) => inc[u] \in Tx /\ In(inc[u]) /\ In(inc[u])'
  BY <1>1, <1>2, <1>3 DEF Publication, In, Ready
<1>10. Publication'
  BY <1>1, <1>8, <1>9, <1>2 DEF Publication, Publishing
<1>11. PhaseOf' /\ NoAssertionFails'
  BY <1>1, <1>2, <1>3 DEF PhaseOf, NoAssertionFails
<1> QED
  BY <1>5, <1>6, <1>7, <1>10, <1>11

\* So does a conflict, in its first part,
LEMMA MarkAsConflictedStep == ASSUME IInv, TypeOK', NEW t \in Tx, MarkAsConflicted(t) PROVE Structure'
<1> USE DEF IInv, Structure, TypeOK, Contexts, contextVars, managerVars
<1>1. /\ pc[t] = "active" /\ pc' = [pc EXCEPT ![t] = "rollback"] /\ phase' = [phase EXCEPT ![t] = "Conflicted"]
      /\ UNCHANGED <<managerVars, contextVars, snapshot, stamped, done, cur, inc>>
  BY DEF MarkAsConflicted, Transition, PhaseOf
<1>2. ~In(t) /\ ~pending[t] /\ ~done[t]
  BY <1>1 DEF In, Ready, Stamping, Publication
<1>3. ~In(t)' /\ ~Ready(t)' /\ \A u \in Tx : u # t => (In(u)' <=> In(u)) /\ (Ready(u)' <=> Ready(u))
  BY <1>1, <1>2 DEF In, Ready
<1>4. Framed /\ EndFramed
  BY <1>1, <1>2, <1>3 DEF Framed, EndFramed
<1>5. ListShape' /\ IdsDistinct' /\ ListEnd'
  BY <1>4, FrameListShape, FrameIds, FrameListEnd
<1>6. Search'
  BY <1>1, <1>2, <1>3 DEF Search, Member, In, Ready
<1>7. Stamping' /\ Horizon'
  BY <1>1, <1>2, <1>3, RecordsAssumption DEF Stamping, Horizon
<1>8. \A u \in Tx : Publishing(u)' <=> Publishing(u)
  BY <1>1 DEF Publishing
<1>9. \A u \in Tx : Publishing(u) => inc[u] \in Tx /\ In(inc[u]) /\ In(inc[u])'
  BY <1>1, <1>2, <1>3 DEF Publication, In, Ready
<1>10. Publication'
  BY <1>1, <1>8, <1>9, <1>2 DEF Publication, Publishing
<1>11. PhaseOf' /\ NoAssertionFails'
  BY <1>1, <1>2, <1>3 DEF PhaseOf, NoAssertionFails
<1> QED
  BY <1>5, <1>6, <1>7, <1>10, <1>11

\* _prepare_commit sends the thread to look for the end of the list.
LEMMA PrepareCommitStep == ASSUME IInv, TypeOK', NEW t \in Tx, PrepareCommit(t) PROVE Structure'
<1> USE ContextAssumption, RecordsAssumption
    DEF IInv, Structure, TypeOK, Contexts, Goto, Transition, managerVars, contextVars, txVars, threadVars, In, Ready,
        Member, Publishing, Labels, Phases, INITIAL_COMMIT_ID
<1>1. Framed /\ EndFramed
  BY DEF PrepareCommit, Framed, EndFramed, Publication, Stamping
<1>2. ListShape' /\ IdsDistinct' /\ ListEnd'
  BY <1>1, FrameListShape, FrameIds, FrameListEnd
<1>3. Search' /\ Stamping' /\ Horizon'
  BY SMTT(60) DEF PrepareCommit, ListEnd, Search, Stamping, Horizon, Publication, PhaseOf
<1>4. Publication' /\ PhaseOf' /\ NoAssertionFails'
  BY SMTT(60) DEF PrepareCommit, ListEnd, Search, Stamping, Horizon, Publication, PhaseOf, NoAssertionFails
<1> QED
  BY <1>2, <1>3, <1>4

\* ... and in its second part.
LEMMA MarkAsRolledBackStep == ASSUME IInv, TypeOK', NEW t \in Tx, MarkAsRolledBack(t) PROVE Structure'
<1> USE DEF IInv, Structure, TypeOK, Contexts, contextVars, managerVars
<1>1. /\ pc[t] = "rollback" /\ pc' = [pc EXCEPT ![t] = "release"] /\ phase' = [phase EXCEPT ![t] = "RolledBackAfterConflict"]
      /\ UNCHANGED <<managerVars, contextVars, snapshot, stamped, done, cur, inc>>
  BY DEF MarkAsRolledBack, Transition, PhaseOf
<1>2. ~In(t) /\ ~pending[t] /\ ~done[t]
  BY <1>1 DEF In, Ready, Stamping, Publication
<1>3. ~In(t)' /\ ~Ready(t)' /\ \A u \in Tx : u # t => (In(u)' <=> In(u)) /\ (Ready(u)' <=> Ready(u))
  BY <1>1, <1>2 DEF In, Ready
<1>4. Framed /\ EndFramed
  BY <1>1, <1>2, <1>3 DEF Framed, EndFramed
<1>5. ListShape' /\ IdsDistinct' /\ ListEnd'
  BY <1>4, FrameListShape, FrameIds, FrameListEnd
<1>6. Search'
  BY <1>1, <1>2, <1>3 DEF Search, Member, In, Ready
<1>7. Stamping' /\ Horizon'
  BY <1>1, <1>2, <1>3, RecordsAssumption DEF Stamping, Horizon
<1>8. \A u \in Tx : Publishing(u)' <=> Publishing(u)
  BY <1>1 DEF Publishing
<1>9. \A u \in Tx : Publishing(u) => inc[u] \in Tx /\ In(inc[u]) /\ In(inc[u])'
  BY <1>1, <1>2, <1>3 DEF Publication, In, Ready
<1>10. Publication'
  BY <1>1, <1>8, <1>9, <1>2 DEF Publication, Publishing
<1>11. PhaseOf' /\ NoAssertionFails'
  BY <1>1, <1>2, <1>3 DEF PhaseOf, NoAssertionFails
<1> QED
  BY <1>5, <1>6, <1>7, <1>10, <1>11

\* The thread loads a member of the list, whose id is not above the last one.
LEMMA LoadLastContextStep == ASSUME IInv, TypeOK', NEW t \in Tx, LoadLastContext(t) PROVE Structure'
<1> USE ContextAssumption, RecordsAssumption
    DEF IInv, Structure, TypeOK, Contexts, Goto, Transition, managerVars, contextVars, txVars, threadVars, In, Ready,
        Member, Publishing, Labels, Phases, INITIAL_COMMIT_ID
<1>1. Framed /\ EndFramed
  BY DEF LoadLastContext, Framed, EndFramed, Publication, Stamping
<1>2. ListShape' /\ IdsDistinct' /\ ListEnd'
  BY <1>1, FrameListShape, FrameIds, FrameListEnd
<1>3. Search' /\ Stamping' /\ Horizon'
  BY DEF LoadLastContext, ListEnd, Search, Stamping, Horizon, Publication, PhaseOf
<1>4. Publication' /\ PhaseOf' /\ NoAssertionFails'
  BY DEF LoadLastContext, ListEnd, Search, Stamping, Horizon, Publication, PhaseOf, NoAssertionFails
<1> QED
  BY <1>2, <1>3, <1>4

\* commit_records: the thread leaves the loop when all records carry the id.
LEMMA CommitRecordStep == ASSUME IInv, TypeOK', NEW t \in Tx, CommitRecord(t) PROVE Structure'
<1> USE ContextAssumption, RecordsAssumption
    DEF IInv, Structure, TypeOK, Contexts, Goto, Transition, managerVars, contextVars, txVars, threadVars, In, Ready,
        Member, Publishing, Labels, Phases, INITIAL_COMMIT_ID
<1>1. Framed /\ EndFramed
  BY DEF CommitRecord, Framed, EndFramed, Publication, Stamping
<1>2. ListShape' /\ IdsDistinct' /\ ListEnd'
  BY <1>1, FrameListShape, FrameIds, FrameListEnd
<1>3. Search' /\ Stamping' /\ Horizon'
  BY DEF CommitRecord, ListEnd, Search, Stamping, Horizon, Publication, PhaseOf
<1>4. Publication' /\ PhaseOf' /\ NoAssertionFails'
  BY DEF CommitRecord, ListEnd, Search, Stamping, Horizon, Publication, PhaseOf, NoAssertionFails
<1> QED
  BY <1>2, <1>3, <1>4

\* The callback is set before the context is pending.
LEMMA SetCallbackStep == ASSUME IInv, TypeOK', NEW t \in Tx, SetCallback(t) PROVE Structure'
<1> USE ContextAssumption, RecordsAssumption
    DEF IInv, Structure, TypeOK, Contexts, Goto, Transition, managerVars, contextVars, txVars, threadVars, In, Ready,
        Member, Publishing, Labels, Phases, INITIAL_COMMIT_ID
<1>1. Framed /\ EndFramed
  BY DEF SetCallback, Framed, EndFramed, Publication, Stamping
<1>2. ListShape' /\ IdsDistinct' /\ ListEnd'
  BY <1>1, FrameListShape, FrameIds, FrameListEnd
<1>3. Search' /\ Stamping' /\ Horizon'
  BY DEF SetCallback, ListEnd, Search, Stamping, Horizon, Publication, PhaseOf
<1>4. Publication' /\ PhaseOf' /\ NoAssertionFails'
  BY DEF SetCallback, ListEnd, Search, Stamping, Horizon, Publication, PhaseOf, NoAssertionFails
<1> QED
  BY <1>2, <1>3, <1>4

\* A context becomes pending, and thereby ready, when all of it is written.
LEMMA SetPendingStep == ASSUME IInv, TypeOK', NEW t \in Tx, SetPending(t) PROVE Structure'
<1> USE ContextAssumption, RecordsAssumption
    DEF IInv, Structure, TypeOK, Contexts, Goto, Transition, managerVars, contextVars, txVars, threadVars, In, Ready,
        Member, Publishing, Labels, Phases, INITIAL_COMMIT_ID
<1>1. Framed /\ EndFramed
  BY DEF SetPending, Framed, EndFramed, Publication, Stamping
<1>2. ListShape' /\ IdsDistinct' /\ ListEnd'
  BY <1>1, FrameListShape, FrameIds, FrameListEnd
<1>3. Search' /\ Stamping' /\ Horizon'
  BY DEF SetPending, ListEnd, Search, Stamping, Horizon, Publication, PhaseOf
<1>4. Publication' /\ PhaseOf' /\ NoAssertionFails'
  BY DEF SetPending, ListEnd, Search, Stamping, Horizon, Publication, PhaseOf, NoAssertionFails
<1> QED
  BY <1>2, <1>3, <1>4

\* The loop of _try_increment_last_commit_id goes on with a pending context only.
LEMMA CheckPendingStep == ASSUME IInv, TypeOK', NEW t \in Tx, CheckPending(t) PROVE Structure'
<1> USE ContextAssumption, RecordsAssumption
    DEF IInv, Structure, TypeOK, Contexts, Goto, Transition, managerVars, contextVars, txVars, threadVars, In, Ready,
        Member, Publishing, Labels, Phases, INITIAL_COMMIT_ID
<1>1. Framed /\ EndFramed
  BY DEF CheckPending, Framed, EndFramed, Publication, Stamping
<1>2. ListShape' /\ IdsDistinct' /\ ListEnd'
  BY <1>1, FrameListShape, FrameIds, FrameListEnd
<1>3. Search' /\ Stamping' /\ Horizon'
  BY DEF CheckPending, ListEnd, Search, Stamping, Horizon, Publication, PhaseOf
<1>4. Publication' /\ PhaseOf' /\ NoAssertionFails'
  BY DEF CheckPending, ListEnd, Search, Stamping, Horizon, Publication, PhaseOf, NoAssertionFails
<1> QED
  BY <1>2, <1>3, <1>4

\* The promise is fulfilled after the horizon has reached the context.
LEMMA FireNotifyStep == ASSUME IInv, TypeOK', NEW t \in Tx, FireNotify(t) PROVE Structure'
<1> USE ContextAssumption, RecordsAssumption
    DEF IInv, Structure, TypeOK, Contexts, Goto, Transition, managerVars, contextVars, txVars, threadVars, In, Ready,
        Member, Publishing, Labels, Phases, INITIAL_COMMIT_ID
<1>1. Framed /\ EndFramed
  BY DEF FireNotify, Framed, EndFramed, Publication, Stamping
<1>2. ListShape' /\ IdsDistinct' /\ ListEnd'
  BY <1>1, FrameListShape, FrameIds, FrameListEnd
<1>3. Search' /\ Stamping' /\ Horizon'
  BY DEF FireNotify, ListEnd, Search, Stamping, Horizon, Publication, PhaseOf
<1>4. Publication' /\ PhaseOf' /\ NoAssertionFails'
  BY DEF FireNotify, ListEnd, Search, Stamping, Horizon, Publication, PhaseOf, NoAssertionFails
<1> QED
  BY <1>2, <1>3, <1>4

\* commit() returns when its promise is fulfilled.
LEMMA AwaitCommittedStep == ASSUME IInv, TypeOK', NEW t \in Tx, AwaitCommitted(t) PROVE Structure'
<1> USE ContextAssumption, RecordsAssumption
    DEF IInv, Structure, TypeOK, Contexts, Goto, Transition, managerVars, contextVars, txVars, threadVars, In, Ready,
        Member, Publishing, Labels, Phases, INITIAL_COMMIT_ID
<1>1. Framed /\ EndFramed
  BY DEF AwaitCommitted, Framed, EndFramed, Publication, Stamping
<1>2. ListShape' /\ IdsDistinct' /\ ListEnd'
  BY <1>1, FrameListShape, FrameIds, FrameListEnd
<1>3. Search' /\ Stamping' /\ Horizon'
  BY DEF AwaitCommitted, ListEnd, Search, Stamping, Horizon, Publication, PhaseOf
<1>4. Publication' /\ PhaseOf' /\ NoAssertionFails'
  BY DEF AwaitCommitted, ListEnd, Search, Stamping, Horizon, Publication, PhaseOf, NoAssertionFails
<1> QED
  BY <1>2, <1>3, <1>4

\* The destructor leaves the list and the horizon alone.
LEMMA DeregisterStep == ASSUME IInv, TypeOK', NEW t \in Tx, Deregister(t) PROVE Structure'
<1> USE ContextAssumption, RecordsAssumption
    DEF IInv, Structure, TypeOK, Contexts, Goto, Transition, managerVars, contextVars, txVars, threadVars, In, Ready,
        Member, Publishing, Labels, Phases, INITIAL_COMMIT_ID
<1>1. Framed /\ EndFramed
  BY DEF Deregister, Framed, EndFramed, Publication, Stamping
<1>2. ListShape' /\ IdsDistinct' /\ ListEnd'
  BY <1>1, FrameListShape, FrameIds, FrameListEnd
<1>3. Search' /\ Stamping' /\ Horizon'
  BY DEF Deregister, ListEnd, Search, Stamping, Horizon, Publication, PhaseOf
<1>4. Publication' /\ PhaseOf' /\ NoAssertionFails'
  BY DEF Deregister, ListEnd, Search, Stamping, Horizon, Publication, PhaseOf, NoAssertionFails
<1> QED
  BY <1>2, <1>3, <1>4

\* ... then _new_commit_context, ...
LEMMA SpinHasNextStep == ASSUME IInv, TypeOK', NEW t \in Tx, SpinHasNext(t) PROVE Structure'
<1>1. Framed /\ EndFramed
  BY ContextAssumption DEF SpinHasNext, Framed, EndFramed, IInv, Structure, TypeOK, Contexts, Goto, In, Ready, Member,
     managerVars, txVars, PhaseOf
<1>2. ListShape' /\ IdsDistinct' /\ ListEnd'
  BY <1>1, FrameListShape, FrameIds, FrameListEnd
<1>3. Search'
  <2>1. Member(cur[t]) /\ cid[cur[t]] <= cid[lastContext] /\ Member(lastContext) /\ t # cur[t] /\ ~Member(t)
    BY ContextAssumption DEF SpinHasNext, IInv, Structure, Search, ListEnd, Goto, Member, In, Ready
  <2>2. \A c \in Contexts : Member(c) => Member(c)' /\ cid'[c] = cid[c]
    BY <1>1, FrameMember DEF Framed
  <2>3. UNCHANGED <<cur, lastContext>> /\ cur[t] \in Contexts /\ lastContext \in Contexts
    BY DEF SpinHasNext, managerVars, IInv, TypeOK
  <2>4. \A u \in Tx : u # t => pc'[u] = pc[u] /\ cid'[u] = cid[u]
    BY DEF SpinHasNext, Goto, IInv, TypeOK, Contexts
  <2>5. pc'[t] = "trySet" => cid'[t] = cid[cur[t]] + 1
    BY DEF SpinHasNext, Goto, IInv, TypeOK, Contexts
  <2>6. \A u \in Tx : cur[u] \in Contexts
    BY DEF IInv, TypeOK
  <2>7. Member(cur[t])' /\ cid'[cur'[t]] <= cid'[lastContext']
    BY <2>1, <2>2, <2>3 DEF Member, In, Ready
  <2>8. \A u \in Tx : u # t /\ pc'[u] \in {"spin", "trySet"} => Member(cur[u])' /\ cid'[cur'[u]] <= cid'[lastContext']
    BY <2>1, <2>2, <2>3, <2>4, <2>6 DEF IInv, Structure, Search, Member, In, Ready
  <2>9. \A u \in Tx : pc'[u] = "trySet" => cid'[u] = cid'[cur'[u]] + 1
    BY <2>1, <2>2, <2>3, <2>4, <2>5, <2>6 DEF IInv, Structure, Search
  <2> QED
    BY <2>7, <2>8, <2>9 DEF Search
<1>4. Stamping'
  BY ContextAssumption DEF SpinHasNext, IInv, Structure, TypeOK, Contexts, Goto, In, Ready, managerVars, txVars, Stamping
<1>5. Horizon'
  BY ContextAssumption DEF SpinHasNext, IInv, Structure, TypeOK, Contexts, Goto, In, Ready, Member, managerVars, txVars,
     Horizon, ListEnd, INITIAL_COMMIT_ID
<1>6. Publication'
  <2>1. ~In(t) /\ inc' = inc /\ lastCommitId' = lastCommitId /\ phase' = phase /\ done' = done /\ pending' = pending
    BY DEF SpinHasNext, In, Ready, Goto, IInv, Structure, TypeOK, managerVars, txVars, PhaseOf, Publication, Stamping
  <2>2. \A u \in Tx : In(u)' <=> In(u)
    BY DEF SpinHasNext, In, Ready, Goto, IInv, Structure, TypeOK, txVars
  <2>3. \A u \in Tx : In(u) => cid'[u] = cid[u]
    BY <2>1 DEF SpinHasNext, IInv, Structure, TypeOK, Contexts
  <2>4. \A u \in Tx : u # t => pc'[u] = pc[u]
    BY DEF SpinHasNext, Goto, IInv, Structure, TypeOK
  <2>5. ~Publishing(t) /\ ~Publishing(t)'
    BY DEF SpinHasNext, Goto, IInv, Structure, TypeOK, Publishing
  <2>6. \A u \in Tx : Publishing(u)' <=> Publishing(u)
    BY <2>4, <2>5 DEF Publishing
  <2>7. \A u \in Tx : pending[u] => In(u)
    BY DEF IInv, Structure, Stamping, In
  <2> QED
    BY <2>1, <2>2, <2>3, <2>4, <2>5, <2>6, <2>7 DEF Publication, IInv, Structure, Publishing, In, Ready
<1>7. PhaseOf' /\ NoAssertionFails'
  BY ContextAssumption DEF SpinHasNext, IInv, Structure, TypeOK, Contexts, Goto, In, Ready, managerVars, txVars, Search,
     Stamping, Publication, PhaseOf, NoAssertionFails
<1> QED
  BY <1>2, <1>3, <1>4, <1>5, <1>6, <1>7 DEF Structure

\* The exchange succeeds: t's context becomes the end of the list.
LEMMA TrySetNextSucceeds ==
  ASSUME IInv, TypeOK', NEW t \in Tx, TrySetNext(t), next[cur[t]] = None
  PROVE  ListShape' /\ IdsDistinct' /\ ListEnd' /\ Publication'
<1>1. /\ pc[t] = "trySet" /\ pc' = [pc EXCEPT ![t] = "swing"] /\ next' = [next EXCEPT ![cur[t]] = t]
      /\ UNCHANGED <<lastContext, lastCommitId, cid, pending, callback, phase, snapshot, stamped, done, cur, inc>>
  BY DEF TrySetNext, Goto, managerVars, txVars
<1>2. ~In(t) /\ In(t)' /\ \A u \in Tx : u # t => (In(u)' <=> In(u))
  BY <1>1 DEF In, Ready, IInv, Structure, TypeOK
<1>3. Member(cur[t]) /\ cid[t] = cid[cur[t]] + 1 /\ cur[t] \in Contexts /\ t \in Contexts /\ t # cur[t]
  BY <1>1, <1>2, ContextAssumption DEF IInv, Structure, Search, TypeOK, Member, Contexts
<1>4. \A c \in Contexts : Member(c)' <=> Member(c) \/ c = t
  BY <1>2 DEF Member
\* The thread that found the end of the list found it at _last_commit_context.
<1>5. cur[t] = lastContext
  <2>1. cur[t] = lastContext \/ cur[t] = next[lastContext]
    BY <1>3 DEF IInv, Structure, ListEnd
  <2>2. cid[cur[t]] <= cid[lastContext] /\ lastContext \in Contexts /\ cid \in [Contexts -> Nat]
    BY <1>1 DEF IInv, Structure, Search, TypeOK
  <2>3. CASE cur[t] = next[lastContext]
    <3>1. cid[cur[t]] = cid[lastContext] + 1
      BY <1>3, <2>2, <2>3, ContextAssumption DEF IInv, Structure, ListShape, Contexts
    <3> QED
      BY <1>3, <2>2, <3>1
  <2> QED
    BY <2>1, <2>3
<1>6. \A c \in Contexts : Member(c) => cid[c] <= cid[cur[t]]
  BY <1>5, ContextAssumption DEF IInv, Structure, ListEnd, Member, TypeOK, Contexts
<1>7. \A c \in Contexts : next[c] # t
  BY <1>2, ContextAssumption DEF IInv, Structure, ListShape, Contexts
<1>8. ListShape'
  <2>1. ASSUME NEW c \in Contexts, next'[c] # None
        PROVE  Member(c)' /\ next'[c] \in Tx /\ In(next[c])' /\ cur'[next'[c]] = c
    <3>1. CASE c = cur[t]
      BY <1>1, <1>2, <1>3, <1>4, <3>1 DEF IInv, Structure, TypeOK, In, Ready
    <3>2. CASE c # cur[t]
      <4>1. next'[c] = next[c] /\ Member(c) /\ next[c] \in Tx /\ In(next[c]) /\ cur[next[c]] = c
        BY <1>1, <2>1, <3>2 DEF IInv, Structure, TypeOK, ListShape
      <4> QED
        BY <1>1, <1>2, <1>4, <1>7, <4>1 DEF In, Ready
    <3> QED
      BY <3>1, <3>2
  <2>2. ASSUME NEW u \in Tx, In(u)'
        PROVE  Member(cur[u])' /\ next'[cur'[u]] = u /\ cid'[u] = cid'[cur'[u]] + 1
    <3>1. CASE u = t
      BY <1>1, <1>3, <1>4, <3>1 DEF IInv, Structure, TypeOK, Member, In, Ready
    <3>2. CASE u # t
      <4>1. Member(cur[u]) /\ next[cur[u]] = u /\ cid[u] = cid[cur[u]] + 1 /\ cur[u] \in Contexts
        BY <1>2, <2>2, <3>2 DEF IInv, Structure, ListShape, TypeOK
      <4>2. cur[u] # cur[t]
        BY <4>1, ContextAssumption, next[cur[t]] = None
      <4> QED
        BY <1>1, <1>4, <4>1, <4>2 DEF IInv, Structure, TypeOK, Member, In, Ready
    <3> QED
      BY <3>1, <3>2
  <2> QED
    BY <2>1, <2>2 DEF ListShape
<1>9. IdsDistinct'
  <2> SUFFICES ASSUME NEW c \in Contexts, NEW d \in Contexts, Member(c)', Member(d)', cid[c] = cid[d]
               PROVE  c = d
    BY <1>1 DEF IdsDistinct
  <2>1. \A e \in Contexts : Member(e) => cid[e] < cid[t]
    BY <1>3, <1>6 DEF IInv, Structure, TypeOK
  <2>2. (Member(c) \/ c = t) /\ (Member(d) \/ d = t)
    BY <1>4
  <2>3. Member(c) /\ Member(d) => c = d
    BY DEF IInv, Structure, IdsDistinct
  <2>4. cid[t] \in Nat
    BY <1>3 DEF IInv, Structure, TypeOK
  <2> QED
    BY <2>1, <2>2, <2>3, <2>4
<1>10. ListEnd'
  BY <1>1, <1>2, <1>3, <1>4, <1>5, <1>6, ContextAssumption DEF IInv, Structure, ListEnd, ListShape, TypeOK, Contexts, Member, In, Ready
<1>11. Publication'
  BY <1>1, <1>2 DEF IInv, Structure, Publication, Publishing, TypeOK, In, Ready
<1> QED
  BY <1>8, <1>9, <1>10, <1>11

\* try_set_next keeps the structure, whether it succeeds or fails.
LEMMA TrySetNextStep == ASSUME IInv, TypeOK', NEW t \in Tx, TrySetNext(t) PROVE Structure'
<1> USE ContextAssumption, RecordsAssumption
    DEF IInv, Structure, TypeOK, Contexts, Goto, Transition, managerVars, contextVars, txVars, threadVars, In, Ready,
        Member, Publishing, Labels, Phases, INITIAL_COMMIT_ID
<1>1. CASE next[cur[t]] = None
  <2>1. ListShape' /\ IdsDistinct' /\ ListEnd' /\ Publication'
    BY <1>1, TrySetNextSucceeds
  <2>2. Search' /\ Stamping' /\ Horizon' /\ PhaseOf' /\ NoAssertionFails'
    BY SMTT(60), <1>1 DEF TrySetNext, ListShape, ListEnd, Search, Stamping, Horizon, PhaseOf, NoAssertionFails
  <2> QED
    BY <2>1, <2>2
<1>2. CASE next[cur[t]] # None
  <2>1. Framed /\ EndFramed
    BY <1>2 DEF TrySetNext, Framed, EndFramed
  <2>2. ListShape' /\ IdsDistinct' /\ ListEnd'
    BY <2>1, FrameListShape, FrameIds, FrameListEnd
  <2>3. Search' /\ Stamping' /\ Horizon'
    BY <1>2 DEF TrySetNext, Search, Stamping, Horizon
  <2>4. Publication' /\ PhaseOf' /\ NoAssertionFails'
    BY <1>2 DEF TrySetNext, Publication, PhaseOf, NoAssertionFails
  <2> QED
    BY <2>2, <2>3, <2>4
<1> QED
  BY <1>1, <1>2

\* The exchange of _last_commit_context cannot fail, and the list ends there.
LEMMA SwingLastContextStep == ASSUME IInv, TypeOK', NEW t \in Tx, SwingLastContext(t) PROVE Structure'
<1>1. Framed
  BY DEF SwingLastContext, Framed, IInv, Structure, TypeOK, Contexts, Goto, In, Ready, ListEnd, contextVars, txVars
<1>2. ListShape' /\ IdsDistinct'
  BY <1>1, FrameListShape, FrameIds
<1>3. ListEnd'
  BY SMTT(60), ContextAssumption DEF IInv, Structure, TypeOK, Contexts, Goto, contextVars, txVars, SwingLastContext, In, Ready, Member,
     ListShape, ListEnd, IdsDistinct
<1>4. Search'
  BY ContextAssumption DEF IInv, Structure, TypeOK, Contexts, Goto, contextVars, txVars, SwingLastContext, In, Ready, Member,
     ListShape, ListEnd, Search
<1>5. Stamping'
  <2>1. pc[t] = "swing" /\ lastContext = cur[t] /\ pc' = [pc EXCEPT ![t] = "stamp"] /\ UNCHANGED <<pending, done, stamped, callback>>
    BY DEF SwingLastContext, Goto, IInv, Structure, ListEnd, contextVars, txVars
  <2>2. \A u \in Tx : Ready(u)' <=> Ready(u)
    BY <2>1 DEF Ready, IInv, Structure, TypeOK
  <2> QED
    BY <2>1, <2>2, RecordsAssumption DEF IInv, Structure, Stamping, TypeOK, In
<1>6. Horizon'
  BY ContextAssumption DEF IInv, Structure, TypeOK, Contexts, Goto, contextVars, txVars, SwingLastContext, In, Ready, Member,
     ListShape, ListEnd, Horizon, INITIAL_COMMIT_ID
<1>7. Publication' /\ PhaseOf' /\ NoAssertionFails'
  BY DEF IInv, Structure, TypeOK, Contexts, Goto, contextVars, txVars, SwingLastContext, In, Ready, Publishing, ListEnd,
     Publication, PhaseOf, NoAssertionFails
<1> QED
  BY <1>2, <1>3, <1>4, <1>5, <1>6, <1>7 DEF Structure

\* ... and _try_increment_last_commit_id.
\* The horizon passes exactly the context that is next in line.
LEMMA IncrementHorizon == ASSUME IInv, TypeOK', NEW t \in Tx, IncrementLastCommitId(t) PROVE Horizon'
<1> DEFINE u == inc[t]
<1>1. u \in Tx /\ In(u) /\ pending[u] /\ Member(u) /\ u \in Contexts
  BY DEF IncrementLastCommitId, Goto, IInv, Structure, Publication, Publishing, Member, Contexts
<1>2. CASE lastCommitId' = lastCommitId
  BY <1>2 DEF IncrementLastCommitId, IInv, Structure, TypeOK, Contexts, Goto, contextVars, txVars, In, Ready,
     Horizon, INITIAL_COMMIT_ID
<1>3. CASE lastCommitId = cid[u] - 1 /\ lastCommitId' = cid[u]
  <2>1. cid[u] <= cid[lastContext]
    <3>1. pc[u] # "swing"
      BY <1>1 DEF IInv, Structure, Stamping, Ready
    <3> QED
      BY <1>1, <3>1, ContextAssumption DEF IInv, Structure, ListEnd, Contexts
  <2>2. ASSUME NEW v \in Tx, In(v)', cid[v] <= cid[u] PROVE pending[v]
    <3>1. In(v)
      BY <2>2 DEF IncrementLastCommitId, Goto, In, Ready, IInv, Structure, TypeOK, txVars
    <3>2. CASE cid[v] = cid[u]
      BY <1>1, <3>1, <3>2 DEF IInv, Structure, IdsDistinct, Member, Contexts
    <3>3. CASE cid[v] <= lastCommitId
      BY <3>1, <3>3 DEF IInv, Structure, Horizon
    <3> QED
      BY <1>1, <1>3, <2>2, <3>2, <3>3 DEF IInv, Structure, TypeOK, Contexts
  <2>3. UNCHANGED <<cid, lastContext, pending, snapshot>>
    BY DEF IncrementLastCommitId, contextVars, txVars
  <2>4. lastCommitId \in Nat /\ cid[u] \in Nat /\ \A v \in Tx : snapshot[v] \in Nat
    BY  DEF IInv, Structure, TypeOK, Contexts
  <2>5. /\ INITIAL_COMMIT_ID <= lastCommitId
        /\ \A v \in Tx : snapshot[v] <= lastCommitId /\ (pc[v] = "idle" => snapshot[v] = 0)
    BY DEF IInv, Structure, Horizon
  <2>6. \A v \in Tx : pc'[v] = "idle" => pc[v] = "idle"
    BY DEF IncrementLastCommitId, Goto, IInv, TypeOK
  <2> QED
    BY <1>1, <1>3, <2>1, <2>2, <2>3, <2>4, <2>5, <2>6 DEF Horizon, INITIAL_COMMIT_ID
<1> QED
  BY <1>2, <1>3 DEF IncrementLastCommitId

\* Raising the horizon hands the context to one thread.
LEMMA IncrementPublication == ASSUME IInv, TypeOK', NEW t \in Tx, IncrementLastCommitId(t) PROVE Publication'
<1>1. inc[t] \in Tx /\ In(inc[t]) /\ pending[inc[t]]
  BY DEF IncrementLastCommitId, Goto, IInv, Structure, Publication, Publishing
<1>2. \A v \in Tx : In(v)' <=> In(v)
  BY DEF IncrementLastCommitId, Goto, In, Ready, IInv, Structure, TypeOK, txVars
<1>3. UNCHANGED <<cid, pending, inc, phase, done>> /\ lastCommitId' >= lastCommitId
  BY <1>1 DEF IncrementLastCommitId, contextVars, txVars, IInv, Structure, TypeOK, Contexts
<1>4. \A v \in Tx : v # t => pc'[v] = pc[v]
  BY DEF IncrementLastCommitId, Goto, IInv, Structure, TypeOK
<1>5. pc[t] = "increment" /\ pc'[t] \in {"fire", "await"}
  BY DEF IncrementLastCommitId, Goto, IInv, Structure, TypeOK
<1>6. pc'[t] = "fire" => lastCommitId = cid[inc[t]] - 1 /\ lastCommitId' = cid[inc[t]]
  BY <1>5 DEF IncrementLastCommitId, Goto, IInv, Structure, TypeOK
<1>7. pc'[t] = "fire" => phase[inc[t]] = "Committing"
  BY <1>1, <1>6 DEF IInv, Structure, PhaseOf, TypeOK, Contexts
<1>8. ASSUME NEW v \in Tx, v # t, pc'[v] = "fire", pc'[t] = "fire" PROVE inc[v] # inc[t]
  BY <1>1, <1>4, <1>6, <1>8 DEF IInv, Structure, Publication, TypeOK, Contexts
<1>9. \A v \in Tx : pc'[v] = "fire" /\ v # t => pc[v] = "fire"
  BY <1>4
<1>10. \A v \in Tx : Publishing(v)' => Publishing(v) /\ (pc'[v] = pc[v] \/ v = t)
  BY <1>4, <1>5 DEF Publishing
<1>a. \A v \in Tx : Publishing(v)' => inc'[v] \in Tx /\ In(inc'[v])
  BY <1>3, <1>10 DEF IInv, Structure, Publication
<1>b. \A v \in Tx : Publishing(v)' => In(inc[v])'
  BY <1>a, <1>2, <1>3, <1>10 DEF IInv, Structure, Publication, In, Ready
<1>c. \A v \in Tx : Publishing(v)' /\ pc'[v] # "isPending" => pending'[inc'[v]]
  BY <1>1, <1>3, <1>10 DEF IInv, Structure, Publication
<1>d. \A v \in Tx : pc'[v] \in {"fire", "notify", "follow"} => cid'[inc'[v]] <= lastCommitId'
  BY <1>1, <1>3, <1>4, <1>5, <1>6 DEF IInv, Structure, Publication, TypeOK, Contexts, Publishing
<1>e. \A v \in Tx : pc'[v] = "fire" => phase'[inc'[v]] = "Committing"
  BY <1>3, <1>7, <1>9 DEF IInv, Structure, Publication
<1>f. \A v, w \in Tx : pc'[v] = "fire" /\ pc'[w] = "fire" /\ inc'[v] = inc'[w] => v = w
  BY <1>3, <1>8, <1>9 DEF IInv, Structure, Publication
<1>g. \A v \in Tx : done'[v] => pending'[v] /\ cid'[v] <= lastCommitId'
  BY <1>3 DEF IInv, Structure, Publication, TypeOK, Contexts
<1> QED
  BY <1>a, <1>b, <1>c, <1>d, <1>e, <1>f, <1>g DEF Publication

\* The exchange of _last_commit_id keeps the structure.
LEMMA IncrementLastCommitIdStep == ASSUME IInv, TypeOK', NEW t \in Tx, IncrementLastCommitId(t) PROVE Structure'
<1> USE ContextAssumption, RecordsAssumption
    DEF IInv, Structure, TypeOK, Contexts, Goto, Transition, managerVars, contextVars, txVars, threadVars, In, Ready,
        Member, Publishing, Labels, Phases, INITIAL_COMMIT_ID
<1>1. Framed /\ EndFramed
  BY DEF IncrementLastCommitId, Framed, EndFramed, Publication, Stamping
<1>2. ListShape' /\ IdsDistinct' /\ ListEnd'
  BY <1>1, FrameListShape, FrameIds, FrameListEnd
<1>3. Search'
  BY DEF IncrementLastCommitId, Search
<1>4. Stamping'
  BY DEF IncrementLastCommitId, Stamping
<1>5. PhaseOf' /\ NoAssertionFails'
  BY DEF IncrementLastCommitId, Publication, PhaseOf, NoAssertionFails
<1> QED
  BY <1>2, <1>3, <1>4, <1>5, IncrementHorizon, IncrementPublication

\* The phase of the context whose callback runs changes once.
LEMMA FireTransitionPublication == ASSUME IInv, TypeOK', NEW t \in Tx, FireTransition(t) PROVE Publication'
<1>1. /\ pc[t] = "fire" /\ inc[t] \in Tx /\ callback[inc[t]] /\ phase[inc[t]] = "Committing"
  BY DEF FireTransition, Goto, IInv, Structure, Publication, Publishing, Stamping
<1>2. /\ pc' = [pc EXCEPT ![t] = "notify"] /\ phase' = [phase EXCEPT ![inc[t]] = "Committed"]
      /\ UNCHANGED <<cid, pending, inc, done, lastCommitId>>
  BY <1>1 DEF FireTransition, Transition, managerVars, contextVars
<1>3. \A v \in Tx : In(v)' <=> In(v)
  BY <1>1, <1>2 DEF In, Ready, IInv, Structure, TypeOK
<1>4. \A v \in Tx : Publishing(v)' => Publishing(v) /\ In(inc[v])'
  BY <1>1, <1>2, <1>3 DEF Publishing, IInv, Structure, Publication, TypeOK, In, Ready
<1>5. \A v \in Tx : pc'[v] = "fire" => v # t /\ pc[v] = "fire" /\ inc[v] # inc[t]
  BY <1>1, <1>2 DEF IInv, Structure, Publication, TypeOK
<1>6. \A v \in Tx : pc'[v] = "fire" => phase'[inc'[v]] = "Committing"
  BY <1>1, <1>2, <1>5 DEF IInv, Structure, Publication, Publishing, TypeOK
<1>7. \A v \in Tx : pc'[v] # pc[v] => v = t /\ pc[v] = "fire" /\ pc'[v] = "notify"
  BY <1>1, <1>2 DEF IInv, Structure, TypeOK
<1> QED
  BY <1>2, <1>4, <1>5, <1>6, <1>7 DEF IInv, Structure, Publication, Publishing

\* The first part of the callback keeps the structure.
LEMMA FireTransitionStep == ASSUME IInv, TypeOK', NEW t \in Tx, FireTransition(t) PROVE Structure'
<1> USE ContextAssumption, RecordsAssumption
    DEF IInv, Structure, TypeOK, Contexts, Goto, Transition, managerVars, contextVars, txVars, threadVars, In, Ready,
        Member, Publishing, Labels, Phases, INITIAL_COMMIT_ID
<1>1. Framed /\ EndFramed
  BY DEF FireTransition, Framed, EndFramed, Publication, Stamping
<1>2. ListShape' /\ IdsDistinct' /\ ListEnd'
  BY <1>1, FrameListShape, FrameIds, FrameListEnd
<1>3. Search' /\ Stamping' /\ Horizon'
  BY DEF FireTransition, ListEnd, Search, Stamping, Horizon, Publication, PhaseOf
<1>4. PhaseOf' /\ NoAssertionFails'
  BY SMTT(60) DEF FireTransition, ListShape, Search, Stamping, Horizon, Publication, PhaseOf, NoAssertionFails
<1> QED
  BY <1>2, <1>3, <1>4, FireTransitionPublication

\* The thread goes on with a member of the list.
LEMMA FollowNextPublication == ASSUME IInv, TypeOK', NEW t \in Tx, FollowNext(t) PROVE Publication'
<1>1. UNCHANGED <<cid, pending, next, done, lastCommitId, phase>> /\ pc[t] = "follow" /\ inc[t] \in Contexts
  BY DEF FollowNext, Goto, managerVars, contextVars, txVars, IInv, Structure, TypeOK
<1>2. \A v \in Tx : v # t => pc'[v] = pc[v] /\ inc'[v] = inc[v]
  BY DEF FollowNext, Goto, IInv, Structure, TypeOK
<1>3. pc'[t] = "await" \/ (pc'[t] = "isPending" /\ inc'[t] = next[inc[t]] /\ next[inc[t]] # None)
  BY DEF FollowNext, Goto, IInv, Structure, TypeOK
<1>4. \A v \in Tx : In(v)' <=> In(v)
  BY <1>1, <1>2, <1>3 DEF In, Ready
<1>5. Publishing(t)' => inc'[t] \in Tx /\ In(inc'[t])
  BY <1>1, <1>3 DEF Publishing, IInv, Structure, ListShape
<1>6. \A v \in Tx : Publishing(v)' => inc'[v] \in Tx /\ In(inc[v])'
  BY <1>2, <1>4, <1>5 DEF Publishing, IInv, Structure, Publication, In, Ready
<1> QED
  BY <1>1, <1>2, <1>3, <1>6 DEF IInv, Structure, Publication, Publishing

\* current_context = next keeps the structure.
LEMMA FollowNextStep == ASSUME IInv, TypeOK', NEW t \in Tx, FollowNext(t) PROVE Structure'
<1> USE ContextAssumption, RecordsAssumption
    DEF IInv, Structure, TypeOK, Contexts, Goto, Transition, managerVars, contextVars, txVars, threadVars, In, Ready,
        Member, Publishing, Labels, Phases, INITIAL_COMMIT_ID
<1>1. Framed /\ EndFramed
  BY DEF FollowNext, Framed, EndFramed, Publication, Stamping
<1>2. ListShape' /\ IdsDistinct' /\ ListEnd'
  BY <1>1, FrameListShape, FrameIds, FrameListEnd
<1>3. Search' /\ Stamping' /\ Horizon'
  BY SMTT(60) DEF FollowNext, ListEnd, Search, Stamping, Horizon, Publication, PhaseOf
<1>4. PhaseOf' /\ NoAssertionFails'
  BY DEF FollowNext, ListShape, Search, Stamping, Horizon, Publication, PhaseOf, NoAssertionFails
<1> QED
  BY <1>2, <1>3, <1>4, FollowNextPublication

----------------------------------------------------------------------------
(* The invariant, and what follows from it.                               *)

\* Every step keeps the structure: one case per action.
LEMMA StructureStep == ASSUME IInv, TypeOK', [Next]_vars PROVE Structure'
<1>1. CASE UNCHANGED vars
  BY <1>1 DEF vars, managerVars, contextVars, txVars, threadVars, IInv, Structure, ListShape, IdsDistinct, ListEnd, Search,
     Stamping, Horizon, Publication, PhaseOf, NoAssertionFails, Member, In, Ready, Publishing
<1>2. ASSUME NEW t \in Tx, ReadSnapshot(t) \/ Decide(t) \/ Proceed(t) PROVE Structure'
  BY <1>2,
     ReadSnapshotStep, RegisterStep, CommitReadOnlyStep, RollbackByUserStep, MarkAsConflictedStep, PrepareCommitStep,
     MarkAsRolledBackStep, LoadLastContextStep, CommitRecordStep, SetCallbackStep, SetPendingStep, CheckPendingStep,
     FireNotifyStep, AwaitCommittedStep, DeregisterStep, SpinHasNextStep, TrySetNextStep, SwingLastContextStep,
     IncrementLastCommitIdStep, FireTransitionStep, FollowNextStep
     DEF Decide, Proceed
<1> QED
  BY <1>1, <1>2 DEF Next, Finished

\* The strengthening is an invariant of the protocol.
THEOREM Invariance == Spec => []IInv
<1>1. IInv /\ [Next]_vars => IInv'
  BY TypeStep, StructureStep DEF IInv
<1> QED
  BY InitIInv, <1>1, PTL DEF Spec

\* Type correctness: no variable of managers, contexts or threads ever leaves
\* its type, for any number of transactions.
THEOREM TypeCorrect == Spec => []TypeOK
<1>1. IInv => TypeOK
  BY DEF IInv
<1> QED
  BY Invariance, <1>1, PTL

\* A context is linked exactly when its thread is past try_set_next.
LEMMA LinkedIn == ASSUME IInv, NEW t \in Tx PROVE Linked(t) <=> In(t)
  BY ContextAssumption DEF Linked, IInv, Structure, ListShape, TypeOK, Contexts

\* _new_commit_context hands out unique and gapless commit ids.
THEOREM UniqueCommitIds == Spec => []CommitIdsUniqueAndDense
<1>1. ASSUME IInv PROVE CommitIdsUniqueAndDense
  <2>1. \A c, d \in Contexts : next[c] = d => cid[d] = cid[c] + 1
    BY <1>1, ContextAssumption DEF IInv, Structure, ListShape, Contexts
  <2>2. \A c, d \in {Root} \cup {t \in Tx : Linked(t)} : cid[c] = cid[d] => c = d
    BY <1>1, LinkedIn DEF IInv, Structure, IdsDistinct, Member, Contexts
  <2> QED
    BY <2>1, <2>2 DEF CommitIdsUniqueAndDense
<1> QED
  BY Invariance, <1>1, PTL

\* The horizon never reaches a commit id whose records are not all written.
THEOREM HorizonCoversWholeCommits == Spec => []NoPartialCommitVisible
<1>1. ASSUME IInv PROVE NoPartialCommitVisible
  BY <1>1, LinkedIn DEF NoPartialCommitVisible, IInv, Structure, Horizon, Stamping
<1> QED
  BY Invariance, <1>1, PTL

\* A commit that has been reported to its client is visible to new snapshots.
THEOREM AcknowledgedCommitsVisible == Spec => []AcknowledgedIsVisible
<1>1. ASSUME IInv PROVE AcknowledgedIsVisible
  <2>1. \A t \in Tx : done[t] => In(t) /\ cid[t] <= lastCommitId
    BY <1>1 DEF IInv, Structure, Publication, Stamping, In
  <2>2. \A t \in Tx : phase[t] = "Committed" /\ In(t) => cid[t] <= lastCommitId
    BY <1>1 DEF IInv, Structure, PhaseOf
  <2> QED
    BY <1>1, <2>1, <2>2, LinkedIn DEF AcknowledgedIsVisible
<1> QED
  BY Invariance, <1>1, PTL

\* No Assert of the protocol fails: the exchange of _last_commit_context and all
\* phase transitions succeed.
THEOREM AssertionsHold == Spec => []NoAssertionFails
<1>1. IInv => NoAssertionFails
  BY DEF IInv, Structure
<1> QED
  BY Invariance, <1>1, PTL

----------------------------------------------------------------------------
(* The multiset of active snapshots counts the registered transactions.    *)

\* The registered transactions with snapshot s.
Holding(s) == {t \in Tx : Registered(t) /\ snapshot[t] = s}

SnapshotCount == \A s \in Nat : IsFiniteSet(Holding(s)) /\ CopiesOf(s) = Cardinality(Holding(s))

\* _register_transaction adds one copy of the snapshot, ...
LEMMA CopyAdded ==
  ASSUME NEW B, IsABag(B), NEW s, NEW r
  PROVE  LET C == B (+) SetToBag({s})
         IN  (IF r \in DOMAIN C THEN C[r] ELSE 0) =
             (IF r \in DOMAIN B THEN B[r] ELSE 0) + (IF r = s THEN 1 ELSE 0)
  BY DEF IsABag, SetToBag, (+)

\* ... and _deregister_transaction takes one out, if there is one.
LEMMA CopyRemoved ==
  ASSUME NEW B, IsABag(B), NEW s \in DOMAIN B, NEW r
  PROVE  LET C == B (-) SetToBag({s})
         IN  (IF r \in DOMAIN C THEN C[r] ELSE 0) =
             (IF r \in DOMAIN B THEN B[r] ELSE 0) - (IF r = s THEN 1 ELSE 0)
  BY DEF IsABag, SetToBag, (-)

\* A transaction that registers joins those with its snapshot.
LEMMA RegisterCounts ==
  ASSUME IInv, SnapshotCount, NEW t \in Tx, Register(t)
  PROVE  SnapshotCount'
<1>1. pc[t] = "register" /\ pc' = [pc EXCEPT ![t] = "active"] /\ snapshot' = snapshot /\ snapshot[t] \in Nat
  BY DEF Register, Goto, txVars, IInv, TypeOK
<1>2. activeSnapshots' = activeSnapshots (+) SetToBag({snapshot[t]}) /\ IsABag(activeSnapshots)
  BY DEF Register, IInv, TypeOK
<1> SUFFICES ASSUME NEW s \in Nat PROVE IsFiniteSet(Holding(s)') /\ CopiesOf(s)' = Cardinality(Holding(s)')
  BY DEF SnapshotCount
<1>3. IsFiniteSet(Holding(s)) /\ CopiesOf(s) = Cardinality(Holding(s)) /\ t \notin Holding(s)
  BY <1>1 DEF SnapshotCount, Holding, Registered
<1>4. CopiesOf(s)' = CopiesOf(s) + (IF s = snapshot[t] THEN 1 ELSE 0)
  BY <1>2, CopyAdded DEF CopiesOf, BagIn, BagToSet
<1>5. Holding(s)' = IF s = snapshot[t] THEN Holding(s) \cup {t} ELSE Holding(s)
  BY <1>1 DEF Holding, Registered, IInv, TypeOK
<1> QED
  BY <1>3, <1>4, <1>5, FS_AddElement, FS_CardinalityType

\* One that deregisters has a copy in the multiset, and leaves.
LEMMA DeregisterCounts ==
  ASSUME IInv, SnapshotCount, NEW t \in Tx, Deregister(t)
  PROVE  SnapshotCount'
<1>1. pc[t] = "release" /\ pc' = [pc EXCEPT ![t] = "gone"] /\ snapshot' = snapshot /\ snapshot[t] \in Nat
  BY DEF Deregister, Goto, txVars, IInv, TypeOK
<1>2. activeSnapshots' = activeSnapshots (-) SetToBag({snapshot[t]}) /\ IsABag(activeSnapshots)
  BY DEF Deregister, IInv, TypeOK
<1>3. snapshot[t] \in DOMAIN activeSnapshots
  <2>1. IsFiniteSet(Holding(snapshot[t])) /\ t \in Holding(snapshot[t])
    BY <1>1 DEF SnapshotCount, Holding, Registered
  <2>2. Cardinality(Holding(snapshot[t])) # 0
    BY <2>1, FS_EmptySet
  <2> QED
    BY <1>1, <2>2 DEF SnapshotCount, CopiesOf, BagIn, BagToSet
<1> SUFFICES ASSUME NEW s \in Nat PROVE IsFiniteSet(Holding(s)') /\ CopiesOf(s)' = Cardinality(Holding(s)')
  BY DEF SnapshotCount
<1>4. IsFiniteSet(Holding(s)) /\ CopiesOf(s) = Cardinality(Holding(s))
  BY DEF SnapshotCount
<1>5. CopiesOf(s)' = CopiesOf(s) - (IF s = snapshot[t] THEN 1 ELSE 0)
  BY <1>2, <1>3, CopyRemoved DEF CopiesOf, BagIn, BagToSet
<1>6. Holding(s)' = IF s = snapshot[t] THEN Holding(s) \ {t} ELSE Holding(s)
  BY <1>1 DEF Holding, Registered, IInv, TypeOK
<1>7. s = snapshot[t] => t \in Holding(s)
  BY <1>1 DEF Holding, Registered
<1> QED
  BY <1>4, <1>5, <1>6, <1>7, FS_RemoveElement, FS_CardinalityType

\* No other step registers or deregisters a transaction, or changes the
\* snapshot of one that is registered.
LEMMA RegistrationsKept ==
  ASSUME IInv, NEW t \in Tx, ReadSnapshot(t) \/ Decide(t) \/ Proceed(t), ~Register(t), ~Deregister(t)
  PROVE  /\ activeSnapshots' = activeSnapshots
         /\ \A u \in Tx : /\ Registered(u)' <=> Registered(u)
                          /\ Registered(u) => snapshot'[u] = snapshot[u]
<1> USE DEF Registered, Goto, Transition, IInv, TypeOK, managerVars, contextVars, txVars
<1>1. CASE ReadSnapshot(t)
  BY <1>1 DEF ReadSnapshot
<1>2. CASE CommitReadOnly(t) \/ RollbackByUser(t) \/ MarkAsConflicted(t) \/ PrepareCommit(t) \/ MarkAsRolledBack(t)
  BY <1>2 DEF CommitReadOnly, RollbackByUser, MarkAsConflicted, PrepareCommit, MarkAsRolledBack
<1>3. CASE LoadLastContext(t) \/ SpinHasNext(t) \/ TrySetNext(t) \/ SwingLastContext(t)
  BY <1>3 DEF LoadLastContext, SpinHasNext, TrySetNext, SwingLastContext
<1>4. CASE CommitRecord(t) \/ SetCallback(t) \/ SetPending(t)
  BY <1>4 DEF CommitRecord, SetCallback, SetPending
<1>5. CASE CheckPending(t) \/ IncrementLastCommitId(t) \/ FollowNext(t)
  BY <1>5 DEF CheckPending, IncrementLastCommitId, FollowNext
<1>6. CASE FireTransition(t) \/ FireNotify(t) \/ AwaitCommitted(t)
  BY <1>6 DEF FireTransition, FireNotify, AwaitCommitted
<1> QED
  BY <1>1, <1>2, <1>3, <1>4, <1>5, <1>6 DEF Decide, Proceed

\* Every step keeps the count.
LEMMA CountStep == ASSUME IInv, SnapshotCount, [Next]_vars PROVE SnapshotCount'
<1>1. CASE UNCHANGED vars
  BY <1>1 DEF SnapshotCount, Holding, CopiesOf, Registered, vars, managerVars, txVars, threadVars
<1>2. ASSUME NEW t \in Tx, ReadSnapshot(t) \/ Decide(t) \/ Proceed(t) PROVE SnapshotCount'
  <2>1. CASE Register(t) \/ Deregister(t)
    BY <2>1, RegisterCounts, DeregisterCounts
  <2>2. CASE ~Register(t) /\ ~Deregister(t)
    <3>1. activeSnapshots' = activeSnapshots /\ \A s : Holding(s)' = Holding(s)
      BY <1>2, <2>2, RegistrationsKept DEF Holding
    <3> QED
      BY <3>1 DEF SnapshotCount, CopiesOf
  <2> QED
    BY <2>1, <2>2
<1> QED
  BY <1>1, <1>2 DEF Next, Finished

\* The multiset of active snapshots holds the snapshot of every registered
\* transaction once, in whatever order transactions register and deregister.
THEOREM SnapshotsCounted == Spec => []ActiveSnapshotsExact
<1>1. Init => SnapshotCount
  <2>1. Init => \A s : Holding(s) = {} /\ CopiesOf(s) = 0
    BY DEF Init, Holding, Registered, CopiesOf, BagIn, BagToSet, EmptyBag, SetToBag
  <2> QED
    BY <2>1, FS_EmptySet DEF SnapshotCount
<1>2. IInv /\ SnapshotCount /\ [Next]_vars => SnapshotCount'
  BY CountStep
<1>3. ASSUME IInv, SnapshotCount PROVE ActiveSnapshotsExact
  <2> SUFFICES ASSUME NEW s \in 0..lastCommitId PROVE CopiesOf(s) = Cardinality(Holding(s))
    BY Zenon DEF ActiveSnapshotsExact, Holding
  <2> QED
    BY <1>3 DEF SnapshotCount, IInv, TypeOK
<1> QED
  BY Invariance, <1>1, <1>2, <1>3, PTL DEF Spec

----------------------------------------------------------------------------
(* The step relation: the hand-off of the increment loop loses no commit,  *)
(* snapshots are stable, and the protocol implements CommitOrder.          *)

\* The list below the horizon is what snapshots see; contexts enter above it.
LEMMA NewIdsAboveHorizon ==
  ASSUME IInv, NEW t \in Tx, TrySetNext(t), next[cur[t]] = None
  PROVE  cur[t] = lastContext /\ next[lastContext] = None /\ cid[t] = cid[lastContext] + 1 /\ cid[t] > lastCommitId
<1>1. pc[t] = "trySet" /\ cur[t] \in Contexts /\ Member(cur[t]) /\ cid[cur[t]] <= cid[lastContext]
      /\ cid[t] = cid[cur[t]] + 1 /\ lastContext \in Contexts /\ cid \in [Contexts -> Nat]
  BY DEF TrySetNext, Goto, IInv, Structure, TypeOK, Search
<1>2. CASE cur[t] = next[lastContext]
  BY <1>1, <1>2, ContextAssumption DEF IInv, Structure, ListShape, Contexts
<1>3. cur[t] = lastContext
  BY <1>1, <1>2 DEF IInv, Structure, ListEnd
<1> QED
  BY <1>1, <1>3 DEF IInv, Structure, TypeOK, Horizon

\* What a step may do to the list and to what is read through a snapshot.
StepEffect ==
  /\ next' = next \/ \E t \in Tx : TrySetNext(t) /\ next[cur[t]] = None
  /\ \A u \in Tx : In(u) => cid'[u] = cid[u]
  /\ \A u \in Tx : stamped'[u] # stamped[u] => pc[u] = "stamp"
  /\ \A u \in Tx : pc[u] # "idle" => snapshot'[u] = snapshot[u]

\* Every step has such an effect.
LEMMA StepEffects == ASSUME IInv, [Next]_vars PROVE StepEffect
<1> USE DEF StepEffect, IInv, TypeOK, Contexts, Goto, managerVars, contextVars, txVars
<1>1. ASSUME NEW t \in Tx, ReadSnapshot(t) PROVE StepEffect
  BY <1>1 DEF ReadSnapshot
<1>2. ASSUME NEW t \in Tx, TrySetNext(t) PROVE StepEffect
  BY <1>2 DEF TrySetNext
<1>3. ASSUME NEW t \in Tx, CommitRecord(t) PROVE StepEffect
  BY <1>3 DEF CommitRecord
<1>4. ASSUME NEW t \in Tx, SpinHasNext(t) PROVE StepEffect
  BY <1>4 DEF SpinHasNext, In, Ready, Structure, Publication, Stamping
<1>5. CASE UNCHANGED vars
  BY <1>5 DEF vars
<1>6. ASSUME UNCHANGED <<next, cid, stamped, snapshot>> PROVE StepEffect
  BY <1>6
<1>7. ASSUME NEW t \in Tx, Decide(t) \/ Proceed(t), ~SpinHasNext(t), ~TrySetNext(t), ~CommitRecord(t)
      PROVE  UNCHANGED <<next, cid, stamped, snapshot>>
  BY <1>7 DEF Decide, Proceed, Register, CommitReadOnly, RollbackByUser, MarkAsConflicted, PrepareCommit, MarkAsRolledBack, LoadLastContext, SwingLastContext, SetCallback,
     SetPending, CheckPending, IncrementLastCommitId, FireTransition, FireNotify, FollowNext, AwaitCommitted, Deregister
<1> QED
  BY <1>1, <1>2, <1>3, <1>4, <1>5, <1>6, <1>7 DEF Next, Finished, Proceed

\* A snapshot is stable: no step changes what a transaction that has begun sees.
THEOREM SnapshotsAreStable == Spec => SnapshotStable
<1> DEFINE Stable == \A t \in Tx : pc[t] # "idle" => VisibleRecords(t)' = VisibleRecords(t)
<1>1. ASSUME IInv, IInv', [Next]_vars PROVE Stable
  <2> SUFFICES ASSUME NEW t \in Tx, pc[t] # "idle", NEW u \in Tx
               PROVE  (IF Linked(u) /\ cid[u] <= snapshot[t] THEN stamped[u] ELSE 0)'
                        = IF Linked(u) /\ cid[u] <= snapshot[t] THEN stamped[u] ELSE 0
    BY DEF VisibleRecords
  <2>1. StepEffect
    BY <1>1, StepEffects
  <2>2. snapshot'[t] = snapshot[t] /\ snapshot[t] <= lastCommitId /\ snapshot[t] \in Nat /\ lastCommitId \in Nat
    BY <1>1, <2>1 DEF StepEffect, IInv, Structure, Horizon, TypeOK
  <2>3. CASE Linked(u) /\ cid[u] <= snapshot[t]
    <3>1. In(u) /\ pending[u] /\ cid[u] \in Nat
      BY <1>1, <2>2, <2>3, LinkedIn DEF IInv, Structure, Horizon, TypeOK, Contexts
    <3>2. cid'[u] = cid[u] /\ stamped'[u] = stamped[u]
      BY <1>1, <2>1, <3>1 DEF StepEffect, IInv, Structure, Stamping, Ready
    <3>3. Linked(u)'
      BY <1>1, <2>1, <2>3, ContextAssumption DEF StepEffect, Linked, TrySetNext, IInv, TypeOK
    <3> QED
      BY <2>2, <2>3, <3>2, <3>3
  <2>4. CASE ~(Linked(u) /\ cid[u] <= snapshot[t])
    <3>1. CASE Linked(u)
      BY <1>1, <2>1, <2>2, <2>4, <3>1, LinkedIn DEF StepEffect
    <3>2. CASE ~Linked(u) /\ Linked(u)'
      <4>1. TrySetNext(u) /\ next[cur[u]] = None
        BY <1>1, <2>1, <3>2 DEF StepEffect, Linked, TrySetNext, Goto, IInv, TypeOK
      <4>2. cid'[u] = cid[u] /\ cid[u] > lastCommitId /\ cid[u] \in Nat
        BY <1>1, <4>1, NewIdsAboveHorizon DEF TrySetNext, IInv, TypeOK, Contexts
      <4> QED
        BY <2>2, <3>2, <4>2
    <3> QED
      BY <2>4, <3>1, <3>2
  <2> QED
    BY <2>3, <2>4
<1> QED
  BY <1>1, Invariance, PTL DEF Spec, SnapshotStable

----------------------------------------------------------------------------
(* The protocol implements CommitOrder.                                    *)

Issued == IF next[lastContext] = None THEN cid[lastContext] ELSE cid[lastContext] + 1
Ticket == [t \in Tx |-> IF Linked(t) THEN cid[t] ELSE 0]
ReadySet == {t \in Tx : pending[t]}
Acked == {t \in Tx : done[t]}

\* Initial states map to initial states.
LEMMA OrderInit == Init => Order!Init
  BY ContextAssumption DEF Init, Order!Init, Linked, Contexts, INITIAL_COMMIT_ID

\* Steps that neither extend the list nor move its end keep what was issued.
LEMMA FrameOrder ==
  ASSUME IInv, StepEffect, UNCHANGED <<next, lastContext>>, cid'[lastContext] = cid[lastContext]
  PROVE  Issued' = Issued /\ Ticket' = Ticket
<1>1. \A u \in Tx : Linked(u)' <=> Linked(u)
  BY DEF Linked
<1>2. \A u \in Tx : Linked(u) => cid'[u] = cid[u]
  BY LinkedIn DEF StepEffect
<1> QED
  BY <1>1, <1>2 DEF Issued, Ticket

\* Linking a context is taking a ticket.
LEMMA TakesTicket ==
  ASSUME IInv, IInv', NEW t \in Tx, TrySetNext(t), next[cur[t]] = None PROVE Order!TakeTicket(t)
<1>1. cur[t] = lastContext /\ next[lastContext] = None /\ cid[t] = cid[lastContext] + 1 /\ cid[t] > lastCommitId
  BY NewIdsAboveHorizon
<1>2. /\ next' = [next EXCEPT ![cur[t]] = t] /\ next \in [Contexts -> Contexts \cup {None}]
      /\ UNCHANGED <<lastContext, lastCommitId, cid, pending, snapshot, done>> /\ lastContext \in Contexts
  BY DEF TrySetNext, managerVars, txVars, IInv, TypeOK
<1>3. ~Linked(t)
  BY LinkedIn DEF TrySetNext, Goto, In, Ready
<1>4. Linked(t)' /\ \A u \in Tx : u # t => (Linked(u)' <=> Linked(u))
  BY <1>1, <1>2, ContextAssumption DEF Linked, Contexts
<1>5. Issued' = Issued + 1 /\ cid[t] = Issued + 1
  BY <1>1, <1>2, ContextAssumption DEF Issued, Contexts
<1>6. Ticket[t] = 0 /\ Ticket' = [Ticket EXCEPT ![t] = Issued + 1]
  BY <1>2, <1>3, <1>4, <1>5 DEF Ticket
<1> QED
  BY <1>2, <1>5, <1>6 DEF Order!TakeTicket, Issued, Ticket

\* Swinging _last_commit_context is no step of the order.
LEMMA SwingStutters == ASSUME IInv, IInv', StepEffect, NEW t \in Tx, SwingLastContext(t) PROVE UNCHANGED Order!vars
<1>1. pc[t] = "swing" /\ lastContext = cur[t] /\ lastContext' = t
      /\ UNCHANGED <<lastCommitId, cid, next, pending, snapshot, done>>
  BY DEF SwingLastContext, Goto, IInv, Structure, ListEnd, contextVars, txVars
<1>2. next[lastContext] = t /\ cid[t] = cid[lastContext] + 1
  BY <1>1 DEF IInv, Structure, ListShape, In
<1>3. next[t] = None
  <2>1. ASSUME next[t] # None PROVE FALSE
    <3>1. pc'[next[t]] = "swing" /\ next[t] \in Tx /\ cur[next[t]] = t
      BY <1>1, <2>1 DEF IInv, Structure, ListEnd, ListShape, Contexts
    <3>2. next[t] # t => pc[next[t]] = "swing"
      BY <3>1 DEF SwingLastContext, Goto, IInv, TypeOK
    <3>3. next[t] # t
      BY <1>1, <3>1, <2>1 DEF SwingLastContext, Goto, IInv, TypeOK
    <3>4. cur[next[t]] = lastContext
      BY <3>1, <3>2, <3>3 DEF IInv, Structure, ListEnd
    <3> QED
      BY <1>1, <1>2, <3>1, <3>4, <3>3
  <2> QED
    BY <2>1
<1>4. Issued' = Issued
  BY <1>1, <1>2, <1>3, ContextAssumption DEF Issued, Contexts
<1>5. Ticket' = Ticket
  BY <1>1 DEF Ticket, Linked
<1> QED
  BY <1>1, <1>4, <1>5 DEF Order!vars, Issued, Ticket

\* Raising _last_commit_id is advancing the horizon.
LEMMA AdvancesOrder ==
  ASSUME IInv, IInv', StepEffect, NEW t \in Tx, IncrementLastCommitId(t), lastCommitId = cid[inc[t]] - 1
  PROVE  Order!Advance
<1>1. /\ inc[t] \in Tx /\ pending[inc[t]] /\ Linked(inc[t])
  BY LinkedIn DEF IncrementLastCommitId, Goto, IInv, Structure, Publication, Publishing
<1>2. /\ UNCHANGED <<next, lastContext, cid, pending, snapshot, done>> /\ lastCommitId' = cid[inc[t]]
      /\ lastCommitId \in Nat /\ cid[inc[t]] \in Nat
  BY DEF IncrementLastCommitId, contextVars, txVars, IInv, TypeOK, Contexts
<1>3. Issued' = Issued /\ Ticket' = Ticket
  BY <1>2, FrameOrder
<1> QED
  BY <1>1, <1>2, <1>3 DEF Order!Advance, Issued, Ticket

\* Fulfilling the promise is acknowledging the commit.
LEMMA AcknowledgesOrder ==
  ASSUME IInv, IInv', StepEffect, NEW t \in Tx, FireNotify(t), NEW v \in Tx, v = inc[t]
  PROVE  Order!Acknowledge(v)
<1>1. Linked(v) /\ cid[v] <= lastCommitId
  BY LinkedIn DEF FireNotify, Goto, IInv, Structure, Publication, Publishing
<1>2. cid[v] # 0
  BY SMTT(60), <1>1, LinkedIn, ContextAssumption DEF IInv, Structure, ListShape, TypeOK, Contexts
<1>3. UNCHANGED <<next, lastContext, cid, pending, snapshot, lastCommitId>> /\ done' = [done EXCEPT ![v] = TRUE]
  BY DEF FireNotify, contextVars, managerVars
<1>4. Issued' = Issued /\ Ticket' = Ticket
  BY <1>3, FrameOrder
<1>5. Acked' = Acked \cup {v}
  BY <1>1, <1>3 DEF Acked, IInv, TypeOK
<1> QED
  BY <1>1, <1>2, <1>3, <1>4, <1>5 DEF Order!Acknowledge, Issued, Ticket, Acked

\* Setting a context pending is making its ticket ready.
LEMMA MakesReady == ASSUME IInv, IInv', StepEffect, NEW t \in Tx, SetPending(t) PROVE Order!MakeReady(t)
<1>1. Linked(t) /\ cid[t] # 0
  BY LinkedIn, ContextAssumption DEF SetPending, Goto, In, IInv, Structure, ListShape, TypeOK, Contexts
<1>2. UNCHANGED <<next, lastContext, cid, done, snapshot, lastCommitId>> /\ pending' = [pending EXCEPT ![t] = TRUE]
  BY DEF SetPending, txVars, managerVars
<1>3. Issued' = Issued /\ Ticket' = Ticket
  BY <1>2, FrameOrder
<1>4. ReadySet' = ReadySet \cup {t}
  BY <1>2, ContextAssumption DEF ReadySet, IInv, TypeOK, Contexts
<1> QED
  BY <1>1, <1>2, <1>3, <1>4 DEF Order!MakeReady, Issued, Ticket, ReadySet

\* Reading the snapshot is beginning.
LEMMA BeginsOrder == ASSUME IInv, IInv', StepEffect, NEW t \in Tx, ReadSnapshot(t) PROVE Order!Begin(t)
<1>1. snapshot[t] = 0
  BY DEF ReadSnapshot, Goto, IInv, Structure, Horizon
<1>2. UNCHANGED <<next, lastContext, cid, done, pending, lastCommitId>>
      /\ snapshot' = [snapshot EXCEPT ![t] = lastCommitId]
  BY DEF ReadSnapshot, contextVars, managerVars
<1>3. Issued' = Issued /\ Ticket' = Ticket
  BY <1>2, FrameOrder
<1> QED
  BY <1>1, <1>2, <1>3 DEF Order!Begin, Issued, Ticket

\* The other steps change nothing that CommitOrder speaks of.
Silent(t) == \/ Register(t) \/ Decide(t) \/ MarkAsRolledBack(t) \/ LoadLastContext(t) \/ SpinHasNext(t)
             \/ CommitRecord(t) \/ SetCallback(t) \/ CheckPending(t) \/ FireTransition(t) \/ FollowNext(t)
             \/ AwaitCommitted(t) \/ Deregister(t)

\* All other steps stutter.
LEMMA SilentStutters == ASSUME IInv, IInv', StepEffect, NEW t \in Tx, Silent(t) PROVE UNCHANGED Order!vars
<1>1. UNCHANGED <<next, lastContext, pending, snapshot, done, lastCommitId>>
  BY DEF Silent, Register, Decide, CommitReadOnly, RollbackByUser, MarkAsConflicted, PrepareCommit, MarkAsRolledBack,
     LoadLastContext, SpinHasNext, CommitRecord, SetCallback, CheckPending, FireTransition, FollowNext, AwaitCommitted,
     Deregister, managerVars, contextVars, txVars
<1>2. cid'[lastContext] = cid[lastContext]
  <2>1. CASE SpinHasNext(t)
    <3>1. lastContext # t
      BY <2>1, ContextAssumption DEF SpinHasNext, Goto, IInv, Structure, ListEnd, Member, In, Ready
    <3> QED
      BY <2>1, <3>1 DEF SpinHasNext, IInv, TypeOK
  <2>2. CASE ~SpinHasNext(t)
    BY <2>2 DEF Silent, Register, Decide, CommitReadOnly, RollbackByUser, MarkAsConflicted, PrepareCommit,
       MarkAsRolledBack, LoadLastContext, CommitRecord, SetCallback, CheckPending, FireTransition, FollowNext,
       AwaitCommitted, Deregister, contextVars
  <2> QED
    BY <2>1, <2>2
<1>3. Issued' = Issued /\ Ticket' = Ticket
  BY <1>1, <1>2, FrameOrder
<1> QED
  BY <1>1, <1>3 DEF Order!vars, Issued, Ticket

\* Every step maps to a step of the order or to a stutter.
LEMMA OrderStep == ASSUME IInv, IInv', [Next]_vars PROVE [Order!Next]_Order!vars
<1>1. StepEffect
  BY StepEffects
<1>2. ASSUME NEW t \in Tx, TrySetNext(t) PROVE [Order!Next]_Order!vars
  <2>1. CASE next[cur[t]] = None
    BY <1>2, <2>1, TakesTicket DEF Order!Next
  <2>2. CASE next[cur[t]] # None
    <3>1. UNCHANGED <<next, lastContext, pending, snapshot, done, lastCommitId, cid>>
      BY <1>2, <2>2 DEF TrySetNext, managerVars, txVars
    <3>2. Issued' = Issued /\ Ticket' = Ticket
      BY <1>1, <3>1, FrameOrder
    <3> QED
      BY <3>1, <3>2 DEF Order!vars, Issued, Ticket
  <2> QED
    BY <2>1, <2>2
<1>3. ASSUME NEW t \in Tx, IncrementLastCommitId(t) PROVE [Order!Next]_Order!vars
  <2>1. CASE lastCommitId = cid[inc[t]] - 1
    BY <1>1, <1>3, <2>1, AdvancesOrder DEF Order!Next
  <2>2. CASE lastCommitId # cid[inc[t]] - 1
    <3>1. UNCHANGED <<next, lastContext, pending, snapshot, done, lastCommitId, cid>>
      BY <1>3, <2>2 DEF IncrementLastCommitId, contextVars, txVars
    <3>2. Issued' = Issued /\ Ticket' = Ticket
      BY <1>1, <3>1, FrameOrder
    <3> QED
      BY <3>1, <3>2 DEF Order!vars, Issued, Ticket
  <2> QED
    BY <2>1, <2>2
<1>4. ASSUME NEW t \in Tx, FireNotify(t) PROVE [Order!Next]_Order!vars
  <2>1. inc[t] \in Tx
    BY <1>4 DEF FireNotify, Goto, IInv, Structure, Publication, Publishing
  <2>2. PICK v \in Tx : v = inc[t]
    BY <2>1
  <2>3. Order!Acknowledge(v)
    BY <1>1, <1>4, <2>2, AcknowledgesOrder
  <2> QED
    BY <2>3 DEF Order!Next
<1>5. ASSUME NEW t \in Tx, SetPending(t) \/ ReadSnapshot(t) PROVE [Order!Next]_Order!vars
  BY <1>1, <1>5, MakesReady, BeginsOrder DEF Order!Next
<1>6. ASSUME NEW t \in Tx, Silent(t) \/ SwingLastContext(t) PROVE [Order!Next]_Order!vars
  BY <1>1, <1>6, SilentStutters, SwingStutters
<1>7. CASE UNCHANGED vars
  <2>1. UNCHANGED <<next, lastContext, pending, snapshot, done, lastCommitId, cid>>
    BY <1>7 DEF vars, managerVars, contextVars, txVars
  <2>2. Issued' = Issued /\ Ticket' = Ticket
    BY <1>1, <2>1, FrameOrder
  <2> QED
    BY <2>1, <2>2 DEF Order!vars, Issued, Ticket
<1> QED
  BY <1>2, <1>3, <1>4, <1>5, <1>6, <1>7 DEF Next, Proceed, Finished, Silent

\* Every behaviour of the lock-free protocol is one of the abstract commit order:
\* consecutive ids, a horizon that passes ready commits one at a time and in
\* order, and acknowledgements only behind it.
THEOREM Implementation == Spec => ImplementsCommitOrder
  BY OrderInit, OrderStep, Invariance, PTL DEF Spec, Order!Spec, ImplementsCommitOrder

----------------------------------------------------------------------------
(* No commit is lost.                                                      *)

NextInLine(u) == Linked(u) /\ pending[u] /\ cid[u] = lastCommitId + 1

\* A thread whose step is not t's keeps t on its way to u.
LEMMA OthersKeepCourse ==
  ASSUME IInv, StepEffect, NEW t \in Tx, NEW u \in Tx, WillAdvanceTo(t, u), pc'[t] = pc[t], inc'[t] = inc[t]
  PROVE  WillAdvanceTo(t, u)'
<1>1. next[inc[t]] = u => next'[inc[t]] = u
  BY ContextAssumption DEF StepEffect, TrySetNext, IInv, TypeOK
<1> QED
  BY <1>1 DEF WillAdvanceTo

\* t's own step brings it closer to u.
LEMMA KeepsCourse ==
  ASSUME IInv, NEW t \in Tx, NEW u \in Tx, NextInLine(u), WillAdvanceTo(t, u),
         CheckPending(t) \/ IncrementLastCommitId(t) \/ FireTransition(t) \/ FireNotify(t) \/ FollowNext(t)
  PROVE  WillAdvanceTo(t, u)' \/ lastCommitId' # lastCommitId
<1> USE DEF WillAdvanceTo, Goto, IInv, TypeOK, contextVars, managerVars
<1>1. CASE CheckPending(t)
  BY <1>1 DEF CheckPending, NextInLine
<1>2. CASE IncrementLastCommitId(t)
  BY SMTT(60), <1>2 DEF IncrementLastCommitId, NextInLine, Contexts
<1>3. CASE FireTransition(t)
  BY <1>3 DEF FireTransition, Transition, Structure, Publication
<1>4. CASE FireNotify(t)
  BY <1>4 DEF FireNotify
<1>5. CASE FollowNext(t)
  BY <1>5, ContextAssumption DEF FollowNext, Contexts
<1> QED
  BY <1>1, <1>2, <1>3, <1>4, <1>5

\* The thread that moves the horizon goes on to the context after it.
LEMMA AdvanceHandsOn ==
  ASSUME IInv, NEW t \in Tx, IncrementLastCommitId(t), lastCommitId' # lastCommitId, NEW u \in Tx, NextInLine(u)'
  PROVE  WillAdvanceTo(t, u)'
<1>1. /\ pc' = [pc EXCEPT ![t] = "fire"] /\ lastCommitId' = cid[inc[t]] /\ UNCHANGED <<next, cid, inc>>
      /\ inc[t] \in Tx /\ In(inc[t])
  BY DEF IncrementLastCommitId, Goto, IInv, Structure, Publication, Publishing, contextVars
<1>2. In(u) /\ cid[u] = cid[inc[t]] + 1
  BY <1>1, LinkedIn DEF NextInLine, Linked
<1>3. Member(cur[u]) /\ next[cur[u]] = u /\ cid[cur[u]] = cid[inc[t]] /\ cur[u] \in Contexts
  BY <1>1, <1>2 DEF IInv, Structure, ListShape, TypeOK, Contexts
<1>4. cur[u] = inc[t]
  BY <1>1, <1>3 DEF IInv, Structure, IdsDistinct, Member, Contexts
<1> QED
  BY <1>1, <1>3, <1>4 DEF WillAdvanceTo, IInv, TypeOK

\* Every step keeps a publisher for the commit that is next in line.
LEMMA NoLostCommitStep == ASSUME IInv, IInv', NoLostCommit, [Next]_vars PROVE NoLostCommit'
<1> SUFFICES ASSUME NEW u \in Tx, NextInLine(u)' PROVE \E t \in Tx : WillAdvanceTo(t, u)'
  BY DEF NoLostCommit, NextInLine
<1>1. StepEffect
  BY StepEffects
<1>2. CASE NextInLine(u) /\ lastCommitId' = lastCommitId
  <2>1. PICK t \in Tx : WillAdvanceTo(t, u)
    BY <1>2 DEF NoLostCommit, NextInLine
  <2>2. CASE pc'[t] = pc[t] /\ inc'[t] = inc[t]
    BY <1>1, <2>1, <2>2, OthersKeepCourse
  <2>3. CASE ~(pc'[t] = pc[t] /\ inc'[t] = inc[t])
    <3>1. PICK s \in Tx : ReadSnapshot(s) \/ Decide(s) \/ Proceed(s)
      BY <2>3 DEF Next, Finished, vars, threadVars
    <3>2. s = t
      BY <2>3, <3>1 DEF Decide, Proceed, ReadSnapshot, Register, CommitReadOnly, RollbackByUser, MarkAsConflicted,
         PrepareCommit, MarkAsRolledBack, LoadLastContext, SpinHasNext, TrySetNext, SwingLastContext, CommitRecord,
         SetCallback, SetPending, CheckPending, IncrementLastCommitId, FireTransition, FireNotify, FollowNext,
         AwaitCommitted, Deregister, Goto, Transition, IInv, TypeOK
    <3>3. CheckPending(t) \/ IncrementLastCommitId(t) \/ FireTransition(t) \/ FireNotify(t) \/ FollowNext(t)
      BY <2>1, <3>1, <3>2 DEF WillAdvanceTo, Decide, Proceed, ReadSnapshot, Register, CommitReadOnly, RollbackByUser,
         MarkAsConflicted, PrepareCommit, MarkAsRolledBack, LoadLastContext, SpinHasNext, TrySetNext, SwingLastContext,
         CommitRecord, SetCallback, SetPending, AwaitCommitted, Deregister, Goto
    <3> QED
      BY <1>2, <2>1, <3>3, KeepsCourse
  <2> QED
    BY <2>2, <2>3
<1>3. ASSUME NEW t \in Tx, IncrementLastCommitId(t), lastCommitId' # lastCommitId
      PROVE  \E s \in Tx : WillAdvanceTo(s, u)'
  BY <1>3, AdvanceHandsOn
<1>4. CASE lastCommitId' # lastCommitId
  <2>1. \E t \in Tx : IncrementLastCommitId(t)
    BY <1>4 DEF Next, Finished, vars, managerVars, Decide, Proceed, ReadSnapshot, Register, CommitReadOnly,
       RollbackByUser, MarkAsConflicted, PrepareCommit, MarkAsRolledBack, LoadLastContext, SpinHasNext, TrySetNext,
       SwingLastContext, CommitRecord, SetCallback, SetPending, CheckPending, FireTransition, FireNotify, FollowNext,
       AwaitCommitted, Deregister
  <2> QED
    BY <1>3, <1>4, <2>1
\* Otherwise u has just become ready, by its own thread's hand.
<1>5. CASE lastCommitId' = lastCommitId /\ ~NextInLine(u)
  <2>1. Linked(u) /\ cid'[u] = cid[u]
    <3>1. CASE Linked(u)
      BY <1>1, <3>1, LinkedIn DEF StepEffect
    <3>2. CASE ~Linked(u)
      <4>1. TrySetNext(u)
        BY <1>1, <3>2 DEF NextInLine, Linked, StepEffect, TrySetNext, Goto, IInv, TypeOK
      <4>2. ~pending'[u]
        BY <4>1 DEF TrySetNext, Goto, IInv, Structure, Stamping, Ready
      <4> QED
        BY <4>2 DEF NextInLine
    <3> QED
      BY <3>1, <3>2
  <2>2. ~pending[u] /\ pending'[u]
    BY <1>5, <2>1 DEF NextInLine
  <2>3. SetPending(u)
    <3>1. PICK s \in Tx : SetPending(s)
      BY <2>2 DEF Next, Finished, vars, contextVars, Decide, Proceed, ReadSnapshot, Register, CommitReadOnly,
         RollbackByUser, MarkAsConflicted, PrepareCommit, MarkAsRolledBack, LoadLastContext, SpinHasNext, TrySetNext,
         SwingLastContext, CommitRecord, SetCallback, CheckPending, IncrementLastCommitId, FireTransition, FireNotify,
         FollowNext, AwaitCommitted, Deregister
    <3>2. s = u
      BY <2>2, <3>1 DEF SetPending, IInv, TypeOK, Contexts
    <3> QED
      BY <3>1, <3>2
  <2> QED
    BY <2>3 DEF SetPending, Goto, WillAdvanceTo, IInv, TypeOK
<1> QED
  BY <1>2, <1>4, <1>5

\* When the next commit id in line is ready, some thread is about to publish it.
THEOREM NoCommitIsLost == Spec => []NoLostCommit
<1>1. Init => NoLostCommit
  BY ContextAssumption DEF Init, NoLostCommit, Linked, Contexts
<1> QED
  BY <1>1, NoLostCommitStep, Invariance, PTL DEF Spec
=================================================================================
