------------------------------ MODULE Session ------------------------------
(***************************************************************************)
(* The server of Hyrise: src/ssb/hyrise-dram/src/lib/server/ (Server,      *)
(* Session, QueryHandler) over sql/ (SQLPipeline, SQLPipelineStatement)    *)
(* and the prepared plans of the StorageManager.                           *)
(*                                                                         *)
(* A session is a thread that reads one message of its client after the    *)
(* other.  A simple query runs its statements one by one in a pipeline;    *)
(* Parse, Bind, Execute and Sync drive prepared statements.  The sessions  *)
(* share the prepared plans and the server's count of running sessions;    *)
(* their handlers interleave wherever the code looks at these and acts     *)
(* later.  The pipeline works on the TransactionContext object that the    *)
(* session points to, so contexts are objects here and pointers to them    *)
(* are indices, 0 for none.                                                *)
(*                                                                         *)
(* Abstracted: a statement is one of the kinds below; whether a write      *)
(* runs into a conflict is left open; sockets, buffers and results.        *)
(***************************************************************************)
EXTENDS Naturals, Sequences, FiniteSets

CONSTANTS
  Sessions,     \* the sessions that clients open
  Messages,     \* per session: the messages its client may send
  MaxMessages   \* bound, per session: how many of them

Unnamed == ""
Nil == "nil"
TransactionStatements == {"begin", "commit", "rollback"}
PlanKinds == {"read", "write"}
Statements == TransactionStatements \cup PlanKinds \cup {"invalid"}

PlanNames == {Unnamed, "n"}
PortalNames == {Unnamed, "p"}
Message == [to : {"query"}, of : Seq(Statements)]
           \cup [to : {"parse"}, of : PlanNames \X (PlanKinds \cup {"invalid"})]
           \cup [to : {"bind"}, of : PortalNames \X PlanNames]
           \cup [to : {"execute"}, of : PortalNames \X {Nil}]
           \cup [to : {"sync"}, of : {<<>>}]

ASSUME SessionAssumption ==
  /\ IsFiniteSet(Sessions)
  /\ Messages \in [Sessions -> SUBSET Message]
  /\ MaxMessages \in [Sessions -> Nat]

VARIABLES
  server,       \* the server process: "up", "stopping", "stopped", "crashed"
  running,      \* _num_running_sessions
  early,        \* ghost: the sessions counted when shutdown was called
  at,           \* per session: where its thread is
  todo,         \* per session: the arguments of the handler that runs
  pipeline,     \* per session: SQLPipeline::_transaction_context
  context,      \* per session: Session::_transaction_context
  contexts,     \* per session: the contexts made for it
  touched,      \* ghost, per session: contexts used since the last answer
  portals,      \* per session: Session::_portals
  syncSendAfterError, \* per session: the flag of that name
  reply,        \* per session: what the last message was answered with
  left,         \* per session: messages the client may still send
  prepared      \* StorageManager::_prepared_plans

work == <<pipeline, context, contexts, touched>>
protocol == <<portals, syncSendAfterError>>
process == <<server, running, early>>
vars == <<server, running, early, at, todo, pipeline, context, contexts,
          touched, portals, syncSendAfterError, reply, left, prepared>>

Phases == {"Active", "Committed", "RolledBackByUser", "RolledBackAfterConflict"}
Contexts == [phase : Phases, auto : BOOLEAN, writes : BOOLEAN]
Replies == [to : {"none", "query", "parse", "bind", "execute", "sync"},
            ready : BOOLEAN, error : BOOLEAN, conflict : BOOLEAN]
Portals == [kind : PlanKinds \cup {Nil}, executed : BOOLEAN]

PhaseOf(s, c) == IF c = 0 THEN "none" ELSE contexts[s][c].phase
Alive == server # "crashed"
Is(s, where) == Alive /\ at[s] = where
Goto(s, where) == at' = [at EXCEPT ![s] = where]
Put(f, s, value) == [f EXCEPT ![s] = value]

----------------------------------------------------------------------------
(* Answers.  Every handler ends with one of them.                          *)

Answer(s, ready, error, conflict) ==
  /\ Goto(s, "ready")
  /\ reply' = [reply EXCEPT ![s].ready = ready, ![s].error = error,
                            ![s].conflict = conflict]

\* The handler of Session::run for an exception that a request throws.
Raise(s) ==
  /\ Answer(s, TRUE, TRUE, FALSE)
  /\ syncSendAfterError' = Put(syncSendAfterError, s, TRUE)

\* A task that throws does so on a worker thread, where nobody catches it.
Crash ==
  /\ server' = "crashed"
  /\ UNCHANGED <<running, early, at, todo, work, protocol, reply, left, prepared>>

----------------------------------------------------------------------------
(* server.cpp: sessions come and go, and shutdown waits for the running    *)
(* ones.                                                                   *)

\* _start_session: the thread exists, but has not counted itself yet.
Accept(s) ==
  /\ server \in {"up", "stopping"} /\ at[s] = "closed"
  /\ Goto(s, "accepted")
  /\ UNCHANGED <<process, todo, work, protocol, reply, left, prepared>>

Count(s) ==
  /\ Is(s, "accepted")
  /\ running' = running + 1
  /\ Goto(s, "startup")
  /\ UNCHANGED <<server, early, todo, work, protocol, reply, left, prepared>>

\* _establish_connection runs outside the try block of Session::run: nobody
\* catches that the client is gone by then.
EstablishConnection(s) ==
  /\ Is(s, "startup")
  /\ \/ /\ Goto(s, "ready")
        /\ UNCHANGED <<process, todo, work, protocol, reply, left, prepared>>
     \/ Crash

\* Mutant: a session whose client disconnects is not uncounted.
TerminateCounted(s) ==
  /\ Is(s, "ready")
  /\ Goto(s, "gone")
  /\ UNCHANGED <<process, todo, work, protocol, reply, left, prepared>>

\* Terminate, or the client disconnects: the session object is destroyed ...
Terminate(s) ==
  /\ Is(s, "ready")
  /\ Goto(s, "destroyed")
  /\ UNCHANGED <<process, todo, work, protocol, reply, left, prepared>>

\* Mutant: a session is uncounted twice.
UncountTwice(s) ==
  /\ Is(s, "destroyed")
  /\ running' = IF running > 1 THEN running - 2 ELSE 0
  /\ Goto(s, "gone")
  /\ UNCHANGED <<server, early, todo, work, protocol, reply, left, prepared>>

\* ... and then it is no longer counted.
Uncount(s) ==
  /\ Is(s, "destroyed")
  /\ running' = running - 1
  /\ Goto(s, "gone")
  /\ UNCHANGED <<server, early, todo, work, protocol, reply, left, prepared>>

Shutdown ==
  /\ server = "up"
  /\ server' = "stopping"
  /\ early' = {s \in Sessions : at[s] \notin {"closed", "accepted", "gone"}}
  /\ UNCHANGED <<running, at, todo, work, protocol, reply, left, prepared>>

\* The busy wait of shutdown reads 0 and the io_service stops.
Stop ==
  /\ server = "stopping" /\ running = 0
  /\ server' = "stopped"
  /\ UNCHANGED <<running, early, at, todo, work, protocol, reply, left, prepared>>

----------------------------------------------------------------------------
(* session.cpp: reading a message.                                         *)

\* _handle_request.  A query, Parse or Bind clears the flag that an error
\* set; Sync and Execute do not.
Receive(s) ==
  /\ Is(s, "ready") /\ left[s] > 0
  /\ left' = [left EXCEPT ![s] = @ - 1]
  /\ \E message \in Messages[s] :
       /\ Goto(s, message.to)
       /\ todo' = Put(todo, s, message.of)
       /\ reply' = Put(reply, s, [to |-> message.to, ready |-> FALSE, error |-> FALSE,
                                  conflict |-> FALSE])
       /\ syncSendAfterError' = Put(syncSendAfterError, s,
            syncSendAfterError[s] /\ message.to \in {"execute", "sync"})
       /\ touched' = IF message.to = "query" \/ reply[s].to \in {"query", "sync"}
                     THEN Put(touched, s, {}) ELSE touched
  /\ UNCHANGED <<process, pipeline, context, contexts, portals, prepared>>

----------------------------------------------------------------------------
(* query_handler.cpp: the prepared plans, which all sessions share.        *)

WithoutPortal(s, p) == Put(portals, s, [n \in DOMAIN portals[s] \ {p} |-> portals[s][n]])
WithPortal(s, p, kind) ==
  Put(portals, s, [n \in DOMAIN portals[s] \cup {p} |->
                     IF n = p THEN [kind |-> kind, executed |-> FALSE] ELSE portals[s][n]])

\* _handle_simple_query up to the creation of the pipeline: the unnamed portal
\* and the unnamed prepared statement are invalidated.
HandleSimpleQuery(s) ==
  /\ Is(s, "query")
  /\ Goto(s, IF prepared[Unnamed] # Nil THEN "drop" ELSE "pipeline")
  /\ portals' = WithoutPortal(s, Unnamed)
  /\ pipeline' = Put(pipeline, s, context[s])
  /\ UNCHANGED <<process, todo, context, contexts, touched, syncSendAfterError,
                 reply, left, prepared>>

\* setup_prepared_plan: a named statement is never redefined.
SetupPreparedPlan(s) ==
  /\ Is(s, "parse")
  /\ LET name == todo[s][1] IN
       IF prepared[name] # Nil /\ name # Unnamed
       THEN Raise(s)
       ELSE /\ Goto(s, IF prepared[name] # Nil THEN "drop" ELSE "add")
            /\ UNCHANGED <<syncSendAfterError, reply>>
  /\ UNCHANGED <<process, todo, work, portals, left, prepared>>

\* The name of the plan whose entry a session reads or writes with its next step.
Entry(s) ==
  CASE at[s] = "erase" -> Unnamed
    [] at[s] = "store" -> todo[s][1]
    [] at[s] = "get"   -> todo[s][2]
    [] OTHER           -> Nil

\* Another session copies or assigns the shared_ptr that s is about to assign:
\* nothing orders the two, and either may release what the other still counts.
Races(s) == \E q \in Sessions \ {s} : Entry(q) = Entry(s)

\* StorageManager::drop_prepared_plan of the unnamed statement: find and assert ...
DropPreparedPlan(s) ==
  /\ Is(s, "drop")
  /\ IF prepared[Unnamed] = Nil
     THEN Raise(s)
     ELSE Goto(s, "erase") /\ UNCHANGED <<syncSendAfterError, reply>>
  /\ UNCHANGED <<process, todo, work, portals, left, prepared>>

\* ... and the assignment, which no lock joins to it.
ErasePreparedPlan(s) ==
  /\ Is(s, "erase")
  /\ \/ /\ Goto(s, IF reply[s].to = "query" THEN "pipeline" ELSE "add")
        /\ prepared' = [prepared EXCEPT ![Unnamed] = Nil]
        /\ UNCHANGED <<process, todo, work, protocol, reply, left>>
     \/ Races(s) /\ Crash

\* Mutant: add_prepared_plan without its assertion.
AddPreparedPlanBlindly(s) ==
  /\ Is(s, "add")
  /\ IF todo[s][2] = "invalid"
     THEN Raise(s)
     ELSE Goto(s, "store") /\ UNCHANGED <<syncSendAfterError, reply>>
  /\ UNCHANGED <<process, todo, work, portals, left, prepared>>

\* The statement is translated, then add_prepared_plan: find and assert ...
AddPreparedPlan(s) ==
  /\ Is(s, "add")
  /\ LET name == todo[s][1]  kind == todo[s][2] IN
       IF kind = "invalid" \/ prepared[name] # Nil
       THEN Raise(s)
       ELSE Goto(s, "store") /\ UNCHANGED <<syncSendAfterError, reply>>
  /\ UNCHANGED <<process, todo, work, portals, left, prepared>>

\* ... and the assignment.  Another session may have stored a plan of the name by now.
StorePreparedPlan(s) ==
  /\ Is(s, "store")
  /\ \/ /\ prepared' = [prepared EXCEPT ![todo[s][1]] = todo[s][2]]
        /\ Answer(s, FALSE, FALSE, FALSE)
        /\ UNCHANGED <<process, todo, work, protocol, left>>
     \/ Races(s) /\ Crash

\* _handle_bind_command: a null plan takes the portal until binding succeeds.
HandleBindCommand(s) ==
  /\ Is(s, "bind")
  /\ LET portal == todo[s][1]  name == todo[s][2] IN
       IF portal \in DOMAIN portals[s] /\ portal # Unnamed
       THEN Raise(s) /\ UNCHANGED portals
       ELSE /\ portals' = WithPortal(s, portal, Nil)
            /\ IF prepared[name] = Nil
               THEN Raise(s)
               ELSE Goto(s, "get") /\ UNCHANGED <<syncSendAfterError, reply>>
  /\ UNCHANGED <<process, todo, work, left, prepared>>

\* bind_prepared_plan: another session may have dropped the plan by now.
GetPreparedPlan(s) ==
  /\ Is(s, "get")
  /\ LET portal == todo[s][1]  name == todo[s][2] IN
       IF prepared[name] = Nil
       THEN Raise(s) /\ UNCHANGED portals
       ELSE /\ portals' = WithPortal(s, portal, prepared[name])
            /\ Answer(s, FALSE, FALSE, FALSE)
            /\ UNCHANGED syncSendAfterError
  /\ UNCHANGED <<process, todo, work, left, prepared>>

----------------------------------------------------------------------------
(* Executing a physical plan: OperatorTask::_on_execute and the operators. *)

\* Mutant: Execute asks for an auto-commit context as well.
NewAutoContext(auto) == [phase |-> "Active", auto |-> TRUE, writes |-> FALSE]

NewContext(auto) == [phase |-> "Active", auto |-> auto, writes |-> FALSE]

\* What a plan may leave its context as; nothing if a task throws.  Operators of
\* a transaction that conflicted are skipped, and skipping a read/write operator
\* throws; so does running one for the second time or after the transaction.
Outcomes(c, kind, executed) ==
  CASE c.phase = "Active" /\ kind = "read" -> {c}
    [] c.phase = "Active" /\ kind = "write" /\ ~executed ->
         {[c EXCEPT !.writes = TRUE],
          [c EXCEPT !.writes = TRUE, !.phase = "RolledBackAfterConflict"]}
    [] c.phase = "RolledBackAfterConflict" /\ kind = "read" -> {c}
    [] OTHER -> {}

\* Mutant: the statement leaves its auto-commit context alone.
FinishedUncommitted(c) == c

\* SQLPipelineStatement commits an auto-commit context, TransactionContext::commit.
Finished(c) == IF c.auto /\ c.phase = "Active" THEN [c EXCEPT !.phase = "Committed"] ELSE c

----------------------------------------------------------------------------
(* sql_pipeline.cpp and sql_pipeline_statement.cpp: get_result_table(s).   *)

Statement(s) == Head(todo[s])
InPipeline(s) == Is(s, "pipeline") /\ todo[s] # <<>>
Advance(s) == todo' = Put(todo, s, Tail(todo[s])) /\ UNCHANGED at
Conflicted(s) == PhaseOf(s, pipeline[s]) = "RolledBackAfterConflict"

\* SQLPipelineStatus::Failure: the pipeline drops its transaction, the session
\* takes over what the pipeline has.
FailPipeline(s) ==
  /\ Answer(s, TRUE, TRUE, TRUE)
  /\ context' = Put(context, s, 0)
  /\ pipeline' = Put(pipeline, s, 0)

\* has_failed: nothing but a transaction statement runs after a conflict.
Refuse(s) ==
  /\ InPipeline(s) /\ Statement(s) \notin TransactionStatements /\ Conflicted(s)
  /\ FailPipeline(s)
  /\ UNCHANGED <<process, todo, contexts, touched, protocol, left, prepared>>

\* A statement that cannot be translated or has no business here throws, and
\* what the pipeline did to its context does not reach the session.
Throw(s) ==
  /\ InPipeline(s)
  /\ \/ Statement(s) = "invalid" /\ ~Conflicted(s)
     \/ Statement(s) = "begin" /\ pipeline[s] # 0
     \/ Statement(s) \in {"commit", "rollback"} /\ pipeline[s] = 0
  /\ Raise(s)
  /\ UNCHANGED <<process, todo, work, portals, left, prepared>>

Begin(s) ==
  /\ InPipeline(s) /\ Statement(s) = "begin" /\ pipeline[s] = 0
  /\ contexts' = Put(contexts, s, Append(contexts[s], NewContext(FALSE)))
  /\ pipeline' = Put(pipeline, s, Len(contexts[s]) + 1)
  /\ touched' = [touched EXCEPT ![s] = @ \cup {Len(contexts[s]) + 1}]
  /\ Advance(s)
  /\ UNCHANGED <<process, context, protocol, reply, left, prepared>>

\* COMMIT and ROLLBACK: the task throws unless the transaction is active.
EndTransaction(s) ==
  /\ InPipeline(s) /\ Statement(s) \in {"commit", "rollback"} /\ pipeline[s] # 0
  /\ \/ /\ PhaseOf(s, pipeline[s]) # "Active" /\ Crash
     \/ /\ PhaseOf(s, pipeline[s]) = "Active"
        /\ contexts' = [contexts EXCEPT ![s][pipeline[s]].phase =
             IF Statement(s) = "commit" THEN "Committed" ELSE "RolledBackByUser"]
        /\ touched' = [touched EXCEPT ![s] = @ \cup {pipeline[s]}]
        /\ pipeline' = Put(pipeline, s, 0)
        /\ Advance(s)
        /\ UNCHANGED <<process, context, protocol, reply, left, prepared>>

\* The contexts of the session with the one the statement runs in, which is
\* made here unless the pipeline has one.
WithContext(s, p, auto) == IF p # 0 THEN contexts[s] ELSE Append(contexts[s], NewContext(auto))
Current(s, p) == IF p # 0 THEN p ELSE Len(contexts[s]) + 1

ExecuteStatement(s) ==
  /\ InPipeline(s) /\ Statement(s) \in PlanKinds /\ ~Conflicted(s)
  /\ LET c == Current(s, pipeline[s])
         cs == WithContext(s, pipeline[s], TRUE)
         outcomes == Outcomes(cs[c], Statement(s), FALSE)
     IN \/ outcomes = {} /\ Crash
        \/ \E o \in outcomes :
             /\ contexts' = Put(contexts, s, [cs EXCEPT ![c] = Finished(o)])
             /\ touched' = [touched EXCEPT ![s] = @ \cup {c}]
             /\ IF o.phase = "RolledBackAfterConflict"
                THEN FailPipeline(s) /\ UNCHANGED todo
                ELSE Advance(s) /\ UNCHANGED <<pipeline, context, reply>>
             /\ UNCHANGED <<process, protocol, left, prepared>>

\* The pipeline has run all its statements: execute_pipeline returns its context.
FinishPipeline(s) ==
  /\ Is(s, "pipeline") /\ todo[s] = <<>>
  /\ context' = Put(context, s, pipeline[s])
  /\ pipeline' = Put(pipeline, s, 0)
  /\ Answer(s, TRUE, FALSE, FALSE)
  /\ UNCHANGED <<process, todo, contexts, touched, protocol, left, prepared>>

----------------------------------------------------------------------------
(* session.cpp: Execute and Sync.                                          *)

\* _handle_execute.  An unnamed portal is gone afterwards, a named one stays
\* with its plan.  Nobody asks whether the plan ran into a conflict.
HandleExecute(s) ==
  /\ Is(s, "execute")
  /\ LET portal == todo[s][1] IN
       IF portal \notin DOMAIN portals[s]
       THEN /\ Raise(s)
            /\ UNCHANGED <<process, todo, work, portals, left, prepared>>
       ELSE IF portals[s][portal].kind = Nil
       THEN /\ portals' = WithoutPortal(s, portal)
            /\ Answer(s, FALSE, FALSE, FALSE)
            /\ UNCHANGED <<process, todo, work, syncSendAfterError, left, prepared>>
       ELSE LET plan == portals[s][portal]
                c == Current(s, context[s])
                cs == WithContext(s, context[s], FALSE)
                outcomes == Outcomes(cs[c], plan.kind, plan.executed)
            IN \/ outcomes = {} /\ Crash
               \/ \E o \in outcomes :
                    /\ contexts' = Put(contexts, s, [cs EXCEPT ![c] = o])
                    /\ touched' = [touched EXCEPT ![s] = @ \cup {c}]
                    /\ context' = Put(context, s, c)
                    /\ portals' = IF portal = Unnamed THEN WithoutPortal(s, portal)
                                  ELSE [portals EXCEPT ![s][portal].executed = TRUE]
                    /\ Answer(s, FALSE, FALSE, FALSE)
                    /\ UNCHANGED <<process, todo, pipeline, syncSendAfterError, left,
                                   prepared>>

\* The sync of a request that failed is read and ignored.
IgnoreSync(s) ==
  /\ Is(s, "sync") /\ syncSendAfterError[s]
  /\ Answer(s, FALSE, FALSE, FALSE)
  /\ UNCHANGED <<process, todo, work, protocol, left, prepared>>

\* Mutant: a failed commit is not noticed.
SyncWithoutPhase(s) ==
  /\ Is(s, "sync") /\ ~syncSendAfterError[s]
  /\ contexts' = IF PhaseOf(s, context[s]) = "Active"
                 THEN [contexts EXCEPT ![s][context[s]].phase = "Committed"] ELSE contexts
  /\ context' = Put(context, s, 0)
  /\ Answer(s, TRUE, FALSE, FALSE)
  /\ UNCHANGED <<process, todo, pipeline, touched, protocol, left, prepared>>

\* _sync: the transaction is committed, or TransactionContext::commit throws.
Sync(s) ==
  /\ Is(s, "sync") /\ ~syncSendAfterError[s]
  /\ IF PhaseOf(s, context[s]) \in {"none", "Active"}
     THEN /\ contexts' = IF context[s] = 0 THEN contexts
                         ELSE [contexts EXCEPT ![s][context[s]].phase = "Committed"]
          /\ context' = Put(context, s, 0)
          /\ Answer(s, TRUE, FALSE, FALSE)
          /\ UNCHANGED syncSendAfterError
     ELSE Raise(s) /\ UNCHANGED <<contexts, context>>
  /\ UNCHANGED <<process, todo, pipeline, touched, portals, left, prepared>>

----------------------------------------------------------------------------
Init ==
  /\ server = "up" /\ running = 0 /\ early = {}
  /\ at = [s \in Sessions |-> "closed"]
  /\ todo = [s \in Sessions |-> <<>>]
  /\ pipeline = [s \in Sessions |-> 0]
  /\ context = [s \in Sessions |-> 0]
  /\ contexts = [s \in Sessions |-> <<>>]
  /\ touched = [s \in Sessions |-> {}]
  /\ portals = [s \in Sessions |-> << >>]
  /\ syncSendAfterError = [s \in Sessions |-> FALSE]
  /\ reply = [s \in Sessions |-> [to |-> "none", ready |-> TRUE, error |-> FALSE,
                                  conflict |-> FALSE]]
  /\ left = MaxMessages
  /\ prepared = [n \in PlanNames |-> Nil]

Run(s) ==
  \/ Count(s) \/ EstablishConnection(s) \/ Receive(s) \/ HandleSimpleQuery(s)
  \/ SetupPreparedPlan(s) \/ DropPreparedPlan(s) \/ ErasePreparedPlan(s)
  \/ AddPreparedPlan(s) \/ StorePreparedPlan(s) \/ HandleBindCommand(s) \/ GetPreparedPlan(s)
  \/ Refuse(s) \/ Throw(s) \/ Begin(s) \/ EndTransaction(s) \/ ExecuteStatement(s)
  \/ FinishPipeline(s) \/ HandleExecute(s) \/ IgnoreSync(s) \/ Sync(s)
  \/ Terminate(s) \/ Uncount(s)

Next == Shutdown \/ Stop \/ \E s \in Sessions : Accept(s) \/ Run(s)

Spec == Init /\ [][Next]_vars

\* The threads of the sessions run, every client ends at last, and the caller of
\* shutdown keeps looking.  Nobody has to connect or to call shutdown.
FairSpec == Spec /\ WF_vars(Stop) /\ \A s \in Sessions : WF_vars(Run(s))

----------------------------------------------------------------------------
(* Properties.                                                             *)

\* The variables have their types; session.cpp, sql_pipeline.cpp, server.cpp.
TypeOK ==
  /\ server \in {"up", "stopping", "stopped", "crashed"}
  /\ running \in 0 .. Cardinality(Sessions) /\ early \subseteq Sessions
  /\ syncSendAfterError \in [Sessions -> BOOLEAN]
  /\ reply \in [Sessions -> Replies]
  /\ prepared \in [PlanNames -> PlanKinds \cup {Nil}]
  /\ \A s \in Sessions :
       /\ left[s] \in 0 .. MaxMessages[s]
       /\ contexts[s] \in Seq(Contexts)
       /\ touched[s] \subseteq DOMAIN contexts[s]
       /\ pipeline[s] \in 0 .. Len(contexts[s]) /\ context[s] \in 0 .. Len(contexts[s])
       /\ DOMAIN portals[s] \subseteq PortalNames
       /\ \A p \in DOMAIN portals[s] : portals[s][p] \in Portals

Decided(s, c) == PhaseOf(s, c) \in {"Committed", "RolledBackByUser"}
Answered(s, message) == at[s] = "ready" /\ reply[s].to = message /\ reply[s].ready

\* A simple query that is answered without an error has really been done: each
\* transaction it ran in is committed, rolled back by its own ROLLBACK, or still
\* open as the session's.  One that is answered with a conflict leaves the
\* session without a transaction, its last transaction is rolled back, and none
\* was started after the conflict.
QueryAnsweredTruthfully ==
  \A s \in Sessions : Answered(s, "query") =>
    /\ ~reply[s].error => \A c \in touched[s] : Decided(s, c) \/ c = context[s]
    /\ reply[s].conflict =>
         /\ context[s] = 0
         /\ \E c \in touched[s] \cup DOMAIN contexts[s] :
              /\ PhaseOf(s, c) = "RolledBackAfterConflict"
              /\ \A d \in touched[s] : d <= c

\* A Sync that is answered without an error has committed everything that the
\* Executes since the last answer did, and leaves no transaction open.
SyncAnsweredTruthfully ==
  \A s \in Sessions : Answered(s, "sync") /\ ~reply[s].error =>
    /\ context[s] = 0
    /\ \A c \in touched[s] : PhaseOf(s, c) = "Committed"

\* The transaction that a session carries from one message to the next never
\* is an auto-commit one (the assertion of QueryHandler::execute_pipeline).
NoAutoCommitKept ==
  \A s \in Sessions : context[s] # 0 => ~contexts[s][context[s]].auto

\* Every session that was counted when shutdown was called has been destroyed
\* when the server stops (the comment of Server::_start_session).
CountedSessionsFinish ==
  server = "stopped" => \A s \in early : at[s] = "gone"

\* No Parse of the name is between the assertion of add_prepared_plan and its assignment.
Settled(n) ==
  prepared[n] # Nil /\ ~\E s \in Sessions : at[s] = "store" /\ todo[s][1] = n

\* A named prepared statement is final once every Parse that found its name free has
\* stored its plan, however later Parse messages interleave: each of them fails at one of
\* the two checks, has_prepared_plan or the assertion of add_prepared_plan.
NamedPlansStay ==
  [][\A n \in PlanNames \ {Unnamed} :
       Settled(n) => Settled(n)' /\ prepared'[n] = prepared[n]]_vars

\* What QueryHandler::setup_prepared_plan says of named statements.  It fails: two
\* sessions find one name free, and the second to store redefines the plan.
NamedPlansNeverRedefined ==
  [][\A n \in PlanNames \ {Unnamed} : prepared[n] # Nil => prepared'[n] = prepared[n]]_vars

\* shutdown returns: the count of sessions comes back to zero whatever requests
\* fail on the way, unless the whole process is gone.
ShutdownReturns == server = "stopping" ~> server \in {"stopped", "crashed"}

\* What the constructor of SQLPipeline asserts of the transaction it is given.
ContextIsActive ==
  \A s \in Sessions : at[s] = "query" => PhaseOf(s, context[s]) \in {"none", "Active"}

\* What a client is told is what happened to its transaction (session.cpp, query_handler.cpp).
AnswersTruthful == QueryAnsweredTruthfully /\ SyncAnsweredTruthfully

\* The variables have their types; sessions carry no auto-commit transaction over, and those
\* that are counted end before the server does (session.cpp, server.cpp).
SessionsConsistent == TypeOK /\ NoAutoCommitKept /\ CountedSessionsFinish
=============================================================================
