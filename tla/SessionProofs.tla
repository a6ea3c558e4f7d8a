------------------------------ MODULE SessionProofs ------------------------------
(***************************************************************************)
(* Proofs about Session, for any number of clients with any messages.      *)
(***************************************************************************)
EXTENDS Session, FiniteSetTheorems, SequenceTheorems, TLAPS

\* Where the thread of a session may be.
Locations == {"closed", "accepted", "startup", "ready", "query", "parse", "drop", "erase", "add",
              "store", "bind", "get", "pipeline", "execute", "sync", "destroyed", "gone"}

\* The sessions that _num_running_sessions stands for.
Counted == {s \in Sessions : at[s] \notin {"closed", "accepted", "gone"}}

\* What a step needs to know of the types.
Types ==
  /\ server \in {"up", "stopping", "stopped", "crashed"}
  /\ at \in [Sessions -> Locations] /\ todo = [s \in Sessions |-> todo[s]]
  /\ pipeline \in [Sessions -> Nat] /\ context \in [Sessions -> Nat]
  /\ contexts \in [Sessions -> Seq(Contexts)] /\ touched \in [Sessions -> SUBSET Nat]
  /\ portals \in [Sessions -> UNION {[D -> Portals] : D \in SUBSET PortalNames}]
  /\ syncSendAfterError \in [Sessions -> BOOLEAN]
  /\ reply \in [Sessions -> Replies] /\ left \in [Sessions -> Nat]
  /\ prepared \in [PlanNames -> PlanKinds \cup {Nil}]

\* The count is that of the sessions counted, and whoever was counted at shutdown() is
\* gone when the server stops.
Counts ==
  /\ running = Cardinality(Counted)
  /\ early \subseteq {s \in Sessions : at[s] \notin {"closed", "accepted"}}
  /\ CountedSessionsFinish

\* A handler runs for a message of its kind ...
Kind(s) ==
  /\ at[s] \in {"query", "pipeline"} => reply[s].to = "query"
  /\ at[s] \in {"parse", "add", "store"} => reply[s].to = "parse"
  /\ at[s] \in {"drop", "erase"} => reply[s].to \in {"query", "parse"}
  /\ at[s] \in {"bind", "get"} => reply[s].to = "bind"
  /\ at[s] \in {"execute", "sync"} => reply[s].to = at[s]
  /\ at[s] \in {"closed", "accepted", "startup"} => reply[s].to = "none"

\* ... and has the arguments of that kind.
Arguments(s) ==
  /\ reply[s].to = "query" => todo[s] \in Seq(Statements)
  /\ reply[s].to = "parse" => todo[s] \in PlanNames \X (PlanKinds \cup {"invalid"})
  /\ at[s] = "store" => todo[s] \in PlanNames \X PlanKinds
  /\ reply[s].to = "bind" => todo[s] \in PortalNames \X PlanNames
  /\ reply[s].to = "execute" => todo[s] \in PortalNames \X {Nil}

\* Pointers lead to contexts of the session, and what a session or a pipeline keeps from
\* one statement to the next is no auto-commit context.
References(s) ==
  /\ left[s] <= MaxMessages[s]
  /\ touched[s] \subseteq DOMAIN contexts[s]
  /\ pipeline[s] <= Len(contexts[s]) /\ context[s] <= Len(contexts[s])
  /\ pipeline[s] # 0 => ~contexts[s][pipeline[s]].auto
  /\ context[s] # 0 => ~contexts[s][context[s]].auto

\* While a query runs, all transactions it has used are decided but the pipeline's own,
\* which is the latest; between Executes and up to Sync, only the session's is used.
Course(s) ==
  /\ at[s] = "query" \/ (at[s] \in {"drop", "erase"} /\ reply[s].to = "query") => touched[s] = {}
  /\ at[s] = "pipeline" => \A c \in touched[s] :
       /\ Decided(s, c) \/ c = pipeline[s]
       /\ pipeline[s] # 0 => c <= pipeline[s]
  /\ reply[s].to \in {"none", "parse", "bind", "execute"} \/ at[s] = "sync" => touched[s] \subseteq {context[s]}

\* AnswersTruthful, for one session.
Truthful(s) ==
  /\ Answered(s, "query") =>
       /\ ~reply[s].error => \A c \in touched[s] : Decided(s, c) \/ c = context[s]
       /\ reply[s].conflict =>
            /\ context[s] = 0
            /\ \E c \in touched[s] \cup DOMAIN contexts[s] :
                 /\ PhaseOf(s, c) = "RolledBackAfterConflict"
                 /\ \A d \in touched[s] : d <= c
  /\ Answered(s, "sync") /\ ~reply[s].error =>
       /\ context[s] = 0
       /\ \A c \in touched[s] : PhaseOf(s, c) = "Committed"

Sound(s) == Kind(s) /\ Arguments(s) /\ References(s) /\ Course(s) /\ Truthful(s)

\* The inductive invariant.
IInv == Types /\ Counts /\ (\A s \in Sessions : Sound(s))

\* What belongs to one session.
Own(s) == <<at[s], todo[s], pipeline[s], context[s], contexts[s], touched[s], reply[s], left[s]>>

----------------------------------------------------------------------------
\* The messages of a client have the form that their handlers expect.
LEMMA MessageForm ==
  ASSUME NEW s \in Sessions, NEW m \in Messages[s]
  PROVE  /\ m.to \in {"query", "parse", "bind", "execute", "sync"}
         /\ m.to = "query" => m.of \in Seq(Statements)
         /\ m.to = "parse" => m.of \in PlanNames \X (PlanKinds \cup {"invalid"})
         /\ m.to = "bind" => m.of \in PortalNames \X PlanNames
         /\ m.to = "execute" => m.of \in PortalNames \X {Nil}
<1>1. m \in Message
  BY SessionAssumption
<1>2. ASSUME NEW S, NEW T, m \in [to : {S}, of : T] PROVE m.to = S /\ m.of \in T
  BY <1>2
<1>3. CASE m \in [to : {"query"}, of : Seq(Statements)]
  <2>1. m.to = "query" /\ m.of \in Seq(Statements)
    BY ONLY <1>2, <1>3
  <2> QED
    BY <2>1
<1>4. CASE m \in [to : {"parse"}, of : PlanNames \X (PlanKinds \cup {"invalid"})]
  <2>1. m.to = "parse" /\ m.of \in PlanNames \X (PlanKinds \cup {"invalid"})
    BY ONLY <1>2, <1>4
  <2> QED
    BY <2>1
<1>5. CASE m \in [to : {"bind"}, of : PortalNames \X PlanNames]
  <2>1. m.to = "bind" /\ m.of \in PortalNames \X PlanNames
    BY ONLY <1>2, <1>5
  <2> QED
    BY <2>1
<1>6. CASE m \in [to : {"execute"}, of : PortalNames \X {Nil}]
  <2>1. m.to = "execute" /\ m.of \in PortalNames \X {Nil}
    BY ONLY <1>2, <1>6
  <2> QED
    BY <2>1
<1>7. CASE m \in [to : {"sync"}, of : {<<>>}]
  <2>1. m.to = "sync"
    BY ONLY <1>2, <1>7
  <2> QED
    BY <2>1
<1> QED
  BY <1>1, <1>3, <1>4, <1>5, <1>6, <1>7 DEF Message

\* A session that a step does not touch stays sound.
LEMMA OthersSound == ASSUME NEW s, Sound(s), UNCHANGED Own(s) PROVE Sound(s)'
<1>1. /\ at'[s] = at[s] /\ todo'[s] = todo[s] /\ pipeline'[s] = pipeline[s] /\ context'[s] = context[s]
      /\ contexts'[s] = contexts[s] /\ touched'[s] = touched[s] /\ reply'[s] = reply[s] /\ left'[s] = left[s]
  BY DEF Own
<1>2. ASSUME NEW c PROVE PhaseOf(s, c)' = PhaseOf(s, c)
  BY <1>1 DEF PhaseOf
<1> QED
  BY <1>1, <1>2 DEF Sound, Kind, Arguments, References, Course, Truthful, Decided, Answered, PhaseOf

\* Entries of a portal.
LEMMA PortalChanges ==
  ASSUME Types, NEW s \in Sessions, NEW p \in PortalNames
  PROVE  LET PortalMaps == [Sessions -> UNION {[D -> Portals] : D \in SUBSET PortalNames}] IN
         /\ WithoutPortal(s, p) \in PortalMaps
         /\ \A kind \in PlanKinds \cup {Nil} : WithPortal(s, p, kind) \in PortalMaps
         /\ p \in DOMAIN portals[s] => portals[s][p] \in Portals
         /\ p \in DOMAIN portals[s] => [portals EXCEPT ![s][p].executed = TRUE] \in PortalMaps
<1> DEFINE PortalMaps == UNION {[D -> Portals] : D \in SUBSET PortalNames}
<1>1. portals \in [Sessions -> PortalMaps]
  BY DEF Types
<1>2. PICK D \in SUBSET PortalNames : portals[s] \in [D -> Portals]
  BY <1>1
<1>3. ASSUME NEW E \in SUBSET PortalNames, NEW f \in [E -> Portals] PROVE f \in PortalMaps
  BY <1>3
<1>4. ASSUME NEW f \in PortalMaps PROVE [portals EXCEPT ![s] = f] \in [Sessions -> PortalMaps]
  BY <1>1, <1>4
<1> HIDE DEF PortalMaps
<1>5. WithoutPortal(s, p) \in [Sessions -> PortalMaps]
  <2>1. [n \in DOMAIN portals[s] \ {p} |-> portals[s][n]] \in [D \ {p} -> Portals]
    BY <1>2
  <2> QED
    BY <2>1, <1>3, <1>4 DEF WithoutPortal, Put
<1>6. ASSUME NEW kind \in PlanKinds \cup {Nil} PROVE WithPortal(s, p, kind) \in [Sessions -> PortalMaps]
  <2>1. [n \in DOMAIN portals[s] \cup {p} |->
          IF n = p THEN [kind |-> kind, executed |-> FALSE] ELSE portals[s][n]] \in [D \cup {p} -> Portals]
    BY <1>2, <1>6 DEF Portals
  <2> QED
    BY <2>1, <1>3, <1>4 DEF WithPortal, Put
<1>7. ASSUME p \in DOMAIN portals[s]
      PROVE  portals[s][p] \in Portals /\ [portals EXCEPT ![s][p].executed = TRUE] \in [Sessions -> PortalMaps]
  <2>1. p \in D /\ portals[s][p] \in Portals
    BY <1>2, <1>7
  <2>2. [portals[s][p] EXCEPT !.executed = TRUE] \in Portals
    BY <2>1 DEF Portals
  <2>3. [portals[s] EXCEPT ![p] = [portals[s][p] EXCEPT !.executed = TRUE]] \in [D -> Portals]
    BY <1>2, <2>1, <2>2
  <2>4. [portals EXCEPT ![s][p].executed = TRUE]
          = [portals EXCEPT ![s] = [portals[s] EXCEPT ![p] = [portals[s][p] EXCEPT !.executed = TRUE]]]
    OBVIOUS
  <2> QED
    BY <2>1, <2>3, <2>4, <1>3, <1>4
<1> QED
  BY <1>5, <1>6, <1>7 DEF PortalMaps

\* An answer, and an exception, change no more than the place and the reply.
LEMMA Answers ==
  ASSUME Types, NEW s \in Sessions, NEW ready \in BOOLEAN, NEW error \in BOOLEAN, NEW conflict \in BOOLEAN,
         Answer(s, ready, error, conflict)
  PROVE  /\ at' = [at EXCEPT ![s] = "ready"] /\ reply' \in [Sessions -> Replies]
         /\ reply'[s].to = reply[s].to /\ reply'[s].ready = ready
         /\ reply'[s].error = error /\ reply'[s].conflict = conflict
         /\ \A q \in Sessions \ {s} : reply'[q] = reply[q]
<1>1. reply \in [Sessions -> Replies] /\ reply[s] \in Replies
  BY DEF Types
<1>2. reply' = [reply EXCEPT ![s] = [reply[s] EXCEPT !.ready = ready, !.error = error, !.conflict = conflict]]
  BY DEF Answer
<1>3. [reply[s] EXCEPT !.ready = ready, !.error = error, !.conflict = conflict]
        = [to |-> reply[s].to, ready |-> ready, error |-> error, conflict |-> conflict]
  <2>1. PICK to \in {"none", "query", "parse", "bind", "execute", "sync"}, r \in BOOLEAN, e \in BOOLEAN, c \in BOOLEAN :
             reply[s] = [to |-> to, ready |-> r, error |-> e, conflict |-> c]
    BY <1>1 DEF Replies
  <2>2. /\ [[to |-> to, ready |-> r, error |-> e, conflict |-> c] EXCEPT !.ready = ready]
             = [to |-> to, ready |-> ready, error |-> e, conflict |-> c]
        /\ [[to |-> to, ready |-> ready, error |-> e, conflict |-> c] EXCEPT !.error = error]
             = [to |-> to, ready |-> ready, error |-> error, conflict |-> c]
        /\ [[to |-> to, ready |-> ready, error |-> error, conflict |-> c] EXCEPT !.conflict = conflict]
             = [to |-> to, ready |-> ready, error |-> error, conflict |-> conflict]
    OBVIOUS
  <2>3. [reply[s] EXCEPT !.ready = ready, !.error = error, !.conflict = conflict]
          = [[[reply[s] EXCEPT !.ready = ready] EXCEPT !.error = error] EXCEPT !.conflict = conflict]
    OBVIOUS
  <2>4. reply[s].to = to
    BY <2>1
  <2> QED
    BY ZenonT(60), <2>1, <2>2, <2>3, <2>4
<1>4. [to |-> reply[s].to, ready |-> ready, error |-> error, conflict |-> conflict] \in Replies
  BY <1>1 DEF Replies
<1> QED
  BY <1>1, <1>2, <1>3, <1>4 DEF Answer, Goto

\* The context a statement or a portal runs in, and the contexts with it.
LEMMA CurrentContext ==
  ASSUME NEW s \in Sessions, contexts[s] \in Seq(Contexts), NEW p \in 0 .. Len(contexts[s]), NEW auto \in BOOLEAN
  PROVE  LET c == Current(s, p)  cs == WithContext(s, p, auto) IN
         /\ cs \in Seq(Contexts) /\ c \in 1 .. Len(cs) /\ Len(cs) >= Len(contexts[s])
         /\ \A i \in 1 .. Len(contexts[s]) : cs[i] = contexts[s][i]
         /\ p # 0 => c = p /\ Len(cs) = Len(contexts[s])
         /\ p = 0 => c = Len(contexts[s]) + 1 /\ cs[c] = NewContext(auto)
<1>1. Len(contexts[s]) \in Nat
  OBVIOUS
<1>2. NewContext(auto) \in Contexts
  BY DEF NewContext, Contexts, Phases
<1>3. CASE p # 0
  BY <1>1, <1>3 DEF Current, WithContext
<1>4. CASE p = 0
  <2>1. /\ Append(contexts[s], NewContext(auto)) \in Seq(Contexts)
        /\ Len(Append(contexts[s], NewContext(auto))) = Len(contexts[s]) + 1
        /\ \A i \in 1 .. Len(contexts[s]) : Append(contexts[s], NewContext(auto))[i] = contexts[s][i]
        /\ Append(contexts[s], NewContext(auto))[Len(contexts[s]) + 1] = NewContext(auto)
    BY <1>2, AppendProperties
  <2> QED
    BY <1>1, <1>4, <2>1 DEF Current, WithContext
<1> QED
  BY <1>3, <1>4

\* A change to one of a session's contexts.
LEMMA ContextChange ==
  ASSUME NEW cs \in Seq(Contexts), NEW c \in 1 .. Len(cs), NEW x \in Contexts
  PROVE  LET after == [cs EXCEPT ![c] = x] IN
         /\ after \in Seq(Contexts) /\ Len(after) = Len(cs) /\ after[c] = x
         /\ \A i \in 1 .. Len(cs) : i # c => after[i] = cs[i]
  OBVIOUS

\* What a plan leaves of its context: only an active one changes, and never in kind.
LEMMA OutcomeForm ==
  ASSUME NEW c \in Contexts, NEW kind \in PlanKinds, NEW executed \in BOOLEAN, NEW o \in Outcomes(c, kind, executed)
  PROVE  /\ o \in Contexts /\ o.auto = c.auto /\ o.phase \in {"Active", "RolledBackAfterConflict"}
         /\ c.phase = "Active" \/ (o = c /\ c.phase = "RolledBackAfterConflict")
<1> DEFINE written == [c EXCEPT !.writes = TRUE]
           conflicted == [written EXCEPT !.phase = "RolledBackAfterConflict"]
<1>1. written \in Contexts /\ written.auto = c.auto /\ written.phase = c.phase
  BY DEF Contexts, Phases
<1>2. conflicted \in Contexts /\ conflicted.auto = c.auto /\ conflicted.phase = "RolledBackAfterConflict"
  <2> HIDE DEF written
  <2> QED
    BY <1>1 DEF Contexts, Phases
<1>3. [c EXCEPT !.writes = TRUE, !.phase = "RolledBackAfterConflict"] = conflicted
  OBVIOUS
<1>4. \/ c.phase = "Active" /\ o \in {c, written, conflicted}
      \/ c.phase = "RolledBackAfterConflict" /\ o = c
  <2> HIDE DEF conflicted
  <2> QED
    BY <1>3 DEF Outcomes
<1> HIDE DEF written, conflicted
<1> QED
  BY <1>1, <1>2, <1>4

\* Committing a statement's own transaction.
LEMMA FinishedForm ==
  ASSUME NEW o \in Contexts
  PROVE  /\ Finished(o) \in Contexts /\ Finished(o).auto = o.auto
         /\ Finished(o).phase = IF o.auto /\ o.phase = "Active" THEN "Committed" ELSE o.phase
  BY DEF Finished, Contexts, Phases

----------------------------------------------------------------------------
(* The steps of a session's thread between connection and end.             *)

\* What a step of a handler does.
Handled(s) ==
  /\ Types' /\ Sound(s)' /\ \A q \in Sessions \ {s} : UNCHANGED Own(q)
  /\ UNCHANGED <<running, early>> /\ server' \in {server, "crashed"}
  /\ at[s] \notin {"closed", "accepted", "gone"} /\ at'[s] \notin {"closed", "accepted", "gone"}

LEMMA CrashStep == ASSUME IInv, NEW s \in Sessions, Crash, at[s] \notin {"closed", "accepted", "gone"} PROVE Handled(s)
<1>1. Types'
  BY DEF Crash, IInv, Types, work, protocol
<1>2. \A q \in Sessions : UNCHANGED Own(q)
  BY DEF Crash, Own, work
<1>3. Sound(s)'
  BY <1>2, OthersSound DEF IInv
<1> QED
  BY <1>1, <1>2, <1>3 DEF Crash, Handled

LEMMA ReceiveStep == ASSUME IInv, NEW s \in Sessions, Receive(s) PROVE Handled(s)
<1>1. Types /\ Sound(s) /\ at[s] = "ready"
  BY DEF IInv, Receive, Is
<1>2. PICK m \in Messages[s] :
       /\ at' = [at EXCEPT ![s] = m.to] /\ todo' = [todo EXCEPT ![s] = m.of]
       /\ reply' = [reply EXCEPT ![s] = [to |-> m.to, ready |-> FALSE, error |-> FALSE, conflict |-> FALSE]]
       /\ syncSendAfterError' = [syncSendAfterError EXCEPT ![s] = @ /\ m.to \in {"execute", "sync"}]
       /\ touched' = IF m.to = "query" \/ reply[s].to \in {"query", "sync"}
                     THEN [touched EXCEPT ![s] = {}] ELSE touched
  BY DEF Receive, Goto, Put
<1>3. left' = [left EXCEPT ![s] = @ - 1] /\ left[s] > 0
      /\ UNCHANGED <<server, running, early, pipeline, context, contexts, portals, prepared>>
  BY DEF Receive, process
<1>4. [to |-> m.to, ready |-> FALSE, error |-> FALSE, conflict |-> FALSE] \in Replies
  BY MessageForm DEF Replies
<1>5. Types'
  <2>1. at' \in [Sessions -> Locations] /\ todo' = [q \in Sessions |-> todo'[q]]
    BY <1>1, <1>2, MessageForm DEF Types, Locations
  <2>2. touched' \in [Sessions -> SUBSET Nat] /\ syncSendAfterError' \in [Sessions -> BOOLEAN]
        /\ reply' \in [Sessions -> Replies] /\ left' \in [Sessions -> Nat]
    <3>1. left' \in [Sessions -> Nat]
      BY <1>1, <1>3 DEF Types
    <3>2. syncSendAfterError' \in [Sessions -> BOOLEAN] /\ reply' \in [Sessions -> Replies]
      BY <1>1, <1>2, <1>4 DEF Types
    <3>3. touched' \in [Sessions -> SUBSET Nat]
      BY <1>1, <1>2 DEF Types
    <3> QED
      BY <3>1, <3>2, <3>3
  <2> QED
    BY <1>1, <1>3, <2>1, <2>2 DEF Types
<1>6. /\ at'[s] = m.to /\ todo'[s] = m.of /\ reply'[s].to = m.to /\ ~reply'[s].ready
      /\ touched'[s] \in {{}, touched[s]}
      /\ m.to = "query" \/ reply[s].to \in {"query", "sync"} => touched'[s] = {}
      /\ left'[s] = left[s] - 1 /\ left[s] \in Nat
  BY <1>1, <1>2, <1>3 DEF Types
<1>7. Kind(s)' /\ Arguments(s)'
  BY <1>6, MessageForm DEF Kind, Arguments
<1>8. References(s)'
  BY <1>1, <1>3, <1>6, SessionAssumption DEF Sound, References
<1>9. Course(s)'
  BY <1>1, <1>3, <1>6, MessageForm DEF Sound, Course, Types, Replies
<1>10. Truthful(s)'
  BY <1>6, MessageForm DEF Truthful, Answered
<1>11. \A q \in Sessions \ {s} : UNCHANGED Own(q)
  BY <1>1, <1>2, <1>3 DEF Own, Types
<1> QED
  BY <1>1, <1>3, <1>5, <1>6, <1>7, <1>8, <1>9, <1>10, <1>11, MessageForm DEF Handled, Sound

\* The part of the types that is not about a session's transactions.
SharedTypes ==
  /\ portals \in [Sessions -> UNION {[D -> Portals] : D \in SUBSET PortalNames}]
  /\ syncSendAfterError \in [Sessions -> BOOLEAN]
  /\ prepared \in [PlanNames -> PlanKinds \cup {Nil}]

\* A handler that throws, or that answers without saying that the session is ready.
LEMMA AnswerStep ==
  ASSUME IInv, NEW s \in Sessions, NEW ready \in BOOLEAN, NEW error \in BOOLEAN, error \/ ~ready,
         Answer(s, ready, error, FALSE), SharedTypes', UNCHANGED <<process, todo, work, left>>,
         at[s] \notin {"closed", "accepted", "gone"}
  PROVE  Handled(s)
<1>1. /\ at' = [at EXCEPT ![s] = "ready"] /\ reply' \in [Sessions -> Replies]
      /\ reply'[s].to = reply[s].to /\ reply'[s].ready = ready
      /\ reply'[s].error = error /\ reply'[s].conflict = FALSE
      /\ \A q \in Sessions \ {s} : reply'[q] = reply[q]
  BY Answers DEF IInv
<1>2. UNCHANGED <<server, running, early, todo, pipeline, context, contexts, touched, left>>
  BY DEF process, work
<1>3. Types /\ Sound(s)
  BY DEF IInv
<1>4. Types'
  BY <1>1, <1>2, <1>3 DEF Types, SharedTypes, Locations
<1>5. at'[s] = "ready"
  BY <1>1, <1>3 DEF Types
<1>6. Kind(s)' /\ Arguments(s)' /\ References(s)'
  BY <1>1, <1>2, <1>3, <1>5 DEF Sound, Kind, Arguments, References
<1>7. Course(s)'
  BY <1>1, <1>2, <1>3, <1>5 DEF Sound, Course
<1>8. Truthful(s)'
  BY <1>1, <1>5 DEF Truthful, Answered
<1>9. \A q \in Sessions \ {s} : UNCHANGED Own(q)
  BY <1>1, <1>2, <1>3 DEF Own, Types
<1> QED
  BY <1>2, <1>4, <1>5, <1>6, <1>7, <1>8, <1>9 DEF Handled, Sound

\* A handler that goes on to its next part.
LEMMA GotoStep ==
  ASSUME IInv, NEW s \in Sessions, NEW where \in {"pipeline", "drop", "erase", "add", "store", "get", "ready", "destroyed"},
         Goto(s, where), SharedTypes', UNCHANGED <<process, todo, reply, context, contexts, touched, left>>,
         at[s] \notin {"closed", "accepted", "gone"},
         \/ pipeline' = pipeline
         \/ at[s] = "query" /\ pipeline' = [pipeline EXCEPT ![s] = context[s]],
         where = "ready" => reply[s].to = "none",
         where = "drop" => at[s] \in {"query", "parse"},
         where = "erase" => at[s] = "drop",
         where = "pipeline" => at[s] = "query" \/ (at[s] = "erase" /\ reply[s].to = "query"),
         where \in {"add", "store"} => reply[s].to = "parse",
         where = "store" => todo[s][2] # "invalid",
         where = "get" => reply[s].to = "bind"
  PROVE  Handled(s)
<1>1. at' = [at EXCEPT ![s] = where]
  BY DEF Goto
<1>2. UNCHANGED <<server, running, early, todo, context, contexts, touched, left, reply>>
  BY DEF process
<1>3. Types /\ Sound(s)
  BY DEF IInv
<1>4. Types'
  BY <1>1, <1>2, <1>3 DEF Types, SharedTypes, Locations
<1>5. at'[s] = where
  BY <1>1, <1>3 DEF Types
<1>6. Kind(s)'
  BY <1>2, <1>3, <1>5 DEF Sound, Kind
<1>7. Arguments(s)'
  BY <1>2, <1>3, <1>5 DEF Sound, Arguments
<1>8. pipeline'[s] \in {pipeline[s], context[s]}
  BY <1>3 DEF Types
<1>9. References(s)'
  BY <1>2, <1>3, <1>8 DEF Sound, References
<1>10. Course(s)'
  BY <1>2, <1>3, <1>5 DEF Sound, Course, Kind
<1>11. Truthful(s)'
  BY <1>2, <1>5 DEF Truthful, Answered
<1>12. \A q \in Sessions \ {s} : UNCHANGED Own(q)
  BY <1>1, <1>2, <1>3 DEF Own, Types
<1> QED
  BY <1>2, <1>4, <1>5, <1>6, <1>7, <1>9, <1>10, <1>11, <1>12 DEF Handled, Sound

----------------------------------------------------------------------------
(* Prepared plans and portals.                                             *)

LEMMA HandleSimpleQueryStep == ASSUME IInv, NEW s \in Sessions, HandleSimpleQuery(s) PROVE Handled(s)
<1>1. SharedTypes'
  BY PortalChanges DEF HandleSimpleQuery, IInv, Types, SharedTypes, PortalNames
<1> QED
  BY <1>1, GotoStep DEF HandleSimpleQuery, Is, Put, process

LEMMA SetupPreparedPlanStep == ASSUME IInv, NEW s \in Sessions, SetupPreparedPlan(s) PROVE Handled(s)
<1> DEFINE where == IF prepared[todo[s][1]] # Nil THEN "drop" ELSE "add"
<1>1. /\ at[s] = "parse" /\ reply[s].to = "parse"
      /\ UNCHANGED <<process, todo, work, portals, left, prepared>>
      /\ \/ Raise(s)
         \/ Goto(s, where) /\ UNCHANGED <<syncSendAfterError, reply>>
  BY DEF SetupPreparedPlan, Is, IInv, Sound, Kind
<1>2. CASE Raise(s)
  <2>1. SharedTypes'
    BY <1>1, <1>2 DEF IInv, Types, SharedTypes, Raise, Put
  <2> QED
    BY <1>1, <1>2, <2>1, AnswerStep DEF Raise
<1>3. CASE Goto(s, where) /\ UNCHANGED <<syncSendAfterError, reply>>
  <2>1. SharedTypes' /\ UNCHANGED <<pipeline, context, contexts, touched>>
    BY <1>1, <1>3 DEF IInv, Types, SharedTypes, work
  <2> QED
    BY <1>1, <1>3, <2>1, GotoStep
<1> QED
  BY <1>1, <1>2, <1>3

\* The two checks: throw, or go on to the assignment.
LEMMA DropPreparedPlanStep == ASSUME IInv, NEW s \in Sessions, DropPreparedPlan(s) PROVE Handled(s)
<1>1. /\ at[s] = "drop" /\ UNCHANGED <<process, todo, work, portals, left, prepared>>
      /\ \/ Raise(s)
         \/ Goto(s, "erase") /\ UNCHANGED <<syncSendAfterError, reply>>
  BY DEF DropPreparedPlan, Is
<1>2. SharedTypes' /\ UNCHANGED <<pipeline, context, contexts, touched>>
  BY <1>1 DEF IInv, Types, SharedTypes, Raise, Put, work
<1> QED
  BY <1>1, <1>2, AnswerStep, GotoStep DEF Raise

LEMMA AddPreparedPlanStep == ASSUME IInv, NEW s \in Sessions, AddPreparedPlan(s) PROVE Handled(s)
<1>1. /\ at[s] = "add" /\ reply[s].to = "parse" /\ UNCHANGED <<process, todo, work, portals, left, prepared>>
      /\ \/ Raise(s)
         \/ Goto(s, "store") /\ todo[s][2] # "invalid" /\ UNCHANGED <<syncSendAfterError, reply>>
  BY DEF AddPreparedPlan, Is, IInv, Sound, Kind
<1>2. SharedTypes' /\ UNCHANGED <<pipeline, context, contexts, touched>>
  BY <1>1 DEF IInv, Types, SharedTypes, Raise, Put, work
<1> QED
  BY <1>1, <1>2, AnswerStep, GotoStep DEF Raise

\* The two assignments, and what may come of them when another session is at the entry.
LEMMA ErasePreparedPlanStep == ASSUME IInv, NEW s \in Sessions, ErasePreparedPlan(s) PROVE Handled(s)
<1> DEFINE where == IF reply[s].to = "query" THEN "pipeline" ELSE "add"
<1>1. at[s] = "erase" /\ reply[s].to \in {"query", "parse"}
  BY DEF ErasePreparedPlan, Is, IInv, Sound, Kind
<1>2. CASE Crash
  BY <1>1, <1>2, CrashStep
<1>3. CASE ~Crash
  <2>1. /\ Goto(s, where) /\ prepared' = [prepared EXCEPT ![Unnamed] = Nil]
        /\ UNCHANGED <<process, todo, work, protocol, reply, left>>
    BY <1>3 DEF ErasePreparedPlan
  <2>2. SharedTypes' /\ UNCHANGED <<pipeline, context, contexts, touched>>
    BY <2>1 DEF IInv, Types, SharedTypes, protocol, work
  <2> QED
    BY <1>1, <2>1, <2>2, GotoStep
<1> QED
  BY <1>2, <1>3

LEMMA StorePreparedPlanStep == ASSUME IInv, NEW s \in Sessions, StorePreparedPlan(s) PROVE Handled(s)
<1>1. at[s] = "store" /\ todo[s] \in PlanNames \X PlanKinds
  BY DEF StorePreparedPlan, Is, IInv, Sound, Arguments
<1>2. CASE Crash
  BY <1>1, <1>2, CrashStep
<1>3. CASE ~Crash
  <2>1. /\ Answer(s, FALSE, FALSE, FALSE) /\ prepared' = [prepared EXCEPT ![todo[s][1]] = todo[s][2]]
        /\ UNCHANGED <<process, todo, work, protocol, left>>
    BY <1>3 DEF StorePreparedPlan
  <2>2. SharedTypes'
    BY <1>1, <2>1 DEF IInv, Types, SharedTypes, protocol
  <2> QED
    BY <1>1, <2>1, <2>2, AnswerStep
<1> QED
  BY <1>2, <1>3

LEMMA HandleBindCommandStep == ASSUME IInv, NEW s \in Sessions, HandleBindCommand(s) PROVE Handled(s)
<1>1. /\ at[s] = "bind" /\ reply[s].to = "bind" /\ todo[s] \in PortalNames \X PlanNames
      /\ UNCHANGED <<process, todo, work, left, prepared>>
      /\ portals' \in {portals, WithPortal(s, todo[s][1], Nil)}
      /\ \/ Raise(s)
         \/ Goto(s, "get") /\ UNCHANGED <<syncSendAfterError, reply>>
  BY DEF HandleBindCommand, Is, IInv, Sound, Kind, Arguments
<1>2. SharedTypes'
  <2>1. WithPortal(s, todo[s][1], Nil) \in [Sessions -> UNION {[D -> Portals] : D \in SUBSET PortalNames}]
    BY <1>1, PortalChanges DEF IInv
  <2> QED
    BY <1>1, <2>1 DEF IInv, Types, SharedTypes, Raise, Put
<1>3. UNCHANGED <<pipeline, context, contexts, touched>>
  BY <1>1 DEF work
<1> QED
  BY <1>1, <1>2, <1>3, AnswerStep, GotoStep DEF Raise

LEMMA GetPreparedPlanStep == ASSUME IInv, NEW s \in Sessions, GetPreparedPlan(s) PROVE Handled(s)
<1>1. /\ at[s] = "get" /\ todo[s] \in PortalNames \X PlanNames
      /\ UNCHANGED <<process, todo, work, left, prepared>>
      /\ portals' \in {portals, WithPortal(s, todo[s][1], prepared[todo[s][2]])}
      /\ \/ Raise(s)
         \/ Answer(s, FALSE, FALSE, FALSE) /\ UNCHANGED syncSendAfterError
  BY DEF GetPreparedPlan, Is, IInv, Sound, Kind, Arguments
<1>2. SharedTypes'
  <2>1. WithPortal(s, todo[s][1], prepared[todo[s][2]]) \in [Sessions -> UNION {[D -> Portals] : D \in SUBSET PortalNames}]
    BY <1>1, PortalChanges DEF IInv, Types
  <2> QED
    BY <1>1, <2>1 DEF IInv, Types, SharedTypes, Raise, Put
<1> QED
  BY <1>1, <1>2, AnswerStep DEF Raise

\* Steps that only answer or throw.
LEMMA PlainSteps ==
  ASSUME IInv, NEW s \in Sessions, Throw(s) \/ IgnoreSync(s) \/ Terminate(s) \/ EstablishConnection(s)
  PROVE  Handled(s)
<1>1. CASE Throw(s)
  <2>1. at[s] = "pipeline" /\ Raise(s) /\ UNCHANGED <<process, todo, work, portals, left, prepared>>
    BY <1>1 DEF Throw, InPipeline, Is
  <2>2. SharedTypes'
    BY <2>1 DEF IInv, Types, SharedTypes, Raise, Put
  <2> QED
    BY <2>1, <2>2, AnswerStep DEF Raise
<1>2. CASE IgnoreSync(s)
  <2>1. SharedTypes'
    BY <1>2 DEF IInv, Types, SharedTypes, IgnoreSync, protocol
  <2> QED
    BY <1>2, <2>1, AnswerStep DEF IgnoreSync, Is
<1>3. CASE Terminate(s)
  <2>1. SharedTypes' /\ UNCHANGED <<pipeline, context, contexts, touched>>
    BY <1>3 DEF IInv, Types, SharedTypes, Terminate, protocol, work
  <2> QED
    BY <1>3, <2>1, GotoStep DEF Terminate, Is
<1>4. CASE EstablishConnection(s)
  <2>1. at[s] = "startup"
    BY <1>4 DEF EstablishConnection, Is
  <2>2. CASE Crash
    BY <2>1, <2>2, CrashStep
  <2>3. CASE Goto(s, "ready") /\ UNCHANGED <<process, todo, work, protocol, reply, left, prepared>>
    <3>1. SharedTypes' /\ UNCHANGED <<pipeline, context, contexts, touched>>
      BY <2>3 DEF IInv, Types, SharedTypes, protocol, work
    <3>2. reply[s].to = "none"
      BY <2>1 DEF IInv, Sound, Kind
    <3> QED
      BY <2>1, <2>3, <3>1, <3>2, GotoStep
  <2> QED
    BY <1>4, <2>2, <2>3 DEF EstablishConnection
<1> QED
  BY <1>1, <1>2, <1>3, <1>4

----------------------------------------------------------------------------
(* Steps that concern transactions.                                        *)

\* What all of them have in common: the types, and the sessions they leave alone.
LEMMA TransactionStep ==
  ASSUME IInv, NEW s \in Sessions, NEW where \in {"pipeline", "ready"},
         at[s] \in {"pipeline", "execute", "sync"}, at' = [at EXCEPT ![s] = where],
         todo' \in {todo, [todo EXCEPT ![s] = Tail(@)]},
         NEW p \in Nat, pipeline' = [pipeline EXCEPT ![s] = p], NEW c \in Nat, context' = [context EXCEPT ![s] = c],
         NEW cs \in Seq(Contexts), contexts' = [contexts EXCEPT ![s] = cs],
         NEW T \in SUBSET Nat, touched' = [touched EXCEPT ![s] = T],
         reply' \in [Sessions -> Replies], \A q \in Sessions \ {s} : reply'[q] = reply[q],
         SharedTypes', UNCHANGED <<process, left>>, Sound(s)'
  PROVE  Handled(s)
<1>1. Types /\ UNCHANGED <<server, running, early, left>>
  BY DEF IInv, process
<1>2. Types'
  <2>1. at' \in [Sessions -> Locations] /\ todo' = [q \in Sessions |-> todo'[q]]
    BY <1>1 DEF Types, Locations
  <2>2. /\ pipeline' \in [Sessions -> Nat] /\ context' \in [Sessions -> Nat]
        /\ contexts' \in [Sessions -> Seq(Contexts)] /\ touched' \in [Sessions -> SUBSET Nat]
    BY <1>1 DEF Types
  <2> QED
    BY <1>1, <2>1, <2>2 DEF Types, SharedTypes
<1>3. at'[s] = where
  BY <1>1 DEF Types
<1>4. \A q \in Sessions \ {s} : UNCHANGED Own(q)
  BY <1>1 DEF Own, Types
<1> QED
  BY <1>1, <1>2, <1>3, <1>4 DEF Handled

\* Facts about a session whose pipeline runs.
LEMMA PipelineFacts ==
  ASSUME IInv, NEW s \in Sessions, InPipeline(s)
  PROVE  /\ at[s] = "pipeline" /\ reply[s].to = "query" /\ reply[s] \in Replies
         /\ todo[s] \in Seq(Statements) /\ Tail(todo[s]) \in Seq(Statements) /\ Statement(s) \in Statements
         /\ contexts[s] \in Seq(Contexts) /\ touched[s] \subseteq 1 .. Len(contexts[s])
         /\ pipeline[s] \in 0 .. Len(contexts[s]) /\ context[s] \in 0 .. Len(contexts[s])
         /\ left[s] <= MaxMessages[s]
         /\ pipeline[s] # 0 => ~contexts[s][pipeline[s]].auto
         /\ context[s] # 0 => ~contexts[s][context[s]].auto
         /\ \A c \in touched[s] : (Decided(s, c) \/ c = pipeline[s]) /\ (pipeline[s] # 0 => c <= pipeline[s])
         /\ at = [at EXCEPT ![s] = "pipeline"] /\ todo = [todo EXCEPT ![s] = todo[s]]
         /\ pipeline = [pipeline EXCEPT ![s] = pipeline[s]] /\ context = [context EXCEPT ![s] = context[s]]
         /\ contexts = [contexts EXCEPT ![s] = contexts[s]] /\ touched = [touched EXCEPT ![s] = touched[s]]
         /\ reply \in [Sessions -> Replies] /\ SharedTypes
<1>1. Types /\ Sound(s) /\ at[s] = "pipeline" /\ todo[s] # <<>>
  BY DEF IInv, InPipeline, Is
<1>2. reply[s].to = "query" /\ todo[s] \in Seq(Statements)
  BY <1>1 DEF Sound, Kind, Arguments
<1>3. Tail(todo[s]) \in Seq(Statements) /\ Statement(s) \in Statements
  BY <1>1, <1>2 DEF Statement
<1>4. /\ at = [at EXCEPT ![s] = "pipeline"] /\ todo = [todo EXCEPT ![s] = todo[s]]
      /\ pipeline = [pipeline EXCEPT ![s] = pipeline[s]] /\ context = [context EXCEPT ![s] = context[s]]
      /\ contexts = [contexts EXCEPT ![s] = contexts[s]] /\ touched = [touched EXCEPT ![s] = touched[s]]
  BY <1>1 DEF Types
<1>5. contexts[s] \in Seq(Contexts) /\ pipeline[s] \in Nat /\ context[s] \in Nat /\ reply[s] \in Replies
  BY <1>1 DEF Types
<1>6. /\ touched[s] \subseteq 1 .. Len(contexts[s])
      /\ pipeline[s] \in 0 .. Len(contexts[s]) /\ context[s] \in 0 .. Len(contexts[s])
  BY <1>1, <1>5 DEF Sound, References
<1>7. \A c \in touched[s] : (Decided(s, c) \/ c = pipeline[s]) /\ (pipeline[s] # 0 => c <= pipeline[s])
  BY <1>1 DEF Sound, Course
<1> QED
  BY <1>1, <1>2, <1>3, <1>4, <1>5, <1>6, <1>7 DEF Sound, References, Types, SharedTypes

\* A statement leaves the pipeline running, with p as its context, cs as the session's
\* contexts and c as the one that the statement has used.
GoesOn(s, p, cs, c) ==
  /\ at' = at /\ todo' = [todo EXCEPT ![s] = Tail(@)]
  /\ pipeline' = [pipeline EXCEPT ![s] = p] /\ context' = context
  /\ contexts' = [contexts EXCEPT ![s] = cs] /\ Len(cs) >= Len(contexts[s])
  /\ c \in 1 .. Len(cs) /\ touched' = [touched EXCEPT ![s] = @ \cup {c}]
  /\ p \in {0, c} /\ (p # 0 => ~cs[p].auto)
  /\ \A i \in 1 .. Len(contexts[s]) : cs[i].auto = contexts[s][i].auto
  /\ \A i \in touched[s] : i # c => cs[i] = contexts[s][i] /\ i # pipeline[s]
  /\ cs[c].phase \in {"Committed", "RolledBackByUser"} \/ c = p
  /\ p # 0 => \A i \in touched[s] : i <= c
  /\ UNCHANGED <<process, reply, left, protocol, prepared>>

\* The session stays sound then.
LEMMA GoesOnStep ==
  ASSUME IInv, NEW s \in Sessions, InPipeline(s), NEW p, NEW cs \in Seq(Contexts), NEW c, GoesOn(s, p, cs, c)
  PROVE  Handled(s)
<1> USE DEF GoesOn
<1>0. p \in Nat
  BY PipelineFacts
<1>1. Types /\ touched[s] \cup {c} \subseteq 1 .. Len(cs)
  BY PipelineFacts DEF IInv
<1>2. /\ at'[s] = "pipeline" /\ todo'[s] = Tail(todo[s]) /\ pipeline'[s] = p /\ context'[s] = context[s]
      /\ contexts'[s] = cs /\ touched'[s] = touched[s] \cup {c} /\ reply' = reply /\ left' = left
  BY <1>1, PipelineFacts DEF Types
<1>3. Kind(s)' /\ Arguments(s)'
  BY <1>2, PipelineFacts DEF Kind, Arguments
<1>4. References(s)'
  <2>1. touched'[s] \subseteq DOMAIN contexts'[s]
    BY <1>1, <1>2
  <2>2. context[s] \in 0 .. Len(contexts[s]) /\ Len(contexts[s]) \in Nat /\ Len(cs) \in Nat
    BY PipelineFacts
  <2>3. context[s] <= Len(cs) /\ p <= Len(cs)
    BY <2>2
  <2>4. ASSUME context[s] # 0 PROVE ~cs[context[s]].auto
    <3>1. context[s] \in 1 .. Len(contexts[s]) /\ ~contexts[s][context[s]].auto
      BY <2>2, <2>4, PipelineFacts
    <3> QED
      BY <3>1
  <2> QED
    BY <1>2, <2>1, <2>3, <2>4, PipelineFacts DEF References
<1>5. Course(s)'
  <2>1. ASSUME NEW i \in touched[s] \cup {c} PROVE Decided(s, i)' \/ i = p
    <3>1. i # 0
      BY <1>1
    <3>2. CASE i = c
      BY <1>2, <3>1, <3>2 DEF Decided, PhaseOf
    <3>3. CASE i # c
      BY <1>2, <2>1, <3>1, <3>3, PipelineFacts DEF Decided, PhaseOf
    <3> QED
      BY <3>2, <3>3
  <2>2. ASSUME NEW i \in touched[s] \cup {c}, p # 0 PROVE i <= p
    BY <2>2
  <2> QED
    BY <1>2, <2>1, <2>2, PipelineFacts DEF Course
<1>6. Truthful(s)'
  BY <1>2 DEF Truthful, Answered
<1>7. touched[s] \cup {c} \in SUBSET Nat
  BY <1>1
<1>8. SharedTypes' /\ touched' = [touched EXCEPT ![s] = touched[s] \cup {c}]
  BY PipelineFacts DEF protocol, SharedTypes
<1>9. Sound(s)'
  BY <1>3, <1>4, <1>5, <1>6 DEF Sound
<1>10. /\ at[s] = "pipeline" /\ at' = [at EXCEPT ![s] = "pipeline"] /\ context[s] \in Nat
       /\ context' = [context EXCEPT ![s] = context[s]] /\ reply' \in [Sessions -> Replies]
       /\ \A q \in Sessions \ {s} : reply'[q] = reply[q]
  BY PipelineFacts
<1> QED
  BY <1>0, <1>7, <1>8, <1>9, <1>10, TransactionStep

LEMMA BeginStep == ASSUME IInv, NEW s \in Sessions, Begin(s) PROVE Handled(s)
<1> DEFINE cs == Append(contexts[s], NewContext(FALSE))
           c == Len(contexts[s]) + 1
<1>1. /\ InPipeline(s) /\ pipeline[s] = 0
      /\ contexts' = [contexts EXCEPT ![s] = cs] /\ pipeline' = [pipeline EXCEPT ![s] = c]
      /\ touched' = [touched EXCEPT ![s] = @ \cup {c}] /\ at' = at /\ todo' = [todo EXCEPT ![s] = Tail(@)]
      /\ context' = context /\ UNCHANGED <<process, reply, left, protocol, prepared>>
  BY DEF Begin, Put, Advance
<1>2. /\ c \in 1 .. Len(cs) /\ cs \in Seq(Contexts) /\ Len(cs) >= Len(contexts[s])
      /\ \A i \in 1 .. Len(contexts[s]) : cs[i] = contexts[s][i]
      /\ ~cs[c].auto /\ c \in Nat
  <2>1. contexts[s] \in Seq(Contexts) /\ Len(contexts[s]) \in Nat
    BY <1>1, PipelineFacts
  <2>2. PICK x \in Contexts : x = NewContext(FALSE) /\ ~x.auto
    <3>1. NewContext(FALSE) \in Contexts
      BY DEF NewContext, Contexts, Phases
    <3>2. ~NewContext(FALSE).auto
      BY DEF NewContext
    <3> QED
      BY <3>1, <3>2, Zenon
  <2>3. cs = Append(contexts[s], x)
    BY <2>2, Zenon
  <2>4. /\ cs \in Seq(Contexts) /\ Len(cs) = Len(contexts[s]) + 1 /\ cs[c] = x
        /\ \A i \in 1 .. Len(contexts[s]) : cs[i] = contexts[s][i]
    <3> HIDE DEF cs
    <3> QED
      BY <2>1, <2>3, AppendProperties
  <2>5. c \in 1 .. Len(cs) /\ c \in Nat /\ Len(cs) >= Len(contexts[s])
    <3> HIDE DEF cs
    <3> QED
      BY <2>1, <2>4
  <2> HIDE DEF cs, c
  <2> QED
    BY <2>2, <2>4, <2>5
<1>3. touched[s] \subseteq 1 .. Len(contexts[s]) /\ Len(contexts[s]) \in Nat
  BY <1>1, PipelineFacts
<1>4. \A i \in touched[s] : i # c /\ i # 0 /\ i <= c /\ cs[i] = contexts[s][i]
  <2> HIDE DEF cs
  <2> QED
    BY <1>2, <1>3
<1> HIDE DEF cs, c
<1>5. GoesOn(s, c, cs, c)
  BY <1>1, <1>2, <1>4 DEF GoesOn
<1> QED
  BY <1>1, <1>2, <1>5, GoesOnStep

LEMMA EndTransactionStep == ASSUME IInv, NEW s \in Sessions, EndTransaction(s) PROVE Handled(s)
<1>1. CASE Crash
  BY <1>1, CrashStep DEF EndTransaction, InPipeline, Is
<1>2. CASE ~Crash
  <2> DEFINE c == pipeline[s]
             phase == IF Statement(s) = "commit" THEN "Committed" ELSE "RolledBackByUser"
             x == [contexts[s][c] EXCEPT !.phase = phase]
             cs == [contexts[s] EXCEPT ![c] = x]
  <2>1. /\ InPipeline(s) /\ c # 0
        /\ contexts' = [contexts EXCEPT ![s][c].phase = phase]
        /\ pipeline' = [pipeline EXCEPT ![s] = 0]
        /\ touched' = [touched EXCEPT ![s] = @ \cup {c}] /\ at' = at /\ todo' = [todo EXCEPT ![s] = Tail(@)]
        /\ context' = context /\ UNCHANGED <<process, reply, left, protocol, prepared>>
    BY <1>2 DEF EndTransaction, Put, Advance
  <2>2. c \in 1 .. Len(contexts[s]) /\ contexts[s] \in Seq(Contexts)
    BY <2>1, PipelineFacts
  <2>3. contexts[s][c] \in Contexts
    BY <2>2
  <2>4. x \in Contexts /\ x.auto = contexts[s][c].auto /\ x.phase \in {"Committed", "RolledBackByUser"}
    <3>1. phase \in {"Committed", "RolledBackByUser"}
      OBVIOUS
    <3> HIDE DEF phase
    <3> QED
      BY <2>3, <3>1 DEF Contexts, Phases
  <2>5. contexts' = [contexts EXCEPT ![s] = cs]
    BY <2>1
  <2> HIDE DEF phase, x
  <2>6. /\ cs \in Seq(Contexts) /\ Len(cs) = Len(contexts[s]) /\ cs[c] = x
        /\ \A i \in 1 .. Len(contexts[s]) : i # c => cs[i] = contexts[s][i]
    BY <2>2, <2>4, ContextChange
  <2>7. touched[s] \subseteq 1 .. Len(contexts[s]) /\ Len(contexts[s]) \in Nat
    BY <2>1, PipelineFacts
  <2> HIDE DEF cs
  <2>8. /\ \A i \in 1 .. Len(contexts[s]) : cs[i].auto = contexts[s][i].auto
        /\ \A i \in touched[s] : i # c => cs[i] = contexts[s][i] /\ i # pipeline[s]
    BY <2>2, <2>4, <2>6, <2>7
  <2>9. Len(cs) >= Len(contexts[s]) /\ c \in 1 .. Len(cs)
    BY <2>2, <2>6, <2>7
  <2>10. cs[c].phase \in {"Committed", "RolledBackByUser"}
    BY <2>4, <2>6
  <2> HIDE DEF c
  <2>11. GoesOn(s, 0, cs, c)
    BY <2>1, <2>5, <2>8, <2>9, <2>10 DEF GoesOn
  <2> QED
    BY <2>1, <2>6, <2>11, GoesOnStep
<1> QED
  BY <1>1, <1>2

\* The pipeline ends with an answer that reports a conflict.
LEMMA FailStep ==
  ASSUME IInv, NEW s \in Sessions, InPipeline(s), FailPipeline(s), todo' = todo,
         NEW cs \in Seq(Contexts), contexts' = [contexts EXCEPT ![s] = cs], Len(cs) >= Len(contexts[s]),
         NEW T \in SUBSET (1 .. Len(cs)), touched' = [touched EXCEPT ![s] = T],
         NEW c \in 1 .. Len(cs), cs[c].phase = "RolledBackAfterConflict", \A d \in T : d <= c,
         UNCHANGED <<process, protocol, left, prepared>>
  PROVE  Handled(s)
<1>1. /\ at' = [at EXCEPT ![s] = "ready"] /\ reply' \in [Sessions -> Replies]
      /\ reply'[s].to = reply[s].to /\ reply'[s].ready = TRUE
      /\ reply'[s].error = TRUE /\ reply'[s].conflict = TRUE
      /\ \A q \in Sessions \ {s} : reply'[q] = reply[q]
  BY Answers DEF IInv, FailPipeline
<1>2. context' = [context EXCEPT ![s] = 0] /\ pipeline' = [pipeline EXCEPT ![s] = 0]
  BY DEF FailPipeline, Put
<1>3. Types /\ T \in SUBSET Nat /\ Len(cs) \in Nat /\ left' = left
  BY DEF IInv
<1>4. /\ at'[s] = "ready" /\ context'[s] = 0 /\ pipeline'[s] = 0 /\ contexts'[s] = cs /\ touched'[s] = T
      /\ todo'[s] = todo[s] /\ reply'[s].to = "query"
  BY <1>1, <1>2, <1>3, PipelineFacts DEF Types
<1>5. Kind(s)' /\ Arguments(s)'
  BY <1>4, PipelineFacts DEF Kind, Arguments
<1>6. References(s)'
  BY <1>3, <1>4, PipelineFacts DEF References
<1>7. Course(s)'
  BY <1>4 DEF Course
<1>8. Truthful(s)'
  <2>1. c \in T \cup DOMAIN cs /\ c # 0
    BY <1>3
  <2>2. PhaseOf(s, c)' = "RolledBackAfterConflict"
    BY <1>4, <2>1 DEF PhaseOf
  <2> QED
    BY <1>1, <1>4, <2>1, <2>2 DEF Truthful, Answered
<1>9. Sound(s)' /\ SharedTypes'
  BY <1>5, <1>6, <1>7, <1>8, PipelineFacts DEF Sound, SharedTypes, protocol
<1> QED
  BY <1>1, <1>2, <1>3, <1>9, PipelineFacts, TransactionStep

LEMMA RefuseStep == ASSUME IInv, NEW s \in Sessions, Refuse(s) PROVE Handled(s)
<1>1. /\ InPipeline(s) /\ Conflicted(s) /\ FailPipeline(s)
      /\ UNCHANGED <<process, todo, contexts, touched, protocol, left, prepared>>
  BY DEF Refuse
<1>2. pipeline[s] # 0 /\ contexts[s][pipeline[s]].phase = "RolledBackAfterConflict"
  BY <1>1 DEF Conflicted, PhaseOf
<1>3. /\ contexts[s] \in Seq(Contexts) /\ touched[s] \in SUBSET (1 .. Len(contexts[s]))
      /\ pipeline[s] \in 1 .. Len(contexts[s]) /\ \A d \in touched[s] : d <= pipeline[s]
      /\ Len(contexts[s]) >= Len(contexts[s])
      /\ contexts' = [contexts EXCEPT ![s] = contexts[s]] /\ touched' = [touched EXCEPT ![s] = touched[s]]
  BY <1>1, <1>2, PipelineFacts
<1> QED
  BY <1>1, <1>2, <1>3, FailStep

LEMMA ExecuteStatementStep == ASSUME IInv, NEW s \in Sessions, ExecuteStatement(s) PROVE Handled(s)
<1> DEFINE c == Current(s, pipeline[s])
           before == WithContext(s, pipeline[s], TRUE)
           outcomes == Outcomes(before[c], Statement(s), FALSE)
<1>1. InPipeline(s) /\ Statement(s) \in PlanKinds /\ ~Conflicted(s)
  BY DEF ExecuteStatement
<1>2. CASE Crash
  BY <1>1, <1>2, CrashStep DEF InPipeline, Is
<1>3. CASE ~Crash
  <2>1. PICK o \in outcomes :
          /\ contexts' = [contexts EXCEPT ![s] = [before EXCEPT ![c] = Finished(o)]]
          /\ touched' = [touched EXCEPT ![s] = @ \cup {c}]
          /\ IF o.phase = "RolledBackAfterConflict"
             THEN FailPipeline(s) /\ UNCHANGED todo
             ELSE Advance(s) /\ UNCHANGED <<pipeline, context, reply>>
          /\ UNCHANGED <<process, protocol, left, prepared>>
    BY <1>3 DEF ExecuteStatement, Put
  <2> DEFINE cs == [before EXCEPT ![c] = Finished(o)]
  <2>2. /\ before \in Seq(Contexts) /\ c \in 1 .. Len(before) /\ Len(before) >= Len(contexts[s])
        /\ \A i \in 1 .. Len(contexts[s]) : before[i] = contexts[s][i]
        /\ pipeline[s] # 0 => c = pipeline[s] /\ Len(before) = Len(contexts[s])
        /\ pipeline[s] = 0 => c = Len(contexts[s]) + 1 /\ before[c] = NewContext(TRUE)
    BY <1>1, PipelineFacts, CurrentContext
  <2> HIDE DEF before, c
  <2>3. /\ touched[s] \subseteq 1 .. Len(contexts[s]) /\ Len(contexts[s]) \in Nat /\ pipeline[s] \in 0 .. Len(contexts[s])
        /\ pipeline[s] # 0 => ~contexts[s][pipeline[s]].auto /\ (\A i \in touched[s] : i <= pipeline[s])
    BY <1>1, PipelineFacts
  <2>4. before[c] \in Contexts
    BY <2>2
  <2>5. /\ o \in Contexts /\ o.auto = before[c].auto /\ o.phase \in {"Active", "RolledBackAfterConflict"}
    <3>1. PICK executed \in BOOLEAN : executed = FALSE
      OBVIOUS
    <3>2. o \in Outcomes(before[c], Statement(s), executed)
      BY <3>1, Zenon
    <3> QED
      BY <1>1, <2>4, <3>2, OutcomeForm
  <2>6. /\ Finished(o) \in Contexts /\ Finished(o).auto = before[c].auto
        /\ Finished(o).phase = IF o.auto /\ o.phase = "Active" THEN "Committed" ELSE o.phase
    BY <2>5, FinishedForm
  <2>7. /\ cs \in Seq(Contexts) /\ Len(cs) = Len(before) /\ cs[c] = Finished(o)
        /\ \A i \in 1 .. Len(before) : i # c => cs[i] = before[i]
    BY <2>2, <2>6, ContextChange
  <2>8. contexts' = [contexts EXCEPT ![s] = cs]
    BY <2>1
  <2> HIDE DEF cs
  <2>9. c \in 1 .. Len(cs) /\ Len(cs) >= Len(contexts[s]) /\ \A i \in touched[s] : i <= c /\ i \in 1 .. Len(contexts[s])
    <3>1. c \in 1 .. Len(cs) /\ Len(cs) >= Len(contexts[s])
      BY <2>2, <2>7
    <3>2. CASE pipeline[s] = 0
      BY <2>2, <2>3, <3>1, <3>2
    <3>3. CASE pipeline[s] # 0
      BY <2>2, <2>3, <3>1, <3>3
    <3> QED
      BY <3>2, <3>3
  <2>10. CASE o.phase = "RolledBackAfterConflict"
    <3>1. touched[s] \cup {c} \in SUBSET (1 .. Len(cs)) /\ \A d \in touched[s] \cup {c} : d <= c
      BY <2>2, <2>3, <2>9
    <3>2. cs[c].phase = "RolledBackAfterConflict"
      BY <2>6, <2>7, <2>10
    <3>3. touched' = [touched EXCEPT ![s] = touched[s] \cup {c}] /\ FailPipeline(s) /\ todo' = todo
          /\ UNCHANGED <<process, protocol, left, prepared>>
      BY <2>1, <2>10
    <3> QED
      BY <1>1, <2>7, <2>8, <2>9, <3>1, <3>2, <3>3, FailStep
  <2>11. CASE o.phase # "RolledBackAfterConflict"
    <3>1. /\ at' = at /\ todo' = [todo EXCEPT ![s] = Tail(@)] /\ context' = context
          /\ pipeline' = [pipeline EXCEPT ![s] = pipeline[s]]
          /\ UNCHANGED <<process, reply, left, protocol, prepared>>
      BY <1>1, <2>1, <2>11, PipelineFacts DEF Advance, Put
    <3>2. cs[c].auto = before[c].auto
      BY <2>6, <2>7
    <3>3. \A i \in 1 .. Len(contexts[s]) : cs[i].auto = contexts[s][i].auto
      BY <2>2, <2>7, <3>2
    <3>4. \A i \in touched[s] : i # c => cs[i] = contexts[s][i] /\ i # pipeline[s]
      BY <2>2, <2>3, <2>7, <2>9
    <3>5. cs[c].phase \in {"Committed", "RolledBackByUser"} \/ c = pipeline[s]
      <4>1. CASE pipeline[s] = 0
        <5>1. o.auto
          BY <2>2, <2>5, <4>1 DEF NewContext
        <5> QED
          BY <2>5, <2>6, <2>7, <2>11, <5>1
      <4> QED
        BY <2>2, <4>1
    <3>6. pipeline[s] \in {0, c} /\ (pipeline[s] # 0 => ~cs[pipeline[s]].auto)
      BY <2>2, <2>3, <3>3
    <3>7. pipeline[s] # 0 => \A i \in touched[s] : i <= c
      BY <2>9
    <3>8. GoesOn(s, pipeline[s], cs, c)
      BY <2>1, <2>8, <2>9, <3>1, <3>3, <3>4, <3>5, <3>6, <3>7 DEF GoesOn
    <3> QED
      BY <1>1, <2>7, <3>8, GoesOnStep
  <2> QED
    BY <2>10, <2>11
<1> QED
  BY <1>2, <1>3

LEMMA FinishPipelineStep == ASSUME IInv, NEW s \in Sessions, FinishPipeline(s) PROVE Handled(s)
<1>1. /\ at[s] = "pipeline" /\ Answer(s, TRUE, FALSE, FALSE) /\ todo' = todo
      /\ context' = [context EXCEPT ![s] = pipeline[s]] /\ pipeline' = [pipeline EXCEPT ![s] = 0]
      /\ UNCHANGED <<contexts, touched, left>> /\ UNCHANGED <<process, protocol, prepared>>
  BY DEF FinishPipeline, Is, Put
<1>2. /\ at' = [at EXCEPT ![s] = "ready"] /\ reply' \in [Sessions -> Replies]
      /\ reply'[s].to = reply[s].to /\ reply'[s].ready = TRUE
      /\ reply'[s].error = FALSE /\ reply'[s].conflict = FALSE
      /\ \A q \in Sessions \ {s} : reply'[q] = reply[q]
  BY <1>1, Answers DEF IInv
<1>3. Types /\ Sound(s)
  BY DEF IInv
<1>4. /\ at'[s] = "ready" /\ context'[s] = pipeline[s] /\ pipeline'[s] = 0 /\ pipeline[s] \in Nat
      /\ reply[s].to = "query" /\ contexts[s] \in Seq(Contexts) /\ touched[s] \in SUBSET Nat
      /\ contexts = [contexts EXCEPT ![s] = contexts[s]] /\ touched = [touched EXCEPT ![s] = touched[s]]
  BY <1>1, <1>2, <1>3 DEF Types, Sound, Kind
<1>5. Kind(s)' /\ Arguments(s)' /\ References(s)'
  BY <1>1, <1>2, <1>3, <1>4 DEF Sound, Kind, Arguments, References
<1>6. Course(s)'
  BY <1>2, <1>4 DEF Course
<1>7. \A c \in touched[s] : Decided(s, c)' \/ c = pipeline[s]
  BY <1>1, <1>3 DEF Sound, Course, Decided, PhaseOf
<1>8. Truthful(s)'
  BY <1>1, <1>2, <1>4, <1>7 DEF Truthful, Answered
<1>9. Sound(s)' /\ SharedTypes'
  BY <1>1, <1>3, <1>5, <1>6, <1>8 DEF Sound, SharedTypes, protocol, Types
<1> QED
  BY <1>1, <1>2, <1>4, <1>9, TransactionStep

LEMMA HandleExecuteStep == ASSUME IInv, NEW s \in Sessions, HandleExecute(s) PROVE Handled(s)
<1> DEFINE portal == todo[s][1]
           plan == portals[s][portal]
           c == Current(s, context[s])
           before == WithContext(s, context[s], FALSE)
           outcomes == Outcomes(before[c], plan.kind, plan.executed)
<1>1. Types /\ Sound(s) /\ at[s] = "execute" /\ reply[s].to = "execute" /\ portal \in PortalNames
  BY DEF IInv, HandleExecute, Is, Sound, Kind, Arguments
<1>2. CASE portal \notin DOMAIN portals[s]
  <2>1. Raise(s) /\ UNCHANGED <<process, todo, work, portals, left, prepared>>
    BY <1>2 DEF HandleExecute
  <2>2. SharedTypes'
    BY <1>1, <2>1 DEF Types, SharedTypes, Raise, Put
  <2> QED
    BY <1>1, <2>1, <2>2, AnswerStep DEF Raise
<1>3. CASE portal \in DOMAIN portals[s] /\ plan.kind = Nil
  <2>1. /\ portals' = WithoutPortal(s, portal) /\ Answer(s, FALSE, FALSE, FALSE)
        /\ UNCHANGED <<process, todo, work, syncSendAfterError, left, prepared>>
    BY <1>3 DEF HandleExecute
  <2>2. SharedTypes'
    BY <1>1, <2>1, PortalChanges DEF Types, SharedTypes
  <2> QED
    BY <1>1, <2>1, <2>2, AnswerStep
<1>4. CASE portal \in DOMAIN portals[s] /\ plan.kind # Nil /\ Crash
  BY <1>1, <1>4, CrashStep
<1>5. CASE portal \in DOMAIN portals[s] /\ plan.kind # Nil /\ ~Crash
  <2>1. PICK o \in outcomes :
          /\ contexts' = [contexts EXCEPT ![s] = [before EXCEPT ![c] = o]]
          /\ touched' = [touched EXCEPT ![s] = @ \cup {c}]
          /\ context' = [context EXCEPT ![s] = c]
          /\ portals' = IF portal = Unnamed THEN WithoutPortal(s, portal)
                        ELSE [portals EXCEPT ![s][portal].executed = TRUE]
          /\ Answer(s, FALSE, FALSE, FALSE)
          /\ UNCHANGED <<process, todo, pipeline, syncSendAfterError, left, prepared>>
    BY <1>5 DEF HandleExecute, Put
  <2> DEFINE cs == [before EXCEPT ![c] = o]
  <2>2. plan.kind \in PlanKinds /\ plan.executed \in BOOLEAN
    BY <1>1, <1>5, PortalChanges DEF Portals
  <2>3. /\ contexts[s] \in Seq(Contexts) /\ context[s] \in 0 .. Len(contexts[s]) /\ Len(contexts[s]) \in Nat
        /\ pipeline[s] \in 0 .. Len(contexts[s]) /\ touched[s] \subseteq {context[s]} /\ touched[s] \subseteq 1 .. Len(contexts[s])
    <3>1. contexts[s] \in Seq(Contexts) /\ context[s] \in Nat /\ pipeline[s] \in Nat
      BY <1>1 DEF Types
    <3> QED
      BY <1>1, <3>1 DEF Sound, References, Course
  <2>4. /\ before \in Seq(Contexts) /\ c \in 1 .. Len(before) /\ Len(before) >= Len(contexts[s])
        /\ \A i \in 1 .. Len(contexts[s]) : before[i] = contexts[s][i]
        /\ context[s] # 0 => c = context[s] /\ Len(before) = Len(contexts[s])
        /\ context[s] = 0 => c = Len(contexts[s]) + 1 /\ before[c] = NewContext(FALSE)
    BY <2>3, CurrentContext
  <2> HIDE DEF before, c
  <2>5. before[c] \in Contexts
    BY <2>4
  <2>6. o \in Contexts /\ o.auto = before[c].auto
    BY <2>2, <2>5, OutcomeForm
  <2>7. /\ cs \in Seq(Contexts) /\ Len(cs) = Len(before) /\ cs[c] = o
        /\ \A i \in 1 .. Len(before) : i # c => cs[i] = before[i]
    BY <2>4, <2>6, ContextChange
  <2>8. contexts' = [contexts EXCEPT ![s] = cs]
    BY <2>1
  <2> HIDE DEF cs
  <2>9. /\ at' = [at EXCEPT ![s] = "ready"] /\ reply' \in [Sessions -> Replies]
        /\ reply'[s].to = reply[s].to /\ reply'[s].ready = FALSE
        /\ \A q \in Sessions \ {s} : reply'[q] = reply[q]
    BY <1>1, <2>1, Answers
  <2>10. /\ at'[s] = "ready" /\ todo'[s] = todo[s] /\ context'[s] = c /\ pipeline'[s] = pipeline[s] /\ contexts'[s] = cs
         /\ touched'[s] = touched[s] \cup {c} /\ left' = left
    BY <1>1, <2>1, <2>8, <2>9 DEF Types
  <2>11. Kind(s)' /\ Arguments(s)'
    BY <1>1, <2>9, <2>10 DEF Sound, Kind, Arguments
  <2>12. Len(cs) \in Nat /\ touched[s] \cup {c} \subseteq {c} /\ touched[s] \cup {c} \subseteq 1 .. Len(cs)
         /\ pipeline[s] <= Len(cs) /\ c <= Len(cs) /\ c \in Nat
    BY <2>3, <2>4, <2>7
  <2>13. ~cs[c].auto
    <3>1. CASE context[s] = 0
      BY <2>4, <2>6, <2>7, <3>1 DEF NewContext
    <3>2. CASE context[s] # 0
      <4>1. ~contexts[s][context[s]].auto /\ context[s] \in 1 .. Len(contexts[s])
        BY <1>1, <2>3, <3>2 DEF Sound, References
      <4> QED
        BY <2>4, <2>6, <2>7, <3>2, <4>1
    <3> QED
      BY <3>1, <3>2
  <2>14. ASSUME pipeline[s] # 0 PROVE ~cs[pipeline[s]].auto
    <3>1. ~contexts[s][pipeline[s]].auto /\ pipeline[s] \in 1 .. Len(contexts[s])
      BY <1>1, <2>3, <2>14 DEF Sound, References
    <3> QED
      BY <2>4, <2>7, <2>13, <3>1
  <2>15. References(s)'
    BY <1>1, <2>7, <2>10, <2>12, <2>13, <2>14 DEF Sound, References
  <2>16. Course(s)' /\ Truthful(s)'
    BY <1>1, <2>9, <2>10, <2>12 DEF Course, Truthful, Answered
  <2>17. SharedTypes'
    BY <1>1, <1>5, <2>1, PortalChanges DEF Types, SharedTypes
  <2>18. Sound(s)' /\ touched' = [touched EXCEPT ![s] = touched[s] \cup {c}] /\ touched[s] \cup {c} \in SUBSET Nat
    BY <2>1, <2>11, <2>12, <2>15, <2>16 DEF Sound
  <2>19. pipeline' = [pipeline EXCEPT ![s] = pipeline[s]] /\ pipeline[s] \in Nat /\ todo' = todo
         /\ context' = [context EXCEPT ![s] = c] /\ UNCHANGED <<process, left>>
    BY <1>1, <2>1 DEF Types
  <2> QED
    BY <1>1, <2>7, <2>8, <2>9, <2>12, <2>17, <2>18, <2>19, TransactionStep
<1> QED
  BY <1>2, <1>3, <1>4, <1>5

LEMMA SyncStep == ASSUME IInv, NEW s \in Sessions, Sync(s) PROVE Handled(s)
<1>1. Types /\ Sound(s) /\ at[s] = "sync" /\ reply[s].to = "sync" /\ UNCHANGED <<process, todo, pipeline, touched, portals, left, prepared>>
  BY DEF IInv, Sync, Is, Sound, Kind
<1>2. CASE PhaseOf(s, context[s]) \notin {"none", "Active"}
  <2>1. Raise(s) /\ UNCHANGED <<contexts, context>>
    BY <1>2 DEF Sync
  <2>2. SharedTypes' /\ UNCHANGED work
    BY <1>1, <2>1 DEF Types, SharedTypes, Raise, Put, work
  <2> QED
    BY <1>1, <2>1, <2>2, AnswerStep DEF Raise
<1>3. CASE PhaseOf(s, context[s]) \in {"none", "Active"}
  <2> DEFINE c == context[s]
             x == [contexts[s][c] EXCEPT !.phase = "Committed"]
             cs == IF c = 0 THEN contexts[s] ELSE [contexts[s] EXCEPT ![c] = x]
  <2>1. /\ contexts' = IF c = 0 THEN contexts ELSE [contexts EXCEPT ![s][c].phase = "Committed"]
        /\ context' = [context EXCEPT ![s] = 0] /\ Answer(s, TRUE, FALSE, FALSE) /\ UNCHANGED syncSendAfterError
    BY <1>3 DEF Sync, Put
  <2>2. contexts[s] \in Seq(Contexts) /\ c \in 0 .. Len(contexts[s]) /\ Len(contexts[s]) \in Nat
        /\ pipeline[s] \in 0 .. Len(contexts[s]) /\ touched[s] \subseteq {c} /\ touched[s] \subseteq 1 .. Len(contexts[s])
    <3>1. contexts[s] \in Seq(Contexts) /\ c \in Nat /\ pipeline[s] \in Nat
      BY <1>1 DEF Types
    <3> QED
      BY <1>1, <3>1 DEF Sound, References, Course
  <2>3. contexts' = [contexts EXCEPT ![s] = cs]
    BY <1>1, <2>1 DEF Types
  <2>4. ASSUME c # 0 PROVE x \in Contexts /\ x.phase = "Committed" /\ x.auto = contexts[s][c].auto
    <3>1. contexts[s][c] \in Contexts
      BY <2>2, <2>4
    <3> QED
      BY <3>1 DEF Contexts, Phases
  <2> HIDE DEF x
  <2>5. /\ cs \in Seq(Contexts) /\ Len(cs) = Len(contexts[s])
        /\ c # 0 => cs[c] = x
        /\ \A i \in 1 .. Len(contexts[s]) : cs[i].auto = contexts[s][i].auto
    <3>1. CASE c = 0
      BY <2>2, <3>1
    <3>2. CASE c # 0
      <4> DEFINE ds == [contexts[s] EXCEPT ![c] = x]
      <4>1. c \in 1 .. Len(contexts[s]) /\ cs = ds
        BY <2>2, <3>2
      <4>2. /\ ds \in Seq(Contexts) /\ Len(ds) = Len(contexts[s]) /\ ds[c] = x
            /\ \A i \in 1 .. Len(contexts[s]) : i # c => ds[i] = contexts[s][i]
        BY <2>2, <2>4, <3>2, <4>1, ContextChange
      <4> HIDE DEF ds, cs
      <4> QED
        BY <2>4, <3>2, <4>1, <4>2
    <3> QED
      BY <3>1, <3>2
  <2> HIDE DEF cs
  <2>6. /\ at' = [at EXCEPT ![s] = "ready"] /\ reply' \in [Sessions -> Replies]
        /\ reply'[s].to = reply[s].to /\ reply'[s].ready = TRUE
        /\ reply'[s].error = FALSE /\ reply'[s].conflict = FALSE
        /\ \A q \in Sessions \ {s} : reply'[q] = reply[q]
    BY <1>1, <2>1, Answers
  <2>7. at'[s] = "ready" /\ context'[s] = 0 /\ contexts'[s] = cs
    BY <1>1, <2>1, <2>3, <2>6 DEF Types
  <2>8. Kind(s)' /\ Arguments(s)'
    BY <1>1, <2>6, <2>7 DEF Sound, Kind, Arguments
  <2>9. References(s)'
    <3>1. pipeline[s] # 0 => pipeline[s] \in 1 .. Len(contexts[s])
      BY <2>2
    <3> QED
      BY <1>1, <2>2, <2>5, <2>7, <3>1 DEF Sound, References
  <2>10. Course(s)'
    BY <1>1, <2>6, <2>7 DEF Course
  <2>11. \A i \in touched[s] : PhaseOf(s, i)' = "Committed"
    <3> SUFFICES ASSUME NEW i \in touched[s] PROVE PhaseOf(s, i)' = "Committed"
      OBVIOUS
    <3>1. i = c /\ c # 0
      BY <2>2
    <3> HIDE DEF c
    <3> QED
      BY <2>4, <2>5, <2>7, <3>1 DEF PhaseOf
  <2>12. Truthful(s)'
    BY <1>1, <2>6, <2>7, <2>11 DEF Truthful, Answered
  <2>13. Sound(s)' /\ SharedTypes'
    BY <1>1, <2>1, <2>8, <2>9, <2>10, <2>12 DEF Sound, SharedTypes, Types
  <2>14. pipeline' = [pipeline EXCEPT ![s] = pipeline[s]] /\ pipeline[s] \in Nat /\ todo' = todo
         /\ touched' = [touched EXCEPT ![s] = touched[s]] /\ touched[s] \in SUBSET Nat
    BY <1>1 DEF Types
  <2> QED
    BY <1>1, <2>1, <2>3, <2>5, <2>6, <2>13, <2>14, TransactionStep
<1> QED
  BY <1>2, <1>3

----------------------------------------------------------------------------
(* Invariance.                                                             *)

LEMMA CountedIsFinite == IsFiniteSet(Counted) /\ Cardinality(Counted) \in 0 .. Cardinality(Sessions)
<1>1. Counted \subseteq Sessions
  BY DEF Counted
<1> QED
  BY <1>1, SessionAssumption, FS_Subset, FS_CardinalityType

\* A handler preserves the invariant.
LEMMA HandledStep == ASSUME IInv, NEW s \in Sessions, Handled(s) PROVE IInv'
<1>1. \A q \in Sessions : Sound(q)'
  BY OthersSound DEF IInv, Handled
<1>2. ASSUME NEW q \in Sessions
      PROVE  /\ at'[q] \in {"closed", "accepted", "gone"} <=> at[q] \in {"closed", "accepted", "gone"}
             /\ at'[q] \in {"closed", "accepted"} <=> at[q] \in {"closed", "accepted"}
             /\ at[q] = "gone" => at'[q] = "gone"
  BY DEF Handled, Own
<1>3. Counted' = Counted
  BY <1>2 DEF Counted
<1>4. Counts'
  BY <1>2, <1>3 DEF IInv, Counts, CountedSessionsFinish, Handled
<1> QED
  BY <1>1, <1>4 DEF IInv, Handled

\* A session that is only counted, uncounted or accepted stays sound.
LEMMA PlaceStep ==
  ASSUME IInv, NEW s \in Sessions, NEW where \in {"accepted", "startup", "gone"}, Goto(s, where),
         where # "gone" => at[s] \in {"closed", "accepted"},
         UNCHANGED <<todo, work, protocol, reply, left, prepared>>, server' = server
  PROVE  Types' /\ (\A q \in Sessions : Sound(q)') /\ at' = [at EXCEPT ![s] = where]
<1>1. Types /\ at' = [at EXCEPT ![s] = where] /\ at'[s] = where
  BY DEF IInv, Goto, Types
<1>2. Types'
  BY <1>1 DEF Types, Locations, work, protocol
<1>3. Sound(s)'
  <2>1. Sound(s) /\ UNCHANGED <<todo, pipeline, context, contexts, touched, reply, left>>
    BY DEF IInv, work
  <2>2. Kind(s)' /\ Arguments(s)'
    BY <1>1, <2>1 DEF Sound, Kind, Arguments
  <2>3. References(s)'
    BY <2>1 DEF Sound, References
  <2>4. Course(s)' /\ Truthful(s)'
    BY <1>1, <2>1 DEF Sound, Course, Truthful, Answered
  <2> QED
    BY <2>2, <2>3, <2>4 DEF Sound
<1>4. ASSUME NEW q \in Sessions \ {s} PROVE Sound(q)'
  <2>1. UNCHANGED Own(q)
    BY <1>1 DEF Own, work, Types
  <2> QED
    BY <2>1, OthersSound DEF IInv
<1> QED
  BY <1>1, <1>2, <1>3, <1>4

\* The server's thread of a session begins: nobody counts it yet.
LEMMA AcceptStep == ASSUME IInv, NEW s \in Sessions, Accept(s) PROVE IInv'
<1>1. Types' /\ (\A q \in Sessions : Sound(q)') /\ at' = [at EXCEPT ![s] = "accepted"] /\ at[s] = "closed"
      /\ UNCHANGED <<server, running, early>>
  BY PlaceStep DEF Accept, process
<1>2. Types
  BY DEF IInv
<1>3. Counted' = Counted
  BY <1>1, <1>2 DEF Counted, Types
<1>4. Counts'
  BY <1>1, <1>2, <1>3 DEF IInv, Counts, CountedSessionsFinish, Types
<1> QED
  BY <1>1, <1>4 DEF IInv

LEMMA CountStep == ASSUME IInv, NEW s \in Sessions, Count(s) PROVE IInv'
<1>1. Types' /\ (\A q \in Sessions : Sound(q)') /\ at' = [at EXCEPT ![s] = "startup"] /\ at[s] = "accepted"
      /\ UNCHANGED <<server, early>> /\ running' = running + 1
  BY PlaceStep DEF Count, Is
<1>2. Types /\ Counts
  BY DEF IInv
<1>3. Counted' = Counted \cup {s} /\ s \notin Counted
  BY <1>1, <1>2 DEF Counted, Types
<1>4. running' = Cardinality(Counted')
  BY <1>1, <1>2, <1>3, CountedIsFinite, FS_AddElement DEF Counts
<1>5. Counts'
  BY <1>1, <1>2, <1>4 DEF Counts, CountedSessionsFinish, Types
<1> QED
  BY <1>1, <1>5 DEF IInv

LEMMA UncountStep == ASSUME IInv, NEW s \in Sessions, Uncount(s) PROVE IInv'
<1>1. Types' /\ (\A q \in Sessions : Sound(q)') /\ at' = [at EXCEPT ![s] = "gone"] /\ at[s] = "destroyed"
      /\ UNCHANGED <<server, early>> /\ running' = running - 1
  BY PlaceStep DEF Uncount, Is
<1>2. Types /\ Counts
  BY DEF IInv
<1>3. Counted' = Counted \ {s} /\ s \in Counted
  BY <1>1, <1>2 DEF Counted, Types
<1>4. running' = Cardinality(Counted')
  BY <1>1, <1>2, <1>3, CountedIsFinite, FS_RemoveElement DEF Counts
<1>5. Counts'
  BY <1>1, <1>2, <1>4 DEF Counts, CountedSessionsFinish, Types
<1> QED
  BY <1>1, <1>5 DEF IInv

\* shutdown() remembers nobody; it stops the server once it has seen a count of zero,
\* and then every session that it should have waited for is gone.
LEMMA ServerStep == ASSUME IInv, Shutdown \/ Stop PROVE IInv'
<1>1. Types /\ Counts /\ UNCHANGED <<running, at, todo, work, protocol, reply, left, prepared>>
  BY DEF IInv, Shutdown, Stop
<1>2. \A q \in Sessions : Sound(q)'
  <2>1. \A q \in Sessions : UNCHANGED Own(q)
    BY <1>1 DEF Own, work
  <2> QED
    BY <2>1, OthersSound DEF IInv
<1>3. Types' /\ Counted' = Counted
  BY <1>1 DEF Types, Counted, work, protocol, Shutdown, Stop
<1>4. CASE Shutdown
  <2>1. Counts'
    BY <1>1, <1>3, <1>4 DEF Counts, CountedSessionsFinish, Shutdown
  <2> QED
    BY <1>2, <1>3, <2>1 DEF IInv
<1>5. CASE Stop
  <2>1. Counted = {} /\ early' = early
    BY <1>1, <1>5, CountedIsFinite, FS_EmptySet DEF Counts, Stop
  <2>2. \A q \in early : at[q] = "gone"
    BY <1>1, <2>1 DEF Counts, Counted
  <2> QED
    BY <1>1, <1>2, <1>3, <2>1, <2>2 DEF IInv, Counts, CountedSessionsFinish
<1> QED
  BY <1>4, <1>5

LEMMA InitStep == Init => IInv
<1> SUFFICES ASSUME Init PROVE IInv
  OBVIOUS
<1>1. Types
  <2>1. << >> \in [{} -> Portals]
    OBVIOUS
  <2>2. << >> \in UNION {[D -> Portals] : D \in SUBSET PortalNames}
    BY <2>1
  <2>3. [to |-> "none", ready |-> TRUE, error |-> FALSE, conflict |-> FALSE] \in Replies
    BY DEF Replies
  <2>4. left \in [Sessions -> Nat]
    BY SessionAssumption DEF Init
  <2>5. contexts \in [Sessions -> Seq(Contexts)]
    BY DEF Init
  <2> QED
    BY <2>2, <2>3, <2>4, <2>5 DEF Init, Types, Locations
<1>2. Counts
  <2>1. Counted = {}
    BY DEF Init, Counted
  <2> QED
    BY <2>1, FS_EmptySet DEF Init, Counts, CountedSessionsFinish
<1>3. ASSUME NEW s \in Sessions PROVE Sound(s)
  <2>1. /\ at[s] = "closed" /\ todo[s] = <<>> /\ pipeline[s] = 0 /\ context[s] = 0 /\ contexts[s] = <<>>
        /\ touched[s] = {} /\ left[s] = MaxMessages[s] /\ left[s] \in Nat /\ reply[s].to = "none"
    BY SessionAssumption DEF Init
  <2> QED
    BY <2>1 DEF Sound, Kind, Arguments, References, Course, Truthful, Answered
<1> QED
  BY <1>1, <1>2, <1>3 DEF IInv

\* IInv holds in every reachable state.
THEOREM Invariance == Spec => []IInv
<1>1. ASSUME IInv, [Next]_vars PROVE IInv'
  <2>1. CASE UNCHANGED vars
    <3>1. Types' /\ Counts'
      BY <2>1, <1>1 DEF vars, IInv, Types, Counts, CountedSessionsFinish, Counted
    <3>2. \A q \in Sessions : UNCHANGED Own(q)
      BY <2>1 DEF vars, Own
    <3> QED
      BY <1>1, <3>1, <3>2, OthersSound DEF IInv
  <2>2. CASE Shutdown \/ Stop
    BY <1>1, <2>2, ServerStep
  <2>3. ASSUME NEW s \in Sessions, Accept(s) PROVE IInv'
    BY <1>1, <2>3, AcceptStep
  <2>4. ASSUME NEW s \in Sessions, Run(s) PROVE IInv'
    <3>1. CASE Count(s)
      BY <1>1, <3>1, CountStep
    <3>2. CASE Uncount(s)
      BY <1>1, <3>2, UncountStep
    <3>3. CASE EstablishConnection(s) \/ Throw(s) \/ IgnoreSync(s) \/ Terminate(s)
      BY <1>1, <3>3, PlainSteps, HandledStep
    <3>4. CASE Receive(s) \/ HandleSimpleQuery(s) \/ SetupPreparedPlan(s)
      BY <1>1, <3>4, ReceiveStep, HandleSimpleQueryStep, SetupPreparedPlanStep, HandledStep
    <3>8. CASE DropPreparedPlan(s) \/ ErasePreparedPlan(s) \/ AddPreparedPlan(s) \/ StorePreparedPlan(s)
      BY <1>1, <3>8, DropPreparedPlanStep, ErasePreparedPlanStep, AddPreparedPlanStep, StorePreparedPlanStep,
         HandledStep
    <3>5. CASE HandleBindCommand(s) \/ GetPreparedPlan(s)
      BY <1>1, <3>5, HandleBindCommandStep, GetPreparedPlanStep, HandledStep
    <3>6. CASE Refuse(s) \/ Begin(s) \/ EndTransaction(s) \/ ExecuteStatement(s)
      BY <1>1, <3>6, RefuseStep, BeginStep, EndTransactionStep, ExecuteStatementStep, HandledStep
    <3>7. CASE FinishPipeline(s) \/ HandleExecute(s) \/ Sync(s)
      BY <1>1, <3>7, FinishPipelineStep, HandleExecuteStep, SyncStep, HandledStep
    <3> QED
      BY <2>4, <3>1, <3>2, <3>3, <3>4, <3>5, <3>6, <3>7, <3>8 DEF Run
  <2> QED
    BY <1>1, <2>1, <2>2, <2>3, <2>4 DEF Next
<1> QED
  BY <1>1, InitStep, PTL DEF Spec

----------------------------------------------------------------------------
(* The properties.                                                         *)

\* A client is told what has happened to its transactions: a query without an error has
\* committed, rolled back or kept open every transaction it ran in, one with a conflict
\* leaves none behind, and a Sync without an error has committed.
THEOREM ClientsKnow == Spec => []AnswersTruthful
<1>1. IInv => AnswersTruthful
  BY DEF IInv, Sound, Truthful, AnswersTruthful, QueryAnsweredTruthfully, SyncAnsweredTruthfully
<1> QED
  BY <1>1, Invariance, PTL

\* Types; no session carries an auto-commit transaction from one message to the next; and
\* when the server stops, the sessions that it had counted at shutdown() are gone.
THEOREM SessionsStayConsistent == Spec => []SessionsConsistent
<1>1. ASSUME IInv PROVE SessionsConsistent
  <2>1. ASSUME NEW s \in Sessions
        PROVE  /\ left[s] \in 0 .. MaxMessages[s]
               /\ contexts[s] \in Seq(Contexts)
               /\ touched[s] \subseteq DOMAIN contexts[s]
               /\ pipeline[s] \in 0 .. Len(contexts[s]) /\ context[s] \in 0 .. Len(contexts[s])
               /\ context[s] # 0 => ~contexts[s][context[s]].auto
    BY <1>1, SessionAssumption DEF IInv, Types, Sound, References
  <2>2. ASSUME NEW s \in Sessions
        PROVE  DOMAIN portals[s] \subseteq PortalNames /\ \A p \in DOMAIN portals[s] : portals[s][p] \in Portals
    <3>1. PICK D \in SUBSET PortalNames : portals[s] \in [D -> Portals]
      BY <1>1 DEF IInv, Types
    <3> QED
      BY <3>1
  <2>3. running \in 0 .. Cardinality(Sessions) /\ early \subseteq Sessions /\ CountedSessionsFinish
    BY <1>1, CountedIsFinite DEF IInv, Counts
  <2>4. NoAutoCommitKept
    BY <2>1 DEF NoAutoCommitKept
  <2>5. TypeOK
    BY <1>1, <2>1, <2>2, <2>3 DEF TypeOK, IInv, Types
  <2> QED
    BY <2>3, <2>4, <2>5 DEF SessionsConsistent
<1> QED
  BY <1>1, Invariance, PTL

\* All other steps keep the plans and bring nobody between check and assignment.
LEMMA PlansKept ==
  ASSUME IInv, NEW s \in Sessions, Accept(s) \/ Run(s),
         ~ErasePreparedPlan(s), ~AddPreparedPlan(s), ~StorePreparedPlan(s)
  PROVE  UNCHANGED prepared /\ at'[s] # "store"
<1>1. Types
  BY DEF IInv
<1>2. CASE Crash
  BY <1>1, <1>2 DEF Crash, Accept, Run, Count, EstablishConnection, Receive, HandleSimpleQuery, SetupPreparedPlan,
     DropPreparedPlan, HandleBindCommand, GetPreparedPlan, Refuse, Throw, Begin, EndTransaction, ExecuteStatement,
     FinishPipeline, HandleExecute, IgnoreSync, Sync, Terminate, Uncount, Is, InPipeline
<1>3. CASE ~Crash
  <2>1. CASE Accept(s) \/ Count(s) \/ EstablishConnection(s) \/ HandleSimpleQuery(s) \/ SetupPreparedPlan(s)
             \/ DropPreparedPlan(s) \/ HandleBindCommand(s) \/ GetPreparedPlan(s) \/ Terminate(s) \/ Uncount(s)
    BY <1>1, <1>3, <2>1 DEF Accept, Count, EstablishConnection, HandleSimpleQuery, SetupPreparedPlan,
       DropPreparedPlan, HandleBindCommand, GetPreparedPlan, Terminate, Uncount, Goto, Raise, Answer, Types
  <2>2. CASE Receive(s)
    BY <1>1, <2>2, MessageForm DEF Receive, Goto, Types
  <2>3. CASE Refuse(s) \/ Throw(s) \/ FinishPipeline(s) \/ IgnoreSync(s) \/ Sync(s)
    BY <1>1, <2>3 DEF Refuse, Throw, FinishPipeline, IgnoreSync, Sync, FailPipeline, Goto, Raise, Answer, Types
  <2>4. CASE Begin(s) \/ EndTransaction(s) \/ ExecuteStatement(s)
    BY <1>1, <1>3, <2>4 DEF Begin, EndTransaction, ExecuteStatement, FailPipeline, Advance, InPipeline, Is,
       Goto, Answer, Types
  <2>5. CASE HandleExecute(s)
    BY <1>1, <1>3, <2>5 DEF HandleExecute, Goto, Raise, Answer, Types
  <2> QED
    BY <2>1, <2>2, <2>3, <2>4, <2>5 DEF Run
<1> QED
  BY <1>2, <1>3

\* A step changes the place and the arguments of one session at most.
LEMMA OneMoves ==
  ASSUME IInv, NEW s \in Sessions, Accept(s) \/ Run(s), NEW q \in Sessions \ {s}
  PROVE  at'[q] = at[q] /\ todo'[q] = todo[q]
<1>1. Types
  BY DEF IInv
<1>2. CASE Accept(s) \/ Count(s) \/ Uncount(s)
  BY <1>1, <1>2 DEF Accept, Count, Uncount, Goto, Types
<1>3. CASE EstablishConnection(s) \/ Throw(s) \/ IgnoreSync(s) \/ Terminate(s)
  BY <1>3, PlainSteps DEF Handled, Own
<1>4. CASE Receive(s) \/ HandleSimpleQuery(s) \/ SetupPreparedPlan(s) \/ HandleBindCommand(s) \/ GetPreparedPlan(s)
  BY <1>4, ReceiveStep, HandleSimpleQueryStep, SetupPreparedPlanStep, HandleBindCommandStep, GetPreparedPlanStep
     DEF Handled, Own
<1>5. CASE DropPreparedPlan(s) \/ ErasePreparedPlan(s) \/ AddPreparedPlan(s) \/ StorePreparedPlan(s)
  BY <1>5, DropPreparedPlanStep, ErasePreparedPlanStep, AddPreparedPlanStep, StorePreparedPlanStep DEF Handled, Own
<1>6. CASE Refuse(s) \/ Begin(s) \/ EndTransaction(s) \/ ExecuteStatement(s)
  BY <1>6, RefuseStep, BeginStep, EndTransactionStep, ExecuteStatementStep DEF Handled, Own
<1>7. CASE FinishPipeline(s) \/ HandleExecute(s) \/ Sync(s)
  BY <1>7, FinishPipelineStep, HandleExecuteStep, SyncStep DEF Handled, Own
<1> QED
  BY <1>2, <1>3, <1>4, <1>5, <1>6, <1>7 DEF Run

\* Check and assignment of add_prepared_plan are two steps, so sessions that find a name
\* free together overwrite each other's plans; once they have all stored theirs, no later
\* Parse gets past the check, and only the unnamed plan is ever dropped.
THEOREM NamedPlansAreFinal == Spec => NamedPlansStay
<1> DEFINE Stay(n) == Settled(n)' /\ prepared'[n] = prepared[n]
           Final == \A n \in PlanNames \ {Unnamed} : Settled(n) => Settled(n)' /\ prepared'[n] = prepared[n]
<1>1. ASSUME IInv, [Next]_vars, NEW n \in PlanNames \ {Unnamed}, Settled(n) PROVE Stay(n)
  <2>1. Types /\ prepared[n] # Nil /\ \A q \in Sessions : at[q] = "store" => todo[q][1] # n
    BY <1>1 DEF IInv, Settled
  <2>2. ASSUME UNCHANGED <<prepared, at, todo>> PROVE Stay(n)
    BY <1>1, <2>2 DEF Settled
  <2>3. ASSUME NEW s \in Sessions, Accept(s) \/ Run(s), prepared'[n] = prepared[n],
               at'[s] = "store" => todo'[s][1] # n
        PROVE  Stay(n)
    <3>1. ASSUME NEW q \in Sessions, at'[q] = "store" PROVE todo'[q][1] # n
      BY <1>1, <2>1, <2>3, <3>1, OneMoves
    <3> QED
      BY <2>1, <2>3, <3>1 DEF Settled
  <2>4. ASSUME NEW s \in Sessions, Accept(s) \/ Run(s) PROVE Stay(n)
    <3>1. CASE Crash
      BY <2>2, <3>1 DEF Crash
    <3>2. CASE ErasePreparedPlan(s) /\ ~Crash
      <4>1. prepared' = [prepared EXCEPT ![Unnamed] = Nil] /\ at'[s] # "store"
        BY <2>1, <3>2 DEF ErasePreparedPlan, Goto, Types
      <4> QED
        BY <2>1, <2>3, <2>4, <4>1 DEF Types
    <3>3. CASE AddPreparedPlan(s)
      <4>1. prepared' = prepared /\ todo' = todo /\ (at'[s] = "store" => prepared[todo[s][1]] = Nil)
        BY <2>1, <3>3 DEF AddPreparedPlan, Raise, Answer, Goto, Types
      <4> QED
        BY <2>1, <2>3, <2>4, <4>1
    <3>4. CASE StorePreparedPlan(s) /\ ~Crash
      <4>1. /\ prepared' = [prepared EXCEPT ![todo[s][1]] = todo[s][2]]
            /\ at'[s] # "store" /\ todo[s][1] # n
        BY <2>1, <3>4 DEF StorePreparedPlan, Is, Answer, Goto, Types
      <4> QED
        BY <2>1, <2>3, <2>4, <4>1 DEF Types
    <3>5. CASE ~ErasePreparedPlan(s) /\ ~AddPreparedPlan(s) /\ ~StorePreparedPlan(s)
      BY <1>1, <2>3, <2>4, <3>5, PlansKept
    <3> QED
      BY <3>1, <3>2, <3>3, <3>4, <3>5
  <2>5. Shutdown \/ Stop \/ UNCHANGED vars => UNCHANGED <<prepared, at, todo>>
    BY DEF Shutdown, Stop, vars
  <2> QED
    BY <1>1, <2>2, <2>4, <2>5 DEF Next
<1>2. ASSUME IInv, [Next]_vars PROVE Final
  BY <1>1, <1>2
<1> QED
  BY <1>2, Invariance, PTL DEF Spec, NamedPlansStay
================================================================================
