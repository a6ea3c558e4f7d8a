------------------------------ MODULE PlanCache ------------------------------
(***************************************************************************)
(* The way of a statement from its text to the execution of a plan         *)
(* (SQLPipelineStatement::get_physical_plan, get_optimized_logical_plan),  *)
(* with the two caches that all statements of a server share, next to      *)
(* other statements, some of which drop and create the table that others   *)
(* read, and next to the remaining methods of the caches.                  *)
(*                                                                         *)
(* An action ends where another thread can see what it did: at an access   *)
(* to a cache or to the storage manager.  A plan is what matters of it:    *)
(* its text, whether it validates (LQP) or carries a transaction context   *)
(* (PQP), the layout of the table it was made for, and its object, named   *)
(* by the thread that created it.                                          *)
(***************************************************************************)
EXTENDS GDFSCache

CONSTANTS
    Clients,          \* threads that run statements
    Kinds,            \* what they run: [text, mvcc]
    Drops, Creates,   \* texts that drop and create the table
    Uncacheable,      \* texts that read meta tables, SHOW
    Capacity,         \* largest capacity of the caches
    MaxStatements,    \* bound: number of statements per client
    MaxServices,      \* bound: calls of clear() and resize()
    Serviced,         \* bound: the caches on which they are called
    Sizes             \* bound: the capacities they are resized to

Texts == {kind.text : kind \in Kinds}
DDL == Drops \union Creates
Reads == Texts \ (DDL \union Uncacheable)
Levels == {"lqp", "pqp"}

ASSUME CacheAssumption ==
    /\ Capacity \in Nat \ {0} /\ Serviced \subseteq Levels /\ Sizes \subseteq 0..Capacity
    /\ MaxStatements \in [Clients -> Nat] /\ \A kind \in Kinds : kind.mvcc \in BOOLEAN

VARIABLES
    cache,      \* the LQP and the PQP cache
    statement,  \* per client its current statement
    table,      \* [layout, dropped]: the stored table
    started,    \* number of statements a client has started
    services,   \* number of calls of clear() and resize()
    age         \* history: evictions of a cache since a text was used in it

vars == <<cache, statement, table, started, services, age>>

Idle == [pc |-> "idle"]

(* A physical plan is executed, after a check if its root changes tables.  *)
Ready(text) == IF text \in DDL THEN "precheck" ELSE "execute"

NoPlan == <<>>

Init ==
    /\ cache = [level \in Levels |-> EmptyCache(Capacity)]
    /\ statement = [c \in Clients |-> Idle]
    /\ table = [layout |-> 0, dropped |-> FALSE]
    /\ started = [c \in Clients |-> 0]
    /\ services = 0
    /\ age = [level \in Levels |-> [text \in Texts |-> 0]]

---------------------------------------------------------------------------
(* Each access to a cache also counts the evictions that the entries which *)
(* remain have survived without being used.                                *)
Aged(level, new, used, evictions) ==
    [age EXCEPT ![level] = [text \in Texts |->
        IF text \in used \/ ~Has(new, text) THEN 0 ELSE @[text] + evictions]]

GetFrom(level, text) ==
    LET new == UsedByGet(cache[level], text)
    IN  /\ cache' = [cache EXCEPT ![level] = new]
        /\ age' = Aged(level, new, {text}, 0)

PutInto(level, text, plan) ==
    \E new \in Set(cache[level], text, plan) :
        LET evicts == /\ ~Has(cache[level], text)
                      /\ Full(cache[level])
                      /\ cache[level].capacity > 0
        IN  /\ cache' = [cache EXCEPT ![level] = new]
            /\ age' = Aged(level, new, {text}, IF evicts THEN 1 ELSE 0)

Cached(level, text) == Entry(cache[level], text).value

(* Mutant: the statement works on the plan in the cache.                   *)
CopyShared(plan, c) == plan

(* deep_copy(): a plan like it, of which all nodes are new.                *)
Copy(plan, c) == [plan EXCEPT !.object = c]

(* Mutant: any plan of the text will do.                                   *)
FitsAnyway(lqp, mvcc) == TRUE

(* lqp_is_validated() against the mode of the statement.                   *)
Fits(lqp, mvcc) == lqp.validated = mvcc

---------------------------------------------------------------------------
(* get_physical_plan() up to the lookup of a physical plan.  A copy of the *)
(* plan found gets the statement's transaction context; a plan whose mode  *)
(* is not the statement's makes it throw.                                  *)
FindPhysicalPlan(c, kind) ==
    LET new == [pc |-> "lqp", text |-> kind.text, mvcc |-> kind.mvcc, began |-> table.layout,
                cacheable |-> TRUE, lqp |-> NoPlan, pqp |-> NoPlan]
        found == Cached("pqp", kind.text)
    IN  /\ statement[c].pc = "idle"
        /\ started[c] < MaxStatements[c]
        /\ started' = [started EXCEPT ![c] = @ + 1]
        /\ IF Has(cache["pqp"], kind.text)
             THEN /\ GetFrom("pqp", kind.text)
                  /\ statement' = [statement EXCEPT ![c] =
                        IF found.context # kind.mvcc THEN Idle
                        ELSE [new EXCEPT !.pc = Ready(kind.text), !.pqp = Copy(found, c)]]
             ELSE /\ statement' = [statement EXCEPT ![c] = new]
                  /\ UNCHANGED <<cache, age>>
        /\ UNCHANGED <<table, services>>

(* get_optimized_logical_plan() looks in its cache.  A plan of the other   *)
(* mode counts as used, is not taken, and will be replaced.                *)
FindLogicalPlan(c) ==
    LET s == statement[c]
        found == Cached("lqp", s.text)
    IN  /\ s.pc = "lqp"
        /\ IF Has(cache["lqp"], s.text)
             THEN /\ GetFrom("lqp", s.text)
                  /\ statement' = [statement EXCEPT ![c] =
                        IF Fits(found, s.mvcc)
                          THEN [s EXCEPT !.pc = "translate", !.lqp = Copy(found, c)]
                          ELSE [s EXCEPT !.pc = "optimize"]]
             ELSE /\ statement' = [statement EXCEPT ![c].pc = "optimize"]
                  /\ UNCHANGED <<cache, age>>
        /\ UNCHANGED <<table, started, services>>

(* The SQL translator asks the storage manager for the table, and throws   *)
(* if there is none; the optimizer works on the plan it returns.           *)
Optimize(c) ==
    LET s == statement[c]
        plan == [object |-> c, text |-> s.text, layout |-> table.layout,
                 validated |-> s.mvcc /\ s.text \in Reads]
    IN  /\ s.pc = "optimize"
        /\ statement' = [statement EXCEPT ![c] =
               IF s.text \in Reads /\ table.dropped THEN Idle
               ELSE [s EXCEPT !.lqp = plan, !.cacheable = s.text \notin Uncacheable,
                              !.pc = "store"]]
        /\ UNCHANGED <<cache, age, table, started, services>>

(* The new logical plan goes into the cache before it is translated.       *)
StoreLogicalPlan(c) ==
    LET s == statement[c]
    IN  /\ s.pc = "store"
        /\ statement' = [statement EXCEPT ![c].pc = "translate"]
        /\ IF s.cacheable THEN PutInto("lqp", s.text, s.lqp) ELSE UNCHANGED <<cache, age>>
        /\ UNCHANGED <<table, started, services>>

(* The LQP translator, which writes to the nodes it visits, and the rest   *)
(* of get_physical_plan(): the transaction context is set in all           *)
(* operators, and the new plan goes into the cache before it is executed.  *)
Translate(c) ==
    LET s == statement[c]
        plan == [object |-> c, text |-> s.lqp.text, layout |-> s.lqp.layout,
                 validated |-> s.lqp.validated, context |-> s.mvcc]
    IN  /\ s.pc = "translate"
        /\ statement' = [statement EXCEPT ![c] =
               [s EXCEPT !.pc = Ready(s.text), !.lqp = NoPlan, !.pqp = plan]]
        /\ IF s.cacheable THEN PutInto("pqp", s.text, plan) ELSE UNCHANGED <<cache, age>>
        /\ UNCHANGED <<table, started, services>>

(* What the storage manager demands of a name before it adds or removes it. *)
Allowed(text) ==
    /\ text \in Drops => ~table.dropped
    /\ text \in Creates => table.dropped

(* _precheck_ddl_operators(): the statement throws before it has begun.    *)
Precheck(c) ==
    /\ statement[c].pc = "precheck"
    /\ statement' = [statement EXCEPT ![c] =
           IF Allowed(statement[c].text) THEN [statement[c] EXCEPT !.pc = "execute"] ELSE Idle]
    /\ UNCHANGED <<cache, age, table, started, services>>

(* The operators of the plan.  Between the check and them the table may    *)
(* have come or gone; then the storage manager throws and nothing changes. *)
Execute(c) ==
    LET text == statement[c].text
    IN  /\ statement[c].pc = "execute"
        /\ statement' = [statement EXCEPT ![c] = Idle]
        /\ table' = IF ~Allowed(text) THEN table
                    ELSE IF text \in Drops THEN [table EXCEPT !.dropped = TRUE]
                    ELSE IF text \in Creates THEN [layout |-> table.layout + 1, dropped |-> FALSE]
                    ELSE table
        /\ UNCHANGED <<cache, age, started, services>>

---------------------------------------------------------------------------
ClearCache(level) ==
    /\ services < MaxServices
    /\ services' = services + 1
    /\ cache' = [cache EXCEPT ![level] = Clear(@)]
    /\ age' = Aged(level, Clear(cache[level]), {}, 0)
    /\ UNCHANGED <<statement, table, started>>

ResizeCache(level, capacity) ==
    /\ services < MaxServices
    /\ services' = services + 1
    /\ \E new \in Resize(cache[level], capacity) :
        LET evictions == Cardinality(DOMAIN cache[level].queue) - Cardinality(DOMAIN new.queue)
        IN  /\ cache' = [cache EXCEPT ![level] = new]
            /\ age' = Aged(level, new, {}, evictions)
    /\ UNCHANGED <<statement, table, started>>

Done ==
    /\ \A c \in Clients : statement[c].pc = "idle" /\ started[c] = MaxStatements[c]
    /\ UNCHANGED vars

Next ==
    \/ \E c \in Clients :
        \/ \E kind \in Kinds : FindPhysicalPlan(c, kind)
        \/ FindLogicalPlan(c)
        \/ Optimize(c)
        \/ StoreLogicalPlan(c)
        \/ Translate(c)
        \/ Precheck(c)
        \/ Execute(c)
    \/ \E level \in Serviced :
        \/ ClearCache(level)
        \/ \E capacity \in Sizes : ResizeCache(level, capacity)
    \/ Done

Spec == Init /\ [][Next]_vars

---------------------------------------------------------------------------
TypeOK ==
    /\ DOMAIN cache = Levels
    /\ \A level \in Levels : /\ DOMAIN cache[level].map \subseteq Texts
                             /\ cache[level].capacity \in 0..Capacity
    /\ \A c \in Clients : /\ statement[c].pc \in
                                {"idle", "lqp", "optimize", "store", "translate", "precheck", "execute"}
                           /\ started[c] \in 0..MaxStatements[c]
    /\ table \in [layout : Nat, dropped : BOOLEAN]

(* An entry nobody uses does not live on its past: it outlives at most     *)
(* frequency + 1 evictions for each other entry of the cache.              *)
NothingStaysUnused ==
    \A level \in Levels : \A text \in DOMAIN cache[level].map :
        age[level][text] <= (Capacity - 1) * (Entry(cache[level], text).frequency + 1)

(* The caches hold what they should, in all interleavings of lookups,      *)
(* stores, evictions, clear() and resize(): map and heap agree, capacity   *)
(* and inflation are kept, entries grow old, each key leads to a plan of   *)
(* its own text, and never to one that must not be cached.                 *)
CachesConsistent ==
    /\ TypeOK
    /\ \A level \in Levels : Consistent(cache[level])
    /\ NothingStaysUnused
    /\ \A level \in Levels : \A text \in DOMAIN cache[level].map :
        text \notin Uncacheable /\ Cached(level, text).text = text

(* A statement works on plans of its own and of its own mode: no two       *)
(* statements translate the same logical plan or execute the same physical *)
(* one, although they share the caches; a plan about to be executed was    *)
(* made for the statement's text, validates exactly if the statement uses  *)
(* MVCC, and carries a transaction context exactly then.                   *)
PlansOwnAndFitting ==
    \A c \in Clients : LET s == statement[c] IN
        /\ s.pc = "translate" =>
            \A d \in Clients \ {c} : statement[d].pc = "translate" =>
                statement[d].lqp.object # s.lqp.object
        /\ s.pc = "execute" =>
            /\ \A d \in Clients \ {c} : statement[d].pc \in {"precheck", "execute"} =>
                statement[d].pqp.object # s.pqp.object
            /\ s.pqp.text = s.text
            /\ s.pqp.validated = (s.mvcc /\ s.text \in Reads)
            /\ s.pqp.context = s.mvcc

(* A statement that began after a table was created again reads it with a  *)
(* plan made for that table.  The caches know nothing of DDL, and this is  *)
(* violated.                                                               *)
PlansCurrent ==
    \A c \in Clients :
        statement[c].pc = "execute" /\ statement[c].text \in Reads /\ ~table.dropped =>
            statement[c].pqp.layout >= statement[c].began

(* No operator that changes tables finds its precondition broken: the      *)
(* check before the tasks are made is not repeated, and this is violated.  *)
CheckedTablesChange ==
    \A c \in Clients : statement[c].pc = "execute" => Allowed(statement[c].text)
===============================================================================
