------------------------------ MODULE GDFSCache ------------------------------
(***************************************************************************)
(* The cache of query plans (cache/gdfs_cache.hpp): a hash map from keys   *)
(* to handles, and a heap whose top is the entry of lowest priority.       *)
(* Every method holds the cache's mutex from its first to its last line,   *)
(* so each is one operator from a cache to a cache, or to the set of       *)
(* possible caches where the heap has several lowest entries.  All callers *)
(* leave cost and size at 1, so a priority is inflation plus frequency.    *)
(***************************************************************************)
EXTENDS Integers, FiniteSets, Functions

EmptyCache(capacity) ==
    [map |-> <<>>, queue |-> <<>>, inflation |-> 0, capacity |-> capacity]

Has(c, key) == key \in DOMAIN c.map

Entry(c, key) == c.queue[c.map[key]]

EntryOf(c, key, value, frequency) ==
    [key |-> key, value |-> value, frequency |-> frequency,
     priority |-> c.inflation + frequency]

(* A hit in set() or try_get(): the entry is used once more.               *)
Used(c, key, value) ==
    [c EXCEPT !.queue[c.map[key]] =
        EntryOf(c, key, value, Entry(c, key).frequency + 1)]

UsedByGet(c, key) == Used(c, key, Entry(c, key).value)

Tops(c) ==
    {h \in DOMAIN c.queue :
        \A g \in DOMAIN c.queue : c.queue[h].priority <= c.queue[g].priority}

(* The entries of some handles are gone from map and heap.                 *)
Without(c, gone) ==
    [c EXCEPT !.map = Restrict(c.map, DOMAIN c.map \ {c.queue[h].key : h \in gone}),
              !.queue = Restrict(c.queue, DOMAIN c.queue \ gone)]

(* Mutant: the inflation stays, and entries live on their past.            *)
EvictWithoutInflation(c) ==
    {Without(c, {h}) : h \in Tops(c)}

(* _evict(): the priority of the entry that goes becomes the inflation.    *)
Evict(c) == {[Without(c, {h}) EXCEPT !.inflation = c.queue[h].priority] : h \in Tops(c)}

(* A handle is the address of a heap node: any that is not in use.         *)
FreshHandle(c) == CHOOSE h \in 1..(Cardinality(DOMAIN c.queue) + 1) : h \notin DOMAIN c.queue

Push(c, key, value) ==
    LET handle == FreshHandle(c)
        Extend(f, x, y) == [z \in DOMAIN f \union {x} |-> IF z = x THEN y ELSE f[z]]
    IN  [c EXCEPT !.map = Extend(c.map, key, handle),
                  !.queue = Extend(c.queue, handle, EntryOf(c, key, value, 1))]

(* Mutant: one entry too many.                                             *)
FullAbove(c) == Cardinality(DOMAIN c.queue) > c.capacity

Full(c) == Cardinality(DOMAIN c.queue) >= c.capacity

Set(c, key, value) ==
    IF c.capacity = 0 THEN {c}
    ELSE IF Has(c, key) THEN {Used(c, key, value)}
    ELSE IF Full(c) THEN {Push(d, key, value) : d \in Evict(c)}
    ELSE {Push(c, key, value)}

Clear(c) == [c EXCEPT !.map = <<>>, !.queue = <<>>]

(* Evictions until the rest fits: what they have taken is nowhere above     *)
(* what they leave, and the priority of the last one is the inflation.     *)
Excesses(c, capacity) ==
    {gone \in SUBSET DOMAIN c.queue :
        /\ Cardinality(DOMAIN c.queue \ gone) = capacity
        /\ \A h \in gone : \A g \in DOMAIN c.queue \ gone :
              c.queue[h].priority <= c.queue[g].priority}

Highest(c, gone) ==
    {h \in gone : \A g \in gone : c.queue[g].priority <= c.queue[h].priority}

Resize(c, capacity) ==
    IF Cardinality(DOMAIN c.queue) <= capacity THEN {[c EXCEPT !.capacity = capacity]}
    ELSE UNION {{[Without(c, gone) EXCEPT !.inflation = c.queue[last].priority,
                                          !.capacity = capacity] :
                     last \in Highest(c, gone)} : gone \in Excesses(c, capacity)}

(* Map and heap hold the same entries: every handle leads to the node of   *)
(* its key and every node is reachable; no more of them than the capacity; *)
(* and no entry is below the inflation, so that the one evicted next is    *)
(* the one whose uses are longest ago or fewest.                           *)
Consistent(c) ==
    /\ \A key \in DOMAIN c.map : /\ c.map[key] \in DOMAIN c.queue
                                 /\ Entry(c, key).key = key
    /\ \A h \in DOMAIN c.queue : /\ c.queue[h].key \in DOMAIN c.map
                                 /\ c.map[c.queue[h].key] = h
                                 /\ c.queue[h].priority >= c.inflation
    /\ Cardinality(DOMAIN c.queue) <= c.capacity
===============================================================================
