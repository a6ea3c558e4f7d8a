---------------------------- MODULE PlanCacheProofs ----------------------------
(***************************************************************************)
(* Proofs about the caches of plans, for any threads, statements and       *)
(* capacity, and any number of calls of clear() and resize().              *)
(***************************************************************************)
EXTENDS PlanCache, FiniteSetTheorems, TLAPS

\* Functions whose domain is a part of A.
PartialFunctions(A, B) == UNION {[S -> B] : S \in SUBSET A}

Entries(K, V) == [key : K, value : V, frequency : Nat \ {0}, priority : Nat]

\* Caches that lead from keys in K to values in V.
CachesOf(K, V) ==
  {c \in [map : PartialFunctions(K, Nat \ {0}), queue : PartialFunctions(Nat \ {0}, Entries(K, V)),
          inflation : Nat, capacity : 0..Capacity] :
     IsFiniteSet(DOMAIN c.queue) /\ Consistent(c)}

\* The inflation when an entry was used last.
Base(e) == e.priority - e.frequency

\* Other entries that can be evicted before the inflation rises.
Peers(c, key) == {h \in DOMAIN c.queue \ {c.map[key]} : c.queue[h].priority = c.inflation}

\* The key of a cache has aged by at most one full cache of others for each step of the
\* inflation since it was used; those of the present step are still in the cache, or gone.
Aging(c, ages) ==
  \A key \in DOMAIN c.map :
    /\ Base(Entry(c, key)) \in Nat /\ Base(Entry(c, key)) <= c.inflation
    /\ ages[key] + Cardinality(Peers(c, key)) <= (c.inflation - Base(Entry(c, key)) + 1) * (Capacity - 1)

----------------------------------------------------------------------------
(* The methods of a cache.                                                 *)

\* What it means to be one.
LEMMA PartialFunction ==
  ASSUME NEW A, NEW B, NEW f
  PROVE  f \in PartialFunctions(A, B) <=> DOMAIN f \subseteq A /\ f \in [DOMAIN f -> B]
  BY DEF PartialFunctions

\* What is in a cache.
LEMMA CacheFacts ==
  ASSUME NEW K, NEW V, NEW c \in CachesOf(K, V)
  PROVE  /\ c = [map |-> c.map, queue |-> c.queue, inflation |-> c.inflation, capacity |-> c.capacity]
         /\ DOMAIN c.map \subseteq K /\ c.map \in [DOMAIN c.map -> DOMAIN c.queue]
         /\ DOMAIN c.queue \subseteq Nat \ {0} /\ c.queue \in [DOMAIN c.queue -> Entries(K, V)]
         /\ c.inflation \in Nat /\ c.capacity \in Nat /\ c.capacity <= Capacity
         /\ IsFiniteSet(DOMAIN c.queue) /\ Consistent(c)
         /\ Cardinality(DOMAIN c.queue) \in Nat /\ Cardinality(DOMAIN c.queue) <= c.capacity
         /\ \A key \in DOMAIN c.map : c.map[key] \in DOMAIN c.queue /\ c.queue[c.map[key]].key = key
         /\ \A h \in DOMAIN c.queue :
              /\ c.queue[h] \in Entries(K, V)
              /\ c.queue[h].key \in DOMAIN c.map /\ c.map[c.queue[h].key] = h
              /\ c.queue[h].priority >= c.inflation
<1>1. /\ c \in [map : PartialFunctions(K, Nat \ {0}), queue : PartialFunctions(Nat \ {0}, Entries(K, V)),
                inflation : Nat, capacity : 0..Capacity]
      /\ IsFiniteSet(DOMAIN c.queue) /\ Consistent(c)
  BY DEF CachesOf
<1>2. /\ c = [map |-> c.map, queue |-> c.queue, inflation |-> c.inflation, capacity |-> c.capacity]
      /\ c.map \in PartialFunctions(K, Nat \ {0}) /\ c.queue \in PartialFunctions(Nat \ {0}, Entries(K, V))
      /\ c.inflation \in Nat /\ c.capacity \in 0..Capacity
  BY <1>1
<1>3. /\ DOMAIN c.map \subseteq K /\ c.map \in [DOMAIN c.map -> Nat \ {0}]
      /\ DOMAIN c.queue \subseteq Nat \ {0} /\ c.queue \in [DOMAIN c.queue -> Entries(K, V)]
  BY <1>2, PartialFunction
<1>4. /\ \A key \in DOMAIN c.map : c.map[key] \in DOMAIN c.queue /\ c.queue[c.map[key]].key = key
      /\ \A h \in DOMAIN c.queue :
           /\ c.queue[h].key \in DOMAIN c.map /\ c.map[c.queue[h].key] = h
           /\ c.queue[h].priority >= c.inflation
      /\ Cardinality(DOMAIN c.queue) <= c.capacity
  BY <1>1 DEF Consistent, Entry
<1>5. Cardinality(DOMAIN c.queue) \in Nat
  BY <1>1, FS_CardinalityType
<1>6. c.map \in [DOMAIN c.map -> DOMAIN c.queue]
  BY <1>3, <1>4
<1>7. c.capacity \in Nat /\ c.capacity <= Capacity
  BY <1>2, CacheAssumption
<1>8. \A h \in DOMAIN c.queue : c.queue[h] \in Entries(K, V)
  BY <1>3
<1> QED
  BY <1>1, <1>2, <1>3, <1>4, <1>5, <1>6, <1>7, <1>8

\* How to make one.
LEMMA CacheMade ==
  ASSUME NEW K, NEW V, NEW m, NEW q, NEW i \in Nat, NEW n \in 0..Capacity,
         DOMAIN m \subseteq K, m \in [DOMAIN m -> DOMAIN q],
         DOMAIN q \subseteq Nat \ {0}, q \in [DOMAIN q -> Entries(K, V)],
         IsFiniteSet(DOMAIN q), Cardinality(DOMAIN q) <= n,
         \A key \in DOMAIN m : q[m[key]].key = key,
         \A h \in DOMAIN q : q[h].key \in DOMAIN m /\ m[q[h].key] = h /\ q[h].priority >= i
  PROVE  [map |-> m, queue |-> q, inflation |-> i, capacity |-> n] \in CachesOf(K, V)
<1>1. m \in [DOMAIN m -> Nat \ {0}]
  OBVIOUS
<1>2. m \in PartialFunctions(K, Nat \ {0}) /\ q \in PartialFunctions(Nat \ {0}, Entries(K, V))
  BY <1>1, PartialFunction
<1> DEFINE c == [map |-> m, queue |-> q, inflation |-> i, capacity |-> n]
<1>3. c.map = m /\ c.queue = q /\ c.inflation = i /\ c.capacity = n
  OBVIOUS
<1>4. c \in [map : PartialFunctions(K, Nat \ {0}), queue : PartialFunctions(Nat \ {0}, Entries(K, V)),
             inflation : Nat, capacity : 0..Capacity]
  BY <1>2
<1>5. Consistent(c)
  <2> HIDE DEF c
  <2> QED
    BY <1>3 DEF Consistent, Entry
<1> HIDE DEF c
<1>6. c \in CachesOf(K, V)
  BY <1>3, <1>4, <1>5 DEF CachesOf
<1> QED
  BY <1>6 DEF c

\* The bound on ages grows by a full cache with each step of the inflation.
LEMMA NextLevel ==
  ASSUME NEW x \in Nat, NEW y \in Nat, x < y, NEW n \in Nat
  PROVE  (x + 1) * n \in Nat /\ (y + 1) * n \in Nat /\ (x + 1) * n + n <= (y + 1) * n
<1> DEFINE z == y - x - 1
<1>1. z \in Nat /\ y = x + 1 + z
  OBVIOUS
<1>2. z * n \in Nat /\ (x + 1) * n \in Nat
  BY <1>1
<1>3. (x + 1 + z + 1) * n = (x + 1) * n + z * n + n
  BY <1>1
<1> QED
  BY <1>1, <1>2, <1>3

\* The others that may be evicted before the inflation rises.
LEMMA PeersFacts ==
  ASSUME NEW K, NEW V, NEW c \in CachesOf(K, V), NEW key \in DOMAIN c.map
  PROVE  /\ IsFiniteSet(Peers(c, key)) /\ Cardinality(Peers(c, key)) \in Nat
         /\ Cardinality(Peers(c, key)) <= Cardinality(DOMAIN c.queue) - 1
         /\ Cardinality(DOMAIN c.queue) - 1 <= Capacity - 1
<1> DEFINE rest == DOMAIN c.queue \ {c.map[key]}
<1>1. c.map[key] \in DOMAIN c.queue /\ IsFiniteSet(DOMAIN c.queue)
      /\ Cardinality(DOMAIN c.queue) \in Nat /\ Cardinality(DOMAIN c.queue) <= c.capacity
      /\ c.capacity \in Nat /\ c.capacity <= Capacity
  BY CacheFacts
<1>2. IsFiniteSet(rest) /\ Cardinality(rest) = Cardinality(DOMAIN c.queue) - 1
  BY <1>1, FS_RemoveElement
<1>3. Peers(c, key) \in SUBSET rest
  BY DEF Peers
<1>4. IsFiniteSet(Peers(c, key)) /\ Cardinality(Peers(c, key)) <= Cardinality(rest)
  BY <1>2, <1>3, FS_Subset
<1>5. Cardinality(Peers(c, key)) \in Nat
  BY <1>4, FS_CardinalityType
<1> QED
  BY <1>1, <1>2, <1>4, <1>5, CacheAssumption

\* A hit keeps the cache in order, and the entries in age.
LEMMA UsedKeeps ==
  ASSUME NEW K, NEW V, NEW c \in CachesOf(K, V), NEW key \in DOMAIN c.map, NEW value \in V,
         NEW d, d = Used(c, key, value)
  PROVE  /\ d \in CachesOf(K, V) /\ DOMAIN d.map = DOMAIN c.map
         /\ \A t \in DOMAIN d.map :
              Entry(d, t).value = IF t = key THEN value ELSE Entry(c, t).value
         /\ \A a \in [K -> Nat], b \in [K -> Nat] :
              Aging(c, a) /\ b[key] = 0 /\ (\A t \in DOMAIN d.map : b[t] <= a[t]) => Aging(d, b)
<1> DEFINE h == c.map[key]
           e == [key |-> key, value |-> value, frequency |-> c.queue[h].frequency + 1,
                 priority |-> c.inflation + (c.queue[h].frequency + 1)]
           q == [c.queue EXCEPT ![h] = e]
<1>0. /\ c = [map |-> c.map, queue |-> c.queue, inflation |-> c.inflation, capacity |-> c.capacity]
      /\ DOMAIN c.map \subseteq K /\ c.map \in [DOMAIN c.map -> DOMAIN c.queue]
      /\ DOMAIN c.queue \subseteq Nat \ {0} /\ c.queue \in [DOMAIN c.queue -> Entries(K, V)]
      /\ c.inflation \in Nat /\ c.capacity \in Nat /\ c.capacity <= Capacity
      /\ IsFiniteSet(DOMAIN c.queue) /\ Cardinality(DOMAIN c.queue) <= c.capacity
      /\ \A t \in DOMAIN c.map : c.map[t] \in DOMAIN c.queue /\ c.queue[c.map[t]].key = t
      /\ \A g \in DOMAIN c.queue :
           /\ c.queue[g] \in Entries(K, V)
           /\ c.queue[g].key \in DOMAIN c.map /\ c.map[c.queue[g].key] = g
           /\ c.queue[g].priority >= c.inflation
  BY CacheFacts
<1>1. d = [map |-> c.map, queue |-> q, inflation |-> c.inflation, capacity |-> c.capacity]
  BY <1>0 DEF Used, EntryOf, Entry
<1>2. h \in DOMAIN c.queue /\ c.queue[h].frequency \in Nat \ {0}
  BY <1>0 DEF Entries
<1>3. e \in Entries(K, V)
  BY <1>0, <1>2 DEF Entries
<1>4. /\ DOMAIN q = DOMAIN c.queue /\ q \in [DOMAIN q -> Entries(K, V)] /\ q[h] = e
      /\ \A g \in DOMAIN c.queue \ {h} : q[g] = c.queue[g]
  BY <1>0, <1>2, <1>3
<1>5. \A g \in DOMAIN q : q[g].key = c.queue[g].key /\ q[g].priority >= c.inflation
  BY <1>0, <1>2, <1>4
<1>6. d \in CachesOf(K, V)
  <2>1. c.capacity \in 0..Capacity
    BY <1>0, CacheAssumption
  <2> HIDE DEF q, e, h
  <2>2. /\ DOMAIN c.map \subseteq K /\ c.map \in [DOMAIN c.map -> DOMAIN q]
        /\ DOMAIN q \subseteq Nat \ {0} /\ q \in [DOMAIN q -> Entries(K, V)]
        /\ IsFiniteSet(DOMAIN q) /\ Cardinality(DOMAIN q) <= c.capacity /\ c.inflation \in Nat
    BY <1>0, <1>4
  <2>3. /\ \A t \in DOMAIN c.map : q[c.map[t]].key = t
        /\ \A g \in DOMAIN q : q[g].key \in DOMAIN c.map /\ c.map[q[g].key] = g
                               /\ q[g].priority >= c.inflation
    BY <1>0, <1>4, <1>5
  <2>4. [map |-> c.map, queue |-> q, inflation |-> c.inflation, capacity |-> c.capacity] \in CachesOf(K, V)
    BY ONLY <2>1, <2>2, <2>3, CacheMade
  <2> QED
    BY <1>1, <2>4
<1>7. d.map = c.map /\ d.queue = q /\ d.inflation = c.inflation
  BY <1>1
<1>8. \A t \in DOMAIN c.map : t # key => c.map[t] # h
  BY <1>0
<1>9. \A t \in DOMAIN c.map : Entry(d, t) = IF t = key THEN e ELSE Entry(c, t)
  <2> HIDE DEF q, e
  <2> QED
    BY <1>0, <1>4, <1>7, <1>8 DEF Entry
<1>10. \A t \in DOMAIN c.map : Entry(d, t).value = IF t = key THEN value ELSE Entry(c, t).value
  BY <1>9
<1>11. ASSUME NEW a \in [K -> Nat], NEW b \in [K -> Nat], Aging(c, a), b[key] = 0,
              \A t \in DOMAIN d.map : b[t] <= a[t], NEW t \in DOMAIN d.map
       PROVE  /\ Base(Entry(d, t)) \in Nat /\ Base(Entry(d, t)) <= d.inflation
              /\ b[t] + Cardinality(Peers(d, t)) <= (d.inflation - Base(Entry(d, t)) + 1) * (Capacity - 1)
  <2>0. t \in DOMAIN c.map
    BY <1>11, <1>7
  <2> HIDE DEF q, e, h
  <2>1. /\ Cardinality(Peers(d, t)) \in Nat /\ Cardinality(Peers(d, t)) <= Capacity - 1
    BY <1>6, PeersFacts, <1>7, <1>4, CacheFacts, CacheAssumption
  <2>2. CASE t = key
    <3>1. Base(Entry(d, t)) = c.inflation
      BY <2>0, <2>2, <1>9, <1>0, <1>2 DEF Base, e
    <3>2. (c.inflation - c.inflation + 1) * (Capacity - 1) = Capacity - 1
      BY <1>0, CacheAssumption
    <3> QED
      BY <3>1, <3>2, <2>1, <2>2, <1>7, <1>0, <1>11
  <2>3. CASE t # key
    <3>1. Entry(d, t) = Entry(c, t)
      BY <2>0, <2>3, <1>9
    <3>2. Peers(d, t) \in SUBSET Peers(c, t)
      <4>1. q[h].priority # c.inflation
        BY <1>4, <1>2, <1>0 DEF e
      <4> QED
        BY <4>1, <1>4, <1>7 DEF Peers
    <3>3. IsFiniteSet(Peers(c, t)) /\ Cardinality(Peers(c, t)) \in Nat
      BY <2>0, PeersFacts
    <3>4. Cardinality(Peers(d, t)) <= Cardinality(Peers(c, t))
      BY <3>2, <3>3, FS_Subset
    <3>5. /\ Base(Entry(c, t)) \in Nat /\ Base(Entry(c, t)) <= c.inflation
          /\ a[t] + Cardinality(Peers(c, t)) <= (c.inflation - Base(Entry(c, t)) + 1) * (Capacity - 1)
      BY <2>0, <1>11 DEF Aging
    <3>6. (c.inflation - Base(Entry(c, t)) + 1) * (Capacity - 1) \in Int
      BY <3>5, <1>0, CacheAssumption
    <3>7. a[t] \in Nat /\ b[t] \in Nat /\ b[t] <= a[t]
      BY <2>0, <1>0, <1>11
    <3>8. b[t] + Cardinality(Peers(d, t)) <= a[t] + Cardinality(Peers(c, t))
      BY <3>3, <3>4, <3>7, <2>1
    <3> QED
      BY <3>1, <3>3, <3>5, <3>6, <3>7, <3>8, <2>1, <1>7
  <2> QED
    BY <2>2, <2>3
<1>12. \A a \in [K -> Nat], b \in [K -> Nat] :
         Aging(c, a) /\ b[key] = 0 /\ (\A t \in DOMAIN d.map : b[t] <= a[t]) => Aging(d, b)
  BY <1>11 DEF Aging
<1> QED
  BY <1>6, <1>7, <1>10, <1>12

\* Two parts of a finite set without common members are no larger together.
LEMMA TwoParts ==
  ASSUME NEW S, IsFiniteSet(S), NEW A \in SUBSET S, NEW B \in SUBSET S, A \cap B = {}
  PROVE  /\ IsFiniteSet(A) /\ IsFiniteSet(B) /\ IsFiniteSet(A \cup B)
         /\ Cardinality(A) \in Nat /\ Cardinality(B) \in Nat
         /\ Cardinality(A \cup B) = Cardinality(A) + Cardinality(B)
         /\ Cardinality(A) + Cardinality(B) <= Cardinality(S)
<1>1. IsFiniteSet(A) /\ IsFiniteSet(B)
  BY FS_Subset
<1>2. IsFiniteSet(A \cup B)
      /\ Cardinality(A \cup B) = Cardinality(A) + Cardinality(B) - Cardinality(A \cap B)
  BY <1>1, FS_Union
<1>3. Cardinality(A \cap B) = 0
  BY FS_EmptySet
<1>4. Cardinality(A \cup B) <= Cardinality(S)
  BY <1>2, FS_Subset
<1>5. Cardinality(A) \in Nat /\ Cardinality(B) \in Nat
  BY <1>1, FS_CardinalityType
<1> QED
  BY <1>1, <1>2, <1>3, <1>4, <1>5

\* What a cache is that evictions have left.
Evicted(c, gone, last) == [Without(c, gone) EXCEPT !.inflation = c.queue[last].priority]

\* Evictions keep the cache in order.
LEMMA EvictedKeeps ==
  ASSUME NEW K, NEW V, NEW c \in CachesOf(K, V), NEW gone \in SUBSET DOMAIN c.queue,
         NEW last \in Highest(c, gone),
         \A h \in gone : \A g \in DOMAIN c.queue \ gone : c.queue[h].priority <= c.queue[g].priority,
         NEW d, d = Evicted(c, gone, last)
  PROVE  /\ d \in CachesOf(K, V) /\ d.capacity = c.capacity
         /\ DOMAIN d.queue = DOMAIN c.queue \ gone
         /\ d.inflation = c.queue[last].priority
         /\ \A h \in DOMAIN d.queue : d.queue[h] = c.queue[h]
         /\ \A t \in DOMAIN d.map : /\ t \in DOMAIN c.map /\ d.map[t] = c.map[t]
                                    /\ c.map[t] \notin gone /\ Entry(d, t) = Entry(c, t)
<1> DEFINE i == c.queue[last].priority
           m == [t \in DOMAIN c.map \ {c.queue[h].key : h \in gone} |-> c.map[t]]
           q == [h \in DOMAIN c.queue \ gone |-> c.queue[h]]
<1>0. /\ c = [map |-> c.map, queue |-> c.queue, inflation |-> c.inflation, capacity |-> c.capacity]
      /\ DOMAIN c.map \subseteq K /\ c.map \in [DOMAIN c.map -> DOMAIN c.queue]
      /\ DOMAIN c.queue \subseteq Nat \ {0} /\ c.queue \in [DOMAIN c.queue -> Entries(K, V)]
      /\ c.inflation \in Nat /\ c.capacity \in Nat /\ c.capacity <= Capacity
      /\ IsFiniteSet(DOMAIN c.queue) /\ Cardinality(DOMAIN c.queue) <= c.capacity
      /\ Cardinality(DOMAIN c.queue) \in Nat
      /\ \A t \in DOMAIN c.map : c.map[t] \in DOMAIN c.queue /\ c.queue[c.map[t]].key = t
      /\ \A g \in DOMAIN c.queue :
           /\ c.queue[g] \in Entries(K, V)
           /\ c.queue[g].key \in DOMAIN c.map /\ c.map[c.queue[g].key] = g
  BY CacheFacts
<1>1. d = [map |-> m, queue |-> q, inflation |-> i, capacity |-> c.capacity]
  <2>1. Restrict(c.map, DOMAIN c.map \ {c.queue[h].key : h \in gone}) = m
        /\ Restrict(c.queue, DOMAIN c.queue \ gone) = q
    BY DEF Restrict
  <2>2. Without(c, gone) = [c EXCEPT !.map = m, !.queue = q]
    BY <2>1 DEF Without
  <2> DEFINE w == Without(c, gone)
  <2> HIDE DEF m, q, i
  <2>3. w = [map |-> m, queue |-> q, inflation |-> c.inflation, capacity |-> c.capacity]
    BY <1>0, <2>2
  <2>4. d = [w EXCEPT !.inflation = i]
    BY DEF Evicted, i
  <2> HIDE DEF w
  <2> QED
    BY <2>3, <2>4
<1>2. last \in gone /\ last \in DOMAIN c.queue
  BY DEF Highest
<1>3. i \in Nat
  BY <1>0, <1>2 DEF Entries
<1>4. /\ DOMAIN m = DOMAIN c.map \ {c.queue[h].key : h \in gone} /\ DOMAIN q = DOMAIN c.queue \ gone
      /\ \A t \in DOMAIN m : m[t] = c.map[t] /\ m[t] \in DOMAIN c.queue \ gone
      /\ \A h \in DOMAIN q : q[h] = c.queue[h]
  BY <1>0
<1>5. \A h \in DOMAIN q : q[h].key \in DOMAIN m /\ m[q[h].key] = h /\ q[h].priority >= i
  <2> SUFFICES ASSUME NEW h \in DOMAIN c.queue \ gone
               PROVE  c.queue[h].key \in DOMAIN m /\ m[c.queue[h].key] = h /\ c.queue[h].priority >= i
    BY <1>4
  <2>1. \A g \in gone : c.queue[g].key # c.queue[h].key
    BY <1>0
  <2>2. c.queue[h].key \in DOMAIN m
    BY <1>0, <2>1, <1>4
  <2>3. m[c.queue[h].key] = h
    BY <1>0, <2>2, <1>4
  <2>4. i <= c.queue[h].priority /\ c.queue[h].priority \in Nat
    BY <1>0, <1>2 DEF Entries
  <2> QED
    BY <2>2, <2>3, <2>4, <1>3
<1> HIDE DEF m, q, i
<1>6. m = [t \in DOMAIN m |-> m[t]] /\ q = [h \in DOMAIN q |-> q[h]]
  BY <1>4 DEF m, q
<1>7. d \in CachesOf(K, V)
  <2>1. c.capacity \in 0..Capacity
    BY <1>0, CacheAssumption
  <2>2. IsFiniteSet(DOMAIN q) /\ Cardinality(DOMAIN q) <= c.capacity
    <3>1. DOMAIN q \in SUBSET DOMAIN c.queue
      BY <1>4
    <3>2. IsFiniteSet(DOMAIN q) /\ Cardinality(DOMAIN q) <= Cardinality(DOMAIN c.queue)
      BY <3>1, <1>0, FS_Subset
    <3>3. Cardinality(DOMAIN q) \in Nat
      BY <3>2, FS_CardinalityType
    <3> QED
      BY <3>2, <3>3, <1>0
  <2>3. /\ DOMAIN m \subseteq K /\ m \in [DOMAIN m -> DOMAIN q]
        /\ DOMAIN q \subseteq Nat \ {0} /\ q \in [DOMAIN q -> Entries(K, V)]
    BY <1>0, <1>4, <1>6
  <2>4. \A t \in DOMAIN m : q[m[t]].key = t
    BY <1>0, <1>4
  <2>5. [map |-> m, queue |-> q, inflation |-> i, capacity |-> c.capacity] \in CachesOf(K, V)
    BY ONLY <1>3, <1>5, <2>1, <2>2, <2>3, <2>4, CacheMade
  <2> QED
    BY <1>1, <2>5
<1>8. d.map = m /\ d.queue = q /\ d.inflation = i /\ d.capacity = c.capacity
  BY <1>1
<1>9. \A t \in DOMAIN m : /\ t \in DOMAIN c.map /\ m[t] = c.map[t] /\ c.map[t] \notin gone
                          /\ Entry(d, t) = Entry(c, t)
  BY <1>4, <1>8 DEF Entry
<1> QED
  BY <1>4, <1>7, <1>8, <1>9 DEF i

\* Evictions age what they leave, but not beyond its bound.
LEMMA EvictedAge ==
  ASSUME NEW K, NEW V, NEW c \in CachesOf(K, V), NEW gone \in SUBSET DOMAIN c.queue,
         NEW last \in Highest(c, gone),
         \A h \in gone : \A g \in DOMAIN c.queue \ gone : c.queue[h].priority <= c.queue[g].priority,
         NEW a \in [K -> Nat], NEW b \in [K -> Nat], Aging(c, a),
         \A t \in DOMAIN Evicted(c, gone, last).map : b[t] <= a[t] + Cardinality(gone)
  PROVE  Aging(Evicted(c, gone, last), b)
<1> DEFINE d == Evicted(c, gone, last)
<1> SUFFICES ASSUME NEW t \in DOMAIN d.map
             PROVE  /\ Base(Entry(d, t)) \in Nat /\ Base(Entry(d, t)) <= d.inflation
                    /\ b[t] + Cardinality(Peers(d, t))
                         <= (d.inflation - Base(Entry(d, t)) + 1) * (Capacity - 1)
  BY DEF Aging
<1>1. /\ d \in CachesOf(K, V)
      /\ DOMAIN d.queue = DOMAIN c.queue \ gone
      /\ d.inflation = c.queue[last].priority
      /\ \A h \in DOMAIN d.queue : d.queue[h] = c.queue[h]
      /\ t \in DOMAIN c.map /\ d.map[t] = c.map[t] /\ c.map[t] \notin gone /\ Entry(d, t) = Entry(c, t)
  BY EvictedKeeps
<1>2. /\ IsFiniteSet(DOMAIN c.queue) /\ c.map[t] \in DOMAIN c.queue /\ c.inflation \in Nat
      /\ \A h \in DOMAIN c.queue : c.queue[h] \in Entries(K, V) /\ c.queue[h].priority >= c.inflation
      /\ DOMAIN c.map \subseteq K
  BY <1>1, CacheFacts
<1>3. b[t] \in Nat /\ a[t] \in Nat /\ b[t] <= a[t] + Cardinality(gone) /\ IsFiniteSet(gone)
      /\ Cardinality(gone) \in Nat
  <2>1. IsFiniteSet(gone)
    BY <1>2, FS_Subset
  <2> QED
    BY <1>1, <1>2, <2>1, FS_CardinalityType
<1>4. /\ Base(Entry(c, t)) \in Nat /\ Base(Entry(c, t)) <= c.inflation
      /\ a[t] + Cardinality(Peers(c, t)) <= (c.inflation - Base(Entry(c, t)) + 1) * (Capacity - 1)
  BY <1>1 DEF Aging
<1>5. /\ IsFiniteSet(Peers(c, t)) /\ Cardinality(Peers(c, t)) \in Nat
      /\ Cardinality(DOMAIN c.queue) - 1 <= Capacity - 1 /\ Capacity - 1 \in Nat
  BY <1>1, PeersFacts, CacheAssumption
<1>6. IsFiniteSet(Peers(d, t)) /\ Cardinality(Peers(d, t)) \in Nat
  BY <1>1, PeersFacts
<1>7. last \in gone /\ \A h \in gone : c.queue[h].priority <= d.inflation
  BY <1>1 DEF Highest
<1>8. \A h \in DOMAIN c.queue : c.queue[h].priority \in Nat
  BY <1>2 DEF Entries
<1>9. d.inflation \in Nat /\ c.inflation <= d.inflation
  BY <1>1, <1>2, <1>7, <1>8
<1> DEFINE base == Base(Entry(c, t))
<1> HIDE DEF d, base
<1>10. base \in Nat /\ base <= c.inflation
       /\ a[t] + Cardinality(Peers(c, t)) <= (c.inflation - base + 1) * (Capacity - 1)
  BY <1>4 DEF base
<1>11. b[t] + Cardinality(Peers(d, t)) <= (d.inflation - base + 1) * (Capacity - 1)
  <2>1. CASE d.inflation = c.inflation
    <3>1. \A h \in gone : c.queue[h].priority = c.inflation
      BY <2>1, <1>2, <1>7, <1>8
    <3>2. gone \cup Peers(d, t) \in SUBSET Peers(c, t)
      BY <3>1, <2>1, <1>1 DEF Peers
    <3>3. gone \cap Peers(d, t) = {}
      BY <1>1 DEF Peers
    <3>4. Cardinality(gone) + Cardinality(Peers(d, t)) <= Cardinality(Peers(c, t))
      BY <3>2, <3>3, <1>5, TwoParts
    <3>5. (c.inflation - base + 1) * (Capacity - 1) \in Int
      BY <1>10, <1>2, <1>5
    <3>6. b[t] + Cardinality(Peers(d, t)) <= a[t] + Cardinality(Peers(c, t))
      BY <3>4, <1>3, <1>5, <1>6
    <3> QED
      BY <3>5, <3>6, <2>1, <1>3, <1>5, <1>6, <1>10
  <2>2. CASE d.inflation # c.inflation
    <3> DEFINE rest == DOMAIN c.queue \ {c.map[t]}
    <3>1. IsFiniteSet(rest) /\ Cardinality(rest) = Cardinality(DOMAIN c.queue) - 1
      BY <1>2, FS_RemoveElement, ZenonT(40)
    <3>2. gone \in SUBSET rest /\ Peers(d, t) \in SUBSET rest /\ gone \cap Peers(d, t) = {}
      BY <1>1 DEF Peers
    <3> HIDE DEF rest
    <3>3. Cardinality(gone) + Cardinality(Peers(d, t)) <= Cardinality(rest)
      BY <3>1, <3>2, TwoParts
    <3>4. Cardinality(DOMAIN c.queue) \in Nat
      BY <1>2, FS_CardinalityType
    <3>5. Cardinality(gone) + Cardinality(Peers(d, t)) <= Capacity - 1
      BY <3>1, <3>3, <3>4, <1>3, <1>5, <1>6
    <3> DEFINE x == c.inflation - base
               y == d.inflation - base
               n == Capacity - 1
    <3>6. x \in Nat /\ y \in Nat /\ x < y /\ n \in Nat
      BY <2>2, <1>2, <1>5, <1>9, <1>10
    <3>7. a[t] + Cardinality(Peers(c, t)) <= (x + 1) * n
      BY <1>10
    <3>8. Cardinality(gone) + Cardinality(Peers(d, t)) <= n
      BY <3>5
    <3> HIDE DEF x, y, n
    <3>9. (x + 1) * n \in Nat /\ (y + 1) * n \in Nat /\ (x + 1) * n + n <= (y + 1) * n
      BY <3>6, NextLevel
    <3>10. b[t] + Cardinality(Peers(d, t)) <= (y + 1) * n
      BY <3>6, <3>7, <3>8, <3>9, <1>3, <1>5, <1>6
    <3> QED
      BY <3>10 DEF y, n
  <2> QED
    BY <2>1, <2>2
<1> QED
  BY <1>1, <1>2, <1>9, <1>10, <1>11 DEF d, base

\* There is always a handle that is not in use.
LEMMA FreshHandles ==
  ASSUME NEW K, NEW V, NEW c \in CachesOf(K, V)
  PROVE  FreshHandle(c) \in Nat \ {0} /\ FreshHandle(c) \notin DOMAIN c.queue
<1> DEFINE n == Cardinality(DOMAIN c.queue)
<1>1. IsFiniteSet(DOMAIN c.queue) /\ n \in Nat
  BY CacheFacts
<1> HIDE DEF n
<1>2. \E h \in 1..(n + 1) : h \notin DOMAIN c.queue
  <2> SUFFICES ASSUME 1..(n + 1) \in SUBSET DOMAIN c.queue PROVE FALSE
    OBVIOUS
  <2>1. Cardinality(1..(n + 1)) = n + 1
    <3>1. 1 \in Int /\ n + 1 \in Int /\ ~(1 > n + 1) /\ (n + 1) - 1 + 1 = n + 1
      BY <1>1
    <3> QED
      BY <3>1, FS_Interval
  <2>2. Cardinality(1..(n + 1)) <= n
    BY <1>1, FS_Subset DEF n
  <2> QED
    BY <1>1, <2>1, <2>2
<1>3. FreshHandle(c) \in 1..(n + 1) /\ FreshHandle(c) \notin DOMAIN c.queue
  BY <1>2 DEF FreshHandle, n
<1> QED
  BY <1>1, <1>3

\* A new entry keeps the cache in order if there is a place for it.
LEMMA PushKeeps ==
  ASSUME NEW K, NEW V, NEW c \in CachesOf(K, V), NEW key \in K, key \notin DOMAIN c.map, NEW value \in V,
         Cardinality(DOMAIN c.queue) < c.capacity, NEW d, d = Push(c, key, value)
  PROVE  /\ d \in CachesOf(K, V) /\ DOMAIN d.map = DOMAIN c.map \cup {key}
         /\ \A t \in DOMAIN d.map :
              Entry(d, t).value = IF t = key THEN value ELSE Entry(c, t).value
         /\ \A a \in [K -> Nat], b \in [K -> Nat] :
              Aging(c, a) /\ b[key] = 0 /\ (\A t \in DOMAIN c.map : b[t] <= a[t]) => Aging(d, b)
<1> DEFINE h == FreshHandle(c)
           e == [key |-> key, value |-> value, frequency |-> 1, priority |-> c.inflation + 1]
           m == [t \in DOMAIN c.map \cup {key} |-> IF t = key THEN h ELSE c.map[t]]
           q == [g \in DOMAIN c.queue \cup {h} |-> IF g = h THEN e ELSE c.queue[g]]
<1>0. /\ c = [map |-> c.map, queue |-> c.queue, inflation |-> c.inflation, capacity |-> c.capacity]
      /\ DOMAIN c.map \subseteq K /\ c.map \in [DOMAIN c.map -> DOMAIN c.queue]
      /\ DOMAIN c.queue \subseteq Nat \ {0} /\ c.queue \in [DOMAIN c.queue -> Entries(K, V)]
      /\ c.inflation \in Nat /\ c.capacity \in Nat /\ c.capacity <= Capacity
      /\ IsFiniteSet(DOMAIN c.queue) /\ Cardinality(DOMAIN c.queue) \in Nat
      /\ \A t \in DOMAIN c.map : c.map[t] \in DOMAIN c.queue /\ c.queue[c.map[t]].key = t
      /\ \A g \in DOMAIN c.queue :
           /\ c.queue[g] \in Entries(K, V)
           /\ c.queue[g].key \in DOMAIN c.map /\ c.map[c.queue[g].key] = g
           /\ c.queue[g].priority >= c.inflation
  BY CacheFacts
<1>1. d = [map |-> m, queue |-> q, inflation |-> c.inflation, capacity |-> c.capacity]
  <2>1. d = [c EXCEPT !.map = m, !.queue = q]
    BY DEF Push, EntryOf
  <2> HIDE DEF m, q
  <2> QED
    BY <1>0, <2>1
<1>2. h \in Nat \ {0} /\ h \notin DOMAIN c.queue
  BY FreshHandles
<1> HIDE DEF h
<1>3. e \in Entries(K, V)
  BY <1>0 DEF Entries
<1>4. /\ DOMAIN m = DOMAIN c.map \cup {key} /\ m[key] = h
      /\ \A t \in DOMAIN c.map : m[t] = c.map[t]
      /\ DOMAIN q = DOMAIN c.queue \cup {h} /\ q[h] = e
      /\ \A g \in DOMAIN c.queue : q[g] = c.queue[g]
      /\ m = [t \in DOMAIN m |-> m[t]] /\ q = [g \in DOMAIN q |-> q[g]]
  BY <1>2
<1>5. e.key = key /\ e.value = value /\ e.frequency = 1 /\ e.priority = c.inflation + 1
  OBVIOUS
<1> HIDE DEF m, q, e
<1>6. d \in CachesOf(K, V)
  <2>1. c.capacity \in 0..Capacity
    BY <1>0, CacheAssumption
  <2>2. IsFiniteSet(DOMAIN q) /\ Cardinality(DOMAIN q) <= c.capacity
    <3>1. IsFiniteSet(DOMAIN q) /\ Cardinality(DOMAIN q) = Cardinality(DOMAIN c.queue) + 1
      BY <1>0, <1>2, <1>4, FS_AddElement
    <3> QED
      BY <1>0, <3>1
  <2>3. /\ DOMAIN m \subseteq K /\ m \in [DOMAIN m -> DOMAIN q]
        /\ DOMAIN q \subseteq Nat \ {0} /\ q \in [DOMAIN q -> Entries(K, V)]
    <3>1. DOMAIN m \subseteq K /\ m \in [DOMAIN m -> DOMAIN q]
      BY <1>0, <1>4
    <3>2. DOMAIN q \subseteq Nat \ {0} /\ q \in [DOMAIN q -> Entries(K, V)]
      BY <1>0, <1>2, <1>3, <1>4
    <3> QED
      BY <3>1, <3>2
  <2>4. \A t \in DOMAIN m : q[m[t]].key = t
    BY <1>0, <1>4, <1>5
  <2>5. \A g \in DOMAIN q : q[g].key \in DOMAIN m /\ m[q[g].key] = g /\ q[g].priority >= c.inflation
    BY <1>0, <1>4, <1>5
  <2>6. [map |-> m, queue |-> q, inflation |-> c.inflation, capacity |-> c.capacity] \in CachesOf(K, V)
    BY ONLY <1>0, <2>1, <2>2, <2>3, <2>4, <2>5, CacheMade
  <2> QED
    BY <1>1, <2>6
<1>7. d.map = m /\ d.queue = q /\ d.inflation = c.inflation
  BY <1>1
<1>8. Entry(d, key) = e /\ \A t \in DOMAIN c.map : Entry(d, t) = Entry(c, t)
  BY <1>0, <1>4, <1>7 DEF Entry
<1>9. \A t \in DOMAIN d.map : Entry(d, t).value = IF t = key THEN value ELSE Entry(c, t).value
  BY <1>4, <1>5, <1>7, <1>8
<1>10. ASSUME NEW a \in [K -> Nat], NEW b \in [K -> Nat], Aging(c, a), b[key] = 0,
              \A t \in DOMAIN c.map : b[t] <= a[t], NEW t \in DOMAIN d.map
       PROVE  /\ Base(Entry(d, t)) \in Nat /\ Base(Entry(d, t)) <= d.inflation
              /\ b[t] + Cardinality(Peers(d, t)) <= (d.inflation - Base(Entry(d, t)) + 1) * (Capacity - 1)
  <2>1. Cardinality(Peers(d, t)) \in Nat /\ Cardinality(Peers(d, t)) <= Capacity - 1
    <3>1. Cardinality(DOMAIN d.queue) \in Nat
      BY <1>6, CacheFacts
    <3>2. /\ Cardinality(Peers(d, t)) \in Nat
          /\ Cardinality(Peers(d, t)) <= Cardinality(DOMAIN d.queue) - 1
          /\ Cardinality(DOMAIN d.queue) - 1 <= Capacity - 1
      BY <1>6, PeersFacts
    <3> QED
      BY <3>1, <3>2, CacheAssumption
  <2>2. CASE t = key
    <3>1. Base(Entry(d, t)) = c.inflation
      BY <2>2, <1>8, <1>5, <1>0 DEF Base
    <3>2. (c.inflation - c.inflation + 1) * (Capacity - 1) = Capacity - 1
      BY <1>0, CacheAssumption
    <3> QED
      BY <3>1, <3>2, <2>1, <2>2, <1>7, <1>0, <1>10
  <2>3. CASE t # key
    <3>0. t \in DOMAIN c.map
      BY <2>3, <1>4, <1>7
    <3>1. Entry(d, t) = Entry(c, t)
      BY <3>0, <1>8
    <3>2. Peers(d, t) \in SUBSET Peers(c, t)
      <4>1. q[h].priority # c.inflation
        BY <1>4, <1>5, <1>0
      <4> QED
        BY <4>1, <3>0, <1>4, <1>7 DEF Peers
    <3>3. IsFiniteSet(Peers(c, t)) /\ Cardinality(Peers(c, t)) \in Nat
      BY <3>0, PeersFacts
    <3>4. Cardinality(Peers(d, t)) <= Cardinality(Peers(c, t))
      BY <3>2, <3>3, FS_Subset
    <3>5. /\ Base(Entry(c, t)) \in Nat /\ Base(Entry(c, t)) <= c.inflation
          /\ a[t] + Cardinality(Peers(c, t)) <= (c.inflation - Base(Entry(c, t)) + 1) * (Capacity - 1)
      BY <3>0, <1>10 DEF Aging
    <3>6. (c.inflation - Base(Entry(c, t)) + 1) * (Capacity - 1) \in Int
      BY <3>5, <1>0, CacheAssumption
    <3>7. a[t] \in Nat /\ b[t] \in Nat /\ b[t] <= a[t]
      BY <3>0, <1>0, <1>10
    <3>8. b[t] + Cardinality(Peers(d, t)) <= a[t] + Cardinality(Peers(c, t))
      BY <3>3, <3>4, <3>7, <2>1
    <3> QED
      BY <3>1, <3>3, <3>5, <3>6, <3>7, <3>8, <2>1, <1>7
  <2> QED
    BY <2>2, <2>3
<1>11. \A a \in [K -> Nat], b \in [K -> Nat] :
         Aging(c, a) /\ b[key] = 0 /\ (\A t \in DOMAIN c.map : b[t] <= a[t]) => Aging(d, b)
  BY <1>10 DEF Aging
<1> QED
  BY <1>4, <1>6, <1>7, <1>9, <1>11

\* set() keeps the cache in order, and makes the other entries at most one eviction older.
LEMMA SetKeeps ==
  ASSUME NEW K, NEW V, NEW c \in CachesOf(K, V), NEW key \in K, NEW value \in V,
         NEW d \in Set(c, key, value)
  PROVE  /\ d \in CachesOf(K, V)
         /\ \A t \in DOMAIN d.map :
              /\ Entry(d, t).value = IF t = key THEN value ELSE Entry(c, t).value
              /\ t # key => t \in DOMAIN c.map
         /\ \A a \in [K -> Nat], b \in [K -> Nat] :
              /\ Aging(c, a) /\ b[key] = 0
              /\ \A t \in DOMAIN d.map \ {key} :
                   b[t] <= a[t] + IF ~Has(c, key) /\ Full(c) /\ c.capacity > 0 THEN 1 ELSE 0
              => Aging(d, b)
<1>0. /\ c.capacity \in Nat /\ Cardinality(DOMAIN c.queue) \in Nat /\ IsFiniteSet(DOMAIN c.queue)
      /\ Cardinality(DOMAIN c.queue) <= c.capacity /\ DOMAIN c.map \subseteq K
      /\ \A t \in DOMAIN c.map : c.map[t] \in DOMAIN c.queue
  BY CacheFacts
<1>1. CASE c.capacity = 0
  <2>1. d = c
    BY <1>1 DEF Set
  <2>2. DOMAIN c.map = {}
    BY <1>0, <1>1, FS_EmptySet
  <2> QED
    BY <2>1, <2>2 DEF Aging
<1>2. CASE c.capacity # 0 /\ Has(c, key)
  <2>1. d = Used(c, key, value) /\ key \in DOMAIN c.map
    BY <1>2 DEF Set, Has
  <2>2. /\ d \in CachesOf(K, V) /\ DOMAIN d.map = DOMAIN c.map
        /\ \A t \in DOMAIN d.map :
             Entry(d, t).value = IF t = key THEN value ELSE Entry(c, t).value
        /\ \A a \in [K -> Nat], b \in [K -> Nat] :
             Aging(c, a) /\ b[key] = 0 /\ (\A t \in DOMAIN d.map : b[t] <= a[t]) => Aging(d, b)
    <3>1. d \in CachesOf(K, V) /\ DOMAIN d.map = DOMAIN c.map
      BY <2>1, UsedKeeps
    <3>2. \A t \in DOMAIN d.map :
           Entry(d, t).value = IF t = key THEN value ELSE Entry(c, t).value
      BY <2>1, UsedKeeps
    <3>3. \A a \in [K -> Nat], b \in [K -> Nat] :
           Aging(c, a) /\ b[key] = 0 /\ (\A t \in DOMAIN d.map : b[t] <= a[t]) => Aging(d, b)
      BY <2>1, UsedKeeps
    <3> QED
      BY <3>1, <3>2, <3>3
  <2>3. ASSUME NEW a \in [K -> Nat], NEW b \in [K -> Nat], b[key] = 0, NEW t \in DOMAIN d.map,
               \A s \in DOMAIN d.map \ {key} :
                 b[s] <= a[s] + IF ~Has(c, key) /\ Full(c) /\ c.capacity > 0 THEN 1 ELSE 0
        PROVE  b[t] <= a[t]
    BY <1>0, <1>2, <2>2, <2>3
  <2> QED
    BY <2>2, <2>3
<1>3. CASE c.capacity # 0 /\ ~Has(c, key) /\ ~Full(c)
  <2>1. d = Push(c, key, value) /\ key \notin DOMAIN c.map /\ Cardinality(DOMAIN c.queue) < c.capacity
    BY <1>0, <1>3 DEF Set, Has, Full
  <2>2. /\ d \in CachesOf(K, V) /\ DOMAIN d.map = DOMAIN c.map \cup {key}
        /\ \A t \in DOMAIN d.map :
             Entry(d, t).value = IF t = key THEN value ELSE Entry(c, t).value
        /\ \A a \in [K -> Nat], b \in [K -> Nat] :
             Aging(c, a) /\ b[key] = 0 /\ (\A t \in DOMAIN c.map : b[t] <= a[t]) => Aging(d, b)
    BY <2>1, PushKeeps
  <2>3. ASSUME NEW a \in [K -> Nat], NEW b \in [K -> Nat], NEW t \in DOMAIN c.map,
               \A s \in DOMAIN d.map \ {key} :
                 b[s] <= a[s] + IF ~Has(c, key) /\ Full(c) /\ c.capacity > 0 THEN 1 ELSE 0
        PROVE  b[t] <= a[t]
    BY <1>0, <1>3, <2>1, <2>2, <2>3
  <2> QED
    BY <2>2, <2>3
<1>4. CASE c.capacity # 0 /\ ~Has(c, key) /\ Full(c)
  <2>1. PICK e \in Evict(c) : d = Push(e, key, value)
    BY <1>4 DEF Set
  <2>2. PICK h \in Tops(c) : e = Evicted(c, {h}, h)
    BY <2>1 DEF Evict, Evicted
  <2>3. /\ {h} \in SUBSET DOMAIN c.queue /\ h \in Highest(c, {h})
        /\ \A x \in {h} : \A g \in DOMAIN c.queue \ {h} : c.queue[x].priority <= c.queue[g].priority
    <3>1. h \in DOMAIN c.queue /\ \A g \in DOMAIN c.queue : c.queue[h].priority <= c.queue[g].priority
      BY DEF Tops
    <3> QED
      BY <3>1 DEF Highest
  <2>4. /\ e \in CachesOf(K, V) /\ e.capacity = c.capacity /\ DOMAIN e.queue = DOMAIN c.queue \ {h}
        /\ \A t \in DOMAIN e.map : t \in DOMAIN c.map /\ Entry(e, t) = Entry(c, t)
    <3>0. e = Evicted(c, {h}, h) /\ {h} \in SUBSET DOMAIN c.queue /\ h \in Highest(c, {h})
          /\ (\A x \in {h} : \A g \in DOMAIN c.queue \ {h} : c.queue[x].priority <= c.queue[g].priority)
          /\ c \in CachesOf(K, V)
      BY <2>2, <2>3
    <3>1. e \in CachesOf(K, V) /\ e.capacity = c.capacity /\ DOMAIN e.queue = DOMAIN c.queue \ {h}
      <4>1. e \in CachesOf(K, V)
        BY ONLY <3>0, EvictedKeeps
      <4>2. e.capacity = c.capacity
        BY ONLY <3>0, EvictedKeeps
      <4>3. DOMAIN e.queue = DOMAIN c.queue \ {h}
        BY ONLY <3>0, EvictedKeeps
      <4> QED
        BY <4>1, <4>2, <4>3
    <3>2. \A t \in DOMAIN e.map : t \in DOMAIN c.map /\ Entry(e, t) = Entry(c, t)
      BY ONLY <3>0, EvictedKeeps
    <3> QED
      BY <3>1, <3>2
  <2>5. Cardinality(DOMAIN e.queue) < e.capacity
    <3>1. Cardinality(DOMAIN e.queue) = Cardinality(DOMAIN c.queue) - 1
      <4>1. h \in DOMAIN c.queue
        BY <2>3
      <4>2. Cardinality(DOMAIN c.queue \ {h}) = Cardinality(DOMAIN c.queue) - 1
        BY <1>0, <4>1, FS_RemoveElement
      <4> QED
        BY <4>2, <2>4
    <3> QED
      BY <3>1, <1>0, <2>4
  <2>6. key \notin DOMAIN e.map /\ key \notin DOMAIN c.map
    BY <1>4, <2>4 DEF Has
  <2>7. /\ d \in CachesOf(K, V) /\ DOMAIN d.map = DOMAIN e.map \cup {key}
        /\ \A t \in DOMAIN d.map :
             Entry(d, t).value = IF t = key THEN value ELSE Entry(e, t).value
        /\ \A a \in [K -> Nat], b \in [K -> Nat] :
             Aging(e, a) /\ b[key] = 0 /\ (\A t \in DOMAIN e.map : b[t] <= a[t]) => Aging(d, b)
    <3>0. /\ d = Push(e, key, value) /\ e \in CachesOf(K, V) /\ key \in K /\ key \notin DOMAIN e.map
          /\ value \in V /\ Cardinality(DOMAIN e.queue) < e.capacity
      BY <2>1, <2>4, <2>5, <2>6
    <3>1. d \in CachesOf(K, V) /\ DOMAIN d.map = DOMAIN e.map \cup {key}
      BY ONLY <3>0, PushKeeps
    <3>2. \A t \in DOMAIN d.map :
           Entry(d, t).value = IF t = key THEN value ELSE Entry(e, t).value
      BY ONLY <3>0, PushKeeps
    <3>3. \A a \in [K -> Nat], b \in [K -> Nat] :
           Aging(e, a) /\ b[key] = 0 /\ (\A t \in DOMAIN e.map : b[t] <= a[t]) => Aging(d, b)
      BY ONLY <3>0, PushKeeps
    <3> QED
      BY <3>1, <3>2, <3>3
  <2>8. ASSUME NEW a \in [K -> Nat], NEW b \in [K -> Nat], Aging(c, a), b[key] = 0,
               \A t \in DOMAIN d.map \ {key} :
                 b[t] <= a[t] + IF ~Has(c, key) /\ Full(c) /\ c.capacity > 0 THEN 1 ELSE 0
        PROVE  Aging(d, b)
    <3> DEFINE older == [t \in K |-> a[t] + 1]
    <3>1. older \in [K -> Nat] /\ \A t \in K : older[t] = a[t] + 1
      OBVIOUS
    <3>2. Cardinality({h}) = 1
      BY FS_Singleton
    <3>3. \A t \in DOMAIN e.map : older[t] <= a[t] + Cardinality({h})
      BY <3>1, <3>2, <2>4, <1>0
    <3> HIDE DEF older
    <3>4. Aging(e, older)
      BY <2>2, <2>3, <2>8, <3>1, <3>3, EvictedAge
    <3>5. \A t \in DOMAIN e.map : b[t] <= older[t]
      <4> SUFFICES ASSUME NEW t \in DOMAIN e.map PROVE b[t] <= a[t] + 1
        BY <3>1, <2>4, <1>0
      <4>1. t \in DOMAIN d.map \ {key} /\ c.capacity > 0
        BY <1>0, <1>4, <2>6, <2>7
      <4> QED
        BY <4>1, <1>4, <2>8
    <3> QED
      BY <2>7, <2>8, <3>1, <3>4, <3>5
  <2>9. \A t \in DOMAIN d.map :
          /\ Entry(d, t).value = IF t = key THEN value ELSE Entry(c, t).value
          /\ t # key => t \in DOMAIN c.map
    BY <2>4, <2>7
  <2> QED
    BY <2>7, <2>8, <2>9
<1> QED
  BY <1>1, <1>2, <1>3, <1>4

\* A new capacity that the entries do not exceed changes nothing else.
LEMMA RoomKeeps ==
  ASSUME NEW K, NEW V, NEW c \in CachesOf(K, V), NEW n \in 0..Capacity,
         Cardinality(DOMAIN c.queue) <= n, NEW d, d = [c EXCEPT !.capacity = n]
  PROVE  /\ d \in CachesOf(K, V) /\ d.map = c.map /\ d.queue = c.queue /\ d.inflation = c.inflation
         /\ \A t \in DOMAIN c.map : Entry(d, t) = Entry(c, t)
         /\ \A a : Aging(c, a) => Aging(d, a)
<1>0. /\ c = [map |-> c.map, queue |-> c.queue, inflation |-> c.inflation, capacity |-> c.capacity]
      /\ DOMAIN c.map \subseteq K /\ c.map \in [DOMAIN c.map -> DOMAIN c.queue]
      /\ DOMAIN c.queue \subseteq Nat \ {0} /\ c.queue \in [DOMAIN c.queue -> Entries(K, V)]
      /\ c.inflation \in Nat /\ IsFiniteSet(DOMAIN c.queue)
      /\ \A t \in DOMAIN c.map : c.queue[c.map[t]].key = t
      /\ \A g \in DOMAIN c.queue :
           /\ c.queue[g].key \in DOMAIN c.map /\ c.map[c.queue[g].key] = g
           /\ c.queue[g].priority >= c.inflation
  BY CacheFacts
<1>1. d = [map |-> c.map, queue |-> c.queue, inflation |-> c.inflation, capacity |-> n]
  BY <1>0
<1>2. [map |-> c.map, queue |-> c.queue, inflation |-> c.inflation, capacity |-> n] \in CachesOf(K, V)
  BY ONLY <1>0, Cardinality(DOMAIN c.queue) <= n, n \in 0..Capacity, CacheMade
<1>3. d \in CachesOf(K, V) /\ d.map = c.map /\ d.queue = c.queue /\ d.inflation = c.inflation
  BY <1>1, <1>2
<1>4. \A t : Entry(d, t) = Entry(c, t) /\ Peers(d, t) = Peers(c, t)
  BY <1>3 DEF Entry, Peers
<1> QED
  BY <1>3, <1>4 DEF Aging

\* resize() keeps the cache in order, and what it leaves is older by its evictions.
LEMMA ResizeKeeps ==
  ASSUME NEW K, NEW V, NEW c \in CachesOf(K, V), NEW n \in 0..Capacity, NEW d \in Resize(c, n)
  PROVE  /\ d \in CachesOf(K, V)
         /\ \A t \in DOMAIN d.map : t \in DOMAIN c.map /\ Entry(d, t) = Entry(c, t)
         /\ Cardinality(DOMAIN c.queue) - Cardinality(DOMAIN d.queue) \in Nat
         /\ \A a \in [K -> Nat], b \in [K -> Nat] :
              /\ Aging(c, a)
              /\ \A t \in DOMAIN d.map :
                   b[t] <= a[t] + (Cardinality(DOMAIN c.queue) - Cardinality(DOMAIN d.queue))
              => Aging(d, b)
<1>0. /\ Cardinality(DOMAIN c.queue) \in Nat /\ IsFiniteSet(DOMAIN c.queue)
      /\ DOMAIN c.map \subseteq K /\ n \in Nat
  BY CacheFacts, CacheAssumption
<1>1. CASE Cardinality(DOMAIN c.queue) <= n
  <2>1. d = [c EXCEPT !.capacity = n]
    BY <1>1 DEF Resize
  <2>2. /\ d \in CachesOf(K, V) /\ d.map = c.map /\ d.queue = c.queue
        /\ \A t \in DOMAIN c.map : Entry(d, t) = Entry(c, t)
        /\ \A a : Aging(c, a) => Aging(d, a)
    BY <1>1, <2>1, RoomKeeps
  <2>3. Cardinality(DOMAIN c.queue) - Cardinality(DOMAIN d.queue) = 0
    BY <2>2, <1>0
  <2>4. ASSUME NEW a \in [K -> Nat], NEW b \in [K -> Nat], Aging(c, a),
               \A t \in DOMAIN d.map :
                 b[t] <= a[t] + (Cardinality(DOMAIN c.queue) - Cardinality(DOMAIN d.queue))
        PROVE  Aging(d, b)
    <3> SUFFICES ASSUME NEW t \in DOMAIN d.map
                 PROVE  /\ Base(Entry(d, t)) \in Nat /\ Base(Entry(d, t)) <= d.inflation
                        /\ b[t] + Cardinality(Peers(d, t))
                             <= (d.inflation - Base(Entry(d, t)) + 1) * (Capacity - 1)
      BY DEF Aging
    <3>1. /\ Base(Entry(d, t)) \in Nat /\ Base(Entry(d, t)) <= d.inflation
          /\ a[t] + Cardinality(Peers(d, t)) <= (d.inflation - Base(Entry(d, t)) + 1) * (Capacity - 1)
      BY <2>2, <2>4 DEF Aging
    <3>2. b[t] <= a[t] /\ a[t] \in Nat /\ b[t] \in Nat
      BY <2>2, <2>3, <2>4, <1>0
    <3>3. Cardinality(Peers(d, t)) \in Nat /\ d.inflation \in Nat
      BY <2>2, PeersFacts, CacheFacts
    <3>4. (d.inflation - Base(Entry(d, t)) + 1) * (Capacity - 1) \in Int
      BY <3>1, <3>3, CacheAssumption
    <3> QED
      BY <3>1, <3>2, <3>3, <3>4
  <2> QED
    BY <2>2, <2>3, <2>4
<1>2. CASE ~(Cardinality(DOMAIN c.queue) <= n)
  <2>1. PICK gone \in Excesses(c, n) : \E last \in Highest(c, gone) :
          d = [Without(c, gone) EXCEPT !.inflation = c.queue[last].priority, !.capacity = n]
    BY <1>2 DEF Resize
  <2>2. PICK last \in Highest(c, gone) :
          d = [Without(c, gone) EXCEPT !.inflation = c.queue[last].priority, !.capacity = n]
    BY <2>1
  <2>3. /\ gone \in SUBSET DOMAIN c.queue /\ Cardinality(DOMAIN c.queue \ gone) = n
        /\ \A h \in gone : \A g \in DOMAIN c.queue \ gone : c.queue[h].priority <= c.queue[g].priority
    BY DEF Excesses
  <2> DEFINE e == Evicted(c, gone, last)
  <2>4. d = [e EXCEPT !.capacity = n]
    BY <2>2 DEF Evicted
  <2> HIDE DEF e
  <2>5. /\ e \in CachesOf(K, V) /\ DOMAIN e.queue = DOMAIN c.queue \ gone
        /\ \A t \in DOMAIN e.map : t \in DOMAIN c.map /\ Entry(e, t) = Entry(c, t)
    BY <2>3, EvictedKeeps DEF e
  <2>6. Cardinality(DOMAIN e.queue) = n /\ n <= n
    BY <2>3, <2>5, <1>0
  <2>7. /\ d \in CachesOf(K, V) /\ d.map = e.map /\ d.queue = e.queue
        /\ \A t \in DOMAIN e.map : Entry(d, t) = Entry(e, t)
        /\ \A a : Aging(e, a) => Aging(d, a)
    <3>0. /\ d = [e EXCEPT !.capacity = n] /\ e \in CachesOf(K, V) /\ n \in 0..Capacity
          /\ Cardinality(DOMAIN e.queue) <= n
      BY <2>4, <2>5, <2>6
    <3>1. d \in CachesOf(K, V) /\ d.map = e.map /\ d.queue = e.queue
      BY ONLY <3>0, RoomKeeps
    <3>2. \A t \in DOMAIN e.map : Entry(d, t) = Entry(e, t)
      BY ONLY <3>0, RoomKeeps
    <3>3. \A a : Aging(e, a) => Aging(d, a)
      BY ONLY <3>0, RoomKeeps
    <3> QED
      BY <3>1, <3>2, <3>3
  <2>8. Cardinality(gone) = Cardinality(DOMAIN c.queue) - Cardinality(DOMAIN d.queue)
        /\ Cardinality(gone) \in Nat
    <3> DEFINE rest == DOMAIN c.queue \ gone
    <3>1. rest \in SUBSET DOMAIN c.queue /\ gone \cap rest = {} /\ gone \cup rest = DOMAIN c.queue
      BY <2>3
    <3>2. rest = DOMAIN d.queue
      BY <2>5, <2>7
    <3> HIDE DEF rest
    <3>3. /\ Cardinality(gone) \in Nat /\ Cardinality(rest) \in Nat
          /\ Cardinality(gone \cup rest) = Cardinality(gone) + Cardinality(rest)
      BY <3>1, <2>3, <1>0, TwoParts
    <3>4. gone \cup rest = DOMAIN c.queue
      BY <3>1
    <3>5. Cardinality(DOMAIN c.queue) = Cardinality(gone) + Cardinality(rest)
      BY <3>3, <3>4
    <3> QED
      BY <3>2, <3>3, <3>5
  <2>9. ASSUME NEW a \in [K -> Nat], NEW b \in [K -> Nat], Aging(c, a),
               \A t \in DOMAIN d.map :
                 b[t] <= a[t] + (Cardinality(DOMAIN c.queue) - Cardinality(DOMAIN d.queue))
        PROVE  Aging(d, b)
    <3>1. \A t \in DOMAIN e.map : b[t] <= a[t] + Cardinality(gone)
      BY <2>7, <2>8, <2>9
    <3>2. Aging(e, b)
      BY <2>3, <2>9, <3>1, EvictedAge DEF e
    <3> QED
      BY <3>2, <2>7
  <2> QED
    BY <2>5, <2>7, <2>8, <2>9
<1> QED
  BY <1>1, <1>2

\* clear() leaves a cache in order, in which nothing can be old.
LEMMA ClearKeeps ==
  ASSUME NEW K, NEW V, NEW c \in CachesOf(K, V)
  PROVE  Clear(c) \in CachesOf(K, V) /\ DOMAIN Clear(c).map = {}
<1>1. /\ c = [map |-> c.map, queue |-> c.queue, inflation |-> c.inflation, capacity |-> c.capacity]
      /\ c.inflation \in Nat /\ c.capacity \in Nat /\ c.capacity <= Capacity
  BY CacheFacts
<1>2. Clear(c) = [map |-> <<>>, queue |-> <<>>, inflation |-> c.inflation, capacity |-> c.capacity]
  <2>1. Clear(c) = [c EXCEPT !.map = <<>>, !.queue = <<>>]
    BY DEF Clear
  <2>2. ASSUME NEW m, NEW q, NEW d, d = [c EXCEPT !.map = m, !.queue = q]
        PROVE  d = [map |-> m, queue |-> q, inflation |-> c.inflation, capacity |-> c.capacity]
    BY <1>1, <2>2
  <2> QED
    BY <2>1, <2>2
<1>3. DOMAIN <<>> = {} /\ <<>> \in [DOMAIN <<>> -> DOMAIN <<>>] /\ <<>> \in [DOMAIN <<>> -> Entries(K, V)]
  OBVIOUS
<1>4. IsFiniteSet(DOMAIN <<>>) /\ Cardinality(DOMAIN <<>>) = 0
  BY <1>3, FS_EmptySet
<1>5. c.capacity \in 0..Capacity /\ Cardinality(DOMAIN <<>>) <= c.capacity
  BY <1>1, <1>4, CacheAssumption
<1>6. [map |-> <<>>, queue |-> <<>>, inflation |-> c.inflation, capacity |-> c.capacity] \in CachesOf(K, V)
  BY <1>1, <1>3, <1>4, <1>5, CacheMade
<1> QED
  BY <1>2, <1>3, <1>6

\* A cache without entries is in order.
LEMMA EmptyCacheGood ==
  ASSUME NEW K, NEW V, NEW n \in 0..Capacity
  PROVE  EmptyCache(n) \in CachesOf(K, V) /\ DOMAIN EmptyCache(n).map = {}
<1>1. DOMAIN <<>> = {} /\ <<>> \in [DOMAIN <<>> -> DOMAIN <<>>] /\ <<>> \in [DOMAIN <<>> -> Entries(K, V)]
  OBVIOUS
<1>2. IsFiniteSet(DOMAIN <<>>) /\ Cardinality(DOMAIN <<>>) <= n
  BY <1>1, FS_EmptySet, CacheAssumption
<1>3. [map |-> <<>>, queue |-> <<>>, inflation |-> 0, capacity |-> n] \in CachesOf(K, V)
  BY <1>1, <1>2, CacheMade
<1> QED
  BY <1>1, <1>3 DEF EmptyCache

----------------------------------------------------------------------------
(* The inductive invariant.                                                *)

\* A logical plan validates if it is one of a query made for MVCC, a physical plan if it also
\* carries a transaction context.
LogicalPlans == {p \in [object : Clients, text : Texts, layout : Nat, validated : BOOLEAN] :
                   p.validated => p.text \in Reads}
PhysicalPlans == {p \in [object : Clients, text : Texts, layout : Nat, validated : BOOLEAN,
                         context : BOOLEAN] :
                    p.validated = (p.context /\ p.text \in Reads)}
Plans(level) == IF level = "lqp" THEN LogicalPlans ELSE PhysicalPlans

\* A cache leads from a text to a plan of that text, and from no text that must stay out.
Stored(c) ==
  \A text \in DOMAIN c.map : text \notin Uncacheable /\ Entry(c, text).value.text = text

Caches ==
  /\ cache = [level \in Levels |-> cache[level]] /\ age \in [Levels -> [Texts -> Nat]]
  /\ \A level \in Levels : /\ cache[level] \in CachesOf(Texts, Plans(level))
                           /\ Stored(cache[level]) /\ Aging(cache[level], age[level])

Statements ==
  [pc : {"lqp", "optimize", "store", "translate", "precheck", "execute"}, text : Texts,
   mvcc : BOOLEAN, began : Nat, cacheable : BOOLEAN, lqp : LogicalPlans \cup {NoPlan},
   pqp : PhysicalPlans \cup {NoPlan}]

Types ==
  /\ statement \in [Clients -> {Idle} \cup Statements]
  /\ started \in [Clients -> Nat] /\ \A c \in Clients : started[c] <= MaxStatements[c]
  /\ table \in [layout : Nat, dropped : BOOLEAN]

\* The plan that a statement works on is an object of its own, made for its text and mode.
Fitting(c, s) ==
  /\ s.pc \in {"store", "translate"} =>
       /\ s.lqp \in LogicalPlans /\ s.lqp.object = c /\ s.lqp.text = s.text
       /\ s.lqp.validated = (s.mvcc /\ s.text \in Reads)
       /\ s.cacheable => s.text \notin Uncacheable
  /\ s.pc \in {"precheck", "execute"} =>
       /\ s.pqp \in PhysicalPlans /\ s.pqp.object = c /\ s.pqp.text = s.text
       /\ s.pqp.context = s.mvcc

IInv == Types /\ Caches /\ \A c \in Clients : Fitting(c, statement[c])

----------------------------------------------------------------------------
(* What an access leaves of the caches.                                    *)

\* What is found in a cache was made for its text.
LEMMA StoredFacts ==
  ASSUME Caches, NEW level \in Levels, NEW text \in DOMAIN cache[level].map
  PROVE  /\ text \in Texts /\ text \notin Uncacheable
         /\ Cached(level, text) \in Plans(level) /\ Cached(level, text).text = text
<1> DEFINE c == cache[level]
<1>1. c \in CachesOf(Texts, Plans(level)) /\ Stored(c)
  BY DEF Caches
<1> HIDE DEF c
<1>2. /\ DOMAIN c.map \subseteq Texts /\ \A t \in DOMAIN c.map : c.map[t] \in DOMAIN c.queue
      /\ \A h \in DOMAIN c.queue : c.queue[h] \in Entries(Texts, Plans(level))
  BY <1>1, CacheFacts
<1>3. text \in DOMAIN c.map
  BY DEF c
<1>4. Entry(c, text) \in Entries(Texts, Plans(level))
  BY <1>2, <1>3 DEF Entry
<1>5. Entry(c, text).value \in Plans(level)
  BY <1>4 DEF Entries
<1>6. text \notin Uncacheable /\ Entry(c, text).value.text = text
  BY <1>1, <1>3 DEF Stored
<1> QED
  BY <1>2, <1>3, <1>5, <1>6 DEF Cached, c

\* The new ages of the keys of one cache.
LEMMA NewAges ==
  ASSUME Caches, NEW level \in Levels, NEW new, NEW used, NEW n \in Nat,
         age' = Aged(level, new, used, n)
  PROVE  \E b \in [Texts -> Nat] :
           /\ age' = [age EXCEPT ![level] = b]
           /\ \A t \in Texts : b[t] = IF t \in used \/ ~Has(new, t) THEN 0 ELSE age[level][t] + n
<1> DEFINE b == [t \in Texts |-> IF t \in used \/ ~Has(new, t) THEN 0 ELSE age[level][t] + n]
<1>1. age \in [Levels -> [Texts -> Nat]]
  BY DEF Caches
<1>2. b \in [Texts -> Nat]
  BY <1>1
<1>3. age' = [age EXCEPT ![level] = b]
  BY DEF Aged
<1> QED
  BY <1>2, <1>3

\* What to show of the one cache that changes.
LEMMA LevelChange ==
  ASSUME Caches, NEW level \in Levels, NEW new, NEW b \in [Texts -> Nat],
         cache' = [cache EXCEPT ![level] = new], age' = [age EXCEPT ![level] = b],
         new \in CachesOf(Texts, Plans(level)), Stored(new), Aging(new, b)
  PROVE  Caches'
<1>1. age \in [Levels -> [Texts -> Nat]] /\ cache = [l \in Levels |-> cache[l]]
  BY DEF Caches
<1>2. age' \in [Levels -> [Texts -> Nat]] /\ age'[level] = b
      /\ \A l \in Levels \ {level} : age'[l] = age[l]
  BY <1>1
<1>3. cache' = [l \in Levels |-> cache'[l]] /\ cache'[level] = new
      /\ \A l \in Levels \ {level} : cache'[l] = cache[l]
  BY <1>1
<1>4. ASSUME NEW l \in Levels
      PROVE  cache'[l] \in CachesOf(Texts, Plans(l)) /\ Stored(cache'[l]) /\ Aging(cache'[l], age'[l])
  <2>1. CASE l = level
    BY <2>1, <1>2, <1>3
  <2>2. CASE l # level
    BY <2>2, <1>2, <1>3 DEF Caches
  <2> QED
    BY <2>1, <2>2
<1> QED
  BY <1>2, <1>3, <1>4 DEF Caches

\* A lookup that finds a plan.
LEMMA GetFromKeeps ==
  ASSUME Caches, NEW level \in Levels, NEW text \in Texts, Has(cache[level], text),
         GetFrom(level, text)
  PROVE  Caches'
<1> DEFINE c == cache[level]
           new == UsedByGet(c, text)
           value == Entry(c, text).value
<1>1. c \in CachesOf(Texts, Plans(level)) /\ Stored(c) /\ Aging(c, age[level])
      /\ age[level] \in [Texts -> Nat]
  BY DEF Caches
<1>2. text \in DOMAIN c.map /\ value \in Plans(level)
  BY StoredFacts DEF Has, Cached
<1>3. cache' = [cache EXCEPT ![level] = new] /\ age' = Aged(level, new, {text}, 0)
  BY DEF GetFrom
<1>4. new = Used(c, text, value)
  BY DEF UsedByGet
<1> HIDE DEF c, new, value
<1>5. new \in CachesOf(Texts, Plans(level)) /\ DOMAIN new.map = DOMAIN c.map
  BY ONLY <1>1, <1>2, <1>4, UsedKeeps
<1>6. \A t \in DOMAIN new.map : Entry(new, t).value = IF t = text THEN value ELSE Entry(c, t).value
  BY ONLY <1>1, <1>2, <1>4, UsedKeeps
<1>7. Stored(new)
  BY <1>1, <1>5, <1>6 DEF Stored, value
<1>8. PICK b \in [Texts -> Nat] :
        /\ age' = [age EXCEPT ![level] = b]
        /\ \A t \in Texts : b[t] = IF t \in {text} \/ ~Has(new, t) THEN 0 ELSE age[level][t] + 0
  <2> DEFINE used == {text}
             zero == 0
  <2>1. age' = Aged(level, new, used, zero) /\ zero \in Nat
    BY <1>3
  <2> HIDE DEF used, zero
  <2>2. PICK b \in [Texts -> Nat] :
          /\ age' = [age EXCEPT ![level] = b]
          /\ \A t \in Texts : b[t] = IF t \in used \/ ~Has(new, t) THEN 0 ELSE age[level][t] + zero
    BY <2>1, NewAges
  <2> QED
    BY <2>2 DEF used, zero
<1>9. b[text] = 0 /\ \A t \in DOMAIN new.map : b[t] <= age[level][t]
  <2>1. DOMAIN new.map \subseteq Texts
    BY <1>5, CacheFacts
  <2> QED
    BY <1>1, <1>8, <2>1
<1>10. Aging(new, b)
  BY ONLY <1>1, <1>2, <1>4, <1>9, b \in [Texts -> Nat], UsedKeeps
<1> QED
  BY <1>3, <1>5, <1>7, <1>8, <1>10, LevelChange

\* A plan is stored.
LEMMA PutIntoKeeps ==
  ASSUME Caches, NEW level \in Levels, NEW text \in Texts \ Uncacheable, NEW plan \in Plans(level),
         plan.text = text, PutInto(level, text, plan)
  PROVE  Caches'
<1> DEFINE c == cache[level]
           more == ~Has(c, text) /\ Full(c) /\ c.capacity > 0
           n == IF more THEN 1 ELSE 0
<1>1. c \in CachesOf(Texts, Plans(level)) /\ Stored(c) /\ Aging(c, age[level])
      /\ age[level] \in [Texts -> Nat]
  BY DEF Caches
<1>2. PICK new \in Set(c, text, plan) :
        cache' = [cache EXCEPT ![level] = new] /\ age' = Aged(level, new, {text}, n)
  BY DEF PutInto
<1> HIDE DEF c
<1>3. new \in CachesOf(Texts, Plans(level))
  BY <1>1, SetKeeps
<1>4. \A t \in DOMAIN new.map :
        /\ Entry(new, t).value = IF t = text THEN plan ELSE Entry(c, t).value
        /\ t # text => t \in DOMAIN c.map
  BY <1>1, SetKeeps
<1>5. Stored(new)
  BY <1>1, <1>4 DEF Stored
<1>6. n \in Nat
  OBVIOUS
<1>7. PICK b \in [Texts -> Nat] :
        /\ age' = [age EXCEPT ![level] = b]
        /\ \A t \in Texts : b[t] = IF t \in {text} \/ ~Has(new, t) THEN 0 ELSE age[level][t] + n
  <2> DEFINE used == {text}
  <2>1. age' = Aged(level, new, used, n)
    BY <1>2
  <2> HIDE DEF n, used
  <2>2. PICK b \in [Texts -> Nat] :
          /\ age' = [age EXCEPT ![level] = b]
          /\ \A t \in Texts : b[t] = IF t \in used \/ ~Has(new, t) THEN 0 ELSE age[level][t] + n
    BY <2>1, <1>6, NewAges
  <2> QED
    BY <2>2 DEF used
<1>8. b[text] = 0
      /\ \A t \in DOMAIN new.map \ {text} :
           b[t] <= age[level][t] + IF ~Has(c, text) /\ Full(c) /\ c.capacity > 0 THEN 1 ELSE 0
  <2>1. DOMAIN new.map \subseteq Texts
    BY <1>3, CacheFacts
  <2> QED
    BY <1>1, <1>7, <2>1 DEF Has
<1>9. Aging(new, b)
  <2>1. new \in Set(c, text, plan) /\ text \in Texts /\ plan \in Plans(level)
    OBVIOUS
  <2> QED
    BY ONLY <1>1, <1>8, <2>1, b \in [Texts -> Nat], SetKeeps
<1> QED
  BY <1>2, <1>3, <1>5, <1>7, <1>9, LevelChange

\* All plans go.
LEMMA ClearCacheKeeps ==
  ASSUME Caches, NEW level \in Levels, ClearCache(level)
  PROVE  Caches'
<1> DEFINE new == Clear(cache[level])
<1>1. cache' = [cache EXCEPT ![level] = new] /\ age' = Aged(level, new, {}, 0)
  BY DEF ClearCache, Caches
<1>2. new \in CachesOf(Texts, Plans(level)) /\ DOMAIN new.map = {}
  BY ClearKeeps DEF Caches
<1> HIDE DEF new
<1>3. Stored(new) /\ \A b : Aging(new, b)
  BY <1>2 DEF Stored, Aging
<1>4. PICK b \in [Texts -> Nat] : age' = [age EXCEPT ![level] = b]
  BY <1>1, NewAges
<1> QED
  BY <1>1, <1>2, <1>3, <1>4, LevelChange

\* Plans go until the rest has room.
LEMMA ResizeCacheKeeps ==
  ASSUME Caches, NEW level \in Levels, NEW capacity \in 0..Capacity, ResizeCache(level, capacity)
  PROVE  Caches'
<1> DEFINE c == cache[level]
<1>1. c \in CachesOf(Texts, Plans(level)) /\ Stored(c) /\ Aging(c, age[level])
      /\ age[level] \in [Texts -> Nat]
  BY DEF Caches
<1>2. PICK new \in Resize(c, capacity) :
        /\ cache' = [cache EXCEPT ![level] = new]
        /\ age' = Aged(level, new, {}, Cardinality(DOMAIN c.queue) - Cardinality(DOMAIN new.queue))
  BY DEF ResizeCache
<1> DEFINE n == Cardinality(DOMAIN c.queue) - Cardinality(DOMAIN new.queue)
<1> HIDE DEF c
<1>3. new \in CachesOf(Texts, Plans(level)) /\ n \in Nat
  BY <1>1, ResizeKeeps
<1>4. \A t \in DOMAIN new.map : t \in DOMAIN c.map /\ Entry(new, t) = Entry(c, t)
  BY <1>1, ResizeKeeps
<1>5. Stored(new)
  BY <1>1, <1>4 DEF Stored
<1>6. PICK b \in [Texts -> Nat] :
        /\ age' = [age EXCEPT ![level] = b]
        /\ \A t \in Texts : b[t] = IF t \in {} \/ ~Has(new, t) THEN 0 ELSE age[level][t] + n
  <2>1. age' = Aged(level, new, {}, n)
    BY <1>2
  <2> HIDE DEF n
  <2> QED
    BY <1>3, <2>1, NewAges
<1>7. \A t \in DOMAIN new.map : b[t] <= age[level][t] + n
  <2>1. DOMAIN new.map \subseteq Texts
    BY <1>3, CacheFacts
  <2> QED
    BY <1>1, <1>3, <1>6, <2>1 DEF Has
<1>8. Aging(new, b)
  <2>1. new \in Resize(c, capacity) /\ capacity \in 0..Capacity
    OBVIOUS
  <2> QED
    BY ONLY <1>1, <1>7, <2>1, b \in [Texts -> Nat], ResizeKeeps
<1> QED
  BY <1>2, <1>3, <1>5, <1>6, <1>8, LevelChange

----------------------------------------------------------------------------
(* The steps of a statement.                                               *)

\* What to show of the one statement that changes.
LEMMA StatementChange ==
  ASSUME IInv, NEW c \in Clients, NEW s \in {Idle} \cup Statements, Fitting(c, s),
         statement' = [statement EXCEPT ![c] = s],
         started' \in [Clients -> Nat], \A d \in Clients : started'[d] <= MaxStatements[d],
         table' \in [layout : Nat, dropped : BOOLEAN], Caches'
  PROVE  IInv'
<1>1. statement \in [Clients -> {Idle} \cup Statements]
  BY DEF IInv, Types
<1>2. statement' \in [Clients -> {Idle} \cup Statements] /\ statement'[c] = s
      /\ \A d \in Clients \ {c} : statement'[d] = statement[d]
  BY <1>1
<1>3. ASSUME NEW d \in Clients PROVE Fitting(d, statement'[d])
  BY <1>2 DEF IInv
<1> QED
  BY <1>2, <1>3 DEF IInv, Types

\* A step that looks at no cache.
LEMMA CachesUnchanged == ASSUME Caches, UNCHANGED <<cache, age>> PROVE Caches'
  BY DEF Caches

\* An idle client has no plan.
LEMMA IdleFits == ASSUME NEW c PROVE Fitting(c, Idle)
  BY DEF Fitting, Idle

\* What a client is that has begun a statement.
LEMMA Begun ==
  ASSUME IInv, NEW c \in Clients, statement[c].pc # "idle"
  PROVE  statement[c] \in Statements /\ Fitting(c, statement[c])
  BY DEF IInv, Types, Idle

\* A copy of a plan found has its text and mode; otherwise the statement has no plan yet.
LEMMA FindPhysicalPlanStep ==
  ASSUME IInv, NEW c \in Clients, NEW kind \in Kinds, FindPhysicalPlan(c, kind)
  PROVE  IInv'
<1> DEFINE new == [pc |-> "lqp", text |-> kind.text, mvcc |-> kind.mvcc, began |-> table.layout,
                   cacheable |-> TRUE, lqp |-> NoPlan, pqp |-> NoPlan]
           found == Cached("pqp", kind.text)
           copy == Copy(found, c)
           ready == [new EXCEPT !.pc = Ready(kind.text), !.pqp = copy]
<1>1. /\ started \in [Clients -> Nat] /\ \A d \in Clients : started[d] <= MaxStatements[d]
      /\ table \in [layout : Nat, dropped : BOOLEAN] /\ Caches
  BY DEF IInv, Types
<1>2. started' \in [Clients -> Nat] /\ \A d \in Clients : started'[d] <= MaxStatements[d]
  BY <1>1, CacheAssumption DEF FindPhysicalPlan
<1>3. table' \in [layout : Nat, dropped : BOOLEAN]
  BY <1>1 DEF FindPhysicalPlan
<1>4. kind.text \in Texts /\ kind.mvcc \in BOOLEAN /\ "pqp" \in Levels
  BY CacheAssumption DEF Texts, Levels
<1>5. new \in Statements /\ Fitting(c, new)
  BY <1>1, <1>4 DEF Statements, Fitting
<1>6. CASE Has(cache["pqp"], kind.text)
  <2>1. GetFrom("pqp", kind.text)
        /\ statement' = [statement EXCEPT ![c] = IF found.context # kind.mvcc THEN Idle ELSE ready]
    BY <1>6 DEF FindPhysicalPlan
  <2>2. Caches'
    BY <1>1, <1>4, <1>6, <2>1, GetFromKeeps
  <2>3. found \in PhysicalPlans /\ found.text = kind.text
    BY <1>1, <1>4, <1>6, StoredFacts DEF Has, Plans
  <2>4. copy \in PhysicalPlans /\ copy.object = c /\ copy.text = kind.text
        /\ copy.context = found.context
    <3> HIDE DEF found
    <3> QED
      BY <2>3 DEF PhysicalPlans, Copy
  <2>5. CASE found.context # kind.mvcc
    BY <1>2, <1>3, <2>1, <2>2, <2>5, IdleFits, StatementChange
  <2>6. CASE found.context = kind.mvcc
    <3> HIDE DEF found, copy
    <3>1. /\ ready.pc = Ready(kind.text) /\ ready.text = kind.text /\ ready.mvcc = kind.mvcc
          /\ ready.pqp = copy
      OBVIOUS
    <3>2. ready \in Statements
      BY <1>1, <1>4, <2>4 DEF Statements, Ready
    <3>3. Ready(kind.text) \in {"precheck", "execute"}
      BY DEF Ready
    <3> HIDE DEF ready
    <3>4. Fitting(c, ready)
      BY <2>4, <2>6, <3>1, <3>3 DEF Fitting
    <3>5. statement' = [statement EXCEPT ![c] = ready]
      BY <2>1, <2>6
    <3> QED
      BY <1>2, <1>3, <2>2, <3>2, <3>4, <3>5, StatementChange
  <2> QED
    BY <2>5, <2>6
<1>7. CASE ~Has(cache["pqp"], kind.text)
  <2>1. UNCHANGED <<cache, age>> /\ statement' = [statement EXCEPT ![c] = new]
    BY <1>7 DEF FindPhysicalPlan
  <2>2. Caches'
    BY <1>1, <2>1, CachesUnchanged
  <2> HIDE DEF new
  <2> QED
    BY <1>2, <1>3, <1>5, <2>1, <2>2, StatementChange
<1> QED
  BY <1>6, <1>7

\* A plan found is taken only if it is of the mode of the statement, which is that of the text.
LEMMA FindLogicalPlanStep ==
  ASSUME IInv, NEW c \in Clients, FindLogicalPlan(c)
  PROVE  IInv'
<1> DEFINE s == statement[c]
           found == Cached("lqp", s.text)
           copy == Copy(found, c)
           taken == [s EXCEPT !.pc = "translate", !.lqp = copy]
           other == [s EXCEPT !.pc = "optimize"]
<1>1. /\ started' \in [Clients -> Nat] /\ \A d \in Clients : started'[d] <= MaxStatements[d]
      /\ table' \in [layout : Nat, dropped : BOOLEAN] /\ Caches
      /\ statement \in [Clients -> {Idle} \cup Statements]
  BY DEF IInv, Types, FindLogicalPlan
<1>2. s.pc = "lqp" /\ s \in Statements
  BY Begun DEF FindLogicalPlan
<1>3. s.text \in Texts /\ s.mvcc \in BOOLEAN /\ "lqp" \in Levels
  BY <1>2 DEF Statements, Levels
<1>4. other \in Statements /\ Fitting(c, other)
  <2> HIDE DEF s
  <2> QED
    BY <1>2 DEF Statements, Fitting
<1>5. CASE Has(cache["lqp"], s.text)
  <2>1. GetFrom("lqp", s.text)
        /\ statement' = [statement EXCEPT ![c] = IF Fits(found, s.mvcc) THEN taken ELSE other]
    BY <1>5 DEF FindLogicalPlan
  <2>2. Caches'
    BY <1>1, <1>3, <1>5, <2>1, GetFromKeeps
  <2>3. found \in LogicalPlans /\ found.text = s.text /\ s.text \notin Uncacheable
    BY <1>1, <1>3, <1>5, StoredFacts DEF Has, Plans
  <2>4. copy \in LogicalPlans /\ copy.object = c /\ copy.text = s.text
        /\ copy.validated = found.validated
    <3> HIDE DEF found, s
    <3> QED
      BY <2>3 DEF LogicalPlans, Copy
  <2>5. CASE ~Fits(found, s.mvcc)
    <3> HIDE DEF other
    <3> QED
      BY <1>1, <1>4, <2>1, <2>2, <2>5, StatementChange
  <2>6. CASE Fits(found, s.mvcc)
    <3>0. found.validated = s.mvcc /\ (found.validated => s.text \in Reads)
      BY <2>3, <2>6 DEF Fits, LogicalPlans
    <3> HIDE DEF found, copy, s
    <3>1. /\ taken.pc = "translate" /\ taken.text = s.text /\ taken.mvcc = s.mvcc
          /\ taken.lqp = copy
      BY <1>2 DEF Statements
    <3>2. taken \in Statements
      BY <1>2, <2>4 DEF Statements
    <3> HIDE DEF taken
    <3>4. Fitting(c, taken)
      <4>1. copy.validated = (s.mvcc /\ s.text \in Reads)
        BY <1>3, <2>4, <3>0
      <4> QED
        BY <2>3, <2>4, <3>1, <4>1 DEF Fitting
    <3>5. statement' = [statement EXCEPT ![c] = taken]
      BY <2>1, <2>6
    <3> QED
      BY <1>1, <2>2, <3>2, <3>4, <3>5, StatementChange
  <2> QED
    BY <2>5, <2>6
<1>6. CASE ~Has(cache["lqp"], s.text)
  <2>1. UNCHANGED <<cache, age>> /\ statement' = [statement EXCEPT ![c] = other]
    BY <1>1, <1>6 DEF FindLogicalPlan
  <2>2. Caches'
    BY <1>1, <2>1, CachesUnchanged
  <2> HIDE DEF other
  <2> QED
    BY <1>1, <1>4, <2>1, <2>2, StatementChange
<1> QED
  BY <1>5, <1>6

\* A new plan is made for the text and mode.
LEMMA OptimizeStep ==
  ASSUME IInv, NEW c \in Clients, Optimize(c)
  PROVE  IInv'
<1> DEFINE s == statement[c]
           plan == [object |-> c, text |-> s.text, layout |-> table.layout,
                    validated |-> s.mvcc /\ s.text \in Reads]
           next == [s EXCEPT !.lqp = plan, !.cacheable = s.text \notin Uncacheable, !.pc = "store"]
<1>1. /\ started' \in [Clients -> Nat] /\ \A d \in Clients : started'[d] <= MaxStatements[d]
      /\ table' \in [layout : Nat, dropped : BOOLEAN] /\ table \in [layout : Nat, dropped : BOOLEAN]
      /\ Caches'
  BY CachesUnchanged DEF IInv, Types, Optimize
<1>2. s \in Statements
      /\ statement' = [statement EXCEPT ![c] = IF s.text \in Reads /\ table.dropped THEN Idle ELSE next]
  BY Begun DEF Optimize
<1> HIDE DEF s
<1>3. plan \in LogicalPlans /\ plan.object = c /\ plan.text = s.text
      /\ plan.validated = (s.mvcc /\ s.text \in Reads)
  BY <1>1, <1>2 DEF LogicalPlans, Statements
<1> HIDE DEF plan
<1>4. /\ next.pc = "store" /\ next.text = s.text /\ next.mvcc = s.mvcc /\ next.lqp = plan
      /\ next.cacheable = (s.text \notin Uncacheable)
  BY <1>2 DEF Statements
<1>5. next \in Statements
  BY <1>2, <1>3 DEF Statements
<1> HIDE DEF next
<1>6. Fitting(c, next)
  BY <1>3, <1>4 DEF Fitting
<1>7. CASE s.text \in Reads /\ table.dropped
  BY <1>1, <1>2, <1>7, IdleFits, StatementChange
<1>8. CASE ~(s.text \in Reads /\ table.dropped)
  BY <1>1, <1>2, <1>5, <1>6, <1>8, StatementChange
<1> QED
  BY <1>7, <1>8

\* What is stored has the text, which may be cached.
LEMMA StoreLogicalPlanStep ==
  ASSUME IInv, NEW c \in Clients, StoreLogicalPlan(c)
  PROVE  IInv'
<1> DEFINE s == statement[c]
           next == [s EXCEPT !.pc = "translate"]
<1>1. /\ started' \in [Clients -> Nat] /\ \A d \in Clients : started'[d] <= MaxStatements[d]
      /\ table' \in [layout : Nat, dropped : BOOLEAN] /\ Caches
      /\ statement \in [Clients -> {Idle} \cup Statements]
  BY DEF IInv, Types, StoreLogicalPlan
<1>2. /\ s \in Statements /\ s.pc = "store" /\ Fitting(c, s)
      /\ statement' = [statement EXCEPT ![c] = next]
      /\ IF s.cacheable THEN PutInto("lqp", s.text, s.lqp) ELSE UNCHANGED <<cache, age>>
  BY <1>1, Begun DEF StoreLogicalPlan
<1> HIDE DEF s
<1>3. next \in Statements /\ next.pc = "translate"
      /\ next.text = s.text /\ next.mvcc = s.mvcc /\ next.lqp = s.lqp /\ next.cacheable = s.cacheable
  BY <1>2 DEF Statements
<1> HIDE DEF next
<1>4. Fitting(c, next)
  BY <1>2, <1>3 DEF Fitting
<1>5. Caches'
  <2>1. CASE s.cacheable
    <3>1. s.text \in Texts \ Uncacheable /\ s.lqp \in Plans("lqp") /\ s.lqp.text = s.text
      BY <1>2, <2>1 DEF Fitting, Plans, Statements
    <3>2. PutInto("lqp", s.text, s.lqp) /\ "lqp" \in Levels
      BY <1>2, <2>1 DEF Levels
    <3> QED
      BY <1>1, <3>1, <3>2, PutIntoKeeps
  <2>2. CASE ~s.cacheable
    BY <1>1, <1>2, <2>2, CachesUnchanged
  <2> QED
    BY <2>1, <2>2
<1> QED
  BY <1>1, <1>2, <1>3, <1>4, <1>5, StatementChange

\* The physical plan inherits text and mode.
LEMMA TranslateStep ==
  ASSUME IInv, NEW c \in Clients, Translate(c)
  PROVE  IInv'
<1> DEFINE s == statement[c]
           plan == [object |-> c, text |-> s.lqp.text, layout |-> s.lqp.layout,
                    validated |-> s.lqp.validated, context |-> s.mvcc]
           next == [s EXCEPT !.pc = Ready(s.text), !.lqp = NoPlan, !.pqp = plan]
<1>1. /\ started' \in [Clients -> Nat] /\ \A d \in Clients : started'[d] <= MaxStatements[d]
      /\ table' \in [layout : Nat, dropped : BOOLEAN] /\ Caches
  BY DEF IInv, Types, Translate
<1>2. /\ s \in Statements /\ s.pc = "translate" /\ Fitting(c, s)
      /\ statement' = [statement EXCEPT ![c] = next]
      /\ IF s.cacheable THEN PutInto("pqp", s.text, plan) ELSE UNCHANGED <<cache, age>>
  BY Begun DEF Translate
<1> HIDE DEF s
<1>3. /\ s.lqp \in LogicalPlans /\ s.lqp.object = c /\ s.lqp.text = s.text
      /\ s.lqp.validated = (s.mvcc /\ s.text \in Reads)
      /\ s.cacheable => s.text \notin Uncacheable
      /\ s.mvcc \in BOOLEAN /\ s.text \in Texts
  BY <1>2 DEF Fitting, Statements
<1>4. plan \in PhysicalPlans /\ plan.object = c /\ plan.text = s.text /\ plan.context = s.mvcc
  BY <1>3 DEF LogicalPlans, PhysicalPlans
<1> HIDE DEF plan
<1>5. Ready(s.text) \in {"precheck", "execute"}
  BY DEF Ready
<1>6. next.pc = Ready(s.text) /\ next.text = s.text /\ next.mvcc = s.mvcc /\ next.pqp = plan
  BY <1>2 DEF Statements
<1>7. next \in Statements
  BY <1>2, <1>4, <1>5 DEF Statements
<1> HIDE DEF next
<1>8. Fitting(c, next)
  BY <1>4, <1>5, <1>6 DEF Fitting
<1>9. Caches'
  <2>1. CASE s.cacheable
    <3>1. s.text \in Texts \ Uncacheable /\ plan \in Plans("pqp")
      BY <1>3, <1>4, <2>1 DEF Plans
    <3>2. PutInto("pqp", s.text, plan) /\ "pqp" \in Levels
      BY <1>2, <2>1 DEF Levels
    <3> QED
      BY <1>1, <1>4, <3>1, <3>2, PutIntoKeeps
  <2>2. CASE ~s.cacheable
    BY <1>1, <1>2, <2>2, CachesUnchanged
  <2> QED
    BY <2>1, <2>2
<1> QED
  BY <1>1, <1>2, <1>7, <1>8, <1>9, StatementChange

\* A check leaves the plan alone.
LEMMA PrecheckStep ==
  ASSUME IInv, NEW c \in Clients, Precheck(c)
  PROVE  IInv'
<1> DEFINE s == statement[c]
           next == [s EXCEPT !.pc = "execute"]
<1>1. /\ started' \in [Clients -> Nat] /\ \A d \in Clients : started'[d] <= MaxStatements[d]
      /\ table' \in [layout : Nat, dropped : BOOLEAN] /\ Caches'
  BY CachesUnchanged DEF IInv, Types, Precheck
<1>2. /\ s \in Statements /\ s.pc = "precheck" /\ Fitting(c, s)
      /\ statement' = [statement EXCEPT ![c] = IF Allowed(s.text) THEN next ELSE Idle]
  BY Begun DEF Precheck
<1> HIDE DEF s
<1>3. next \in Statements /\ next.pc = "execute"
      /\ next.text = s.text /\ next.mvcc = s.mvcc /\ next.pqp = s.pqp
  BY <1>2 DEF Statements
<1> HIDE DEF next
<1>4. Fitting(c, next)
  BY <1>2, <1>3 DEF Fitting
<1>5. CASE Allowed(s.text)
  BY <1>1, <1>2, <1>3, <1>4, <1>5, StatementChange
<1>6. CASE ~Allowed(s.text)
  BY <1>1, <1>2, <1>6, IdleFits, StatementChange
<1> QED
  BY <1>5, <1>6

\* An executed plan is forgotten.
LEMMA ExecuteStep ==
  ASSUME IInv, NEW c \in Clients, Execute(c)
  PROVE  IInv'
<1>1. /\ started' \in [Clients -> Nat] /\ \A d \in Clients : started'[d] <= MaxStatements[d]
      /\ table \in [layout : Nat, dropped : BOOLEAN] /\ Caches'
  BY CachesUnchanged DEF IInv, Types, Execute
<1>2. table' \in [layout : Nat, dropped : BOOLEAN]
  <2>1. [table EXCEPT !.dropped = TRUE] \in [layout : Nat, dropped : BOOLEAN]
    BY <1>1
  <2>2. [layout |-> table.layout + 1, dropped |-> FALSE] \in [layout : Nat, dropped : BOOLEAN]
    BY <1>1
  <2>3. \/ table' = table \/ table' = [table EXCEPT !.dropped = TRUE]
        \/ table' = [layout |-> table.layout + 1, dropped |-> FALSE]
    BY DEF Execute
  <2> QED
    BY <1>1, <2>1, <2>2, <2>3
<1>3. statement' = [statement EXCEPT ![c] = Idle]
  BY DEF Execute
<1> QED
  BY <1>1, <1>2, <1>3, IdleFits, StatementChange

----------------------------------------------------------------------------
\* Empty caches and idle clients satisfy the inductive invariant.
LEMMA InitIInv == Init => IInv
<1> SUFFICES ASSUME Init PROVE IInv
  OBVIOUS
<1>1. Types
  BY CacheAssumption DEF Init, Types
<1>2. ASSUME NEW level \in Levels
      PROVE  /\ cache[level] \in CachesOf(Texts, Plans(level))
             /\ Stored(cache[level]) /\ Aging(cache[level], age[level])
  <2>1. cache[level] = EmptyCache(Capacity) /\ Capacity \in 0..Capacity
    BY CacheAssumption DEF Init
  <2>2. cache[level] \in CachesOf(Texts, Plans(level)) /\ DOMAIN cache[level].map = {}
    BY <2>1, EmptyCacheGood
  <2> QED
    BY <2>2 DEF Stored, Aging
<1>3. Caches
  BY <1>2 DEF Init, Caches
<1>4. \A c \in Clients : Fitting(c, statement[c])
  BY IdleFits DEF Init
<1> QED
  BY <1>1, <1>3, <1>4 DEF IInv

\* No step leaves the inductive invariant.
LEMMA StepIInv == IInv /\ [Next]_vars => IInv'
<1> SUFFICES ASSUME IInv, [Next]_vars PROVE IInv'
  OBVIOUS
<1>1. ASSUME NEW c \in Clients, NEW kind \in Kinds, FindPhysicalPlan(c, kind) PROVE IInv'
  BY <1>1, FindPhysicalPlanStep
<1>2. ASSUME NEW c \in Clients, FindLogicalPlan(c) PROVE IInv'
  BY <1>2, FindLogicalPlanStep
<1>3. ASSUME NEW c \in Clients, Optimize(c) PROVE IInv'
  BY <1>3, OptimizeStep
<1>4. ASSUME NEW c \in Clients, StoreLogicalPlan(c) PROVE IInv'
  BY <1>4, StoreLogicalPlanStep
<1>5. ASSUME NEW c \in Clients, Translate(c) PROVE IInv'
  BY <1>5, TranslateStep
<1>6. ASSUME NEW c \in Clients, Precheck(c) PROVE IInv'
  BY <1>6, PrecheckStep
<1>7. ASSUME NEW c \in Clients, Execute(c) PROVE IInv'
  BY <1>7, ExecuteStep
<1>8. ASSUME NEW level \in Serviced, ClearCache(level) PROVE IInv'
  <2>1. Caches'
    BY <1>8, ClearCacheKeeps, CacheAssumption DEF IInv
  <2> QED
    BY <1>8, <2>1 DEF IInv, Types, ClearCache
<1>9. ASSUME NEW level \in Serviced, NEW capacity \in Sizes, ResizeCache(level, capacity) PROVE IInv'
  <2>1. Caches'
    BY <1>9, ResizeCacheKeeps, CacheAssumption DEF IInv
  <2> QED
    BY <1>9, <2>1 DEF IInv, Types, ResizeCache
<1>10. CASE UNCHANGED vars
  BY <1>10, CachesUnchanged DEF vars, IInv, Types
<1> QED
  BY <1>1, <1>2, <1>3, <1>4, <1>5, <1>6, <1>7, <1>8, <1>9, <1>10 DEF Next, Done

\* The inductive invariant holds throughout (sql_pipeline_statement.cpp, gdfs_cache.hpp).
THEOREM Invariance == Spec => []IInv
  BY InitIInv, StepIInv, PTL DEF Spec

----------------------------------------------------------------------------
(* What the project checks about the caches.                               *)

\* In all interleavings of lookups, stores, evictions, clear() and resize(), map and heap of a
\* cache agree, its capacity and inflation are kept, entries that nobody uses grow old, each
\* key leads to a plan of its own text, and no text that must not be cached is a key.
THEOREM CachesStayConsistent == Spec => []CachesConsistent
<1>1. IInv => CachesConsistent
  <2> SUFFICES ASSUME IInv PROVE CachesConsistent
    OBVIOUS
  <2>1. \A level \in Levels : /\ cache[level] \in CachesOf(Texts, Plans(level))
                              /\ Stored(cache[level]) /\ Aging(cache[level], age[level])
                              /\ age[level] \in [Texts -> Nat]
    BY DEF IInv, Caches
  <2>2. TypeOK
    <3>1. DOMAIN cache = Levels
      BY DEF IInv, Caches
    <3>2. ASSUME NEW level \in Levels
          PROVE  DOMAIN cache[level].map \subseteq Texts /\ cache[level].capacity \in 0..Capacity
      BY <2>1, CacheFacts, CacheAssumption
    <3>3. ASSUME NEW c \in Clients
          PROVE  /\ statement[c].pc \in
                      {"idle", "lqp", "optimize", "store", "translate", "precheck", "execute"}
                 /\ started[c] \in 0..MaxStatements[c]
      BY CacheAssumption DEF IInv, Types, Idle, Statements
    <3> QED
      BY <3>1, <3>2, <3>3 DEF TypeOK, IInv, Types
  <2>3. \A level \in Levels : Consistent(cache[level])
    BY <2>1 DEF CachesOf
  <2>4. NothingStaysUnused
    <3> SUFFICES ASSUME NEW level \in Levels, NEW text \in DOMAIN cache[level].map
                 PROVE  age[level][text] <= (Capacity - 1) * (Entry(cache[level], text).frequency + 1)
      BY DEF NothingStaysUnused
    <3> DEFINE c == cache[level]
               e == Entry(c, text)
               x == c.inflation - Base(e)
               y == e.frequency
               n == Capacity - 1
    <3>1. /\ c \in CachesOf(Texts, Plans(level)) /\ Aging(c, age[level])
          /\ age[level] \in [Texts -> Nat] /\ text \in DOMAIN c.map
      BY <2>1
    <3> HIDE DEF c
    <3>2. /\ c.inflation \in Nat /\ text \in Texts /\ c.map[text] \in DOMAIN c.queue
          /\ c.queue[c.map[text]] \in Entries(Texts, Plans(level))
          /\ c.queue[c.map[text]].priority >= c.inflation
      BY <3>1, CacheFacts
    <3>3. e \in Entries(Texts, Plans(level)) /\ e.priority >= c.inflation
      BY <3>2 DEF Entry
    <3>4. Base(e) \in Nat /\ Base(e) <= c.inflation
          /\ age[level][text] + Cardinality(Peers(c, text)) <= (x + 1) * n
      BY <3>1 DEF Aging
    <3>5. Cardinality(Peers(c, text)) \in Nat /\ age[level][text] \in Nat
      BY <3>1, <3>2, PeersFacts
    <3> HIDE DEF e
    <3>6. x \in Nat /\ y \in Nat /\ x <= y /\ n \in Nat
      BY <3>2, <3>3, <3>4, CacheAssumption DEF Base, Entries
    <3> HIDE DEF x, y, n
    <3>7. (x + 1) * n \in Nat /\ (y + 1) * n \in Nat /\ (x + 1) * n <= (y + 1) * n
      <4>1. CASE x = y
        BY <3>6, <4>1
      <4>2. CASE x < y
        BY <3>6, <4>2, NextLevel
      <4> QED
        BY <3>6, <4>1, <4>2
    <3>8. age[level][text] <= (y + 1) * n
      BY <3>4, <3>5, <3>7
    <3>9. (y + 1) * n = n * (y + 1)
      BY <3>6
    <3> QED
      BY <3>8, <3>9 DEF y, n, e, c
  <2>5. \A level \in Levels : \A text \in DOMAIN cache[level].map :
          text \notin Uncacheable /\ Cached(level, text).text = text
    BY StoredFacts DEF IInv
  <2> QED
    BY <2>2, <2>3, <2>4, <2>5 DEF CachesConsistent
<1> QED
  BY <1>1, Invariance, PTL

\* No two statements translate the same logical plan or execute the same physical one, and a
\* plan about to be executed was made for the statement's text and mode, although the
\* statements share the caches.
THEOREM PlansFit == Spec => []PlansOwnAndFitting
<1>1. IInv => PlansOwnAndFitting
  <2> SUFFICES ASSUME IInv, NEW c \in Clients
               PROVE  LET s == statement[c] IN
                      /\ s.pc = "translate" =>
                          \A d \in Clients \ {c} : statement[d].pc = "translate" =>
                              statement[d].lqp.object # s.lqp.object
                      /\ s.pc = "execute" =>
                          /\ \A d \in Clients \ {c} : statement[d].pc \in {"precheck", "execute"} =>
                              statement[d].pqp.object # s.pqp.object
                          /\ s.pqp.text = s.text
                          /\ s.pqp.validated = (s.mvcc /\ s.text \in Reads)
                          /\ s.pqp.context = s.mvcc
    BY DEF PlansOwnAndFitting
  <2>1. \A d \in Clients : Fitting(d, statement[d])
    BY DEF IInv
  <2>2. \A d \in Clients :
          /\ statement[d].pc = "translate" => statement[d].lqp.object = d
          /\ statement[d].pc \in {"precheck", "execute"} => statement[d].pqp.object = d
    BY <2>1 DEF Fitting
  <2>3. statement[c].pc = "execute" =>
          /\ statement[c].pqp.text = statement[c].text
          /\ statement[c].pqp.validated = (statement[c].mvcc /\ statement[c].text \in Reads)
          /\ statement[c].pqp.context = statement[c].mvcc
    BY <2>1 DEF Fitting, PhysicalPlans
  <2> QED
    BY <2>2, <2>3
<1> QED
  BY <1>1, Invariance, PTL
============================================================================
