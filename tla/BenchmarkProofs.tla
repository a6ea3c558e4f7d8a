--------------------------- MODULE BenchmarkProofs ---------------------------
(*****************************************************************************)
(* The benchmarks that have no database below them.  The bandwidth           *)
(* benchmark keeps its ring of jump addresses through any shuffle and its    *)
(* threads in shares of their own, for every size of the memory and every    *)
(* number of threads; the star schema benchmark gives every query of its     *)
(* queue to one worker, as long as no two workers are at the queue at once.  *)
(*****************************************************************************)
EXTENDS Microbenchmark, StarSchema, Integers, Sequences, WellFoundedInduction, FiniteSetTheorems, TLAPS

(*****************************************************************************)
(* Walks.  Walk is a recursive function: what it does for every number of    *)
(* steps is proved by least elements, that is from the well-foundedness of   *)
(* the naturals.                                                             *)
(*****************************************************************************)

\* Every set of naturals that is not empty has a least element.
LEMMA LeastElement == ASSUME NEW T, T \subseteq Nat, T # {} PROVE \E x \in T : \A y \in T : x <= y
<1>1. PICK x \in T : \A y \in T : ~(<<y, x>> \in OpToRel(<, Nat))
  BY NatLessThanWellFounded, WFMin, Zenon
<1>2. ASSUME NEW y \in T PROVE ~(y < x)
  <2>1. y \in Nat /\ x \in Nat
    OBVIOUS
  <2>2. y < x => <<y, x>> \in OpToRel(<, Nat)
    BY <2>1 DEF OpToRel
  <2>3. QED
    BY <1>1, <2>2, Zenon
<1>3. \A y \in T : ~(y < x)
  BY <1>2, Zenon
<1>4. x \in Nat /\ \A y \in T : y \in Nat
  OBVIOUS
<1>5. \A y \in T : x <= y
  BY <1>3, <1>4
<1>6. QED
  BY <1>5, Zenon

\* Induction over the naturals, for a set.
LEMMA Induction == ASSUME NEW S, 0 \in S, \A n \in Nat : n \in S => n + 1 \in S PROVE \A n \in Nat : n \in S
<1> SUFFICES ASSUME NEW m \in Nat \ S PROVE FALSE
  OBVIOUS
<1>2. PICK x \in Nat \ S : \A y \in Nat \ S : x <= y
  BY LeastElement
<1>3. x # 0 /\ x - 1 \in Nat \ S
  OBVIOUS
<1>5. QED
  BY <1>2, <1>3

\* The function that Walk is made of is there, for every number of steps.
LEMMA WalkIs ==
  ASSUME NEW f, NEW from, NEW n \in Nat
  PROVE  \E w : /\ w = [k \in 0..n |-> IF k = 0 THEN from ELSE f[w[k - 1]]]
                /\ Walk(f, from, n) = w[n]
<1> DEFINE IsWalk(w, m) == w = [k \in 0..m |-> IF k = 0 THEN from ELSE f[w[k - 1]]]
           S == {m \in Nat : \E w : IsWalk(w, m)}
<1>1. 0 \in S
  <2>1. IsWalk([k \in 0..0 |-> from], 0)
    OBVIOUS
  <2>2. QED
    BY <2>1
<1>2. ASSUME NEW m \in S PROVE m + 1 \in S
  <2>1. PICK w : IsWalk(w, m)
    OBVIOUS
  <2> DEFINE v == [k \in 0..m + 1 |-> IF k = m + 1 THEN f[w[m]] ELSE w[k]]
  <2>2. IsWalk(v, m + 1)
    <3>1. ASSUME NEW k \in 0..m + 1 PROVE v[k] = IF k = 0 THEN from ELSE f[v[k - 1]]
      <4>1. CASE k = m + 1
        BY <4>1
      <4>2. CASE k # m + 1
        <5>1. k \in 0..m /\ v[k] = w[k]
          BY <4>2
        <5>2. w[k] = IF k = 0 THEN from ELSE f[w[k - 1]]
          BY <2>1, <5>1
        <5>3. k # 0 => v[k - 1] = w[k - 1]
          BY <4>2
        <5>4. QED
          BY <5>1, <5>2, <5>3
      <4>3. QED
        BY <4>1, <4>2
    <3>2. QED
      BY <3>1
  <2> HIDE DEF v, IsWalk
  <2>3. m + 1 \in Nat
    OBVIOUS
  <2>4. QED
    BY <2>2, <2>3, Zenon
<1> HIDE DEF IsWalk
<1>3. n \in S
  <2> HIDE DEF S
  <2>1. \A m \in Nat : m \in S => m + 1 \in S
    BY <1>2, Zenon
  <2>2. QED
    BY <1>1, <2>1, Induction, Zenon
<1>4. IsWalk(CHOOSE w : IsWalk(w, n), n)
  BY <1>3
<1>5. Walk(f, from, n) = (CHOOSE w : IsWalk(w, n))[n]
  BY DEF Walk, IsWalk
<1>6. QED
  BY <1>4, <1>5 DEF IsWalk

\* The same with the steps of the walk apart.
LEMMA WalkUnfolds ==
  ASSUME NEW f, NEW from, NEW n \in Nat
  PROVE  \E w : /\ w[0] = from
                /\ \A k \in Nat : k < n => w[k + 1] = f[w[k]]
                /\ Walk(f, from, n) = w[n]
<1>1. PICK w : /\ w = [k \in 0..n |-> IF k = 0 THEN from ELSE f[w[k - 1]]]
               /\ Walk(f, from, n) = w[n]
  BY WalkIs
<1>2. \A k \in 0..n : w[k] = IF k = 0 THEN from ELSE f[w[k - 1]]
  BY <1>1, Zenon
<1>3. ASSUME NEW k \in Nat, k < n PROVE w[k + 1] = f[w[k]]
  <2>1. k + 1 \in 0..n /\ k + 1 # 0 /\ (k + 1) - 1 = k
    BY <1>3
  <2>2. QED
    BY <1>2, <2>1
<1>4. w[0] = from
  BY <1>2
<1>5. QED
  BY <1>1, <1>3, <1>4

\* Two of the functions that define a walk agree where both are defined.
LEMMA WalksAgree ==
  ASSUME NEW f, NEW n \in Nat, NEW v, NEW w, v[0] = w[0],
         \A k \in Nat : k < n => v[k + 1] = f[v[k]],
         \A k \in Nat : k < n => w[k + 1] = f[w[k]]
  PROVE  \A k \in Nat : k <= n => v[k] = w[k]
<1> DEFINE S == {j \in Nat : j <= n => v[j] = w[j]}
<1>1. 0 \in S
  OBVIOUS
<1>2. ASSUME NEW j \in Nat, j \in S PROVE j + 1 \in S
  BY <1>2
<1>3. \A j \in Nat : j \in S
  <2> HIDE DEF S
  <2>1. \A j \in Nat : j \in S => j + 1 \in S
    BY <1>2, Zenon
  <2>2. QED
    BY <1>1, <2>1, Induction, Zenon
<1>4. QED
  BY <1>3

\* A walk of no steps stays; one of n + 1 steps follows the pointer at the end of n steps.
LEMMA WalkSteps ==
  ASSUME NEW f, NEW from
  PROVE  /\ Walk(f, from, 0) = from
         /\ \A n \in Nat : Walk(f, from, n + 1) = f[Walk(f, from, n)]
<1>1. Walk(f, from, 0) = from
  BY WalkUnfolds
<1>2. ASSUME NEW n \in Nat PROVE Walk(f, from, n + 1) = f[Walk(f, from, n)]
  <2>0. n + 1 \in Nat
    OBVIOUS
  <2>1. PICK w : /\ w[0] = from
                 /\ \A k \in Nat : k < n + 1 => w[k + 1] = f[w[k]]
                 /\ Walk(f, from, n + 1) = w[n + 1]
    BY <2>0, WalkUnfolds
  <2>2. PICK v : /\ v[0] = from
                 /\ \A k \in Nat : k < n => v[k + 1] = f[v[k]]
                 /\ Walk(f, from, n) = v[n]
    BY WalkUnfolds
  <2>3. v[n] = w[n]
    <3>1. \A k \in Nat : k < n => w[k + 1] = f[w[k]]
      BY <2>1
    <3>2. \A k \in Nat : k <= n => v[k] = w[k]
      BY <2>1, <2>2, <3>1, WalksAgree
    <3>3. QED
      BY <3>2
  <2>4. QED
    BY <2>1, <2>2, <2>3
<1>3. QED
  BY <1>1, <1>2

\* A walk over pointers to nodes stays in the nodes.
LEMMA WalkStays ==
  ASSUME NEW S, NEW f \in [S -> S], NEW from \in S
  PROVE  \A n \in Nat : Walk(f, from, n) \in S
<1> DEFINE N == {n \in Nat : Walk(f, from, n) \in S}
<1>1. 0 \in N
  BY WalkSteps
<1>2. \A n \in Nat : n \in N => n + 1 \in N
  BY WalkSteps
<1>3. \A n \in Nat : n \in N
  <2> HIDE DEF N
  <2>1. QED
    BY <1>1, <1>2, Induction, Zenon
<1>4. QED
  BY <1>3

\* Walks can be put together.
LEMMA WalkSum ==
  ASSUME NEW f, NEW from, NEW m \in Nat
  PROVE  \A n \in Nat : Walk(f, from, m + n) = Walk(f, Walk(f, from, m), n)
<1> DEFINE S == {n \in Nat : Walk(f, from, m + n) = Walk(f, Walk(f, from, m), n)}
<1>1. 0 \in S
  BY WalkSteps
<1>2. ASSUME NEW n \in Nat, n \in S PROVE n + 1 \in S
  <2>1. m + (n + 1) = (m + n) + 1 /\ m + n \in Nat /\ n + 1 \in Nat
    OBVIOUS
  <2>2. \A k \in Nat : Walk(f, from, k + 1) = f[Walk(f, from, k)]
    BY WalkSteps, ZenonT(40)
  <2>3. Walk(f, from, (m + n) + 1) = f[Walk(f, from, m + n)]
    BY <2>1, <2>2, ZenonT(40)
  <2>4. Walk(f, Walk(f, from, m), n + 1) = f[Walk(f, Walk(f, from, m), n)]
    BY WalkSteps, ZenonT(40)
  <2>5. QED
    BY <1>2, <2>1, <2>3, <2>4
<1>3. \A n \in Nat : n \in S
  <2> HIDE DEF S
  <2>1. \A k \in Nat : k \in S => k + 1 \in S
    BY <1>2, Zenon
  <2>2. QED
    BY <1>1, <2>1, Induction, Zenon
<1>4. QED
  BY <1>3

\* c lists the nodes of a ring of n nodes in the order of f.
After(k, n) == IF k = n - 1 THEN 0 ELSE k + 1

IsCycle(c, f, n) ==
  /\ c \in [0..n - 1 -> 0..n - 1]
  /\ \A j, k \in 0..n - 1 : c[j] = c[k] => j = k
  /\ \A x \in 0..n - 1 : \E k \in 0..n - 1 : c[k] = x
  /\ \A k \in 0..n - 1 : f[c[k]] = c[After(k, n)]

\* A function that goes around a cycle of all nodes is a ring by the check of the code.
LEMMA RingOfCycle ==
  ASSUME NEW n \in Nat \ {0}, NEW f, NEW c, IsCycle(c, f, n)
  PROVE  IsRing(f, n)
<1>1. PICK z \in 0..n - 1 : c[z] = 0
  BY DEF IsCycle
<1> DEFINE At(k) == IF z + k < n THEN z + k ELSE z + k - n
           S == {k \in Nat : k <= n => Walk(f, 0, k) = c[At(k)]}
<1>2. 0 \in S
  BY <1>1, WalkSteps
<1>3. ASSUME NEW k \in Nat, k \in S PROVE k + 1 \in S
  <2>1. CASE k + 1 <= n
    <3>1. Walk(f, 0, k + 1) = f[Walk(f, 0, k)]
      BY WalkSteps
    <3>2. Walk(f, 0, k) = c[At(k)]
      BY <1>3, <2>1
    <3>3. At(k) \in 0..n - 1 /\ After(At(k), n) = At(k + 1)
      BY <2>1 DEF After
    <3>4. f[c[At(k)]] = c[After(At(k), n)]
      BY <3>3 DEF IsCycle
    <3>5. QED
      BY <3>1, <3>2, <3>3, <3>4
  <2>2. QED
    BY <2>1
<1>4. \A k \in Nat : k \in S
  <2> HIDE DEF S
  <2>1. \A k \in Nat : k \in S => k + 1 \in S
    BY <1>3, Zenon
  <2>2. QED
    BY <1>2, <2>1, Induction, Zenon
<1>5. Walk(f, 0, n) = 0
  BY <1>1, <1>4
<1>6. ASSUME NEW k \in 1..n - 1 PROVE Walk(f, 0, k) # 0
  <2>0. k \in Nat /\ k \in S /\ k <= n
    BY <1>4
  <2>1. Walk(f, 0, k) = c[At(k)] /\ At(k) \in 0..n - 1 /\ At(k) # z
    BY <2>0
  <2>2. c[At(k)] # c[z]
    <3> HIDE DEF At
    <3>1. QED
      BY <2>1, Zenon DEF IsCycle
  <2>3. QED
    BY <1>1, <2>1, <2>2
<1>7. QED
  BY <1>5, <1>6 DEF IsRing

\* The walk of a ring meets each of its nodes once.
LEMMA WalkOfRing ==
  ASSUME NEW n \in Nat, NEW f \in [0..n - 1 -> 0..n - 1], IsRing(f, n)
  PROVE  /\ \A k \in 0..n - 1 : Walk(f, 0, k) \in 0..n - 1
         /\ \A j, k \in 0..n - 1 : Walk(f, 0, j) = Walk(f, 0, k) => j = k
         /\ \A x \in 0..n - 1 : \E k \in 0..n - 1 : Walk(f, 0, k) = x
<1> DEFINE W == [k \in 0..n - 1 |-> Walk(f, 0, k)]
<1>1. \A k \in 0..n - 1 : Walk(f, 0, k) \in 0..n - 1
  <2> SUFFICES ASSUME NEW k \in 0..n - 1 PROVE Walk(f, 0, k) \in 0..n - 1
    OBVIOUS
  <2>1. 0 \in 0..n - 1 /\ k \in Nat
    OBVIOUS
  <2>2. QED
    BY <2>1, WalkStays, Zenon
<1>2. ASSUME NEW j \in 0..n - 1, NEW k \in 0..n - 1, j < k, Walk(f, 0, j) = Walk(f, 0, k) PROVE FALSE
  <2>1. n - k \in Nat /\ j \in Nat /\ k \in Nat /\ k + (n - k) = n /\ j + (n - k) \in 1..n - 1
    BY <1>2
  <2>2. Walk(f, 0, j + (n - k)) = Walk(f, Walk(f, 0, j), n - k)
    BY <2>1, WalkSum
  <2>3. Walk(f, 0, k + (n - k)) = Walk(f, Walk(f, 0, k), n - k)
    BY <2>1, WalkSum
  <2>4. Walk(f, 0, n) = 0 /\ Walk(f, 0, j + (n - k)) # 0
    BY <2>1 DEF IsRing
  <2>5. QED
    BY <1>2, <2>1, <2>2, <2>3, <2>4
<1>3. \A j, k \in 0..n - 1 : Walk(f, 0, j) = Walk(f, 0, k) => j = k
  <2> SUFFICES ASSUME NEW j \in 0..n - 1, NEW k \in 0..n - 1, Walk(f, 0, j) = Walk(f, 0, k), j # k PROVE FALSE
    OBVIOUS
  <2>1. j < k \/ k < j
    OBVIOUS
  <2>2. QED
    BY <1>2, <2>1
<1>4. W \in Injection(0..n - 1, 0..n - 1)
  BY <1>1, <1>3 DEF Injection, IsInjective
<1>5. IsFiniteSet(0..n - 1)
  BY FS_Interval
<1>6. W \in Surjection(0..n - 1, 0..n - 1)
  BY <1>4, <1>5, FS_Injection
<1>7. QED
  BY <1>1, <1>3, <1>6 DEF Surjection

----------------------------------------------------------------------------
(*****************************************************************************)
(* A swap exchanges two nodes in all pointers at once.  So it carries a      *)
(* cycle of all nodes to a cycle of all nodes, whether or not the two are    *)
(* neighbours, unless the list has only two nodes.                           *)
(*****************************************************************************)

\* prev is the inverse of next, in both directions.
Inverses(nx, pv, n) ==
  /\ nx \in [0..n - 1 -> 0..n - 1] /\ pv \in [0..n - 1 -> 0..n - 1]
  /\ \A x \in 0..n - 1 : pv[nx[x]] = x /\ nx[pv[x]] = x

\* a and b change places, everything else stays.
Exchange(a, b, x) == IF x = a THEN b ELSE IF x = b THEN a ELSE x

\* The lists of s are nx and pv with a and b exchanged.
Exchanged(s, nx, pv, a, b, S) ==
  /\ s[1] \in [S -> S] /\ s[2] \in [S -> S]
  /\ \A x \in S : /\ s[1][Exchange(a, b, x)] = Exchange(a, b, nx[x])
                  /\ s[2][Exchange(a, b, x)] = Exchange(a, b, pv[x])

\* In a ring of more than two nodes a node, its next and the one after are three nodes.
LEMMA NextIsApart ==
  ASSUME NEW n \in Nat, n > 2, NEW f, NEW c, IsCycle(c, f, n)
  PROVE  \A x \in 0..n - 1 : f[x] # x /\ f[f[x]] # x
<1> SUFFICES ASSUME NEW x \in 0..n - 1 PROVE f[x] # x /\ f[f[x]] # x
  OBVIOUS
<1>1. PICK k \in 0..n - 1 : c[k] = x
  BY DEF IsCycle
<1>2. /\ After(k, n) \in 0..n - 1 /\ After(After(k, n), n) \in 0..n - 1
      /\ After(k, n) # k /\ After(After(k, n), n) # k
  BY DEF After
<1>3. f[x] = c[After(k, n)] /\ f[f[x]] = c[After(After(k, n), n)]
  BY <1>1, <1>2, ZenonT(40) DEF IsCycle
<1>4. QED
  BY <1>1, <1>2, <1>3, ZenonT(40) DEF IsCycle

\* The stores of a swap of neighbours, one after the other, exchange the two.
LEMMA NeighboursExchanged ==
  ASSUME NEW S, NEW nx \in [S -> S], NEW pv \in [S -> S],
         \A x \in S : pv[nx[x]] = x /\ nx[pv[x]] = x,
         \A x \in S : nx[x] # x /\ nx[nx[x]] # x,
         NEW a \in S, NEW b \in S, nx[a] = b
  PROVE  Exchanged(SwappedNeighbours(nx, pv, a, b), nx, pv, a, b, S)
<1> DEFINE p == pv[a]
           q == nx[b]
           nx1 == [nx EXCEPT ![pv[a]] = b]
           pv1 == [pv EXCEPT ![nx1[b]] = a]
           s1 == [nx1 EXCEPT ![a] = nx1[b], ![b] = a]
           s2 == [pv1 EXCEPT ![b] = pv1[a], ![a] = b]
<1>1. /\ p \in S /\ q \in S /\ a # b /\ p # a /\ p # b /\ q # a /\ q # b
      /\ nx[p] = a /\ pv[q] = b /\ pv[b] = a
  OBVIOUS
<1>2. nx1 \in [S -> S] /\ \A x \in S : nx1[x] = IF x = p THEN b ELSE nx[x]
  OBVIOUS
<1>3. pv1 \in [S -> S] /\ \A x \in S : pv1[x] = IF x = q THEN a ELSE pv[x]
  BY <1>1, <1>2
<1>4. s1 \in [S -> S] /\ \A x \in S : s1[x] = IF x = b THEN a ELSE IF x = a THEN q ELSE nx1[x]
  BY <1>1, <1>2
<1>5. s2 \in [S -> S] /\ \A x \in S : s2[x] = IF x = b THEN p ELSE IF x = a THEN b ELSE pv1[x]
  BY <1>1, <1>3
<1>6. SwappedNeighbours(nx, pv, a, b) = <<s1, s2>>
  BY DEF SwappedNeighbours
<1> HIDE DEF nx1, pv1, s1, s2
<1>7. ASSUME NEW x \in S
      PROVE  /\ s1[Exchange(a, b, x)] = Exchange(a, b, nx[x])
             /\ s2[Exchange(a, b, x)] = Exchange(a, b, pv[x])
  BY <1>1, <1>2, <1>3, <1>4, <1>5 DEF Exchange
<1>8. QED
  BY <1>4, <1>5, <1>6, <1>7 DEF Exchanged

\* The stores of a swap of nodes apart, one after the other, exchange the two.
LEMMA ApartExchanged ==
  ASSUME NEW S, NEW nx \in [S -> S], NEW pv \in [S -> S],
         \A x \in S : pv[nx[x]] = x /\ nx[pv[x]] = x,
         \A x \in S : nx[x] # x /\ nx[nx[x]] # x,
         NEW a \in S, NEW b \in S, a # b, nx[a] # b, nx[b] # a
  PROVE  Exchanged(SwappedApart(nx, pv, a, b), nx, pv, a, b, S)
<1> DEFINE p == pv[a]
           q == nx[a]
           r == pv[b]
           z == nx[b]
           pv1 == [pv EXCEPT ![nx[a]] = b]
           nx1 == [nx EXCEPT ![pv1[a]] = b]
           pv2 == [pv1 EXCEPT ![nx1[b]] = a]
           nx2 == [nx1 EXCEPT ![pv2[b]] = a]
           s1 == [nx2 EXCEPT ![a] = nx2[b], ![b] = nx2[a]]
           s2 == [pv2 EXCEPT ![a] = pv2[b], ![b] = pv2[a]]
<1>1. /\ p \in S /\ q \in S /\ r \in S /\ z \in S
      /\ p # a /\ p # b /\ q # a /\ q # b /\ r # a /\ r # b /\ z # a /\ z # b
      /\ p # r /\ q # z /\ nx[p] = a /\ pv[q] = a /\ nx[r] = b /\ pv[z] = b
  OBVIOUS
<1>2. pv1 \in [S -> S] /\ \A x \in S : pv1[x] = IF x = q THEN b ELSE pv[x]
  OBVIOUS
<1>3. nx1 \in [S -> S] /\ \A x \in S : nx1[x] = IF x = p THEN b ELSE nx[x]
  BY <1>1, <1>2
<1>4. pv2 \in [S -> S] /\ \A x \in S : pv2[x] = IF x = z THEN a ELSE IF x = q THEN b ELSE pv[x]
  BY <1>1, <1>2, <1>3
<1>5. nx2 \in [S -> S] /\ \A x \in S : nx2[x] = IF x = r THEN a ELSE IF x = p THEN b ELSE nx[x]
  BY <1>1, <1>3, <1>4
<1>6. s1 \in [S -> S] /\ \A x \in S : s1[x] = IF x = b THEN q ELSE IF x = a THEN z ELSE nx2[x]
  BY <1>1, <1>5
<1>7. s2 \in [S -> S] /\ \A x \in S : s2[x] = IF x = b THEN p ELSE IF x = a THEN r ELSE pv2[x]
  BY <1>1, <1>4
<1>8. SwappedApart(nx, pv, a, b) = <<s1, s2>>
  BY DEF SwappedApart
<1> HIDE DEF nx1, pv1, nx2, pv2, s1, s2
<1>9. ASSUME NEW x \in S
      PROVE  /\ s1[Exchange(a, b, x)] = Exchange(a, b, nx[x])
             /\ s2[Exchange(a, b, x)] = Exchange(a, b, pv[x])
  BY <1>1, <1>4, <1>5, <1>6, <1>7 DEF Exchange
<1>10. QED
  BY <1>6, <1>7, <1>8, <1>9 DEF Exchanged

\* A swap exchanges the two nodes in both directions of the list.
LEMMA SwapExchanges ==
  ASSUME NEW n \in Nat, n > 2, NEW nx, NEW pv, NEW c, Inverses(nx, pv, n), IsCycle(c, nx, n),
         NEW a \in 0..n - 1, NEW b \in 0..n - 1
  PROVE  Exchanged(Swapped(nx, pv, a, b), nx, pv, a, b, 0..n - 1)
<1> DEFINE S == 0..n - 1
<1>1. /\ nx \in [S -> S] /\ pv \in [S -> S] /\ a \in S /\ b \in S
      /\ \A x \in S : pv[nx[x]] = x /\ nx[pv[x]] = x
      /\ \A x \in S : nx[x] # x /\ nx[nx[x]] # x
  BY NextIsApart DEF Inverses
<1>2. \A x : Exchange(a, b, x) = Exchange(b, a, x)
  BY DEF Exchange
<1> HIDE DEF S
<1>3. CASE a = b
  <2>1. ASSUME NEW x \in S
        PROVE  /\ <<nx, pv>>[1][Exchange(a, b, x)] = Exchange(a, b, nx[x])
               /\ <<nx, pv>>[2][Exchange(a, b, x)] = Exchange(a, b, pv[x])
    BY <1>3 DEF Exchange
  <2>2. Swapped(nx, pv, a, b) = <<nx, pv>>
    BY <1>3 DEF Swapped
  <2>3. Exchanged(<<nx, pv>>, nx, pv, a, b, S)
    BY <1>1, <2>1 DEF Exchanged
  <2>4. QED
    BY <2>2, <2>3, Zenon DEF S
<1>4. CASE a # b /\ nx[b] = a
  <2>1. Swapped(nx, pv, a, b) = SwappedNeighbours(nx, pv, b, a)
    BY <1>4 DEF Swapped
  <2>2. Exchanged(SwappedNeighbours(nx, pv, b, a), nx, pv, b, a, S)
    BY <1>1, <1>4, NeighboursExchanged
  <2>3. QED
    BY <1>2, <2>1, <2>2 DEF S, Exchanged
<1>5. CASE a # b /\ nx[b] # a /\ nx[a] = b
  <2>1. Swapped(nx, pv, a, b) = SwappedNeighbours(nx, pv, a, b)
    BY <1>5 DEF Swapped
  <2>2. Exchanged(SwappedNeighbours(nx, pv, a, b), nx, pv, a, b, S)
    BY <1>1, <1>5, NeighboursExchanged
  <2>3. QED
    BY <2>1, <2>2 DEF S
<1>6. CASE a # b /\ nx[b] # a /\ nx[a] # b
  <2>1. Swapped(nx, pv, a, b) = SwappedApart(nx, pv, a, b)
    BY <1>6 DEF Swapped
  <2>2. Exchanged(SwappedApart(nx, pv, a, b), nx, pv, a, b, S)
    BY <1>1, <1>6, ApartExchanged
  <2>3. QED
    BY <2>1, <2>2 DEF S
<1>7. QED
  BY <1>3, <1>4, <1>5, <1>6

\* So the list stays one ring of all nodes, and prev the inverse of next.
LEMMA SwapKeepsRing ==
  ASSUME NEW n \in Nat, n > 2, NEW nx, NEW pv, Inverses(nx, pv, n),
         \E c : IsCycle(c, nx, n), NEW a \in 0..n - 1, NEW b \in 0..n - 1
  PROVE  LET s == Swapped(nx, pv, a, b) IN Inverses(s[1], s[2], n) /\ \E c : IsCycle(c, s[1], n)
<1> DEFINE S == 0..n - 1
           E(x) == Exchange(a, b, x)
           s1 == Swapped(nx, pv, a, b)[1]
           s2 == Swapped(nx, pv, a, b)[2]
<1>1. PICK c : IsCycle(c, nx, n)
  OBVIOUS
<1>2. /\ s1 \in [S -> S] /\ s2 \in [S -> S]
      /\ \A x \in S : s1[E(x)] = E(nx[x]) /\ s2[E(x)] = E(pv[x])
  <2>1. Exchanged(Swapped(nx, pv, a, b), nx, pv, a, b, S)
    BY <1>1, SwapExchanges
  <2>2. QED
    BY <2>1 DEF Exchanged
<1>3. \A x \in S : E(x) \in S /\ E(E(x)) = x
  BY DEF Exchange
<1>4. /\ nx \in [S -> S] /\ pv \in [S -> S]
      /\ \A x \in S : pv[nx[x]] = x /\ nx[pv[x]] = x
  BY DEF Inverses
<1>5. /\ c \in [S -> S]
      /\ \A j, k \in S : c[j] = c[k] => j = k
      /\ \A x \in S : \E k \in S : c[k] = x
      /\ \A k \in S : nx[c[k]] = c[After(k, n)]
  BY <1>1, Zenon DEF IsCycle
<1>6. \A k \in S : After(k, n) \in S
  BY DEF After
<1> DEFINE d == [k \in S |-> E(c[k])]
<1> HIDE DEF S, E, s1, s2
<1>7. Inverses(s1, s2, n)
  <2>1. ASSUME NEW x \in S PROVE s2[s1[x]] = x /\ s1[s2[x]] = x
    <3>1. s1[x] = E(nx[E(x)]) /\ s2[x] = E(pv[E(x)])
      BY <1>2, <1>3, Zenon
    <3>2. s2[s1[x]] = E(pv[nx[E(x)]]) /\ s1[s2[x]] = E(nx[pv[E(x)]])
      BY <1>2, <1>3, <1>4, <3>1
    <3>3. QED
      BY <1>3, <1>4, <3>2
  <2>2. QED
    BY <1>2, <2>1, Zenon DEF S, Inverses
<1>8. IsCycle(d, s1, n)
  <2>1. d \in [S -> S]
    BY <1>3, <1>5
  <2>2. \A j, k \in S : d[j] = d[k] => j = k
    <3> SUFFICES ASSUME NEW j \in S, NEW k \in S, d[j] = d[k] PROVE j = k
      OBVIOUS
    <3>1. E(c[j]) = E(c[k]) /\ c[j] \in S /\ c[k] \in S
      BY <1>5
    <3>2. c[j] = c[k]
      BY <1>3, <3>1, Zenon
    <3>3. QED
      BY <1>5, <3>2
  <2>3. ASSUME NEW x \in S PROVE \E k \in S : d[k] = x
    <3>1. PICK k \in S : c[k] = E(x)
      BY <1>3, <1>5
    <3>2. QED
      BY <1>3, <3>1
  <2>4. ASSUME NEW k \in S PROVE s1[d[k]] = d[After(k, n)]
    <3>1. s1[E(c[k])] = E(nx[c[k]]) /\ nx[c[k]] = c[After(k, n)]
      BY <1>2, <1>5
    <3>2. QED
      BY <1>6, <3>1
  <2>5. QED
    BY <2>1, <2>2, <2>3, <2>4, Zenon DEF S, IsCycle
<1>9. QED
  BY <1>7, <1>8, Zenon DEF s1, s2

----------------------------------------------------------------------------
(*****************************************************************************)
(* The ring: the list while it is built, and the memory it is written to,    *)
(* which is the ring of the list with every node moved by its jump.          *)
(*****************************************************************************)

Building == phase \in {"shuffle", "fill"}

\* The list and the memory are functions on the nodes, whatever their number.
RingTypes ==
  /\ op \in Operations /\ i \in Nat
  /\ phase \in {"shuffle", "fill", "create", "barrier", "join", "done", "exit", "crash"}
  /\ next \in [Nodes -> Nodes] /\ prev \in [Nodes -> Nodes] /\ memory \in [Nodes -> Nodes]
  /\ jump = RingOf(accessCount, 1)
  /\ Building => RandomRead

\* While the list is built it is one ring of all nodes; when it is written to the memory, the
\* slots of the nodes walked so far are done.
ListInv ==
  /\ accessCount > 2 /\ Building =>
       Inverses(next, prev, accessCount) /\ \E c : IsCycle(c, next, accessCount)
  /\ phase = "fill" =>
       /\ i <= accessCount /\ IsRing(next, accessCount)
       /\ accessCount > 2 => \A m \in 0..i - 1 :
            memory[jump[prev[Walk(next, 0, m)]]] = jump[Walk(next, 0, m)]

\* A memory that is not a ring ends the program.
MemoryInv ==
  /\ accessCount > 2 => phase # "exit"
  /\ RandomRead /\ phase \in {"create", "barrier", "join", "done"} => IsRing(memory, accessCount)

RingInv == RingTypes /\ ListInv /\ MemoryInv

\* Quotient and remainder put together make the number.
LEMMA Division ==
  ASSUME NEW n \in Nat \ {0}, NEW k \in Nat
  PROVE  /\ (k \div n) \in Nat /\ (k % n) \in 0..n - 1
         /\ k = (n * (k \div n)) + (k % n)
  OBVIOUS

\* What the command line has set.
LEMMA OperationTypes ==
  ASSUME op \in Operations
  PROVE  /\ op.size \in Nat \ {0} /\ op.ad \in Nat \ {0} /\ op.threads \in Nat \ {0}
         /\ op.perLoop \in Nat \ {0}
         /\ op.mode \in Modes /\ op.kernel \in Kernels /\ op.random \in BOOLEAN
         /\ op.pattern \in {"log", "disjoint"}
         /\ accessCount \in Nat /\ accessesPerThread \in Nat
<1>1. /\ op.size \in Nat \ {0} /\ op.ad \in Nat \ {0} /\ op.threads \in Nat \ {0}
      /\ op.perLoop \in Nat \ {0}
      /\ op.mode \in Modes /\ op.kernel \in Kernels /\ op.random \in BOOLEAN
      /\ op.pattern \in {"log", "disjoint"}
  BY OperationsAssumption
<1>2. accessCount \in Nat
  BY <1>1, Division DEF accessCount
<1>3. accessesPerThread \in Nat
  BY <1>1, <1>2, Division DEF accessesPerThread
<1>4. QED
  BY <1>1, <1>2, <1>3

\* A kernel goes by at least a line.
LEMMA ChunkType == Block \in Nat \ {0} /\ Chunk \in Nat \ {0} /\ WriteBlock \in Nat \ {0}
  BY BlockAssumption DEF Chunk, WriteBlock

\* Nothing but random reads without a kernel leaves the mapped memory.
LEMMA LastLineFits ==
  ASSUME op \in Operations
  PROVE  /\ LastLine \in Nat /\ 0..op.size - 1 \subseteq 0..LastLine
         /\ ~RandomRead \/ OwnKernel => LastLine = op.size - 1
         /\ ~OwnKernel /\ RandomRead /\ op.ad < Block => LastLine = (op.size - 1) + Block
<1>1. op.size \in Nat \ {0} /\ Block \in Nat
  BY OperationTypes, ChunkType
<1>2. QED
  BY <1>1 DEF LastLine

\* linked_list_create makes a ring that goes around the nodes in their order.
LEMMA RingOfOrder ==
  ASSUME NEW n \in Nat \ {0}
  PROVE  /\ RingOf(n, 1) \in [0..n - 1 -> 0..n - 1]
         /\ RingOf(n, n - 1) \in [0..n - 1 -> 0..n - 1]
         /\ \A k \in 0..n - 1 : /\ RingOf(n, 1)[k] = After(k, n)
                                /\ RingOf(n, n - 1)[k] = IF k = 0 THEN n - 1 ELSE k - 1
<1>1. ASSUME NEW k \in 0..n - 1 PROVE (k + 1) % n = After(k, n)
  <2>1. CASE k = n - 1
    BY <2>1 DEF After
  <2>2. CASE k # n - 1
    <3>1. k + 1 \in 0..n - 1
      BY <2>2
    <3>2. QED
      BY <2>2, <3>1 DEF After
  <2>3. QED
    BY <2>1, <2>2
<1>2. ASSUME NEW k \in 0..n - 1 PROVE (k + (n - 1)) % n = IF k = 0 THEN n - 1 ELSE k - 1
  <2>1. CASE k = 0
    BY <2>1
  <2>2. CASE k # 0
    <3>1. k - 1 \in 0..n - 1 /\ k + (n - 1) = (n * 1) + (k - 1)
      BY <2>2
    <3>2. QED
      BY <2>2, <3>1
  <2>3. QED
    BY <2>1, <2>2
<1>3. ASSUME NEW k \in 0..n - 1
      PROVE  After(k, n) \in 0..n - 1 /\ (IF k = 0 THEN n - 1 ELSE k - 1) \in 0..n - 1
  BY DEF After
<1>4. QED
  BY <1>1, <1>2, <1>3 DEF RingOf

\* The list starts as one ring, with prev the inverse of next.
LEMMA FirstRing ==
  ASSUME NEW n \in Nat \ {0}
  PROVE  Inverses(RingOf(n, 1), RingOf(n, n - 1), n) /\ \E c : IsCycle(c, RingOf(n, 1), n)
<1>1. Inverses(RingOf(n, 1), RingOf(n, n - 1), n)
  <2>1. ASSUME NEW k \in 0..n - 1
        PROVE  RingOf(n, n - 1)[RingOf(n, 1)[k]] = k /\ RingOf(n, 1)[RingOf(n, n - 1)[k]] = k
    <3>1. RingOf(n, 1)[k] \in 0..n - 1 /\ RingOf(n, n - 1)[k] \in 0..n - 1
      BY RingOfOrder
    <3>2. RingOf(n, n - 1)[After(k, n)] = k
      <4> DEFINE a == After(k, n)
      <4>1. a \in 0..n - 1 /\ (IF a = 0 THEN n - 1 ELSE a - 1) = k
        BY DEF After
      <4> HIDE DEF a
      <4>2. RingOf(n, n - 1)[a] = IF a = 0 THEN n - 1 ELSE a - 1
        BY <4>1, RingOfOrder
      <4>3. QED
        BY <4>1, <4>2 DEF a
    <3>3. RingOf(n, 1)[RingOf(n, n - 1)[k]] = k
      <4>1. RingOf(n, n - 1)[k] = IF k = 0 THEN n - 1 ELSE k - 1
        BY RingOfOrder
      <4>2. After(RingOf(n, n - 1)[k], n) = k
        BY <4>1 DEF After
      <4>3. QED
        BY <3>1, <4>2, RingOfOrder
    <3>4. RingOf(n, 1)[k] = After(k, n)
      BY RingOfOrder
    <3>5. QED
      BY <3>2, <3>3, <3>4
  <2>2. QED
    BY <2>1, RingOfOrder DEF Inverses
<1>2. IsCycle([k \in 0..n - 1 |-> k], RingOf(n, 1), n)
  <2>1. ASSUME NEW k \in 0..n - 1
        PROVE  RingOf(n, 1)[k] = After(k, n) /\ After(k, n) \in 0..n - 1
    BY RingOfOrder DEF After
  <2>2. QED
    BY <2>1 DEF IsCycle
<1>3. QED
  BY <1>1, <1>2

\* Each node's jump goes to another slot, and all slots are reached.
LEMMA RingOfBijection ==
  ASSUME NEW n \in Nat \ {0}
  PROVE  /\ \A x, y \in 0..n - 1 : RingOf(n, 1)[x] = RingOf(n, 1)[y] => x = y
         /\ \A y \in 0..n - 1 : \E x \in 0..n - 1 : RingOf(n, 1)[x] = y
<1>1. \A x \in 0..n - 1 : RingOf(n, 1)[x] = After(x, n)
  BY RingOfOrder
<1>2. \A x, y \in 0..n - 1 : After(x, n) = After(y, n) => x = y
  BY DEF After
<1>3. ASSUME NEW y \in 0..n - 1 PROVE \E x \in 0..n - 1 : After(x, n) = y
  <2>1. CASE y = 0
    <3>1. n - 1 \in 0..n - 1 /\ After(n - 1, n) = y
      BY <2>1 DEF After
    <3>2. QED
      BY <3>1
  <2>2. CASE y # 0
    <3>1. y - 1 \in 0..n - 1 /\ After(y - 1, n) = y
      BY <2>2 DEF After
    <3>2. QED
      BY <3>1
  <2>3. QED
    BY <2>1, <2>2
<1>4. \A x, y \in 0..n - 1 : RingOf(n, 1)[x] = RingOf(n, 1)[y] => x = y
  BY <1>1, <1>2
<1>5. ASSUME NEW y \in 0..n - 1 PROVE \E x \in 0..n - 1 : RingOf(n, 1)[x] = y
  BY <1>1, <1>3
<1>6. QED
  BY <1>4, <1>5

\* A memory smaller than an access has no slots.
LEMMA NoNodes == RingOf(0, 1) = [k \in {} |-> 0] /\ RingOf(0, 0 - 1) = [k \in {} |-> 0]
<1>1. 0..0 - 1 = {}
  OBVIOUS
<1>2. QED
  BY <1>1 DEF RingOf

\* Whatever list is swapped, its pointers stay pointers to its nodes.
LEMMA SwapTyped ==
  ASSUME NEW S, NEW nx \in [S -> S], NEW pv \in [S -> S], NEW a \in S, NEW b \in S
  PROVE  Swapped(nx, pv, a, b)[1] \in [S -> S] /\ Swapped(nx, pv, a, b)[2] \in [S -> S]
<1>1. ASSUME NEW x \in S, NEW y \in S
      PROVE  /\ SwappedNeighbours(nx, pv, x, y)[1] \in [S -> S]
             /\ SwappedNeighbours(nx, pv, x, y)[2] \in [S -> S]
  BY DEF SwappedNeighbours
<1>2. SwappedApart(nx, pv, a, b)[1] \in [S -> S] /\ SwappedApart(nx, pv, a, b)[2] \in [S -> S]
  BY DEF SwappedApart
<1>3. a = b => Swapped(nx, pv, a, b)[1] = nx /\ Swapped(nx, pv, a, b)[2] = pv
  BY DEF Swapped
<1>4. a # b /\ nx[b] = a => Swapped(nx, pv, a, b) = SwappedNeighbours(nx, pv, b, a)
  BY DEF Swapped
<1>5. a # b /\ nx[b] # a /\ nx[a] = b => Swapped(nx, pv, a, b) = SwappedNeighbours(nx, pv, a, b)
  BY DEF Swapped
<1>6. a # b /\ nx[b] # a /\ nx[a] # b => Swapped(nx, pv, a, b) = SwappedApart(nx, pv, a, b)
  BY DEF Swapped
<1>7. QED
  BY <1>1, <1>2, <1>3, <1>4, <1>5, <1>6, Zenon

\* The list is right when the memory has been mapped.
LEMMA RingInit == ASSUME Init PROVE RingInv
<1>1. op \in Operations /\ accessCount \in Nat
  BY OperationTypes DEF Init
<1>2. RingOf(accessCount, 1) \in [Nodes -> Nodes] /\ RingOf(accessCount, accessCount - 1) \in [Nodes -> Nodes]
  <2>1. CASE accessCount = 0
    <3>1. Nodes = {}
      BY <2>1 DEF Nodes
    <3>2. QED
      BY <2>1, <3>1, NoNodes
  <2>2. CASE accessCount # 0
    BY <1>1, <2>2, RingOfOrder DEF Nodes
  <2>3. QED
    BY <2>1, <2>2
<1>3. memory \in [Nodes -> Nodes]
  BY <1>1 DEF Init, Nodes
<1>4. RingTypes
  BY <1>1, <1>2, <1>3 DEF Init, RingTypes, Building
<1>5. ListInv
  <2>1. accessCount > 2 => accessCount \in Nat \ {0}
    BY <1>1
  <2>2. phase # "fill"
    BY DEF Init
  <2>3. next = RingOf(accessCount, 1) /\ prev = RingOf(accessCount, accessCount - 1)
    BY DEF Init
  <2>4. QED
    BY <2>1, <2>2, <2>3, FirstRing DEF ListInv
<1>6. MemoryInv
  BY DEF Init, MemoryInv
<1>7. QED
  BY <1>4, <1>5, <1>6 DEF RingInv

\* What only the list and its phase depend on: the other steps keep it.
Listed == <<op, phase, i, list, memory>>

\* Steps that leave these alone keep the ring.
LEMMA ListedKept == ASSUME RingInv, UNCHANGED Listed PROVE RingInv'
<1>1. UNCHANGED <<op, phase, i, next, prev, jump, memory>>
  BY DEF Listed, list
<1>2. UNCHANGED <<accessCount, Nodes, Building, RandomRead>>
  BY <1>1 DEF accessCount, Nodes, Building, RandomRead
<1>3. QED
  BY <1>1, <1>2 DEF RingInv, RingTypes, ListInv, MemoryInv

\* A swap keeps the list one ring.
LEMMA ShuffleKeeps == ASSUME RingInv, Shuffle PROVE RingInv'
<1>1. UNCHANGED <<op, phase, jump, memory, accessCount, Nodes, Building, RandomRead>>
  BY DEF Shuffle, accessCount, Nodes, Building, RandomRead
<1>2. op \in Operations /\ accessCount \in Nat /\ i \in Nodes
  BY OperationTypes DEF RingInv, RingTypes, Shuffle, Nodes
<1>3. PICK j \in Nodes : next' = Swapped(next, prev, i, j)[1] /\ prev' = Swapped(next, prev, i, j)[2]
  BY DEF Shuffle
<1>4. RingTypes'
  <2>1. next' \in [Nodes -> Nodes] /\ prev' \in [Nodes -> Nodes]
    BY <1>2, <1>3, SwapTyped DEF RingInv, RingTypes
  <2>2. i' \in Nat
    BY DEF Shuffle, RingInv, RingTypes
  <2>3. QED
    BY <1>1, <2>1, <2>2 DEF RingInv, RingTypes
<1>5. ListInv'
  <2>1. accessCount > 2 => Inverses(next', prev', accessCount) /\ \E c : IsCycle(c, next', accessCount)
    BY <1>2, <1>3, SwapKeepsRing DEF RingInv, ListInv, Building, Shuffle, Nodes
  <2>2. phase' # "fill"
    BY DEF Shuffle
  <2>3. QED
    BY <1>1, <2>1, <2>2 DEF ListInv
<1>6. MemoryInv'
  BY <1>1 DEF RingInv, MemoryInv
<1>7. QED
  BY <1>4, <1>5, <1>6 DEF RingInv

\* The check of the list succeeds, and nothing is written yet.
LEMMA CheckListKeeps == ASSUME RingInv, CheckList PROVE RingInv'
<1>1. UNCHANGED <<op, next, prev, jump, memory, accessCount, Nodes, RandomRead>>
  BY DEF CheckList, list, accessCount, Nodes, RandomRead
<1>2. op \in Operations /\ accessCount \in Nat /\ RandomRead /\ i' = 0
  BY OperationTypes DEF RingInv, RingTypes, CheckList, Building
<1>3. accessCount > 2 => IsRing(next, accessCount)
  BY <1>2, RingOfCycle DEF RingInv, ListInv, Building, CheckList
<1>4. RingTypes'
  BY <1>1, <1>2 DEF RingInv, RingTypes, CheckList, Building
<1>5. ListInv'
  <2>1. phase' = "fill" => IsRing(next, accessCount)
    BY DEF CheckList
  <2>2. 0..i' - 1 = {}
    BY <1>2
  <2>3. QED
    BY <1>1, <1>2, <2>1, <2>2 DEF RingInv, ListInv, Building, CheckList
<1>6. MemoryInv'
  BY <1>1, <1>3 DEF CheckList, MemoryInv
<1>7. QED
  BY <1>4, <1>5, <1>6 DEF RingInv

\* A step writes one slot, and no slot is written twice.
LEMMA FillKeeps == ASSUME RingInv, Fill PROVE RingInv'
<1> DEFINE W(m) == Walk(next, 0, m)
<1>1. UNCHANGED <<op, phase, next, prev, jump, accessCount, Nodes, Building, RandomRead>>
  BY DEF Fill, list, accessCount, Nodes, Building, RandomRead
<1>2. op \in Operations /\ accessCount \in Nat /\ i \in Nodes /\ i' = i + 1
  BY OperationTypes DEF RingInv, RingTypes, Fill, Nodes
<1>3. /\ next \in [0..accessCount - 1 -> 0..accessCount - 1]
      /\ prev \in [0..accessCount - 1 -> 0..accessCount - 1]
      /\ IsRing(next, accessCount) /\ accessCount \in Nat \ {0}
  <2>1. IsRing(next, accessCount)
    BY DEF RingInv, ListInv, Fill
  <2>2. accessCount \in Nat \ {0}
    BY <1>2 DEF Nodes
  <2>3. QED
    BY <2>1, <2>2 DEF RingInv, RingTypes, Nodes
<1>4. /\ \A m \in Nodes : W(m) \in Nodes
      /\ \A m, n \in Nodes : W(m) = W(n) => m = n
  BY <1>2, <1>3, WalkOfRing DEF Nodes
<1>5. /\ jump \in [Nodes -> Nodes]
      /\ \A m, n \in Nodes : jump[m] = jump[n] => m = n
  <2>1. jump = RingOf(accessCount, 1)
    BY DEF RingInv, RingTypes
  <2>2. RingOf(accessCount, 1) \in [0..accessCount - 1 -> 0..accessCount - 1]
    BY <1>3, RingOfOrder
  <2>3. QED
    BY <1>3, <2>1, <2>2, RingOfBijection, Zenon DEF Nodes
<1>6. memory' = [memory EXCEPT ![jump[prev[W(i)]]] = jump[W(i)]]
  BY DEF Fill
<1> HIDE DEF W
<1>7. prev[W(i)] \in Nodes /\ jump[prev[W(i)]] \in Nodes /\ jump[W(i)] \in Nodes
  BY <1>2, <1>3, <1>4, <1>5 DEF Nodes
<1>8. RingTypes'
  <2>1. memory' \in [Nodes -> Nodes]
    BY <1>6, <1>7 DEF RingInv, RingTypes
  <2>2. i' \in Nat
    BY <1>2 DEF Nodes
  <2>3. QED
    BY <1>1, <2>1, <2>2 DEF RingInv, RingTypes
<1>9. ASSUME accessCount > 2, NEW m \in 0..i PROVE memory'[jump[prev[W(m)]]] = jump[W(m)]
  <2>1. m \in Nodes
    BY <1>2 DEF Nodes
  <2>2. Inverses(next, prev, accessCount)
    BY <1>9 DEF RingInv, ListInv, Fill, Building
  <2>3. prev[W(m)] \in Nodes /\ W(m) \in Nodes /\ W(i) \in Nodes
    BY <1>2, <1>3, <1>4, <2>1 DEF Nodes
  <2>4. CASE m = i
    BY <1>6, <1>7, <2>4 DEF RingInv, RingTypes
  <2>5. CASE m # i
    <3>1. m \in 0..i - 1
      BY <2>5, <1>2 DEF Nodes
    <3>2. memory[jump[prev[W(m)]]] = jump[W(m)]
      BY <1>9, <3>1 DEF RingInv, ListInv, Fill, W
    <3>3. W(m) # W(i)
      BY <1>2, <1>4, <2>1, <2>5
    <3>4. prev[W(m)] # prev[W(i)]
      BY <2>2, <2>3, <3>3 DEF Inverses, Nodes
    <3>5. jump[prev[W(m)]] # jump[prev[W(i)]]
      BY <1>5, <1>7, <2>3, <3>4
    <3>6. jump[prev[W(m)]] \in Nodes
      BY <1>5, <2>3
    <3>7. QED
      BY <1>6, <1>7, <3>2, <3>5, <3>6 DEF RingInv, RingTypes
  <2>6. QED
    BY <2>4, <2>5
<1>10. ListInv'
  <2>1. i' <= accessCount /\ 0..i' - 1 = 0..i
    BY <1>2 DEF Nodes
  <2>2. QED
    BY <1>1, <1>9, <2>1 DEF RingInv, ListInv, W
<1>11. MemoryInv'
  BY <1>1 DEF RingInv, MemoryInv, Fill
<1>12. QED
  BY <1>8, <1>10, <1>11 DEF RingInv

\* When all slots are written, they are the list's ring, moved by the jumps.
LEMMA MemoryOfList ==
  ASSUME RingInv, phase = "fill", i = accessCount, accessCount > 2
  PROVE  IsRing(memory, accessCount)
<1> DEFINE N == accessCount
           W(m) == Walk(next, 0, m)
<1>1. op \in Operations /\ N \in Nat \ {0} /\ N > 2
  BY OperationTypes DEF RingInv, RingTypes
<1>2. /\ next \in [0..N - 1 -> 0..N - 1] /\ prev \in [0..N - 1 -> 0..N - 1]
      /\ IsRing(next, N) /\ Inverses(next, prev, N) /\ \E c : IsCycle(c, next, N)
  BY DEF RingInv, RingTypes, ListInv, Building, Nodes
<1>3. \A m \in 0..N - 1 : memory[jump[prev[W(m)]]] = jump[W(m)]
  BY DEF RingInv, ListInv
<1>4. \A x \in 0..N - 1 : \E m \in 0..N - 1 : W(m) = x
  BY <1>1, <1>2, WalkOfRing
<1>5. /\ jump \in [0..N - 1 -> 0..N - 1]
      /\ \A x, y \in 0..N - 1 : jump[x] = jump[y] => x = y
      /\ \A y \in 0..N - 1 : \E x \in 0..N - 1 : jump[x] = y
  <2>1. jump = RingOf(N, 1)
    BY DEF RingInv, RingTypes
  <2>2. RingOf(N, 1) \in [0..N - 1 -> 0..N - 1]
    BY <1>1, RingOfOrder
  <2>3. QED
    BY <1>1, <2>1, <2>2, RingOfBijection, Zenon
<1> HIDE DEF N, W
<1>6. ASSUME NEW x \in 0..N - 1 PROVE memory[jump[x]] = jump[next[x]]
  <2>1. next[x] \in 0..N - 1 /\ prev[next[x]] = x
    BY <1>2 DEF Inverses
  <2>2. PICK m \in 0..N - 1 : W(m) = next[x]
    BY <1>4, <2>1
  <2>3. QED
    BY <1>3, <2>1, <2>2
<1>7. PICK c : IsCycle(c, next, N)
  BY <1>2
<1> DEFINE d == [k \in 0..N - 1 |-> jump[c[k]]]
<1>8. IsCycle(d, memory, N)
  <2>1. /\ c \in [0..N - 1 -> 0..N - 1]
        /\ \A j, k \in 0..N - 1 : c[j] = c[k] => j = k
        /\ \A x \in 0..N - 1 : \E k \in 0..N - 1 : c[k] = x
        /\ \A k \in 0..N - 1 : next[c[k]] = c[After(k, N)]
    BY <1>7, Zenon DEF IsCycle
  <2>2. \A k \in 0..N - 1 : After(k, N) \in 0..N - 1
    BY <1>1 DEF After
  <2>3. d \in [0..N - 1 -> 0..N - 1]
    BY <1>5, <2>1
  <2>4. \A j, k \in 0..N - 1 : d[j] = d[k] => j = k
    BY <1>5, <2>1
  <2>5. ASSUME NEW y \in 0..N - 1 PROVE \E k \in 0..N - 1 : d[k] = y
    <3>1. PICK x \in 0..N - 1 : jump[x] = y
      BY <1>5
    <3>2. PICK k \in 0..N - 1 : c[k] = x
      BY <2>1
    <3>3. QED
      BY <3>1, <3>2
  <2>6. ASSUME NEW k \in 0..N - 1 PROVE memory[d[k]] = d[After(k, N)]
    BY <1>6, <2>1, <2>2
  <2>7. QED
    BY <2>3, <2>4, <2>5, <2>6, Zenon DEF IsCycle
<1> HIDE DEF d
<1>9. QED
  BY <1>1, <1>8, RingOfCycle DEF N

\* The check of the memory succeeds.
LEMMA CheckMemoryKeeps == ASSUME RingInv, CheckMemory PROVE RingInv'
<1>1. UNCHANGED <<op, next, prev, jump, memory, accessCount, Nodes, RandomRead>>
  BY DEF CheckMemory, list, accessCount, Nodes, RandomRead
<1>2. accessCount > 2 => IsRing(memory, accessCount)
  BY MemoryOfList DEF CheckMemory
<1>3. phase' = (IF IsRing(memory, accessCount) THEN "create" ELSE "exit") /\ i' = 0
  BY DEF CheckMemory
<1>4. RingTypes'
  BY <1>1, <1>3 DEF RingInv, RingTypes, Building
<1>5. ListInv'
  BY <1>3 DEF ListInv, Building
<1>6. MemoryInv'
  BY <1>1, <1>2, <1>3 DEF MemoryInv
<1>7. QED
  BY <1>4, <1>5, <1>6 DEF RingInv

\* Every step of the main thread keeps the ring.
LEMMA MainKeeps == ASSUME RingInv, Main PROVE RingInv'
<1>1. CASE CreateThread \/ AwaitBarrier \/ PassBarrier \/ Join
  <2>1. /\ UNCHANGED <<op, next, prev, jump, memory, accessCount, Nodes, RandomRead>>
        /\ phase \in {"create", "barrier", "join"} /\ phase' \in {"create", "barrier", "join", "done"}
        /\ i' \in {i, i + 1}
    BY <1>1 DEF CreateThread, AwaitBarrier, PassBarrier, Join, list, accessCount, Nodes, RandomRead
  <2>2. RingTypes'
    BY <2>1 DEF RingInv, RingTypes, Building
  <2>3. ListInv' /\ MemoryInv'
    BY <2>1 DEF RingInv, ListInv, MemoryInv, Building
  <2>4. QED
    BY <2>2, <2>3 DEF RingInv
<1>2. QED
  BY <1>1, ShuffleKeeps, CheckListKeeps, FillKeeps, CheckMemoryKeeps DEF Main

\* Every step keeps the ring.
LEMMA RingStep == ASSUME RingInv, [Next]_vars PROVE RingInv'
<1>1. CASE Main
  BY <1>1, MainKeeps
<1>2. CASE \E t \in Threads : Kernel(t)
  <2>1. UNCHANGED Listed
    BY <1>2 DEF Kernel, SequentialAccess, ChunkedAccess, RandomReads, RandomWrite, RandomStore, Listed
  <2>2. QED
    BY <2>1, ListedKept
<1>3. CASE UNCHANGED vars
  BY <1>3, ListedKept DEF vars, Listed, list
<1>4. QED
  BY <1>1, <1>2, <1>3 DEF Next

\* The invariant is more than what is claimed of the ring.
LEMMA RingHolds == ASSUME RingInv PROVE RingIntact
<1>1. op \in Operations /\ accessCount \in Nat
  BY OperationTypes DEF RingInv, RingTypes
<1>2. ListIsRing
  BY <1>1, RingOfCycle DEF RingInv, ListInv, Building, ListIsRing, Inverses, Nodes
<1>3. MemoryIsRing
  <2>1. ASSUME IsRing(memory, accessCount) PROVE {Walk(memory, 0, n) : n \in Nodes} = Nodes
    <3>1. memory \in [0..accessCount - 1 -> 0..accessCount - 1]
      BY DEF RingInv, RingTypes, Nodes
    <3>2. /\ \A k \in Nodes : Walk(memory, 0, k) \in Nodes
          /\ \A x \in Nodes : \E k \in Nodes : Walk(memory, 0, k) = x
      BY <1>1, <2>1, <3>1, WalkOfRing, Zenon DEF Nodes
    <3>3. QED
      BY <3>2
  <2>2. QED
    BY <2>1 DEF RingInv, MemoryInv, MemoryIsRing
<1>4. QED
  BY <1>2, <1>3 DEF RingIntact

\* Whatever nodes are swapped, the list stays one ring of all nodes with prev the inverse of
\* next, if it has more than two; the addresses written to the memory are one ring of all
\* slots, so the program does not give up on its own checks (fill_with_random_offsets,
\* linked_list_swap_nodes).
THEOREM RingStaysIntact == Spec => []RingIntact
<1>1. Spec => []RingInv
  BY RingInit, RingStep, PTL DEF Spec
<1>2. QED
  BY <1>1, RingHolds, PTL

----------------------------------------------------------------------------
(*****************************************************************************)
(* Quotients.                                                                *)
(*****************************************************************************)

\* Multiples grow with their factor.
LEMMA TimesGrows ==
  ASSUME NEW c \in Nat, NEW x \in Nat, NEW y \in Nat, x <= y
  PROVE  c * x \in Nat /\ c * y \in Nat /\ c * x <= c * y
<1>1. PICK z \in Nat : y = x + z
  <2>1. y - x \in Nat /\ y = x + (y - x)
    OBVIOUS
  <2>2. QED
    BY <2>1
<1>2. c * y = (c * x) + (c * z) /\ c * x \in Nat /\ c * z \in Nat
  BY <1>1
<1>3. QED
  BY <1>2

\* Quotient and remainder are determined by the number.
LEMMA QuotientUnique ==
  ASSUME NEW n \in Nat \ {0}, NEW q \in Nat, NEW r \in 0..n - 1
  PROVE  ((n * q) + r) \div n = q /\ ((n * q) + r) % n = r
  OBVIOUS

\* Blocks of n lines: the line x is in block x \div n.
LEMMA InBlock ==
  ASSUME NEW n \in Nat \ {0}, NEW q \in Nat, NEW x \in (n * q)..(n * q) + n - 1
  PROVE  x \in Nat /\ x \div n = q /\ x % n = x - (n * q)
<1>1. n * q \in Nat
  OBVIOUS
<1>2. x - (n * q) \in 0..n - 1 /\ x \in Nat /\ x = (n * q) + (x - (n * q))
  BY <1>1
<1>3. QED
  BY <1>2, QuotientUnique

\* A number of n digits t and k: the digits are determined.
LEMMA PairUnique ==
  ASSUME NEW n \in Nat \ {0}, NEW q \in Nat, NEW r \in 0..n - 1, NEW p \in Nat, NEW s \in 0..n - 1,
         (n * q) + r = (n * p) + s
  PROVE  q = p /\ r = s
  BY QuotientUnique

\* What is below n quotients of d stays below the number.
LEMMA PairBelow ==
  ASSUME NEW n \in Nat \ {0}, NEW q \in Nat, NEW p \in Nat, q < p, NEW r \in 0..n - 1
  PROVE  (n * q) + r < n * p /\ (n * q) + n <= n * p
<1>1. n * (q + 1) <= n * p
  BY TimesGrows
<1>2. n * (q + 1) = (n * q) + n /\ n * q \in Nat /\ n * p \in Nat
  OBVIOUS
<1>3. QED
  BY <1>1, <1>2

\* The quotient of a number below p multiples of n is below p.
LEMMA QuotientBelow ==
  ASSUME NEW n \in Nat \ {0}, NEW p \in Nat, NEW x \in Nat, x < n * p
  PROVE  x \div n < p /\ x \div n \in Nat
<1>1. x \div n \in Nat /\ x % n \in 0..n - 1 /\ x = (n * (x \div n)) + (x % n)
  BY Division
<1>2. CASE p <= x \div n
  <2>1. n * p <= n * (x \div n)
    BY <1>1, <1>2, TimesGrows
  <2>2. n * p \in Nat /\ n * (x \div n) \in Nat
    BY <1>1
  <2>3. QED
    BY <1>1, <2>1, <2>2
<1>3. QED
  BY <1>1, <1>2

\* A multiple below another one is a whole multiple below it.
LEMMA MultipleBelow ==
  ASSUME NEW n \in Nat \ {0}, NEW q \in Nat, NEW p \in Nat, n * q < n * p
  PROVE  q < p /\ (n * q) + n <= n * p
<1>1. q < p
  BY TimesGrows
<1>2. QED
  BY <1>1, PairBelow

----------------------------------------------------------------------------
(*****************************************************************************)
(* The shares.  A thread of a sequential kernel has taken some number of     *)
(* turns a stride apart, a thread of random reads has followed the ring from *)
(* its own place; what either has touched is what those turns access.        *)
(*****************************************************************************)

Turn(t, m) == BeginOf(t) + (Stride * m)
Admitted(t, a) == IF Chunked THEN a < op.size ELSE a + op.ad <= EndOf(t)
Accessed(t, a) ==
  IF Chunked THEN Chunks(a)
  ELSE IF OwnKernel THEN Lines(a, op.ad) ELSE WrittenBlocks(a, EndOf(t))

\* What a jump to node n reads with a kernel of its own.
Slot(n) == Lines(op.ad * n, op.ad)

\* A sequential kernel has taken m turns, a stride apart, and has touched what they access.
TurnsTaken(t, p, a, l) ==
  \E m \in Nat : /\ a = Turn(t, m)
                 /\ \A k \in 0..m - 1 : Admitted(t, Turn(t, k))
                 /\ l = UNION {Accessed(t, Turn(t, k)) : k \in 0..m - 1}
                 /\ p = "done" => ~Admitted(t, a)

\* A thread of random reads has followed the ring from its place, n blocks far.
RingFollowed(t, p, a, n, l) ==
  /\ \E m \in Nat : n = op.perLoop * m
  /\ n < accessesPerThread + op.perLoop
  /\ a = Walk(memory, 0, (t * accessesPerThread) + n)
  /\ OwnKernel => l = UNION {Slot(Walk(memory, 0, (t * accessesPerThread) + k)) : k \in 0..n - 1}
  /\ p = "done" => n >= accessesPerThread

ThreadInv(t, p, a, n, l) ==
  /\ p = "none" => l = {} /\ n = 0
  /\ p # "none" /\ ~op.random => TurnsTaken(t, p, a, l)
  /\ p # "none" /\ RandomRead => RingFollowed(t, p, a, n, l)

ThreadTypes ==
  /\ pc \in [Threads -> {"none", "barrier", "run", "done"}] /\ addr \in [Threads -> Nat]
  /\ count \in [Threads -> Nat] /\ touched \in [Threads -> SUBSET (0 .. LastLine)]

\* The threads are created one after the other, after the ring is in the memory.
CreatedInOrder ==
  \A t \in Threads : phase \in {"shuffle", "fill", "exit", "crash"} \/ (phase = "create" /\ t >= i) => pc[t] = "none"

StartsOnRing ==
  RandomRead /\ phase = "create" =>
    start = [t \in Threads |-> Walk(memory, 0, t * accessesPerThread)]

SharesInv ==
  /\ RingInv /\ ThreadTypes /\ CreatedInOrder /\ StartsOnRing
  /\ \A t \in Threads : ThreadInv(t, pc[t], addr[t], count[t], touched[t])

\* The quotients of an operation and their remainders.
LEMMA Quotients ==
  ASSUME op \in Operations
  PROVE  /\ accessCount \in Nat /\ accessesPerThread \in Nat /\ Share \in Nat
         /\ \E r \in 0..op.ad - 1 : op.size = (op.ad * accessCount) + r
         /\ \E r \in 0..op.threads - 1 : accessCount = (op.threads * accessesPerThread) + r
         /\ \E r \in 0..op.threads - 1 : op.size = (op.threads * Share) + r
<1>1. op.size \in Nat \ {0} /\ op.ad \in Nat \ {0} /\ op.threads \in Nat \ {0}
  BY OperationTypes
<1>2. accessCount \in Nat /\ accessesPerThread \in Nat
  BY OperationTypes
<1>3. Share \in Nat /\ (op.size % op.threads) \in 0..op.threads - 1
      /\ op.size = (op.threads * Share) + (op.size % op.threads)
  BY <1>1, Division DEF Share
<1>4. (op.size % op.ad) \in 0..op.ad - 1 /\ op.size = (op.ad * accessCount) + (op.size % op.ad)
  BY <1>1, Division DEF accessCount
<1>5. /\ (accessCount % op.threads) \in 0..op.threads - 1
      /\ accessCount = (op.threads * accessesPerThread) + (accessCount % op.threads)
  BY <1>1, <1>2, Division DEF accessesPerThread
<1>6. QED
  BY <1>2, <1>3, <1>4, <1>5

\* At the log pattern the threads take the blocks in turn.
LEMMA TurnOfLog ==
  ASSUME op \in Operations, ~Disjoint, NEW t \in Threads, NEW k \in Nat
  PROVE  /\ t + (op.threads * k) \in Nat
         /\ Turn(t, k) = op.ad * (t + (op.threads * k))
         /\ Turn(t, k) \in Nat
         /\ (t + (op.threads * k)) % op.threads = t /\ (t + (op.threads * k)) \div op.threads = k
<1>1. op.ad \in Nat \ {0} /\ op.threads \in Nat \ {0} /\ t \in 0..op.threads - 1
  BY OperationTypes DEF Threads
<1>2. Turn(t, k) = (t * op.ad) + ((op.ad * op.threads) * k)
  BY DEF Turn, BeginOf, Stride
<1>3. (t * op.ad) + ((op.ad * op.threads) * k) = op.ad * (t + (op.threads * k))
  BY <1>1
<1>4. t + (op.threads * k) = (op.threads * k) + t /\ op.threads * k \in Nat
  BY <1>1
<1>5. op.ad * (t + (op.threads * k)) \in Nat
  BY <1>1, <1>4
<1>6. ((op.threads * k) + t) % op.threads = t /\ ((op.threads * k) + t) \div op.threads = k
  BY <1>1, QuotientUnique
<1>7. t + (op.threads * k) \in Nat
  BY <1>1, <1>4
<1>8. QED
  BY <1>2, <1>3, <1>4, <1>5, <1>6, <1>7, Zenon

\* At the disjoint pattern each thread has a share of the memory for itself.
LEMMA TurnOfDisjoint ==
  ASSUME op \in Operations, Disjoint, NEW t \in Threads, NEW k \in Nat
  PROVE  /\ Turn(t, k) = (Share * t) + (op.ad * k) /\ Turn(t, k) \in Nat
         /\ Share * t \in Nat /\ op.ad * k \in Nat
         /\ EndOf(t) = (Share * t) + Share /\ (Share * t) + Share <= op.size
<1>1. op.ad \in Nat \ {0} /\ op.threads \in Nat \ {0} /\ t \in 0..op.threads - 1 /\ op.size \in Nat
  BY OperationTypes DEF Threads
<1>2. Share \in Nat /\ op.threads * Share \in Nat /\ op.threads * Share <= op.size
  BY <1>1, Quotients
<1>3. Share * t \in Nat /\ op.ad * k \in Nat /\ t * Share = Share * t
  BY <1>1, <1>2
<1>4. (Share * t) + Share <= op.threads * Share
  <2>1. Share * (t + 1) <= Share * op.threads
    BY <1>1, <1>2, TimesGrows
  <2>2. Share * (t + 1) = (Share * t) + Share /\ Share * op.threads = op.threads * Share
    BY <1>1, <1>2
  <2>3. QED
    BY <2>1, <2>2
<1>5. Turn(t, k) = (Share * t) + (op.ad * k)
  BY <1>3 DEF Turn, BeginOf, Stride
<1>6. (Share * t) + Share <= op.size
  <2> DEFINE a == Share * t
             b == op.threads * Share
  <2>1. a \in Nat /\ b \in Nat /\ a + Share <= b /\ b <= op.size
    BY <1>2, <1>3, <1>4
  <2> HIDE DEF a, b
  <2>2. a + Share <= op.size
    BY <1>1, <1>2, <2>1
  <2>3. QED
    BY <2>2 DEF a
<1>7. EndOf(t) = (Share * t) + Share
  <2> DEFINE a == Share * t
  <2>1. a \in Nat /\ a + Share <= op.size /\ BeginOf(t) = a
    BY <1>3, <1>6 DEF BeginOf
  <2>2. EndOf(t) = Min2(BeginOf(t) + Share, op.size)
    BY DEF EndOf
  <2> HIDE DEF a
  <2>3. EndOf(t) = a + Share
    BY <1>1, <1>2, <2>1, <2>2 DEF Min2
  <2>4. QED
    BY <2>3 DEF a
<1>8. Turn(t, k) \in Nat
  <2> DEFINE a == Share * t
             b == op.ad * k
  <2>1. a \in Nat /\ b \in Nat /\ Turn(t, k) = a + b
    BY <1>3, <1>5
  <2> HIDE DEF a, b
  <2>2. QED
    BY <2>1
<1>9. QED
  BY <1>3, <1>5, <1>6, <1>7, <1>8

\* What write_nt writes without a kernel of its own is before the thread's end, and in its
\* access unless that has two blocks or more.
LEMMA WrittenFits ==
  ASSUME op \in Operations, NEW a \in Nat, NEW e \in Nat, NEW x \in WrittenBlocks(a, e)
  PROVE  /\ x \in Nat /\ a <= x /\ x < e
         /\ op.ad < 2 * WriteBlock => x \in a..a + op.ad - 1
<1> DEFINE w == WriteBlock
           q == op.ad \div w
<1>1. op.ad \in Nat \ {0} /\ w \in Nat \ {0}
  BY OperationTypes, ChunkType
<1>2. PICK k \in 0..q - 1 : a + (2 * k + 1) * w <= e /\ x \in Lines(a + 2 * k * w, w)
  BY DEF WrittenBlocks
<1> HIDE DEF w
<1>3. q \in Nat /\ op.ad = (w * q) + (op.ad % w) /\ op.ad % w \in Nat
  <2>1. op.ad \div w \in Nat /\ op.ad % w \in 0..w - 1 /\ op.ad = (w * (op.ad \div w)) + (op.ad % w)
    BY <1>1, Division
  <2>2. QED
    BY <1>1, <2>1
<1>4. k \in Nat /\ k < q
  BY <1>2, <1>3
<1> HIDE DEF q
<1>5. w * k \in Nat /\ 2 * k * w = 2 * (w * k) /\ (2 * k + 1) * w = (2 * (w * k)) + w
  BY <1>1, <1>4
<1>6. /\ x \in (a + (2 * (w * k)))..(a + (2 * (w * k))) + w - 1
      /\ a + ((2 * (w * k)) + w) <= e
  BY <1>2, <1>5 DEF Lines
<1>7. x \in Nat /\ a <= x /\ x < e
  <2> DEFINE c == w * k
  <2>1. c \in Nat /\ x \in (a + (2 * c))..(a + (2 * c)) + w - 1 /\ a + ((2 * c) + w) <= e
    BY <1>5, <1>6
  <2> HIDE DEF c
  <2>2. QED
    BY <1>1, <2>1
<1>8. ASSUME op.ad < 2 * w PROVE x \in a..a + op.ad - 1
  <2>1. q < 2
    <3>1. op.ad < w * 2
      BY <1>1, <1>8
    <3>2. QED
      BY <1>1, <3>1, QuotientBelow DEF q
  <2>2. k = 0 /\ q = 1
    BY <1>3, <1>4, <2>1
  <2>3. w * k = 0 /\ w * q = w
    BY <1>1, <2>2
  <2>4. w <= op.ad
    BY <1>1, <1>3, <2>3
  <2>5. x \in a..a + w - 1
    BY <1>1, <1>6, <2>3
  <2>6. QED
    BY <1>1, <2>4, <2>5
<1>9. QED
  BY <1>7, <1>8 DEF w

\* What is admitted lies in the memory, and before the thread's end.
LEMMA AccessFits ==
  ASSUME op \in Operations, NEW t \in Threads, NEW a \in Nat, Admitted(t, a)
  PROVE  /\ Accessed(t, a) \subseteq 0..op.size - 1
         /\ ~Chunked => Accessed(t, a) \subseteq a..EndOf(t) - 1 /\ EndOf(t) \in Nat
<1>1. op.ad \in Nat \ {0} /\ op.size \in Nat /\ Chunk \in Nat \ {0}
  BY OperationTypes, ChunkType
<1>2. CASE Chunked
  BY <1>1, <1>2 DEF Accessed, Chunks, Lines
<1>3. CASE ~Chunked
  <2>1. EndOf(t) <= op.size /\ EndOf(t) \in Nat
    <3>1. CASE Disjoint
      <4>1. EndOf(t) = (Share * t) + Share /\ (Share * t) + Share <= op.size /\ Share * t \in Nat
        BY <3>1, TurnOfDisjoint
      <4>2. QED
        BY <4>1, Quotients
    <3>2. CASE ~Disjoint
      BY <1>1, <3>2 DEF EndOf
    <3>3. QED
      BY <3>1, <3>2
  <2>2. Accessed(t, a) \subseteq a..EndOf(t) - 1
    <3>1. CASE OwnKernel
      <4>1. a + op.ad <= EndOf(t) /\ Accessed(t, a) = a..a + op.ad - 1
        BY <1>3, <3>1 DEF Admitted, Accessed, Lines
      <4>2. QED
        BY <1>1, <2>1, <4>1
    <3>2. CASE ~OwnKernel
      <4>1. Accessed(t, a) = WrittenBlocks(a, EndOf(t))
        BY <1>3, <3>2 DEF Accessed
      <4>2. ASSUME NEW x \in WrittenBlocks(a, EndOf(t)) PROVE x \in a..EndOf(t) - 1
        <5>1. x \in Nat /\ a <= x /\ x < EndOf(t)
          BY <2>1, WrittenFits
        <5>2. QED
          BY <2>1, <5>1
      <4>3. QED
        BY <4>1, <4>2
    <3>3. QED
      BY <3>1, <3>2
  <2>3. a..EndOf(t) - 1 \subseteq 0..op.size - 1
    BY <1>1, <2>1
  <2>4. QED
    BY <1>3, <2>1, <2>2, <2>3, Zenon
<1>4. QED
  BY <1>2, <1>3

\* A kernel that touches whole accesses touches all of what is admitted.
LEMMA AccessWhole ==
  ASSUME op \in Operations, WholeAccesses, ~Chunked, NEW t \in Threads, NEW a \in Nat, Admitted(t, a)
  PROVE  a..a + op.ad - 1 \subseteq Accessed(t, a)
<1>1. CASE OwnKernel
  BY <1>1 DEF Accessed, Lines
<1>2. CASE ~OwnKernel
  <2> DEFINE w == WriteBlock
  <2>1. op.ad = w /\ w \in Nat \ {0}
    BY <1>2, ChunkType DEF WholeAccesses
  <2>2. a + op.ad <= EndOf(t) /\ Accessed(t, a) = WrittenBlocks(a, EndOf(t))
    BY <1>2 DEF Admitted, Accessed
  <2> HIDE DEF w
  <2>3. op.ad \div w = 1
    <3>1. op.ad = (w * 1) + 0 /\ 0 \in 0..w - 1
      BY <2>1
    <3>2. QED
      BY <2>1, <3>1, QuotientUnique
  <2>4. a + (2 * 0 + 1) * w = a + op.ad /\ a + 2 * 0 * w = a
    BY <2>1
  <2>5. 0 \in {l \in 0..(op.ad \div w) - 1 : a + (2 * l + 1) * w <= EndOf(t)}
    BY <2>2, <2>3, <2>4
  <2>6. Lines(a + 2 * 0 * w, w) \subseteq WrittenBlocks(a, EndOf(t))
    BY <2>5 DEF WrittenBlocks, w
  <2>7. Lines(a + 2 * 0 * w, w) = a..a + op.ad - 1
    BY <2>1, <2>4 DEF Lines
  <2>8. QED
    BY <2>2, <2>6, <2>7
<1>3. QED
  BY <1>1, <1>2

\* The slots of the ring lie in the memory, apart from one another.
LEMMA SlotFits ==
  ASSUME op \in Operations, NEW n \in Nodes
  PROVE  /\ Slot(n) \subseteq 0..op.size - 1
         /\ \A x \in Slot(n) : x \div op.ad = n
         /\ Slot(n) = (op.ad * n)..(op.ad * n) + op.ad - 1
<1>1. op.ad \in Nat \ {0} /\ op.size \in Nat /\ accessCount \in Nat /\ n \in 0..accessCount - 1
  BY OperationTypes DEF Nodes
<1>2. op.ad * accessCount <= op.size /\ op.ad * accessCount \in Nat /\ op.ad * n \in Nat
  BY <1>1, Quotients
<1>3. (op.ad * n) + op.ad <= op.ad * accessCount
  BY <1>1, PairBelow
<1>4. Slot(n) = (op.ad * n)..(op.ad * n) + op.ad - 1
  BY DEF Slot, Lines
<1>5. \A x \in Slot(n) : x \div op.ad = n
  <2>1. n \in Nat
    BY <1>1
  <2>2. QED
    BY <1>1, <1>4, <2>1, InBlock
<1>6. Slot(n) \subseteq 0..op.size - 1
  <2> DEFINE a == op.ad * n
             b == op.ad * accessCount
  <2>1. a \in Nat /\ b \in Nat /\ a + op.ad <= b /\ b <= op.size /\ Slot(n) = a..a + op.ad - 1
    BY <1>2, <1>3, <1>4
  <2> HIDE DEF a, b
  <2>2. QED
    BY <1>1, <2>1
<1>7. QED
  BY <1>4, <1>5, <1>6

\* What a jump reads lies in the mapped memory, or in the block behind it.
LEMMA ReadFits ==
  ASSUME op \in Operations, RandomRead, memory \in [Nodes -> Nodes], NEW n \in Nodes, NEW h \in BOOLEAN
  PROVE  /\ OwnKernel => ReadAt(n, h) = Slot(n)
         /\ ReadAt(n, h) \subseteq 0..LastLine
<1>1. /\ op.ad \in Nat \ {0} /\ op.size \in Nat \ {0} /\ Block \in Nat \ {0} /\ LastLine \in Nat
      /\ 0..op.size - 1 \subseteq 0..LastLine
  BY OperationTypes, ChunkType, LastLineFits
<1>2. OwnKernel => ReadAt(n, h) = Slot(n)
  BY DEF ReadAt, Slot
<1>3. ASSUME NEW m \in Nodes, ~OwnKernel PROVE Lines(op.ad * m, Block) \subseteq 0..LastLine
  <2> DEFINE a == op.ad * m
  <2>1. a \in Nat /\ a + op.ad <= op.size
    <3>1. Slot(m) = a..a + op.ad - 1 /\ Slot(m) \subseteq 0..op.size - 1
      BY SlotFits
    <3>2. a \in Nat
      BY <1>1, OperationTypes DEF Nodes
    <3> HIDE DEF a
    <3>3. a + op.ad - 1 \in a..a + op.ad - 1
      BY <1>1, <3>2
    <3>4. a + op.ad - 1 \in 0..op.size - 1
      BY <3>1, <3>3
    <3>5. QED
      BY <1>1, <3>2, <3>4
  <2>2. op.ad < Block => LastLine = (op.size - 1) + Block
    BY <1>3, LastLineFits
  <2> HIDE DEF a
  <2>3. a..a + Block - 1 \subseteq 0..LastLine
    <3>1. CASE op.ad < Block
      BY <1>1, <2>1, <2>2, <3>1
    <3>2. CASE ~(op.ad < Block)
      <4>1. a..a + Block - 1 \subseteq 0..op.size - 1
        BY <1>1, <2>1, <3>2
      <4>2. QED
        BY <1>1, <4>1
    <3>3. QED
      BY <3>1, <3>2
  <2>4. QED
    BY <2>3 DEF Lines, a
<1>4. CASE OwnKernel
  BY <1>1, <1>2, <1>4, SlotFits
<1>5. CASE ~OwnKernel
  <2>1. memory[n] \in Nodes
    OBVIOUS
  <2>2. Lines(op.ad * n, Block) \subseteq 0..LastLine /\ Lines(op.ad * memory[n], Block) \subseteq 0..LastLine
    BY <1>3, <1>5, <2>1
  <2>3. QED
    BY <1>5, <2>2 DEF ReadAt
<1>6. QED
  BY <1>2, <1>4, <1>5

\* What holds of a thread depends on the operation and, once it runs, on the memory.
LEMMA ThreadKept ==
  ASSUME op' = op, NEW t, NEW p, NEW a, NEW n, NEW l, p # "none" => memory' = memory,
         ThreadInv(t, p, a, n, l)
  PROVE  ThreadInv(t, p, a, n, l)'
<1>1. CASE p = "none"
  BY <1>1 DEF ThreadInv
<1>2. CASE p # "none"
  <2>1. memory' = memory
    BY <1>2
  <2>2. RandomRead' = RandomRead /\ op.random' = op.random
    BY DEF RandomRead
  <2>3. TurnsTaken(t, p, a, l) => TurnsTaken(t, p, a, l)'
    <3>1. Chunked' = Chunked /\ Share' = Share
      BY DEF Chunked, Share, OwnKernel
    <3>2. Disjoint' = Disjoint
      BY <3>1 DEF Disjoint
    <3>3. BeginOf(t)' = BeginOf(t) /\ Stride' = Stride
      BY <3>1, <3>2 DEF BeginOf, Stride
    <3>4. EndOf(t)' = EndOf(t)
      BY <3>1, <3>2, <3>3 DEF EndOf
    <3>5. \A m : Turn(t, m)' = Turn(t, m)
      BY <3>3 DEF Turn
    <3>6. \A m : Admitted(t, m)' = Admitted(t, m)
      BY <3>1, <3>4 DEF Admitted
    <3>7. \A m : Accessed(t, m)' = Accessed(t, m)
      <4>1. OwnKernel' = OwnKernel /\ Chunk' = Chunk /\ WriteBlock' = WriteBlock
        BY DEF OwnKernel, Chunk, WriteBlock
      <4>2. \A m : Chunks(m)' = Chunks(m)
        BY <4>1 DEF Chunks, Lines
      <4>3. \A m : WrittenBlocks(m, EndOf(t))' = WrittenBlocks(m, EndOf(t))
        BY <3>4, <4>1 DEF WrittenBlocks, Lines
      <4>4. QED
        BY <3>1, <4>1, <4>2, <4>3 DEF Accessed, Lines
    <3>8. QED
      BY <3>5, <3>6, <3>7 DEF TurnsTaken
  <2>4. RingFollowed(t, p, a, n, l) => RingFollowed(t, p, a, n, l)'
    BY <2>1 DEF RingFollowed, accessesPerThread, accessCount, Slot, Lines, OwnKernel
  <2>5. QED
    BY <1>2, <2>2, <2>3, <2>4 DEF ThreadInv
<1>3. QED
  BY <1>1, <1>2

\* No thread has been created when the memory has been mapped.
LEMMA SharesInit == ASSUME Init PROVE SharesInv
<1>1. RingInv
  BY RingInit
<1>2. op \in Operations
  BY <1>1 DEF RingInv, RingTypes
<1>3. ThreadTypes
  BY DEF Init, ThreadTypes
<1>4. CreatedInOrder
  BY DEF Init, CreatedInOrder
<1>5. StartsOnRing
  BY DEF Init, StartsOnRing
<1>6. \A t \in Threads : ThreadInv(t, pc[t], addr[t], count[t], touched[t])
  BY DEF Init, ThreadInv
<1>7. QED
  BY <1>1, <1>3, <1>4, <1>5, <1>6 DEF SharesInv

\* A step of thread t alone, that leaves it with these values.
ThreadStep(t, p, a, n, l) ==
  /\ pc' = [pc EXCEPT ![t] = p] /\ addr' = [addr EXCEPT ![t] = a]
  /\ count' = [count EXCEPT ![t] = n] /\ touched' = [touched EXCEPT ![t] = l]

\* A step of one thread leaves the others as they are.
LEMMA ThreadStepKeeps ==
  ASSUME SharesInv, NEW t \in Threads, pc[t] = "run", UNCHANGED <<op, phase, i, list, memory, start>>,
         NEW p \in {"run", "done"}, NEW a \in Nat, NEW n \in Nat, NEW l \in SUBSET (0..LastLine),
         ThreadStep(t, p, a, n, l), ThreadInv(t, p, a, n, l)
  PROVE  SharesInv'
<1>1. /\ op' = op /\ phase' = phase /\ i' = i /\ memory' = memory /\ start' = start
      /\ Threads' = Threads /\ RandomRead' = RandomRead
  BY DEF Threads, RandomRead
<1>2. RingInv'
  BY ListedKept DEF SharesInv, Listed
<1>3. ThreadTypes'
  <2>1. LastLine' = LastLine
    BY <1>1 DEF LastLine, OwnKernel
  <2>2. QED
    BY <1>1, <2>1 DEF SharesInv, ThreadTypes, ThreadStep
<1>4. /\ pc'[t] = p /\ addr'[t] = a /\ count'[t] = n /\ touched'[t] = l
      /\ \A u \in Threads : u # t =>
           pc'[u] = pc[u] /\ addr'[u] = addr[u] /\ count'[u] = count[u] /\ touched'[u] = touched[u]
  BY DEF SharesInv, ThreadTypes, ThreadStep
<1>5. CreatedInOrder'
  BY <1>1, <1>4 DEF SharesInv, CreatedInOrder
<1>6. StartsOnRing'
  <2>1. UNCHANGED accessesPerThread
    BY <1>1 DEF accessesPerThread, accessCount
  <2>2. QED
    BY <1>1, <2>1 DEF SharesInv, StartsOnRing
<1>7. ASSUME NEW u \in Threads PROVE ThreadInv(u, pc[u], addr[u], count[u], touched[u])'
  <2>1. CASE u = t
    <3>1. ThreadInv(t, p, a, n, l)'
      BY <1>1, ThreadKept
    <3>2. QED
      BY <1>4, <2>1, <3>1
  <2>2. CASE u # t
    <3>1. PICK pu, au, nu, lu : pu = pc[u] /\ au = addr[u] /\ nu = count[u] /\ lu = touched[u]
      OBVIOUS
    <3>2. ThreadInv(u, pu, au, nu, lu)
      BY <3>1 DEF SharesInv
    <3>3. ThreadInv(u, pu, au, nu, lu)'
      BY <1>1, <3>2, ThreadKept
    <3>4. QED
      BY <1>4, <2>2, <3>1, <3>3
  <2>3. QED
    BY <2>1, <2>2
<1>8. QED
  BY <1>1, <1>2, <1>3, <1>5, <1>6, <1>7 DEF SharesInv

\* The operation is one of those of the command line.
LEMMA OperationOf == ASSUME SharesInv PROVE op \in Operations /\ op.random \in BOOLEAN
  BY OperationTypes DEF SharesInv, RingInv, RingTypes

\* What a running thread has in hand.
LEMMA RunningThread ==
  ASSUME SharesInv, NEW t \in Threads, Running(t)
  PROVE  /\ pc[t] = "run" /\ addr[t] \in Nat /\ count[t] \in Nat
         /\ touched[t] \in SUBSET (0..LastLine)
         /\ ~op.random => TurnsTaken(t, "run", addr[t], touched[t])
         /\ RandomRead => RingFollowed(t, "run", addr[t], count[t], touched[t])
<1>1. pc[t] = "run"
  BY DEF Running
<1>2. ThreadInv(t, pc[t], addr[t], count[t], touched[t])
  BY DEF SharesInv
<1>3. TurnsTaken(t, pc[t], addr[t], touched[t]) => TurnsTaken(t, "run", addr[t], touched[t])
  BY <1>1
<1>4. QED
  BY <1>1, <1>2 DEF SharesInv, ThreadTypes, ThreadInv

\* A thread is done when its loop's condition fails.
LEMMA FinishKeeps ==
  ASSUME SharesInv, NEW t \in Threads, Running(t), Finish(t),
         UNCHANGED <<op, phase, i, list, memory, start>>,
         ~op.random => ~Admitted(t, addr[t]), RandomRead => count[t] >= accessesPerThread
  PROVE  SharesInv'
<1>1. /\ pc[t] = "run" /\ addr[t] \in Nat /\ count[t] \in Nat
      /\ touched[t] \in SUBSET (0..LastLine)
      /\ ~op.random => TurnsTaken(t, "run", addr[t], touched[t])
      /\ RandomRead => RingFollowed(t, "run", addr[t], count[t], touched[t])
  BY RunningThread
<1>2. PICK a, n, l : a = addr[t] /\ n = count[t] /\ l = touched[t]
  OBVIOUS
<1>3. ThreadStep(t, "done", a, n, l)
  BY <1>2 DEF ThreadStep, Finish, SharesInv, ThreadTypes
<1>4. ~op.random => TurnsTaken(t, "done", a, l)
  BY <1>1, <1>2 DEF TurnsTaken
<1>5. RandomRead => RingFollowed(t, "done", a, n, l)
  BY <1>1, <1>2 DEF RingFollowed
<1>6. ThreadInv(t, "done", a, n, l)
  BY <1>4, <1>5 DEF ThreadInv
<1>7. QED
  BY <1>1, <1>2, <1>3, <1>6, ThreadStepKeeps

\* One more turn of a sequential kernel.
LEMMA TurnTaken ==
  ASSUME op \in Operations, NEW t \in Threads, NEW a, NEW l, TurnsTaken(t, "run", a, l), Admitted(t, a)
  PROVE  /\ a \in Nat /\ a + Stride \in Nat /\ Accessed(t, a) \subseteq 0..op.size - 1
         /\ TurnsTaken(t, "run", a + Stride, l \cup Accessed(t, a))
<1>1. PICK m \in Nat : /\ a = Turn(t, m)
                       /\ \A k \in 0..m - 1 : Admitted(t, Turn(t, k))
                       /\ l = UNION {Accessed(t, Turn(t, k)) : k \in 0..m - 1}
  BY DEF TurnsTaken
<1>2. \A k \in Nat : Turn(t, k) \in Nat
  BY TurnOfLog, TurnOfDisjoint
<1>3. op.ad \in Nat /\ op.threads \in Nat /\ Stride \in Nat
  BY OperationTypes DEF Stride
<1>4. Turn(t, m + 1) = Turn(t, m) + Stride
  <2>1. BeginOf(t) \in Nat
    BY <1>3, Quotients DEF BeginOf, Threads
  <2>2. Stride * (m + 1) = (Stride * m) + Stride /\ Stride * m \in Nat
    BY <1>3
  <2>3. QED
    BY <1>3, <2>1, <2>2 DEF Turn
<1>5. 0..(m + 1) - 1 = (0..m - 1) \cup {m} /\ m + 1 \in Nat
  OBVIOUS
<1> HIDE DEF Turn, Accessed, Admitted
<1>6. l \cup Accessed(t, a) = UNION {Accessed(t, Turn(t, k)) : k \in (0..m - 1) \cup {m}}
  BY <1>1
<1>7. \A k \in (0..m - 1) \cup {m} : Admitted(t, Turn(t, k))
  BY <1>1
<1>8. TurnsTaken(t, "run", a + Stride, l \cup Accessed(t, a))
  <2>1. /\ a + Stride = Turn(t, m + 1)
        /\ \A k \in 0..(m + 1) - 1 : Admitted(t, Turn(t, k))
        /\ l \cup Accessed(t, a) = UNION {Accessed(t, Turn(t, k)) : k \in 0..(m + 1) - 1}
    BY <1>1, <1>4, <1>5, <1>6, <1>7
  <2>2. "run" # "done"
    OBVIOUS
  <2> HIDE DEF Stride
  <2>3. QED
    BY <1>5, <2>1, <2>2 DEF TurnsTaken
<1>9. QED
  BY <1>1, <1>2, <1>3, <1>8, AccessFits

\* A turn of a sequential kernel keeps the shares.
LEMMA TurnKeeps ==
  ASSUME SharesInv, NEW t \in Threads, Running(t), ~op.random, Admitted(t, addr[t]),
         Touch(t, Accessed(t, addr[t])), addr' = [addr EXCEPT ![t] = @ + Stride], UNCHANGED <<pc, count>>,
         UNCHANGED <<op, phase, i, list, memory, start>>
  PROVE  SharesInv'
<1>1. /\ pc[t] = "run" /\ addr[t] \in Nat /\ count[t] \in Nat
      /\ touched[t] \in SUBSET (0..LastLine)
      /\ TurnsTaken(t, "run", addr[t], touched[t])
  BY RunningThread
<1>2. PICK p, a, n, l : /\ p = "run" /\ a = addr[t] + Stride /\ n = count[t]
                        /\ l = touched[t] \cup Accessed(t, addr[t])
  OBVIOUS
<1>3. a \in Nat /\ l \in SUBSET (0..LastLine) /\ TurnsTaken(t, p, a, l)
  BY <1>1, <1>2, OperationOf, TurnTaken, LastLineFits
<1>4. ThreadStep(t, p, a, n, l)
  BY <1>1, <1>2 DEF ThreadStep, Touch, SharesInv, ThreadTypes
<1>5. ThreadInv(t, p, a, n, l)
  BY <1>2, <1>3 DEF ThreadInv, RandomRead
<1>6. QED
  BY <1>1, <1>2, <1>3, <1>4, <1>5, ThreadStepKeeps

\* read_nt_* and write_nt_*.
LEMMA SequentialKeeps == ASSUME SharesInv, NEW t \in Threads, SequentialAccess(t) PROVE SharesInv'
<1>1. Running(t) /\ ~op.random /\ ~Chunked /\ UNCHANGED <<op, phase, i, list, memory, start>>
  BY DEF SequentialAccess
<1>2. CASE addr[t] + op.ad <= EndOf(t)
  BY <1>1, <1>2, TurnKeeps DEF SequentialAccess, Admitted, Accessed
<1>3. CASE ~(addr[t] + op.ad <= EndOf(t))
  BY <1>1, <1>3, FinishKeeps DEF SequentialAccess, Admitted, RandomRead
<1>4. QED
  BY <1>2, <1>3

\* read_nt, read_simd, write_clwb and write_store.
LEMMA ChunkedKeeps == ASSUME SharesInv, NEW t \in Threads, ChunkedAccess(t) PROVE SharesInv'
<1>1. Running(t) /\ ~op.random /\ Chunked /\ UNCHANGED <<op, phase, i, list, memory, start>>
  BY DEF ChunkedAccess
<1>2. CASE addr[t] < op.size
  BY <1>1, <1>2, TurnKeeps DEF ChunkedAccess, Admitted, Accessed
<1>3. CASE ~(addr[t] < op.size)
  BY <1>1, <1>3, FinishKeeps DEF ChunkedAccess, Admitted, RandomRead
<1>4. QED
  BY <1>2, <1>3

\* Random reads find nodes, as long as there are any.
LEMMA WalkInNodes ==
  ASSUME SharesInv
  PROVE  /\ accessCount \in Nat /\ accessesPerThread \in Nat
         /\ accessesPerThread > 0 => accessCount > 0
         /\ accessCount > 0 => \A n \in Nat : Walk(memory, 0, n) \in Nodes
<1>1. op \in Operations /\ memory \in [Nodes -> Nodes]
  BY DEF SharesInv, RingInv, RingTypes
<1>2. accessCount \in Nat /\ accessesPerThread \in Nat /\ op.threads \in Nat \ {0}
  BY <1>1, OperationTypes
<1>3. accessCount > 0 => 0 \in Nodes
  BY <1>2 DEF Nodes
<1>4. accessCount > 0 => \A n \in Nat : Walk(memory, 0, n) \in Nodes
  BY <1>1, <1>3, WalkStays
<1>5. accessesPerThread > 0 => accessCount > 0
  <2>1. op.threads * 1 <= op.threads * accessesPerThread \/ accessesPerThread = 0
    BY <1>2, TimesGrows
  <2>2. op.threads * accessesPerThread <= accessCount /\ op.threads * accessesPerThread \in Nat
    BY <1>1, <1>2, Quotients
  <2>3. QED
    BY <1>2, <2>1, <2>2
<1>6. QED
  BY <1>2, <1>4, <1>5

\* A turn of random reads goes perLoop blocks further on the ring.
LEMMA RingGoesOn ==
  ASSUME SharesInv, NEW t \in Threads, NEW a, NEW n \in Nat, NEW l, RingFollowed(t, "run", a, n, l),
         n < accessesPerThread,
         NEW b, b = Walk(memory, a, op.perLoop), NEW m, m = n + op.perLoop,
         RandomRead, l \subseteq 0..LastLine, NEW h \in BOOLEAN,
         NEW K, K = l \cup UNION {ReadAt(Walk(memory, a, j), h) : j \in 0..op.perLoop - 1}
  PROVE  b \in Nat /\ m \in Nat /\ K \subseteq 0..LastLine /\ RingFollowed(t, "run", b, m, K)
<1> DEFINE o == t * accessesPerThread
           L == op.perLoop
           W(k) == Walk(memory, 0, k)
<1>0. /\ b = Walk(memory, a, L) /\ m = n + L
      /\ K = l \cup UNION {ReadAt(Walk(memory, a, j), h) : j \in 0..L - 1}
  OBVIOUS
<1>1. op \in Operations /\ L \in Nat \ {0} /\ accessesPerThread \in Nat /\ accessCount > 0 /\ t \in Nat
  BY OperationOf, OperationTypes, WalkInNodes DEF Threads
<1>2. o \in Nat
  BY <1>1
<1>3. \A k \in Nat : W(k) \in Nodes
  BY <1>1, WalkInNodes
<1>4. a = W(o + n) /\ o + n \in Nat
  BY <1>2 DEF RingFollowed
<1>5. \A j \in Nat : Walk(memory, a, j) = W(o + n + j)
  BY <1>4, WalkSum
<1>6. memory \in [Nodes -> Nodes]
  BY DEF SharesInv, RingInv, RingTypes
<1> HIDE DEF o, W, L
<1>7. ASSUME NEW j \in 0..L - 1
      PROVE  Walk(memory, a, j) = W(o + (n + j)) /\ Walk(memory, a, j) \in Nodes
  <2>1. j \in Nat /\ o + n + j = o + (n + j) /\ o + (n + j) \in Nat
    BY <1>1, <1>2
  <2>2. QED
    BY <1>3, <1>5, <2>1
<1>8. ASSUME OwnKernel PROVE K = UNION {Slot(W(o + k)) : k \in 0..m - 1}
  <2>1. \A k \in n..m - 1 : k - n \in 0..L - 1 /\ n + (k - n) = k
    BY <1>0, <1>1
  <2>2. \A j \in 0..L - 1 : n + j \in n..m - 1
    BY <1>0, <1>1
  <2>3. 0..m - 1 = (0..n - 1) \cup (n..m - 1)
    BY <1>0, <1>1
  <2>4. \A j \in 0..L - 1 : ReadAt(Walk(memory, a, j), h) = Slot(W(o + (n + j)))
    <3>1. TAKE j \in 0..L - 1
    <3>2. ReadAt(Walk(memory, a, j), h) = Slot(Walk(memory, a, j))
      BY <1>1, <1>6, <1>7, <1>8, ReadFits
    <3>3. QED
      BY <1>7, <3>2
  <2>5. UNION {ReadAt(Walk(memory, a, j), h) : j \in 0..L - 1} = UNION {Slot(W(o + k)) : k \in n..m - 1}
    <3>1. {ReadAt(Walk(memory, a, j), h) : j \in 0..L - 1} = {Slot(W(o + k)) : k \in n..m - 1}
      BY <2>1, <2>2, <2>4
    <3>2. QED
      BY <3>1
  <2>6. l = UNION {Slot(W(o + k)) : k \in 0..n - 1}
    BY <1>8 DEF RingFollowed, o, W
  <2>7. QED
    BY <1>0, <2>3, <2>5, <2>6
<1>10. K \subseteq 0..LastLine
  <2>1. \A j \in 0..L - 1 : ReadAt(Walk(memory, a, j), h) \subseteq 0..LastLine
    BY <1>1, <1>6, <1>7, ReadFits
  <2>2. QED
    BY <1>0, <2>1
<1>11. b = W(o + m) /\ b \in Nat
  <2>1. b = W(o + n + L) /\ o + n + L = o + m /\ o + m \in Nat
    BY <1>0, <1>1, <1>2, <1>5
  <2>2. W(o + m) \in Nodes /\ Nodes \subseteq Nat
    BY <1>3, <2>1 DEF Nodes
  <2>3. QED
    BY <2>1, <2>2
<1>12. m \in Nat /\ \E q \in Nat : m = L * q
  <2>1. PICK q \in Nat : n = L * q
    BY DEF RingFollowed, L
  <2>2. m = L * (q + 1) /\ q + 1 \in Nat /\ m \in Nat
    BY <1>0, <1>1, <2>1
  <2>3. QED
    BY <2>2, Zenon
<1>13. m < accessesPerThread + L
  BY <1>0, <1>1
<1>14. RingFollowed(t, "run", b, m, K)
  BY <1>8, <1>11, <1>12, <1>13 DEF RingFollowed, o, W, L
<1>15. QED
  BY <1>10, <1>11, <1>12, <1>14

\* read_nt_random_*.
LEMMA RandomReadsKeep == ASSUME SharesInv, NEW t \in Threads, RandomReads(t) PROVE SharesInv'
<1>1. Running(t) /\ RandomRead /\ op.random /\ UNCHANGED <<op, phase, i, list, memory, start>>
  BY DEF RandomReads, RandomRead
<1>2. CASE count[t] < accessesPerThread
  <2>1. /\ pc[t] = "run" /\ addr[t] \in Nat /\ count[t] \in Nat
        /\ touched[t] \in SUBSET (0..LastLine)
        /\ RingFollowed(t, "run", addr[t], count[t], touched[t])
    BY <1>1, RunningThread
  <2>2. PICK h \in BOOLEAN :
          Touch(t, UNION {ReadAt(Walk(memory, addr[t], k), h) : k \in 0 .. op.perLoop - 1})
    BY <1>2 DEF RandomReads, Ahead
  <2>3. PICK p, a, n, l :
          /\ p = "run" /\ a = Walk(memory, addr[t], op.perLoop) /\ n = count[t] + op.perLoop
          /\ l = touched[t] \cup UNION {ReadAt(Walk(memory, addr[t], k), h) : k \in 0..op.perLoop - 1}
    OBVIOUS
  <2>4. a \in Nat /\ n \in Nat /\ l \in SUBSET (0..LastLine) /\ RingFollowed(t, "run", a, n, l)
    BY <1>1, <1>2, <2>1, <2>3, RingGoesOn
  <2>5. ThreadStep(t, p, a, n, l)
    BY <1>2, <2>1, <2>2, <2>3 DEF ThreadStep, RandomReads, Touch, SharesInv, ThreadTypes
  <2>6. ThreadInv(t, p, a, n, l)
    BY <1>1, <2>3, <2>4 DEF ThreadInv
  <2>7. QED
    BY <1>1, <2>1, <2>3, <2>4, <2>5, <2>6, ThreadStepKeeps
<1>3. CASE ~(count[t] < accessesPerThread)
  <2>1. Finish(t) /\ count[t] >= accessesPerThread
    BY <1>1, <1>3, RunningThread, WalkInNodes DEF RandomReads
  <2>2. QED
    BY <1>1, <2>1, FinishKeeps
<1>4. QED
  BY <1>2, <1>3

\* A random write touches lines of the memory, whichever.
LEMMA WriteKeeps ==
  ASSUME SharesInv, NEW t \in Threads, Running(t), op.random, op.mode = "write",
         NEW s \in SUBSET (0..LastLine), Touch(t, s), count' = [count EXCEPT ![t] = @ + 1],
         UNCHANGED <<addr, pc>>, UNCHANGED <<op, phase, i, list, memory, start>>
  PROVE  SharesInv'
<1>1. /\ pc[t] = "run" /\ addr[t] \in Nat /\ count[t] \in Nat
      /\ touched[t] \in SUBSET (0..LastLine)
  BY RunningThread
<1>2. PICK p, a, n, l : p = "run" /\ a = addr[t] /\ n = count[t] + 1 /\ l = touched[t] \cup s
  OBVIOUS
<1>3. ThreadStep(t, p, a, n, l)
  BY <1>1, <1>2 DEF ThreadStep, Touch, SharesInv, ThreadTypes
<1>4. ThreadInv(t, p, a, n, l)
  BY <1>2 DEF ThreadInv, RandomRead
<1>5. n \in Nat
  BY <1>1, <1>2
<1>6. l \in SUBSET (0..LastLine)
  BY <1>1, <1>2, Zenon
<1>7. QED
  BY <1>1, <1>2, <1>3, <1>4, <1>5, <1>6, ThreadStepKeeps

\* A random write stays in its access: its loops overlap by a block.
LEMMA WrittenAtFits ==
  ASSUME op \in Operations, NEW o \in Nat
  PROVE  WrittenAt(o) \subseteq o..o + op.ad - 1
<1> DEFINE b == Block
           q == op.ad \div (8 * b)
<1>1. op.ad \in Nat /\ b \in Nat \ {0} /\ 8 * b \in Nat \ {0}
  BY OperationTypes, ChunkType
<1>2. CASE OwnKernel \/ q = 0
  <2>1. OwnKernel => WrittenAt(o) = o..o + op.ad - 1
    BY DEF WrittenAt, Lines
  <2>2. ~OwnKernel /\ q = 0 => WrittenAt(o) = {}
    BY DEF WrittenAt
  <2>3. QED
    BY <1>2, <2>1, <2>2
<1>3. CASE ~OwnKernel /\ q # 0
  <2>1. WrittenAt(o) = o..o + (7 * q + 1) * b - 1
    BY <1>3 DEF WrittenAt, Lines
  <2> HIDE DEF b
  <2>2. q \in Nat /\ op.ad = ((8 * b) * q) + (op.ad % (8 * b)) /\ op.ad % (8 * b) \in Nat
    <3> DEFINE n == 8 * b
    <3>1. n \in Nat \ {0} /\ op.ad \in Nat /\ q = op.ad \div n
      BY <1>1
    <3> HIDE DEF n, q
    <3>2. op.ad \div n \in Nat /\ op.ad % n \in 0..n - 1 /\ op.ad = (n * (op.ad \div n)) + (op.ad % n)
      BY <3>1, Division
    <3>3. q \in Nat /\ op.ad = (n * q) + (op.ad % n) /\ op.ad % n \in Nat
      BY <3>1, <3>2
    <3>4. QED
      BY <3>3 DEF n
  <2> HIDE DEF q
  <2>3. (8 * b) * q = 8 * (b * q) /\ (7 * q + 1) * b = (7 * (b * q)) + b /\ b * q \in Nat
    BY <1>1, <2>2
  <2>4. b <= b * q
    <3>1. b * 1 <= b * q
      BY <1>1, <1>3, <2>2, TimesGrows
    <3>2. QED
      BY <1>1, <3>1
  <2>5. (7 * q + 1) * b <= op.ad /\ (7 * q + 1) * b \in Nat
    <3> DEFINE c == b * q
    <3>1. c \in Nat /\ b <= c /\ op.ad = (8 * c) + (op.ad % (8 * b)) /\ (7 * q + 1) * b = (7 * c) + b
      BY <2>2, <2>3, <2>4
    <3> HIDE DEF c
    <3>2. QED
      BY <1>1, <2>2, <3>1
  <2> DEFINE e == (7 * q + 1) * b
  <2>6. e \in Nat /\ e <= op.ad /\ WrittenAt(o) = o..o + e - 1
    BY <2>1, <2>5
  <2> HIDE DEF e
  <2>7. QED
    BY <1>1, <2>6
<1>4. QED
  BY <1>2, <1>3

\* write_nt_random_*: the mask keeps the accesses in the memory.
LEMMA RandomWriteKeeps == ASSUME SharesInv, NEW t \in Threads, RandomWrite(t) PROVE SharesInv'
<1>1. /\ Running(t) /\ op.random /\ op.mode = "write" /\ op.kernel = "nt" /\ ~RandomRead
      /\ UNCHANGED <<op, phase, i, list, memory, start>>
  BY DEF RandomWrite, RandomRead
<1>2. CASE count[t] < accessesPerThread
  <2>1. PICK o \in OffsetsIn(op.size) : Touch(t, WrittenAt(o))
    BY <1>2 DEF RandomWrite
  <2>2. op \in Operations /\ op.ad \in Nat /\ op.size \in Nat
    BY OperationOf, OperationTypes
  <2>3. o \in Nat /\ o + op.ad <= op.size
    BY <1>1, <2>2, MaskAssumption DEF OffsetsIn
  <2>4. WrittenAt(o) \in SUBSET (0..LastLine)
    <3>1. o..o + op.ad - 1 \subseteq 0..op.size - 1
      BY <2>2, <2>3
    <3>2. QED
      BY <2>2, <2>3, <3>1, WrittenAtFits, LastLineFits
  <2>5. QED
    BY <1>1, <1>2, <2>1, <2>4, WriteKeeps DEF RandomWrite
<1>3. CASE ~(count[t] < accessesPerThread)
  BY <1>1, <1>3, FinishKeeps DEF RandomWrite
<1>4. QED
  BY <1>2, <1>3

\* write_clwb_random and write_store_random: the chunks end before the memory does.
LEMMA RandomStoreKeeps == ASSUME SharesInv, NEW t \in Threads, RandomStore(t) PROVE SharesInv'
<1>1. /\ Running(t) /\ op.random /\ op.mode = "write" /\ ~RandomRead
      /\ UNCHANGED <<op, phase, i, list, memory, start>>
  BY DEF RandomStore, RandomRead
<1>2. CASE count[t] * op.ad <= Share
  <2>1. PICK o \in 0..op.size - 1 : Touch(t, Chunks(o))
    BY <1>2 DEF RandomStore
  <2>2. op \in Operations /\ op.ad \in Nat /\ op.size \in Nat /\ Chunk \in Nat \ {0}
    BY OperationOf, OperationTypes, ChunkType
  <2>3. Chunks(o) \in SUBSET (0..LastLine)
    <3>1. Chunks(o) \subseteq 0..op.size - 1
      BY <2>2 DEF Chunks, Lines
    <3>2. QED
      BY <2>2, <3>1, LastLineFits
  <2>4. QED
    BY <1>1, <1>2, <2>1, <2>3, WriteKeeps DEF RandomStore
<1>3. CASE ~(count[t] * op.ad <= Share)
  BY <1>1, <1>3, FinishKeeps DEF RandomStore
<1>4. QED
  BY <1>2, <1>3

\* The main thread's steps, before the threads and at the barrier.
LEMMA BuildingKeepsThreads ==
  ASSUME SharesInv, Shuffle \/ CheckList \/ Fill \/ CheckMemory \/ AwaitBarrier \/ Join
  PROVE  SharesInv'
<1>1. /\ UNCHANGED <<op, pc, addr, count, touched, Threads, RandomRead, accessesPerThread, LastLine>>
      /\ memory' = memory \/ phase = "fill"
  BY DEF Shuffle, CheckList, Fill, CheckMemory, AwaitBarrier, Join, list, Threads, RandomRead,
         accessesPerThread, accessCount, LastLine, OwnKernel
<1>2. RingInv'
  BY RingStep DEF SharesInv, Next, Main
<1>3. ThreadTypes'
  BY <1>1 DEF SharesInv, ThreadTypes
<1>4. CreatedInOrder'
  BY <1>1 DEF SharesInv, CreatedInOrder, Shuffle, CheckList, Fill, CheckMemory, AwaitBarrier,
         Join, RingInv, RingTypes
<1>5. StartsOnRing'
  BY <1>1 DEF SharesInv, StartsOnRing, Shuffle, CheckList, Fill, CheckMemory, AwaitBarrier, Join
<1>6. ASSUME NEW t \in Threads PROVE ThreadInv(t, pc[t], addr[t], count[t], touched[t])'
  <2>1. PICK p, a, n, l : p = pc[t] /\ a = addr[t] /\ n = count[t] /\ l = touched[t]
    OBVIOUS
  <2>2. p # "none" => memory' = memory
    BY <1>1, <2>1 DEF SharesInv, CreatedInOrder
  <2>3. ThreadInv(t, p, a, n, l)
    BY <2>1 DEF SharesInv
  <2>4. ThreadInv(t, p, a, n, l)'
    BY <1>1, <2>2, <2>3, ThreadKept
  <2>5. QED
    BY <1>1, <2>1, <2>4
<1>7. QED
  BY <1>1, <1>2, <1>3, <1>4, <1>5, <1>6 DEF SharesInv

\* At the barrier all threads start to run.
LEMMA PassBarrierKeeps == ASSUME SharesInv, PassBarrier PROVE SharesInv'
<1>1. /\ UNCHANGED <<op, memory, addr, count, touched, Threads, RandomRead, LastLine>>
      /\ phase = "barrier" /\ phase' = "join"
      /\ \A t \in Threads : pc[t] = "barrier" /\ pc'[t] = "run"
      /\ pc' = [t \in Threads |-> "run"]
  BY DEF PassBarrier, Threads, RandomRead, LastLine, OwnKernel
<1>2. RingInv'
  BY RingStep DEF SharesInv, Next, Main
<1>3. ThreadTypes'
  BY <1>1 DEF SharesInv, ThreadTypes
<1>4. CreatedInOrder' /\ StartsOnRing'
  BY <1>1 DEF CreatedInOrder, StartsOnRing
<1>5. ASSUME NEW t \in Threads PROVE ThreadInv(t, pc[t], addr[t], count[t], touched[t])'
  <2>1. PICK p, a, n, l : p = "run" /\ a = addr[t] /\ n = count[t] /\ l = touched[t]
    OBVIOUS
  <2>2. ThreadInv(t, "barrier", a, n, l)
    BY <1>1, <2>1 DEF SharesInv
  <2>3. ThreadInv(t, p, a, n, l)
    BY <2>1, <2>2 DEF ThreadInv, TurnsTaken, RingFollowed
  <2>4. ThreadInv(t, p, a, n, l)'
    BY <1>1, <2>3, ThreadKept
  <2>5. QED
    BY <1>1, <2>1, <2>4
<1>6. QED
  BY <1>1, <1>2, <1>3, <1>4, <1>5 DEF SharesInv

\* A new thread starts at its first turn, or at its place on the ring.
LEMMA CreateThreadKeeps == ASSUME SharesInv, CreateThread PROVE SharesInv'
<1>1. op \in Operations /\ i \in Nat /\ op.threads \in Nat /\ op.ad \in Nat /\ op.perLoop \in Nat \ {0}
      /\ Share \in Nat /\ op.random \in BOOLEAN
  BY OperationTypes, Quotients DEF SharesInv, RingInv, RingTypes
<1>2. PICK k, p, a : k = i /\ p = (IF op.kernel = "nt" THEN "barrier" ELSE "run")
                     /\ a = IF RandomRead THEN start[i] ELSE BeginOf(i)
  OBVIOUS
<1>3. /\ k \in Threads /\ pc[k] = "none" /\ count[k] = 0 /\ touched[k] = {} /\ phase = "create"
      /\ i' = i + 1 /\ i = k /\ p \in {"barrier", "run"}
  BY <1>1, <1>2 DEF CreateThread, SharesInv, CreatedInOrder, ThreadInv, Threads
<1>4. /\ UNCHANGED <<op, phase, memory, start, count, touched, Threads, RandomRead, accessesPerThread, LastLine>>
      /\ pc' = [pc EXCEPT ![k] = p] /\ addr' = [addr EXCEPT ![k] = a]
  BY <1>2 DEF CreateThread, Threads, RandomRead, accessesPerThread, accessCount, LastLine, OwnKernel
<1>5. RingInv'
  BY RingStep DEF SharesInv, Next, Main
<1>6. ~op.random => a = Turn(k, 0) /\ a \in Nat
  <2>1. ASSUME ~op.random PROVE a = BeginOf(k) /\ BeginOf(k) \in Nat
    <3>1. a = BeginOf(k)
      BY <1>2, <2>1 DEF RandomRead
    <3>2. k * Share \in Nat /\ k * op.ad \in Nat
      BY <1>1, <1>3
    <3>3. QED
      BY <3>1, <3>2 DEF BeginOf
  <2>2. Stride * 0 = 0
    BY <1>1 DEF Stride
  <2>3. QED
    BY <2>1, <2>2 DEF Turn
<1>7. RandomRead => a = Walk(memory, 0, k * accessesPerThread) /\ a \in Nat
  <2>1. ASSUME RandomRead PROVE a = Walk(memory, 0, k * accessesPerThread)
    BY <1>2, <1>3, <2>1 DEF SharesInv, StartsOnRing
  <2>2. Walk(memory, 0, k * accessesPerThread) \in Nat
    <3>1. CASE accessesPerThread > 0
      <4>1. k * accessesPerThread \in Nat
        BY <1>1, <1>3, WalkInNodes
      <4>2. Walk(memory, 0, k * accessesPerThread) \in Nodes
        BY <3>1, <4>1, WalkInNodes
      <4>3. QED
        BY <4>2 DEF Nodes
    <3>2. CASE accessesPerThread = 0
      <4>1. k * accessesPerThread = 0
        BY <1>1, <1>3, <3>2
      <4>2. QED
        BY <4>1, WalkSteps
    <3>3. QED
      BY <3>1, <3>2, WalkInNodes
  <2>3. QED
    BY <2>1, <2>2
<1>8. a \in Nat
  <2>1. CASE op.random /\ ~RandomRead
    <3>1. a = BeginOf(k)
      BY <1>2, <2>1
    <3>2. k * Share \in Nat /\ k * op.ad \in Nat
      BY <1>1, <1>3
    <3>3. QED
      BY <3>1, <3>2 DEF BeginOf
  <2>2. QED
    BY <1>1, <1>6, <1>7, <2>1
<1>9. ThreadTypes'
  BY <1>3, <1>4, <1>8 DEF SharesInv, ThreadTypes
<1>10. CreatedInOrder'
  <2>1. ASSUME NEW t \in Threads, t >= i + 1 PROVE pc'[t] = "none"
    <3>1. t # k /\ t >= i
      BY <1>1, <1>3, <2>1 DEF Threads
    <3>2. QED
      BY <1>3, <1>4, <3>1 DEF SharesInv, CreatedInOrder, ThreadTypes
  <2>2. QED
    BY <1>3, <1>4, <2>1 DEF CreatedInOrder
<1>11. StartsOnRing'
  BY <1>4 DEF SharesInv, StartsOnRing
<1>12. ASSUME NEW t \in Threads PROVE ThreadInv(t, pc[t], addr[t], count[t], touched[t])'
  <2>1. CASE t = k
    <3>1. ~op.random => TurnsTaken(k, p, a, {})
      <4>1. ASSUME ~op.random PROVE TurnsTaken(k, p, a, {})
        <5>1. /\ a = Turn(k, 0) /\ 0 \in Nat /\ 0..0 - 1 = {} /\ p # "done"
          BY <1>3, <1>6, <4>1
        <5>2. UNION {Accessed(k, Turn(k, j)) : j \in {}} = {}
          OBVIOUS
        <5>3. QED
          BY <5>1, <5>2 DEF TurnsTaken
      <4>2. QED
        BY <4>1
    <3>2. RandomRead => RingFollowed(k, p, a, 0, {})
      <4>1. ASSUME RandomRead PROVE RingFollowed(k, p, a, 0, {})
        <5>1. k * accessesPerThread \in Nat /\ accessesPerThread \in Nat
          BY <1>1, <1>3, WalkInNodes
        <5>2. a = Walk(memory, 0, (k * accessesPerThread) + 0) /\ 0..0 - 1 = {} /\ p # "done"
          BY <1>3, <1>7, <4>1, <5>1
        <5>3. 0 = op.perLoop * 0 /\ 0 < accessesPerThread + op.perLoop
          BY <1>1, <5>1
        <5>4. UNION {Slot(Walk(memory, 0, (k * accessesPerThread) + j)) : j \in {}} = {}
          OBVIOUS
        <5>5. QED
          BY <5>2, <5>3, <5>4 DEF RingFollowed
      <4>2. QED
        BY <4>1
    <3>3. ThreadInv(k, p, a, 0, {})
      BY <1>3, <3>1, <3>2 DEF ThreadInv
    <3>4. ThreadInv(k, p, a, 0, {})'
      BY <1>4, <3>3, ThreadKept
    <3>5. pc'[k] = p /\ addr'[k] = a /\ count'[k] = 0 /\ touched'[k] = {}
      BY <1>3, <1>4 DEF SharesInv, ThreadTypes
    <3>6. QED
      BY <2>1, <3>4, <3>5
  <2>2. CASE t # k
    <3>1. PICK q, b, n, l : q = pc[t] /\ b = addr[t] /\ n = count[t] /\ l = touched[t]
      OBVIOUS
    <3>2. ThreadInv(t, q, b, n, l)
      BY <3>1 DEF SharesInv
    <3>3. ThreadInv(t, q, b, n, l)'
      BY <1>4, <3>2, ThreadKept
    <3>4. pc'[t] = q /\ addr'[t] = b /\ count'[t] = n /\ touched'[t] = l
      BY <1>4, <2>2, <3>1 DEF SharesInv, ThreadTypes
    <3>5. QED
      BY <3>3, <3>4
  <2>3. QED
    BY <2>1, <2>2
<1>13. QED
  BY <1>4, <1>5, <1>9, <1>10, <1>11, <1>12 DEF SharesInv

\* Every step keeps the shares.
LEMMA SharesStep == ASSUME SharesInv, [Next]_vars PROVE SharesInv'
<1>1. CASE Main
  BY <1>1, BuildingKeepsThreads, CreateThreadKeeps, PassBarrierKeeps DEF Main
<1>2. CASE \E t \in Threads : Kernel(t)
  BY <1>2, SequentialKeeps, ChunkedKeeps, RandomReadsKeep, RandomWriteKeeps, RandomStoreKeeps DEF Kernel
<1>3. CASE UNCHANGED vars
  <2>1. /\ UNCHANGED <<op, phase, i, memory, start, pc, addr, count, touched>>
        /\ UNCHANGED <<Threads, RandomRead, accessesPerThread, LastLine>>
    BY <1>3 DEF vars, list, Threads, RandomRead, accessesPerThread, accessCount, LastLine, OwnKernel
  <2>2. RingInv'
    BY <1>3, RingStep DEF SharesInv
  <2>3. ASSUME NEW t \in Threads PROVE ThreadInv(t, pc[t], addr[t], count[t], touched[t])'
    <3>1. PICK p, a, n, l : p = pc[t] /\ a = addr[t] /\ n = count[t] /\ l = touched[t]
      OBVIOUS
    <3>2. ThreadInv(t, p, a, n, l)'
      BY <2>1, <3>1, ThreadKept DEF SharesInv
    <3>3. QED
      BY <2>1, <3>1, <3>2
  <2>4. ThreadTypes' /\ CreatedInOrder' /\ StartsOnRing'
    BY <2>1 DEF SharesInv, ThreadTypes, CreatedInOrder, StartsOnRing
  <2>5. QED
    BY <2>1, <2>2, <2>3, <2>4 DEF SharesInv
<1>4. QED
  BY <1>1, <1>2, <1>3 DEF Next

\* The block of n lines that the line x lies in.
LEMMA BlockOf ==
  ASSUME NEW n \in Nat \ {0}, NEW x \in Nat
  PROVE  x \div n \in Nat /\ x % n \in 0..n - 1 /\ x \in (n * (x \div n))..(n * (x \div n)) + n - 1
<1>1. x \div n \in Nat /\ x % n \in 0..n - 1 /\ x = (n * (x \div n)) + (x % n)
  BY Division
<1>2. n * (x \div n) \in Nat
  BY <1>1
<1>3. QED
  BY <1>1, <1>2

\* The variables have their types.
LEMMA TypesHold == ASSUME SharesInv PROVE TypeOK
<1>1. op \in Operations
  BY OperationOf
<1>2. jump \in [Nodes -> Nodes]
  <2>1. accessCount \in Nat /\ jump = RingOf(accessCount, 1)
    BY <1>1, OperationTypes DEF SharesInv, RingInv, RingTypes
  <2>2. CASE accessCount = 0
    <3>1. Nodes = {} /\ RingOf(accessCount, 1) = [k \in {} |-> 0]
      BY <2>2, NoNodes DEF Nodes
    <3>2. QED
      BY <2>1, <3>1
  <2>3. CASE accessCount # 0
    BY <2>1, <2>3, RingOfOrder DEF Nodes
  <2>4. QED
    BY <2>2, <2>3
<1>3. QED
  BY <1>2 DEF SharesInv, RingInv, RingTypes, ThreadTypes, TypeOK

\* A number without a remainder is a multiple.
LEMMA WholeMultiple ==
  ASSUME NEW n \in Nat \ {0}, NEW x \in Nat, x % n = 0
  PROVE  \E q \in Nat : x = n * q
<1>1. x \div n \in Nat /\ x = (n * (x \div n)) + (x % n)
  BY Division
<1>2. x = n * (x \div n)
  BY <1>1
<1>3. QED
  BY <1>1, <1>2, Zenon

\* Chunks stay in the block they start in, if they fill it.
LEMMA ChunksInBlock ==
  ASSUME op \in Operations, op.ad % Chunk = 0, NEW a \in Nat
  PROVE  Chunks(a) \subseteq a..a + op.ad - 1
<1>1. op.ad \in Nat \ {0} /\ Chunk \in Nat \ {0} /\ op.size \in Nat
  BY OperationTypes, ChunkType
<1>2. PICK p \in Nat : op.ad = Chunk * p
  BY <1>1, WholeMultiple
<1>3. ASSUME NEW n \in a..a + op.ad - 1, (n - a) % Chunk = 0 PROVE n + Chunk <= a + op.ad
  <2>1. n - a \in Nat /\ n - a < op.ad
    BY <1>1
  <2>2. PICK q \in Nat : n - a = Chunk * q
    BY <1>1, <1>3, <2>1, WholeMultiple
  <2>3. (n - a) + Chunk <= op.ad
    <3>1. Chunk * q < Chunk * p
      BY <1>2, <2>1, <2>2
    <3>2. (Chunk * q) + Chunk <= Chunk * p
      BY <1>1, <3>1, MultipleBelow
    <3>3. QED
      BY <1>2, <2>2, <3>2
  <2>4. QED
    BY <1>1, <2>3
<1>4. ASSUME NEW x \in Chunks(a) PROVE x \in a..a + op.ad - 1
  <2>1. PICK n \in a..a + op.ad - 1 : (n - a) % Chunk = 0 /\ x \in n..n + Chunk - 1
    BY DEF Chunks, Lines
  <2>2. n + Chunk <= a + op.ad
    BY <1>3, <2>1
  <2>3. QED
    BY <1>1, <2>1, <2>2
<1>5. QED
  BY <1>4

\* The thread that a line belongs to.
Owner(x) ==
  IF Disjoint THEN x \div Share ELSE (x \div op.ad) % op.threads

\* A thread of a sequential kernel touches only lines of its own.
LEMMA OwnTurns ==
  ASSUME SharesInv, ~op.random, Chunked => op.ad % Chunk = 0, ~Overruns,
         NEW t \in Threads, NEW x \in touched[t]
  PROVE  Owner(x) = t
<1>1. /\ op \in Operations /\ op.ad \in Nat \ {0} /\ op.threads \in Nat \ {0} /\ op.size \in Nat
      /\ t \in 0..op.threads - 1 /\ Share \in Nat
  BY OperationOf, OperationTypes, Quotients DEF Threads
<1>2. TurnsTaken(t, pc[t], addr[t], touched[t])
  BY DEF SharesInv, ThreadInv
<1>3. PICK k \in Nat : Admitted(t, Turn(t, k)) /\ x \in Accessed(t, Turn(t, k))
  <2>1. PICK m \in Nat : /\ \A k \in 0..m - 1 : Admitted(t, Turn(t, k))
                         /\ touched[t] = UNION {Accessed(t, Turn(t, k)) : k \in 0..m - 1}
    BY <1>2 DEF TurnsTaken
  <2>2. QED
    BY <2>1
<1>4. Turn(t, k) \in Nat
  BY <1>1, TurnOfLog, TurnOfDisjoint
<1>5. ASSUME ~Disjoint PROVE x \in Turn(t, k)..Turn(t, k) + op.ad - 1
  <2>1. CASE Chunked
    BY <1>1, <1>3, <1>4, <2>1, ChunksInBlock DEF Accessed
  <2>2. CASE ~Chunked /\ OwnKernel
    BY <1>3, <2>2 DEF Accessed, Lines
  <2>3. CASE ~Chunked /\ ~OwnKernel
    <3>1. op.mode = "write" /\ op.kernel = "nt"
      BY <1>1, <2>3, OperationTypes DEF Chunked, Modes
    <3>2. op.ad < 2 * WriteBlock
      BY <1>1, <1>5, <3>1, ChunkType DEF Overruns
    <3>3. x \in WrittenBlocks(Turn(t, k), EndOf(t)) /\ EndOf(t) \in Nat
      BY <1>1, <1>3, <1>4, <2>3, AccessFits DEF Accessed
    <3>4. QED
      BY <1>1, <1>4, <3>2, <3>3, WrittenFits
  <2>4. QED
    BY <2>1, <2>2, <2>3
<1>6. CASE ~Disjoint
  <2>1. PICK b \in Nat : Turn(t, k) = op.ad * b /\ b % op.threads = t
    BY <1>1, <1>6, TurnOfLog
  <2>2. x \div op.ad = b
    BY <1>1, <1>5, <1>6, <2>1, InBlock
  <2>3. QED
    BY <1>6, <2>1, <2>2 DEF Owner
<1>7. CASE Disjoint
  <2>1. ~Chunked
    BY <1>7 DEF Disjoint
  <2>2. /\ Turn(t, k) = (Share * t) + (op.ad * k) /\ op.ad * k \in Nat /\ Share * t \in Nat
        /\ EndOf(t) = (Share * t) + Share
    BY <1>1, <1>7, TurnOfDisjoint
  <2>3. x \in (Share * t)..(Share * t) + Share - 1 /\ Share # 0
    <3> DEFINE a == Share * t
               b == op.ad * k
    <3>1. x \in Turn(t, k)..EndOf(t) - 1
      <4>1. Accessed(t, Turn(t, k)) \subseteq Turn(t, k)..EndOf(t) - 1
        BY <1>1, <1>3, <1>4, <2>1, AccessFits
      <4>2. QED
        BY <1>3, <4>1
    <3>2. /\ a \in Nat /\ b \in Nat /\ Turn(t, k) = a + b /\ EndOf(t) = a + Share
          /\ x \in Turn(t, k)..EndOf(t) - 1
      BY <2>2, <3>1, Zenon
    <3> HIDE DEF a, b
    <3>3. x \in a..a + Share - 1 /\ Share # 0
      BY <1>1, <3>2
    <3>4. QED
      BY <3>3 DEF a
  <2>4. x \div Share = t
    <3>1. Share \in Nat \ {0} /\ t \in Nat
      BY <1>1, <2>3
    <3>2. QED
      BY <2>3, <3>1, InBlock
  <2>5. QED
    BY <1>7, <2>4 DEF Owner
<1>8. QED
  BY <1>6, <1>7

\* A thread of random reads has its own part of the walk around the ring.
LEMMA OwnPart ==
  ASSUME SharesInv, RandomRead, OwnKernel, accessesPerThread % op.perLoop = 0, NEW t \in Threads, NEW x \in touched[t]
  PROVE  \E k \in Nodes : x \div op.ad = Walk(memory, 0, k) /\ k \div accessesPerThread = t
<1> DEFINE A == accessesPerThread
<1>1. /\ op \in Operations /\ op.threads \in Nat \ {0} /\ op.perLoop \in Nat \ {0}
      /\ t \in 0..op.threads - 1 /\ A \in Nat /\ accessCount \in Nat
      /\ op.threads * A <= accessCount /\ op.threads * A \in Nat
  <2>1. op \in Operations
    BY OperationOf
  <2>2. op.threads \in Nat \ {0} /\ op.perLoop \in Nat \ {0} /\ A \in Nat /\ accessCount \in Nat
    BY <2>1, OperationTypes
  <2>3. op.threads * A <= accessCount /\ op.threads * A \in Nat
    BY <2>1, <2>2, Quotients
  <2>4. QED
    BY <2>1, <2>2, <2>3 DEF Threads
<1>2. pc[t] # "none"
  BY DEF SharesInv, ThreadInv
<1>3. RingFollowed(t, pc[t], addr[t], count[t], touched[t])
  BY <1>2 DEF SharesInv, ThreadInv
<1>4. count[t] <= A /\ count[t] \in Nat
  <2>1. PICK m \in Nat : count[t] = op.perLoop * m
    BY <1>3 DEF RingFollowed
  <2>2. PICK p \in Nat : A = op.perLoop * p
    BY <1>1, WholeMultiple
  <2>3. op.perLoop * m < (op.perLoop * p) + op.perLoop
    BY <1>3, <2>1, <2>2 DEF RingFollowed
  <2>4. op.perLoop * (p + 1) = (op.perLoop * p) + op.perLoop /\ p + 1 \in Nat
    BY <1>1
  <2>5. m < p + 1
    BY <1>1, <2>3, <2>4, MultipleBelow
  <2>6. op.perLoop * m <= op.perLoop * p /\ op.perLoop * m \in Nat
    BY <1>1, <2>5, TimesGrows
  <2>7. QED
    BY <2>1, <2>2, <2>6
<1>5. PICK j \in 0..count[t] - 1 : x \in Slot(Walk(memory, 0, (t * A) + j))
  BY <1>3 DEF RingFollowed
<1>6. j \in 0..A - 1 /\ A \in Nat \ {0}
  BY <1>1, <1>4
<1> DEFINE k == (A * t) + j
<1>7. A * t = t * A /\ A * t \in Nat
  BY <1>1
<1>8. k \in Nat /\ k < A * op.threads /\ k \div A = t
  <2>1. t \in Nat /\ t < op.threads
    BY <1>1
  <2>2. k < A * op.threads
    BY <1>1, <1>6, <2>1, PairBelow
  <2>3. k \div A = t
    BY <1>6, <2>1, QuotientUnique
  <2>4. k \in Nat
    BY <1>6, <1>7
  <2>5. QED
    BY <2>2, <2>3, <2>4
<1>9. A * op.threads = op.threads * A
  BY <1>1
<1>10. k \in Nodes
  <2> HIDE DEF k
  <2>1. QED
    BY <1>1, <1>8, <1>9 DEF Nodes
<1>11. Walk(memory, 0, k) \in Nodes
  BY <1>1, <1>8, <1>10, WalkInNodes DEF Nodes
<1>12. x \div op.ad = Walk(memory, 0, k)
  BY <1>1, <1>5, <1>7, <1>11, SlotFits
<1>13. QED
  BY <1>8, <1>10, <1>12

\* No line belongs to two threads.
LEMMA ApartHolds == ASSUME SharesInv PROVE ThreadsApart
<1> SUFFICES ASSUME op.mode = "write" => ~op.random,
                    RandomRead => OwnKernel /\ accessesPerThread % op.perLoop = 0,
                    Chunked /\ ~op.random => op.ad % Chunk = 0, ~Overruns,
                    NEW t \in Threads, NEW u \in Threads, t # u, NEW x \in touched[t], x \in touched[u]
             PROVE  FALSE
  BY DEF ThreadsApart, Apart
<1>1. op.mode \in Modes /\ op.random \in BOOLEAN /\ accessCount \in Nat
  BY OperationOf, OperationTypes
<1>2. CASE ~op.random
  <2>1. Owner(x) = t
    BY <1>2, OwnTurns
  <2>2. Owner(x) = u
    BY <1>2, OwnTurns
  <2>3. QED
    BY <2>1, <2>2
<1>3. CASE RandomRead
  <2>1. PICK k \in Nodes : x \div op.ad = Walk(memory, 0, k) /\ k \div accessesPerThread = t
    BY <1>3, OwnPart
  <2>2. PICK j \in Nodes : x \div op.ad = Walk(memory, 0, j) /\ j \div accessesPerThread = u
    BY <1>3, OwnPart
  <2>3. IsRing(memory, accessCount) /\ memory \in [0..accessCount - 1 -> 0..accessCount - 1]
    <3>1. pc[t] # "none"
      BY DEF SharesInv, ThreadInv
    <3>2. phase \in {"create", "barrier", "join", "done"}
      BY <3>1 DEF SharesInv, CreatedInOrder, RingInv, RingTypes
    <3>3. IsRing(memory, accessCount)
      BY <1>3, <3>2 DEF SharesInv, RingInv, MemoryInv
    <3>4. QED
      BY <3>3 DEF SharesInv, RingInv, RingTypes, Nodes
  <2>4. \A m, n \in Nodes : Walk(memory, 0, m) = Walk(memory, 0, n) => m = n
    BY <1>1, <2>3, WalkOfRing, Zenon DEF Nodes
  <2>5. k = j
    BY <2>1, <2>2, <2>4
  <2>6. QED
    BY <2>1, <2>2, <2>5
<1>4. QED
  BY <1>1, <1>2, <1>3 DEF RandomRead, Modes

\* What no thread has touched, when all are done.
Untouched == (0..op.size - 1) \ UNION {touched[t] : t \in Threads}
AllDone == \A t \in Threads : pc[t] = "done"

\* What is left out is counted by numbering it.
LEMMA CountLeft ==
  ASSUME NEW s \in Nat, NEW T, T \subseteq 0..s - 1, NEW n \in Nat,
         NEW g \in Injection((0..s - 1) \ T, 0..n - 1)
  PROVE  s - Cardinality(T) <= n /\ Cardinality(T) \in Nat
<1> DEFINE S == 0..s - 1
           U == S \ T
<1>1. IsFiniteSet(S) /\ Cardinality(S) = s
  BY FS_Interval, SMTT(30)
<1>2. IsFiniteSet(T) /\ Cardinality(T) \in Nat
  BY <1>1, FS_Subset, FS_CardinalityType
<1>3. Cardinality(U) = s - Cardinality(T)
  <2>1. S \cap T = T
    OBVIOUS
  <2>2. Cardinality(S \cap T) = Cardinality(T)
    BY <2>1, Zenon
  <2>3. Cardinality(S \ T) = Cardinality(S) - Cardinality(S \cap T)
    BY <1>1, FS_Difference
  <2>4. QED
    BY <1>1, <2>2, <2>3
<1>4. IsFiniteSet(0..n - 1) /\ Cardinality(0..n - 1) = n
  BY FS_Interval
<1>5. Cardinality(U) <= Cardinality(0..n - 1)
  BY <1>4, FS_Injection
<1>6. QED
  BY <1>2, <1>3, <1>4, <1>5

\* What has been touched lies in the memory.
LEMMA TouchedFits ==
  ASSUME SharesInv, ~RandomRead \/ OwnKernel
  PROVE  UNION {touched[t] : t \in Threads} \subseteq 0..op.size - 1
  BY OperationOf, LastLineFits DEF SharesInv, ThreadTypes

\* At the log pattern nothing is left out but the end of the memory.
LEMMA LogLeft ==
  ASSUME SharesInv, AllDone, WholeAccesses, ~op.random, ~Disjoint, NEW x \in Untouched
  PROVE  x >= IF Chunked THEN op.size - Chunk ELSE (op.size - op.ad) + 1
<1>1. /\ op \in Operations /\ op.ad \in Nat \ {0} /\ op.threads \in Nat \ {0} /\ op.size \in Nat
      /\ Chunk \in Nat \ {0} /\ x \in 0..op.size - 1 /\ x \in Nat
  BY OperationOf, OperationTypes, ChunkType DEF Untouched
<1> DEFINE b == x \div op.ad
           t == b % op.threads
           k == b \div op.threads
<1>2. b \in Nat /\ x \in (op.ad * b)..(op.ad * b) + op.ad - 1
  BY <1>1, BlockOf
<1> HIDE DEF b
<1>3. k \in Nat /\ t \in Threads /\ b = (op.threads * k) + t
  BY <1>1, <1>2, Division DEF Threads
<1> HIDE DEF k, t
<1>4. Turn(t, k) = op.ad * b /\ op.ad * b \in Nat
  <2>1. t + (op.threads * k) = b
    BY <1>1, <1>3 DEF Threads
  <2>2. QED
    BY <1>1, <1>2, <1>3, <2>1, TurnOfLog
<1>5. PICK m \in Nat : /\ addr[t] = Turn(t, m) /\ ~Admitted(t, addr[t])
                       /\ \A j \in 0..m - 1 : Admitted(t, Turn(t, j))
                       /\ touched[t] = UNION {Accessed(t, Turn(t, j)) : j \in 0..m - 1}
  BY <1>3 DEF SharesInv, ThreadInv, TurnsTaken, AllDone
<1>6. CASE k < m
  <2>1. x \notin Accessed(t, op.ad * b) /\ Admitted(t, op.ad * b)
    <3>1. k \in 0..m - 1
      BY <1>3, <1>6
    <3>2. QED
      BY <1>3, <1>4, <1>5, <3>1 DEF Untouched
  <2>2. Chunked
    BY <1>1, <1>2, <1>3, <1>4, <2>1, AccessWhole
  <2>3. x \notin Chunks(op.ad * b)
    BY <2>1, <2>2 DEF Accessed
  <2> DEFINE a == op.ad * b
             r == x - a
             w == Chunk * (r \div Chunk)
             n == a + w
  <2>4. a \in Nat /\ r \in 0..op.ad - 1 /\ x = a + r /\ r \in Nat
    BY <1>1, <1>2, <1>4
  <2> HIDE DEF a, r
  <2>5. w \in Nat /\ r % Chunk \in 0..Chunk - 1 /\ r = w + (r % Chunk) /\ w % Chunk = 0
    <3>1. r \div Chunk \in Nat /\ r % Chunk \in 0..Chunk - 1
          /\ r = (Chunk * (r \div Chunk)) + (r % Chunk)
      BY <1>1, <2>4, Division
    <3>2. \A z \in Nat \ {0}, q \in Nat : (z * q) % z = 0 /\ z * q \in Nat
      <4>1. TAKE z \in Nat \ {0}, q \in Nat
      <4>2. z * q \in Nat /\ 0 \in 0..z - 1 /\ (z * q) + 0 = z * q
        OBVIOUS
      <4>3. ((z * q) + 0) % z = 0
        BY <4>2, QuotientUnique
      <4>4. QED
        BY <4>2, <4>3
    <3>3. QED
      BY <1>1, <3>1, <3>2
  <2> HIDE DEF w
  <2>6. n - a = w /\ n \in a..a + op.ad - 1 /\ x \in n..n + Chunk - 1
    BY <1>1, <2>4, <2>5
  <2> HIDE DEF n
  <2>7. (n - a) % Chunk = 0
    BY <2>5, <2>6
  <2>8. ~(n + Chunk < op.size)
    <3>1. x \in Lines(n, Chunk)
      BY <2>6 DEF Lines
    <3>2. x \notin Chunks(a)
      BY <2>3 DEF a
    <3>3. QED
      BY <2>6, <2>7, <3>1, <3>2 DEF Chunks
  <2>9. QED
    BY <1>1, <2>2, <2>4, <2>6, <2>8
<1>7. CASE ~(k < m)
  <2>1. Turn(t, m) <= op.ad * b /\ Turn(t, m) \in Nat
    <3>1. Turn(t, m) = op.ad * (t + (op.threads * m)) /\ Turn(t, m) \in Nat /\ t + (op.threads * m) \in Nat
      BY <1>1, <1>3, TurnOfLog
    <3>2. op.threads * m <= op.threads * k /\ op.threads * m \in Nat /\ op.threads * k \in Nat
      BY <1>1, <1>3, <1>7, TimesGrows
    <3>3. t + (op.threads * m) <= b
      BY <1>3, <3>2 DEF Threads
    <3>4. QED
      BY <1>1, <1>2, <3>1, <3>3, TimesGrows
  <2>2. Turn(t, m) <= x
    BY <1>2, <1>4, <2>1
  <2>3. CASE Chunked
    BY <1>1, <1>5, <2>1, <2>2, <2>3 DEF Admitted
  <2>4. CASE ~Chunked
    <3>1. ~(Turn(t, m) + op.ad <= op.size)
      BY <1>5, <2>4 DEF Admitted, EndOf
    <3>2. QED
      BY <1>1, <2>1, <2>2, <2>4, <3>1
  <2>5. QED
    BY <2>3, <2>4
<1>8. QED
  BY <1>3, <1>5, <1>6, <1>7

\* At the disjoint pattern the ends of the shares are left out, by less than an access.
LEMMA DisjointLeft ==
  ASSUME SharesInv, AllDone, WholeAccesses, ~op.random, Disjoint, NEW x \in Untouched,
         x < Share * op.threads
  PROVE  /\ x \div Share \in 0..op.threads - 1 /\ x % Share \in 0..Share - 1 /\ Share # 0
         /\ (x % Share) + op.ad > Share /\ x = (Share * (x \div Share)) + (x % Share)
<1>1. /\ op \in Operations /\ op.ad \in Nat \ {0} /\ op.threads \in Nat \ {0} /\ op.size \in Nat
      /\ x \in 0..op.size - 1 /\ x \in Nat /\ Share \in Nat
  BY OperationOf, OperationTypes, Quotients DEF Untouched
<1>2. Share # 0
  <2>1. CASE Share = 0
    <3>1. Share * op.threads = 0
      BY <1>1, <2>1
    <3>2. QED
      BY <1>1, <3>1
  <2>2. QED
    BY <2>1
<1> DEFINE t == x \div Share
           y == x % Share
           k == y \div op.ad
<1>3. t \in Nat /\ t < op.threads /\ y \in 0..Share - 1 /\ x = (Share * t) + y
  BY <1>1, <1>2, QuotientBelow, Division
<1>4. t \in Threads
  BY <1>1, <1>3 DEF Threads
<1> HIDE DEF t, y
<1>5. k \in Nat /\ y \in Nat /\ y \in (op.ad * k)..(op.ad * k) + op.ad - 1 /\ op.ad * k \in Nat
  <2>1. y \in Nat
    BY <1>1, <1>3
  <2>2. k \in Nat /\ y \in (op.ad * k)..(op.ad * k) + op.ad - 1
    BY <1>1, <2>1, BlockOf
  <2>3. op.ad * k \in Nat
    BY <1>1, <2>2
  <2>4. QED
    BY <2>1, <2>2, <2>3
<1> HIDE DEF k
<1>6. ~Chunked
  BY DEF Disjoint
<1>7. PICK m \in Nat : /\ addr[t] = Turn(t, m) /\ ~Admitted(t, addr[t])
                       /\ \A j \in 0..m - 1 : Admitted(t, Turn(t, j))
                       /\ touched[t] = UNION {Accessed(t, Turn(t, j)) : j \in 0..m - 1}
  BY <1>4 DEF SharesInv, ThreadInv, TurnsTaken, AllDone
<1>8. CASE k < m
  <2>1. k \in 0..m - 1
    BY <1>5, <1>8
  <2>2. x \notin Accessed(t, Turn(t, k)) /\ Admitted(t, Turn(t, k))
    BY <1>4, <1>7, <2>1 DEF Untouched
  <2>3. Turn(t, k) = (Share * t) + (op.ad * k) /\ Share * t \in Nat /\ Turn(t, k) \in Nat
    BY <1>1, <1>4, <1>5, TurnOfDisjoint
  <2>4. x \in Turn(t, k)..Turn(t, k) + op.ad - 1
    <3> DEFINE a == Share * t
               c == op.ad * k
    <3>1. a \in Nat /\ c \in Nat /\ Turn(t, k) = a + c /\ x = a + y /\ y \in c..c + op.ad - 1
      BY <1>3, <1>5, <2>3
    <3> HIDE DEF a, c
    <3>2. QED
      BY <1>1, <3>1
  <2>5. QED
    BY <1>1, <1>4, <1>6, <2>2, <2>3, <2>4, AccessWhole
<1>9. CASE ~(k < m)
  <2>1. /\ Turn(t, m) = (Share * t) + (op.ad * m) /\ Share * t \in Nat /\ op.ad * m \in Nat
        /\ EndOf(t) = (Share * t) + Share
    BY <1>1, <1>4, TurnOfDisjoint
  <2>2. op.ad * m <= op.ad * k
    BY <1>1, <1>5, <1>9, TimesGrows
  <2>3. ~(Turn(t, m) + op.ad <= (Share * t) + Share)
    BY <1>6, <1>7, <2>1 DEF Admitted
  <2>4. y + op.ad > Share
    <3> DEFINE a == Share * t
               c == op.ad * m
               d == op.ad * k
    <3>1. /\ a \in Nat /\ c \in Nat /\ d \in Nat /\ c <= d /\ Turn(t, m) = a + c
          /\ ~(Turn(t, m) + op.ad <= a + Share) /\ y \in d..d + op.ad - 1
      BY <1>5, <2>1, <2>2, <2>3
    <3> HIDE DEF a, c, d
    <3>2. QED
      BY <1>1, <1>5, <3>1
  <2>5. QED
    BY <1>1, <1>2, <1>3, <2>4 DEF t, y
<1>10. QED
  BY <1>5, <1>7, <1>8, <1>9

\* Random reads leave out the blocks that the threads do not divide.
LEMMA ReadsLeft ==
  ASSUME SharesInv, AllDone, RandomRead, OwnKernel, NEW x \in Untouched, x < op.ad * accessCount
  PROVE  \E k \in (op.threads * accessesPerThread)..accessCount - 1 : Walk(memory, 0, k) = x \div op.ad
<1> DEFINE A == accessesPerThread
           N == accessCount
<1>1. /\ op \in Operations /\ op.ad \in Nat \ {0} /\ op.threads \in Nat \ {0} /\ op.size \in Nat
      /\ x \in Nat /\ A \in Nat /\ N \in Nat
  BY OperationOf, OperationTypes DEF Untouched
<1>2. op.random
  BY DEF RandomRead
<1>3. IsRing(memory, N) /\ memory \in [0..N - 1 -> 0..N - 1]
  <2>1. 0 \in Threads
    BY <1>1 DEF Threads
  <2>2. pc[0] # "none"
    BY <2>1 DEF AllDone
  <2>3. phase \in {"create", "barrier", "join", "done"}
    BY <2>1, <2>2 DEF SharesInv, CreatedInOrder, RingInv, RingTypes
  <2>4. IsRing(memory, accessCount)
    BY <2>3 DEF SharesInv, RingInv, MemoryInv
  <2>5. QED
    BY <2>4 DEF SharesInv, RingInv, RingTypes, Nodes
<1>4. x \div op.ad \in 0..N - 1
  <2>1. x \div op.ad < N /\ x \div op.ad \in Nat
    BY <1>1, QuotientBelow
  <2>2. QED
    BY <1>1, <2>1
<1>5. PICK k \in 0..N - 1 : Walk(memory, 0, k) = x \div op.ad
  BY <1>1, <1>3, <1>4, WalkOfRing
<1>6. CASE k < op.threads * A
  <2> DEFINE t == k \div A
             j == k % A
  <2>1. A # 0
    <3>1. CASE A = 0
      <4>1. op.threads * A = 0
        BY <1>1, <3>1
      <4>2. QED
        BY <1>6, <4>1
    <3>2. QED
      BY <3>1
  <2>2. k \in Nat /\ A * op.threads = op.threads * A
    BY <1>1
  <2>3. t \in Nat /\ t < op.threads /\ j \in 0..A - 1 /\ k = (A * t) + j
    BY <1>1, <1>6, <2>1, <2>2, QuotientBelow, Division
  <2> HIDE DEF t, j
  <2>4. t \in Threads /\ (t * A) + j = k
    BY <1>1, <2>3 DEF Threads
  <2>5. /\ count[t] >= A /\ count[t] \in Nat
        /\ touched[t] = UNION {Slot(Walk(memory, 0, (t * A) + n)) : n \in 0..count[t] - 1}
    BY <2>4 DEF SharesInv, ThreadTypes, ThreadInv, RingFollowed, AllDone
  <2>6. j \in 0..count[t] - 1
    BY <1>1, <2>3, <2>5
  <2>7. x \in Slot(Walk(memory, 0, k))
    <3>1. x \in (op.ad * (x \div op.ad))..(op.ad * (x \div op.ad)) + op.ad - 1
      BY <1>1, BlockOf
    <3>2. QED
      BY <1>5, <3>1 DEF Slot, Lines
  <2>8. x \in touched[t]
    BY <2>4, <2>5, <2>6, <2>7
  <2>9. QED
    BY <2>4, <2>8 DEF Untouched
<1>7. CASE ~(k < op.threads * A)
  <2>1. op.threads * A \in Nat
    BY <1>1
  <2>2. k \in (op.threads * A)..N - 1
    BY <1>1, <1>7, <2>1
  <2>3. QED
    BY <1>5, <2>2
<1>8. QED
  BY <1>6, <1>7

\* When the threads are done, no more than the remainders are left out: what is left out is
\* numbered, so that two lines never have the same number.
LEMMA TouchedHolds == ASSUME SharesInv PROVE AllTouched
<1> DEFINE T == UNION {touched[t] : t \in Threads}
           D == op.threads
           N == accessCount
           A == accessesPerThread
           s == op.size
           d == op.ad
<1> SUFFICES ASSUME WholeAccesses, AllDone, op.mode = "write" => ~op.random
             PROVE  IF RandomRead \/ Disjoint THEN s - Cardinality(T) < d * D
                    ELSE IF Chunked THEN s - Cardinality(T) <= Chunk
                    ELSE s - Cardinality(T) < d
  BY DEF AllTouched, RemaindersLeft, AllDone
<1>1. /\ op \in Operations /\ d \in Nat \ {0} /\ D \in Nat \ {0} /\ s \in Nat
      /\ Chunk \in Nat \ {0} /\ op.mode \in Modes /\ op.random \in BOOLEAN
      /\ A \in Nat /\ N \in Nat /\ Share \in Nat
  BY OperationOf, OperationTypes, ChunkType, Quotients
<1>2. T \subseteq 0..s - 1 /\ Untouched = (0..s - 1) \ T
  BY TouchedFits DEF Untouched, WholeAccesses, RandomRead
<1>3. d * D = (d * (D - 1)) + d /\ d * D = (D * (d - 1)) + D
      /\ d * (D - 1) \in Nat /\ D * (d - 1) \in Nat /\ d * D \in Nat
  <2> HIDE DEF d, D
  <2>1. d \in Nat \ {0} /\ D \in Nat \ {0}
    BY <1>1
  <2>2. QED
    BY <2>1
<1>4. RandomRead \/ ~op.random
  BY <1>1 DEF RandomRead, Modes
<1> HIDE DEF T, D, N, A, s, d
<1>5. CASE ~op.random /\ ~Disjoint
  <2>1. ~RandomRead
    BY <1>5 DEF RandomRead
  <2>2. CASE Chunked
    <3> DEFINE g == [x \in (0..s - 1) \ T |-> x - (s - Chunk)]
    <3>1. \A x \in (0..s - 1) \ T : x \in Nat /\ x < s /\ x >= s - Chunk
      BY <1>1, <1>2, <1>5, <2>2, LogLeft DEF s
    <3>2. g \in [(0..s - 1) \ T -> 0..Chunk - 1]
      BY <1>1, <3>1
    <3>3. \A x, y \in (0..s - 1) \ T : g[x] = g[y] => x = y
      BY <1>1, <3>1
    <3>4. s - Cardinality(T) <= Chunk
      BY <1>1, <1>2, <3>2, <3>3, CountLeft DEF Injection, IsInjective
    <3>5. QED
      BY <1>5, <2>1, <2>2, <3>4
  <2>3. CASE ~Chunked
    <3> DEFINE g == [x \in (0..s - 1) \ T |-> x - (s - d) - 1]
    <3>1. \A x \in (0..s - 1) \ T : x \in Nat /\ x < s /\ x >= (s - d) + 1
      BY <1>1, <1>2, <1>5, <2>3, LogLeft DEF s, d
    <3>2. d - 1 \in Nat /\ g \in [(0..s - 1) \ T -> 0..(d - 1) - 1]
      BY <1>1, <3>1
    <3>3. \A x, y \in (0..s - 1) \ T : g[x] = g[y] => x = y
      BY <1>1, <3>1
    <3>4. s - Cardinality(T) <= d - 1 /\ Cardinality(T) \in Nat
      <4> DEFINE m == d - 1
      <4>1. /\ m \in Nat /\ s \in Nat /\ T \subseteq 0..s - 1
            /\ g \in [(0..s - 1) \ T -> 0..m - 1]
            /\ \A x, y \in (0..s - 1) \ T : g[x] = g[y] => x = y
        BY <1>1, <1>2, <3>2, <3>3
      <4> HIDE DEF m, g
      <4>2. g \in Injection((0..s - 1) \ T, 0..m - 1)
        BY <4>1 DEF Injection, IsInjective
      <4>3. s - Cardinality(T) <= m /\ Cardinality(T) \in Nat
        BY <4>1, <4>2, CountLeft
      <4>4. QED
        BY <4>3 DEF m
    <3>5. QED
      BY <1>1, <1>5, <2>1, <2>3, <3>4
  <2>4. QED
    BY <2>2, <2>3
<1>6. CASE ~op.random /\ Disjoint
  <2> DEFINE U == (0..s - 1) \ T
             E == d - 1
             n == (D * E) + D - 1
             g == [x \in U |-> IF x < Share * D
                               THEN (E * (x \div Share)) + (Share - 1 - (x % Share))
                               ELSE (D * E) + (x - (Share * D))]
  <2>1. E \in Nat /\ D * E \in Nat /\ n \in Nat /\ Share * D \in Nat /\ E * D = D * E
    BY <1>1
  <2>2. \A x \in U : x \in Nat /\ x - (Share * D) < D - 1
    <3>1. PICK r \in 0..D - 1 : s = (D * Share) + r
      BY <1>1, Quotients DEF s, D
    <3>2. D * Share = Share * D
      BY <1>1
    <3>3. QED
      BY <1>1, <2>1, <3>1, <3>2
  <2>3. ASSUME NEW x \in U, x < Share * D
        PROVE  /\ x \div Share \in 0..D - 1 /\ Share # 0 /\ x % Share \in 0..Share - 1
               /\ Share - 1 - (x % Share) \in 0..E - 1
               /\ x = (Share * (x \div Share)) + (x % Share)
    <3>1. /\ x \div Share \in 0..D - 1 /\ x % Share \in 0..Share - 1 /\ Share # 0
          /\ (x % Share) + d > Share /\ x = (Share * (x \div Share)) + (x % Share)
      BY <1>2, <1>6, <2>3, DisjointLeft DEF D, d
    <3>2. Share - 1 - (x % Share) \in 0..E - 1
      BY <1>1, <3>1
    <3>3. QED
      BY <3>1, <3>2
  <2>4. ASSUME NEW x \in U, x < Share * D PROVE g[x] \in 0..(D * E) - 1
    <3>1. E \in Nat \ {0} /\ x \div Share \in Nat /\ x \div Share < D
      BY <1>1, <2>3, <2>4
    <3>2. (E * (x \div Share)) + (Share - 1 - (x % Share)) < E * D
      BY <1>1, <2>3, <2>4, <3>1, PairBelow
    <3>3. (E * (x \div Share)) + (Share - 1 - (x % Share)) \in Nat
      <4>1. E * (x \div Share) \in Nat /\ Share - 1 - (x % Share) \in Nat
        BY <2>1, <2>3, <2>4, <3>1
      <4>2. QED
        BY <4>1
    <3>4. g[x] = (E * (x \div Share)) + (Share - 1 - (x % Share))
      BY <2>4
    <3> HIDE DEF g, E
    <3>5. QED
      BY <2>1, <3>2, <3>3, <3>4
  <2>5. ASSUME NEW x \in U, ~(x < Share * D)
        PROVE  g[x] = (D * E) + (x - (Share * D)) /\ g[x] \in (D * E)..n - 1
    <3>1. g[x] = (D * E) + (x - (Share * D))
      BY <2>5
    <3> DEFINE a == D * E
               b == Share * D
    <3>2. /\ a \in Nat /\ b \in Nat /\ n = a + D - 1 /\ x \in Nat
          /\ x - b < D - 1 /\ ~(x < b) /\ g[x] = a + (x - b)
      BY <2>1, <2>2, <2>5, <3>1
    <3> HIDE DEF a, b, n, g
    <3>3. x - b \in 0..D - 2 /\ D \in Nat
      BY <1>1, <3>2
    <3> DEFINE z == x - b
    <3>4. z \in 0..D - 2 /\ g[x] = a + z
      BY <3>2, <3>3
    <3> HIDE DEF z
    <3>5. g[x] \in a..n - 1
      BY <3>2, <3>3, <3>4
    <3>6. QED
      BY <3>1, <3>5 DEF a
  <2>6. g \in [U -> 0..n - 1]
    <3>1. ASSUME NEW x \in U PROVE g[x] \in 0..n - 1
      <4> DEFINE a == D * E
      <4>1. a \in Nat /\ n = a + D - 1 /\ (g[x] \in 0..a - 1 \/ g[x] \in a..n - 1)
        BY <2>1, <2>4, <2>5
      <4> HIDE DEF a, n, g
      <4>2. QED
        BY <1>1, <4>1
    <3> HIDE DEF n, E
    <3>2. QED
      BY <3>1
  <2>7. ASSUME NEW x \in U, NEW y \in U, g[x] = g[y] PROVE x = y
    <3>1. CASE x < Share * D /\ y < Share * D
      <4>1. E \in Nat \ {0} /\ x \div Share \in Nat /\ y \div Share \in Nat
        BY <1>1, <2>3, <3>1
      <4>2. (E * (x \div Share)) + (Share - 1 - (x % Share))
              = (E * (y \div Share)) + (Share - 1 - (y % Share))
        BY <2>7, <3>1
      <4>3. Share - 1 - (x % Share) \in 0..E - 1 /\ Share - 1 - (y % Share) \in 0..E - 1
        BY <2>3, <3>1
      <4>4. x \div Share = y \div Share /\ Share - 1 - (x % Share) = Share - 1 - (y % Share)
        <5> DEFINE p == x \div Share
                   q == y \div Share
                   u == Share - 1 - (x % Share)
                   v == Share - 1 - (y % Share)
        <5>1. /\ p \in Nat /\ q \in Nat /\ u \in 0..E - 1 /\ v \in 0..E - 1
              /\ (E * p) + u = (E * q) + v
          BY <4>1, <4>2, <4>3
        <5> HIDE DEF p, q, u, v, E
        <5>2. p = q /\ u = v
          BY <4>1, <5>1, PairUnique
        <5>3. QED
          BY <5>2 DEF p, q, u, v
      <4>5. x % Share = y % Share
        BY <1>1, <2>3, <3>1, <4>4
      <4>6. QED
        BY <2>3, <3>1, <4>4, <4>5
    <3>2. CASE ~(x < Share * D) /\ ~(y < Share * D)
      <4> DEFINE a == D * E
                 b == Share * D
      <4>1. a \in Nat /\ b \in Nat /\ x \in Nat /\ y \in Nat /\ a + (x - b) = a + (y - b)
        BY <2>1, <2>2, <2>5, <2>7, <3>2
      <4> HIDE DEF a, b
      <4>2. QED
        BY <4>1
    <3>3. ASSUME NEW u \in U, NEW v \in U, u < Share * D, ~(v < Share * D) PROVE g[u] # g[v]
      <4> DEFINE a == D * E
      <4>1. a \in Nat /\ g[u] \in 0..a - 1 /\ g[v] \in a..n - 1 /\ n \in Nat
        BY <2>1, <2>4, <2>5, <3>3
      <4> HIDE DEF a, n, g
      <4>2. QED
        BY <4>1
    <3> HIDE DEF g, U
    <3>4. QED
      BY <2>7, <3>1, <3>2, <3>3
  <2>8. s - Cardinality(T) <= n /\ Cardinality(T) \in Nat
    <3> HIDE DEF g, n, U
    <3>1. \A x, y \in U : g[x] = g[y] => x = y
      BY <2>7
    <3>2. g \in Injection(U, 0..n - 1)
      BY <2>6, <3>1 DEF Injection, IsInjective
    <3>3. g \in Injection((0..s - 1) \ T, 0..n - 1)
      BY <3>2 DEF U
    <3>4. s \in Nat /\ n \in Nat /\ T \subseteq 0..s - 1
      BY <1>1, <1>2, <2>1
    <3>5. QED
      BY <3>3, <3>4, CountLeft
  <2>9. n < d * D /\ n \in Int /\ d * D \in Int
    BY <1>1, <1>3, <2>1
  <2>10. s - Cardinality(T) \in Int
    BY <1>1, <2>8
  <2> HIDE DEF n
  <2>11. s - Cardinality(T) < d * D
    <3> DEFINE e == d * D
    <3> HIDE DEF e
    <3>1. n < e /\ n \in Int /\ e \in Int
      BY <2>9 DEF e
    <3>2. QED
      BY <2>8, <2>10, <3>1 DEF e
  <2>12. QED
    BY <1>6, <2>11
<1>7. CASE RandomRead
  <2> DEFINE U == (0..s - 1) \ T
             n == (d * D) - 1
             K(x) == CHOOSE k \in (D * A)..N - 1 : Walk(memory, 0, k) = x \div d
             g == [x \in U |-> IF x < d * N THEN (d * (K(x) - (D * A))) + (x % d)
                               ELSE (d * (D - 1)) + (x - (d * N))]
  <2>1. D * A \in Nat /\ d * N \in Nat /\ n \in Nat /\ d * (D - 1) \in Nat /\ D - 1 \in Nat
    <3>1. d * D # 0
      BY <1>1
    <3>2. QED
      BY <1>1, <1>3, <3>1
  <2>2. /\ \E r \in 0..d - 1 : s = (d * N) + r
        /\ \E r \in 0..D - 1 : N = (D * A) + r
    BY <1>1, Quotients DEF s, D, d, N, A
  <2>3. \A x \in U : x \in Nat /\ x < s
    BY <1>1
  <2>4. ASSUME NEW x \in U, x < d * N
        PROVE  /\ K(x) \in (D * A)..N - 1 /\ Walk(memory, 0, K(x)) = x \div d
               /\ K(x) - (D * A) \in Nat /\ K(x) - (D * A) < D - 1
               /\ x % d \in 0..d - 1 /\ x = (d * (x \div d)) + (x % d)
    <3>1. \E k \in (D * A)..N - 1 : Walk(memory, 0, k) = x \div d
      BY <1>2, <1>7, <2>4, ReadsLeft DEF D, A, N, d, WholeAccesses, RandomRead
    <3>2. K(x) \in (D * A)..N - 1 /\ Walk(memory, 0, K(x)) = x \div d
      BY <3>1
    <3> HIDE DEF K
    <3>3. K(x) - (D * A) \in Nat /\ K(x) - (D * A) < D - 1
      <4> DEFINE b == D * A
      <4>1. PICK r \in 0..D - 1 : N = b + r
        BY <2>2
      <4>2. b \in Nat /\ K(x) \in b..N - 1
        BY <2>1, <3>2
      <4> HIDE DEF b
      <4>3. K(x) - b \in Nat /\ K(x) - b < D - 1
        BY <1>1, <4>1, <4>2
      <4>4. QED
        BY <4>3 DEF b
    <3>4. x % d \in 0..d - 1 /\ x = (d * (x \div d)) + (x % d)
      BY <1>1, <2>3, Division
    <3>5. QED
      BY <3>2, <3>3, <3>4
  <2> HIDE DEF K
  <2>5. ASSUME NEW x \in U, x < d * N
        PROVE  /\ g[x] = (d * (K(x) - (D * A))) + (x % d)
               /\ g[x] \in Nat /\ g[x] < d * (D - 1)
    <3> DEFINE q == K(x) - (D * A)
    <3>1. g[x] = (d * q) + (x % d)
      BY <2>5
    <3>2. q \in Nat /\ q < D - 1 /\ x % d \in 0..d - 1 /\ x % d \in Nat
      BY <1>1, <2>4, <2>5
    <3> HIDE DEF q, g
    <3>3. (d * q) + (x % d) < d * (D - 1)
      BY <1>1, <2>1, <3>2, PairBelow
    <3>4. (d * q) + (x % d) \in Nat
      <4>1. d * q \in Nat
        BY <1>1, <3>2
      <4>2. QED
        BY <3>2, <4>1
    <3>5. QED
      BY <3>1, <3>3, <3>4 DEF q
  <2>6. ASSUME NEW x \in U, ~(x < d * N)
        PROVE  /\ g[x] = (d * (D - 1)) + (x - (d * N)) /\ x - (d * N) \in 0..d - 2
               /\ g[x] \in (d * (D - 1))..n - 1
    <3> DEFINE a == d * (D - 1)
               b == d * N
    <3>1. g[x] = a + (x - b)
      BY <2>6
    <3>2. PICK r \in 0..d - 1 : s = b + r
      BY <2>2
    <3>3. a \in Nat /\ b \in Nat /\ x \in Nat /\ x < s /\ ~(x < b) /\ n = (a + d) - 1
      BY <1>3, <2>1, <2>3, <2>6
    <3> HIDE DEF a, b, g, n
    <3>4. x - b \in 0..d - 2 /\ g[x] \in a..n - 1
      BY <1>1, <3>1, <3>2, <3>3
    <3>5. QED
      BY <3>1, <3>4 DEF a, b
  <2>7. g \in [U -> 0..n - 1]
    <3>1. ASSUME NEW x \in U PROVE g[x] \in 0..n - 1
      <4> DEFINE a == d * (D - 1)
      <4>1. /\ a \in Nat /\ n = (a + d) - 1
            /\ (g[x] \in Nat /\ g[x] < a) \/ g[x] \in a..n - 1
        BY <1>3, <2>1, <2>5, <2>6
      <4> HIDE DEF a, n, g
      <4>2. QED
        BY <1>1, <4>1
    <3> HIDE DEF n
    <3>2. QED
      BY <3>1
  <2>8. ASSUME NEW x \in U, NEW y \in U, g[x] = g[y] PROVE x = y
    <3>1. CASE x < d * N /\ y < d * N
      <4>1. (d * (K(x) - (D * A))) + (x % d) = (d * (K(y) - (D * A))) + (y % d)
        BY <2>5, <2>8, <3>1
      <4>2. K(x) - (D * A) = K(y) - (D * A) /\ x % d = y % d
        <5> DEFINE p == K(x) - (D * A)
                   q == K(y) - (D * A)
                   u == x % d
                   v == y % d
        <5>1. /\ p \in Nat /\ q \in Nat /\ u \in 0..d - 1 /\ v \in 0..d - 1
              /\ (d * p) + u = (d * q) + v
          BY <2>4, <3>1, <4>1
        <5> HIDE DEF p, q, u, v
        <5>2. p = q /\ u = v
          BY <1>1, <5>1, PairUnique
        <5>3. QED
          BY <5>2 DEF p, q, u, v
      <4>3. K(x) = K(y)
        <5> DEFINE b == D * A
        <5>1. b \in Nat /\ K(x) - b = K(y) - b /\ K(x) \in b..N - 1 /\ K(y) \in b..N - 1
          BY <2>1, <2>4, <3>1, <4>2
        <5> HIDE DEF b
        <5>2. QED
          BY <1>1, <5>1
      <4>4. x \div d = y \div d
        BY <2>4, <3>1, <4>3
      <4>5. QED
        BY <2>4, <3>1, <4>2, <4>4
    <3>2. CASE ~(x < d * N) /\ ~(y < d * N)
      <4> DEFINE a == d * (D - 1)
                 b == d * N
      <4>1. a \in Nat /\ b \in Nat /\ x \in Nat /\ y \in Nat /\ a + (x - b) = a + (y - b)
        BY <2>1, <2>3, <2>6, <2>8, <3>2
      <4> HIDE DEF a, b
      <4>2. QED
        BY <4>1
    <3>3. ASSUME NEW u \in U, NEW v \in U, u < d * N, ~(v < d * N) PROVE g[u] # g[v]
      <4> DEFINE a == d * (D - 1)
      <4>1. a \in Nat /\ g[u] \in Nat /\ g[u] < a /\ g[v] \in a..n - 1 /\ n \in Nat
        BY <2>1, <2>5, <2>6, <3>3
      <4> HIDE DEF a, n, g
      <4>2. QED
        BY <4>1
    <3> HIDE DEF g, U
    <3>4. QED
      BY <2>8, <3>1, <3>2, <3>3
  <2>9. s - Cardinality(T) <= n /\ Cardinality(T) \in Nat
    <3> HIDE DEF g, n, U
    <3>1. \A x, y \in U : g[x] = g[y] => x = y
      BY <2>8
    <3>2. g \in Injection(U, 0..n - 1)
      BY <2>7, <3>1 DEF Injection, IsInjective
    <3>3. g \in Injection((0..s - 1) \ T, 0..n - 1)
      BY <3>2 DEF U
    <3>4. s \in Nat /\ n \in Nat /\ T \subseteq 0..s - 1
      BY <1>1, <1>2, <2>1
    <3>5. QED
      BY <3>3, <3>4, CountLeft
  <2>10. s - Cardinality(T) \in Int
    BY <1>1, <2>9
  <2>11. s - Cardinality(T) < d * D
    <3> DEFINE e == d * D
    <3>1. e \in Int /\ n = e - 1
      BY <1>3
    <3> HIDE DEF e, n
    <3>2. s - Cardinality(T) < e
      BY <2>9, <2>10, <3>1
    <3>3. QED
      BY <3>2 DEF e
  <2>12. QED
    BY <1>7, <2>11
<1>8. QED
  BY <1>4, <1>5, <1>6, <1>7

\* No thread leaves the memory, but for the block behind it that random reads without a kernel
\* of their own touch; no two threads touch the same line, but for the operations that
\* ThreadsApart excepts, those that overrun their accesses among them; and when the threads of
\* an operation that touches whole accesses are done, they have left out no more than the
\* remainders of the divisions, or the end of the memory (set_access_pattern,
\* set_thread_start_addresses and the kernels).
THEOREM SharesStayKept == Spec => []SharesKept
<1>1. Spec => []SharesInv
  BY SharesInit, SharesStep, PTL DEF Spec
<1>2. SharesInv => SharesKept
  BY TypesHold, ApartHolds, TouchedHolds DEF SharesKept
<1>3. QED
  BY <1>1, <1>2, PTL

----------------------------------------------------------------------------
(*****************************************************************************)
(* The queue of queries of the star schema benchmark, that the workers share *)
(* without a lock.                                                           *)
(*****************************************************************************)

\* Of the queries of the queue, the first n have been taken, once each.
QueryCount == Len(config.queue)

Taken(n) == executed = [k \in 1..QueryCount |-> IF k <= n THEN 1 ELSE 0]

\* What a worker has in hand: the position in its loop, and what it has read of the counters.
WorkerRecord == [at : Labels, left : Int, index : Nat, query : Nat]

\* The counters and the workers have their types.
QueueType ==
  /\ config \in Configs
  /\ queriesLeft \in Int /\ queryQueueIndex \in Nat
  /\ worker \in [Workers -> WorkerRecord]

\* As long as no two workers have met, at most one is at the queue; the counters and the
\* history then say how many queries have been taken, but for that worker's steps.
Free == \A w \in Workers : ~AtQueue(w)

\* What is true of the queue where worker w is.
Place(w) ==
  /\ worker[w].at = "decrement" =>
       /\ queriesLeft = QueryCount - queryQueueIndex /\ queriesLeft > 0
       /\ worker[w].left = queriesLeft /\ Taken(queryQueueIndex)
  /\ worker[w].at = "take" =>
       /\ queriesLeft = QueryCount - queryQueueIndex - 1 /\ queriesLeft >= 0
       /\ Taken(queryQueueIndex)
  /\ worker[w].at = "advance" =>
       /\ queriesLeft = QueryCount - queryQueueIndex - 1 /\ queriesLeft >= 0
       /\ worker[w].index = queryQueueIndex /\ Taken(queryQueueIndex + 1)
  /\ worker[w].at = "done" => queriesLeft = 0 /\ Free
  /\ worker[w].at # "undefined"

\* At most one worker is at the queue, and the counters say how far it has been worked off.
QueueInv ==
  /\ queryQueueIndex <= QueryCount
  /\ \A v, w \in Workers : AtQueue(v) /\ AtQueue(w) => v = w
  /\ Free => queriesLeft = QueryCount - queryQueueIndex /\ Taken(queryQueueIndex)
  /\ \A w \in Workers : Place(w)

\* Once two workers have met at the queue, nothing is claimed of it.
SSBInv == QueueType /\ (~together => QueueInv)

\* The queue is full and no worker is at it.
LEMMA SSBInit == StarInit => SSBInv
<1> SUFFICES ASSUME StarInit PROVE SSBInv
  OBVIOUS
<1>1. QueryCount \in Nat
  BY DEF QueryCount
<1>2. QueueType
  BY <1>1 DEF StarInit, QueueType, WorkerRecord, Labels, QueryCount
<1>3. QueueInv
  BY <1>1 DEF StarInit, QueueInv, Taken, AtQueue, QueryCount, Free, Place
<1>4. QED
  BY <1>2, <1>3 DEF SSBInv

\* A step of one worker leaves the others where they are.
LEMMA WorkerMoves ==
  ASSUME QueueType, NEW w \in Workers, NEW r \in WorkerRecord, NEW at \in Labels,
         MoveWorker(w, at, r), UNCHANGED config
  PROVE  /\ Workers' = Workers
         /\ worker' \in [Workers -> WorkerRecord]
         /\ worker'[w] = [r EXCEPT !.at = at]
         /\ \A v \in Workers \ {w} : worker'[v] = worker[v]
BY DEF QueueType, MoveWorker, Workers, WorkerRecord

\* A step of the only worker at the queue, or of one that comes there while nobody is.
LEMMA OneAtQueue ==
  ASSUME QueueInv, NEW w \in Workers, Workers' = Workers,
         Free \/ AtQueue(w), UNCHANGED config,
         \A v \in Workers \ {w} : worker'[v] = worker[v]
  PROVE  /\ \A v \in Workers \ {w} : ~AtQueue(v) /\ ~AtQueue(v)'
         /\ \A u, v \in Workers : AtQueue(u)' /\ AtQueue(v)' => u = v
         /\ Free' <=> ~AtQueue(w)'
         /\ QueryCount' = QueryCount /\ QueryCount \in Nat
         /\ \A v \in Workers \ {w} : worker[v].at = "done" => Free
<1>1. \A v \in Workers \ {w} : ~AtQueue(v)
  BY DEF QueueInv, Free
<1>2. \A v \in Workers \ {w} : ~AtQueue(v)'
  BY <1>1 DEF AtQueue
<1>3. QED
  BY <1>1, <1>2 DEF Free, QueryCount, QueueInv, Place

\* A worker looks whether queries are left, and comes to the queue or ends.
LEMMA CheckKeeps == ASSUME SSBInv, NEW w \in Workers, Check(w) PROVE SSBInv'
<1> DEFINE loaded == [worker[w] EXCEPT !.left = queriesLeft]
<1>1. worker[w] \in WorkerRecord /\ loaded \in WorkerRecord
  BY DEF SSBInv, QueueType, WorkerRecord
<1>2. UNCHANGED <<config, queriesLeft, queryQueueIndex, executed>>
  BY DEF Check
<1>3. CASE queriesLeft > 0
  <2>1. MoveWorker(w, "decrement", loaded)
    BY <1>3 DEF Check
  <2>2. /\ Workers' = Workers
        /\ worker' \in [Workers -> WorkerRecord]
        /\ worker'[w] = [loaded EXCEPT !.at = "decrement"]
        /\ \A v \in Workers \ {w} : worker'[v] = worker[v]
    BY <1>1, <1>2, <2>1, WorkerMoves DEF SSBInv, Labels
  <2>3. QueueType'
    BY <2>2, <1>2 DEF SSBInv, QueueType
  <2>4. ASSUME ~together' PROVE QueueInv'
    <3>1. QueueInv /\ \A v \in Workers : ~AtQueue(v)
      BY <2>4 DEF Check, SSBInv, AtQueue
    <3>2. worker'[w].at = "decrement" /\ worker'[w].left = queriesLeft
      BY <2>2, <1>1 DEF WorkerRecord
    <3> HIDE DEF loaded
    <3>3. /\ \A v \in Workers \ {w} : ~AtQueue(v) /\ ~AtQueue(v)'
          /\ \A u, v \in Workers : AtQueue(u)' /\ AtQueue(v)' => u = v
          /\ Free' <=> ~AtQueue(w)'
          /\ QueryCount' = QueryCount /\ QueryCount \in Nat
      BY <3>1, <2>2, <1>2, OneAtQueue DEF Free
    <3>4. queriesLeft = QueryCount - queryQueueIndex /\ Taken(queryQueueIndex) /\ Taken(queryQueueIndex)'
      BY <3>1, <3>3, <1>2 DEF QueueInv, Free, Taken
    <3>5. ~Free'
      BY <3>2, <3>3 DEF AtQueue
    <3>6. Place(w)'
      BY <3>2, <3>3, <3>4, <1>2, <1>3 DEF Place
    <3>7. ASSUME NEW v \in Workers \ {w} PROVE Place(v)'
      <4>1. worker[v].at # "done"
        BY <3>1, <3>4, <1>3, <3>7 DEF QueueInv, Place
      <4>2. QED
        BY <4>1, <3>1, <3>3, <2>2 DEF QueueInv, Place, AtQueue
    <3>8. QED
      BY <3>1, <3>3, <3>5, <3>6, <3>7, <2>2, <1>2 DEF QueueInv
  <2>5. QED
    BY <2>3, <2>4 DEF SSBInv
<1>4. CASE ~(queriesLeft > 0)
  <2>1. MoveWorker(w, "done", worker[w])
    BY <1>4 DEF Check
  <2>2. /\ Workers' = Workers
        /\ worker' \in [Workers -> WorkerRecord]
        /\ worker'[w] = [worker[w] EXCEPT !.at = "done"]
        /\ \A v \in Workers \ {w} : worker'[v] = worker[v]
    BY <1>1, <1>2, <2>1, WorkerMoves DEF SSBInv, Labels
  <2>3. QueueType'
    BY <2>2, <1>2 DEF SSBInv, QueueType
  <2>4. ASSUME ~together' PROVE QueueInv'
    <3>1. QueueInv /\ \A v \in Workers : ~AtQueue(v)
      BY <2>4 DEF Check, SSBInv, AtQueue
    <3>2. worker'[w].at = "done"
      BY <2>2, <1>1 DEF WorkerRecord
    <3>3. queriesLeft = 0
      BY <3>1, <1>4 DEF QueueInv, QueryCount, SSBInv, QueueType, Free
    <3>4. \A v \in Workers : ~AtQueue(v)'
      BY <3>1, <3>2, <2>2 DEF AtQueue
    <3>5. Free /\ Free' /\ QueryCount' = QueryCount
      BY <3>1, <3>4, <2>2, <1>2 DEF Free, QueryCount
    <3>6. \A v \in Workers : Place(v)'
      BY <3>1, <3>2, <3>3, <3>5, <2>2, <1>2 DEF QueueInv, Place, AtQueue
    <3>7. QED
      BY <3>1, <3>4, <3>5, <3>6, <2>2, <1>2 DEF QueueInv, Taken
  <2>5. QED
    BY <2>3, <2>4 DEF SSBInv
<1>5. QED
  BY <1>3, <1>4

\* The worker at the queue counts it down.
LEMMA DecrementKeeps == ASSUME SSBInv, NEW w \in Workers, Decrement(w) PROVE SSBInv'
<1>1. worker[w] \in WorkerRecord
  BY DEF SSBInv, QueueType
<1>2. UNCHANGED <<config, queryQueueIndex, executed, together>> /\ worker[w].at = "decrement"
  BY DEF Decrement
<1>3. /\ Workers' = Workers
      /\ worker' \in [Workers -> WorkerRecord]
      /\ worker'[w] = [worker[w] EXCEPT !.at = "take"]
      /\ \A v \in Workers \ {w} : worker'[v] = worker[v]
  BY <1>1, <1>2, WorkerMoves DEF Decrement, SSBInv, Labels
<1>4. PICK read \in {worker[w].left, queriesLeft} : queriesLeft' = read - 1
  BY DEF Decrement
<1>5. QueueType'
  BY <1>1, <1>2, <1>3, <1>4 DEF SSBInv, QueueType, WorkerRecord
<1>6. ASSUME ~together' PROVE QueueInv'
  <2>1. QueueInv
    BY <1>6, <1>2 DEF SSBInv
  <2>2. queriesLeft' = queriesLeft - 1 /\ queriesLeft > 0 /\ queriesLeft \in Int
    BY <2>1, <1>2, <1>4 DEF QueueInv, Place, SSBInv, QueueType
  <2>3. worker'[w].at = "take"
    BY <1>3, <1>1 DEF WorkerRecord
  <2>4. /\ \A v \in Workers \ {w} : ~AtQueue(v) /\ ~AtQueue(v)'
        /\ \A u, v \in Workers : AtQueue(u)' /\ AtQueue(v)' => u = v
        /\ Free' <=> ~AtQueue(w)'
        /\ QueryCount' = QueryCount /\ QueryCount \in Nat
        /\ \A v \in Workers \ {w} : worker[v].at = "done" => Free
    BY <2>1, <1>2, <1>3, OneAtQueue DEF AtQueue
  <2>5. ~Free /\ ~Free'
    BY <2>3, <2>4, <1>2 DEF AtQueue, Free
  <2>6. queriesLeft = QueryCount - queryQueueIndex /\ Taken(queryQueueIndex) /\ Taken(queryQueueIndex)'
    BY <2>1, <2>4, <1>2 DEF QueueInv, Place, Taken
  <2>7. Place(w)'
    BY <2>2, <2>3, <2>4, <2>6, <1>2 DEF Place, SSBInv, QueueType
  <2>8. ASSUME NEW v \in Workers \ {w} PROVE Place(v)'
    BY <2>1, <2>4, <2>5, <1>3 DEF QueueInv, Place, AtQueue
  <2>9. QED
    BY <2>1, <2>4, <2>5, <2>7, <2>8, <1>2, <1>3 DEF QueueInv
<1>7. QED
  BY <1>5, <1>6 DEF SSBInv

\* The worker at the queue takes its query.
LEMMA TakeQueryKeeps == ASSUME SSBInv, NEW w \in Workers, TakeQuery(w) PROVE SSBInv'
<1> DEFINE n == queryQueueIndex + 1
           loaded == [worker[w] EXCEPT !.index = queryQueueIndex, !.query = n]
<1>1. worker[w] \in WorkerRecord /\ loaded \in WorkerRecord
  <2>1. worker[w] \in WorkerRecord /\ queryQueueIndex \in Nat /\ n \in Nat
    BY DEF SSBInv, QueueType
  <2>2. QED
    BY <2>1 DEF WorkerRecord
<1>2. UNCHANGED <<config, queriesLeft, queryQueueIndex, together>> /\ worker[w].at = "take"
  BY DEF TakeQuery
<1>3. CASE n <= QueryCount
  <2>1. /\ MoveWorker(w, "advance", loaded)
        /\ executed' = [executed EXCEPT ![n] = @ + 1]
    BY <1>3 DEF TakeQuery, QueryCount
  <2>2. /\ Workers' = Workers
        /\ worker' \in [Workers -> WorkerRecord]
        /\ worker'[w] = [loaded EXCEPT !.at = "advance"]
        /\ \A v \in Workers \ {w} : worker'[v] = worker[v]
    BY <1>1, <1>2, <2>1, WorkerMoves DEF SSBInv, Labels
  <2>3. QueueType'
    BY <2>2, <1>2 DEF SSBInv, QueueType
  <2>4. ASSUME ~together' PROVE QueueInv'
    <3>1. QueueInv
      BY <2>4, <1>2 DEF SSBInv
    <3>2. worker'[w].at = "advance" /\ worker'[w].index = queryQueueIndex
      BY <2>2, <1>1 DEF WorkerRecord
    <3>3. Taken(queryQueueIndex) /\ queryQueueIndex \in Nat
      BY <3>1, <1>2 DEF QueueInv, Place, SSBInv, QueueType
    <3>4. QueryCount' = QueryCount /\ QueryCount \in Nat
      BY <1>2 DEF QueryCount
    <3>5. (Taken(queryQueueIndex + 1))'
      <4>1. n \in 1..QueryCount /\ executed = [k \in 1..QueryCount |-> IF k <= queryQueueIndex THEN 1 ELSE 0]
        BY <3>3, <3>4, <1>3 DEF Taken
      <4>2. executed' = [k \in 1..QueryCount |-> IF k = n THEN 1 ELSE executed[k]]
        <5>1. executed[n] = 0 /\ DOMAIN executed = 1..QueryCount
          BY <4>1, <3>3
        <5>2. executed' = [k \in 1..QueryCount |-> IF k = n THEN executed[n] + 1 ELSE executed[k]]
          BY <5>1, <4>1, <2>1, Zenon
        <5>3. QED
          BY <5>1, <5>2
      <4>3. executed' = [k \in 1..QueryCount |-> IF k <= n THEN 1 ELSE 0]
        BY <4>1, <4>2, <3>3, <3>4
      <4>4. QED
        BY <4>3, <3>4, <1>2, Zenon DEF Taken
    <3> HIDE DEF loaded
    <3>6. /\ \A v \in Workers \ {w} : ~AtQueue(v) /\ ~AtQueue(v)'
          /\ \A u, v \in Workers : AtQueue(u)' /\ AtQueue(v)' => u = v
          /\ Free' <=> ~AtQueue(w)'
          /\ QueryCount' = QueryCount /\ QueryCount \in Nat
          /\ \A v \in Workers \ {w} : worker[v].at = "done" => Free
      BY <3>1, <2>2, <1>2, OneAtQueue DEF AtQueue
    <3>7. ~Free /\ ~Free'
      BY <3>2, <3>6, <1>2 DEF AtQueue, Free
    <3>8. Place(w)'
      BY <3>1, <3>2, <3>4, <3>5, <1>2 DEF QueueInv, Place
    <3>9. ASSUME NEW v \in Workers \ {w} PROVE Place(v)'
      BY <3>1, <3>6, <3>7, <2>2 DEF QueueInv, Place, AtQueue
    <3>10. QED
      BY <3>1, <3>6, <3>7, <3>8, <3>9, <2>2, <1>2 DEF QueueInv
  <2>5. QED
    BY <2>3, <2>4 DEF SSBInv
<1>4. CASE ~(n <= QueryCount)
  <2>1. MoveWorker(w, "undefined", worker[w])
    BY <1>4 DEF TakeQuery, QueryCount
  <2>2. /\ Workers' = Workers
        /\ worker' \in [Workers -> WorkerRecord]
    BY <1>1, <1>2, <2>1, WorkerMoves DEF SSBInv, Labels
  <2>3. QueueType'
    BY <2>2, <1>2 DEF SSBInv, QueueType
  <2>4. together'
    BY <1>2, <1>4 DEF SSBInv, QueueInv, QueueType, QueryCount, Place
  <2>5. QED
    BY <2>3, <2>4 DEF SSBInv
<1>5. QED
  BY <1>3, <1>4

\* The worker at the queue moves its index, and leaves it.
LEMMA AdvanceKeeps == ASSUME SSBInv, NEW w \in Workers, Advance(w) PROVE SSBInv'
<1>1. worker[w] \in WorkerRecord
  BY DEF SSBInv, QueueType
<1>2. UNCHANGED <<config, queriesLeft, executed, together>> /\ worker[w].at = "advance"
  BY DEF Advance
<1>3. /\ Workers' = Workers
      /\ worker' \in [Workers -> WorkerRecord]
      /\ worker'[w] = [worker[w] EXCEPT !.at = "run"]
      /\ \A v \in Workers \ {w} : worker'[v] = worker[v]
  BY <1>1, <1>2, WorkerMoves DEF Advance, SSBInv, Labels
<1>4. PICK read \in {worker[w].index, queryQueueIndex} : queryQueueIndex' = read + 1
  BY DEF Advance
<1>5. QueueType'
  BY <1>1, <1>2, <1>3, <1>4 DEF SSBInv, QueueType, WorkerRecord
<1>6. ASSUME ~together' PROVE QueueInv'
  <2>1. QueueInv
    BY <1>6, <1>2 DEF SSBInv
  <2>2. queryQueueIndex' = queryQueueIndex + 1 /\ queryQueueIndex \in Nat /\ queriesLeft \in Int
    BY <2>1, <1>2, <1>4 DEF QueueInv, Place, SSBInv, QueueType
  <2>3. worker'[w].at = "run"
    BY <1>3, <1>1 DEF WorkerRecord
  <2>4. QueryCount' = QueryCount /\ QueryCount \in Nat
    BY <1>2 DEF QueryCount
  <2>5. /\ \A v \in Workers \ {w} : ~AtQueue(v) /\ ~AtQueue(v)'
        /\ \A u, v \in Workers : AtQueue(u)' /\ AtQueue(v)' => u = v
        /\ Free' <=> ~AtQueue(w)'
        /\ QueryCount' = QueryCount /\ QueryCount \in Nat
        /\ \A v \in Workers \ {w} : worker[v].at = "done" => Free
    BY <2>1, <1>2, <1>3, OneAtQueue DEF AtQueue
  <2>6. ~Free /\ Free'
    BY <2>3, <2>5, <1>2 DEF AtQueue, Free
  <2>7. /\ queriesLeft = QueryCount - queryQueueIndex' /\ Taken(queryQueueIndex)'
        /\ queryQueueIndex' <= QueryCount
    BY <2>1, <2>2, <2>5, <1>2 DEF QueueInv, Place, Taken
  <2>8. \A v \in Workers : Place(v)'
    BY <2>1, <2>3, <2>5, <2>6, <1>2, <1>3 DEF QueueInv, Place, AtQueue
  <2>9. QED
    BY <2>1, <2>5, <2>6, <2>7, <2>8, <1>2, <1>3 DEF QueueInv
<1>7. QED
  BY <1>5, <1>6 DEF SSBInv

\* The other steps leave the queue and who is there alone.
LEMMA OtherStepsKeep ==
  ASSUME SSBInv, UNCHANGED <<config, queriesLeft, queryQueueIndex, executed, together>>,
         worker' \in [Workers -> WorkerRecord],
         \A v \in Workers : \/ worker'[v] = worker[v]
                            \/ worker[v].at = "run" /\ worker'[v].at = "check"
  PROVE  SSBInv'
<1>1. Workers' = Workers /\ QueryCount' = QueryCount
  BY DEF Workers, QueryCount
<1>2. QueueType'
  BY <1>1 DEF SSBInv, QueueType
<1>3. \A v \in Workers : AtQueue(v)' = AtQueue(v)
  BY DEF AtQueue
<1>4. Free' = Free
  BY <1>1, <1>3 DEF Free
<1>5. ASSUME QueueInv PROVE QueueInv'
  <2>1. \A v \in Workers : Place(v)'
    BY <1>1, <1>4, <1>5 DEF QueueInv, Place, Taken
  <2>2. QED
    BY <1>1, <1>3, <1>4, <1>5, <2>1 DEF QueueInv, Taken
<1>6. QED
  BY <1>2, <1>5 DEF SSBInv

\* Every step of a worker keeps the queue.
LEMMA WorkKeeps == ASSUME SSBInv, NEW w \in Workers, Work(w) PROVE SSBInv'
<1>0. worker \in [Workers -> WorkerRecord]
  BY DEF SSBInv, QueueType
<1>1. CASE Merge(w)
  <2>1. UNCHANGED <<config, queriesLeft, queryQueueIndex, executed, together>>
    BY <1>1 DEF Merge, queueVars
  <2>2. worker[w].at = "run" /\ MoveWorker(w, "check", worker[w])
    BY <1>1 DEF Merge
  <2>3. /\ worker' \in [Workers -> WorkerRecord]
        /\ worker'[w] = [worker[w] EXCEPT !.at = "check"]
        /\ \A v \in Workers \ {w} : worker'[v] = worker[v]
    BY <1>0, <2>1, <2>2, WorkerMoves DEF SSBInv, Labels
  <2>4. worker'[w].at = "check"
    BY <2>3, <1>0 DEF WorkerRecord
  <2>5. QED
    BY <2>1, <2>2, <2>3, <2>4, OtherStepsKeep
<1>2. ASSUME NEW s \in Sockets, SocketFunction(w, s) PROVE SSBInv'
  BY <1>0, <1>2, OtherStepsKeep DEF SocketFunction, queueVars
<1>3. ASSUME NEW s \in Sockets, NEW t \in ScanThreads, ThreadScan(w, s, t) PROVE SSBInv'
  BY <1>0, <1>3, OtherStepsKeep DEF ThreadScan, queueVars
<1>4. ASSUME NEW s \in Sockets, NEW t \in ScanThreads, ThreadAggregate(w, s, t) PROVE SSBInv'
  BY <1>0, <1>4, OtherStepsKeep DEF ThreadAggregate, queueVars
<1>5. QED
  BY <1>1, <1>2, <1>3, <1>4, CheckKeeps, DecrementKeeps, TakeQueryKeeps, AdvanceKeeps, Zenon DEF Work

\* The invariant gives every query to at most one worker, and to one at the end.
LEMMA QueueGivesOnce == SSBInv => EachQueryOnce
<1> SUFFICES ASSUME SSBInv, ~together
             PROVE  /\ \A k \in DOMAIN executed : executed[k] <= 1
                    /\ (\A w \in Workers : worker[w].at = "done") =>
                         \A k \in DOMAIN executed : executed[k] = 1
  BY DEF EachQueryOnce
<1>1. QueueInv /\ QueueType /\ QueryCount \in Nat
  BY DEF SSBInv, QueryCount
<1>2. \E n \in Nat : Taken(n)
  <2>1. CASE Free
    BY <2>1, <1>1 DEF QueueInv, QueueType
  <2>2. CASE ~Free
    <3>1. queryQueueIndex \in Nat /\ queryQueueIndex + 1 \in Nat
      BY <1>1 DEF QueueType
    <3>2. Taken(queryQueueIndex) \/ Taken(queryQueueIndex + 1)
      BY <2>2, <1>1 DEF QueueInv, Place, Free, AtQueue
    <3>3. QED
      BY <3>1, <3>2, Zenon
  <2>3. QED
    BY <2>1, <2>2
<1>3. \A k \in DOMAIN executed : executed[k] <= 1
  BY <1>2 DEF Taken
<1>4. ASSUME \A w \in Workers : worker[w].at = "done" PROVE \A k \in DOMAIN executed : executed[k] = 1
  <2>1. config.workers \in Nat \ {0}
    BY <1>1, ConfigAssumption DEF QueueType
  <2>2. 1 \in Workers
    BY <2>1 DEF Workers
  <2>3. queriesLeft = 0 /\ Free
    BY <1>1, <1>4, <2>2 DEF QueueInv, Place
  <2>4. queryQueueIndex = QueryCount /\ Taken(queryQueueIndex)
    BY <1>1, <2>3 DEF QueueInv, QueueType
  <2>5. QED
    BY <2>4, <1>1 DEF Taken
<1>5. QED
  BY <1>3, <1>4

\* As long as no two workers are between the test of queries_left and the increment of
\* query_queue_index at the same time, every query is executed at most once, and exactly once
\* when all workers have ended (the loop of the query threads).
THEOREM QueriesTakenOnce == StarSpec => []EachQueryOnce
<1>1. SSBInv /\ [StarNext]_(starVars) => SSBInv'
  <2> SUFFICES ASSUME SSBInv, [StarNext]_(starVars) PROVE SSBInv'
    OBVIOUS
  <2>1. CASE \E w \in Workers : Work(w)
    BY <2>1, WorkKeeps
  <2>2. CASE UNCHANGED starVars
    <3>1. UNCHANGED <<config, queriesLeft, queryQueueIndex, executed, together, worker>>
      BY <2>2 DEF starVars
    <3>2. QED
      BY <3>1, OtherStepsKeep DEF SSBInv, QueueType
  <2>3. QED
    BY <2>1, <2>2 DEF StarNext, Ended
<1>2. SSBInv => EachQueryOnce
  BY QueueGivesOnce
<1>3. QED
  BY SSBInit, <1>1, <1>2, PTL DEF StarSpec
=============================================================================
