--------------------------- MODULE TaskSchedulerProofs ---------------------------
(***************************************************************************)
(* Proofs about TaskScheduler, for any number of tasks, workers and nodes  *)
(* and any dependencies.                                                   *)
(***************************************************************************)
EXTENDS TaskScheduler, FiniteSetTheorems, SequenceTheorems, TLAPS

Priorities == {High, Default}
Holders == ({"queue"} \X Nodes \X Priorities) \cup ({"next", "stolen", "stack"} \X Workers \X {0})

\* The tasks that a queue, a worker's _next_task, a thief or a worker's stack holds.
Holds(h) ==
  CASE h[1] = "queue"  -> ToSet(queue[h[2]][h[3]])
    [] h[1] = "next"   -> {nextTask[h[2]]} \ {None}
    [] h[1] = "stolen" -> IF stolen[h[2]] = None THEN {} ELSE {stolen[h[2]].task}
    [] h[1] = "stack"  -> {stack[h[2]][k].task : k \in DOMAIN stack[h[2]]}

Thefts == [task : Tasks \ Stealable, node : Nodes, priority : Priorities]
Frames == [task : Tasks, at : Labels \ {"assertion"}, i : Nat]

Types ==
  /\ pending \in [Tasks -> Nat]
  /\ completed \subseteq started /\ done \subseteq completed /\ started \subseteq enqueued
  /\ enqueued \subseteq scheduled /\ scheduled \subseteq Tasks
  /\ queue \in [Nodes -> [Priorities -> Seq(Tasks)]]
  /\ nextTask \in [Workers -> Tasks \cup {None}] /\ stolen \in [Workers -> Thefts \cup {None}]
  /\ stack \in [Workers -> Seq(Frames)]
  /\ finished \in [Workers -> Nat] /\ taskCounter \in Nat

\* Where a frame is tells which marks its task has: S are the started tasks, C the
\* completed ones, D those that are done.
Fits(f, S, C, D) ==
  /\ f.at = "working" => Jobs[f.task] = <<>>
  /\ f.at \in {"schedule", "admit", "push"} => f.i \in DOMAIN Jobs[f.task]
  /\ f.at \in {"decrement", "offer"} => f.i \in DOMAIN Successors[f.task]
  /\ f.at \in {"run", "working", "wait", "setDone", "count"} => f.i = 1
  /\ f.at = "run" <=> f.task \notin S
  /\ f.at \in {"run", "working", "schedule", "admit", "push", "wait"} <=> f.task \notin C
  /\ f.at = "count" <=> f.task \in D

Shape ==
  \A w \in Workers : \A k \in DOMAIN stack[w] :
    Fits(stack[w][k], started, completed, done) /\ (k # 1 => stack[w][k].at = "wait")

\* A task that is enqueued is in one place until it is counted.
Places ==
  /\ \A h \in Holders : Holds(h) \subseteq enqueued /\ (h[1] # "stack" => Holds(h) \cap started = {})
  /\ \A h, g \in Holders : h # g => Holds(h) \cap Holds(g) = {}
  /\ \A n \in Nodes, p \in Priorities : IsInjective(queue[n][p])
  /\ \A w \in Workers : \A j, k \in DOMAIN stack[w] : stack[w][j].task = stack[w][k].task => j = k
  /\ \A t \in enqueued \ done : \E h \in Holders : t \in Holds(h)

\* A frame still has to count its task off t's predecessors.
Owes(f, t) == \E j \in DOMAIN Successors[f.task] :
  /\ Successors[f.task][j] = t
  /\ (f.at = "decrement" /\ f.i <= j) \/ (f.at = "offer" /\ f.i < j)

\* Some worker is about to count p off the predecessors of t.
OwedBy(w, p, t) == stack[w] # <<>> /\ Top(w).task = p /\ Owes(Top(w), t)
Owed(p, t) == \E w \in Workers : OwedBy(w, p, t)
Owing(t) == {p \in Tasks : <<p, t>> \in Edges /\ (p \notin completed \/ Owed(p, t))}

Readiness ==
  /\ \A t \in Tasks : pending[t] = Cardinality(Owing(t))
  /\ \A t \in enqueued : pending[t] = 0
  /\ client.at = "push" => pending[batch[client.i]] = 0
  /\ \A w \in Workers : (At(w, "push") => pending[Job(w)] = 0) /\ (At(w, "offer") => pending[Successor(w)] = 0)
  /\ \A t \in scheduled \ enqueued : pending[t] = 0 => AboutToEnqueue(t)

\* Tasks that are marked, but not counted yet by the thread that has marked them.
ToAdmit == {t \in Tasks : \/ client.at = "admit" /\ batch[client.i] = t
                          \/ \E w \in Workers : At(w, "admit") /\ Job(w) = t}

\* The jobs that a worker, and the tasks that the client, still has to schedule are not marked.
Unmarked(w) ==
  stack[w] # <<>> => \A j \in DOMAIN Jobs[Top(w).task] :
    (Top(w).at = "schedule" /\ j >= Top(w).i) \/ (Top(w).at \in {"admit", "push"} /\ j > Top(w).i)
      => Jobs[Top(w).task][j] \notin scheduled

BatchUnmarked ==
  \A j \in DOMAIN batch :
    (client.at = "schedule" /\ j >= client.i) \/ (client.at \in {"admit", "push"} /\ j > client.i)
      => batch[j] \notin scheduled

Marked ==
  /\ client.at \in {"admit", "push"} => batch[client.i] \in scheduled
  /\ \A w \in Workers : At(w, "admit") \/ At(w, "push") => Job(w) \in scheduled

\* A thread marks and counts each task of its list once.
Scheduling ==
  /\ \A u \in Tasks \ started : ToSet(Jobs[u]) \cap scheduled = {}
  /\ \A u \in completed : ToSet(Jobs[u]) \subseteq done
  /\ \A w \in Workers : Unmarked(w)
  /\ BatchUnmarked
  /\ Marked
  /\ taskCounter = Cardinality(scheduled \ ToAdmit)

\* The tasks that a worker has counted.
Over == {t \in done : \A w \in Workers : t \notin Holds(<<"stack", w, 0>>)}

Course ==
  /\ batch \in SetToSeqs(Tasks \ Spawned)
  /\ client.at \in {"schedule", "admit", "push", "join", "sum", "deactivate", "finished"}
  /\ client.at \in {"schedule", "admit", "push", "join"} => client.i \in DOMAIN batch
  /\ client.at = "join" => \A j \in 1 .. client.i - 1 : batch[j] \in done
  /\ client.at \in {"sum", "deactivate", "finished"} => done = Tasks
  /\ client.at = "sum" => client.i \in 1 .. Len(WorkerList) + 1
  /\ client.at # "sum" => sum = 0
  /\ active = (client.at # "finished")
  /\ client.at \in {"deactivate", "finished"} => Over = Tasks

\* F are the tasks that each worker has counted, G those that are in the client's sum.
CountedBy(F, G) ==
  /\ F \in [Workers -> SUBSET Tasks] /\ G \in SUBSET Tasks
  /\ \A w \in Workers : finished[w] = Cardinality(F[w])
  /\ \A v, w \in Workers : v # w => F[v] \cap F[w] = {}
  /\ Over = UNION {F[w] : w \in Workers}
  /\ sum = Cardinality(G)
  /\ client.at = "sum" => \A t \in G : \E j \in 1 .. client.i - 1 : t \in F[WorkerList[j]]

Counting == \E F, G : CountedBy(F, G)

IInv == Types /\ Shape /\ Places /\ Readiness /\ Scheduling /\ Course /\ Counting

----------------------------------------------------------------------------
(* Sequences and holders.                                                  *)

LEMMA AppendSet ==
  ASSUME NEW s \in Seq(Tasks), NEW t \in Tasks
  PROVE  /\ Append(s, t) \in Seq(Tasks) /\ ToSet(Append(s, t)) = ToSet(s) \cup {t}
         /\ IsInjective(s) /\ t \notin ToSet(s) => IsInjective(Append(s, t))
  BY AppendProperties DEF ToSet, IsInjective

LEMMA TailSet ==
  ASSUME NEW s \in Seq(Tasks), IsInjective(s), s # <<>>
  PROVE  /\ Head(s) \in Tasks /\ Head(s) \in ToSet(s) /\ Tail(s) \in Seq(Tasks)
         /\ ToSet(Tail(s)) = ToSet(s) \ {Head(s)} /\ IsInjective(Tail(s))
<1>1. /\ Len(s) \in Nat /\ Len(s) > 0 /\ DOMAIN s = 1 .. Len(s) /\ Head(s) = s[1]
      /\ Tail(s) \in Seq(Tasks) /\ DOMAIN Tail(s) = 1 .. Len(s) - 1
      /\ \A i \in 1 .. Len(s) - 1 : Tail(s)[i] = s[i + 1]
  OBVIOUS
<1>2. ASSUME NEW x \in ToSet(s) \ {Head(s)} PROVE x \in ToSet(Tail(s))
  <2>1. PICK i \in 1 .. Len(s) : s[i] = x
    BY <1>1 DEF ToSet
  <2>2. i - 1 \in 1 .. Len(s) - 1 /\ Tail(s)[i - 1] = x
    BY <1>1, <1>2, <2>1
  <2> QED
    BY <1>1, <2>2 DEF ToSet
<1>3. ASSUME NEW x \in ToSet(Tail(s)) PROVE x \in ToSet(s) \ {Head(s)}
  <2>1. PICK i \in 1 .. Len(s) - 1 : Tail(s)[i] = x
    BY <1>1 DEF ToSet
  <2>2. i + 1 \in 1 .. Len(s) /\ s[i + 1] = x /\ i + 1 # 1
    BY <1>1, <2>1
  <2> QED
    BY <1>1, <2>2 DEF ToSet, IsInjective
<1>4. IsInjective(Tail(s))
  <2> SUFFICES ASSUME NEW i \in 1 .. Len(s) - 1, NEW j \in 1 .. Len(s) - 1, Tail(s)[i] = Tail(s)[j] PROVE i = j
    BY <1>1 DEF IsInjective
  <2>1. i + 1 \in 1 .. Len(s) /\ j + 1 \in 1 .. Len(s) /\ s[i + 1] = s[j + 1]
    BY <1>1
  <2> QED
    BY <1>1, <2>1 DEF IsInjective
<1>5. Head(s) \in ToSet(s) /\ Head(s) \in Tasks
  BY <1>1 DEF ToSet
<1> QED
  BY <1>1, <1>2, <1>3, <1>4, <1>5

\* What each holder holds.
LEMMA HoldsOf ==
  /\ \A n \in Nodes, p \in Priorities : <<"queue", n, p>> \in Holders /\ Holds(<<"queue", n, p>>) = ToSet(queue[n][p])
  /\ \A w \in Workers :
       /\ <<"next", w, 0>> \in Holders /\ Holds(<<"next", w, 0>>) = {nextTask[w]} \ {None}
       /\ <<"stolen", w, 0>> \in Holders
       /\ Holds(<<"stolen", w, 0>>) = IF stolen[w] = None THEN {} ELSE {stolen[w].task}
       /\ <<"stack", w, 0>> \in Holders /\ Holds(<<"stack", w, 0>>) = {stack[w][k].task : k \in DOMAIN stack[w]}
<1>1. /\ \A n \in Nodes, p \in Priorities : Holds(<<"queue", n, p>>) = ToSet(queue[n][p])
      /\ \A w \in Workers :
           /\ Holds(<<"next", w, 0>>) = {nextTask[w]} \ {None}
           /\ Holds(<<"stolen", w, 0>>) = IF stolen[w] = None THEN {} ELSE {stolen[w].task}
           /\ Holds(<<"stack", w, 0>>) = {stack[w][k].task : k \in DOMAIN stack[w]}
  BY DEF Holds
<1>2. \A n \in Nodes, p \in Priorities : <<"queue", n, p>> \in Holders
  BY DEF Holders
<1>3. \A w \in Workers : <<"next", w, 0>> \in Holders /\ <<"stolen", w, 0>> \in Holders /\ <<"stack", w, 0>> \in Holders
  BY DEF Holders
<1> QED
  BY <1>1, <1>2, <1>3

\* There are no other holders.
LEMMA HolderKinds ==
  ASSUME NEW h \in Holders
  PROVE  \/ \E n \in Nodes, p \in Priorities : h = <<"queue", n, p>>
         \/ \E w \in Workers : h \in {<<"next", w, 0>>, <<"stolen", w, 0>>, <<"stack", w, 0>>}
  BY DEF Holders

\* A task has one frame at most.
LEMMA OneFrame ==
  ASSUME Places, NEW v \in Workers, NEW w \in Workers, NEW j \in DOMAIN stack[v], NEW k \in DOMAIN stack[w],
         stack[v][j].task = stack[w][k].task
  PROVE  v = w /\ j = k
<1>1. CASE v = w
  BY <1>1 DEF Places
<1>2. CASE v # w
  <2>1. <<"stack", v, 0>> # <<"stack", w, 0>>
    BY <1>2
  <2>2. Holds(<<"stack", v, 0>>) \cap Holds(<<"stack", w, 0>>) = {}
    BY <2>1, HoldsOf DEF Places
  <2>3. stack[v][j].task \in Holds(<<"stack", v, 0>>) /\ stack[w][k].task \in Holds(<<"stack", w, 0>>)
    BY ZenonT(60), HoldsOf
  <2> QED
    BY <2>2, <2>3
<1> QED
  BY <1>1, <1>2

\* The innermost frame goes on to another label.
TopAt(w, l, i) ==
  /\ stack' \in [Workers -> Seq(Frames)]
  /\ DOMAIN stack'[w] = DOMAIN stack[w] /\ stack'[w] # <<>> /\ 1 \in DOMAIN stack[w]
  /\ stack'[w][1].task = stack[w][1].task /\ stack'[w][1].at = l /\ stack'[w][1].i = i
  /\ \A k \in DOMAIN stack[w] : k # 1 => stack'[w][k] = stack[w][k]
  /\ \A v \in Workers \ {w} : stack'[v] = stack[v]

LEMMA StepFacts ==
  ASSUME Types, NEW w \in Workers, stack[w] # <<>>, NEW l \in Labels \ {"assertion"}, NEW i \in Nat, Step(w, l, i)
  PROVE  TopAt(w, l, i)
<1> DEFINE f == stack[w][1]
           g == [task |-> f.task, at |-> l, i |-> i]
<1>1. /\ stack \in [Workers -> Seq(Frames)] /\ stack[w] \in Seq(Frames) /\ Len(stack[w]) \in Nat /\ Len(stack[w]) > 0
      /\ DOMAIN stack[w] = 1 .. Len(stack[w]) /\ 1 \in DOMAIN stack[w] /\ f \in Frames
  BY DEF Types
<1>2. [[f EXCEPT !.at = l] EXCEPT !.i = i] = g
  <2>1. [f EXCEPT !.at = l] = [task |-> f.task, at |-> l, i |-> f.i]
    BY <1>1 DEF Frames
  <2>2. [[task |-> f.task, at |-> l, i |-> f.i] EXCEPT !.i = i] = g
    OBVIOUS
  <2> QED
    BY <2>1, <2>2, Zenon
<1>3. g \in Frames
  BY <1>1 DEF Frames
<1>4. stack' = [stack EXCEPT ![w] = [stack[w] EXCEPT ![1] = [[f EXCEPT !.at = l] EXCEPT !.i = i]]]
  BY <1>1 DEF Step
<1>5. stack' = [stack EXCEPT ![w] = [stack[w] EXCEPT ![1] = g]]
  BY <1>2, <1>4, Zenon
<1> HIDE DEF g
<1>6. /\ [stack[w] EXCEPT ![1] = g] \in Seq(Frames) /\ DOMAIN [stack[w] EXCEPT ![1] = g] = DOMAIN stack[w]
      /\ [stack[w] EXCEPT ![1] = g][1] = g /\ [stack[w] EXCEPT ![1] = g] # <<>>
      /\ \A k \in DOMAIN stack[w] : k # 1 => [stack[w] EXCEPT ![1] = g][k] = stack[w][k]
  BY <1>1, <1>3
<1>7. stack' \in [Workers -> Seq(Frames)] /\ stack'[w] = [stack[w] EXCEPT ![1] = g]
      /\ \A v \in Workers \ {w} : stack'[v] = stack[v]
  BY <1>1, <1>5, <1>6
<1>8. g.task = f.task /\ g.at = l /\ g.i = i
  BY DEF g
<1> QED
  BY <1>1, <1>6, <1>7, <1>8 DEF TopAt

\* A task is entered.
Entered(w, t) ==
  /\ stack' \in [Workers -> Seq(Frames)]
  /\ DOMAIN stack'[w] = 1 .. Len(stack[w]) + 1 /\ stack'[w] # <<>>
  /\ stack'[w][1].task = t /\ stack'[w][1].at = "run" /\ stack'[w][1].i = 1
  /\ \A k \in 1 .. Len(stack[w]) : stack'[w][k + 1] = stack[w][k]
  /\ \A v \in Workers \ {w} : stack'[v] = stack[v]

LEMMA EnterFacts ==
  ASSUME Types, NEW w \in Workers, NEW t \in Tasks, Enter(w, t)
  PROVE  Entered(w, t)
<1>1. stack \in [Workers -> Seq(Frames)] /\ stack[w] \in Seq(Frames) /\ Len(stack[w]) \in Nat
  BY DEF Types
<1>2. Frame(t) \in Frames /\ Frame(t).task = t /\ Frame(t).at = "run" /\ Frame(t).i = 1
  BY DEF Frame, Frames, Labels
<1>3. <<Frame(t)>> \in Seq(Frames) /\ Len(<<Frame(t)>>) = 1 /\ <<Frame(t)>>[1] = Frame(t)
  BY <1>2
<1> HIDE DEF Frame
<1> DEFINE new == <<Frame(t)>> \o stack[w]
<1>4. /\ new \in Seq(Frames) /\ Len(new) = Len(stack[w]) + 1 /\ new[1] = Frame(t)
      /\ \A k \in 1 .. Len(stack[w]) : new[k + 1] = stack[w][k]
  <2>1. /\ new \in Seq(Frames) /\ Len(new) = 1 + Len(stack[w])
        /\ \A i \in 1 .. Len(new) : new[i] = IF i <= 1 THEN <<Frame(t)>>[i] ELSE stack[w][i - 1]
    BY <1>1, <1>3, ConcatProperties
  <2> HIDE DEF new
  <2> QED
    BY <1>1, <1>3, <2>1
<1>5. stack' = [stack EXCEPT ![w] = new]
  BY DEF Enter
<1> HIDE DEF new
<1>6. stack' \in [Workers -> Seq(Frames)] /\ stack'[w] = new /\ \A v \in Workers \ {w} : stack'[v] = stack[v]
  BY <1>1, <1>4, <1>5
<1> QED
  BY <1>1, <1>2, <1>4, <1>6 DEF Entered

\* The innermost task is left.
Left(w) ==
  /\ stack' \in [Workers -> Seq(Frames)]
  /\ 1 \in DOMAIN stack[w] /\ DOMAIN stack'[w] = 1 .. Len(stack[w]) - 1
  /\ \A k \in 1 .. Len(stack[w]) - 1 : stack'[w][k] = stack[w][k + 1]
  /\ \A v \in Workers \ {w} : stack'[v] = stack[v]

LEMMA LeaveFacts ==
  ASSUME Types, NEW w \in Workers, stack[w] # <<>>, stack' = [stack EXCEPT ![w] = Tail(@)]
  PROVE  Left(w)
<1>1. stack \in [Workers -> Seq(Frames)] /\ stack[w] \in Seq(Frames) /\ Len(stack[w]) \in Nat /\ Len(stack[w]) > 0
      /\ DOMAIN stack[w] = 1 .. Len(stack[w])
  BY DEF Types
<1>2. /\ Tail(stack[w]) \in Seq(Frames) /\ DOMAIN Tail(stack[w]) = 1 .. Len(stack[w]) - 1
      /\ \A k \in 1 .. Len(stack[w]) - 1 : Tail(stack[w])[k] = stack[w][k + 1]
  BY <1>1
<1>3. stack' \in [Workers -> Seq(Frames)] /\ stack'[w] = Tail(stack[w]) /\ \A v \in Workers \ {w} : stack'[v] = stack[v]
  BY <1>1, <1>2
<1> QED
  BY <1>1, <1>2, <1>3 DEF Left

\* What a frame is made of.
LEMMA FrameFacts ==
  ASSUME Types, Places, NEW w \in Workers, NEW k \in DOMAIN stack[w]
  PROVE  /\ stack[w][k] \in Frames /\ stack[w][k].task \in Tasks /\ stack[w][k].task \in enqueued
         /\ stack[w][k].task \in Holds(<<"stack", w, 0>>)
         /\ DOMAIN stack[w] = 1 .. Len(stack[w]) /\ Len(stack[w]) \in Nat /\ 1 \in DOMAIN stack[w] /\ stack[w] # <<>>
<1>1. stack[w] \in Seq(Frames)
  BY DEF Types
<1>2. DOMAIN stack[w] = 1 .. Len(stack[w]) /\ Len(stack[w]) \in Nat /\ 1 \in DOMAIN stack[w] /\ stack[w] # <<>>
  BY <1>1
<1>3. stack[w][k] \in Frames /\ stack[w][k].task \in Tasks
  <2>1. stack[w][k] \in Frames
    BY <1>1
  <2> QED
    BY <2>1 DEF Frames
<1>4. stack[w][k].task \in Holds(<<"stack", w, 0>>)
  BY ZenonT(60), HoldsOf
<1> QED
  BY <1>2, <1>3, <1>4, HoldsOf DEF Places

----------------------------------------------------------------------------
(* Shape.                                                                  *)

\* Only t's marks change.
MarksOf(t) ==
  /\ started' \in {started, started \cup {t}} /\ completed' \in {completed, completed \cup {t}}
  /\ done' \in {done, done \cup {t}}

LEMMA OtherFits ==
  ASSUME NEW f, NEW t, MarksOf(t), f.task # t, Fits(f, started, completed, done)
  PROVE  Fits(f, started', completed', done')
  BY DEF Fits, MarksOf

LEMMA ShapeTop ==
  ASSUME Types, Shape, Places, NEW w \in Workers, NEW l, NEW i, TopAt(w, l, i), MarksOf(Top(w).task),
         Fits(stack'[w][1], started', completed', done')
  PROVE  Shape'
<1> SUFFICES ASSUME NEW v \in Workers, NEW k \in DOMAIN stack'[v]
             PROVE  Fits(stack'[v][k], started', completed', done') /\ (k # 1 => stack'[v][k].at = "wait")
  BY DEF Shape
<1>1. CASE v = w /\ k = 1
  BY <1>1
<1>2. CASE ~(v = w /\ k = 1)
  <2>1. k \in DOMAIN stack[v] /\ stack'[v][k] = stack[v][k]
    BY <1>2 DEF TopAt
  <2>2. 1 \in DOMAIN stack[w]
    BY DEF TopAt
  <2>3. stack[v][k].task # Top(w).task
    BY <1>2, <2>1, <2>2, OneFrame DEF Top
  <2>4. Fits(stack[v][k], started, completed, done) /\ (k # 1 => stack[v][k].at = "wait")
    BY <2>1 DEF Shape
  <2> QED
    BY <2>1, <2>3, <2>4, OtherFits
<1> QED
  BY <1>1, <1>2

LEMMA ShapeEnter ==
  ASSUME Types, Shape, NEW w \in Workers, NEW t \in Tasks \ started, Entered(w, t),
         UNCHANGED <<started, completed, done>>, stack[w] = <<>> \/ Top(w).at = "wait"
  PROVE  Shape'
<1> SUFFICES ASSUME NEW v \in Workers, NEW k \in DOMAIN stack'[v]
             PROVE  Fits(stack'[v][k], started, completed, done) /\ (k # 1 => stack'[v][k].at = "wait")
  BY DEF Shape
<1>2. CASE v = w /\ k = 1
  <2>1. stack'[w][1].task = t /\ stack'[w][1].at = "run" /\ stack'[w][1].i = 1
    BY DEF Entered
  <2> QED
    BY <1>2, <2>1 DEF Fits, Types
<1>3. CASE v = w /\ k # 1
  <2>1. Len(stack[w]) \in Nat /\ DOMAIN stack[w] = 1 .. Len(stack[w]) /\ (stack[w] = <<>> => Len(stack[w]) = 0)
    BY DEF Types
  <2>2. k - 1 \in DOMAIN stack[w] /\ stack'[w][k] = stack[w][k - 1]
    <3>1. DOMAIN stack'[w] = 1 .. Len(stack[w]) + 1 /\ \A j \in 1 .. Len(stack[w]) : stack'[w][j + 1] = stack[w][j]
      BY DEF Entered
    <3>2. k \in 1 .. Len(stack[w]) + 1
      BY <1>3, <3>1
    <3>3. k - 1 \in 1 .. Len(stack[w]) /\ (k - 1) + 1 = k
      BY <1>3, <2>1, <3>2
    <3> QED
      BY <2>1, <3>1, <3>3
  <2>3. Fits(stack[w][k - 1], started, completed, done) /\ (k - 1 # 1 => stack[w][k - 1].at = "wait")
    BY <2>2 DEF Shape
  <2>4. stack[w][k - 1].at = "wait"
    BY <2>1, <2>2, <2>3 DEF Top
  <2> QED
    BY <1>3, <2>2, <2>3, <2>4
<1>4. CASE v # w
  BY <1>4 DEF Entered, Shape
<1> QED
  BY <1>2, <1>3, <1>4

LEMMA ShapeLeave ==
  ASSUME Types, Shape, NEW w \in Workers, Left(w), UNCHANGED <<started, completed, done>>
  PROVE  Shape'
<1> SUFFICES ASSUME NEW v \in Workers, NEW k \in DOMAIN stack'[v]
             PROVE  Fits(stack'[v][k], started, completed, done) /\ (k # 1 => stack'[v][k].at = "wait")
  BY DEF Shape
<1>2. CASE v = w
  <2>1. Len(stack[w]) \in Nat /\ DOMAIN stack[w] = 1 .. Len(stack[w])
    BY DEF Types
  <2>2. k + 1 \in DOMAIN stack[w] /\ stack'[w][k] = stack[w][k + 1] /\ k + 1 # 1
    BY <1>2, <2>1 DEF Left
  <2>3. Fits(stack[w][k + 1], started, completed, done) /\ stack[w][k + 1].at = "wait"
    BY <2>2 DEF Shape
  <2> QED
    BY <1>2, <2>2, <2>3
<1>3. CASE v # w
  BY <1>3 DEF Left, Shape
<1> QED
  BY <1>2, <1>3

----------------------------------------------------------------------------
(* Places.                                                                 *)

\* Queues and stacks hold a task once.
Once ==
  /\ \A n \in Nodes, p \in Priorities : IsInjective(queue[n][p])
  /\ \A w \in Workers : \A j, k \in DOMAIN stack[w] : stack[w][j].task = stack[w][k].task => j = k

\* The marks grow, and a task that has just been started or that is done is in a stack, or nowhere.
MarksGrow ==
  /\ enqueued \subseteq enqueued' /\ done \subseteq done'
  /\ \A h \in Holders : h[1] # "stack" => Holds(h) \cap started' = {}

LEMMA PlacesKept ==
  ASSUME Places, Once', MarksGrow, enqueued' = enqueued, \A h \in Holders : Holds(h)' = Holds(h)
  PROVE  Places'
  BY DEF Places, Once, MarksGrow

LEMMA PlacesAdd ==
  ASSUME Places, Once', MarksGrow, NEW t \in Tasks \ enqueued, t \notin started', enqueued' = enqueued \cup {t},
         NEW g \in Holders, Holds(g)' = Holds(g) \cup {t}, \A h \in Holders \ {g} : Holds(h)' = Holds(h)
  PROVE  Places'
<1>1. ASSUME NEW h \in Holders
      PROVE  Holds(h)' \subseteq enqueued' /\ (h[1] # "stack" => Holds(h)' \cap started' = {})
  BY DEF Places, MarksGrow
<1>2. ASSUME NEW h \in Holders, NEW k \in Holders, h # k PROVE Holds(h)' \cap Holds(k)' = {}
  <2>1. Holds(h) \cap Holds(k) = {} /\ Holds(h) \subseteq enqueued /\ Holds(k) \subseteq enqueued
    BY <1>2 DEF Places
  <2>2. CASE h = g
    BY <1>2, <2>1, <2>2
  <2>3. CASE k = g
    BY <1>2, <2>1, <2>3
  <2>4. CASE h # g /\ k # g
    BY <1>2, <2>1, <2>4
  <2> QED
    BY <2>2, <2>3, <2>4
<1>3. ASSUME NEW u \in enqueued' \ done' PROVE \E h \in Holders : u \in Holds(h)'
  <2>1. CASE u = t
    BY <2>1
  <2>2. CASE u # t
    <3>1. PICK h \in Holders : u \in Holds(h)
      BY <1>3, <2>2 DEF Places, MarksGrow
    <3> QED
      BY <3>1
  <2> QED
    BY <2>1, <2>2
<1> QED
  BY <1>1, <1>2, <1>3 DEF Places, Once

LEMMA PlacesMove ==
  ASSUME Places, Once', UNCHANGED <<enqueued, started, done>>,
         NEW f \in Holders, NEW g \in Holders, f # g, NEW t \in Holds(f), t \notin started,
         Holds(f)' = Holds(f) \ {t}, Holds(g)' = Holds(g) \cup {t},
         \A h \in Holders \ {f, g} : Holds(h)' = Holds(h)
  PROVE  Places'
<1>1. ASSUME NEW h \in Holders
      PROVE  Holds(h)' \subseteq enqueued' /\ (h[1] # "stack" => Holds(h)' \cap started' = {})
  <2>1. Holds(h)' \subseteq Holds(h) \cup {t} /\ t \in enqueued
    BY DEF Places
  <2> QED
    BY <2>1 DEF Places
<1>2. ASSUME NEW h \in Holders, NEW k \in Holders, h # k PROVE Holds(h)' \cap Holds(k)' = {}
  <2>1. Holds(h) \cap Holds(k) = {} /\ (h # f => t \notin Holds(h)) /\ (k # f => t \notin Holds(k))
    BY <1>2 DEF Places
  <2>2. CASE h = g
    BY <1>2, <2>1, <2>2
  <2>3. CASE k = g
    BY <1>2, <2>1, <2>3
  <2>4. CASE h # g /\ k # g
    BY <1>2, <2>1, <2>4
  <2> QED
    BY <2>2, <2>3, <2>4
<1>3. ASSUME NEW u \in enqueued' \ done' PROVE \E h \in Holders : u \in Holds(h)'
  <2>1. CASE u = t
    BY <2>1
  <2>2. CASE u # t
    <3>1. PICK h \in Holders : u \in Holds(h)
      BY <1>3, <2>2 DEF Places
    <3>2. CASE h = f
      BY <2>2, <3>1, <3>2
    <3>3. CASE h = g
      BY <3>1, <3>3
    <3> QED
      BY <3>1, <3>2, <3>3
  <2> QED
    BY <2>1, <2>2
<1> QED
  BY <1>1, <1>2, <1>3 DEF Places, Once

LEMMA PlacesDrop ==
  ASSUME Places, Once', UNCHANGED <<enqueued, started, done>>,
         NEW f \in Holders, NEW t \in Holds(f), t \in done, Holds(f)' = Holds(f) \ {t},
         \A h \in Holders \ {f} : Holds(h)' = Holds(h)
  PROVE  Places'
<1>1. \A h \in Holders : Holds(h)' \subseteq Holds(h)
  OBVIOUS
<1>2. ASSUME NEW u \in enqueued' \ done' PROVE \E h \in Holders : u \in Holds(h)'
  <2>1. PICK h \in Holders : u \in Holds(h)
    BY <1>2 DEF Places
  <2> QED
    BY <1>2, <2>1
<1>3. ASSUME NEW h \in Holders
      PROVE  Holds(h)' \subseteq enqueued' /\ (h[1] # "stack" => Holds(h)' \cap started' = {})
  BY <1>1 DEF Places
<1>4. ASSUME NEW h \in Holders, NEW k \in Holders, h # k PROVE Holds(h)' \cap Holds(k)' = {}
  <2>1. Holds(h) \cap Holds(k) = {}
    BY <1>4 DEF Places
  <2> QED
    BY <1>1, <2>1
<1> QED
  BY <1>2, <1>3, <1>4 DEF Places, Once

----------------------------------------------------------------------------
(* Where the innermost frame of a worker goes.                             *)

LEMMA TopFacts ==
  ASSUME Types, Shape, Places, NEW w \in Workers, stack[w] # <<>>
  PROVE  /\ 1 \in DOMAIN stack[w] /\ Top(w) \in Frames /\ Top(w).task \in Tasks /\ Top(w).i \in Nat
         /\ Top(w).at \in Labels \ {"assertion"} /\ Fits(Top(w), started, completed, done)
         /\ Top(w).task \in enqueued /\ Top(w).task \in Holds(<<"stack", w, 0>>)
         /\ Jobs[Top(w).task] \in Seq(Tasks) /\ Successors[Top(w).task] \in Seq(Tasks)
         /\ Top(w).at \in {"schedule", "admit", "push"} =>
              Top(w).i \in DOMAIN Jobs[Top(w).task] /\ Job(w) \in Tasks /\ Job(w) \in ToSet(Jobs[Top(w).task])
         /\ Top(w).at \in {"decrement", "offer"} =>
              /\ Top(w).i \in DOMAIN Successors[Top(w).task] /\ Successor(w) \in Tasks
              /\ <<Top(w).task, Successor(w)>> \in Edges
<1>1. stack[w] \in Seq(Frames)
  BY DEF Types
<1>2. 1 \in DOMAIN stack[w]
  BY <1>1
<1>3. Top(w) \in Frames /\ Top(w).task \in enqueued /\ Top(w).task \in Holds(<<"stack", w, 0>>)
  BY <1>2, FrameFacts DEF Top
<1>4. Top(w).task \in Tasks /\ Top(w).i \in Nat /\ Top(w).at \in Labels \ {"assertion"}
  BY <1>3 DEF Frames
<1>5. Fits(Top(w), started, completed, done)
  BY <1>2 DEF Shape, Top
<1>6. Jobs[Top(w).task] \in Seq(Tasks) /\ Successors[Top(w).task] \in Seq(Tasks)
  BY <1>4, JobAssumption, GraphAssumption
<1>7. ASSUME Top(w).at \in {"schedule", "admit", "push"}
      PROVE  Top(w).i \in DOMAIN Jobs[Top(w).task] /\ Job(w) \in Tasks /\ Job(w) \in ToSet(Jobs[Top(w).task])
  <2>1. Top(w).i \in DOMAIN Jobs[Top(w).task]
    BY <1>5, <1>7 DEF Fits
  <2>2. \A s \in Seq(Tasks) : \A i \in DOMAIN s : s[i] \in Tasks /\ s[i] \in ToSet(s)
    BY DEF ToSet
  <2> QED
    BY <1>6, <2>1, <2>2 DEF Job
<1>8. ASSUME Top(w).at \in {"decrement", "offer"}
      PROVE  /\ Top(w).i \in DOMAIN Successors[Top(w).task] /\ Successor(w) \in Tasks
             /\ <<Top(w).task, Successor(w)>> \in Edges
  <2>1. Top(w).i \in DOMAIN Successors[Top(w).task]
    BY <1>5, <1>8 DEF Fits
  <2>2. \A s \in Seq(Tasks) : \A i \in DOMAIN s : s[i] \in Tasks /\ s[i] \in ToSet(s)
    BY DEF ToSet
  <2>3. Successor(w) \in Tasks /\ Successor(w) \in ToSet(Successors[Top(w).task])
    BY <1>6, <2>1, <2>2 DEF Successor
  <2>4. <<Top(w).task, Successor(w)>> \in Tasks \X Tasks
    BY <1>4, <2>3
  <2> QED
    BY <2>1, <2>3, <2>4 DEF Edges
<1> QED
  BY <1>2, <1>3, <1>4, <1>5, <1>6, <1>7, <1>8

LEMMA NextJobFacts ==
  ASSUME Types, Shape, Places, NEW w \in Workers, stack[w] # <<>>, Top(w).at \in {"admit", "push"}, NextJob(w)
  PROVE  \/ TopAt(w, "schedule", Top(w).i + 1) /\ Top(w).i + 1 \in DOMAIN Jobs[Top(w).task]
         \/ TopAt(w, "wait", 1)
<1>1. /\ Top(w).i \in Nat /\ Top(w).i \in DOMAIN Jobs[Top(w).task] /\ Jobs[Top(w).task] \in Seq(Tasks)
  BY TopFacts
<1>2. {"schedule", "wait"} \subseteq Labels \ {"assertion"}
  BY DEF Labels
<1>3. CASE Top(w).i < Len(Jobs[Top(w).task])
  <2>1. Step(w, "schedule", Top(w).i + 1) /\ Top(w).i + 1 \in DOMAIN Jobs[Top(w).task] /\ Top(w).i + 1 \in Nat
    BY <1>1, <1>3 DEF NextJob
  <2> QED
    BY <1>2, <2>1, StepFacts
<1>4. CASE ~(Top(w).i < Len(Jobs[Top(w).task]))
  <2>1. Step(w, "wait", 1)
    BY <1>4 DEF NextJob
  <2> QED
    BY <1>2, <2>1, StepFacts
<1> QED
  BY <1>3, <1>4

LEMMA NextSuccessorFacts ==
  ASSUME Types, Shape, Places, NEW w \in Workers, stack[w] # <<>>, Top(w).at \in {"decrement", "offer"}, NextSuccessor(w)
  PROVE  \/ TopAt(w, "decrement", Top(w).i + 1) /\ Top(w).i + 1 \in DOMAIN Successors[Top(w).task]
         \/ TopAt(w, "setDone", 1) /\ Top(w).i = Len(Successors[Top(w).task])
<1>1. /\ Top(w).i \in Nat /\ Top(w).i \in DOMAIN Successors[Top(w).task] /\ Successors[Top(w).task] \in Seq(Tasks)
  BY TopFacts
<1>2. {"decrement", "setDone"} \subseteq Labels \ {"assertion"}
  BY DEF Labels
<1>3. CASE Top(w).i < Len(Successors[Top(w).task])
  <2>1. /\ Step(w, "decrement", Top(w).i + 1) /\ Top(w).i + 1 \in DOMAIN Successors[Top(w).task] /\ Top(w).i + 1 \in Nat
    BY <1>1, <1>3 DEF NextSuccessor
  <2> QED
    BY <1>2, <2>1, StepFacts
<1>4. CASE ~(Top(w).i < Len(Successors[Top(w).task]))
  <2>1. Step(w, "setDone", 1)
    BY <1>4 DEF NextSuccessor
  <2>2. Top(w).i = Len(Successors[Top(w).task])
    BY <1>1, <1>4
  <2> QED
    BY <1>2, <2>1, <2>2, StepFacts
<1> QED
  BY <1>3, <1>4

\* A task runs once, and when it is ready.
LEMMA RunFacts ==
  ASSUME Types, Shape, Places, Readiness, NEW w \in Workers, Run(w)
  PROVE  /\ stack[w] # <<>> /\ Top(w).at = "run" /\ Top(w).task \in Tasks \ started /\ pending[Top(w).task] = 0
         /\ \/ Jobs[Top(w).task] = <<>> /\ TopAt(w, "working", 1)
            \/ 1 \in DOMAIN Jobs[Top(w).task] /\ TopAt(w, "schedule", 1)
<1>1. stack[w] # <<>> /\ Top(w).at = "run"
  BY DEF Run, At
<1>2. Top(w).task \in Tasks \ started
  BY <1>1, TopFacts DEF Fits
<1>3. pending[Top(w).task] = 0
  BY <1>1, TopFacts DEF Readiness
<1>4. Step(w, IF Jobs[Top(w).task] = <<>> THEN "working" ELSE "schedule", 1)
  BY <1>2, <1>3 DEF Run
<1>5. {"working", "schedule"} \subseteq Labels \ {"assertion"}
  BY DEF Labels
<1>6. CASE Jobs[Top(w).task] = <<>>
  <2>1. Step(w, "working", 1)
    BY <1>4, <1>6
  <2> QED
    BY <1>1, <1>2, <1>3, <1>5, <1>6, <2>1, StepFacts
<1>7. CASE Jobs[Top(w).task] # <<>>
  <2>1. Step(w, "schedule", 1)
    BY <1>4, <1>7
  <2>2. Jobs[Top(w).task] \in Seq(Tasks)
    BY <1>1, TopFacts
  <2>3. 1 \in DOMAIN Jobs[Top(w).task]
    BY <1>7, <2>2
  <2> QED
    BY <1>1, <1>2, <1>3, <1>5, <2>1, <2>3, StepFacts
<1> QED
  BY <1>6, <1>7

LEMMA ReturnFacts ==
  ASSUME Types, Shape, Places, NEW w \in Workers, Return(w)
  PROVE  /\ stack[w] # <<>> /\ Top(w).at \in {"working", "wait"}
         /\ Top(w).task \in started \ completed /\ ToSet(Jobs[Top(w).task]) \subseteq done
         /\ \/ Successors[Top(w).task] = <<>> /\ TopAt(w, "setDone", 1)
            \/ 1 \in DOMAIN Successors[Top(w).task] /\ TopAt(w, "decrement", 1)
<1>1. stack[w] # <<>> /\ Top(w).at \in {"working", "wait"}
  BY DEF Return, At
<1>2. Top(w).task \in started \ completed /\ (Top(w).at = "working" => Jobs[Top(w).task] = <<>>)
  BY <1>1, TopFacts DEF Fits
<1>3. ToSet(Jobs[Top(w).task]) \subseteq done
  BY <1>1, <1>2 DEF Return, At, ToSet
<1>4. Step(w, IF Successors[Top(w).task] = <<>> THEN "setDone" ELSE "decrement", 1)
  BY DEF Return
<1>5. {"setDone", "decrement"} \subseteq Labels \ {"assertion"}
  BY DEF Labels
<1>6. CASE Successors[Top(w).task] = <<>>
  <2>1. Step(w, "setDone", 1)
    BY <1>4, <1>6
  <2> QED
    BY <1>1, <1>2, <1>3, <1>5, <1>6, <2>1, StepFacts
<1>7. CASE Successors[Top(w).task] # <<>>
  <2>1. Step(w, "decrement", 1)
    BY <1>4, <1>7
  <2>2. Successors[Top(w).task] \in Seq(Tasks)
    BY <1>1, TopFacts
  <2>3. 1 \in DOMAIN Successors[Top(w).task]
    BY <1>7, <2>2
  <2> QED
    BY <1>1, <1>2, <1>3, <1>5, <2>1, <2>3, StepFacts
<1> QED
  BY <1>6, <1>7

\* One job of a list, from its mark to its place in the queue.
LEMMA JobFacts ==
  ASSUME Types, Shape, Places, NEW w \in Workers
  PROVE  /\ ScheduleJob(w) => stack[w] # <<>> /\ Top(w).at = "schedule" /\ TopAt(w, "admit", Top(w).i)
         /\ AdmitJob(w) =>
              /\ stack[w] # <<>> /\ Top(w).at = "admit"
              /\ \/ pending[Job(w)] = 0 /\ TopAt(w, "push", Top(w).i)
                 \/ /\ pending[Job(w)] # 0
                    /\ \/ TopAt(w, "schedule", Top(w).i + 1) /\ Top(w).i + 1 \in DOMAIN Jobs[Top(w).task]
                       \/ TopAt(w, "wait", 1)
         /\ PushJob(w) =>
              /\ stack[w] # <<>> /\ Top(w).at = "push"
              /\ \/ TopAt(w, "schedule", Top(w).i + 1) /\ Top(w).i + 1 \in DOMAIN Jobs[Top(w).task]
                 \/ TopAt(w, "wait", 1)
<1>1. {"admit", "push"} \subseteq Labels \ {"assertion"}
  BY DEF Labels
<1>2. ASSUME ScheduleJob(w) PROVE stack[w] # <<>> /\ Top(w).at = "schedule" /\ TopAt(w, "admit", Top(w).i)
  <2>1. stack[w] # <<>> /\ Top(w).at = "schedule" /\ Step(w, "admit", Top(w).i)
    BY <1>2 DEF ScheduleJob, At
  <2> QED
    BY <1>1, <2>1, TopFacts, StepFacts
<1>3. ASSUME AdmitJob(w)
      PROVE  /\ stack[w] # <<>> /\ Top(w).at = "admit"
             /\ \/ pending[Job(w)] = 0 /\ TopAt(w, "push", Top(w).i)
                \/ /\ pending[Job(w)] # 0
                   /\ \/ TopAt(w, "schedule", Top(w).i + 1) /\ Top(w).i + 1 \in DOMAIN Jobs[Top(w).task]
                      \/ TopAt(w, "wait", 1)
  <2>1. stack[w] # <<>> /\ Top(w).at = "admit"
    BY <1>3 DEF AdmitJob, At
  <2>2. CASE pending[Job(w)] = 0
    <3>1. Step(w, "push", Top(w).i)
      BY <1>3, <2>2 DEF AdmitJob
    <3> QED
      BY <1>1, <2>1, <2>2, <3>1, TopFacts, StepFacts
  <2>3. CASE pending[Job(w)] # 0
    <3>1. NextJob(w)
      BY <1>3, <2>3 DEF AdmitJob
    <3> QED
      BY <2>1, <2>3, <3>1, NextJobFacts
  <2> QED
    BY <2>2, <2>3
<1>4. ASSUME PushJob(w)
      PROVE  /\ stack[w] # <<>> /\ Top(w).at = "push"
             /\ \/ TopAt(w, "schedule", Top(w).i + 1) /\ Top(w).i + 1 \in DOMAIN Jobs[Top(w).task]
                \/ TopAt(w, "wait", 1)
  <2>1. stack[w] # <<>> /\ Top(w).at = "push" /\ NextJob(w)
    BY <1>4 DEF PushJob, At
  <2> QED
    BY <2>1, NextJobFacts
<1> QED
  BY <1>2, <1>3, <1>4

\* One successor of a list, and the end of a task.
LEMMA SuccessorFacts ==
  ASSUME Types, Shape, Places, NEW w \in Workers
  PROVE  /\ Decrement(w) =>
              /\ stack[w] # <<>> /\ Top(w).at = "decrement"
              /\ \/ pending[Successor(w)] = 1 /\ TopAt(w, "offer", Top(w).i)
                 \/ /\ pending[Successor(w)] # 1
                    /\ \/ TopAt(w, "decrement", Top(w).i + 1) /\ Top(w).i + 1 \in DOMAIN Successors[Top(w).task]
                       \/ TopAt(w, "setDone", 1) /\ Top(w).i = Len(Successors[Top(w).task])
         /\ Offer(w) =>
              /\ stack[w] # <<>> /\ Top(w).at = "offer"
              /\ \/ TopAt(w, "decrement", Top(w).i + 1) /\ Top(w).i + 1 \in DOMAIN Successors[Top(w).task]
                 \/ TopAt(w, "setDone", 1) /\ Top(w).i = Len(Successors[Top(w).task])
         /\ SetDone(w) => /\ stack[w] # <<>> /\ Top(w).at = "setDone" /\ TopAt(w, "count", 1)
                          /\ Top(w).task \in completed \ done
         /\ CountFinished(w) => stack[w] # <<>> /\ Top(w).at = "count" /\ Left(w) /\ Top(w).task \in done
<1>1. {"offer", "count"} \subseteq Labels \ {"assertion"}
  BY DEF Labels
<1>2. ASSUME Decrement(w)
      PROVE  /\ stack[w] # <<>> /\ Top(w).at = "decrement"
             /\ \/ pending[Successor(w)] = 1 /\ TopAt(w, "offer", Top(w).i)
                \/ /\ pending[Successor(w)] # 1
                   /\ \/ TopAt(w, "decrement", Top(w).i + 1) /\ Top(w).i + 1 \in DOMAIN Successors[Top(w).task]
                      \/ TopAt(w, "setDone", 1) /\ Top(w).i = Len(Successors[Top(w).task])
  <2>1. stack[w] # <<>> /\ Top(w).at = "decrement"
    BY <1>2 DEF Decrement, At
  <2>2. CASE pending[Successor(w)] = 1
    <3>1. Step(w, "offer", Top(w).i)
      BY <1>2, <2>2 DEF Decrement
    <3> QED
      BY <1>1, <2>1, <2>2, <3>1, TopFacts, StepFacts
  <2>3. CASE pending[Successor(w)] # 1
    <3>1. NextSuccessor(w)
      BY <1>2, <2>3 DEF Decrement
    <3> QED
      BY <2>1, <2>3, <3>1, NextSuccessorFacts
  <2> QED
    BY <2>2, <2>3
<1>3. ASSUME Offer(w)
      PROVE  /\ stack[w] # <<>> /\ Top(w).at = "offer"
             /\ \/ TopAt(w, "decrement", Top(w).i + 1) /\ Top(w).i + 1 \in DOMAIN Successors[Top(w).task]
                \/ TopAt(w, "setDone", 1) /\ Top(w).i = Len(Successors[Top(w).task])
  <2>1. stack[w] # <<>> /\ Top(w).at = "offer" /\ NextSuccessor(w)
    BY <1>3 DEF Offer, At
  <2> QED
    BY <2>1, NextSuccessorFacts
<1>4. ASSUME SetDone(w)
      PROVE  stack[w] # <<>> /\ Top(w).at = "setDone" /\ TopAt(w, "count", 1) /\ Top(w).task \in completed \ done
  <2>1. stack[w] # <<>> /\ Top(w).at = "setDone" /\ Step(w, "count", 1)
    BY <1>4 DEF SetDone, At
  <2>2. Top(w).task \in completed \ done
    BY <2>1, TopFacts DEF Fits
  <2> QED
    BY <1>1, <2>1, <2>2, StepFacts
<1>5. ASSUME CountFinished(w) PROVE stack[w] # <<>> /\ Top(w).at = "count" /\ Left(w) /\ Top(w).task \in done
  <2>1. stack[w] # <<>> /\ Top(w).at = "count" /\ stack' = [stack EXCEPT ![w] = Tail(@)]
    BY <1>5 DEF CountFinished, At
  <2> QED
    BY <2>1, LeaveFacts, TopFacts DEF Fits
<1> QED
  BY <1>2, <1>3, <1>4, <1>5

LEMMA Others ==
  ASSUME NEW v \in Workers, stack'[v] = stack[v]
  PROVE  Top(v)' = Top(v) /\ Job(v)' = Job(v) /\ Successor(v)' = Successor(v) /\ \A l : At(v, l)' <=> At(v, l)
  BY DEF Top, Job, Successor, At

\* A worker takes a task from somewhere.
Source(w) ==
  /\ stack[w] = <<>> \/ Top(w).at = "wait"
  /\ UNCHANGED <<taskVars, finished, taskCounter, active, clientVars>>

LEMMA TakeFacts ==
  ASSUME Types, Shape, Places, NEW w \in Workers, TakeNextTask(w)
  PROVE  /\ Source(w) /\ nextTask[w] \in Tasks /\ Entered(w, nextTask[w])
         /\ nextTask' = [nextTask EXCEPT ![w] = None] /\ UNCHANGED <<queue, stolen>>
<1>1. nextTask[w] \in Tasks
  BY DEF TakeNextTask, Types
<1>2. Source(w) /\ nextTask' = [nextTask EXCEPT ![w] = None] /\ UNCHANGED <<queue, stolen>>
  BY DEF TakeNextTask, LooksForTask, Source
<1>3. Enter(w, nextTask[w])
  BY DEF TakeNextTask
<1> QED
  BY <1>1, <1>2, <1>3, EnterFacts

\* The first task of a queue that is not empty.
LEMMA QueueFacts ==
  ASSUME Types, Places, NEW n \in Nodes, NEW p \in Priorities, queue[n][p] # <<>>
  PROVE  /\ queue[n][p] \in Seq(Tasks)
         /\ Head(queue[n][p]) \in Tasks /\ Head(queue[n][p]) \in ToSet(queue[n][p]) /\ Tail(queue[n][p]) \in Seq(Tasks)
         /\ ToSet(Tail(queue[n][p])) = ToSet(queue[n][p]) \ {Head(queue[n][p])} /\ IsInjective(Tail(queue[n][p]))
<1>1. queue[n][p] \in Seq(Tasks) /\ IsInjective(queue[n][p])
  BY DEF Types, Places
<1> QED
  BY <1>1, TailSet

\* Head(queue[n][p]) goes to w's stack or, if it must not be stolen, to stolen[w].
Taken(w, n, p) ==
  /\ queue[n][p] # <<>> /\ UNCHANGED nextTask
  /\ queue' = [queue EXCEPT ![n][p] = Tail(@)]
  /\ \/ Entered(w, Head(queue[n][p])) /\ UNCHANGED stolen
     \/ /\ Head(queue[n][p]) \notin Stealable /\ stolen[w] = None
        /\ stolen' = [stolen EXCEPT ![w] = [task |-> Head(queue[n][p]), node |-> n, priority |-> p]]
        /\ UNCHANGED stack

LEMMA PullFacts ==
  ASSUME Types, Shape, Places, NEW w \in Workers, Pull(w) \/ Steal(w)
  PROVE  Source(w) /\ \E n \in Nodes, p \in Priorities : Taken(w, n, p)
<1>1. CASE Pull(w)
  <2> DEFINE n == NodeOf[w]
             p == FirstPriority(n)
  <2>1. n \in Nodes /\ p \in Priorities /\ queue[n][p] # <<>>
    BY <1>1, TopologyAssumption DEF Pull, Empty, FirstPriority, Priorities
  <2>2. Enter(w, Head(queue[n][p]))
    BY <1>1 DEF Pull, FirstTask
  <2>3. Entered(w, Head(queue[n][p]))
    BY <2>1, <2>2, QueueFacts, EnterFacts
  <2>4. queue' = [queue EXCEPT ![n][p] = Tail(@)] /\ UNCHANGED <<nextTask, stolen>>
    BY <1>1 DEF Pull
  <2>5. Source(w)
    BY <1>1 DEF Pull, LooksForTask, Source
  <2> QED
    BY <2>1, <2>3, <2>4, <2>5 DEF Taken
<1>2. CASE Steal(w)
  <2>1. PICK n \in Nodes, p \in Priorities :
          /\ queue[n][p] # <<>>
          /\ IF Head(queue[n][p]) \in Stealable
             THEN Enter(w, Head(queue[n][p])) /\ UNCHANGED stolen
             ELSE /\ stolen' = [stolen EXCEPT ![w] = [task |-> Head(queue[n][p]), node |-> n, priority |-> p]]
                  /\ UNCHANGED stack
          /\ queue' = [queue EXCEPT ![n][p] = Tail(@)]
    BY <1>2 DEF Steal, Priorities
  <2>2. Head(queue[n][p]) \in Stealable => Entered(w, Head(queue[n][p]))
    BY <2>1, QueueFacts, EnterFacts
  <2>3. Source(w) /\ UNCHANGED nextTask /\ stolen[w] = None
    BY <1>2 DEF Steal, LooksForTask, Source
  <2> QED
    BY <2>1, <2>2, <2>3 DEF Taken
<1> QED
  BY <1>1, <1>2

----------------------------------------------------------------------------
(* The lists of the client.                                                *)

LEMMA ListOf ==
  ASSUME NEW S, IsFiniteSet(S), NEW f \in SetToSeqs(S)
  PROVE  f \in Seq(S) /\ ToSet(f) = S /\ DOMAIN f = 1 .. Cardinality(S) /\ IsInjective(f) /\ Len(f) = Cardinality(S)
<1> DEFINE n == Cardinality(S)
<1>1. n \in Nat /\ IsFiniteSet(1 .. n) /\ Cardinality(1 .. n) = n
  BY FS_CardinalityType, FS_Interval
<1>2. f \in [1 .. n -> S] /\ \A i, j \in 1 .. n : i # j => f[i] # f[j]
  BY DEF SetToSeqs
<1>3. f \in Injection(1 .. n, S)
  BY <1>2 DEF Injection, IsInjective
<1>4. f \in Surjection(1 .. n, S)
  BY <1>1, <1>3, FS_Injection
<1>5. f \in Seq(S) /\ Len(f) = n /\ DOMAIN f = 1 .. n
  BY <1>1, <1>2
<1>6. \A x \in S : \E i \in 1 .. n : f[i] = x
  BY <1>4 DEF Surjection
<1>7. ToSet(f) = S
  BY <1>2, <1>5, <1>6 DEF ToSet
<1>8. IsInjective(f)
  BY <1>2, <1>5 DEF IsInjective
<1> QED
  BY <1>5, <1>7, <1>8

LEMMA BatchFacts ==
  ASSUME Course
  PROVE  /\ batch \in Seq(Tasks) /\ ToSet(batch) = Tasks \ Spawned /\ IsInjective(batch)
         /\ Len(batch) \in Nat /\ DOMAIN batch = 1 .. Len(batch)
         /\ \A i \in DOMAIN batch : batch[i] \in Tasks \ Spawned
         /\ client.at \in {"schedule", "admit", "push", "join"} =>
              client.i \in DOMAIN batch /\ client.i \in Nat /\ batch[client.i] \in Tasks \ Spawned
<1>1. IsFiniteSet(Tasks \ Spawned)
  BY GraphAssumption, FS_Difference
<1>2. batch \in SetToSeqs(Tasks \ Spawned)
  BY DEF Course
<1>3. /\ batch \in Seq(Tasks \ Spawned) /\ ToSet(batch) = Tasks \ Spawned /\ IsInjective(batch)
  BY <1>1, <1>2, ListOf
<1>4. /\ batch \in Seq(Tasks) /\ Len(batch) \in Nat /\ DOMAIN batch = 1 .. Len(batch)
      /\ \A i \in DOMAIN batch : batch[i] \in Tasks \ Spawned
  BY <1>3
<1>5. client.at \in {"schedule", "admit", "push", "join"} => client.i \in DOMAIN batch
  BY DEF Course
<1> QED
  BY <1>3, <1>4, <1>5

LEMMA WorkerFacts == WorkerList \in Seq(Workers) /\ IsInjective(WorkerList)
<1> DEFINE n == Cardinality(Workers)
<1>1. n \in Nat /\ ExistsBijection(1 .. n, Workers)
  BY TopologyAssumption, FS_CardinalityType
<1>2. \E f \in [1 .. n -> Workers] : IsInjective(f)
  BY <1>1 DEF ExistsBijection, Bijection, Injection, IsInjective
<1>3. WorkerList \in [1 .. n -> Workers] /\ IsInjective(WorkerList)
  BY <1>2 DEF WorkerList, SetToSeq
<1> HIDE DEF n
<1> QED
  BY <1>1, <1>3

----------------------------------------------------------------------------
(* Types.                                                                  *)

Core == Types /\ Shape /\ Places /\ Readiness /\ Scheduling /\ Course

\* One queue becomes s.
Becomes(n, p, s) ==
  /\ queue' \in [Nodes -> [Priorities -> Seq(Tasks)]] /\ queue'[n][p] = s
  /\ \A m \in Nodes, q \in Priorities : ~(m = n /\ q = p) => queue'[m][q] = queue[m][q]

LEMMA QueueUpdate ==
  ASSUME Types, NEW n \in Nodes, NEW p \in Priorities, NEW s \in Seq(Tasks), queue' = [queue EXCEPT ![n][p] = s]
  PROVE  Becomes(n, p, s)
<1>1. queue \in [Nodes -> [Priorities -> Seq(Tasks)]]
  BY DEF Types
<1>2. queue[n] \in [Priorities -> Seq(Tasks)] /\ queue' = [queue EXCEPT ![n] = [queue[n] EXCEPT ![p] = s]]
  BY <1>1
<1>3. [queue[n] EXCEPT ![p] = s] \in [Priorities -> Seq(Tasks)]
  BY <1>2
<1>4. /\ queue' \in [Nodes -> [Priorities -> Seq(Tasks)]] /\ queue'[n] = [queue[n] EXCEPT ![p] = s]
      /\ \A m \in Nodes : m # n => queue'[m] = queue[m]
  BY <1>1, <1>2, <1>3
<1>5. queue'[n][p] = s /\ \A q \in Priorities : q # p => queue'[n][q] = queue[n][q]
  BY <1>2, <1>4
<1> QED
  BY <1>4, <1>5 DEF Becomes

LEMMA PushFacts ==
  ASSUME Types, NEW n \in Nodes, NEW p \in Priorities, NEW t \in Tasks, PushTo(n, p, t)
  PROVE  /\ enqueued' = enqueued \cup {t} /\ UNCHANGED <<pending, scheduled, started, completed, done>>
         /\ \/ t \in enqueued /\ UNCHANGED queue
            \/ t \notin enqueued /\ Becomes(n, p, Append(queue[n][p], t))
         /\ queue' \in [Nodes -> [Priorities -> Seq(Tasks)]]
<1>1. enqueued' = enqueued \cup {t} /\ UNCHANGED <<pending, scheduled, started, completed, done>>
  BY DEF PushTo
<1>2. CASE t \in enqueued
  BY <1>1, <1>2 DEF PushTo, Types
<1>3. CASE t \notin enqueued
  <2>1. queue' = [queue EXCEPT ![n][p] = Append(queue[n][p], t)]
    BY <1>3 DEF PushTo
  <2>2. queue[n][p] \in Seq(Tasks)
    BY DEF Types
  <2>3. Append(queue[n][p], t) \in Seq(Tasks)
    BY <2>2
  <2>4. Becomes(n, p, Append(queue[n][p], t))
    BY <2>1, <2>3, QueueUpdate
  <2> QED
    BY <1>1, <1>3, <2>4 DEF Becomes
<1> QED
  BY <1>2, <1>3

LEMMA TakenFacts ==
  ASSUME Types, Places, NEW w \in Workers, NEW n \in Nodes, NEW p \in Priorities, Taken(w, n, p)
  PROVE  /\ Becomes(n, p, Tail(queue[n][p]))
         /\ \/ Entered(w, Head(queue[n][p])) /\ UNCHANGED stolen
            \/ /\ stolen[w] = None /\ UNCHANGED stack /\ stolen' \in [Workers -> Thefts \cup {None}]
               /\ stolen'[w] # None /\ stolen'[w].task = Head(queue[n][p])
               /\ \A v \in Workers \ {w} : stolen'[v] = stolen[v]
<1>1. queue[n][p] # <<>> /\ queue' = [queue EXCEPT ![n][p] = Tail(queue[n][p])]
  BY DEF Taken
<1>2. Tail(queue[n][p]) \in Seq(Tasks) /\ Head(queue[n][p]) \in Tasks
  BY <1>1, QueueFacts
<1>3. Becomes(n, p, Tail(queue[n][p]))
  BY <1>1, <1>2, QueueUpdate
<1>4. CASE Entered(w, Head(queue[n][p])) /\ UNCHANGED stolen
  BY <1>3, <1>4
<1>5. CASE ~(Entered(w, Head(queue[n][p])) /\ UNCHANGED stolen)
  <2> DEFINE t == Head(queue[n][p])
             r == [task |-> t, node |-> n, priority |-> p]
  <2>1. /\ t \notin Stealable /\ stolen[w] = None /\ stolen' = [stolen EXCEPT ![w] = r] /\ UNCHANGED stack
    BY <1>5 DEF Taken
  <2>2. r \in Thefts /\ r \in [task : Tasks, node : Nodes, priority : {High, Default}] /\ r.task = t
    BY <1>2, <2>1 DEF Thefts, Priorities
  <2>3. r # None
    BY <2>2, NullAssumption
  <2>4. stolen \in [Workers -> Thefts \cup {None}]
    BY DEF Types
  <2> HIDE DEF r
  <2>5. stolen' \in [Workers -> Thefts \cup {None}] /\ stolen'[w] = r /\ \A v \in Workers \ {w} : stolen'[v] = stolen[v]
    BY <2>1, <2>2, <2>4
  <2> QED
    BY <1>3, <2>1, <2>2, <2>3, <2>5
<1> QED
  BY <1>4, <1>5

\* A thief's task goes back.
LEMMA PutBackFacts ==
  ASSUME Types, NEW w \in Workers, PutBack(w)
  PROVE  \E n \in Nodes, p \in Priorities :
           /\ stolen[w] # None /\ stolen[w].task \in Tasks
           /\ Becomes(n, p, Append(queue[n][p], stolen[w].task))
           /\ stolen'[w] = None /\ stolen' \in [Workers -> Thefts \cup {None}]
           /\ \A v \in Workers \ {w} : stolen'[v] = stolen[v]
<1>1. stolen[w] # None /\ stolen \in [Workers -> Thefts \cup {None}]
  BY DEF PutBack, Types
<1>2. stolen[w] \in Thefts
  BY <1>1
<1> DEFINE n == stolen[w].node
           p == stolen[w].priority
           t == stolen[w].task
<1>3. n \in Nodes /\ p \in Priorities /\ t \in Tasks
  BY <1>2 DEF Thefts
<1>4. queue' = [queue EXCEPT ![n][p] = Append(queue[n][p], t)]
  BY DEF PutBack
<1>5. stolen' = [stolen EXCEPT ![w] = None]
  BY DEF PutBack
<1> HIDE DEF n, p
<1>6. Append(queue[n][p], t) \in Seq(Tasks)
  <2>1. queue[n][p] \in Seq(Tasks)
    BY <1>3 DEF Types
  <2> QED
    BY <1>3, <2>1
<1>7. Becomes(n, p, Append(queue[n][p], t))
  BY <1>3, <1>4, <1>6, QueueUpdate
<1>8. stolen'[w] = None /\ stolen' \in [Workers -> Thefts \cup {None}] /\ \A v \in Workers \ {w} : stolen'[v] = stolen[v]
  BY <1>1, <1>5
<1> QED
  BY <1>1, <1>3, <1>7, <1>8

LEMMA OwingFinite ==
  ASSUME NEW t \in Tasks
  PROVE  Owing(t) \subseteq Tasks /\ IsFiniteSet(Owing(t)) /\ Cardinality(Owing(t)) \in Nat
         /\ Cardinality(Owing(t)) <= Cardinality(Tasks)
<1>1. Owing(t) \subseteq Tasks
  BY DEF Owing
<1> QED
  BY <1>1, GraphAssumption, FS_Subset, FS_CardinalityType

LEMMA DecrementOwing ==
  ASSUME Core, NEW w \in Workers, stack[w] # <<>>, Top(w).at = "decrement"
  PROVE  Top(w).task \in Owing(Successor(w)) /\ pending[Successor(w)] >= 1
<1>1. /\ Top(w).task \in Tasks /\ <<Top(w).task, Successor(w)>> \in Edges /\ Successor(w) \in Tasks
      /\ Top(w).i \in DOMAIN Successors[Top(w).task] /\ Top(w).i \in Nat
  BY TopFacts DEF Core
<1>2. Owes(Top(w), Successor(w))
  BY <1>1 DEF Owes, Successor
<1>3. Top(w).task \in Owing(Successor(w))
  BY <1>1, <1>2 DEF Owing, Owed, OwedBy
<1>4. Cardinality(Owing(Successor(w))) # 0
  BY <1>1, <1>3, OwingFinite, FS_EmptySet
<1>5. pending[Successor(w)] = Cardinality(Owing(Successor(w)))
  BY <1>1 DEF Core, Readiness
<1> QED
  BY <1>1, <1>3, <1>4, <1>5, OwingFinite

LEMMA TypesNext == ASSUME Core, [Next]_vars PROVE Types'
<1> USE DEF Core
<1>1. CASE UNCHANGED vars
  BY <1>1 DEF Types, vars, taskVars, queueVars, Frames, Thefts
<1>2. CASE ClientSchedule
  <2>1. batch[client.i] \in Tasks
    BY <1>2, BatchFacts DEF ClientSchedule, Client
  <2> QED
    BY <1>2, <2>1 DEF ClientSchedule, Client, MarkAsScheduled, Types, queueVars
<1>3. CASE ClientAdmit
  BY <1>3 DEF ClientAdmit, Client, Admit, Types, taskVars, queueVars
<1>4. CASE ClientPush
  <2>1. batch[client.i] \in Tasks /\ batch[client.i] \in scheduled /\ FirstNode \in Nodes /\ Default \in Priorities
    BY <1>4, BatchFacts, TopologyAssumption DEF ClientPush, Client, Priorities, Scheduling, Marked
  <2>2. PushTo(FirstNode, Default, batch[client.i]) /\ UNCHANGED <<nextTask, stolen, finished, taskCounter, stack>>
    BY <1>4 DEF ClientPush, Client
  <2>3. /\ enqueued' = enqueued \cup {batch[client.i]} /\ UNCHANGED <<pending, scheduled, started, completed, done>>
        /\ queue' \in [Nodes -> [Priorities -> Seq(Tasks)]]
    BY <2>1, <2>2, PushFacts
  <2> QED
    BY <2>1, <2>2, <2>3 DEF Types
<1>5. CASE ClientJoin \/ SumFinished \/ Deactivate
  BY <1>5 DEF ClientJoin, SumFinished, Deactivate, Client, Types, taskVars, queueVars
<1>6. ASSUME NEW w \in Workers, TakeNextTask(w) PROVE Types'
  <2>1. /\ stack' \in [Workers -> Seq(Frames)] /\ nextTask' = [nextTask EXCEPT ![w] = None] /\ UNCHANGED <<queue, stolen>>
        /\ UNCHANGED <<taskVars, finished, taskCounter>>
    BY <1>6, TakeFacts DEF Entered, Source
  <2>2. nextTask' \in [Workers -> Tasks \cup {None}]
    BY <2>1 DEF Types
  <2> QED
    BY <2>1, <2>2 DEF Types, taskVars
<1>7. ASSUME NEW w \in Workers, Pull(w) \/ Steal(w) PROVE Types'
  <2>1. PICK n \in Nodes, p \in Priorities : Taken(w, n, p) /\ Source(w)
    BY <1>7, PullFacts
  <2>2. queue' \in [Nodes -> [Priorities -> Seq(Tasks)]]
    BY <2>1, TakenFacts DEF Becomes
  <2>3. stack' \in [Workers -> Seq(Frames)] /\ stolen' \in [Workers -> Thefts \cup {None}]
    BY <2>1, TakenFacts DEF Entered, Types
  <2> QED
    BY <2>1, <2>2, <2>3 DEF Types, Source, Taken, taskVars
<1>8. ASSUME NEW w \in Workers, PutBack(w) PROVE Types'
  <2>1. queue' \in [Nodes -> [Priorities -> Seq(Tasks)]] /\ stolen' \in [Workers -> Thefts \cup {None}]
    BY <1>8, PutBackFacts DEF Becomes
  <2> QED
    BY <1>8, <2>1 DEF PutBack, Types, taskVars
<1>9. ASSUME NEW w \in Workers, Run(w) PROVE Types'
  <2>1. Top(w).task \in enqueued /\ stack' \in [Workers -> Seq(Frames)]
    BY <1>9, RunFacts, TopFacts DEF TopAt
  <2> QED
    BY <1>9, <2>1 DEF Run, Types, queueVars
<1>10. ASSUME NEW w \in Workers, ScheduleJob(w) PROVE Types'
  <2>1. Job(w) \in Tasks /\ stack' \in [Workers -> Seq(Frames)]
    BY <1>10, JobFacts, TopFacts DEF TopAt
  <2> QED
    BY <1>10, <2>1 DEF ScheduleJob, MarkAsScheduled, Types, queueVars
<1>11. ASSUME NEW w \in Workers, AdmitJob(w) PROVE Types'
  <2>1. stack' \in [Workers -> Seq(Frames)]
    BY <1>11, JobFacts DEF TopAt
  <2> QED
    BY <1>11, <2>1 DEF AdmitJob, Admit, Types, taskVars, queueVars
<1>12. ASSUME NEW w \in Workers, PushJob(w) PROVE Types'
  <2>1. stack' \in [Workers -> Seq(Frames)] /\ Job(w) \in Tasks /\ At(w, "push")
    BY <1>12, JobFacts, TopFacts DEF TopAt, At
  <2>2. NodeOf[w] \in Nodes /\ Default \in Priorities /\ Job(w) \in scheduled
    BY <2>1, TopologyAssumption DEF Priorities, Scheduling, Marked
  <2>3. PushTo(NodeOf[w], Default, Job(w)) /\ UNCHANGED <<nextTask, stolen, finished, taskCounter>>
    BY <1>12 DEF PushJob
  <2>4. /\ enqueued' = enqueued \cup {Job(w)} /\ UNCHANGED <<pending, scheduled, started, completed, done>>
        /\ queue' \in [Nodes -> [Priorities -> Seq(Tasks)]]
    BY <2>1, <2>2, <2>3, PushFacts
  <2> QED
    BY <2>1, <2>2, <2>3, <2>4 DEF Types
<1>13. ASSUME NEW w \in Workers, Return(w) PROVE Types'
  <2>1. Top(w).task \in started /\ stack' \in [Workers -> Seq(Frames)]
    BY <1>13, ReturnFacts DEF TopAt
  <2> QED
    BY <1>13, <2>1 DEF Return, Types, queueVars
<1>14. ASSUME NEW w \in Workers, Decrement(w) PROVE Types'
  <2>1. /\ Successor(w) \in Tasks /\ pending[Successor(w)] >= 1 /\ stack' \in [Workers -> Seq(Frames)]
    BY <1>14, SuccessorFacts, TopFacts, DecrementOwing DEF TopAt
  <2>2. pending' = [pending EXCEPT ![Successor(w)] = @ - 1]
    BY <1>14 DEF Decrement
  <2>3. pending' \in [Tasks -> Nat]
    BY <2>1, <2>2 DEF Types
  <2> QED
    BY <1>14, <2>1, <2>3 DEF Decrement, Types, queueVars
<1>15. ASSUME NEW w \in Workers, Offer(w) PROVE Types'
  <2> DEFINE s == Successor(w)
  <2>1. s \in Tasks /\ stack' \in [Workers -> Seq(Frames)] /\ NodeOf[w] \in Nodes /\ High \in Priorities
    BY <1>15, SuccessorFacts, TopFacts, TopologyAssumption DEF TopAt, Priorities
  <2>2. UNCHANGED <<finished, taskCounter>>
    BY <1>15 DEF Offer
  <2>3. CASE s \notin scheduled
    <3>1. UNCHANGED <<taskVars, queueVars>>
      BY <1>15, <2>3 DEF Offer
    <3> QED
      BY <2>1, <2>2, <3>1 DEF Types, taskVars, queueVars
  <2>4. CASE s \in scheduled /\ nextTask[w] # None
    <3>1. PushTo(NodeOf[w], High, s) /\ UNCHANGED <<nextTask, stolen>>
      BY <1>15, <2>4 DEF Offer
    <3>2. /\ enqueued' = enqueued \cup {s} /\ UNCHANGED <<pending, scheduled, started, completed, done>>
          /\ queue' \in [Nodes -> [Priorities -> Seq(Tasks)]]
      BY <2>1, <3>1, PushFacts
    <3> QED
      BY <2>1, <2>2, <2>4, <3>1, <3>2 DEF Types
  <2>5. CASE s \in scheduled /\ nextTask[w] = None
    <3>1. /\ nextTask' = IF s \in enqueued THEN nextTask ELSE [nextTask EXCEPT ![w] = s]
          /\ enqueued' = enqueued \cup {s}
          /\ UNCHANGED <<pending, scheduled, started, completed, done, queue, stolen>>
      BY <1>15, <2>5 DEF Offer
    <3>2. nextTask' \in [Workers -> Tasks \cup {None}]
      BY <2>1, <3>1 DEF Types
    <3> QED
      BY <2>1, <2>2, <2>5, <3>1, <3>2 DEF Types
  <2> QED
    BY <2>3, <2>4, <2>5
<1>16. ASSUME NEW w \in Workers, SetDone(w) PROVE Types'
  <2>1. Top(w).task \in completed /\ stack' \in [Workers -> Seq(Frames)]
    BY <1>16, SuccessorFacts DEF TopAt
  <2> QED
    BY <1>16, <2>1 DEF SetDone, Types, queueVars
<1>17. ASSUME NEW w \in Workers, CountFinished(w) PROVE Types'
  <2>1. stack' \in [Workers -> Seq(Frames)]
    BY <1>17, SuccessorFacts DEF Left
  <2>2. finished' = [finished EXCEPT ![w] = @ + 1]
    BY <1>17 DEF CountFinished
  <2>3. finished' \in [Workers -> Nat]
    BY <2>2 DEF Types
  <2> QED
    BY <1>17, <2>1, <2>3 DEF CountFinished, Types, taskVars, queueVars
<1> QED
  BY <1>1, <1>2, <1>3, <1>4, <1>5, <1>6, <1>7, <1>8, <1>9, <1>10, <1>11, <1>12, <1>13, <1>14, <1>15, <1>16, <1>17
     DEF Next, ClientThread, Worker, Finished

\* What becomes of a successor whose last predecessor has returned.
LEMMA OfferFacts ==
  ASSUME Types, Shape, Places, NEW w \in Workers, Offer(w)
  PROVE  /\ Successor(w) \in Tasks
         /\ UNCHANGED <<pending, scheduled, started, completed, done, stolen, finished, taskCounter, active, clientVars>>
         /\ \/ Successor(w) \notin scheduled /\ UNCHANGED <<enqueued, queue, nextTask>>
            \/ Successor(w) \in enqueued /\ UNCHANGED <<enqueued, queue, nextTask>>
            \/ /\ Successor(w) \in scheduled \ enqueued /\ enqueued' = enqueued \cup {Successor(w)}
               /\ nextTask[w] = None /\ nextTask'[w] = Successor(w) /\ UNCHANGED queue
               /\ \A v \in Workers \ {w} : nextTask'[v] = nextTask[v]
            \/ /\ Successor(w) \in scheduled \ enqueued /\ enqueued' = enqueued \cup {Successor(w)}
               /\ UNCHANGED nextTask /\ Becomes(NodeOf[w], High, Append(queue[NodeOf[w]][High], Successor(w)))
<1> DEFINE s == Successor(w)
<1>1. s \in Tasks /\ NodeOf[w] \in Nodes /\ High \in Priorities
  BY SuccessorFacts, TopFacts, TopologyAssumption DEF Priorities
<1>2. UNCHANGED <<finished, taskCounter, active, clientVars>>
  BY DEF Offer, WorkerOnly
<1>3. CASE s \notin scheduled
  <2>1. UNCHANGED <<taskVars, queueVars>>
    BY <1>3 DEF Offer
  <2> QED
    BY <1>1, <1>2, <1>3, <2>1 DEF taskVars, queueVars
<1>4. CASE s \in scheduled /\ nextTask[w] # None
  <2>1. PushTo(NodeOf[w], High, s) /\ UNCHANGED <<nextTask, stolen>>
    BY <1>4 DEF Offer
  <2>2. /\ enqueued' = enqueued \cup {s} /\ UNCHANGED <<pending, scheduled, started, completed, done>>
        /\ \/ s \in enqueued /\ UNCHANGED queue
           \/ s \notin enqueued /\ Becomes(NodeOf[w], High, Append(queue[NodeOf[w]][High], s))
    BY <1>1, <2>1, PushFacts
  <2>3. CASE s \in enqueued
    <3>1. enqueued' = enqueued /\ UNCHANGED queue
      BY <2>2, <2>3
    <3> QED
      BY <1>1, <1>2, <2>1, <2>2, <2>3, <3>1
  <2>4. CASE s \notin enqueued
    BY <1>1, <1>2, <1>4, <2>1, <2>2, <2>4
  <2> QED
    BY <2>3, <2>4
<1>5. CASE s \in scheduled /\ nextTask[w] = None
  <2>1. /\ nextTask' = IF s \in enqueued THEN nextTask ELSE [nextTask EXCEPT ![w] = s]
        /\ enqueued' = enqueued \cup {s}
        /\ UNCHANGED <<pending, scheduled, started, completed, done, queue, stolen>>
    BY <1>5 DEF Offer
  <2>2. nextTask \in [Workers -> Tasks \cup {None}]
    BY DEF Types
  <2>3. CASE s \in enqueued
    <3>1. enqueued' = enqueued /\ UNCHANGED nextTask
      BY <2>1, <2>3
    <3> QED
      BY <1>1, <1>2, <2>1, <2>3, <3>1
  <2>4. CASE s \notin enqueued
    <3>1. nextTask'[w] = s /\ \A v \in Workers \ {w} : nextTask'[v] = nextTask[v]
      BY <2>1, <2>2, <2>4
    <3> QED
      BY <1>1, <1>2, <1>5, <2>1, <2>4, <3>1
  <2> QED
    BY <2>3, <2>4
<1> QED
  BY <1>3, <1>4, <1>5

LEMMA ShapeNext == ASSUME Core, [Next]_vars PROVE Shape'
<1> USE DEF Core
<1>1. CASE UNCHANGED <<stack, started, completed, done>>
  BY <1>1 DEF Shape
<1>2. CASE UNCHANGED vars
  BY <1>1, <1>2 DEF vars, taskVars
<1>3. CASE ClientThread
  BY <1>1, <1>3 DEF ClientThread, ClientSchedule, ClientAdmit, ClientPush, ClientJoin, SumFinished, Deactivate,
                    Client, MarkAsScheduled, Admit, PushTo, taskVars
<1>4. ASSUME NEW w \in Workers, NEW t \in Tasks, NEW h \in Holders, h[1] # "stack", t \in Holds(h), Entered(w, t), Source(w)
      PROVE  Shape'
  <2>1. t \notin started
    BY <1>4 DEF Places
  <2> QED
    BY <1>4, <2>1, ShapeEnter DEF Source, taskVars
<1>5. ASSUME NEW w \in Workers, TakeNextTask(w) PROVE Shape'
  <2>1. nextTask[w] \in Tasks /\ Entered(w, nextTask[w]) /\ Source(w)
    BY <1>5, TakeFacts
  <2>2. <<"next", w, 0>> \in Holders /\ Holds(<<"next", w, 0>>) = {nextTask[w]} \ {None}
    BY HoldsOf
  <2>3. nextTask[w] \in Holds(<<"next", w, 0>>) /\ <<"next", w, 0>>[1] # "stack"
    BY <2>1, <2>2, NullAssumption
  <2> QED
    BY <1>4, <2>1, <2>2, <2>3
<1>6. ASSUME NEW w \in Workers, Pull(w) \/ Steal(w) PROVE Shape'
  <2>1. PICK n \in Nodes, p \in Priorities : Taken(w, n, p) /\ Source(w)
    BY <1>6, PullFacts
  <2>2. Head(queue[n][p]) \in Tasks /\ Head(queue[n][p]) \in ToSet(queue[n][p])
    BY <2>1, QueueFacts DEF Taken
  <2>3. <<"queue", n, p>> \in Holders /\ Head(queue[n][p]) \in Holds(<<"queue", n, p>>) /\ <<"queue", n, p>>[1] # "stack"
    BY <2>2, HoldsOf
  <2>4. CASE Entered(w, Head(queue[n][p]))
    BY <1>4, <2>1, <2>2, <2>3, <2>4
  <2>5. CASE ~Entered(w, Head(queue[n][p]))
    <3>1. UNCHANGED stack
      BY <2>1, <2>5, TakenFacts
    <3> QED
      BY <1>1, <2>1, <3>1 DEF Source, taskVars
  <2> QED
    BY <2>4, <2>5
<1>7. ASSUME NEW w \in Workers, PutBack(w) PROVE Shape'
  BY <1>1, <1>7 DEF PutBack, taskVars
<1>8. ASSUME NEW w \in Workers, Run(w) PROVE Shape'
  <2>1. /\ 1 \in DOMAIN stack[w] /\ Fits(Top(w), started, completed, done) /\ Top(w).at = "run"
    BY <1>8, RunFacts, TopFacts
  <2>2. started' = started \cup {Top(w).task} /\ UNCHANGED <<completed, done>>
    BY <1>8 DEF Run
  <2>3. MarksOf(Top(w).task)
    BY <2>2 DEF MarksOf
  <2>4. PICK l, i : /\ TopAt(w, l, i)
                    /\ \/ l = "working" /\ i = 1 /\ Jobs[Top(w).task] = <<>>
                       \/ l = "schedule" /\ i = 1 /\ 1 \in DOMAIN Jobs[Top(w).task]
    BY <1>8, RunFacts
  <2>5. stack'[w][1].task = Top(w).task /\ stack'[w][1].at = l /\ stack'[w][1].i = i
    BY <2>4 DEF TopAt, Top
  <2>6. Fits(stack'[w][1], started', completed', done')
    BY <2>1, <2>2, <2>4, <2>5 DEF Fits
  <2> QED
    BY <2>3, <2>4, <2>6, ShapeTop
<1>9. ASSUME NEW w \in Workers, ScheduleJob(w) \/ AdmitJob(w) \/ PushJob(w) PROVE Shape'
  <2>1. /\ stack[w] # <<>> /\ Top(w).at \in {"schedule", "admit", "push"}
        /\ \E l, i : /\ TopAt(w, l, i)
                     /\ \/ l \in {"admit", "push"} /\ i = Top(w).i
                        \/ l = "schedule" /\ i \in DOMAIN Jobs[Top(w).task]
                        \/ l = "wait" /\ i = 1
    BY <1>9, JobFacts
  <2>2. Fits(Top(w), started, completed, done)
    BY <2>1, TopFacts
  <2>3. UNCHANGED <<started, completed, done>>
    BY <1>9 DEF ScheduleJob, AdmitJob, PushJob, MarkAsScheduled, Admit, PushTo, taskVars
  <2>4. MarksOf(Top(w).task)
    BY <2>3 DEF MarksOf
  <2>5. PICK l, i : /\ TopAt(w, l, i)
                    /\ \/ l \in {"admit", "push"} /\ i = Top(w).i
                       \/ l = "schedule" /\ i \in DOMAIN Jobs[Top(w).task]
                       \/ l = "wait" /\ i = 1
    BY <2>1
  <2>6. stack'[w][1].task = Top(w).task /\ stack'[w][1].at = l /\ stack'[w][1].i = i
    BY <2>5 DEF TopAt, Top
  <2>7. Fits(stack'[w][1], started', completed', done')
    BY <2>1, <2>2, <2>3, <2>5, <2>6 DEF Fits
  <2> QED
    BY <2>4, <2>5, <2>7, ShapeTop
<1>10. ASSUME NEW w \in Workers, Return(w) PROVE Shape'
  <2>1. /\ stack[w] # <<>> /\ Fits(Top(w), started, completed, done) /\ Top(w).at \in {"working", "wait"}
    BY <1>10, ReturnFacts, TopFacts
  <2>2. completed' = completed \cup {Top(w).task} /\ UNCHANGED <<started, done>>
    BY <1>10 DEF Return
  <2>3. MarksOf(Top(w).task)
    BY <2>2 DEF MarksOf
  <2>4. PICK l, i : /\ TopAt(w, l, i)
                    /\ \/ l = "setDone" /\ i = 1
                       \/ l = "decrement" /\ i = 1 /\ 1 \in DOMAIN Successors[Top(w).task]
    BY <1>10, ReturnFacts
  <2>5. stack'[w][1].task = Top(w).task /\ stack'[w][1].at = l /\ stack'[w][1].i = i
    BY <2>4 DEF TopAt, Top
  <2>6. Fits(stack'[w][1], started', completed', done')
    BY <2>1, <2>2, <2>4, <2>5 DEF Fits
  <2> QED
    BY <2>3, <2>4, <2>6, ShapeTop
<1>11. ASSUME NEW w \in Workers, Decrement(w) \/ Offer(w) PROVE Shape'
  <2>1. /\ stack[w] # <<>> /\ Top(w).at \in {"decrement", "offer"}
        /\ \E l, i : /\ TopAt(w, l, i)
                     /\ \/ l = "offer" /\ i = Top(w).i
                        \/ l = "decrement" /\ i \in DOMAIN Successors[Top(w).task]
                        \/ l = "setDone" /\ i = 1
    BY <1>11, SuccessorFacts
  <2>2. Fits(Top(w), started, completed, done)
    BY <2>1, TopFacts
  <2>3. UNCHANGED <<started, completed, done>>
    BY <1>11, OfferFacts DEF Decrement
  <2>4. MarksOf(Top(w).task)
    BY <2>3 DEF MarksOf
  <2>5. PICK l, i : /\ TopAt(w, l, i)
                    /\ \/ l = "offer" /\ i = Top(w).i
                       \/ l = "decrement" /\ i \in DOMAIN Successors[Top(w).task]
                       \/ l = "setDone" /\ i = 1
    BY <2>1
  <2>6. stack'[w][1].task = Top(w).task /\ stack'[w][1].at = l /\ stack'[w][1].i = i
    BY <2>5 DEF TopAt, Top
  <2>7. Fits(stack'[w][1], started', completed', done')
    BY <2>1, <2>2, <2>3, <2>5, <2>6 DEF Fits
  <2> QED
    BY <2>4, <2>5, <2>7, ShapeTop
<1>12. ASSUME NEW w \in Workers, SetDone(w) PROVE Shape'
  <2>1. /\ stack[w] # <<>> /\ Fits(Top(w), started, completed, done) /\ Top(w).at = "setDone" /\ TopAt(w, "count", 1)
    BY <1>12, SuccessorFacts, TopFacts
  <2>2. done' = done \cup {Top(w).task} /\ UNCHANGED <<started, completed>>
    BY <1>12 DEF SetDone
  <2>3. MarksOf(Top(w).task)
    BY <2>2 DEF MarksOf
  <2>4. stack'[w][1].task = Top(w).task /\ stack'[w][1].at = "count" /\ stack'[w][1].i = 1
    BY <2>1 DEF TopAt, Top
  <2>5. Fits(stack'[w][1], started', completed', done')
    BY <2>1, <2>2, <2>4 DEF Fits
  <2> QED
    BY <2>1, <2>3, <2>5, ShapeTop
<1>13. ASSUME NEW w \in Workers, CountFinished(w) PROVE Shape'
  BY <1>13, SuccessorFacts, ShapeLeave DEF CountFinished, taskVars
<1> QED
  BY <1>2, <1>3, <1>5, <1>6, <1>7, <1>8, <1>9, <1>10, <1>11, <1>12, <1>13 DEF Next, Worker, Finished

----------------------------------------------------------------------------
(* Each step leaves every task in one place.                               *)

LEMMA HoldsNext ==
  /\ \A n \in Nodes, p \in Priorities : Holds(<<"queue", n, p>>)' = ToSet(queue'[n][p])
  /\ \A w \in Workers :
       /\ Holds(<<"next", w, 0>>)' = {nextTask'[w]} \ {None}
       /\ Holds(<<"stolen", w, 0>>)' = IF stolen'[w] = None THEN {} ELSE {stolen'[w].task}
       /\ Holds(<<"stack", w, 0>>)' = {stack'[w][k].task : k \in DOMAIN stack'[w]}
  BY DEF Holds

\* The tasks of a stack.
LEMMA StackHolds ==
  ASSUME NEW w \in Workers
  PROVE  /\ \A u : u \in Holds(<<"stack", w, 0>>) <=> \E k \in DOMAIN stack[w] : stack[w][k].task = u
         /\ \A u : u \in Holds(<<"stack", w, 0>>)' <=> \E k \in DOMAIN stack'[w] : stack'[w][k].task = u
         /\ stack'[w] = stack[w] => Holds(<<"stack", w, 0>>)' = Holds(<<"stack", w, 0>>)
<1>1. Holds(<<"stack", w, 0>>) = {stack[w][k].task : k \in DOMAIN stack[w]}
  BY HoldsOf
<1>2. Holds(<<"stack", w, 0>>)' = {stack'[w][k].task : k \in DOMAIN stack'[w]}
  BY HoldsNext
<1> QED
  BY <1>1, <1>2

LEMMA HoldsKept ==
  ASSUME NEW G,
         \A n \in Nodes, p \in Priorities : <<"queue", n, p>> \in G \/ queue'[n][p] = queue[n][p],
         \A w \in Workers : <<"next", w, 0>> \in G \/ nextTask'[w] = nextTask[w],
         \A w \in Workers : <<"stolen", w, 0>> \in G \/ stolen'[w] = stolen[w],
         \A w \in Workers : <<"stack", w, 0>> \in G \/ Holds(<<"stack", w, 0>>)' = Holds(<<"stack", w, 0>>)
  PROVE  \A h \in Holders \ G : Holds(h)' = Holds(h)
<1> SUFFICES ASSUME NEW h \in Holders, h \notin G PROVE Holds(h)' = Holds(h)
  OBVIOUS
<1>1. CASE \E n \in Nodes, p \in Priorities : h = <<"queue", n, p>>
  BY <1>1, HoldsOf, HoldsNext
<1>2. ASSUME NEW w \in Workers, h = <<"next", w, 0>> PROVE Holds(h)' = Holds(h)
  <2>1. nextTask'[w] = nextTask[w]
    BY <1>2
  <2>2. Holds(<<"next", w, 0>>)' = Holds(<<"next", w, 0>>)
    BY ZenonT(60), <2>1, HoldsOf, HoldsNext
  <2> QED
    BY <1>2, <2>2
<1>3. ASSUME NEW w \in Workers, h = <<"stolen", w, 0>> PROVE Holds(h)' = Holds(h)
  <2>1. stolen'[w] = stolen[w]
    BY <1>3
  <2>2. Holds(<<"stolen", w, 0>>)' = Holds(<<"stolen", w, 0>>)
    BY ZenonT(60), <2>1, HoldsOf, HoldsNext
  <2> QED
    BY <1>3, <2>2
<1>4. ASSUME NEW w \in Workers, h = <<"stack", w, 0>> PROVE Holds(h)' = Holds(h)
  BY <1>4
<1> QED
  BY <1>1, <1>2, <1>3, <1>4, HolderKinds

\* Stacks hold a task once, and what they hold after a step.
Stacked == \A w \in Workers : \A j, k \in DOMAIN stack[w] : stack[w][j].task = stack[w][k].task => j = k

LEMMA TopHolds ==
  ASSUME Places, NEW w \in Workers, NEW l, NEW i, TopAt(w, l, i)
  PROVE  Stacked' /\ \A v \in Workers : Holds(<<"stack", v, 0>>)' = Holds(<<"stack", v, 0>>)
<1>1. \A v \in Workers : DOMAIN stack'[v] = DOMAIN stack[v] /\ \A k \in DOMAIN stack[v] : stack'[v][k].task = stack[v][k].task
  BY DEF TopAt
<1>2. Stacked'
  BY <1>1 DEF Stacked, Places
<1>3. ASSUME NEW v \in Workers PROVE Holds(<<"stack", v, 0>>)' = Holds(<<"stack", v, 0>>)
  <2>1. {stack'[v][k].task : k \in DOMAIN stack'[v]} = {stack[v][k].task : k \in DOMAIN stack[v]}
    BY <1>1
  <2> QED
    BY <2>1, HoldsOf, HoldsNext
<1> QED
  BY <1>2, <1>3

LEMMA EnterHolds ==
  ASSUME Types, Places, NEW w \in Workers, NEW t, t \notin Holds(<<"stack", w, 0>>), Entered(w, t)
  PROVE  /\ Stacked' /\ Holds(<<"stack", w, 0>>)' = Holds(<<"stack", w, 0>>) \cup {t}
         /\ \A v \in Workers \ {w} : Holds(<<"stack", v, 0>>)' = Holds(<<"stack", v, 0>>)
<1> DEFINE n == Len(stack[w])
<1>1. n \in Nat /\ DOMAIN stack[w] = 1 .. n
  BY DEF Types
<1>2. DOMAIN stack'[w] = 1 .. n + 1 /\ stack'[w][1].task = t /\ \A k \in 1 .. n : stack'[w][k + 1] = stack[w][k]
  BY DEF Entered
<1>3. \A k \in DOMAIN stack[w] : stack[w][k].task # t
  BY StackHolds
<1> HIDE DEF n
<1>4. ASSUME NEW j \in DOMAIN stack'[w], NEW k \in DOMAIN stack'[w], stack'[w][j].task = stack'[w][k].task PROVE j = k
  <2>1. \A m \in 1 .. n + 1 : m = 1 \/ (m - 1 \in 1 .. n /\ stack'[w][m] = stack[w][m - 1])
    <3> SUFFICES ASSUME NEW m \in 1 .. n + 1, m # 1 PROVE m - 1 \in 1 .. n /\ stack'[w][m] = stack[w][m - 1]
      OBVIOUS
    <3>1. m - 1 \in 1 .. n /\ (m - 1) + 1 = m
      BY <1>1
    <3> QED
      BY <1>2, <3>1
  <2>2. j \in 1 .. n + 1 /\ k \in 1 .. n + 1
    BY <1>2
  <2>3. CASE j = 1
    BY ZenonT(60), <1>1, <1>2, <1>3, <1>4, <2>1, <2>2, <2>3
  <2>4. CASE k = 1
    BY ZenonT(60), <1>1, <1>2, <1>3, <1>4, <2>1, <2>2, <2>4
  <2>5. CASE j # 1 /\ k # 1
    <3>1. j - 1 \in DOMAIN stack[w] /\ k - 1 \in DOMAIN stack[w] /\ stack[w][j - 1].task = stack[w][k - 1].task
      BY <1>1, <1>4, <2>1, <2>2, <2>5
    <3>2. j - 1 = k - 1
      BY <3>1 DEF Places
    <3> QED
      BY <1>1, <2>2, <3>2
  <2> QED
    BY <2>3, <2>4, <2>5
<1>5. Stacked'
  BY <1>4 DEF Stacked, Places, Entered
<1>6. ASSUME NEW u \in Holds(<<"stack", w, 0>>)' PROVE u \in Holds(<<"stack", w, 0>>) \cup {t}
  <2>1. PICK k \in 1 .. n + 1 : stack'[w][k].task = u
    BY ZenonT(60), <1>2, <1>6, StackHolds
  <2>2. CASE k = 1
    BY <1>2, <2>1, <2>2
  <2>3. CASE k # 1
    <3>1. k - 1 \in 1 .. n /\ (k - 1) + 1 = k
      BY <1>1, <2>1, <2>3
    <3>2. stack[w][k - 1].task = u
      BY <1>2, <2>1, <3>1
    <3> QED
      BY <1>1, <3>1, <3>2, StackHolds
  <2> QED
    BY <2>2, <2>3
<1>7. ASSUME NEW u \in Holds(<<"stack", w, 0>>) \cup {t} PROVE u \in Holds(<<"stack", w, 0>>)'
  <2>1. CASE u = t
    <3>1. 1 \in DOMAIN stack'[w]
      BY <1>1, <1>2
    <3> QED
      BY <1>2, <2>1, <3>1, StackHolds
  <2>2. CASE u # t
    <3>1. PICK k \in 1 .. n : stack[w][k].task = u
      BY <1>1, <1>7, <2>2, StackHolds
    <3>2. k + 1 \in DOMAIN stack'[w] /\ stack'[w][k + 1].task = u
      BY <1>1, <1>2, <3>1
    <3> QED
      BY <3>2, StackHolds
  <2> QED
    BY <2>1, <2>2
<1>8. \A v \in Workers \ {w} : Holds(<<"stack", v, 0>>)' = Holds(<<"stack", v, 0>>)
  BY StackHolds DEF Entered
<1> QED
  BY <1>5, <1>6, <1>7, <1>8

LEMMA LeaveHolds ==
  ASSUME Types, Places, NEW w \in Workers, Left(w)
  PROVE  /\ Stacked' /\ Holds(<<"stack", w, 0>>)' = Holds(<<"stack", w, 0>>) \ {Top(w).task}
         /\ \A v \in Workers \ {w} : Holds(<<"stack", v, 0>>)' = Holds(<<"stack", v, 0>>)
<1> DEFINE n == Len(stack[w])
<1>1. n \in Nat /\ DOMAIN stack[w] = 1 .. n
  BY DEF Types
<1>2. DOMAIN stack'[w] = 1 .. n - 1 /\ \A k \in 1 .. n - 1 : stack'[w][k] = stack[w][k + 1]
  BY DEF Left
<1>3. 1 \in DOMAIN stack[w] /\ Top(w) = stack[w][1]
  BY DEF Left, Top
<1> HIDE DEF n
<1>4. \A k \in 1 .. n - 1 : k + 1 \in DOMAIN stack[w] /\ k + 1 # 1
  BY <1>1
<1>5. ASSUME NEW j \in DOMAIN stack'[w], NEW k \in DOMAIN stack'[w], stack'[w][j].task = stack'[w][k].task PROVE j = k
  <2>1. j \in 1 .. n - 1 /\ k \in 1 .. n - 1 /\ stack[w][j + 1].task = stack[w][k + 1].task
    BY <1>2, <1>5
  <2>2. j + 1 = k + 1
    BY <1>4, <2>1 DEF Places
  <2> QED
    BY <1>1, <2>1, <2>2
<1>6. Stacked'
  BY <1>5 DEF Stacked, Places, Left
<1>7. ASSUME NEW u \in Holds(<<"stack", w, 0>>)' PROVE u \in Holds(<<"stack", w, 0>>) \ {Top(w).task}
  <2>1. PICK k \in DOMAIN stack'[w] : stack'[w][k].task = u
    BY <1>7, StackHolds
  <2>2. k + 1 \in DOMAIN stack[w] /\ k + 1 # 1 /\ stack[w][k + 1].task = u
    BY <1>2, <1>4, <2>1
  <2>3. u # Top(w).task
    BY <1>3, <2>2 DEF Places
  <2> QED
    BY <2>2, <2>3, StackHolds
<1>8. ASSUME NEW u \in Holds(<<"stack", w, 0>>) \ {Top(w).task} PROVE u \in Holds(<<"stack", w, 0>>)'
  <2>1. PICK k \in 1 .. n : stack[w][k].task = u
    BY <1>1, <1>8, StackHolds
  <2>2. k # 1
    BY <1>3, <1>8, <2>1
  <2>3. k - 1 \in 1 .. n - 1 /\ (k - 1) + 1 = k
    BY <1>1, <2>1, <2>2
  <2>4. k - 1 \in DOMAIN stack'[w] /\ stack'[w][k - 1].task = u
    BY <1>2, <2>1, <2>3
  <2> QED
    BY <2>4, StackHolds
<1>9. \A v \in Workers \ {w} : Holds(<<"stack", v, 0>>)' = Holds(<<"stack", v, 0>>)
  BY StackHolds DEF Left
<1> QED
  BY <1>6, <1>7, <1>8, <1>9

\* A queue gets a last task.
LEMMA AppendHolds ==
  ASSUME Types, Places, NEW n \in Nodes, NEW p \in Priorities, NEW t \in Tasks, t \notin Holds(<<"queue", n, p>>),
         Becomes(n, p, Append(queue[n][p], t))
  PROVE  /\ Holds(<<"queue", n, p>>)' = Holds(<<"queue", n, p>>) \cup {t}
         /\ \A m \in Nodes, q \in Priorities : IsInjective(queue'[m][q])
         /\ \A m \in Nodes, q \in Priorities : <<"queue", m, q>> \in {<<"queue", n, p>>} \/ queue'[m][q] = queue[m][q]
<1>1. queue[n][p] \in Seq(Tasks) /\ IsInjective(queue[n][p])
  BY DEF Types, Places
<1>2. Holds(<<"queue", n, p>>) = ToSet(queue[n][p]) /\ Holds(<<"queue", n, p>>)' = ToSet(queue'[n][p])
  BY HoldsOf, HoldsNext
<1>3. /\ ToSet(Append(queue[n][p], t)) = ToSet(queue[n][p]) \cup {t} /\ IsInjective(Append(queue[n][p], t))
  BY <1>1, <1>2, AppendSet
<1>4. /\ queue'[n][p] = Append(queue[n][p], t)
      /\ \A m \in Nodes, q \in Priorities : ~(m = n /\ q = p) => queue'[m][q] = queue[m][q]
  BY DEF Becomes
<1>5. ASSUME NEW m \in Nodes, NEW q \in Priorities PROVE IsInjective(queue'[m][q])
  <2>1. IsInjective(queue[m][q])
    BY DEF Places
  <2>2. CASE m = n /\ q = p
    BY <1>3, <1>4, <2>2
  <2>3. CASE ~(m = n /\ q = p)
    <3>1. queue'[m][q] = queue[m][q]
      BY <1>4, <2>3
    <3> QED
      BY <2>1, <3>1
  <2> QED
    BY <2>2, <2>3
<1> QED
  BY <1>2, <1>3, <1>4, <1>5

\* A queue loses its first task.
LEMMA TailHolds ==
  ASSUME Types, Places, NEW n \in Nodes, NEW p \in Priorities, queue[n][p] # <<>>, Becomes(n, p, Tail(queue[n][p]))
  PROVE  /\ Holds(<<"queue", n, p>>)' = Holds(<<"queue", n, p>>) \ {Head(queue[n][p])}
         /\ Head(queue[n][p]) \in Holds(<<"queue", n, p>>)
         /\ \A m \in Nodes, q \in Priorities : IsInjective(queue'[m][q])
         /\ \A m \in Nodes, q \in Priorities : <<"queue", m, q>> \in {<<"queue", n, p>>} \/ queue'[m][q] = queue[m][q]
<1>1. /\ Head(queue[n][p]) \in ToSet(queue[n][p]) /\ IsInjective(Tail(queue[n][p]))
      /\ ToSet(Tail(queue[n][p])) = ToSet(queue[n][p]) \ {Head(queue[n][p])}
  BY QueueFacts
<1>2. Holds(<<"queue", n, p>>) = ToSet(queue[n][p]) /\ Holds(<<"queue", n, p>>)' = ToSet(queue'[n][p])
  BY HoldsOf, HoldsNext
<1>3. /\ queue'[n][p] = Tail(queue[n][p])
      /\ \A m \in Nodes, q \in Priorities : ~(m = n /\ q = p) => queue'[m][q] = queue[m][q]
  BY DEF Becomes
<1>4. ASSUME NEW m \in Nodes, NEW q \in Priorities PROVE IsInjective(queue'[m][q])
  <2>1. IsInjective(queue[m][q])
    BY DEF Places
  <2>2. CASE m = n /\ q = p
    BY <1>1, <1>3, <2>2
  <2>3. CASE ~(m = n /\ q = p)
    <3>1. queue'[m][q] = queue[m][q]
      BY <1>3, <2>3
    <3> QED
      BY <2>1, <3>1
  <2> QED
    BY <2>2, <2>3
<1> QED
  BY <1>1, <1>2, <1>3, <1>4

\* A task that nobody has enqueued is pushed, and the stacks keep what they hold.
LEMMA PlacesPush ==
  ASSUME Types, Places, NEW n \in Nodes, NEW p \in Priorities, NEW t \in Tasks \ enqueued,
         Becomes(n, p, Append(queue[n][p], t)), enqueued' = enqueued \cup {t},
         UNCHANGED <<started, done, nextTask, stolen>>,
         Stacked' /\ \A v \in Workers : Holds(<<"stack", v, 0>>)' = Holds(<<"stack", v, 0>>)
  PROVE  Places'
<1> DEFINE g == <<"queue", n, p>>
<1>1. g \in Holders
  BY HoldsOf
<1>2. Holds(g) \subseteq enqueued
  BY <1>1 DEF Places
<1>3. /\ Holds(g)' = Holds(g) \cup {t} /\ \A m \in Nodes, q \in Priorities : IsInjective(queue'[m][q])
      /\ \A m \in Nodes, q \in Priorities : <<"queue", m, q>> \in {g} \/ queue'[m][q] = queue[m][q]
  BY <1>2, AppendHolds
<1>4. \A h \in Holders \ {g} : Holds(h)' = Holds(h)
  BY <1>3, HoldsKept
<1>5. Once'
  BY <1>3 DEF Once, Stacked
<1>6. t \notin started'
  BY DEF Types
<1>7. MarksGrow
  BY DEF MarksGrow, Places
<1> QED
  BY <1>1, <1>3, <1>4, <1>5, <1>6, <1>7, PlacesAdd

\* No task moves.
LEMMA PlacesStay ==
  ASSUME Places, MarksGrow, UNCHANGED <<enqueued, queueVars>>,
         Stacked' /\ \A v \in Workers : Holds(<<"stack", v, 0>>)' = Holds(<<"stack", v, 0>>)
  PROVE  Places'
<1>1. \A h \in Holders \ {} : Holds(h)' = Holds(h)
  <2>1. UNCHANGED <<queue, nextTask, stolen>>
    BY DEF queueVars
  <2> QED
    BY <2>1, HoldsKept
<1>2. Once'
  BY DEF Once, Stacked, Places, queueVars
<1> QED
  BY <1>1, <1>2, PlacesKept

LEMMA StacksStay ==
  ASSUME Places, UNCHANGED stack
  PROVE  Stacked' /\ \A v \in Workers : Holds(<<"stack", v, 0>>)' = Holds(<<"stack", v, 0>>)
  BY StackHolds DEF Stacked, Places

LEMMA MarksStay == ASSUME Places, UNCHANGED started, enqueued \subseteq enqueued', done \subseteq done' PROVE MarksGrow
  BY DEF Places, MarksGrow

\* A worker takes t from f.
LEMMA PlacesEnter ==
  ASSUME Types, Places, NEW w \in Workers, NEW f \in Holders, NEW t \in Holds(f), f[1] # "stack",
         Entered(w, t), UNCHANGED <<enqueued, started, done>>,
         Holds(f)' = Holds(f) \ {t}, \A m \in Nodes, q \in Priorities : IsInjective(queue'[m][q]),
         \A n \in Nodes, p \in Priorities : <<"queue", n, p>> \in {f, <<"stack", w, 0>>} \/ queue'[n][p] = queue[n][p],
         \A v \in Workers : <<"next", v, 0>> \in {f, <<"stack", w, 0>>} \/ nextTask'[v] = nextTask[v],
         \A v \in Workers : <<"stolen", v, 0>> \in {f, <<"stack", w, 0>>} \/ stolen'[v] = stolen[v]
  PROVE  Places'
<1> DEFINE g == <<"stack", w, 0>>
<1>1. g \in Holders /\ g # f
  <2>1. g \in Holders
    BY HoldsOf
  <2>2. g[1] = "stack"
    OBVIOUS
  <2> QED
    BY <2>1, <2>2
<1>2. t \notin Holds(g) /\ t \notin started
  BY <1>1 DEF Places
<1>3. /\ Stacked' /\ Holds(g)' = Holds(g) \cup {t}
      /\ \A v \in Workers \ {w} : Holds(<<"stack", v, 0>>)' = Holds(<<"stack", v, 0>>)
  BY <1>2, EnterHolds
<1>4. \A v \in Workers : <<"stack", v, 0>> \in {f, g} \/ Holds(<<"stack", v, 0>>)' = Holds(<<"stack", v, 0>>)
  BY <1>3
<1>5. \A h \in Holders \ {f, g} : Holds(h)' = Holds(h)
  BY <1>4, HoldsKept
<1>6. Once'
  BY <1>3 DEF Once, Stacked
<1> HIDE DEF g
<1> QED
  BY <1>1, <1>2, <1>3, <1>5, <1>6, PlacesMove DEF g

LEMMA PlacesNext == ASSUME Core, [Next]_vars PROVE Places'
<1> USE DEF Core
<1>1. CASE UNCHANGED <<stack, enqueued, started, done, queueVars>>
  BY <1>1, MarksStay, StacksStay, PlacesStay
<1>2. CASE UNCHANGED vars
  BY <1>1, <1>2 DEF vars, taskVars
<1>3. CASE ClientSchedule \/ ClientAdmit \/ ClientJoin \/ SumFinished \/ Deactivate
  BY <1>1, <1>3 DEF ClientSchedule, ClientAdmit, ClientJoin, SumFinished, Deactivate, Client, MarkAsScheduled, Admit, taskVars
<1>4. CASE ClientPush
  <2>1. batch[client.i] \in Tasks /\ FirstNode \in Nodes /\ Default \in Priorities
    BY <1>4, BatchFacts, TopologyAssumption DEF ClientPush, Client, Priorities
  <2>2. PushTo(FirstNode, Default, batch[client.i]) /\ UNCHANGED <<nextTask, stolen, stack>>
    BY <1>4 DEF ClientPush, Client
  <2>3. /\ enqueued' = enqueued \cup {batch[client.i]} /\ UNCHANGED <<started, done>>
        /\ \/ batch[client.i] \in enqueued /\ UNCHANGED queue
           \/ /\ batch[client.i] \notin enqueued
              /\ Becomes(FirstNode, Default, Append(queue[FirstNode][Default], batch[client.i]))
    BY <2>1, <2>2, PushFacts
  <2>4. Stacked' /\ \A v \in Workers : Holds(<<"stack", v, 0>>)' = Holds(<<"stack", v, 0>>)
    BY <2>2, StacksStay
  <2>5. CASE batch[client.i] \in enqueued
    <3>1. UNCHANGED <<stack, enqueued, started, done, queueVars>>
      BY <2>2, <2>3, <2>5 DEF queueVars
    <3> QED
      BY <1>1, <3>1
  <2>6. CASE batch[client.i] \notin enqueued
    BY <2>1, <2>2, <2>3, <2>4, <2>6, PlacesPush
  <2> QED
    BY <2>5, <2>6
<1>5. ASSUME NEW w \in Workers, TakeNextTask(w) PROVE Places'
  <2> DEFINE f == <<"next", w, 0>>
             t == nextTask[w]
  <2>1. t \in Tasks /\ Entered(w, t) /\ Source(w) /\ nextTask' = [nextTask EXCEPT ![w] = None] /\ UNCHANGED <<queue, stolen>>
    BY <1>5, TakeFacts
  <2>2. f \in Holders /\ Holds(f) = {t} \ {None} /\ Holds(f)' = {nextTask'[w]} \ {None} /\ f[1] # "stack"
    BY HoldsOf, HoldsNext
  <2>3. t # None /\ nextTask \in [Workers -> Tasks \cup {None}]
    BY <2>1, NullAssumption DEF Types
  <2>4. nextTask'[w] = None /\ \A v \in Workers : v = w \/ nextTask'[v] = nextTask[v]
    BY <2>1, <2>3
  <2>5. t \in Holds(f) /\ Holds(f)' = Holds(f) \ {t}
    BY <2>2, <2>3, <2>4
  <2>6. \A v \in Workers : <<"next", v, 0>> \in {f, <<"stack", w, 0>>} \/ nextTask'[v] = nextTask[v]
    BY <2>4
  <2>7. \A m \in Nodes, q \in Priorities : IsInjective(queue'[m][q])
    BY <2>1 DEF Places
  <2>8. UNCHANGED <<enqueued, started, done, queue, stolen>>
    BY <2>1 DEF Source, taskVars
  <2> HIDE DEF f, t
  <2> QED
    BY <2>1, <2>2, <2>5, <2>6, <2>7, <2>8, PlacesEnter
<1>6. ASSUME NEW w \in Workers, Pull(w) \/ Steal(w) PROVE Places'
  <2>1. PICK n \in Nodes, p \in Priorities : Taken(w, n, p) /\ Source(w)
    BY <1>6, PullFacts
  <2> DEFINE f == <<"queue", n, p>>
             t == Head(queue[n][p])
  <2>2. queue[n][p] # <<>> /\ Becomes(n, p, Tail(queue[n][p]))
    BY <2>1, TakenFacts DEF Taken
  <2>3. t \in Tasks /\ f \in Holders /\ f[1] # "stack"
    BY <2>2, HoldsOf, QueueFacts
  <2>4. /\ Holds(f)' = Holds(f) \ {t} /\ t \in Holds(f)
        /\ \A m \in Nodes, q \in Priorities : IsInjective(queue'[m][q])
        /\ \A m \in Nodes, q \in Priorities : <<"queue", m, q>> \in {f} \/ queue'[m][q] = queue[m][q]
    BY <2>2, TailHolds
  <2>5. UNCHANGED <<enqueued, started, done, nextTask>>
    BY <2>1 DEF Source, Taken, taskVars
  <2>6. CASE Entered(w, t) /\ UNCHANGED stolen
    <3>1. \A m \in Nodes, q \in Priorities : <<"queue", m, q>> \in {f, <<"stack", w, 0>>} \/ queue'[m][q] = queue[m][q]
      BY <2>4
    <3> HIDE DEF f, t
    <3> QED
      BY <2>3, <2>4, <2>5, <2>6, <3>1, PlacesEnter
  <2>7. CASE ~(Entered(w, t) /\ UNCHANGED stolen)
    <3> DEFINE g == <<"stolen", w, 0>>
    <3>1. /\ stolen[w] = None /\ UNCHANGED stack /\ stolen'[w] # None /\ stolen'[w].task = t
          /\ \A v \in Workers \ {w} : stolen'[v] = stolen[v]
      BY <2>1, <2>7, TakenFacts
    <3>2. g \in Holders /\ g # f
      BY HoldsOf
    <3>3. Holds(g) = {} /\ Holds(g)' = {t}
      BY <3>1, HoldsOf, HoldsNext
    <3>4. Stacked' /\ \A v \in Workers : Holds(<<"stack", v, 0>>)' = Holds(<<"stack", v, 0>>)
      BY <3>1, StacksStay
    <3>5. /\ \A m \in Nodes, q \in Priorities : <<"queue", m, q>> \in {f, g} \/ queue'[m][q] = queue[m][q]
          /\ \A v \in Workers : <<"next", v, 0>> \in {f, g} \/ nextTask'[v] = nextTask[v]
          /\ \A v \in Workers : <<"stolen", v, 0>> \in {f, g} \/ stolen'[v] = stolen[v]
          /\ \A v \in Workers : <<"stack", v, 0>> \in {f, g} \/ Holds(<<"stack", v, 0>>)' = Holds(<<"stack", v, 0>>)
      BY <2>4, <2>5, <3>1, <3>4
    <3> HIDE DEF f, g, t
    <3>6. \A h \in Holders \ {f, g} : Holds(h)' = Holds(h)
      BY <3>5, HoldsKept DEF f, g
    <3>7. Once'
      BY <2>4, <3>4 DEF Once, Stacked
    <3>8. t \notin started
      BY <2>3, <2>4 DEF Places
    <3> QED
      BY <2>3, <2>4, <2>5, <3>2, <3>3, <3>6, <3>7, <3>8, PlacesMove
  <2> QED
    BY <2>6, <2>7
<1>7. ASSUME NEW w \in Workers, PutBack(w) PROVE Places'
  <2>1. PICK n \in Nodes, p \in Priorities :
           /\ stolen[w] # None /\ stolen[w].task \in Tasks
           /\ Becomes(n, p, Append(queue[n][p], stolen[w].task))
           /\ stolen'[w] = None /\ \A v \in Workers \ {w} : stolen'[v] = stolen[v]
    BY <1>7, PutBackFacts
  <2> DEFINE f == <<"stolen", w, 0>>
             g == <<"queue", n, p>>
             t == stolen[w].task
  <2>2. f \in Holders /\ g \in Holders /\ f # g /\ f[1] # "stack"
    BY HoldsOf
  <2>3. Holds(f) = {t} /\ Holds(f)' = {}
    BY <2>1, HoldsOf, HoldsNext
  <2>4. t \notin Holds(g) /\ t \notin started
    BY <2>2, <2>3 DEF Places
  <2>5. /\ Holds(g)' = Holds(g) \cup {t} /\ \A m \in Nodes, q \in Priorities : IsInjective(queue'[m][q])
        /\ \A m \in Nodes, q \in Priorities : <<"queue", m, q>> \in {g} \/ queue'[m][q] = queue[m][q]
    BY <2>1, <2>4, AppendHolds
  <2>6. UNCHANGED <<enqueued, started, done, nextTask, stack>>
    BY <1>7 DEF PutBack, taskVars
  <2>7. Stacked' /\ \A v \in Workers : Holds(<<"stack", v, 0>>)' = Holds(<<"stack", v, 0>>)
    BY <2>6, StacksStay
  <2>8. /\ \A m \in Nodes, q \in Priorities : <<"queue", m, q>> \in {f, g} \/ queue'[m][q] = queue[m][q]
        /\ \A v \in Workers : <<"next", v, 0>> \in {f, g} \/ nextTask'[v] = nextTask[v]
        /\ \A v \in Workers : <<"stolen", v, 0>> \in {f, g} \/ stolen'[v] = stolen[v]
        /\ \A v \in Workers : <<"stack", v, 0>> \in {f, g} \/ Holds(<<"stack", v, 0>>)' = Holds(<<"stack", v, 0>>)
    BY <2>1, <2>5, <2>6, <2>7
  <2> HIDE DEF f, g, t
  <2>9. \A h \in Holders \ {f, g} : Holds(h)' = Holds(h)
    BY <2>8, HoldsKept DEF f, g
  <2>10. Once'
    BY <2>5, <2>7 DEF Once, Stacked
  <2>11. t \in Holds(f) /\ Holds(f)' = Holds(f) \ {t}
    BY <2>3
  <2> QED
    BY <2>2, <2>4, <2>5, <2>6, <2>9, <2>10, <2>11, PlacesMove
<1>8. ASSUME NEW w \in Workers, Run(w) PROVE Places'
  <2>1. Top(w).task \in Holds(<<"stack", w, 0>>) /\ <<"stack", w, 0>> \in Holders
    BY <1>8, RunFacts, TopFacts, HoldsOf
  <2>2. started' = started \cup {Top(w).task} /\ UNCHANGED <<enqueued, done, queueVars>>
    BY <1>8 DEF Run
  <2>3. ASSUME NEW h \in Holders, h[1] # "stack" PROVE Holds(h) \cap started' = {}
    <3>1. h # <<"stack", w, 0>>
      BY <2>3
    <3>2. Top(w).task \notin Holds(h) /\ Holds(h) \cap started = {}
      BY <2>1, <2>3, <3>1 DEF Places
    <3> QED
      BY <2>2, <3>2
  <2>4. MarksGrow
    BY <2>2, <2>3 DEF MarksGrow
  <2> QED
    BY <1>8, <2>2, <2>4, RunFacts, TopHolds, PlacesStay
<1>9. ASSUME NEW w \in Workers, NEW l, NEW i, TopAt(w, l, i), UNCHANGED <<enqueued, started, queueVars>>, done \subseteq done'
      PROVE  Places'
  BY <1>9, MarksStay, TopHolds, PlacesStay
<1>10. ASSUME NEW w \in Workers, ScheduleJob(w) \/ AdmitJob(w) PROVE Places'
  <2>1. UNCHANGED <<enqueued, started, done, queueVars>>
    BY <1>10 DEF ScheduleJob, AdmitJob, MarkAsScheduled, Admit, taskVars
  <2>2. \E l, i : TopAt(w, l, i)
    BY <1>10, JobFacts
  <2> QED
    BY <1>9, <2>1, <2>2
<1>11. ASSUME NEW w \in Workers, PushJob(w) PROVE Places'
  <2>1. /\ Job(w) \in Tasks /\ NodeOf[w] \in Nodes /\ Default \in Priorities
        /\ \E l, i : TopAt(w, l, i)
    BY <1>11, JobFacts, TopFacts, TopologyAssumption DEF Priorities
  <2>2. PushTo(NodeOf[w], Default, Job(w)) /\ UNCHANGED <<nextTask, stolen>>
    BY <1>11 DEF PushJob
  <2>3. /\ enqueued' = enqueued \cup {Job(w)} /\ UNCHANGED <<started, done>>
        /\ \/ Job(w) \in enqueued /\ UNCHANGED queue
           \/ Job(w) \notin enqueued /\ Becomes(NodeOf[w], Default, Append(queue[NodeOf[w]][Default], Job(w)))
    BY <2>1, <2>2, PushFacts
  <2>4. Stacked' /\ \A v \in Workers : Holds(<<"stack", v, 0>>)' = Holds(<<"stack", v, 0>>)
    BY <2>1, TopHolds
  <2>5. CASE Job(w) \in enqueued
    <3>1. UNCHANGED <<enqueued, started, done, queueVars>>
      BY <2>2, <2>3, <2>5 DEF queueVars
    <3> QED
      BY <1>9, <2>1, <3>1
  <2>6. CASE Job(w) \notin enqueued
    BY <2>1, <2>2, <2>3, <2>4, <2>6, PlacesPush
  <2> QED
    BY <2>5, <2>6
<1>12. ASSUME NEW w \in Workers, Return(w) \/ Decrement(w) \/ SetDone(w) PROVE Places'
  <2>1. UNCHANGED <<enqueued, started, queueVars>> /\ done \subseteq done'
    BY <1>12 DEF Return, Decrement, SetDone
  <2>2. \E l, i : TopAt(w, l, i)
    BY <1>12, ReturnFacts, SuccessorFacts
  <2> QED
    BY <1>9, <2>1, <2>2
<1>13. ASSUME NEW w \in Workers, Offer(w) PROVE Places'
  <2> DEFINE s == Successor(w)
  <2>1. \E l, i : TopAt(w, l, i)
    BY <1>13, SuccessorFacts
  <2>2. Stacked' /\ \A v \in Workers : Holds(<<"stack", v, 0>>)' = Holds(<<"stack", v, 0>>)
    BY <2>1, TopHolds
  <2>3. s \in Tasks /\ UNCHANGED <<started, done, stolen>> /\ NodeOf[w] \in Nodes /\ High \in Priorities
    BY <1>13, OfferFacts, TopologyAssumption DEF Priorities
  <2>4. CASE UNCHANGED <<enqueued, queue, nextTask>>
    <3>1. UNCHANGED <<enqueued, started, done, queueVars>>
      BY <2>3, <2>4 DEF queueVars
    <3> QED
      BY <1>9, <2>1, <3>1
  <2>5. CASE /\ s \notin enqueued /\ enqueued' = enqueued \cup {s}
             /\ UNCHANGED nextTask /\ Becomes(NodeOf[w], High, Append(queue[NodeOf[w]][High], s))
    BY <2>2, <2>3, <2>5, PlacesPush
  <2>6. CASE /\ s \notin enqueued /\ enqueued' = enqueued \cup {s}
             /\ nextTask[w] = None /\ nextTask'[w] = s /\ UNCHANGED queue
             /\ \A v \in Workers \ {w} : nextTask'[v] = nextTask[v]
    <3> DEFINE g == <<"next", w, 0>>
    <3>1. g \in Holders /\ Holds(g) = {} /\ Holds(g)' = {s}
      BY <2>3, <2>6, HoldsOf, HoldsNext, NullAssumption
    <3>2. /\ \A m \in Nodes, q \in Priorities : <<"queue", m, q>> \in {g} \/ queue'[m][q] = queue[m][q]
          /\ \A v \in Workers : <<"next", v, 0>> \in {g} \/ nextTask'[v] = nextTask[v]
          /\ \A v \in Workers : <<"stolen", v, 0>> \in {g} \/ stolen'[v] = stolen[v]
          /\ \A v \in Workers : <<"stack", v, 0>> \in {g} \/ Holds(<<"stack", v, 0>>)' = Holds(<<"stack", v, 0>>)
      BY <2>2, <2>3, <2>6
    <3> HIDE DEF g, s
    <3>3. \A h \in Holders \ {g} : Holds(h)' = Holds(h)
      BY <3>2, HoldsKept DEF g
    <3>4. Once'
      BY <2>2, <2>6 DEF Once, Stacked, Places
    <3>5. MarksGrow /\ s \notin started'
      BY <2>3, <2>6, MarksStay DEF Types
    <3>6. Holds(g)' = Holds(g) \cup {s}
      BY <3>1
    <3> QED
      BY <2>3, <2>6, <3>1, <3>3, <3>4, <3>5, <3>6, PlacesAdd
  <2> QED
    BY <1>13, <2>4, <2>5, <2>6, OfferFacts
<1>14. ASSUME NEW w \in Workers, CountFinished(w) PROVE Places'
  <2> DEFINE f == <<"stack", w, 0>>
             t == Top(w).task
  <2>1. stack[w] # <<>> /\ Left(w) /\ t \in done
    BY <1>14, SuccessorFacts
  <2>2. t \in Holds(f) /\ f \in Holders
    BY <2>1, TopFacts, HoldsOf
  <2>3. UNCHANGED <<enqueued, started, done, queue, nextTask, stolen>>
    BY <1>14 DEF CountFinished, taskVars, queueVars
  <2>4. /\ Stacked' /\ Holds(f)' = Holds(f) \ {t}
        /\ \A v \in Workers \ {w} : Holds(<<"stack", v, 0>>)' = Holds(<<"stack", v, 0>>)
    BY <2>1, LeaveHolds
  <2>5. /\ \A m \in Nodes, q \in Priorities : <<"queue", m, q>> \in {f} \/ queue'[m][q] = queue[m][q]
        /\ \A v \in Workers : <<"next", v, 0>> \in {f} \/ nextTask'[v] = nextTask[v]
        /\ \A v \in Workers : <<"stolen", v, 0>> \in {f} \/ stolen'[v] = stolen[v]
        /\ \A v \in Workers : <<"stack", v, 0>> \in {f} \/ Holds(<<"stack", v, 0>>)' = Holds(<<"stack", v, 0>>)
    BY <2>3, <2>4
  <2> HIDE DEF f, t
  <2>6. \A h \in Holders \ {f} : Holds(h)' = Holds(h)
    BY <2>5, HoldsKept DEF f
  <2>7. Once'
    BY <2>3, <2>4 DEF Once, Stacked, Places
  <2> QED
    BY <2>1, <2>2, <2>3, <2>4, <2>6, <2>7, PlacesDrop
<1> QED
  BY <1>2, <1>3, <1>4, <1>5, <1>6, <1>7, <1>8, <1>10, <1>11, <1>12, <1>13, <1>14
     DEF Next, ClientThread, Worker, Finished

----------------------------------------------------------------------------
(* _pending_predecessors is the number of predecessors that have not       *)
(* counted themselves off yet.                                             *)

\* Worker w is counting its task off.
Busy(w) == stack[w] # <<>> /\ Top(w).at \in {"decrement", "offer"}

LEMMA OwingKept ==
  ASSUME UNCHANGED completed, NEW w \in Workers, \A v \in Workers \ {w} : stack'[v] = stack[v], NEW t,
         \A p \in Tasks : OwedBy(w, p, t)' <=> OwedBy(w, p, t)
  PROVE  Owing(t)' = Owing(t)
<1>1. ASSUME NEW v \in Workers \ {w}, NEW p \in Tasks PROVE OwedBy(v, p, t)' <=> OwedBy(v, p, t)
  BY DEF OwedBy, Owes, Top
<1>2. \A p \in Tasks : Owed(p, t)' <=> Owed(p, t)
  BY <1>1 DEF Owed
<1> QED
  BY <1>2 DEF Owing

LEMMA OwingIdle ==
  ASSUME UNCHANGED completed, NEW w \in Workers, \A v \in Workers \ {w} : stack'[v] = stack[v],
         ~Busy(w), ~Busy(w)', NEW t
  PROVE  Owing(t)' = Owing(t)
<1>1. \A p \in Tasks : ~OwedBy(w, p, t) /\ ~OwedBy(w, p, t)'
  BY DEF OwedBy, Owes, Busy
<1> QED
  BY <1>1, OwingKept

LEMMA OwesNext ==
  ASSUME NEW w \in Workers, NEW l, NEW i, TopAt(w, l, i)
  PROVE  /\ \A t : Owes(Top(w), t)' <=> \E j \in DOMAIN Successors[Top(w).task] :
              /\ Successors[Top(w).task][j] = t
              /\ (l = "decrement" /\ i <= j) \/ (l = "offer" /\ i < j)
         /\ stack'[w] # <<>> /\ Top(w)'.task = Top(w).task /\ Top(w)'.at = l /\ Top(w)'.i = i
         /\ \A v \in Workers \ {w} : stack'[v] = stack[v]
<1>1. Top(w)'.task = Top(w).task /\ Top(w)'.at = l /\ Top(w)'.i = i
  BY DEF TopAt, Top
<1>2. stack'[w] # <<>> /\ \A v \in Workers \ {w} : stack'[v] = stack[v]
  BY DEF TopAt
<1> QED
  BY <1>1, <1>2 DEF Owes

LEMMA OwingIs ==
  ASSUME NEW u, NEW p
  PROVE  /\ p \in Owing(u) <=> p \in Tasks /\ <<p, u>> \in Edges /\ (p \notin completed \/ Owed(p, u))
         /\ p \in Owing(u)' <=> p \in Tasks /\ <<p, u>> \in Edges /\ (p \notin completed' \/ Owed(p, u)')
  BY DEF Owing

LEMMA OwingReturn ==
  ASSUME Types, Shape, Places, NEW w \in Workers, Return(w), NEW u \in Tasks
  PROVE  Owing(u)' = Owing(u)
<1>0. stack[w] # <<>>
  BY ReturnFacts
<1> PICK t \in Tasks : t = Top(w).task
  BY <1>0, TopFacts
<1> DEFINE S == Successors[t]
<1>1. stack[w] # <<>> /\ Top(w).at \in {"working", "wait"} /\ t \notin completed /\ completed' = completed \cup {t}
  BY ReturnFacts DEF Return
<1>2. t \in Tasks /\ S \in Seq(Tasks)
  BY <1>1, TopFacts
<1>3. PICK l, i : /\ TopAt(w, l, i)
                  /\ (l = "setDone" /\ S = <<>>) \/ (l = "decrement" /\ i = 1)
  BY ReturnFacts
<1>4. /\ Owes(Top(w), u)' <=> \E j \in DOMAIN S : S[j] = u /\ ((l = "decrement" /\ i <= j) \/ (l = "offer" /\ i < j))
      /\ stack'[w] # <<>> /\ Top(w)'.task = t /\ \A v \in Workers \ {w} : stack'[v] = stack[v]
  BY <1>3, OwesNext
<1>5. ASSUME <<t, u>> \in Edges PROVE Owed(t, u)'
  <2>1. u \in ToSet(S)
    BY <1>5 DEF Edges
  <2>2. PICK j \in DOMAIN S : S[j] = u
    BY <2>1 DEF ToSet
  <2>3. 1 <= j /\ S # <<>>
    BY <1>2, <2>2
  <2>4. Owes(Top(w), u)'
    BY <1>3, <1>4, <2>2, <2>3
  <2> QED
    BY <1>4, <2>4 DEF Owed, OwedBy
<1>6. ASSUME NEW p \in Tasks, p # t PROVE Owed(p, u)' <=> Owed(p, u)
  <2>1. ~OwedBy(w, p, u) /\ ~OwedBy(w, p, u)'
    BY <1>4, <1>6 DEF OwedBy
  <2>2. \A v \in Workers \ {w} : OwedBy(v, p, u)' <=> OwedBy(v, p, u)
    BY <1>4 DEF OwedBy, Owes, Top
  <2> QED
    BY <2>1, <2>2 DEF Owed
<1> HIDE DEF S
<1>7. \A p \in Tasks : p \in Owing(u)' <=> p \in Owing(u)
  BY <1>1, <1>5, <1>6, OwingIs
<1> QED
  BY <1>7 DEF Owing

LEMMA OwingOffer ==
  ASSUME Types, Shape, Places, NEW w \in Workers, Offer(w), NEW u \in Tasks
  PROVE  Owing(u)' = Owing(u)
<1> DEFINE t == Top(w).task
           S == Successors[t]
           m == Top(w).i
<1>1. stack[w] # <<>> /\ Top(w).at = "offer" /\ UNCHANGED completed
  BY SuccessorFacts, OfferFacts
<1>2. t \in Tasks /\ S \in Seq(Tasks) /\ m \in Nat
  BY <1>1, TopFacts
<1>3. PICK l, i : /\ TopAt(w, l, i)
                  /\ (l = "setDone" /\ m = Len(S)) \/ (l = "decrement" /\ i = m + 1)
  BY SuccessorFacts
<1>4. /\ Owes(Top(w), u)' <=> \E j \in DOMAIN S : S[j] = u /\ ((l = "decrement" /\ i <= j) \/ (l = "offer" /\ i < j))
      /\ stack'[w] # <<>> /\ Top(w)'.task = t /\ \A v \in Workers \ {w} : stack'[v] = stack[v]
  BY <1>3, OwesNext
<1>5. Owes(Top(w), u) <=> \E j \in DOMAIN S : S[j] = u /\ m < j
  BY <1>1 DEF Owes
<1>6. \A j \in DOMAIN S : j \in Nat /\ j <= Len(S) /\ (m < j <=> m + 1 <= j)
  BY <1>2
<1>7. Owes(Top(w), u)' <=> Owes(Top(w), u)
  <2>1. CASE l = "setDone" /\ m = Len(S)
    <3>1. \A j \in DOMAIN S : ~(m < j)
      BY <1>2, <1>6, <2>1
    <3> QED
      BY <1>4, <1>5, <2>1, <3>1
  <2>2. CASE l = "decrement" /\ i = m + 1
    BY <1>4, <1>5, <1>6, <2>2
  <2> QED
    BY <1>3, <2>1, <2>2
<1>8. \A p \in Tasks : OwedBy(w, p, u)' <=> OwedBy(w, p, u)
  BY <1>1, <1>4, <1>7 DEF OwedBy
<1> QED
  BY <1>1, <1>4, <1>8, OwingKept

\* p counts itself off s.
LEMMA OwingDecrement ==
  ASSUME Types, Shape, Places, NEW w \in Workers, Decrement(w), NEW u \in Tasks
  PROVE  Owing(u)' = IF u = Successor(w) THEN Owing(u) \ {Top(w).task} ELSE Owing(u)
<1>0. stack[w] # <<>>
  BY SuccessorFacts
<1> PICK t \in Tasks : t = Top(w).task
  BY <1>0, TopFacts
<1> DEFINE S == Successors[t]
           m == Top(w).i
<1>1. stack[w] # <<>> /\ Top(w).at = "decrement" /\ UNCHANGED completed
  BY SuccessorFacts DEF Decrement
<1>2. t \in Tasks /\ S \in Seq(Tasks) /\ m \in Nat /\ m \in DOMAIN S /\ Successor(w) = S[m] /\ t \in completed
  BY <1>1, TopFacts DEF Successor, Fits
<1>3. PICK l, i : /\ TopAt(w, l, i)
                  /\ \/ l = "setDone" /\ m = Len(S)
                     \/ l = "decrement" /\ i = m + 1
                     \/ l = "offer" /\ i = m
  BY SuccessorFacts
<1>4. /\ Owes(Top(w), u)' <=> \E j \in DOMAIN S : S[j] = u /\ ((l = "decrement" /\ i <= j) \/ (l = "offer" /\ i < j))
      /\ stack'[w] # <<>> /\ Top(w)'.task = t /\ \A v \in Workers \ {w} : stack'[v] = stack[v]
  BY <1>3, OwesNext
<1>5. Owes(Top(w), u) <=> \E j \in DOMAIN S : S[j] = u /\ m <= j
  BY <1>1 DEF Owes
<1>6. \A j \in DOMAIN S : j \in Nat /\ j <= Len(S) /\ (m < j <=> m + 1 <= j) /\ (m <= j <=> m < j \/ j = m)
  BY <1>2
<1>7. Owes(Top(w), u)' <=> \E j \in DOMAIN S : S[j] = u /\ m < j
  <2>1. CASE l = "setDone" /\ m = Len(S)
    <3>1. \A j \in DOMAIN S : ~(m < j)
      BY <1>2, <1>6, <2>1
    <3> QED
      BY <1>4, <2>1, <3>1
  <2>2. CASE l = "decrement" /\ i = m + 1
    BY <1>4, <1>6, <2>2
  <2>3. CASE l = "offer" /\ i = m
    BY <1>4, <2>3
  <2> QED
    BY <1>3, <2>1, <2>2, <2>3
<1>8. IsInjective(S)
  BY <1>2, GraphAssumption
<1>9. CASE u # Successor(w)
  <2>1. Owes(Top(w), u)' <=> Owes(Top(w), u)
    BY <1>2, <1>5, <1>6, <1>7, <1>9
  <2>2. \A p \in Tasks : OwedBy(w, p, u)' <=> OwedBy(w, p, u)
    BY <1>1, <1>4, <2>1 DEF OwedBy
  <2> QED
    BY <1>1, <1>4, <1>9, <2>2, OwingKept
<1>10. CASE u = Successor(w)
  <2>1. ~Owes(Top(w), u)'
    <3>1. \A j \in DOMAIN S : S[j] = u => j = m
      BY <1>2, <1>8, <1>10 DEF IsInjective
    <3> QED
      BY <1>2, <1>7, <3>1
  <2>2. ASSUME NEW v \in Workers \ {w} PROVE ~OwedBy(v, t, u)'
    <3>1. stack'[v] = stack[v]
      BY <1>4
    <3>2. SUFFICES ASSUME stack[v] # <<>>, Top(v).task = t PROVE FALSE
      BY <3>1 DEF OwedBy, Top
    <3>3. 1 \in DOMAIN stack[v] /\ 1 \in DOMAIN stack[w]
      BY <1>1, <3>2, TopFacts
    <3> QED
      BY <3>2, <3>3, OneFrame DEF Top
  <2>3. ~Owed(t, u)'
    BY <2>1, <2>2 DEF Owed, OwedBy
  <2>4. ASSUME NEW p \in Tasks, p # t PROVE Owed(p, u)' <=> Owed(p, u)
    <3>1. ~OwedBy(w, p, u) /\ ~OwedBy(w, p, u)'
      BY <1>4, <2>4 DEF OwedBy
    <3>2. \A v \in Workers \ {w} : OwedBy(v, p, u)' <=> OwedBy(v, p, u)
      BY <1>4 DEF OwedBy, Owes, Top
    <3> QED
      BY <3>1, <3>2 DEF Owed
  <2> HIDE DEF S, m
  <2>5. \A p \in Tasks : p \in Owing(u)' <=> p \in Owing(u) \ {t}
    BY <1>1, <1>2, <2>3, <2>4, OwingIs
  <2>6. Owing(u)' = Owing(u) \ {t}
    BY <2>5 DEF Owing
  <2> QED
    BY <1>10, <2>6
<1> QED
  BY <1>9, <1>10

LEMMA PendingNext == ASSUME Core, [Next]_vars PROVE \A t \in Tasks : pending'[t] = Cardinality(Owing(t)')
<1> USE DEF Core
<1>0. \A t \in Tasks : pending[t] = Cardinality(Owing(t))
  BY DEF Readiness
<1>1. CASE UNCHANGED <<stack, completed, pending>>
  <2>1. \A t \in Tasks : Owing(t)' = Owing(t)
    BY <1>1 DEF Owing, Owed, OwedBy, Owes, Top
  <2> QED
    BY <1>0, <1>1, <2>1
<1>2. CASE UNCHANGED vars
  BY <1>1, <1>2 DEF vars, taskVars
<1>3. CASE ClientThread
  BY <1>1, <1>3 DEF ClientThread, ClientSchedule, ClientAdmit, ClientPush, ClientJoin, SumFinished, Deactivate,
                    Client, MarkAsScheduled, Admit, PushTo, taskVars
<1>4. ASSUME NEW w \in Workers, ~Busy(w), ~Busy(w)', \A v \in Workers \ {w} : stack'[v] = stack[v], UNCHANGED <<completed, pending>>
      PROVE  \A t \in Tasks : pending'[t] = Cardinality(Owing(t)')
  BY <1>0, <1>4, OwingIdle
<1>5. ASSUME NEW w \in Workers, TakeNextTask(w) \/ Pull(w) \/ Steal(w) PROVE \A t \in Tasks : pending'[t] = Cardinality(Owing(t)')
  <2>1. Source(w) /\ ((\E t : Entered(w, t)) \/ UNCHANGED stack)
    BY <1>5, TakeFacts, PullFacts, TakenFacts
  <2>2. ~Busy(w) /\ UNCHANGED <<completed, pending>>
    BY <2>1 DEF Source, Busy, taskVars
  <2>3. CASE \E t : Entered(w, t)
    <3>1. ~Busy(w)' /\ \A v \in Workers \ {w} : stack'[v] = stack[v]
      BY <2>3 DEF Entered, Busy, Top
    <3> QED
      BY <1>4, <2>2, <3>1
  <2>4. CASE UNCHANGED stack
    BY <1>1, <2>2, <2>4
  <2> QED
    BY <2>1, <2>3, <2>4
<1>6. ASSUME NEW w \in Workers, PutBack(w) PROVE \A t \in Tasks : pending'[t] = Cardinality(Owing(t)')
  BY <1>1, <1>6 DEF PutBack, taskVars
<1>7. ASSUME NEW w \in Workers, Run(w) \/ ScheduleJob(w) \/ AdmitJob(w) \/ PushJob(w) \/ SetDone(w)
      PROVE  \A t \in Tasks : pending'[t] = Cardinality(Owing(t)')
  <2>1. ~Busy(w)
    BY <1>7 DEF Run, ScheduleJob, AdmitJob, PushJob, SetDone, At, Busy
  <2>2. UNCHANGED <<completed, pending>>
    BY <1>7 DEF Run, ScheduleJob, AdmitJob, PushJob, SetDone, MarkAsScheduled, Admit, PushTo, taskVars
  <2>3. \E l, i : TopAt(w, l, i) /\ l \notin {"decrement", "offer"}
    BY <1>7, RunFacts, JobFacts, SuccessorFacts
  <2>4. ~Busy(w)' /\ \A v \in Workers \ {w} : stack'[v] = stack[v]
    BY <2>3 DEF TopAt, Busy, Top
  <2> QED
    BY <1>4, <2>1, <2>2, <2>4
<1>8. ASSUME NEW w \in Workers, CountFinished(w) PROVE \A t \in Tasks : pending'[t] = Cardinality(Owing(t)')
  <2>1. ~Busy(w) /\ UNCHANGED <<completed, pending>>
    BY <1>8 DEF CountFinished, At, Busy, taskVars
  <2>2. Left(w)
    BY <1>8, SuccessorFacts
  <2>3. Len(stack[w]) \in Nat /\ DOMAIN stack[w] = 1 .. Len(stack[w]) /\ stack'[w] \in Seq(Frames)
    BY <2>2 DEF Types, Left
  <2>4. ASSUME Busy(w)' PROVE FALSE
    <3>1. 1 \in DOMAIN stack'[w] /\ stack'[w][1].at \in {"decrement", "offer"}
      BY <2>3, <2>4 DEF Busy, Top
    <3>2. 1 \in 1 .. Len(stack[w]) - 1 /\ stack'[w][1] = stack[w][2] /\ 2 \in DOMAIN stack[w]
      BY <2>2, <2>3, <3>1 DEF Left
    <3>3. stack[w][2].at = "wait"
      BY <3>2 DEF Shape
    <3> QED
      BY <3>1, <3>2, <3>3
  <2> QED
    BY <1>4, <2>1, <2>2, <2>4 DEF Left
<1>9. ASSUME NEW w \in Workers, Return(w) \/ Offer(w) PROVE \A t \in Tasks : pending'[t] = Cardinality(Owing(t)')
  <2>1. UNCHANGED pending
    BY <1>9, OfferFacts DEF Return
  <2> QED
    BY <1>0, <1>9, <2>1, OwingReturn, OwingOffer
<1>10. ASSUME NEW w \in Workers, Decrement(w), NEW t \in Tasks PROVE pending'[t] = Cardinality(Owing(t)')
  <2>1. stack[w] # <<>> /\ Top(w).at = "decrement" /\ pending' = [pending EXCEPT ![Successor(w)] = @ - 1]
    BY <1>10, SuccessorFacts DEF Decrement
  <2>2. Successor(w) \in Tasks /\ Top(w).task \in Owing(Successor(w)) /\ pending[Successor(w)] >= 1
    BY <2>1, TopFacts, DecrementOwing
  <2>3. pending \in [Tasks -> Nat]
    BY DEF Types
  <2>4. CASE t # Successor(w)
    <3>1. Owing(t)' = Owing(t) /\ pending'[t] = pending[t]
      BY <1>10, <2>1, <2>3, <2>4, OwingDecrement
    <3> QED
      BY <1>0, <3>1
  <2>5. CASE t = Successor(w)
    <3>1. Owing(t)' = Owing(t) \ {Top(w).task} /\ pending'[t] = pending[t] - 1
      BY <1>10, <2>1, <2>2, <2>3, <2>5, OwingDecrement
    <3>2. Cardinality(Owing(t) \ {Top(w).task}) = Cardinality(Owing(t)) - 1
      BY <2>2, <2>5, OwingFinite, FS_RemoveElement
    <3> QED
      BY <1>0, <3>1, <3>2
  <2> QED
    BY <2>4, <2>5
<1> QED
  BY <1>2, <1>3, <1>5, <1>6, <1>7, <1>8, <1>9, <1>10 DEF Next, Worker, Finished

\* The innermost frame after a step.
LEMMA AtNext ==
  ASSUME NEW w \in Workers, NEW l, NEW i, TopAt(w, l, i)
  PROVE  /\ \A x : At(w, x)' <=> l = x
         /\ Job(w)' = Jobs[Top(w).task][i] /\ Successor(w)' = Successors[Top(w).task][i]
         /\ stack'[w] # <<>> /\ Top(w)'.task = Top(w).task /\ Top(w)'.at = l /\ Top(w)'.i = i
<1>1. stack'[w] # <<>> /\ Top(w)'.task = Top(w).task /\ Top(w)'.at = l /\ Top(w)'.i = i
  BY DEF TopAt, Top
<1> QED
  BY <1>1 DEF At, Job, Successor

LEMMA LeftNext ==
  ASSUME Types, Shape, NEW w \in Workers, Left(w), stack'[w] # <<>>
  PROVE  2 \in DOMAIN stack[w] /\ Top(w)' = stack[w][2] /\ Top(w)'.at = "wait"
<1>1. Len(stack[w]) \in Nat /\ DOMAIN stack[w] = 1 .. Len(stack[w]) /\ stack'[w] \in Seq(Frames)
  BY DEF Types, Left
<1>2. 1 \in DOMAIN stack'[w]
  BY <1>1
<1>3. 1 \in 1 .. Len(stack[w]) - 1 /\ stack'[w][1] = stack[w][2] /\ 2 \in DOMAIN stack[w]
  BY <1>1, <1>2 DEF Left
<1>4. stack[w][2].at = "wait"
  BY <1>3 DEF Shape
<1> QED
  BY <1>3, <1>4 DEF Top

\* A task that is ready stays ready.
LEMMA ZeroStays == ASSUME Core, [Next]_vars, NEW t \in Tasks, pending[t] = 0 PROVE pending'[t] = 0
<1> USE DEF Core
<1>1. CASE UNCHANGED pending
  BY <1>1
<1>2. ASSUME NEW w \in Workers, Decrement(w) PROVE pending'[t] = 0
  <2>1. pending' = [pending EXCEPT ![Successor(w)] = @ - 1] /\ pending[Successor(w)] >= 1
    BY <1>2, SuccessorFacts, DecrementOwing DEF Decrement
  <2>2. t # Successor(w) /\ pending \in [Tasks -> Nat]
    BY <2>1 DEF Types
  <2> QED
    BY <2>1, <2>2
<1>3. CASE ClientThread
  BY <1>1, <1>3 DEF ClientThread, ClientSchedule, ClientAdmit, ClientPush, ClientJoin, SumFinished, Deactivate,
                    MarkAsScheduled, Admit, PushTo, taskVars
<1>4. ASSUME NEW w \in Workers, Offer(w) PROVE pending'[t] = 0
  BY SMTT(60), <1>1, <1>4, OfferFacts
<1>5. ASSUME NEW w \in Workers, Worker(w), ~Decrement(w), ~Offer(w) PROVE pending'[t] = 0
  BY <1>1, <1>5 DEF Worker, TakeNextTask, Pull, Steal, PutBack, Run, ScheduleJob, AdmitJob, PushJob, Return, SetDone,
                    CountFinished, MarkAsScheduled, Admit, PushTo, taskVars
<1> QED
  BY <1>1, <1>2, <1>3, <1>4, <1>5 DEF Next, Finished, vars, taskVars

\* A worker changes its own stack only, and nothing of the client's.
LEMMA WorkerKeeps ==
  ASSUME Core, NEW w \in Workers, Worker(w)
  PROVE  /\ UNCHANGED <<active, clientVars, batch, client, sum>>
         /\ \A v \in Workers \ {w} : stack'[v] = stack[v]
<1> USE DEF Core
<1>1. CASE TakeNextTask(w) \/ Pull(w) \/ Steal(w)
  BY <1>1, TakeFacts, PullFacts, TakenFacts DEF Source, Entered, clientVars
<1>2. CASE PutBack(w)
  BY <1>2 DEF PutBack, clientVars
<1>3. CASE Run(w) \/ ScheduleJob(w) \/ AdmitJob(w) \/ PushJob(w) \/ Return(w) \/ Decrement(w) \/ Offer(w) \/ SetDone(w)
  <2>1. \E l, i : TopAt(w, l, i)
    BY <1>3, RunFacts, JobFacts, ReturnFacts, SuccessorFacts
  <2>2. UNCHANGED <<active, clientVars>>
    BY <1>3, OfferFacts DEF Run, ScheduleJob, AdmitJob, PushJob, Return, Decrement, SetDone,
                            WorkerOnly, MarkAsScheduled, Admit
  <2> QED
    BY <2>1, <2>2 DEF TopAt, clientVars
<1>4. CASE CountFinished(w)
  BY <1>4, SuccessorFacts DEF CountFinished, WorkerOnly, Left, clientVars
<1> QED
  BY <1>1, <1>2, <1>3, <1>4 DEF Worker

\* The client touches no stack.
LEMMA ClientKeeps ==
  ASSUME ClientThread
  PROVE  UNCHANGED <<stack, batch, pending, started, completed, done, finished, nextTask, stolen>>
  BY DEF ClientThread, ClientSchedule, ClientAdmit, ClientPush, ClientJoin, SumFinished, Deactivate,
         Client, MarkAsScheduled, Admit, PushTo, taskVars, queueVars

LEMMA SameStack ==
  ASSUME UNCHANGED stack
  PROVE  \A v \in Workers : /\ Top(v)' = Top(v) /\ Job(v)' = Job(v) /\ Successor(v)' = Successor(v)
                            /\ \A l : At(v, l)' <=> At(v, l)
  BY DEF Top, Job, Successor, At

\* What is about to be enqueued is ready.
Ready ==
  /\ \A t \in enqueued : pending[t] = 0
  /\ client.at = "push" => pending[batch[client.i]] = 0
  /\ \A w \in Workers : (At(w, "push") => pending[Job(w)] = 0) /\ (At(w, "offer") => pending[Successor(w)] = 0)

LEMMA ReadyEnqueued ==
  ASSUME Core, [Next]_vars, NEW t \in enqueued'
  PROVE  pending'[t] = 0
<1> USE DEF Core
<1>1. t \in Tasks
  BY TypesNext DEF Types
<1> SUFFICES ASSUME t \notin enqueued PROVE pending[t] = 0
  BY <1>1, ZeroStays DEF Readiness
<1>2. CASE ClientPush
  BY <1>2 DEF ClientPush, Client, PushTo, Readiness
<1>3. ASSUME NEW w \in Workers, PushJob(w) PROVE pending[t] = 0
  <2>1. At(w, "push") /\ t = Job(w)
    BY <1>3 DEF PushJob, PushTo
  <2> QED
    BY <2>1 DEF Readiness
<1>4. ASSUME NEW w \in Workers, Offer(w) PROVE pending[t] = 0
  <2>1. At(w, "offer") /\ t = Successor(w)
    BY <1>4, OfferFacts DEF Offer
  <2> QED
    BY <2>1 DEF Readiness
<1>5. CASE UNCHANGED enqueued
  BY <1>5
<1>6. CASE ClientThread /\ ~ClientPush
  BY SMTT(60), <1>5, <1>6 DEF ClientThread, ClientSchedule, ClientAdmit, ClientJoin, SumFinished, Deactivate,
                    MarkAsScheduled, Admit, taskVars
<1>7. ASSUME NEW w \in Workers, Worker(w), ~PushJob(w), ~Offer(w) PROVE pending[t] = 0
  BY <1>5, <1>7 DEF Worker, TakeNextTask, Pull, Steal, PutBack, Run, ScheduleJob, AdmitJob, Return, Decrement, SetDone,
                    CountFinished, MarkAsScheduled, Admit, taskVars
<1> QED
  BY <1>2, <1>3, <1>4, <1>5, <1>6, <1>7 DEF Next, Finished, vars, taskVars

LEMMA ReadyPushes ==
  ASSUME Core, [Next]_vars
  PROVE  /\ (client.at = "push" => pending[batch[client.i]] = 0)'
         /\ \A w \in Workers : (At(w, "push") => pending[Job(w)] = 0)' /\ (At(w, "offer") => pending[Successor(w)] = 0)'
<1> USE DEF Core
<1>1. ASSUME client'.at = "push" PROVE pending'[batch'[client'.i]] = 0
  <2>1. CASE UNCHANGED <<client, batch>>
    <3>1. batch[client.i] \in Tasks /\ pending[batch[client.i]] = 0
      BY <1>1, <2>1, BatchFacts DEF Readiness
    <3> QED
      BY <2>1, <3>1, ZeroStays
  <2>2. CASE ClientThread
    <3>1. ClientAdmit /\ pending[batch[client.i]] = 0 /\ client'.i = client.i
      BY <1>1, <2>2 DEF ClientThread, ClientSchedule, ClientAdmit, ClientPush, ClientJoin, SumFinished, Deactivate,
                        Client, Continue
    <3>2. UNCHANGED <<batch, pending>>
      BY <2>2, ClientKeeps
    <3> QED
      BY <3>1, <3>2
  <2> QED
    BY <2>1, <2>2, WorkerKeeps DEF Next, Finished, vars, clientVars
<1>2. ASSUME NEW w \in Workers, stack'[w] = stack[w]
      PROVE  (At(w, "push") => pending[Job(w)] = 0)' /\ (At(w, "offer") => pending[Successor(w)] = 0)'
  <2>1. Job(w)' = Job(w) /\ Successor(w)' = Successor(w) /\ \A l : At(w, l)' <=> At(w, l)
    BY <1>2, Others
  <2>2. ASSUME At(w, "push") PROVE pending'[Job(w)] = 0
    <3>1. Job(w) \in Tasks
      BY <2>2, TopFacts DEF At
    <3> QED
      BY <2>2, <3>1, ZeroStays DEF Readiness
  <2>3. ASSUME At(w, "offer") PROVE pending'[Successor(w)] = 0
    <3>1. Successor(w) \in Tasks
      BY <2>3, TopFacts DEF At
    <3> QED
      BY <2>3, <3>1, ZeroStays DEF Readiness
  <2> QED
    BY <2>1, <2>2, <2>3
<1>3. ASSUME NEW w \in Workers, Worker(w)
      PROVE  (At(w, "push") => pending[Job(w)] = 0)' /\ (At(w, "offer") => pending[Successor(w)] = 0)'
  <2>1. ASSUME NEW l, NEW i, l \notin {"push", "offer"}, TopAt(w, l, i)
        PROVE  (At(w, "push") => pending[Job(w)] = 0)' /\ (At(w, "offer") => pending[Successor(w)] = 0)'
    BY <2>1, AtNext
  <2>2. CASE Run(w) \/ ScheduleJob(w) \/ PushJob(w) \/ Return(w) \/ Offer(w) \/ SetDone(w)
    <3>1. \E l, i : l \notin {"push", "offer"} /\ TopAt(w, l, i)
      BY <2>2, RunFacts, JobFacts, ReturnFacts, SuccessorFacts
    <3> QED
      BY <2>1, <3>1
  <2>3. CASE AdmitJob(w)
    <3>1. CASE pending[Job(w)] = 0 /\ TopAt(w, "push", Top(w).i)
      <4>1. Job(w)' = Job(w) /\ ~At(w, "offer")' /\ UNCHANGED pending
        BY <2>3, <3>1, AtNext DEF Job, AdmitJob, Admit, taskVars
      <4> QED
        BY <3>1, <4>1
    <3>2. CASE ~(pending[Job(w)] = 0 /\ TopAt(w, "push", Top(w).i))
      <4>1. \E l, i : l \notin {"push", "offer"} /\ TopAt(w, l, i)
        BY <2>3, <3>2, JobFacts
      <4> QED
        BY <2>1, <4>1
    <3> QED
      BY <3>1, <3>2
  <2>4. CASE Decrement(w)
    <3>1. CASE pending[Successor(w)] = 1 /\ TopAt(w, "offer", Top(w).i)
      <4>1. Successor(w)' = Successor(w) /\ ~At(w, "push")'
        BY <3>1, AtNext DEF Successor
      <4>2. pending' = [pending EXCEPT ![Successor(w)] = @ - 1] /\ Successor(w) \in Tasks /\ pending \in [Tasks -> Nat]
        BY <2>4, SuccessorFacts, TopFacts DEF Decrement, Types
      <4> QED
        BY <3>1, <4>1, <4>2
    <3>2. CASE ~(pending[Successor(w)] = 1 /\ TopAt(w, "offer", Top(w).i))
      <4>1. \E l, i : l \notin {"push", "offer"} /\ TopAt(w, l, i)
        BY <2>4, <3>2, SuccessorFacts
      <4> QED
        BY <2>1, <4>1
    <3> QED
      BY <3>1, <3>2
  <2>5. CASE TakeNextTask(w) \/ Pull(w) \/ Steal(w)
    <3>1. (\E t : Entered(w, t)) \/ stack'[w] = stack[w]
      BY <2>5, TakeFacts, PullFacts, TakenFacts
    <3>2. ASSUME NEW t, Entered(w, t) PROVE ~At(w, "push")' /\ ~At(w, "offer")'
      BY <3>2 DEF Entered, At, Top
    <3> QED
      BY <1>2, <3>1, <3>2
  <2>6. CASE PutBack(w)
    BY <1>2, <2>6 DEF PutBack
  <2>7. CASE CountFinished(w)
    <3>1. ~At(w, "push")' /\ ~At(w, "offer")'
      BY <2>7, SuccessorFacts, LeftNext DEF At
    <3> QED
      BY <3>1
  <2> QED
    BY <1>3, <2>2, <2>3, <2>4, <2>5, <2>6, <2>7 DEF Worker
<1>4. ASSUME NEW w \in Workers
      PROVE (At(w, "push") => pending[Job(w)] = 0)' /\ (At(w, "offer") => pending[Successor(w)] = 0)'
  <2>1. CASE stack'[w] = stack[w]
    BY <1>2, <2>1
  <2>2. CASE Worker(w)
    BY <1>3, <2>2
  <2>3. CASE stack'[w] # stack[w] /\ ~Worker(w)
    BY <2>3, ClientKeeps, WorkerKeeps DEF Next, Finished, vars
  <2> QED
    BY <2>1, <2>2, <2>3
<1> QED
  BY <1>1, <1>4

\* Who is about to enqueue t.
ClientOn(t)    == client.at \in {"admit", "push"} /\ batch[client.i] = t
WorkerOn(w, t) == \/ (At(w, "admit") \/ At(w, "push")) /\ Job(w) = t
                  \/ At(w, "offer") /\ Successor(w) = t

LEMMA AboutIs ==
  ASSUME NEW t
  PROVE  /\ AboutToEnqueue(t) <=> ClientOn(t) \/ \E w \in Workers : WorkerOn(w, t)
         /\ AboutToEnqueue(t)' <=> ClientOn(t)' \/ \E w \in Workers : WorkerOn(w, t)'
  BY DEF AboutToEnqueue, ClientOn, WorkerOn

LEMMA OnStays ==
  ASSUME NEW v \in Workers, stack'[v] = stack[v], NEW t
  PROVE  WorkerOn(v, t)' <=> WorkerOn(v, t)
  BY Others DEF WorkerOn

\* Nobody forgets a task that is marked and ready.
LEMMA OfferedNext ==
  ASSUME Core, [Next]_vars, NEW t \in scheduled', t \notin enqueued', pending'[t] = 0
  PROVE  AboutToEnqueue(t)'
<1> USE DEF Core
<1>0. /\ (t \in scheduled /\ pending[t] = 0 /\ t \notin enqueued) => ClientOn(t) \/ \E w \in Workers : WorkerOn(w, t)
  BY AboutIs DEF Readiness
<1>1. CASE ClientThread
  <2>1. UNCHANGED <<stack, pending, batch>>
    BY <1>1, ClientKeeps
  <2>2. \A w \in Workers : WorkerOn(w, t)' <=> WorkerOn(w, t)
    BY <2>1, OnStays
  <2>3. SUFFICES ASSUME ~ClientOn(t)' PROVE \E w \in Workers : WorkerOn(w, t)
    BY <2>2, AboutIs
  <2>4. t \notin enqueued
    BY <1>1 DEF ClientThread, ClientSchedule, ClientAdmit, ClientPush, ClientJoin, SumFinished, Deactivate,
                MarkAsScheduled, Admit, PushTo, taskVars
  <2>5. t \in scheduled
    <3>1. CASE ClientSchedule
      <4>1. scheduled' = scheduled \cup {batch[client.i]} /\ client'.at = "admit" /\ client'.i = client.i
        BY <3>1 DEF ClientSchedule, MarkAsScheduled, Client
      <4>2. t # batch[client.i]
        BY <2>1, <2>3, <4>1 DEF ClientOn
      <4> QED
        BY <4>1, <4>2
    <3>2. CASE ~ClientSchedule
      BY <1>1, <3>2 DEF ClientThread, ClientAdmit, ClientPush, ClientJoin, SumFinished, Deactivate, Admit, PushTo, taskVars
    <3> QED
      BY <3>1, <3>2
  <2>6. ~ClientOn(t)
    <3>1. CASE ClientAdmit
      <4>1. CASE pending[batch[client.i]] = 0
        <5>1. client'.at = "push" /\ client'.i = client.i /\ client.at = "admit"
          BY <3>1, <4>1 DEF ClientAdmit, Client
        <5> QED
          BY <2>1, <2>3, <5>1 DEF ClientOn
      <4>2. CASE pending[batch[client.i]] # 0
        BY <2>1, <4>2 DEF ClientOn
      <4> QED
        BY <4>1, <4>2
    <3>2. CASE ClientPush
      <4>1. enqueued' = enqueued \cup {batch[client.i]}
        BY <3>2 DEF ClientPush, PushTo
      <4> QED
        BY <4>1 DEF ClientOn
    <3>3. CASE client.at \notin {"admit", "push"}
      BY <3>3 DEF ClientOn
    <3> QED
      BY <1>1, <3>1, <3>2, <3>3 DEF ClientThread, ClientSchedule, ClientJoin, SumFinished, Deactivate, Client
  <2> QED
    BY <1>0, <2>1, <2>4, <2>5, <2>6
<1>2. ASSUME NEW w \in Workers, Worker(w) PROVE AboutToEnqueue(t)'
  <2>1. UNCHANGED <<client, batch>> /\ \A v \in Workers \ {w} : stack'[v] = stack[v]
    BY <1>2, WorkerKeeps
  <2>2. ClientOn(t)' <=> ClientOn(t)
    BY <2>1 DEF ClientOn
  <2>3. \A v \in Workers \ {w} : WorkerOn(v, t)' <=> WorkerOn(v, t)
    BY <2>1, OnStays
  <2>4. ASSUME t \in scheduled, pending[t] = 0, t \notin enqueued, ~WorkerOn(w, t) PROVE AboutToEnqueue(t)'
    BY <1>0, <2>2, <2>3, <2>4, AboutIs
  <2>5. ASSUME WorkerOn(w, t)' PROVE AboutToEnqueue(t)'
    BY <2>5, AboutIs
  <2>6. CASE TakeNextTask(w) \/ Pull(w) \/ Steal(w)
    <3>1. Source(w)
      BY <2>6, TakeFacts, PullFacts
    <3>2. ~WorkerOn(w, t)
      BY <3>1 DEF Source, WorkerOn, At
    <3> QED
      BY <2>4, <3>1, <3>2 DEF Source, taskVars
  <2>7. CASE PutBack(w)
    <3>1. UNCHANGED <<stack, scheduled, pending, enqueued>>
      BY <2>7 DEF PutBack, taskVars
    <3>2. WorkerOn(w, t)' <=> WorkerOn(w, t)
      BY <3>1, OnStays
    <3> QED
      BY <2>4, <2>5, <3>1, <3>2
  <2>8. CASE Run(w) \/ Return(w) \/ SetDone(w) \/ CountFinished(w)
    <3>1. ~WorkerOn(w, t)
      BY <2>8 DEF Run, Return, SetDone, CountFinished, At, WorkerOn
    <3>2. UNCHANGED <<scheduled, pending, enqueued>>
      BY <2>8 DEF Run, Return, SetDone, CountFinished, taskVars
    <3> QED
      BY <2>4, <3>1, <3>2
  <2>9. CASE ScheduleJob(w)
    <3>1. /\ Top(w).at = "schedule" /\ TopAt(w, "admit", Top(w).i) /\ scheduled' = scheduled \cup {Job(w)}
          /\ UNCHANGED <<pending, enqueued>>
      BY <2>9, JobFacts DEF ScheduleJob, MarkAsScheduled
    <3>2. ~WorkerOn(w, t)
      BY <3>1 DEF WorkerOn, At
    <3>3. Job(w)' = Job(w) /\ At(w, "admit")'
      BY <3>1, AtNext DEF Job
    <3> QED
      BY <2>4, <2>5, <3>1, <3>2, <3>3 DEF WorkerOn
  <2>10. CASE AdmitJob(w)
    <3>1. UNCHANGED <<pending, enqueued, scheduled>> /\ Top(w).at = "admit"
      BY <2>10, JobFacts DEF AdmitJob, Admit, taskVars
    <3>2. CASE WorkerOn(w, t)
      <4>1. Job(w) = t /\ pending[Job(w)] = 0
        BY <3>1, <3>2 DEF WorkerOn, At
      <4>2. TopAt(w, "push", Top(w).i)
        BY <2>10, <4>1, JobFacts
      <4>3. Job(w)' = t /\ At(w, "push")'
        BY <4>1, <4>2, AtNext DEF Job
      <4> QED
        BY <2>5, <4>3 DEF WorkerOn
    <3> QED
      BY <2>4, <3>1, <3>2
  <2>11. CASE PushJob(w)
    <3>1. UNCHANGED <<pending, scheduled>> /\ Top(w).at = "push" /\ enqueued' = enqueued \cup {Job(w)}
      BY <2>11, JobFacts DEF PushJob, PushTo
    <3>2. ~WorkerOn(w, t)
      BY <3>1 DEF WorkerOn, At
    <3> QED
      BY <2>4, <3>1, <3>2
  <2>12. CASE Decrement(w)
    <3>1. /\ UNCHANGED <<enqueued, scheduled>> /\ Top(w).at = "decrement" /\ Successor(w) \in Tasks
          /\ pending' = [pending EXCEPT ![Successor(w)] = @ - 1] /\ pending \in [Tasks -> Nat]
      BY <2>12, SuccessorFacts, TopFacts DEF Decrement, Types
    <3>2. ~WorkerOn(w, t)
      BY <3>1 DEF WorkerOn, At
    <3>3. CASE t = Successor(w)
      <4>1. pending[Successor(w)] = 1
        BY <3>1, <3>3
      <4>2. TopAt(w, "offer", Top(w).i)
        BY <2>12, <4>1, SuccessorFacts
      <4>3. Successor(w)' = Successor(w) /\ At(w, "offer")'
        BY <4>2, AtNext DEF Successor
      <4> QED
        BY <2>5, <3>3, <4>3 DEF WorkerOn
    <3>4. CASE t # Successor(w)
      <4>1. pending[t] = 0
        BY <3>1, <3>4 DEF Types
      <4> QED
        BY <2>4, <3>1, <3>2, <4>1
    <3> QED
      BY <3>3, <3>4
  <2>13. CASE Offer(w)
    <3>1. /\ UNCHANGED <<pending, scheduled>> /\ Top(w).at = "offer"
          /\ Successor(w) \in scheduled => Successor(w) \in enqueued'
          /\ enqueued \subseteq enqueued'
      BY <2>13, OfferFacts, SuccessorFacts
    <3>2. ~WorkerOn(w, t)
      BY <3>1 DEF WorkerOn, At
    <3> QED
      BY <2>4, <3>1, <3>2
  <2> QED
    BY <1>2, <2>6, <2>7, <2>8, <2>9, <2>10, <2>11, <2>12, <2>13 DEF Worker
<1>3. CASE UNCHANGED vars
  <2>1. UNCHANGED <<stack, client, batch, scheduled, enqueued, pending>>
    BY <1>3 DEF vars, taskVars, clientVars
  <2>2. (ClientOn(t)' <=> ClientOn(t)) /\ \A w \in Workers : WorkerOn(w, t)' <=> WorkerOn(w, t)
    BY <2>1, OnStays DEF ClientOn
  <2> QED
    BY <1>0, <2>1, <2>2, AboutIs
<1> QED
  BY <1>1, <1>2, <1>3 DEF Next, Finished

LEMMA ReadinessNext == ASSUME Core, [Next]_vars PROVE Readiness'
<1>1. (\A t \in Tasks : pending[t] = Cardinality(Owing(t)))'
  BY PendingNext
<1>2. (\A t \in enqueued : pending[t] = 0)'
  BY ReadyEnqueued
<1>3. (\A t \in scheduled \ enqueued : pending[t] = 0 => AboutToEnqueue(t))'
  BY OfferedNext
<1> QED
  BY <1>1, <1>2, <1>3, ReadyPushes DEF Readiness

----------------------------------------------------------------------------
(* Marks and the counter of the tasks.                                     *)

\* Two workers have no job in common, and none with the client.
LEMMA JobsApart ==
  ASSUME Types, Shape, Places, NEW v \in Workers, NEW w \in Workers, v # w, stack[v] # <<>>, stack[w] # <<>>
  PROVE  ToSet(Jobs[Top(v).task]) \cap ToSet(Jobs[Top(w).task]) = {}
<1>1. 1 \in DOMAIN stack[v] /\ 1 \in DOMAIN stack[w] /\ Top(v).task \in Tasks /\ Top(w).task \in Tasks
  BY TopFacts
<1>2. Top(v).task # Top(w).task
  BY <1>1, OneFrame DEF Top
<1> QED
  BY <1>1, <1>2, JobAssumption

LEMMA JobsSpawned ==
  ASSUME NEW u \in Tasks
  PROVE  /\ Jobs[u] \in Seq(Tasks) /\ IsInjective(Jobs[u]) /\ ToSet(Jobs[u]) \subseteq Spawned
         /\ \A j \in DOMAIN Jobs[u] : Jobs[u][j] \in ToSet(Jobs[u]) /\ j \in Nat
<1>1. Jobs[u] \in Seq(Tasks) /\ IsInjective(Jobs[u])
  BY JobAssumption
<1>2. ToSet(Jobs[u]) \subseteq Spawned
  BY DEF Spawned
<1>3. \A j \in DOMAIN Jobs[u] : Jobs[u][j] \in ToSet(Jobs[u]) /\ j \in Nat
  BY <1>1 DEF ToSet
<1> QED
  BY <1>1, <1>2, <1>3

\* The marks only grow, and one task is marked at a time.
LEMMA MarkNext ==
  ASSUME Core, [Next]_vars
  PROVE  /\ started \subseteq started' /\ done \subseteq done' /\ scheduled \subseteq scheduled'
         /\ \/ UNCHANGED scheduled
            \/ ClientSchedule /\ scheduled' = scheduled \cup {batch[client.i]}
            \/ \E w \in Workers : ScheduleJob(w) /\ scheduled' = scheduled \cup {Job(w)}
<1> USE DEF Core
<1>1. CASE ClientSchedule
  BY <1>1 DEF ClientSchedule, MarkAsScheduled
<1>2. CASE ClientThread /\ ~ClientSchedule
  BY <1>2 DEF ClientThread, ClientAdmit, ClientPush, ClientJoin, SumFinished, Deactivate, Admit, PushTo, taskVars
<1>3. ASSUME NEW w \in Workers, ScheduleJob(w)
      PROVE  /\ started \subseteq started' /\ done \subseteq done' /\ scheduled' = scheduled \cup {Job(w)}
  BY <1>3 DEF ScheduleJob, MarkAsScheduled
<1>4. ASSUME NEW w \in Workers, Offer(w)
      PROVE  UNCHANGED <<started, done, scheduled>>
  BY SMTT(60), <1>4, OfferFacts
<1>5. ASSUME NEW w \in Workers, Worker(w), ~ScheduleJob(w), ~Offer(w)
      PROVE  started \subseteq started' /\ done \subseteq done' /\ UNCHANGED scheduled
  BY <1>5 DEF Worker, TakeNextTask, Pull, Steal, PutBack, Run, AdmitJob, PushJob, Return, Decrement, SetDone,
              CountFinished, Admit, PushTo, taskVars
<1> QED
  BY <1>1, <1>2, <1>3, <1>4, <1>5 DEF Next, Finished, vars, taskVars

\* What a task may be that is marked in a step.
LEMMA NewMark ==
  ASSUME Core, [Next]_vars, NEW t \in scheduled' \ scheduled
  PROVE  \/ ClientSchedule /\ t = batch[client.i] /\ client.i \in DOMAIN batch /\ t \notin Spawned
         \/ \E w \in Workers : /\ ScheduleJob(w) /\ t = Job(w) /\ stack[w] # <<>> /\ Top(w).at = "schedule"
                               /\ t \in ToSet(Jobs[Top(w).task]) /\ Top(w).task \in Tasks /\ Top(w).task \in started
                               /\ Top(w).i \in DOMAIN Jobs[Top(w).task] /\ TopAt(w, "admit", Top(w).i)
<1> USE DEF Core
<1>1. CASE ClientSchedule /\ scheduled' = scheduled \cup {batch[client.i]}
  BY <1>1, BatchFacts DEF ClientSchedule, Client
<1>2. ASSUME NEW w \in Workers, ScheduleJob(w), scheduled' = scheduled \cup {Job(w)}
      PROVE  /\ ScheduleJob(w) /\ t = Job(w) /\ stack[w] # <<>> /\ Top(w).at = "schedule"
             /\ t \in ToSet(Jobs[Top(w).task]) /\ Top(w).task \in Tasks /\ Top(w).task \in started
             /\ Top(w).i \in DOMAIN Jobs[Top(w).task] /\ TopAt(w, "admit", Top(w).i)
  <2>1. t = Job(w)
    BY <1>2
  <2>2. stack[w] # <<>> /\ Top(w).at = "schedule" /\ TopAt(w, "admit", Top(w).i)
    BY <1>2, JobFacts
  <2>3. Fits(Top(w), started, completed, done) /\ Job(w) \in ToSet(Jobs[Top(w).task])
        /\ Top(w).task \in Tasks /\ Top(w).i \in DOMAIN Jobs[Top(w).task]
    BY <2>2, TopFacts
  <2>4. Top(w).task \in started
    BY <2>2, <2>3 DEF Fits
  <2> QED
    BY <1>2, <2>1, <2>2, <2>3, <2>4
<1> QED
  BY <1>1, <1>2, MarkNext

LEMMA UnstartedNext ==
  ASSUME Core, [Next]_vars, NEW u \in Tasks \ started'
  PROVE  ToSet(Jobs[u]) \cap scheduled' = {}
<1> USE DEF Core
<1>1. u \notin started /\ ToSet(Jobs[u]) \cap scheduled = {}
  BY MarkNext DEF Scheduling
<1> SUFFICES ASSUME NEW t \in ToSet(Jobs[u]), t \in scheduled' \ scheduled PROVE FALSE
  BY <1>1
<1>2. t \in Spawned
  BY JobsSpawned
<1>3. PICK w \in Workers : t \in ToSet(Jobs[Top(w).task]) /\ Top(w).task \in Tasks /\ Top(w).task \in started
  BY <1>2, NewMark
<1> QED
  BY <1>1, <1>3, JobAssumption

LEMMA CompletedNext ==
  ASSUME Core, [Next]_vars, NEW u \in completed'
  PROVE  ToSet(Jobs[u]) \subseteq done'
<1> USE DEF Core
<1>1. done \subseteq done'
  BY MarkNext
<1>2. CASE u \in completed
  BY <1>1, <1>2 DEF Scheduling
<1>3. ASSUME u \notin completed, NEW w \in Workers, Return(w) PROVE ToSet(Jobs[u]) \subseteq done'
  BY <1>1, <1>3, ReturnFacts DEF Return
<1>4. ASSUME u \notin completed, NEW w \in Workers, Offer(w) PROVE FALSE
  BY SMTT(60), <1>4, OfferFacts
<1>5. ASSUME u \notin completed, NEW w \in Workers, Worker(w), ~Return(w), ~Offer(w) PROVE FALSE
  BY <1>5 DEF Worker, TakeNextTask, Pull, Steal, PutBack, Run, ScheduleJob, AdmitJob, PushJob, Decrement, SetDone,
              CountFinished, MarkAsScheduled, Admit, PushTo, taskVars
<1> QED
  BY <1>2, <1>3, <1>4, <1>5, ClientKeeps DEF Next, Finished, vars, taskVars

\* Where a worker's list of jobs stands after a step.
LEMMA ListNext ==
  ASSUME Core, [Next]_vars, NEW w \in Workers, Worker(w), stack'[w] # <<>>, Top(w)'.at \in {"schedule", "admit", "push"},
         stack'[w] # stack[w]
  PROVE  /\ stack[w] # <<>> /\ Top(w)'.task = Top(w).task /\ Top(w).task \in Tasks
         /\ \/ Run(w) /\ Top(w).task \notin started
            \/ ScheduleJob(w) /\ Top(w).at = "schedule" /\ Top(w)'.at = "admit" /\ Top(w)'.i = Top(w).i
            \/ AdmitJob(w) /\ Top(w).at = "admit" /\ Top(w)'.at = "push" /\ Top(w)'.i = Top(w).i
            \/ (AdmitJob(w) \/ PushJob(w)) /\ Top(w).at \in {"admit", "push"} /\ Top(w)'.at = "schedule" /\ Top(w)'.i = Top(w).i + 1
<1> USE DEF Core
<1>1. ASSUME NEW l, NEW i, TopAt(w, l, i)
      PROVE  Top(w)'.task = Top(w).task /\ Top(w)'.at = l /\ Top(w)'.i = i
  BY <1>1, AtNext
<1>2. CASE Run(w)
  <2>1. stack[w] # <<>> /\ Top(w).task \in Tasks \ started /\ \E l, i : TopAt(w, l, i)
    BY <1>2, RunFacts
  <2> QED
    BY <1>1, <1>2, <2>1
<1>3. CASE ScheduleJob(w)
  <2>1. stack[w] # <<>> /\ Top(w).at = "schedule" /\ TopAt(w, "admit", Top(w).i) /\ Top(w).task \in Tasks
    BY <1>3, JobFacts, TopFacts
  <2> QED
    BY <1>1, <1>3, <2>1
<1>4. CASE AdmitJob(w)
  <2>1. /\ stack[w] # <<>> /\ Top(w).at = "admit" /\ Top(w).task \in Tasks
        /\ TopAt(w, "push", Top(w).i) \/ TopAt(w, "schedule", Top(w).i + 1) \/ TopAt(w, "wait", 1)
    BY <1>4, JobFacts, TopFacts
  <2>2. ~TopAt(w, "wait", 1)
    BY <1>1
  <2>3. CASE TopAt(w, "push", Top(w).i)
    BY <1>1, <1>4, <2>1, <2>3
  <2>4. CASE TopAt(w, "schedule", Top(w).i + 1)
    BY <1>1, <1>4, <2>1, <2>4
  <2> QED
    BY <2>1, <2>2, <2>3, <2>4
<1>5. CASE PushJob(w)
  <2>1. /\ stack[w] # <<>> /\ Top(w).at = "push" /\ Top(w).task \in Tasks
        /\ TopAt(w, "schedule", Top(w).i + 1) \/ TopAt(w, "wait", 1)
    BY <1>5, JobFacts, TopFacts
  <2>2. ~TopAt(w, "wait", 1)
    BY <1>1
  <2> QED
    BY <1>1, <1>5, <2>1, <2>2
<1>6. CASE Return(w) \/ Decrement(w) \/ Offer(w) \/ SetDone(w)
  <2>1. \E l, i : TopAt(w, l, i) /\ l \notin {"schedule", "admit", "push"}
    BY <1>6, ReturnFacts, SuccessorFacts
  <2> QED
    BY <1>1, <2>1
<1>7. CASE TakeNextTask(w) \/ Pull(w) \/ Steal(w)
  <2>1. (\E t : Entered(w, t)) \/ stack'[w] = stack[w]
    BY <1>7, TakeFacts, PullFacts, TakenFacts
  <2>2. ASSUME NEW t, Entered(w, t) PROVE Top(w)'.at = "run"
    BY <2>2 DEF Entered, Top
  <2> QED
    BY <2>1, <2>2
<1>8. CASE PutBack(w)
  BY <1>8 DEF PutBack
<1>9. CASE CountFinished(w)
  BY <1>9, SuccessorFacts, LeftNext
<1> QED
  BY <1>2, <1>3, <1>4, <1>5, <1>6, <1>7, <1>8, <1>9 DEF Worker

LEMMA UnmarkedNext ==
  ASSUME Core, [Next]_vars, NEW v \in Workers
  PROVE  Unmarked(v)'
<1> USE DEF Core
<1>1. CASE stack'[v] = stack[v]
  <2>1. Top(v)' = Top(v)
    BY <1>1, Others
  <2> SUFFICES ASSUME stack[v] # <<>>, NEW j \in DOMAIN Jobs[Top(v).task],
                      (Top(v).at = "schedule" /\ j >= Top(v).i) \/ (Top(v).at \in {"admit", "push"} /\ j > Top(v).i),
                      Jobs[Top(v).task][j] \in scheduled'
               PROVE  FALSE
    BY <1>1, <2>1 DEF Unmarked
  <2> PICK t : t = Jobs[Top(v).task][j]
    OBVIOUS
  <2>2. Top(v).task \in Tasks
    BY TopFacts
  <2>3. t \in ToSet(Jobs[Top(v).task]) /\ t \in Spawned
    BY <2>2, JobsSpawned
  <2>4. t \in scheduled' \ scheduled
    BY DEF Scheduling, Unmarked
  <2>5. PICK w \in Workers : /\ stack[w] # <<>> /\ Top(w).at = "schedule"
                             /\ t \in ToSet(Jobs[Top(w).task]) /\ TopAt(w, "admit", Top(w).i)
    BY <2>3, <2>4, NewMark
  <2>6. CASE w = v
    BY <2>1, <2>5, <2>6, AtNext
  <2>7. CASE w # v
    BY <2>3, <2>5, <2>7, JobsApart
  <2> QED
    BY <2>6, <2>7
<1>2. ASSUME Worker(v), stack'[v] # stack[v] PROVE Unmarked(v)'
  <2> SUFFICES ASSUME stack'[v] # <<>>, Top(v)'.at \in {"schedule", "admit", "push"},
                      NEW j \in DOMAIN Jobs[Top(v)'.task],
                      (Top(v)'.at = "schedule" /\ j >= Top(v)'.i) \/ (Top(v)'.at \in {"admit", "push"} /\ j > Top(v)'.i)
               PROVE  Jobs[Top(v)'.task][j] \notin scheduled'
    BY DEF Unmarked
  <2>1. /\ stack[v] # <<>> /\ Top(v)'.task = Top(v).task /\ Top(v).task \in Tasks
        /\ \/ Run(v) /\ Top(v).task \notin started
           \/ ScheduleJob(v) /\ Top(v).at = "schedule" /\ Top(v)'.at = "admit" /\ Top(v)'.i = Top(v).i
           \/ AdmitJob(v) /\ Top(v).at = "admit" /\ Top(v)'.at = "push" /\ Top(v)'.i = Top(v).i
           \/ (AdmitJob(v) \/ PushJob(v)) /\ Top(v).at \in {"admit", "push"} /\ Top(v)'.at = "schedule" /\ Top(v)'.i = Top(v).i + 1
    BY <1>2, ListNext
  <2>2. /\ Jobs[Top(v).task] \in Seq(Tasks) /\ IsInjective(Jobs[Top(v).task]) /\ j \in Nat
        /\ Jobs[Top(v).task][j] \in ToSet(Jobs[Top(v).task]) /\ j \in DOMAIN Jobs[Top(v).task] /\ Top(v).i \in Nat
    BY <2>1, JobsSpawned, TopFacts
  <2>3. CASE Run(v) /\ Top(v).task \notin started
    BY <2>1, <2>2, <2>3 DEF Scheduling, Run
  <2>4. CASE ScheduleJob(v) /\ Top(v).at = "schedule" /\ Top(v)'.at = "admit" /\ Top(v)'.i = Top(v).i
    <3>1. j > Top(v).i
      BY <2>4
    <3>2. scheduled' = scheduled \cup {Job(v)} /\ Job(v) = Jobs[Top(v).task][Top(v).i] /\ Top(v).i \in DOMAIN Jobs[Top(v).task]
      BY <2>1, <2>4, TopFacts DEF ScheduleJob, MarkAsScheduled, Job
    <3>3. Jobs[Top(v).task][j] # Job(v)
      BY <2>2, <3>1, <3>2 DEF IsInjective
    <3>4. j >= Top(v).i
      BY <2>2, <3>1
    <3>5. Jobs[Top(v).task][j] \notin scheduled
      BY <2>1, <2>2, <2>4, <3>4 DEF Scheduling, Unmarked
    <3> QED
      BY <2>1, <3>2, <3>3, <3>5
  <2>5. CASE AdmitJob(v) /\ Top(v).at = "admit" /\ Top(v)'.at = "push" /\ Top(v)'.i = Top(v).i
    <3>1. j > Top(v).i /\ UNCHANGED scheduled
      BY <2>5 DEF AdmitJob, Admit, taskVars
    <3> QED
      BY <2>1, <2>2, <2>5, <3>1 DEF Scheduling, Unmarked
  <2>6. CASE (AdmitJob(v) \/ PushJob(v)) /\ Top(v).at \in {"admit", "push"} /\ Top(v)'.at = "schedule" /\ Top(v)'.i = Top(v).i + 1
    <3>1. j >= Top(v).i + 1
      BY <2>6
    <3>2. j > Top(v).i /\ UNCHANGED scheduled
      BY <2>2, <2>6, <3>1 DEF AdmitJob, PushJob, PushTo, Admit, taskVars
    <3> QED
      BY <2>1, <2>2, <2>6, <3>2 DEF Scheduling, Unmarked
  <2> QED
    BY <2>1, <2>3, <2>4, <2>5, <2>6
<1>3. stack'[v] = stack[v] \/ Worker(v)
  BY ClientKeeps, WorkerKeeps DEF Next, Finished, vars
<1> QED
  BY <1>1, <1>2, <1>3

\* Where the client's list of tasks stands after a step.
LEMMA ClientNext ==
  ASSUME Core, [Next]_vars, client' # client
  PROVE  /\ ClientThread /\ UNCHANGED <<stack, batch>> /\ client.at \notin {"finished"}
         /\ \/ ClientSchedule /\ client.at = "schedule" /\ client' = [at |-> "admit", i |-> client.i]
            \/ /\ ClientAdmit /\ client.at = "admit" /\ pending[batch[client.i]] = 0
               /\ client' = [at |-> "push", i |-> client.i]
            \/ /\ ClientAdmit /\ client.at = "admit" /\ pending[batch[client.i]] # 0
               /\ client' = Continue(client.i)
            \/ ClientPush /\ client.at = "push" /\ client' = Continue(client.i)
            \/ ClientJoin /\ client.at = "join"
            \/ SumFinished /\ client.at = "sum"
            \/ Deactivate /\ client.at = "deactivate" /\ client' = [at |-> "finished", i |-> 1]
<1>1. ClientThread
  BY WorkerKeeps DEF Next, Finished, vars, clientVars
<1>2. UNCHANGED <<stack, batch>>
  BY <1>1, ClientKeeps
<1>3. CASE ClientSchedule
  BY <1>1, <1>2, <1>3 DEF ClientSchedule, Client
<1>4. CASE ClientAdmit
  <2>1. CASE pending[batch[client.i]] = 0
    BY <1>1, <1>2, <1>4, <2>1 DEF ClientAdmit, Client
  <2>2. CASE pending[batch[client.i]] # 0
    <3>1. Continue(client.i) = [at |-> Continue(client.i).at, i |-> Continue(client.i).i]
      BY DEF Continue
    <3>2. client.at = "admit" /\ client' = [at |-> Continue(client.i).at, i |-> Continue(client.i).i]
      BY <1>4, <2>2 DEF ClientAdmit, Client
    <3>3. client' = Continue(client.i)
      BY <3>1, <3>2
    <3> QED
      BY <1>1, <1>2, <1>4, <2>2, <3>2, <3>3
  <2> QED
    BY <2>1, <2>2
<1>5. CASE ClientPush
  <2>1. Continue(client.i) = [at |-> Continue(client.i).at, i |-> Continue(client.i).i]
    BY DEF Continue
  <2>2. client.at = "push" /\ client' = [at |-> Continue(client.i).at, i |-> Continue(client.i).i]
    BY <1>5 DEF ClientPush, Client
  <2>3. client' = Continue(client.i)
    BY <2>1, <2>2
  <2> QED
    BY <1>1, <1>2, <1>5, <2>2, <2>3
<1>6. CASE ClientJoin \/ SumFinished \/ Deactivate
  BY <1>1, <1>2, <1>6 DEF ClientJoin, SumFinished, Deactivate, Client
<1> QED
  BY <1>1, <1>3, <1>4, <1>5, <1>6 DEF ClientThread

LEMMA ContinueFacts ==
  ASSUME Course, client.at \in {"admit", "push"}
  PROVE  \/ Continue(client.i) = [at |-> "schedule", i |-> client.i + 1] /\ client.i + 1 \in DOMAIN batch
         \/ Continue(client.i) = [at |-> "join", i |-> 1] /\ 1 \in DOMAIN batch
  BY BatchFacts DEF Continue

LEMMA BatchUnmarkedNext ==
  ASSUME Core, [Next]_vars
  PROVE  BatchUnmarked'
<1> USE DEF Core
<1>0. batch' = batch
  BY ClientKeeps, WorkerKeeps DEF Next, Finished, vars, clientVars
<1> SUFFICES ASSUME NEW j \in DOMAIN batch,
                    (client'.at = "schedule" /\ j >= client'.i) \/ (client'.at \in {"admit", "push"} /\ j > client'.i)
             PROVE  batch[j] \notin scheduled'
  BY <1>0 DEF BatchUnmarked
<1>1. j \in Nat /\ batch[j] \in Tasks \ Spawned /\ IsInjective(batch)
  BY BatchFacts
<1>2. CASE client' = client
  <2>1. batch[j] \notin scheduled
    BY <1>2 DEF Scheduling, BatchUnmarked
  <2>2. ~ClientSchedule
    BY <1>2 DEF ClientSchedule, Client
  <2>3. ASSUME batch[j] \in scheduled' PROVE FALSE
    <3>1. PICK w \in Workers : batch[j] \in ToSet(Jobs[Top(w).task]) /\ Top(w).task \in Tasks
      BY <2>1, <2>2, <2>3, NewMark
    <3> QED
      BY <1>1, <3>1, JobsSpawned
  <2> QED
    BY <2>3
<1>3. CASE client' # client
  <2>1. CASE ClientSchedule /\ client.at = "schedule" /\ client' = [at |-> "admit", i |-> client.i]
    <3>1. client.i \in DOMAIN batch /\ client.i \in Nat /\ scheduled' = scheduled \cup {batch[client.i]} /\ j > client.i
      BY <2>1, BatchFacts DEF ClientSchedule, MarkAsScheduled
    <3>2. batch[j] # batch[client.i] /\ j >= client.i
      BY <1>1, <3>1 DEF IsInjective
    <3>3. batch[j] \notin scheduled
      BY <2>1, <3>2 DEF Scheduling, BatchUnmarked
    <3> QED
      BY <3>1, <3>2, <3>3
  <2>2. CASE ClientAdmit /\ client.at = "admit" /\ client' = [at |-> "push", i |-> client.i]
    <3>1. j > client.i /\ UNCHANGED scheduled
      BY <2>2 DEF ClientAdmit, Admit, taskVars
    <3> QED
      BY <2>2, <3>1 DEF Scheduling, BatchUnmarked
  <2>3. CASE (ClientAdmit \/ ClientPush) /\ client.at \in {"admit", "push"} /\ client' = Continue(client.i)
    <3>1. UNCHANGED scheduled
      BY <2>3 DEF ClientAdmit, ClientPush, PushTo, Admit, taskVars
    <3>2. Continue(client.i) = [at |-> "schedule", i |-> client.i + 1]
      BY <2>3, ContinueFacts
    <3>3. j >= client.i + 1
      BY <2>3, <3>2
    <3>4. client.i \in Nat
      BY <2>3, BatchFacts
    <3>5. j > client.i
      BY <1>1, <3>3, <3>4
    <3> QED
      BY <2>3, <3>1, <3>5 DEF Scheduling, BatchUnmarked
  <2>4. CASE ClientJoin \/ SumFinished \/ Deactivate
    BY <2>4 DEF ClientJoin, SumFinished, Deactivate, Client
  <2> QED
    BY <1>3, <2>1, <2>2, <2>3, <2>4, ClientNext
<1> QED
  BY <1>2, <1>3

LEMMA MarkedNext ==
  ASSUME Core, [Next]_vars
  PROVE  Marked'
<1> USE DEF Core
<1>0. batch' = batch /\ scheduled \subseteq scheduled'
  BY ClientKeeps, WorkerKeeps, MarkNext DEF Next, Finished, vars, clientVars
<1>1. ASSUME client'.at \in {"admit", "push"} PROVE batch'[client'.i] \in scheduled'
  <2>1. CASE client' = client
    BY <1>0, <1>1, <2>1 DEF Scheduling, Marked
  <2>2. CASE ClientSchedule /\ client' = [at |-> "admit", i |-> client.i]
    BY <1>0, <2>2 DEF ClientSchedule, MarkAsScheduled
  <2>3. CASE client.at = "admit" /\ client' = [at |-> "push", i |-> client.i]
    BY <1>0, <2>3 DEF Scheduling, Marked
  <2>4. CASE client.at \in {"admit", "push"} /\ client' = Continue(client.i)
    BY <1>1, <2>4, ContinueFacts
  <2>5. CASE ClientJoin \/ SumFinished \/ Deactivate
    BY <1>1, <2>5 DEF ClientJoin, SumFinished, Deactivate, Client
  <2> QED
    BY <2>1, <2>2, <2>3, <2>4, <2>5, ClientNext
<1>2. ASSUME NEW w \in Workers, At(w, "admit")' \/ At(w, "push")' PROVE Job(w)' \in scheduled'
  <2>1. stack'[w] # <<>> /\ Top(w)'.at \in {"admit", "push"}
    BY <1>2 DEF At
  <2>2. CASE stack'[w] = stack[w]
    <3>1. Job(w)' = Job(w) /\ (At(w, "admit") \/ At(w, "push"))
      BY <1>2, <2>2, Others
    <3> QED
      BY <1>0, <3>1 DEF Scheduling, Marked
  <2>3. CASE stack'[w] # stack[w]
    <3>1. Worker(w)
      BY <2>3, ClientKeeps, WorkerKeeps DEF Next, Finished, vars
    <3>2. /\ stack[w] # <<>> /\ Top(w)'.task = Top(w).task
          /\ \/ Run(w)
             \/ ScheduleJob(w) /\ Top(w)'.i = Top(w).i
             \/ AdmitJob(w) /\ Top(w).at = "admit" /\ Top(w)'.i = Top(w).i
      BY <2>1, <2>3, <3>1, ListNext
    <3>3. CASE Run(w)
      BY <2>1, <3>3, RunFacts, AtNext
    <3>4. CASE ScheduleJob(w) /\ Top(w)'.i = Top(w).i
      <4>1. Job(w)' = Job(w) /\ scheduled' = scheduled \cup {Job(w)}
        BY <3>2, <3>4 DEF Job, ScheduleJob, MarkAsScheduled
      <4> QED
        BY <4>1
    <3>5. CASE AdmitJob(w) /\ Top(w).at = "admit" /\ Top(w)'.i = Top(w).i
      <4>1. Job(w)' = Job(w) /\ At(w, "admit")
        BY <3>2, <3>5 DEF Job, At
      <4> QED
        BY <1>0, <4>1 DEF Scheduling, Marked
    <3> QED
      BY <3>2, <3>3, <3>4, <3>5
  <2> QED
    BY <2>2, <2>3
<1> QED
  BY <1>1, <1>2 DEF Marked

\* A task that is counted leaves ToAdmit.
ClientAdmits(t)    == client.at = "admit" /\ batch[client.i] = t
WorkerAdmits(w, t) == At(w, "admit") /\ Job(w) = t

LEMMA ToAdmitIs ==
  ASSUME NEW t
  PROVE  /\ t \in ToAdmit <=> t \in Tasks /\ (ClientAdmits(t) \/ \E w \in Workers : WorkerAdmits(w, t))
         /\ t \in ToAdmit' <=> t \in Tasks /\ (ClientAdmits(t)' \/ \E w \in Workers : WorkerAdmits(w, t)')
  BY DEF ToAdmit, ClientAdmits, WorkerAdmits

LEMMA AdmitsStays ==
  ASSUME NEW v \in Workers, stack'[v] = stack[v], NEW t
  PROVE  WorkerAdmits(v, t)' <=> WorkerAdmits(v, t)
  BY Others DEF WorkerAdmits

LEMMA ToAdmitNext ==
  ASSUME Core, [Next]_vars
  PROVE  \/ UNCHANGED <<scheduled, taskCounter>> /\ ToAdmit' = ToAdmit
         \/ \E t \in Tasks \ scheduled : scheduled' = scheduled \cup {t} /\ UNCHANGED taskCounter /\ ToAdmit' = ToAdmit \cup {t}
         \/ \E t \in ToAdmit : UNCHANGED scheduled /\ taskCounter' = taskCounter + 1 /\ ToAdmit' = ToAdmit \ {t}
<1> USE DEF Core
<1>1. ASSUME \A t \in Tasks : ClientAdmits(t)' <=> ClientAdmits(t),
             \A w \in Workers : \A t \in Tasks : WorkerAdmits(w, t)' <=> WorkerAdmits(w, t)
      PROVE  ToAdmit' = ToAdmit
  <2>1. \A t : t \in ToAdmit' <=> t \in ToAdmit
    BY <1>1, ToAdmitIs
  <2> QED
    BY <2>1
<1>2. CASE ClientThread
  <2>1. UNCHANGED <<stack, batch>>
    BY <1>2, ClientKeeps
  <2>2. \A w \in Workers : \A t \in Tasks : WorkerAdmits(w, t)' <=> WorkerAdmits(w, t)
    BY <2>1, AdmitsStays
  <2>3. CASE ClientSchedule
    <3> PICK t : t = batch[client.i]
      OBVIOUS
    <3>1. t \in Tasks /\ t \notin scheduled /\ scheduled' = scheduled \cup {t} /\ UNCHANGED taskCounter
      <4>1. client.at = "schedule" /\ client.i \in DOMAIN batch /\ client.i \in Nat /\ t \in Tasks
        BY <2>3, BatchFacts DEF ClientSchedule, Client
      <4>2. client.i >= client.i
        BY <4>1
      <4>3. t \notin scheduled
        BY <4>1, <4>2 DEF Scheduling, BatchUnmarked
      <4> QED
        BY <2>3, <4>1, <4>3 DEF ClientSchedule, MarkAsScheduled
    <3>2. \A u : ClientAdmits(u)' <=> u = t
      BY <2>1, <2>3 DEF ClientAdmits, ClientSchedule, Client
    <3>3. \A u : ~ClientAdmits(u)
      BY <2>3 DEF ClientAdmits, ClientSchedule, Client
    <3>4. \A u : u \in ToAdmit' <=> u \in ToAdmit \cup {t}
      BY <2>2, <3>1, <3>2, <3>3, ToAdmitIs
    <3>5. ToAdmit' = ToAdmit \cup {t}
      BY <3>4
    <3> QED
      BY <3>1, <3>5
  <2>4. CASE ClientAdmit
    <3> PICK t : t = batch[client.i]
      OBVIOUS
    <3>1. client.at = "admit" /\ t \in Tasks \ Spawned /\ taskCounter' = taskCounter + 1 /\ UNCHANGED scheduled
      BY <2>4, BatchFacts DEF ClientAdmit, Client, Admit, taskVars
    <3>2. \A u : ClientAdmits(u) <=> u = t
      BY <3>1 DEF ClientAdmits
    <3>3. client'.at # "admit"
      <4>1. CASE pending[batch[client.i]] = 0
        BY <2>4, <4>1 DEF ClientAdmit, Client
      <4>2. CASE pending[batch[client.i]] # 0
        BY <2>4, <4>2 DEF ClientAdmit, Client, Continue
      <4> QED
        BY <4>1, <4>2
    <3>4. \A u : ~ClientAdmits(u)'
      BY <3>3 DEF ClientAdmits
    <3>5. ASSUME NEW w \in Workers PROVE ~WorkerAdmits(w, t)
      <4> SUFFICES ASSUME At(w, "admit"), Job(w) = t PROVE FALSE
        BY DEF WorkerAdmits
      <4>1. Job(w) \in ToSet(Jobs[Top(w).task]) /\ Top(w).task \in Tasks
        BY TopFacts DEF At
      <4> QED
        BY <3>1, <4>1, JobsSpawned
    <3>6. \A u : u \in ToAdmit' <=> u \in ToAdmit \ {t}
      BY <2>2, <3>1, <3>2, <3>4, <3>5, ToAdmitIs
    <3>7. ToAdmit' = ToAdmit \ {t} /\ t \in ToAdmit
      BY <3>1, <3>2, <3>6, ToAdmitIs
    <3> QED
      BY <3>1, <3>7
  <2>5. CASE ClientPush \/ ClientJoin \/ SumFinished \/ Deactivate
    <3>1. UNCHANGED <<scheduled, taskCounter>> /\ client.at # "admit"
      BY <2>5 DEF ClientPush, ClientJoin, SumFinished, Deactivate, Client, PushTo, taskVars
    <3>2. client'.at # "admit"
      BY <2>5 DEF ClientPush, ClientJoin, SumFinished, Deactivate, Client, Continue
    <3>3. \A t \in Tasks : ClientAdmits(t)' <=> ClientAdmits(t)
      BY <3>1, <3>2 DEF ClientAdmits
    <3> QED
      BY <1>1, <2>2, <3>1, <3>3
  <2> QED
    BY <1>2, <2>3, <2>4, <2>5 DEF ClientThread
<1>3. ASSUME NEW w \in Workers, Worker(w)
      PROVE  \/ UNCHANGED <<scheduled, taskCounter>> /\ ToAdmit' = ToAdmit
             \/ \E t \in Tasks \ scheduled : scheduled' = scheduled \cup {t} /\ UNCHANGED taskCounter /\ ToAdmit' = ToAdmit \cup {t}
             \/ \E t \in ToAdmit : UNCHANGED scheduled /\ taskCounter' = taskCounter + 1 /\ ToAdmit' = ToAdmit \ {t}
  <2>1. UNCHANGED <<client, batch>> /\ \A v \in Workers \ {w} : stack'[v] = stack[v]
    BY <1>3, WorkerKeeps
  <2>2. \A t \in Tasks : ClientAdmits(t)' <=> ClientAdmits(t)
    BY <2>1 DEF ClientAdmits
  <2>3. \A v \in Workers \ {w} : \A t \in Tasks : WorkerAdmits(v, t)' <=> WorkerAdmits(v, t)
    BY <2>1, AdmitsStays
  <2>4. CASE ScheduleJob(w)
    <3> PICK t : t = Job(w)
      OBVIOUS
    <3>1. /\ stack[w] # <<>> /\ Top(w).at = "schedule" /\ TopAt(w, "admit", Top(w).i) /\ t \in Tasks
          /\ Top(w).i \in DOMAIN Jobs[Top(w).task] /\ Top(w).i \in Nat
      BY <2>4, JobFacts, TopFacts
    <3>2. t \notin scheduled
      <4>1. Top(w).i >= Top(w).i
        BY <3>1
      <4> QED
        BY <3>1, <4>1 DEF Scheduling, Unmarked, Job
    <3>3. scheduled' = scheduled \cup {t} /\ UNCHANGED taskCounter
      BY <2>4 DEF ScheduleJob, MarkAsScheduled
    <3>4. \A u : (WorkerAdmits(w, u)' <=> u = t) /\ ~WorkerAdmits(w, u)
      <4>1. Job(w)' = t /\ At(w, "admit")' /\ ~At(w, "admit")
        BY <3>1, AtNext DEF Job, At
      <4> QED
        BY <4>1 DEF WorkerAdmits
    <3>5. \A u : u \in ToAdmit' <=> u \in ToAdmit \cup {t}
      BY <2>2, <2>3, <3>1, <3>4, ToAdmitIs
    <3>6. ToAdmit' = ToAdmit \cup {t}
      BY <3>5
    <3> QED
      BY <3>1, <3>2, <3>3, <3>6
  <2>5. CASE AdmitJob(w)
    <3> PICK t : t = Job(w)
      OBVIOUS
    <3>1. /\ stack[w] # <<>> /\ Top(w).at = "admit" /\ t \in Tasks /\ t \in ToSet(Jobs[Top(w).task]) /\ Top(w).task \in Tasks
          /\ \E l, i : TopAt(w, l, i) /\ l # "admit"
      <4>1. stack[w] # <<>> /\ Top(w).at = "admit"
        BY <2>5, JobFacts
      <4>2. \E l, i : TopAt(w, l, i) /\ l # "admit"
        BY <2>5, JobFacts
      <4> QED
        BY <4>1, <4>2, TopFacts
    <3>2. UNCHANGED scheduled /\ taskCounter' = taskCounter + 1
      BY <2>5 DEF AdmitJob, Admit, taskVars
    <3>3. \A u : (WorkerAdmits(w, u) <=> u = t) /\ ~WorkerAdmits(w, u)'
      <4>1. At(w, "admit") /\ ~At(w, "admit")'
        BY <3>1, AtNext DEF At
      <4> QED
        BY <4>1 DEF WorkerAdmits
    <3>4. ASSUME NEW v \in Workers \ {w} PROVE ~WorkerAdmits(v, t)
      <4> SUFFICES ASSUME At(v, "admit"), Job(v) = t PROVE FALSE
        BY DEF WorkerAdmits
      <4>1. stack[v] # <<>> /\ t \in ToSet(Jobs[Top(v).task])
        BY TopFacts DEF At
      <4> QED
        BY <3>1, <4>1, JobsApart
    <3>5. ~ClientAdmits(t)
      <4> SUFFICES ASSUME client.at = "admit", batch[client.i] = t PROVE FALSE
        BY DEF ClientAdmits
      <4>1. t \notin Spawned
        BY BatchFacts
      <4> QED
        BY <3>1, <4>1, JobsSpawned
    <3>6. \A u : u \in ToAdmit' <=> u \in ToAdmit \ {t}
      BY <2>2, <2>3, <3>1, <3>3, <3>4, <3>5, ToAdmitIs
    <3>7. ToAdmit' = ToAdmit \ {t} /\ t \in ToAdmit
      BY <3>1, <3>3, <3>6, ToAdmitIs
    <3> QED
      BY <3>2, <3>7
  <2>6. CASE ~ScheduleJob(w) /\ ~AdmitJob(w)
    <3>1. UNCHANGED <<scheduled, taskCounter>>
      <4>1. CASE Offer(w)
        BY SMTT(60), <4>1, OfferFacts
      <4>2. CASE ~Offer(w)
        BY <1>3, <2>6, <4>2 DEF Worker, TakeNextTask, Pull, Steal, PutBack, Run, PushJob, Return, Decrement, SetDone,
                                CountFinished, PushTo, taskVars
      <4> QED
        BY <4>1, <4>2
    <3>2. stack'[w] = stack[w] \/ ~At(w, "admit")'
      <4> SUFFICES ASSUME stack'[w] # stack[w], stack'[w] # <<>>, Top(w)'.at = "admit" PROVE FALSE
        BY DEF At
      <4>1. Run(w)
        BY <1>3, <2>6, ListNext
      <4> QED
        BY <4>1, RunFacts, AtNext
    <3>3. stack'[w] = stack[w] \/ ~At(w, "admit")
      <4>1. CASE TakeNextTask(w) \/ Pull(w) \/ Steal(w)
        BY <4>1, TakeFacts, PullFacts DEF Source, At
      <4>2. CASE ~(TakeNextTask(w) \/ Pull(w) \/ Steal(w))
        BY <1>3, <2>6, <4>2 DEF Worker, PutBack, Run, PushJob, Return, Decrement, Offer, SetDone, CountFinished, At
      <4> QED
        BY <4>1, <4>2
    <3>4. \A t \in Tasks : WorkerAdmits(w, t)' <=> WorkerAdmits(w, t)
      BY <3>2, <3>3, AdmitsStays DEF WorkerAdmits
    <3> QED
      BY <1>1, <2>2, <2>3, <3>1, <3>4
  <2> QED
    BY <2>4, <2>5, <2>6
<1>4. CASE UNCHANGED vars
  <2>1. UNCHANGED <<stack, client, batch, scheduled, taskCounter>>
    BY <1>4 DEF vars, taskVars, clientVars
  <2>2. \A w \in Workers : \A t \in Tasks : WorkerAdmits(w, t)' <=> WorkerAdmits(w, t)
    BY <2>1, AdmitsStays
  <2>3. \A t \in Tasks : ClientAdmits(t)' <=> ClientAdmits(t)
    BY <2>1 DEF ClientAdmits
  <2> QED
    BY <1>1, <2>1, <2>2, <2>3
<1> QED
  BY <1>2, <1>3, <1>4 DEF Next, Finished

LEMMA SchedulingNext == ASSUME Core, [Next]_vars PROVE Scheduling'
<1>1. (\A u \in Tasks \ started : ToSet(Jobs[u]) \cap scheduled = {})'
  BY UnstartedNext
<1>2. (\A u \in completed : ToSet(Jobs[u]) \subseteq done)'
  BY CompletedNext
<1>3. (\A w \in Workers : Unmarked(w))'
  BY UnmarkedNext
<1>4. taskCounter' = Cardinality(scheduled' \ ToAdmit')
  <2>0. taskCounter = Cardinality(scheduled \ ToAdmit) /\ IsFiniteSet(scheduled \ ToAdmit) /\ ToAdmit \subseteq scheduled
    <3>1. taskCounter = Cardinality(scheduled \ ToAdmit)
      BY DEF Core, Scheduling
    <3>2. IsFiniteSet(scheduled \ ToAdmit)
      <4>1. scheduled \ ToAdmit \subseteq Tasks
        BY DEF Core, Types
      <4> QED
        BY <4>1, GraphAssumption, FS_Subset
    <3>3. ToAdmit \subseteq scheduled
      BY DEF Core, Scheduling, Marked, ToAdmit
    <3> QED
      BY <3>1, <3>2, <3>3
  <2>1. CASE UNCHANGED <<scheduled, taskCounter>> /\ ToAdmit' = ToAdmit
    BY <2>0, <2>1
  <2>2. ASSUME NEW t \in Tasks \ scheduled, scheduled' = scheduled \cup {t}, UNCHANGED taskCounter, ToAdmit' = ToAdmit \cup {t}
        PROVE  taskCounter' = Cardinality(scheduled' \ ToAdmit')
    <3>1. scheduled' \ ToAdmit' = scheduled \ ToAdmit
      BY <2>2
    <3> QED
      BY <2>0, <2>2, <3>1
  <2>3. ASSUME NEW t \in ToAdmit, UNCHANGED scheduled, taskCounter' = taskCounter + 1, ToAdmit' = ToAdmit \ {t}
        PROVE  taskCounter' = Cardinality(scheduled' \ ToAdmit')
    <3>1. scheduled' \ ToAdmit' = (scheduled \ ToAdmit) \cup {t} /\ t \notin scheduled \ ToAdmit
      BY <2>0, <2>3
    <3>2. Cardinality((scheduled \ ToAdmit) \cup {t}) = Cardinality(scheduled \ ToAdmit) + 1
      BY <2>0, <3>1, FS_AddElement
    <3> QED
      BY <2>0, <2>3, <3>1, <3>2
  <2> QED
    BY <2>1, <2>2, <2>3, ToAdmitNext
<1> QED
  BY <1>1, <1>2, <1>3, <1>4, BatchUnmarkedNext, MarkedNext DEF Scheduling

----------------------------------------------------------------------------
(* The end.                                                                *)

\* When all tasks are counted, nobody holds one.
LEMMA Quiet ==
  ASSUME Core, done = Tasks, Over = Tasks
  PROVE  /\ \A n \in Nodes, p \in Priorities : queue[n][p] = <<>>
         /\ \A w \in Workers : stack[w] = <<>> /\ nextTask[w] = None /\ stolen[w] = None
<1> USE DEF Core
<1>1. started = Tasks
  BY DEF Types
<1>2. ASSUME NEW w \in Workers PROVE stack[w] = <<>>
  <2> SUFFICES ASSUME stack[w] # <<>> PROVE FALSE
    OBVIOUS
  <2>1. Top(w).task \in Tasks /\ Top(w).task \in Holds(<<"stack", w, 0>>)
    BY TopFacts
  <2> QED
    BY <2>1 DEF Over
<1>3. ASSUME NEW h \in Holders, h[1] # "stack" PROVE Holds(h) = {}
  <2>1. Holds(h) \subseteq enqueued /\ Holds(h) \cap started = {}
    BY <1>3 DEF Places
  <2> QED
    BY <1>1, <2>1 DEF Types
<1>4. ASSUME NEW w \in Workers PROVE nextTask[w] = None
  <2>1. Holds(<<"next", w, 0>>) = {}
    BY <1>3, HoldsOf
  <2> QED
    BY <2>1, HoldsOf
<1>5. ASSUME NEW w \in Workers PROVE stolen[w] = None
  <2>1. Holds(<<"stolen", w, 0>>) = {}
    BY <1>3, HoldsOf
  <2> QED
    BY <2>1, HoldsOf
<1>6. ASSUME NEW n \in Nodes, NEW p \in Priorities PROVE queue[n][p] = <<>>
  <2>1. Holds(<<"queue", n, p>>) = {}
    BY <1>3, HoldsOf
  <2>2. ToSet(queue[n][p]) = {} /\ queue[n][p] \in Seq(Tasks)
    BY <2>1, HoldsOf DEF Types
  <2>3. ASSUME queue[n][p] # <<>> PROVE FALSE
    BY <2>2, <2>3, QueueFacts
  <2> QED
    BY <2>3
<1> QED
  BY <1>2, <1>4, <1>5, <1>6

LEMMA QuietWorkers ==
  ASSUME Core, done = Tasks, Over = Tasks, NEW w \in Workers
  PROVE  ~Worker(w)
<1>1. stack[w] = <<>> /\ nextTask[w] = None /\ stolen[w] = None
  BY Quiet
<1>2. \A n \in Nodes : queue[n][High] = <<>> /\ queue[n][Default] = <<>>
  BY Quiet DEF Priorities
<1>3. ~TakeNextTask(w) /\ ~PutBack(w)
  BY <1>1 DEF TakeNextTask, PutBack
<1>4. ~Pull(w)
  BY <1>2, TopologyAssumption DEF Pull, Empty
<1>5. ~Steal(w)
  BY <1>2 DEF Steal
<1>6. ~Run(w) /\ ~ScheduleJob(w) /\ ~AdmitJob(w) /\ ~PushJob(w) /\ ~Return(w)
  BY <1>1 DEF Run, ScheduleJob, AdmitJob, PushJob, Return, At
<1>7. ~Decrement(w) /\ ~Offer(w) /\ ~SetDone(w) /\ ~CountFinished(w)
  BY <1>1 DEF Decrement, Offer, SetDone, CountFinished, At
<1> QED
  BY <1>3, <1>4, <1>5, <1>6, <1>7 DEF Worker

\* When the client's tasks are done so are the jobs that they have waited for.
LEMMA AllDone ==
  ASSUME Core, ToSet(batch) \subseteq done
  PROVE  done = Tasks
<1> USE DEF Core
<1>1. ToSet(batch) = Tasks \ Spawned /\ done \subseteq Tasks /\ done \subseteq completed
  BY BatchFacts DEF Types
<1> DEFINE S == Tasks \ done
<1> SUFFICES ASSUME S # {} PROVE FALSE
  BY <1>1
<1>2. PICK t \in S : \A u \in S : t \notin ToSet(Jobs[u])
  <2>1. S \in (SUBSET Tasks) \ {{}}
    OBVIOUS
  <2> HIDE DEF S
  <2> QED
    BY <2>1, JobAssumption
<1>3. t \in Spawned
  BY <1>1
<1>4. PICK u \in Tasks : t \in ToSet(Jobs[u])
  BY <1>3 DEF Spawned
<1>5. u \in completed
  BY <1>1, <1>2, <1>4
<1>6. ToSet(Jobs[u]) \subseteq done
  BY <1>5 DEF Scheduling
<1> QED
  BY <1>4, <1>6

\* When the counters that the client has added up make the number of the tasks, all are counted.
LEMMA AllCounted ==
  ASSUME Core, NEW F, NEW G, CountedBy(F, G), client.at = "sum", sum = taskCounter
  PROVE  Over = Tasks
<1> USE DEF Core
<1>1. done = Tasks /\ started = Tasks /\ scheduled = Tasks
  BY DEF Course, Types
<1>2. ToAdmit = {}
  <2> SUFFICES ASSUME NEW w \in Workers, At(w, "admit") PROVE FALSE
    BY DEF ToAdmit
  <2>1. stack[w] # <<>> /\ Top(w).at = "admit"
    BY DEF At
  <2>2. Fits(Top(w), started, completed, done) /\ Top(w).task \in Tasks
    BY <2>1, TopFacts
  <2> QED
    BY <1>1, <2>1, <2>2 DEF Fits
<1>3. scheduled \ ToAdmit = Tasks
  BY <1>1, <1>2
<1>4. G \subseteq Tasks /\ Cardinality(G) = Cardinality(Tasks)
  BY <1>3 DEF CountedBy, Scheduling
<1>5. G = Tasks
  BY <1>4, GraphAssumption, FS_Subset
<1>6. \A t \in G : \E w \in Workers : t \in F[w]
  <2> SUFFICES ASSUME NEW t \in G PROVE \E w \in Workers : t \in F[w]
    OBVIOUS
  <2>1. PICK j \in 1 .. client.i - 1 : t \in F[WorkerList[j]]
    BY DEF CountedBy
  <2>2. client.i \in 1 .. Len(WorkerList) + 1 /\ WorkerList \in Seq(Workers)
    BY WorkerFacts DEF Course
  <2>3. Len(WorkerList) \in Nat /\ j \in 1 .. Len(WorkerList)
    BY <2>1, <2>2
  <2>4. WorkerList[j] \in Workers
    BY <2>2, <2>3
  <2> QED
    BY <2>1, <2>4
<1>7. Over = UNION {F[w] : w \in Workers}
  BY DEF CountedBy
<1>8. Over \subseteq Tasks
  BY <1>1 DEF Over
<1> QED
  BY <1>5, <1>6, <1>7, <1>8

\* A worker that leaves a task has counted it, and no other step changes what is counted.
LEMMA OverIs ==
  ASSUME NEW t
  PROVE  /\ t \in Over <=> t \in done /\ \A w \in Workers : t \notin Holds(<<"stack", w, 0>>)
         /\ t \in Over' <=> t \in done' /\ \A w \in Workers : t \notin Holds(<<"stack", w, 0>>)'
  BY DEF Over

LEMMA OverKept ==
  ASSUME \A t : t \in done' /\ (\A w \in Workers : t \notin Holds(<<"stack", w, 0>>)')
                  <=> t \in done /\ (\A w \in Workers : t \notin Holds(<<"stack", w, 0>>))
  PROVE  Over' = Over
<1>1. \A t : t \in Over' <=> t \in Over
  BY OverIs
<1> QED
  BY <1>1

LEMMA OverNext ==
  ASSUME Core, [Next]_vars, \A w \in Workers : ~CountFinished(w)
  PROVE  Over' = Over
<1> USE DEF Core
<1>1. CASE UNCHANGED <<stack, done>>
  <2>1. \A v \in Workers : Holds(<<"stack", v, 0>>)' = Holds(<<"stack", v, 0>>)
    BY <1>1, StackHolds
  <2> QED
    BY <1>1, <2>1, OverKept
<1>2. CASE ClientThread
  BY <1>1, <1>2, ClientKeeps
<1>3. CASE UNCHANGED vars
  BY <1>1, <1>3 DEF vars, taskVars
<1>4. ASSUME NEW w \in Workers, NEW l, NEW i, TopAt(w, l, i), done' \subseteq done \cup {Top(w).task}, done \subseteq done',
             stack[w] # <<>>
      PROVE  Over' = Over
  <2>1. \A v \in Workers : Holds(<<"stack", v, 0>>)' = Holds(<<"stack", v, 0>>)
    BY <1>4, TopHolds
  <2>2. Top(w).task \in Holds(<<"stack", w, 0>>)
    BY <1>4, TopFacts
  <2> QED
    BY <1>4, <2>1, <2>2, OverKept
<1>5. ASSUME NEW w \in Workers, NEW t, NEW h \in Holders, h[1] # "stack", t \in Holds(h), Entered(w, t), UNCHANGED done
      PROVE  Over' = Over
  <2>1. t \notin Holds(<<"stack", w, 0>>)
    <3>1. <<"stack", w, 0>> \in Holders /\ <<"stack", w, 0>>[1] = "stack"
      BY HoldsOf
    <3> QED
      BY <1>5, <3>1 DEF Places
  <2>2. t \notin done
    BY <1>5 DEF Places, Types
  <2>3. /\ Holds(<<"stack", w, 0>>)' = Holds(<<"stack", w, 0>>) \cup {t}
        /\ \A v \in Workers \ {w} : Holds(<<"stack", v, 0>>)' = Holds(<<"stack", v, 0>>)
    BY <1>5, <2>1, EnterHolds
  <2> QED
    BY <1>5, <2>2, <2>3, OverKept
<1>6. ASSUME NEW w \in Workers, TakeNextTask(w) PROVE Over' = Over
  <2>1. nextTask[w] \in Tasks /\ Entered(w, nextTask[w]) /\ UNCHANGED done
    BY <1>6, TakeFacts DEF Source, taskVars
  <2>2. <<"next", w, 0>> \in Holders /\ Holds(<<"next", w, 0>>) = {nextTask[w]} \ {None}
    BY HoldsOf
  <2>3. nextTask[w] \in Holds(<<"next", w, 0>>) /\ <<"next", w, 0>>[1] # "stack"
    BY <2>1, <2>2, NullAssumption
  <2> QED
    BY <1>5, <2>1, <2>2, <2>3
<1>7. ASSUME NEW w \in Workers, Pull(w) \/ Steal(w) PROVE Over' = Over
  <2>1. PICK n \in Nodes, p \in Priorities : Taken(w, n, p) /\ UNCHANGED done
    BY <1>7, PullFacts DEF Source, taskVars
  <2>2. Head(queue[n][p]) \in Tasks /\ Head(queue[n][p]) \in ToSet(queue[n][p])
    BY <2>1, QueueFacts DEF Taken
  <2>3. <<"queue", n, p>> \in Holders /\ Head(queue[n][p]) \in Holds(<<"queue", n, p>>) /\ <<"queue", n, p>>[1] # "stack"
    BY <2>2, HoldsOf
  <2>4. Entered(w, Head(queue[n][p])) \/ UNCHANGED stack
    BY <2>1, TakenFacts
  <2> QED
    BY <1>1, <1>5, <2>1, <2>3, <2>4
<1>8. ASSUME NEW w \in Workers, PutBack(w) PROVE Over' = Over
  BY <1>1, <1>8 DEF PutBack, taskVars
<1>9. ASSUME NEW w \in Workers, Run(w) \/ ScheduleJob(w) \/ AdmitJob(w) \/ PushJob(w) \/ Return(w) \/ Decrement(w) PROVE Over' = Over
  <2>1. UNCHANGED done
    BY <1>9 DEF Run, ScheduleJob, AdmitJob, PushJob, Return, Decrement, MarkAsScheduled, Admit, PushTo, taskVars
  <2>2. stack[w] # <<>> /\ \E l, i : TopAt(w, l, i)
    BY <1>9, RunFacts, JobFacts, ReturnFacts, SuccessorFacts
  <2> QED
    BY <1>4, <2>1, <2>2
<1>10. ASSUME NEW w \in Workers, Offer(w) \/ SetDone(w) PROVE Over' = Over
  <2>1. done' \subseteq done \cup {Top(w).task} /\ done \subseteq done'
    BY <1>10, OfferFacts DEF SetDone
  <2>2. stack[w] # <<>> /\ \E l, i : TopAt(w, l, i)
    BY <1>10, SuccessorFacts
  <2> QED
    BY <1>4, <2>1, <2>2
<1> QED
  BY <1>2, <1>3, <1>6, <1>7, <1>8, <1>9, <1>10 DEF Next, Worker, Finished

LEMMA CountNext ==
  ASSUME Core, NEW w \in Workers, CountFinished(w)
  PROVE  Over' = Over \cup {Top(w).task} /\ Top(w).task \notin Over /\ Top(w).task \in done /\ UNCHANGED done
<1> USE DEF Core
<1> PICK t : t = Top(w).task
  OBVIOUS
<1>1. stack[w] # <<>> /\ Left(w) /\ t \in done
  BY SuccessorFacts
<1>2. UNCHANGED done
  BY DEF CountFinished, taskVars
<1>3. t \in Holds(<<"stack", w, 0>>)
  BY <1>1, TopFacts
<1>4. /\ Holds(<<"stack", w, 0>>)' = Holds(<<"stack", w, 0>>) \ {t}
      /\ \A v \in Workers \ {w} : Holds(<<"stack", v, 0>>)' = Holds(<<"stack", v, 0>>)
  BY <1>1, LeaveHolds
<1>5. ASSUME NEW v \in Workers \ {w} PROVE t \notin Holds(<<"stack", v, 0>>)
  <2>1. <<"stack", v, 0>> \in Holders /\ <<"stack", w, 0>> \in Holders /\ <<"stack", v, 0>> # <<"stack", w, 0>>
    BY HoldsOf
  <2> QED
    BY <1>3, <2>1 DEF Places
<1>6. \A u : u \in Over' <=> u \in Over \cup {t}
  BY <1>1, <1>2, <1>4, <1>5, OverIs
<1>7. Over' = Over \cup {t} /\ t \notin Over
  BY <1>3, <1>6, OverIs
<1> QED
  BY <1>1, <1>2, <1>7

LEMMA CourseNext == ASSUME IInv, [Next]_vars PROVE Course'
<1>0. Core
  BY DEF IInv, Core
<1> USE DEF Core
<1>1. done' \subseteq Tasks /\ done \subseteq done' /\ batch' = batch
  BY <1>0, TypesNext, MarkNext, ClientKeeps, WorkerKeeps DEF Types, Next, Finished, vars, clientVars
<1>2. CASE UNCHANGED <<client, sum, active>>
  <2>1. ASSUME client.at \in {"deactivate", "finished"} PROVE Over' = Tasks
    <3>1. done = Tasks /\ Over = Tasks
      BY <1>0, <2>1 DEF Course
    <3>2. \A w \in Workers : ~Worker(w)
      BY <1>0, <3>1, QuietWorkers
    <3>3. Over' = Over
      BY <1>0, <3>2, OverNext DEF Worker
    <3> QED
      BY <3>1, <3>3
  <2>2. done' \subseteq Tasks /\ (client.at \in {"sum", "deactivate", "finished"} => done' = Tasks)
    BY <1>0, <1>1 DEF Course
  <2> QED
    BY <1>0, <1>1, <1>2, <2>1, <2>2 DEF Course
<1>3. CASE ClientThread
  <2>0. done' = done /\ Over' = Over
    <3>1. \A w \in Workers : ~CountFinished(w) \/ Over' = Over
      <4> SUFFICES ASSUME NEW w \in Workers, CountFinished(w) PROVE FALSE
        OBVIOUS
      <4>1. UNCHANGED stack /\ stack[w] # <<>> /\ Left(w)
        BY <1>0, <1>3, ClientKeeps, SuccessorFacts
      <4>2. Len(stack[w]) \in Nat /\ Len(stack[w]) > 0 /\ DOMAIN stack[w] = 1 .. Len(stack[w])
        BY SMTT(60), <1>0, <4>1 DEF Types
      <4>3. 1 .. Len(stack[w]) = 1 .. Len(stack[w]) - 1
        BY <4>1, <4>2 DEF Left
      <4>4. Len(stack[w]) \in 1 .. Len(stack[w])
        BY <4>2
      <4> QED
        BY <4>2, <4>3, <4>4
    <3> QED
      BY <1>0, <1>3, <3>1, ClientKeeps, OverNext
  <2>1. CASE ClientSchedule
    <3>1. client.at = "schedule" /\ client' = [at |-> "admit", i |-> client.i] /\ UNCHANGED <<sum, active>>
      BY <2>1 DEF ClientSchedule, Client, MarkAsScheduled
    <3> QED
      BY <1>0, <1>1, <2>0, <3>1 DEF Course
  <2>2. CASE ClientAdmit \/ ClientPush
    <3>1. UNCHANGED <<sum, active>> /\ client.at \in {"admit", "push"}
      BY <2>2 DEF ClientAdmit, ClientPush, Client, Admit
    <3>2. client' \in {[at |-> "push", i |-> client.i], Continue(client.i)}
      <4>1. CASE client' = client
        <5>1. client.at # client'.at
          <6>1. CASE ClientPush
            BY <6>1 DEF ClientPush, Client, Continue
          <6>2. CASE ClientAdmit /\ pending[batch[client.i]] = 0
            BY <6>2 DEF ClientAdmit, Client
          <6>3. CASE ClientAdmit /\ pending[batch[client.i]] # 0
            BY <6>3 DEF ClientAdmit, Client, Continue
          <6> QED
            BY <2>2, <6>1, <6>2, <6>3
        <5> QED
          BY <4>1, <5>1
      <4>2. CASE client' # client
        <5>1. ~ClientSchedule /\ ~ClientJoin /\ ~SumFinished /\ ~Deactivate
          BY <3>1 DEF ClientSchedule, ClientJoin, SumFinished, Deactivate, Client
        <5> QED
          BY <1>0, <4>2, <5>1, ClientNext
      <4> QED
        BY <4>1, <4>2
    <3>3. CASE client' = [at |-> "push", i |-> client.i]
      BY <1>0, <1>1, <2>0, <3>1, <3>3 DEF Course
    <3>4. CASE client' = [at |-> "schedule", i |-> client.i + 1] /\ client.i + 1 \in DOMAIN batch
      BY <1>0, <1>1, <2>0, <3>1, <3>4 DEF Course
    <3>5. CASE client' = [at |-> "join", i |-> 1] /\ 1 \in DOMAIN batch
      BY <1>0, <1>1, <2>0, <3>1, <3>5 DEF Course
    <3> QED
      BY <1>0, <3>1, <3>2, <3>3, <3>4, <3>5, ContinueFacts
  <2>3. CASE ClientJoin
    <3>1. /\ client.at = "join" /\ batch[client.i] \in done /\ UNCHANGED <<sum, active>>
          /\ client' = IF client.i < Len(batch) THEN [at |-> "join", i |-> client.i + 1] ELSE [at |-> "sum", i |-> 1]
      BY <2>3 DEF ClientJoin, Client
    <3>2. /\ client.i \in 1 .. Len(batch) /\ Len(batch) \in Nat /\ DOMAIN batch = 1 .. Len(batch)
      BY <1>0, <3>1, BatchFacts
    <3>3. \A j \in 1 .. client.i : batch[j] \in done
      <4>1. \A j \in 1 .. client.i - 1 : batch[j] \in done
        BY <1>0, <3>1 DEF Course
      <4>2. \A j \in 1 .. client.i : j = client.i \/ j \in 1 .. client.i - 1
        BY <3>2
      <4> QED
        BY <3>1, <4>1, <4>2
    <3>4. CASE client.i < Len(batch)
      <4>1. client' = [at |-> "join", i |-> client.i + 1] /\ client.i + 1 \in DOMAIN batch /\ (client.i + 1) - 1 = client.i
        BY <3>1, <3>2, <3>4
      <4> QED
        BY <1>0, <1>1, <2>0, <3>1, <3>3, <4>1 DEF Course
    <3>5. CASE ~(client.i < Len(batch))
      <4>1. client.i = Len(batch) /\ client' = [at |-> "sum", i |-> 1]
        BY <3>1, <3>2, <3>5
      <4>2. ToSet(batch) \subseteq done
        BY <3>2, <3>3, <4>1 DEF ToSet
      <4>3. done = Tasks
        BY <1>0, <4>2, AllDone
      <4>4. 1 \in 1 .. Len(WorkerList) + 1
        BY WorkerFacts
      <4> QED
        BY <1>0, <1>1, <2>0, <3>1, <4>1, <4>3, <4>4 DEF Course
    <3> QED
      BY <3>4, <3>5
  <2>4. CASE SumFinished
    <3>1. client.at = "sum" /\ UNCHANGED active
      BY <2>4 DEF SumFinished, Client
    <3>2. client.i \in 1 .. Len(WorkerList) + 1 /\ Len(WorkerList) \in Nat /\ done = Tasks
      BY <1>0, <3>1, WorkerFacts DEF Course
    <3>3. CASE client.i <= Len(WorkerList)
      <4>1. client' = [at |-> "sum", i |-> client.i + 1]
        BY <2>4, <3>3 DEF SumFinished, Client
      <4>2. client.i + 1 \in 1 .. Len(WorkerList) + 1
        BY <3>2, <3>3
      <4> QED
        BY <1>0, <1>1, <2>0, <3>1, <3>2, <4>1, <4>2 DEF Course
    <3>4. CASE ~(client.i <= Len(WorkerList)) /\ sum = taskCounter
      <4>1. client' = [at |-> "deactivate", i |-> 1] /\ sum' = 0
        BY <2>4, <3>4 DEF SumFinished, Client
      <4>2. Over = Tasks
        BY <1>0, <3>1, <3>4, AllCounted DEF IInv, Counting
      <4> QED
        BY <1>0, <1>1, <2>0, <3>1, <3>2, <4>1, <4>2 DEF Course
    <3>5. CASE ~(client.i <= Len(WorkerList)) /\ sum # taskCounter
      <4>1. client' = [at |-> "sum", i |-> 1]
        BY <2>4, <3>5 DEF SumFinished, Client
      <4>2. 1 \in 1 .. Len(WorkerList) + 1
        BY <3>2
      <4> QED
        BY <1>0, <1>1, <2>0, <3>1, <3>2, <4>1, <4>2 DEF Course
    <3> QED
      BY <3>3, <3>4, <3>5
  <2>5. CASE Deactivate
    <3>1. client.at = "deactivate" /\ client' = [at |-> "finished", i |-> 1] /\ active' = FALSE /\ UNCHANGED sum
      BY <2>5 DEF Deactivate, Client
    <3> QED
      BY <1>0, <1>1, <2>0, <3>1 DEF Course
  <2> QED
    BY <1>3, <2>1, <2>2, <2>3, <2>4, <2>5 DEF ClientThread
<1> QED
  BY <1>0, <1>2, <1>3, WorkerKeeps DEF Next, Finished, vars, clientVars

----------------------------------------------------------------------------
(* What the client adds up.                                                *)

LEMMA CountedFinite ==
  ASSUME NEW F, NEW G, CountedBy(F, G)
  PROVE  /\ G \subseteq Tasks /\ IsFiniteSet(G) /\ sum = Cardinality(G) /\ sum \in Nat
         /\ \A w \in Workers : F[w] \subseteq Tasks /\ IsFiniteSet(F[w]) /\ finished[w] = Cardinality(F[w]) /\ finished[w] \in Nat
         /\ sum = 0 => G = {}
<1>1. G \subseteq Tasks /\ sum = Cardinality(G)
  BY DEF CountedBy
<1>2. IsFiniteSet(G)
  BY <1>1, GraphAssumption, FS_Subset
<1>3. sum = 0 => G = {}
  BY <1>1, <1>2, FS_EmptySet
<1>4. ASSUME NEW w \in Workers
      PROVE  F[w] \subseteq Tasks /\ IsFiniteSet(F[w]) /\ finished[w] = Cardinality(F[w]) /\ finished[w] \in Nat
  <2>1. F[w] \subseteq Tasks /\ finished[w] = Cardinality(F[w])
    BY DEF CountedBy
  <2>2. IsFiniteSet(F[w])
    BY <2>1, GraphAssumption, FS_Subset
  <2> QED
    BY <2>1, <2>2, FS_CardinalityType
<1> QED
  BY <1>1, <1>2, <1>3, <1>4, FS_CardinalityType

LEMMA CountingStays ==
  ASSUME NEW F, NEW G, CountedBy(F, G), Over' = Over, UNCHANGED <<finished, sum>>, client' = client \/ G = {}
  PROVE  Counting'
<1>1. CountedBy(F, G)'
  BY DEF CountedBy
<1> QED
  BY <1>1 DEF Counting

\* A worker counts the task it leaves.
LEMMA CountingWorker ==
  ASSUME Core, NEW F, NEW G, CountedBy(F, G), NEW w \in Workers, CountFinished(w)
  PROVE  Counting'
<1> PICK t : t = Top(w).task
  OBVIOUS
<1> DEFINE E == [F EXCEPT ![w] = F[w] \cup {t}]
<1>1. Over' = Over \cup {t} /\ t \notin Over /\ t \in Tasks
  BY CountNext DEF Core, Types
<1>2. F \in [Workers -> SUBSET Tasks] /\ Over = UNION {F[v] : v \in Workers}
  BY DEF CountedBy
<1>3. \A v \in Workers : t \notin F[v]
  BY <1>1, <1>2
<1>4. E \in [Workers -> SUBSET Tasks] /\ E[w] = F[w] \cup {t} /\ \A v \in Workers \ {w} : E[v] = F[v]
  BY <1>1, <1>2
<1>5. finished \in [Workers -> Nat] /\ finished' = [finished EXCEPT ![w] = finished[w] + 1]
  BY DEF CountFinished, Core, Types
<1>6. client' = client /\ sum' = sum
  BY DEF CountFinished, WorkerOnly, clientVars
<1> HIDE DEF E
<1>7. ASSUME NEW v \in Workers PROVE finished'[v] = Cardinality(E[v])
  <2>1. CASE v = w
    <3>1. Cardinality(F[w] \cup {t}) = Cardinality(F[w]) + 1
      BY <1>3, CountedFinite, FS_AddElement
    <3> QED
      BY <1>4, <1>5, <2>1, <3>1, CountedFinite
  <2>2. CASE v # w
    BY <1>4, <1>5, <2>2 DEF CountedBy
  <2> QED
    BY <2>1, <2>2
<1>8. \A u, v \in Workers : u # v => F[u] \cap F[v] = {}
  BY DEF CountedBy
<1>9. ASSUME NEW u \in Workers, NEW v \in Workers, u # v PROVE E[u] \cap E[v] = {}
  BY <1>3, <1>4, <1>8, <1>9
<1>10. Over' = UNION {E[v] : v \in Workers}
  <2>1. ASSUME NEW x \in Over' PROVE \E v \in Workers : x \in E[v]
    BY <1>1, <1>2, <1>4, <2>1
  <2>2. ASSUME NEW v \in Workers, NEW x \in E[v] PROVE x \in Over'
    BY <1>1, <1>2, <1>4, <2>2
  <2> QED
    BY <2>1, <2>2
<1>11. ASSUME client'.at = "sum", NEW x \in G PROVE \E j \in 1 .. client'.i - 1 : x \in E[WorkerList[j]]
  <2>1. client.at = "sum"
    BY <1>6, <1>11
  <2>2. PICK j \in 1 .. client.i - 1 : x \in F[WorkerList[j]]
    BY <1>11, <2>1 DEF CountedBy
  <2>3. client.i \in 1 .. Len(WorkerList) + 1 /\ WorkerList \in Seq(Workers)
    BY <2>1, WorkerFacts DEF Core, Course
  <2>4. j \in 1 .. Len(WorkerList) /\ WorkerList[j] \in Workers
    BY <2>2, <2>3
  <2>5. x \in E[WorkerList[j]]
    BY <1>4, <2>2, <2>4
  <2> QED
    BY <1>6, <2>2, <2>5
<1>12. G \in SUBSET Tasks /\ sum' = Cardinality(G)
  BY <1>6 DEF CountedBy
<1>13. CountedBy(E, G)'
  BY <1>4, <1>7, <1>9, <1>10, <1>11, <1>12 DEF CountedBy
<1> QED
  BY <1>13 DEF Counting

\* The client adds a counter to its sum, or starts again.
LEMMA CountingSum ==
  ASSUME Core, NEW F, NEW G, CountedBy(F, G), Over' = Over, SumFinished
  PROVE  Counting'
<1>1. client.at = "sum" /\ finished' = finished
  BY DEF SumFinished, Client
<1>2. client.i \in 1 .. Len(WorkerList) + 1 /\ WorkerList \in Seq(Workers) /\ IsInjective(WorkerList) /\ Len(WorkerList) \in Nat
  BY <1>1, WorkerFacts DEF Core, Course
<1>3. CASE client.i <= Len(WorkerList)
  <2>1. client' = [at |-> "sum", i |-> client.i + 1] /\ sum' = sum + finished[WorkerList[client.i]]
    BY <1>3 DEF SumFinished, Client
  <2> PICK w : w = WorkerList[client.i]
    OBVIOUS
  <2>2. w \in Workers /\ client.i \in 1 .. Len(WorkerList)
    BY <1>2, <1>3
  <2>3. G \cap F[w] = {}
    <3> SUFFICES ASSUME NEW x \in G, x \in F[w] PROVE FALSE
      OBVIOUS
    <3>1. PICK j \in 1 .. client.i - 1 : x \in F[WorkerList[j]]
      BY <1>1 DEF CountedBy
    <3>2. j \in 1 .. Len(WorkerList) /\ j # client.i
      BY <1>2, <3>1
    <3>3. WorkerList[j] \in Workers /\ WorkerList[j] # w
      BY <1>2, <2>2, <3>2 DEF IsInjective
    <3>4. F[WorkerList[j]] \cap F[w] = {}
      BY <2>2, <3>3 DEF CountedBy
    <3> QED
      BY <3>1, <3>4
  <2>4. /\ G \subseteq Tasks /\ IsFiniteSet(G) /\ sum = Cardinality(G) /\ sum \in Nat
        /\ F[w] \subseteq Tasks /\ IsFiniteSet(F[w]) /\ finished[w] = Cardinality(F[w]) /\ finished[w] \in Nat
    BY <2>2, CountedFinite
  <2>5. Cardinality(G \cup F[w]) = Cardinality(G) + Cardinality(F[w]) - Cardinality(G \cap F[w])
    BY <2>4, FS_Union
  <2>6. Cardinality(G \cap F[w]) = 0
    BY <2>3, FS_EmptySet
  <2>7. sum' = Cardinality(G \cup F[w])
    BY <2>1, <2>4, <2>5, <2>6
  <2>8. ASSUME NEW x \in G \cup F[w] PROVE \E j \in 1 .. client'.i - 1 : x \in F[WorkerList[j]]
    <3>1. client'.i = client.i + 1
      BY <2>1
    <3>2. CASE x \in G
      <4>1. PICK j \in 1 .. client.i - 1 : x \in F[WorkerList[j]]
        BY <1>1, <3>2 DEF CountedBy
      <4>2. j \in 1 .. client'.i - 1
        BY <1>2, <3>1, <4>1
      <4> QED
        BY <4>1, <4>2
    <3>3. CASE x \in F[w]
      <4>1. client.i \in 1 .. client'.i - 1
        BY <2>2, <3>1
      <4> QED
        BY <3>3, <4>1
    <3> QED
      BY <2>8, <3>2, <3>3
  <2> PICK H : H = G \cup F[w]
    OBVIOUS
  <2>9. CountedBy(F, H)'
    BY <1>1, <2>4, <2>7, <2>8 DEF CountedBy
  <2> QED
    BY <2>9 DEF Counting
<1>4. CASE ~(client.i <= Len(WorkerList))
  <2>1. client' \in {[at |-> "sum", i |-> 1], [at |-> "deactivate", i |-> 1]} /\ sum' = 0
    BY <1>4 DEF SumFinished, Client
  <2> PICK H : H = {}
    OBVIOUS
  <2>2. Cardinality(H) = 0
    BY FS_EmptySet
  <2>3. CountedBy(F, H)'
    BY <1>1, <2>1, <2>2 DEF CountedBy
  <2> QED
    BY <2>3 DEF Counting
<1> QED
  BY <1>3, <1>4

LEMMA CountingNext == ASSUME IInv, [Next]_vars PROVE Counting'
<1>0. Core
  BY DEF IInv, Core
<1>1. PICK F, G : CountedBy(F, G)
  BY DEF IInv, Counting
<1>2. CASE \E w \in Workers : CountFinished(w)
  BY <1>0, <1>1, <1>2, CountingWorker
<1>3. CASE \A w \in Workers : ~CountFinished(w)
  <2>1. Over' = Over
    BY <1>0, <1>3, OverNext
  <2>2. CASE SumFinished
    BY <1>0, <1>1, <2>1, <2>2, CountingSum
  <2>3. CASE ClientThread /\ ~SumFinished
    <3>1. client.at # "sum" /\ UNCHANGED <<finished, sum>>
      BY <2>3 DEF ClientThread, ClientSchedule, ClientAdmit, ClientPush, ClientJoin, Deactivate, Client,
        MarkAsScheduled, Admit
    <3>2. sum = 0
      BY <1>0, <3>1 DEF Core, Course
    <3>3. G = {}
      BY <1>1, <3>2, CountedFinite
    <3> QED
      BY <1>1, <2>1, <3>1, <3>3, CountingStays
  <2>4. ASSUME NEW w \in Workers, Worker(w) PROVE Counting'
    <3>1. UNCHANGED finished
      BY <1>3, <2>4 DEF Worker, TakeNextTask, Pull, Steal, PutBack, Run, ScheduleJob, AdmitJob, PushJob, Return,
        Decrement, Offer, SetDone, MarkAsScheduled, Admit
    <3>2. UNCHANGED <<client, sum>>
      BY <1>0, <2>4, WorkerKeeps
    <3> QED
      BY SMTT(60), <1>1, <2>1, <3>1, <3>2, CountingStays
  <2>5. CASE UNCHANGED vars
    BY <1>1, <2>1, <2>5, CountingStays DEF vars, clientVars
  <2> QED
    BY <2>2, <2>3, <2>4, <2>5 DEF Next, Finished
<1> QED
  BY <1>2, <1>3

----------------------------------------------------------------------------
(* The inductive invariant.                                                *)

LEMMA IInvInit == ASSUME Init PROVE IInv
<1> USE DEF Init
<1>1. IsFiniteSet(Tasks \ Spawned) /\ batch \in SetToSeqs(Tasks \ Spawned)
  BY GraphAssumption, FS_Difference
<1>2. batch \in Seq(Tasks \ Spawned) /\ ToSet(batch) = Tasks \ Spawned /\ DOMAIN batch = 1 .. Len(batch) /\ Len(batch) \in Nat
  <2>1. batch \in Seq(Tasks \ Spawned) /\ ToSet(batch) = Tasks \ Spawned
    BY <1>1, ListOf
  <2> QED
    BY <2>1
<1>3. \A t : Owing(t) = {p \in Tasks : <<p, t>> \in Edges}
  BY DEF Owing
<1>4. \A t \in Tasks : pending[t] = Cardinality(Owing(t))
  BY <1>3
<1>5. Types
  <2>1. pending \in [Tasks -> Nat]
    BY <1>4, OwingFinite
  <2>2. queue \in [Nodes -> [Priorities -> Seq(Tasks)]]
    BY DEF Priorities
  <2>3. stack \in [Workers -> Seq(Frames)]
    OBVIOUS
  <2> QED
    BY <2>1, <2>2, <2>3 DEF Types
<1>6. Shape
  BY DEF Shape
<1>7. \A h \in Holders : Holds(h) = {}
  <2> SUFFICES ASSUME NEW h \in Holders PROVE Holds(h) = {}
    OBVIOUS
  <2>1. ASSUME NEW n \in Nodes, NEW p \in Priorities PROVE Holds(<<"queue", n, p>>) = {}
    <3>1. queue[n][p] = <<>>
      BY DEF Priorities
    <3>2. ToSet(<<>>) = {}
      BY DEF ToSet
    <3> QED
      BY ZenonT(60), <3>1, <3>2, HoldsOf
  <2>2. ASSUME NEW w \in Workers PROVE Holds(<<"next", w, 0>>) = {} /\ Holds(<<"stolen", w, 0>>) = {} /\ Holds(<<"stack", w, 0>>) = {}
    <3>1. nextTask[w] = None /\ stolen[w] = None /\ stack[w] = <<>>
      OBVIOUS
    <3>2. Holds(<<"stack", w, 0>>) = {}
      BY <3>1, StackHolds
    <3> QED
      BY <3>1, <3>2, HoldsOf
  <2> QED
    BY <2>1, <2>2, HolderKinds
<1>8. Places
  <2>1. \A n \in Nodes, p \in Priorities : IsInjective(queue[n][p])
    BY DEF Priorities, IsInjective
  <2> QED
    BY <1>7, <2>1 DEF Places
<1>9. Readiness
  BY <1>4 DEF Readiness, At
<1>10. ToAdmit = {}
  BY DEF ToAdmit, At
<1>11. taskCounter = Cardinality(scheduled \ ToAdmit)
  BY <1>10, FS_EmptySet
<1>12. Scheduling
  BY <1>11 DEF Scheduling, Unmarked, BatchUnmarked, Marked, At
<1>13. Over = {}
  BY DEF Over
<1>14. 1 \in DOMAIN batch
  <2>1. Tasks \ Spawned # {}
    <3>1. Tasks \in (SUBSET Tasks) \ {{}}
      BY JobAssumption
    <3>2. PICK t \in Tasks : \A u \in Tasks : t \notin ToSet(Jobs[u])
      BY <3>1, JobAssumption
    <3> QED
      BY <3>2 DEF Spawned
  <2>2. Len(batch) # 0
    BY <1>2, <2>1 DEF ToSet
  <2> QED
    BY <1>2, <2>2
<1>15. Course
  BY <1>1, <1>14 DEF Course
<1>16. Counting
  <2> DEFINE N == [w \in Workers |-> {}]
  <2>1. N \in [Workers -> SUBSET Tasks] /\ \A w \in Workers : N[w] = {}
    OBVIOUS
  <2> HIDE DEF N
  <2>2. CountedBy(N, {})
    BY <1>13, <2>1, FS_EmptySet DEF CountedBy
  <2> QED
    BY <2>2 DEF Counting
<1> QED
  BY <1>5, <1>6, <1>8, <1>9, <1>12, <1>15, <1>16 DEF IInv

\* Every reachable state satisfies the inductive invariant.
THEOREM Invariance == Spec => []IInv
<1>1. Init => IInv
  BY IInvInit
<1>2. IInv /\ [Next]_vars => IInv'
  <2> SUFFICES ASSUME IInv, [Next]_vars PROVE IInv'
    OBVIOUS
  <2>1. Core
    BY DEF IInv, Core
  <2> QED
    BY <2>1, TypesNext, ShapeNext, PlacesNext, ReadinessNext, SchedulingNext, CourseNext, CountingNext DEF IInv
<1> QED
  BY <1>1, <1>2, PTL DEF Spec

----------------------------------------------------------------------------
(* The properties.                                                         *)

\* A sequence without repetition is no longer than its elements are many.
LEMMA ShortList ==
  ASSUME NEW s \in Seq(Tasks), IsInjective(s)
  PROVE  Len(s) \in Nat /\ DOMAIN s = 1 .. Len(s) /\ Len(s) <= Cardinality(Tasks)
<1>1. Len(s) \in Nat /\ DOMAIN s = 1 .. Len(s) /\ s \in [1 .. Len(s) -> Tasks]
  OBVIOUS
<1>2. s \in Injection(1 .. Len(s), Tasks)
  BY <1>1 DEF IsInjective, Injection
<1>3. Cardinality(1 .. Len(s)) <= Cardinality(Tasks)
  BY <1>2, GraphAssumption, FS_Injection
<1>4. Cardinality(1 .. Len(s)) = Len(s)
  BY SMTT(60), <1>1, FS_Interval
<1> QED
  BY <1>1, <1>3, <1>4

LEMMA FramesBounded ==
  ASSUME IInv, NEW w \in Workers
  PROVE  stack[w] \in Seq([task : Tasks, at : Labels, i : 1 .. Cardinality(Tasks) + 1])
<1> DEFINE Bounded == [task : Tasks, at : Labels, i : 1 .. Cardinality(Tasks) + 1]
<1>1. Cardinality(Tasks) \in Nat
  BY GraphAssumption, FS_CardinalityType
<1>2. stack[w] \in Seq(Frames)
  BY DEF IInv, Types
<1>3. ASSUME NEW k \in DOMAIN stack[w] PROVE stack[w][k] \in Bounded
  <2> PICK f : f = stack[w][k]
    OBVIOUS
  <2>1. f \in Frames /\ Fits(f, started, completed, done)
    BY <1>2, <1>3 DEF IInv, Shape
  <2>2. f.task \in Tasks /\ f.at \in Labels \ {"assertion"} /\ f.i \in Nat
    BY <2>1 DEF Frames
  <2>3. f.i \in 1 .. Cardinality(Tasks) + 1
    <3>1. CASE f.at \in {"run", "working", "wait", "setDone", "count"}
      BY <1>1, <2>1, <3>1 DEF Fits
    <3>2. CASE f.at \in {"schedule", "admit", "push"}
      <4>1. f.i \in DOMAIN Jobs[f.task] /\ Jobs[f.task] \in Seq(Tasks) /\ IsInjective(Jobs[f.task])
        BY <2>1, <2>2, <3>2, JobAssumption DEF Fits
      <4>2. f.i \in 1 .. Len(Jobs[f.task]) /\ Len(Jobs[f.task]) \in Nat /\ Len(Jobs[f.task]) <= Cardinality(Tasks)
        BY <4>1, ShortList
      <4> QED
        BY <1>1, <2>2, <4>2
    <3>3. CASE f.at \in {"decrement", "offer"}
      <4>1. f.i \in DOMAIN Successors[f.task] /\ Successors[f.task] \in Seq(Tasks) /\ IsInjective(Successors[f.task])
        BY <2>1, <2>2, <3>3, GraphAssumption DEF Fits
      <4>2. f.i \in 1 .. Len(Successors[f.task]) /\ Len(Successors[f.task]) \in Nat
            /\ Len(Successors[f.task]) <= Cardinality(Tasks)
        BY <4>1, ShortList
      <4> QED
        BY <1>1, <2>2, <4>2
    <3> QED
      BY <2>2, <3>1, <3>2, <3>3 DEF Labels
  <2> QED
    BY <2>1, <2>2, <2>3 DEF Frames
<1> HIDE DEF Bounded
<1>4. stack[w] \in Seq(Bounded)
  BY <1>2, <1>3
<1> QED
  BY <1>4 DEF Bounded

LEMMA TypesKnown == ASSUME IInv PROVE TypeOK
<1>1. Cardinality(Tasks) \in Nat
  BY GraphAssumption, FS_CardinalityType
<1>2. pending \in [Tasks -> 0 .. Cardinality(Tasks)]
  <2>1. \A t \in Tasks : pending[t] \in 0 .. Cardinality(Tasks)
    BY <1>1, OwingFinite DEF IInv, Readiness
  <2> QED
    BY <2>1 DEF IInv, Types
<1>3. \A w \in Workers : stolen[w] # None => stolen[w].task \in Tasks \ Stealable
  BY DEF IInv, Types, Thefts
<1>4. taskCounter \in 0 .. Cardinality(Tasks)
  <2>1. scheduled \ ToAdmit \subseteq Tasks /\ taskCounter = Cardinality(scheduled \ ToAdmit)
    BY DEF IInv, Types, Scheduling
  <2>2. IsFiniteSet(scheduled \ ToAdmit) /\ Cardinality(scheduled \ ToAdmit) <= Cardinality(Tasks)
    BY <2>1, GraphAssumption, FS_Subset
  <2> QED
    BY <1>1, <2>1, <2>2, FS_CardinalityType
<1>5. sum \in 0 .. Cardinality(Tasks)
  <2>1. PICK F, G : CountedBy(F, G)
    BY DEF IInv, Counting
  <2>2. G \subseteq Tasks /\ sum = Cardinality(G) /\ sum \in Nat
    BY <2>1, CountedFinite
  <2>3. Cardinality(G) <= Cardinality(Tasks)
    BY <2>2, GraphAssumption, FS_Subset
  <2> QED
    BY <1>1, <2>2, <2>3
<1>6. /\ completed \subseteq started /\ done \subseteq completed /\ started \subseteq enqueued
      /\ enqueued \subseteq scheduled /\ scheduled \subseteq Tasks /\ nextTask \in [Workers -> Tasks \cup {None}]
  BY DEF IInv, Types
<1> QED
  BY <1>2, <1>3, <1>4, <1>5, <1>6, FramesBounded DEF TypeOK

LEMMA AssertionsHold == ASSUME IInv PROVE NoAssertionFails
<1> SUFFICES ASSUME NEW w \in Workers, stack[w] # <<>> PROVE Top(w).at # "assertion"
  BY DEF NoAssertionFails, At
<1>1. Top(w).at \in Labels \ {"assertion"}
  BY TopFacts DEF IInv
<1> QED
  BY <1>1

LEMMA TasksKept == ASSUME IInv PROVE NoTaskLost
<1> SUFFICES ASSUME NEW t \in scheduled \ done, pending[t] = 0 PROVE InQueue(t) \/ Held(t) \/ AboutToEnqueue(t)
  BY DEF NoTaskLost
<1>1. CASE t \notin enqueued
  BY <1>1 DEF IInv, Readiness
<1>2. CASE t \in enqueued
  <2>1. PICK h \in Holders : t \in Holds(h)
    BY <1>2 DEF IInv, Places
  <2>2. ASSUME NEW n \in Nodes, NEW p \in Priorities, h = <<"queue", n, p>> PROVE InQueue(t)
    <3>1. t \in ToSet(queue[n][p])
      BY <2>1, <2>2, HoldsOf
    <3> QED
      BY <3>1 DEF InQueue, Priorities
  <2>3. ASSUME NEW w \in Workers, h \in {<<"next", w, 0>>, <<"stolen", w, 0>>, <<"stack", w, 0>>} PROVE Held(t)
    <3>1. CASE h = <<"next", w, 0>>
      <4>1. nextTask[w] = t
        BY <2>1, <3>1, HoldsOf
      <4> QED
        BY <4>1 DEF Held
    <3>2. CASE h = <<"stolen", w, 0>>
      <4>1. stolen[w] # None /\ stolen[w].task = t
        BY <2>1, <3>2, HoldsOf
      <4> QED
        BY <4>1 DEF Held
    <3>3. CASE h = <<"stack", w, 0>>
      <4>1. \E k \in DOMAIN stack[w] : stack[w][k].task = t
        BY <2>1, <3>3, StackHolds
      <4> QED
        BY <4>1 DEF Held
    <3> QED
      BY <2>3, <3>1, <3>2, <3>3
  <2> QED
    BY <2>2, <2>3, HolderKinds
<1> QED
  BY <1>1, <1>2

\* Whatever threads schedule, push, pull, steal and offer at the same time: no task is
\* executed twice or before its predecessors (the assertions of AbstractTask::execute),
\* and a task that is scheduled and ready is in a queue, with a worker, or about to be
\* enqueued by a known thread.
THEOREM TasksStayConsistent == Spec => []TasksConsistent
<1>1. IInv => TasksConsistent
  BY TypesKnown, AssertionsHold, TasksKept DEF TasksConsistent
<1> QED
  BY <1>1, Invariance, PTL

\* When NodeQueueScheduler::wait_for_all_tasks has found its sum equal to the number of
\* scheduled tasks, every task is done and no worker or queue holds one, although the
\* counters are read one by one while workers count.
THEOREM NothingIsLeft == Spec => []NothingLeftAfterWait
<1>1. IInv => NothingLeftAfterWait
  <2> SUFFICES ASSUME IInv, client.at \in {"deactivate", "finished"}
               PROVE  /\ done = Tasks
                      /\ \A n \in Nodes : Empty(n)
                      /\ \A w \in Workers : stack[w] = <<>> /\ nextTask[w] = None /\ stolen[w] = None
    BY DEF NothingLeftAfterWait
  <2>1. done = Tasks /\ Over = Tasks /\ Core
    BY DEF IInv, Course, Core
  <2> QED
    BY <2>1, Quiet DEF Empty, Priorities
<1> QED
  BY <1>1, Invariance, PTL

\* Every step of the scheduler is one of the abstract task graph, or none.
LEMMA StepsOfGraph == ASSUME IInv, [Next]_vars PROVE [Graph!Next]_(Graph!vars)
<1>0. Core
  BY DEF IInv, Core
<1> USE DEF Graph!vars
<1>1. CASE UNCHANGED <<started, completed, active>>
  BY <1>1
<1>2. ASSUME NEW w \in Workers, Run(w) PROVE Graph!Next
  <2> PICK t : t = Top(w).task
    OBVIOUS
  <2>1. t \in Tasks \ started /\ pending[t] = 0
    BY <1>0, <1>2, RunFacts DEF Core
  <2>2. started' = started \cup {t} /\ UNCHANGED <<completed, active>>
    BY <1>2 DEF Run, WorkerOnly, queueVars
  <2>3. Owing(t) = {}
    <3>1. Cardinality(Owing(t)) = 0
      BY <1>0, <2>1 DEF Core, Readiness
    <3> QED
      BY <2>1, <3>1, OwingFinite, FS_EmptySet
  <2>4. Graph!Predecessors(t) \subseteq completed
    BY <2>3 DEF Graph!Predecessors, Owing
  <2>5. active = TRUE
    <3>1. client.at # "finished"
      <4>1. Worker(w)
        BY <1>2 DEF Worker
      <4> QED
        BY <1>0, <4>1, QuietWorkers DEF Core, Course
    <3> QED
      BY <1>0, <3>1 DEF Core, Course
  <2>6. Graph!Start(t)
    BY <2>1, <2>2, <2>4, <2>5 DEF Graph!Start
  <2> QED
    BY <2>1, <2>6 DEF Graph!Next
<1>3. ASSUME NEW w \in Workers, Return(w) PROVE Graph!Next
  <2> PICK t : t = Top(w).task
    OBVIOUS
  <2>1. t \in started \ completed /\ t \in Tasks
    BY <1>0, <1>3, ReturnFacts, TopFacts DEF Core
  <2>2. completed' = completed \cup {t} /\ UNCHANGED <<started, active>>
    BY <1>3 DEF Return, WorkerOnly
  <2>3. Graph!Complete(t)
    BY <2>1, <2>2 DEF Graph!Complete
  <2> QED
    BY <2>1, <2>3 DEF Graph!Next
<1>4. CASE Deactivate
  <2>1. active' = FALSE /\ UNCHANGED <<started, completed>>
    BY <1>4 DEF Deactivate, taskVars
  <2>2. completed = Tasks
    BY <1>0, <1>4 DEF Deactivate, Client, Core, Course, Types
  <2> QED
    BY <2>1, <2>2 DEF Graph!Next, Graph!Close
<1>5. CASE ClientThread /\ ~Deactivate
  BY <1>1, <1>5 DEF ClientThread, ClientSchedule, ClientAdmit, ClientPush, ClientJoin, SumFinished,
                    MarkAsScheduled, Admit, PushTo, taskVars
<1>6. ASSUME NEW w \in Workers, Worker(w), ~Run(w), ~Return(w) PROVE UNCHANGED <<started, completed, active>>
  <2>1. UNCHANGED active
    BY <1>0, <1>6, WorkerKeeps
  <2>2. UNCHANGED <<started, completed>>
    BY <1>0, <1>6, OfferFacts DEF Worker, TakeNextTask, Pull, Steal, PutBack, ScheduleJob, AdmitJob, PushJob, Decrement,
       SetDone, CountFinished, MarkAsScheduled, Admit, PushTo, taskVars, Core
  <2> QED
    BY <2>1, <2>2
<1>7. CASE UNCHANGED vars
  BY <1>1, <1>7 DEF vars, taskVars
<1> QED
  BY <1>1, <1>2, <1>3, <1>4, <1>5, <1>6, <1>7 DEF Next, Finished

\* The scheduler, its queues, workers and counters implement the abstract task graph: a
\* task starts once and after all its predecessors, and finish() closes the scheduler
\* when every task has run.
THEOREM SchedulerImplementsTaskGraph == Spec => ImplementsTaskGraph
<1>1. Init => Graph!Init
  BY DEF Init, Graph!Init
<1>2. IInv /\ [Next]_vars => [Graph!Next]_(Graph!vars)
  BY StepsOfGraph
<1> QED
  BY <1>1, <1>2, Invariance, PTL DEF Spec, ImplementsTaskGraph, Graph!Spec
==================================================================================
