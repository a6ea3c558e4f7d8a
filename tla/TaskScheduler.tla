------------------------------ MODULE TaskScheduler ------------------------------
(***************************************************************************)
(* Hyrise's NodeQueueScheduler with its workers, queues and tasks          *)
(* (src/lib/scheduler of ssb/hyrise-dram), from the scheduling of a list   *)
(* of tasks by a client thread to finish().                                *)
(*                                                                         *)
(* Task dependencies are fixed before anything is scheduled.  A task may   *)
(* also spawn jobs and wait for them: its worker then executes other tasks *)
(* in the meantime, so a worker has a stack of tasks.  The work of a task  *)
(* is one step; the bookkeeping around it is split wherever another thread *)
(* could see the difference.  A worker that finds nothing sleeps for 300   *)
(* us at most, so it misses no task for good.                              *)
(***************************************************************************)
EXTENDS Integers, Sequences, SequencesExt, FiniteSets

CONSTANTS
  Tasks, Workers, Nodes,
  None,        \* the null shared_ptr
  Successors,  \* AbstractTask::_successors: a sequence for each task
  Jobs,        \* the sequence of jobs each task spawns and waits for
  NodeOf,      \* the node whose queue a worker serves
  FirstNode,   \* node 0, for threads that are no workers
  Stealable    \* tasks that may leave their node

Edges    == {e \in Tasks \X Tasks : e[2] \in ToSet(Successors[e[1]])}
Spawned  == UNION {ToSet(Jobs[t]) : t \in Tasks}

High == 1
Default == 2

ASSUME NullAssumption == None \notin Tasks \cup [task : Tasks, node : Nodes, priority : {High, Default}]
ASSUME GraphAssumption ==
  /\ IsFiniteSet(Tasks) /\ Stealable \subseteq Tasks
  /\ Successors \in [Tasks -> Seq(Tasks)] /\ \A t \in Tasks : IsInjective(Successors[t])
\* A job is made by the task that waits for it, and the client has tasks of its own.
ASSUME JobAssumption ==
  /\ Jobs \in [Tasks -> Seq(Tasks)] /\ \A t \in Tasks : IsInjective(Jobs[t])
  /\ \A t, u \in Tasks : t # u => ToSet(Jobs[t]) \cap ToSet(Jobs[u]) = {}
  /\ \A S \in (SUBSET Tasks) \ {{}} : \E t \in S : \A u \in S : t \notin ToSet(Jobs[u])
  /\ Tasks # {}
ASSUME TopologyAssumption ==
  /\ IsFiniteSet(Workers)
  /\ NodeOf \in [Workers -> Nodes] /\ FirstNode \in Nodes

VARIABLES
  pending,     \* AbstractTask::_pending_predecessors
  scheduled,   \* tasks with _is_scheduled
  enqueued,    \* tasks with _is_enqueued
  started,     \* tasks with _started
  completed,   \* tasks whose _on_execute has returned
  done,        \* tasks with _done
  queue,       \* TaskQueue::_queues of each node, by priority
  nextTask,    \* Worker::_next_task
  stolen,      \* the task a worker holds in TaskQueue::steal()
  stack,       \* of each worker: the tasks it is in, innermost first
  finished,    \* Worker::_num_finished_tasks
  taskCounter, \* NodeQueueScheduler::_task_counter
  active,      \* NodeQueueScheduler::_active
  batch,       \* the client's tasks, in the order in which it schedules them
  client,      \* where the client thread is: [at, i]
  sum          \* num_finished_tasks in wait_for_all_tasks

taskVars   == <<pending, scheduled, enqueued, started, completed, done>>
queueVars  == <<queue, nextTask, stolen>>
clientVars == <<batch, client, sum>>
vars == <<taskVars, queueVars, stack, finished, taskCounter, active, clientVars>>

Frame(t) == [task |-> t, at |-> "run", i |-> 1]

Labels == {"run", "working", "schedule", "admit", "push", "wait", "decrement", "offer", "setDone", "count", "assertion"}

TypeOK ==
  /\ pending \in [Tasks -> 0..Cardinality(Tasks)]
  /\ completed \subseteq started /\ done \subseteq completed /\ started \subseteq enqueued
  /\ enqueued \subseteq scheduled /\ scheduled \subseteq Tasks
  /\ nextTask \in [Workers -> Tasks \cup {None}] /\ \A w \in Workers : stolen[w] # None => stolen[w].task \in Tasks \ Stealable
  /\ \A w \in Workers : stack[w] \in Seq([task : Tasks, at : Labels, i : 1..Cardinality(Tasks) + 1])
  /\ taskCounter \in 0..Cardinality(Tasks) /\ sum \in 0..Cardinality(Tasks)

Init ==
  /\ pending = [t \in Tasks |-> Cardinality({p \in Tasks : <<p, t>> \in Edges})]
  /\ scheduled = {} /\ enqueued = {} /\ started = {} /\ completed = {} /\ done = {}
  /\ queue = [n \in Nodes |-> [p \in {High, Default} |-> <<>>]]
  /\ nextTask = [w \in Workers |-> None] /\ stolen = [w \in Workers |-> None]
  /\ stack = [w \in Workers |-> <<>>]
  /\ finished = [w \in Workers |-> 0]
  /\ taskCounter = 0 /\ active = TRUE
  /\ batch \in SetToSeqs(Tasks \ Spawned)
  /\ client = [at |-> "schedule", i |-> 1] /\ sum = 0

----------------------------------------------------------------------------
(* AbstractTask::schedule and NodeQueueScheduler::schedule, by the client  *)
(* or by a worker whose task spawns jobs.                                  *)

MarkAsScheduled(t) ==
  /\ scheduled' = scheduled \cup {t}
  /\ UNCHANGED <<pending, enqueued, started, completed, done, queueVars, finished, taskCounter, active>>

\* Mutant: a task that is not ready is counted later, that is never.
AdmitReadyOnly(t) ==
  /\ taskCounter' = IF pending[t] = 0 THEN taskCounter + 1 ELSE taskCounter
  /\ UNCHANGED <<taskVars, queueVars, finished, active>>

\* _task_counter++, and is_ready() decides where the caller goes.
Admit(t) ==
  /\ taskCounter' = taskCounter + 1
  /\ UNCHANGED <<taskVars, queueVars, finished, active>>

\* Mutant: the mark is not looked at.
PushUnchecked(n, priority, t) ==
  /\ enqueued' = enqueued \cup {t}
  /\ queue' = [queue EXCEPT ![n][priority] = Append(@, t)]
  /\ UNCHANGED <<pending, scheduled, started, completed, done>>

\* TaskQueue::push: the first to mark the task enqueues it.
PushTo(n, priority, t) ==
  /\ enqueued' = enqueued \cup {t}
  /\ queue' = IF t \in enqueued THEN queue ELSE [queue EXCEPT ![n][priority] = Append(@, t)]
  /\ UNCHANGED <<pending, scheduled, started, completed, done>>

----------------------------------------------------------------------------
(* The client: schedule_and_wait_for_tasks, then finish().                 *)

Client(from, to, i) == client.at = from /\ client' = [at |-> to, i |-> i] /\ UNCHANGED <<stack, batch>>

\* After the i-th task of its batch.
Continue(i) == IF i < Len(batch) THEN [at |-> "schedule", i |-> i + 1] ELSE [at |-> "join", i |-> 1]

ClientSchedule ==
  /\ Client("schedule", "admit", client.i)
  /\ MarkAsScheduled(batch[client.i]) /\ UNCHANGED sum

ClientAdmit ==
  LET after == IF pending[batch[client.i]] = 0
               THEN [at |-> "push", i |-> client.i] ELSE Continue(client.i) IN
  /\ Client("admit", after.at, after.i)
  /\ Admit(batch[client.i]) /\ UNCHANGED sum

ClientPush ==
  /\ Client("push", Continue(client.i).at, Continue(client.i).i)
  /\ PushTo(FirstNode, Default, batch[client.i])
  /\ UNCHANGED <<nextTask, stolen, finished, taskCounter, active, sum>>

\* AbstractTask::_join of the tasks, one after the other.
ClientJoin ==
  /\ batch[client.i] \in done
  /\ IF client.i < Len(batch) THEN Client("join", "join", client.i + 1) ELSE Client("join", "sum", 1)
  /\ UNCHANGED <<taskVars, queueVars, finished, taskCounter, active, sum>>

WorkerList == SetToSeq(Workers)

\* wait_for_all_tasks reads the counters one by one, _task_counter last.
SumFinished ==
  /\ IF client.i <= Len(WorkerList)
     THEN /\ Client("sum", "sum", client.i + 1)
          /\ sum' = sum + finished[WorkerList[client.i]]
     ELSE /\ IF sum = taskCounter THEN Client("sum", "deactivate", 1) ELSE Client("sum", "sum", 1)
          /\ sum' = 0
  /\ UNCHANGED <<taskVars, queueVars, finished, taskCounter, active>>

Deactivate ==
  /\ Client("deactivate", "finished", 1)
  /\ active' = FALSE
  /\ UNCHANGED <<taskVars, queueVars, finished, taskCounter, sum>>

ClientThread == ClientSchedule \/ ClientAdmit \/ ClientPush \/ ClientJoin \/ SumFinished \/ Deactivate

----------------------------------------------------------------------------
(* Worker::_work: find a task.                                             *)

Top(w) == stack[w][1]

\* A worker looks for a task between two tasks, or while a task of its stack
\* waits for jobs.
LooksForTask(w) ==
  /\ stolen[w] = None
  /\ IF stack[w] = <<>> THEN active
     ELSE Top(w).at = "wait" /\ ~(ToSet(Jobs[Top(w).task]) \subseteq done)

Enter(w, t) == stack' = [stack EXCEPT ![w] = <<Frame(t)>> \o @]

TakeNextTask(w) ==
  /\ LooksForTask(w) /\ nextTask[w] # None
  /\ Enter(w, nextTask[w])
  /\ nextTask' = [nextTask EXCEPT ![w] = None]
  /\ UNCHANGED <<taskVars, queue, stolen, finished, taskCounter, active, clientVars>>

FirstPriority(n) == IF queue[n][High] # <<>> THEN High ELSE Default
Empty(n)         == queue[n][High] = <<>> /\ queue[n][Default] = <<>>
FirstTask(n)         == Head(queue[n][FirstPriority(n)])

Pull(w) ==
  LET n == NodeOf[w] IN
  /\ LooksForTask(w) /\ nextTask[w] = None /\ ~Empty(n)
  /\ Enter(w, FirstTask(n))
  /\ queue' = [queue EXCEPT ![n][FirstPriority(n)] = Tail(@)]
  /\ UNCHANGED <<taskVars, nextTask, stolen, finished, taskCounter, active, clientVars>>

\* Mutant: is_stealable() is read the wrong way round.
StealInverted(w) ==
  /\ LooksForTask(w) /\ nextTask[w] = None
  /\ \E n \in Nodes \ {NodeOf[w]}, p \in {High, Default} :
       /\ queue[n][p] # <<>>
       /\ IF Head(queue[n][p]) \notin Stealable
          THEN Enter(w, Head(queue[n][p])) /\ UNCHANGED stolen
          ELSE /\ stolen' = [stolen EXCEPT ![w] = [task |-> Head(queue[n][p]), node |-> n, priority |-> p]]
               /\ UNCHANGED stack
       /\ queue' = [queue EXCEPT ![n][p] = Tail(@)]
  /\ UNCHANGED <<taskVars, nextTask, finished, taskCounter, active, clientVars>>

\* Another queue loses a first task.  The own queue was empty, and the first task of
\* higher priority missing or not stealable, when the worker looked; other threads
\* may have pushed since, so neither is a condition here.
Steal(w) ==
  /\ LooksForTask(w) /\ nextTask[w] = None
  /\ \E n \in Nodes \ {NodeOf[w]}, p \in {High, Default} :
       /\ queue[n][p] # <<>>
       /\ IF Head(queue[n][p]) \in Stealable
          THEN Enter(w, Head(queue[n][p])) /\ UNCHANGED stolen
          ELSE /\ stolen' = [stolen EXCEPT ![w] = [task |-> Head(queue[n][p]), node |-> n, priority |-> p]]
               /\ UNCHANGED stack
       /\ queue' = [queue EXCEPT ![n][p] = Tail(@)]
  /\ UNCHANGED <<taskVars, nextTask, finished, taskCounter, active, clientVars>>

\* ... and gets it back, as its last one, if it must not be stolen.
PutBack(w) ==
  /\ stolen[w] # None
  /\ queue' = [queue EXCEPT ![stolen[w].node][stolen[w].priority] = Append(@, stolen[w].task)]
  /\ stolen' = [stolen EXCEPT ![w] = None]
  /\ UNCHANGED <<taskVars, nextTask, stack, finished, taskCounter, active, clientVars>>

----------------------------------------------------------------------------
(* AbstractTask::execute, and what _work does after it.                    *)

At(w, label) == stack[w] # <<>> /\ Top(w).at = label

Step(w, label, i) == stack' = [stack EXCEPT ![w][1].at = label, ![w][1].i = i]

WorkerOnly == UNCHANGED <<active, clientVars>>

\* Two assertions, then _on_execute begins; with jobs it goes on to schedule them.
Run(w) ==
  LET t == Top(w).task IN
  /\ At(w, "run")
  /\ started' = started \cup {t}
  /\ Step(w, IF t \in started \/ pending[t] # 0 THEN "assertion"
             ELSE IF Jobs[t] = <<>> THEN "working" ELSE "schedule", 1)
  /\ UNCHANGED <<pending, scheduled, enqueued, completed, done, queueVars, finished, taskCounter>>
  /\ WorkerOnly

Job(w) == Jobs[Top(w).task][Top(w).i]

\* After the job at hand: the next one, or the wait for all of them.
NextJob(w) == IF Top(w).i < Len(Jobs[Top(w).task]) THEN Step(w, "schedule", Top(w).i + 1)
              ELSE Step(w, "wait", 1)

ScheduleJob(w) ==
  /\ At(w, "schedule") /\ Step(w, "admit", Top(w).i)
  /\ MarkAsScheduled(Job(w)) /\ UNCHANGED clientVars

AdmitJob(w) ==
  /\ At(w, "admit")
  /\ IF pending[Job(w)] = 0 THEN Step(w, "push", Top(w).i) ELSE NextJob(w)
  /\ Admit(Job(w)) /\ UNCHANGED clientVars

PushJob(w) ==
  /\ At(w, "push") /\ NextJob(w)
  /\ PushTo(NodeOf[w], Default, Job(w))
  /\ UNCHANGED <<nextTask, stolen, finished, taskCounter>> /\ WorkerOnly

\* _on_execute returns; Worker::_wait_for_tasks lets it once the jobs are done.
Return(w) ==
  LET t == Top(w).task IN
  /\ \/ At(w, "working")
     \/ At(w, "wait") /\ stolen[w] = None /\ ToSet(Jobs[t]) \subseteq done
  /\ completed' = completed \cup {t}
  /\ Step(w, IF Successors[t] = <<>> THEN "setDone" ELSE "decrement", 1)
  /\ UNCHANGED <<pending, scheduled, enqueued, started, done, queueVars, finished, taskCounter>>
  /\ WorkerOnly

Successor(w) == Successors[Top(w).task][Top(w).i]

NextSuccessor(w) == IF Top(w).i < Len(Successors[Top(w).task]) THEN Step(w, "decrement", Top(w).i + 1)
                    ELSE Step(w, "setDone", 1)

\* Mutant: every predecessor offers the successor.
DecrementAndOffer(w) ==
  /\ At(w, "decrement")
  /\ pending' = [pending EXCEPT ![Successor(w)] = @ - 1]
  /\ Step(w, "offer", Top(w).i)
  /\ UNCHANGED <<scheduled, enqueued, started, completed, done, queueVars, finished, taskCounter>>
  /\ WorkerOnly

\* _on_predecessor_done: the last predecessor sees the count drop to 0.
Decrement(w) ==
  /\ At(w, "decrement")
  /\ pending' = [pending EXCEPT ![Successor(w)] = @ - 1]
  /\ IF pending[Successor(w)] = 1 THEN Step(w, "offer", Top(w).i) ELSE NextSuccessor(w)
  /\ UNCHANGED <<scheduled, enqueued, started, completed, done, queueVars, finished, taskCounter>>
  /\ WorkerOnly

\* Mutant: a successor for which there is no room as next task is dropped.
OfferOrDrop(w) ==
  LET s == Successor(w) IN
  /\ At(w, "offer") /\ NextSuccessor(w)
  /\ IF s \notin scheduled \/ s \in enqueued \/ nextTask[w] # None
     THEN UNCHANGED <<taskVars, queueVars>>
     ELSE /\ nextTask' = [nextTask EXCEPT ![w] = s]
          /\ enqueued' = enqueued \cup {s}
          /\ UNCHANGED <<pending, scheduled, started, completed, done, queue, stolen>>
  /\ UNCHANGED <<finished, taskCounter>> /\ WorkerOnly

\* ... and executes it next, unless it is not scheduled yet or is enqueued already;
\* a worker that has a next task pushes it to its own queue.
Offer(w) ==
  LET s == Successor(w) IN
  /\ At(w, "offer") /\ NextSuccessor(w)
  /\ IF s \notin scheduled THEN UNCHANGED <<taskVars, queueVars>>
     ELSE IF nextTask[w] # None THEN PushTo(NodeOf[w], High, s) /\ UNCHANGED <<nextTask, stolen>>
     ELSE /\ nextTask' = IF s \in enqueued THEN nextTask ELSE [nextTask EXCEPT ![w] = s]
          /\ enqueued' = enqueued \cup {s}
          /\ UNCHANGED <<pending, scheduled, started, completed, done, queue, stolen>>
  /\ UNCHANGED <<finished, taskCounter>> /\ WorkerOnly

SetDone(w) ==
  /\ At(w, "setDone") /\ Step(w, "count", 1)
  /\ done' = done \cup {Top(w).task}
  /\ UNCHANGED <<pending, scheduled, enqueued, started, completed, queueVars, finished, taskCounter>>
  /\ WorkerOnly

\* Mutant: a task that is executed during a wait is not counted.
CountOutermost(w) ==
  /\ At(w, "count") /\ stack' = [stack EXCEPT ![w] = Tail(@)]
  /\ finished' = [finished EXCEPT ![w] = IF Len(stack[w]) = 1 THEN @ + 1 ELSE @]
  /\ UNCHANGED <<taskVars, queueVars, taskCounter>> /\ WorkerOnly

CountFinished(w) ==
  /\ At(w, "count") /\ stack' = [stack EXCEPT ![w] = Tail(@)]
  /\ finished' = [finished EXCEPT ![w] = @ + 1]
  /\ UNCHANGED <<taskVars, queueVars, taskCounter>> /\ WorkerOnly

Worker(w) ==
  \/ TakeNextTask(w) \/ Pull(w) \/ Steal(w) \/ PutBack(w)
  \/ Run(w) \/ ScheduleJob(w) \/ AdmitJob(w) \/ PushJob(w) \/ Return(w)
  \/ Decrement(w) \/ Offer(w) \/ SetDone(w) \/ CountFinished(w)

----------------------------------------------------------------------------
\* finish() has set _active to false, and the workers have left their loops.
Finished == client.at = "finished" /\ (\A w \in Workers : stack[w] = <<>>) /\ UNCHANGED vars

Next == ClientThread \/ (\E w \in Workers : Worker(w)) \/ Finished

Spec == Init /\ [][Next]_vars

\* The operating system schedules every thread.  A worker that has put back a task it may
\* not steal sleeps before it looks again (worker.cpp:79), so that the queue's own worker
\* finds the task in the end.
FairSpec == /\ Spec
            /\ WF_vars(ClientThread)
            /\ \A w \in Workers : WF_vars(Worker(w)) /\ SF_vars(Pull(w))

----------------------------------------------------------------------------
(* Properties.                                                             *)

\* The scheduler implements the abstract task graph: whatever the interleaving
\* of schedule(), execute_next(), pulls, steals and nested waits, a task starts
\* after all its predecessors have returned, and when finish() gives up the
\* workers every task has run.
Graph == INSTANCE TaskGraph WITH closed <- ~active
ImplementsTaskGraph == Graph!Spec

\* schedule(), execute_next() and push() may compete for a task, but it is executed
\* once, and not before it is ready (the assertions of execute()).
NoAssertionFails == \A w \in Workers : ~At(w, "assertion")

InQueue(t) == \E n \in Nodes, p \in {High, Default} : t \in ToSet(queue[n][p])

\* Somebody will enqueue t: the thread that schedules it, or the worker that
\* has executed its last predecessor.
AboutToEnqueue(t) ==
  \/ client.at \in {"admit", "push"} /\ batch[client.i] = t
  \/ \E w \in Workers : (At(w, "admit") \/ At(w, "push")) /\ Job(w) = t
  \/ \E w \in Workers : At(w, "offer") /\ Successor(w) = t

Held(t) == \E w \in Workers :
  \/ nextTask[w] = t
  \/ stolen[w] # None /\ stolen[w].task = t
  \/ \E k \in DOMAIN stack[w] : stack[w][k].task = t

\* A task that is scheduled and ready is never forgotten between schedule(), which
\* looks at the predecessors after it has marked the task, and its last
\* predecessor, which looks at the mark after it has counted itself off.
NoTaskLost ==
  \A t \in scheduled \ done : pending[t] = 0 => InQueue(t) \/ Held(t) \/ AboutToEnqueue(t)

\* When wait_for_all_tasks returns nothing is left, neither in a queue nor with a
\* worker, although it adds up counters that move while it reads them.
NothingLeftAfterWait ==
  client.at \in {"deactivate", "finished"} =>
    /\ done = Tasks
    /\ \A n \in Nodes : Empty(n)
    /\ \A w \in Workers : stack[w] = <<>> /\ nextTask[w] = None /\ stolen[w] = None

\* Every task is executed and finish() returns, also when workers wait for jobs in the
\* middle of tasks that others wait for.
FinishReturns == <>(client.at = "finished")

\* The variables have their types, no task is executed twice or too early, and none is
\* lost (abstract_task.cpp, worker.cpp).
TasksConsistent == TypeOK /\ NoAssertionFails /\ NoTaskLost

\* "To determine if a task is ready, it checks its parent tasks if they are done"
\* (node_queue_scheduler.hpp:29).
StartsAfterPredecessorsAreDone ==
  \A p, t \in Tasks : <<p, t>> \in Edges /\ t \in started => p \in done
==================================================================================
