--------------------------- MODULE PausableLoopThread ---------------------------
(***************************************************************************)
(* PausableLoopThread (src/lib/utils/pausable_loop_thread.cpp), the thread *)
(* on which the MVCC delete plugin runs each of its two loops, and the     *)
(* owner that pauses, resumes and destroys it.                             *)
(*                                                                         *)
(* The owner never takes _mutex, so its steps fall between any two steps   *)
(* of the loop thread, also between the evaluation of a wait's predicate   *)
(* and the wait.  The sleep at the head of an iteration ends by itself.    *)
(***************************************************************************)
EXTENDS Naturals

CONSTANT Calls   \* bound: calls of pause() and resume() by the owner

ASSUME CallsAssumption == Calls \in Nat

VARIABLES
  pauseRequested, isPaused, shutdown,   \* the three atomic flags
  thread,     \* where the loop thread is
  owns,       \* whether its unique_lock owns _mutex
  owner,      \* where the owner is
  calls,      \* calls the owner has made
  everResumed \* history: resume() has been called

flags    == <<pauseRequested, isPaused, shutdown>>
loopVars == <<flags, thread, owns, owner, calls, everResumed>>

LoopTypeOK ==
  /\ pauseRequested \in BOOLEAN /\ isPaused \in BOOLEAN /\ shutdown \in BOOLEAN
  /\ owns \in BOOLEAN /\ everResumed \in BOOLEAN
  /\ thread \in {"loop", "sleep", "slept", "ask", "clearPaused", "setPaused", "predicate", "block", "blocked",
                 "woken", "run", "exited", "terminated"}
  /\ owner \in {"ready", "pausing", "paused", "notify", "shutdown", "lastNotify", "join", "destroyed"}
  /\ calls \in 0..Calls
  /\ owns => thread \notin {"loop", "exited"}

LoopInit ==
  /\ pauseRequested = FALSE /\ isPaused = FALSE /\ shutdown = FALSE
  /\ thread = "loop" /\ owns = FALSE
  /\ owner = "ready" /\ calls = 0
  /\ everResumed = FALSE

MoveThread(from, to) == thread = from /\ thread' = to

----------------------------------------------------------------------------
(* The loop thread.                                                        *)

ThreadOnly == UNCHANGED <<owner, calls, everResumed, pauseRequested, shutdown>>

\* while (!_shutdown_flag); then the lock, which the end of an iteration or a
\* return gives up.
CheckShutdown ==
  /\ MoveThread("loop", IF shutdown THEN "exited" ELSE "sleep")
  /\ owns' = ~shutdown
  /\ ThreadOnly /\ UNCHANGED isPaused

Sleep ==
  /\ MoveThread("sleep", "slept")
  /\ ThreadOnly /\ UNCHANGED <<isPaused, owns>>

AfterSleep ==
  /\ MoveThread("slept", IF shutdown THEN "exited" ELSE "ask")
  /\ owns' = ~shutdown
  /\ ThreadOnly /\ UNCHANGED isPaused

\* while (_pause_requested)
AskPauseRequested ==
  /\ MoveThread("ask", IF pauseRequested THEN "setPaused" ELSE "clearPaused")
  /\ ThreadOnly /\ UNCHANGED <<isPaused, owns>>

\* Past the loop: _is_paused = false, and the function is called.
ClearPaused ==
  /\ MoveThread("clearPaused", "run")
  /\ isPaused' = FALSE
  /\ ThreadOnly /\ UNCHANGED owns

\* Mutant: _is_paused is not set.
SetPausedUnset ==
  /\ MoveThread("setPaused", "predicate")
  /\ ThreadOnly /\ UNCHANGED <<isPaused, owns>>

SetPaused ==
  /\ MoveThread("setPaused", "predicate")
  /\ isPaused' = TRUE
  /\ ThreadOnly /\ UNCHANGED <<owns>>

EvaluatePredicate ==
  /\ MoveThread("predicate", IF ~pauseRequested \/ shutdown THEN "woken" ELSE "block")
  /\ ThreadOnly /\ UNCHANGED <<isPaused, owns>>

Block ==
  /\ MoveThread("block", "blocked")
  /\ ThreadOnly /\ UNCHANGED <<isPaused, owns>>

SpuriousWakeup ==
  /\ MoveThread("blocked", "predicate")
  /\ ThreadOnly /\ UNCHANGED <<isPaused, owns>>

\* lk.unlock() throws if lk owns nothing, and nobody catches it.
AfterWait ==
  /\ IF shutdown THEN MoveThread("woken", "exited") ELSE MoveThread("woken", IF owns THEN "ask" ELSE "terminated")
  /\ owns' = FALSE
  /\ ThreadOnly /\ UNCHANGED isPaused

FinishIteration ==
  /\ MoveThread("run", "loop")
  /\ owns' = FALSE
  /\ ThreadOnly /\ UNCHANGED isPaused

LoopThread == CheckShutdown \/ Sleep \/ AfterSleep \/ AskPauseRequested \/ ClearPaused
              \/ SetPaused \/ EvaluatePredicate \/ Block \/ AfterWait \/ FinishIteration

----------------------------------------------------------------------------
(* The owner.                                                              *)

\* _cv.notify_one(): only a thread that is blocked already hears it.
Notify ==
  /\ thread' = IF thread = "blocked" THEN "predicate" ELSE thread
  /\ UNCHANGED <<flags, owns, calls>>

OwnerOnly == UNCHANGED <<isPaused, thread, owns>>

RequestPause ==
  /\ owner \in {"ready", "paused"} /\ calls < Calls
  /\ pauseRequested' = TRUE /\ owner' = "pausing" /\ calls' = calls + 1
  /\ OwnerOnly /\ UNCHANGED <<shutdown, everResumed>>

\* Mutant: pause() does not wait for the loop thread.
AwaitNothing ==
  /\ owner = "pausing"
  /\ owner' = "paused"
  /\ OwnerOnly /\ UNCHANGED <<pauseRequested, shutdown, calls, everResumed>>

AwaitPaused ==
  /\ owner = "pausing" /\ isPaused
  /\ owner' = "paused"
  /\ OwnerOnly /\ UNCHANGED <<pauseRequested, shutdown, calls, everResumed>>

Resume ==
  /\ owner \in {"ready", "paused"} /\ calls < Calls
  /\ pauseRequested' = FALSE /\ owner' = "notify" /\ calls' = calls + 1 /\ everResumed' = TRUE
  /\ OwnerOnly /\ UNCHANGED shutdown

NotifyResumed == owner = "notify" /\ owner' = "ready" /\ Notify /\ UNCHANGED everResumed

StartDestructor ==
  /\ owner \in {"ready", "paused"}
  /\ pauseRequested' = TRUE /\ owner' = "shutdown"
  /\ OwnerOnly /\ UNCHANGED <<shutdown, calls, everResumed>>

SetShutdownFlag ==
  /\ owner = "shutdown" /\ owner' = "lastNotify"
  /\ shutdown' = TRUE
  /\ OwnerOnly /\ UNCHANGED <<pauseRequested, calls, everResumed>>

NotifyShutdown == owner = "lastNotify" /\ owner' = "join" /\ Notify /\ UNCHANGED everResumed

Join ==
  /\ owner = "join" /\ thread = "exited"
  /\ owner' = "destroyed"
  /\ OwnerOnly /\ UNCHANGED <<pauseRequested, shutdown, calls, everResumed>>

\* What an owner that has made a call owes: to finish it.
FinishCall == AwaitPaused \/ NotifyResumed \/ SetShutdownFlag \/ NotifyShutdown \/ Join

Owner == RequestPause \/ Resume \/ StartDestructor \/ FinishCall

----------------------------------------------------------------------------
LoopNext == LoopThread \/ SpuriousWakeup \/ Owner

LoopSpec == LoopInit /\ [][LoopNext]_loopVars

\* Both threads are scheduled, and the loop function returns.
FairLoopSpec == LoopSpec /\ WF_loopVars(LoopThread) /\ WF_loopVars(FinishCall)

----------------------------------------------------------------------------
(* Properties.                                                             *)

\* pause() returns: its busy wait for _is_paused ends, also when it follows a
\* resume() that the loop thread has not noticed, unless the process ends.
PauseReturns == owner = "pausing" ~> owner # "pausing" \/ thread = "terminated"

\* Until the owner resumes the loop for the first time, pause() keeps its promise:
\* once it has returned, the loop function neither runs nor is entered.
FirstPauseHolds == owner = "paused" /\ ~everResumed => thread \notin {"clearPaused", "run"}

\* "The loop starts in paused state" (pausable_loop_thread.hpp:14).
StartsPaused == ~everResumed => thread # "run"

\* "The loop can be paused" (pausable_loop_thread.hpp:14): once pause() has
\* returned, and until the owner resumes it, the loop does not run.
PausedMeansPaused == owner = "paused" => thread # "run"

\* "... resumed" (pausable_loop_thread.hpp:14): resuming does not end the process.
ResumeIsSafe == thread # "terminated"

\* "... and finished" (pausable_loop_thread.hpp:14): the destructor returns.
DestructorReturns == owner = "shutdown" ~> owner = "destroyed"

\* The variables have their types, and the first pause holds (pausable_loop_thread.cpp).
LoopConsistent == LoopTypeOK /\ FirstPauseHolds
=================================================================================
