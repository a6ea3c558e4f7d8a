----------------------------- MODULE MCTaskScheduler -----------------------------
(* An instance of TaskScheduler for TLC: two nodes with one worker each.   *)
EXTENDS TaskScheduler, TLC

TwoWorkers == {"w1", "w2"}
TwoNodes   == {"n1", "n2"}
OneEach    == "w1" :> "n1" @@ "w2" :> "n2"

\* A query plan: a scan with two consumers, whose results are joined.  Both consumers
\* spawn jobs, one of them two that are grouped into a chain; the other must not be stolen.
PlanTasks      == {"scan", "left", "right", "join", "job1", "job2", "job3"}
PlanSuccessors == [t \in PlanTasks |-> CASE t = "scan"             -> <<"left", "right">>
                                         [] t \in {"left", "right"} -> <<"join">>
                                         [] t = "job2"             -> <<"job1">>
                                         [] OTHER                  -> <<>>]
PlanJobs       == [t \in PlanTasks |-> CASE t = "left"  -> <<"job1", "job2">>
                                         [] t = "right" -> <<"job3">>
                                         [] OTHER       -> <<>>]
PlanStealable  == PlanTasks \ {"right"}
==================================================================================
