------------------------------ MODULE MCScheduler ------------------------------
(***************************************************************************)
(* Instances of Scheduler for TLC: the tasks that load_monitoring_config   *)
(* resolves from a configuration it accepts.                               *)
(***************************************************************************)
EXTENDS Scheduler, MonitoringConfig, TLC

\* Intervals are coprime, so that slots meet in every alignment; priority
\* decides between the first task and the others, and the deadline between
\* these, against the order of their ids.
Task(id, query, priority, interval, deadline) ==
    [task_id |-> id, policy_id |-> "P", query_ids |-> <<query>>, priority |-> priority,
     intervals_seconds |-> "normal" :> interval, deadlines_seconds |-> "normal" :> deadline]

Configured(deadline) ==
    [scenarios |-> <<"users-1">>, layouts |-> <<"distributed">>, demand_levels |-> <<"normal">>,
     tasks |-> <<Task("a", "q1", 1, 2, deadline), Task("b", "q2", 5, 3, 3), Task("c", "q3", 5, 3, 2)>>,
     durations |-> [measurement_seconds |-> Window, logical_query_timeout_seconds |-> GlobalTimeout],
     repetitions |-> 1, minimum_cycles |-> 2, include_idle |-> TRUE]

Accepted(c) == ValidMonitoring(c, {"users-1"}, [q \in {"q1", "q2", "q3"} |-> {"P"}], {"P"})

\* A deadline beyond its interval is rejected; one that is not a number is not.
ASSUME Examples ==
    /\ Accepted(Configured(1))
    /\ ~Accepted(Configured(0)) /\ ~Accepted(Configured(3))
    /\ Accepted(Configured(NaN))

Resolved == Resolve(Configured(1), "normal")

ThreeTasks == DOMAIN Resolved
Intervals == [t \in ThreeTasks |-> Resolved[t].interval_seconds]
Deadlines == [t \in ThreeTasks |-> Resolved[t].deadline_seconds]
Priorities == [t \in ThreeTasks |-> Resolved[t].priority]
=============================================================================
