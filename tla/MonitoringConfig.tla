---------------------------- MODULE MonitoringConfig ----------------------------
(***************************************************************************)
(* What load_monitoring_config (continuous_monitoring/config.py) accepts,  *)
(* the tasks it resolves for a demand level, and the order in which run    *)
(* (experiment.py) measures the conditions.  A key that is missing is the  *)
(* default its reader gives it: "", an empty sequence or function, 0.      *)
(***************************************************************************)
EXTENDS BenchmarkConfig

OrderedLevels == <<"low", "normal", "high", "critical">>

\* low >= normal >= high >= critical, once all four are configured.
Descending(intervals) ==
    Range(OrderedLevels) \subseteq DOMAIN intervals =>
        \A i \in 1 .. 3 : ~Exceeds(intervals[OrderedLevels[i + 1]], intervals[OrderedLevels[i]])

\* 0 < deadline <= interval, for a reader without NaN.
ValidTiming(interval, deadline) ==
    PassesAsPositive(interval) /\ PassesAsPositive(deadline) /\ ~Exceeds(deadline, interval)

\* contracts[q] are the policies that query q declares.
ValidTask(task, levels, contracts, policies) ==
    /\ task.policy_id # "" /\ task.query_ids # <<>>
    /\ task.policy_id \in policies
    /\ \A q \in Range(task.query_ids) : q \in DOMAIN contracts /\ task.policy_id \in contracts[q]
    /\ DOMAIN task.intervals_seconds = levels /\ DOMAIN task.deadlines_seconds = levels
    /\ \A l \in levels : ValidTiming(task.intervals_seconds[l], task.deadlines_seconds[l])
    /\ Descending(task.intervals_seconds)

\* No query is asked twice, by two tasks or by one.
AssignedOnce(tasks) ==
    \A i, j \in DOMAIN tasks : \A m \in DOMAIN tasks[i].query_ids, n \in DOMAIN tasks[j].query_ids :
        tasks[i].query_ids[m] = tasks[j].query_ids[n] => i = j /\ m = n

\* validate_monitoring_tasks
ValidTasks(tasks, levels, contracts, policies) ==
    /\ \A i \in DOMAIN tasks : tasks[i].task_id # ""
    /\ IsInjective([i \in DOMAIN tasks |-> tasks[i].task_id])
    /\ \A i \in DOMAIN tasks : ValidTask(tasks[i], levels, contracts, policies)
    /\ AssignedOnce(tasks)

\* load_monitoring_config returns; known are the names of the benchmark's
\* scenarios.
ValidMonitoring(c, known, contracts, policies) ==
    /\ c.scenarios # <<>> /\ Range(c.scenarios) \subseteq known
    /\ c.layouts # <<>> /\ Range(c.layouts) \subseteq {"distributed", "replicated"}
    /\ c.demand_levels # <<>> /\ IsInjective(c.demand_levels)
    /\ c.tasks # <<>>
    /\ ValidTasks(c.tasks, Range(c.demand_levels), contracts, policies)
    /\ \A d \in DOMAIN c.durations : PassesAsPositive(c.durations[d])
    /\ c.repetitions >= 1 /\ c.minimum_cycles >= 1

\* cycle_warnings: tasks and levels for which the window is short.
Warnings(c) ==
    {w \in (DOMAIN c.tasks) \X Range(c.demand_levels) :
        LET interval == c.tasks[w[1]].intervals_seconds[w[2]]
        IN interval # NaN /\ Exceeds(c.minimum_cycles * interval, c.durations.measurement_seconds)}

\* resolve_tasks
Resolve(c, level) ==
    [i \in DOMAIN c.tasks |->
        [task_id |-> c.tasks[i].task_id, priority |-> c.tasks[i].priority,
         query_ids |-> c.tasks[i].query_ids,
         interval_seconds |-> c.tasks[i].intervals_seconds[level],
         deadline_seconds |-> IF level \in DOMAIN c.tasks[i].deadlines_seconds
                              THEN c.tasks[i].deadlines_seconds[level] ELSE None]]

-----------------------------------------------------------------------------
\* The conditions of a layout: idle, and the levels asked for (all, if none).
Conditions(c, requested) ==
    (IF c.include_idle THEN <<[name |-> "idle", active |-> FALSE]>> ELSE <<>>)
        \o LET levels == SelectSeq(c.demand_levels, LAMBDA l : requested = {} \/ l \in requested)
           IN [i \in DOMAIN levels |-> [name |-> levels[i], active |-> TRUE]]

\* The repetitions that run measures, in their order; scenarios are the names
\* in the order of the benchmark, and the layouts are nested in them, the
\* conditions in the layouts.
Plan(c, scenarios, requested) ==
    LET selected == SelectSeq(scenarios, LAMBDA s : s \in Range(c.scenarios))
        conditions == Conditions(c, requested)
        perLayout == Len(conditions) * c.repetitions
        perScenario == Len(c.layouts) * perLayout
    IN [r \in 1 .. Len(selected) * perScenario |->
           [scenario |-> selected[((r - 1) \div perScenario) + 1],
            layout |-> c.layouts[(((r - 1) % perScenario) \div perLayout) + 1],
            condition |-> conditions[(((r - 1) % perLayout) \div c.repetitions) + 1],
            repetition |-> ((r - 1) % c.repetitions) + 1]]
=============================================================================
