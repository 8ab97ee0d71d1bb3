---------------------------- MODULE BenchmarkConfig -----------------------------
(***************************************************************************)
(* What the loaders of the benchmark configuration (config.py, load_config)*)
(* and of the topology (topology.py, load_topology) accept, as predicates  *)
(* on the parsed files.  Numbers are integers or NaN, which TOML can write *)
(* and with which every comparison of Python is false.                     *)
(***************************************************************************)
EXTENDS Integers, Sequences, Functions

CONSTANTS
    NaN,   \* nan
    None   \* a key that is missing

\* a <= b and a > b of Python.
AtMost(a, b) == NaN \notin {a, b} /\ a <= b
Exceeds(a, b) == NaN \notin {a, b} /\ a > b

\* Not rejected by `value <= 0`.
PassesAsPositive(value) == ~AtMost(value, 0)

-----------------------------------------------------------------------------
expected_users == <<1, 50, 100, 500, 1000, 2000, 4000, 5000, 6000, 7000, 10000, 12000, 14000, 16000, 18000, 20000>>

\* The value of a key, or of the one it falls back to.
Default(value, fallback) == IF value = None THEN fallback ELSE value

\* The timeouts, with the names they had before and the values of their keys
\* that may be missing.
WithDefaults(experiment, deployment) ==
    LET physical == Default(experiment.physical_query_request_timeout_seconds, experiment.request_timeout_seconds)
    IN [experiment EXCEPT !.physical_query_request_timeout_seconds = physical,
                          !.logical_query_timeout_seconds = Default(@, physical),
                          !.recovery_timeout_seconds = Default(@, deployment.health_timeout_seconds)]

PositiveInExperiment ==
    {"warmup", "repetitions", "query_rounds", "physical_query_request_timeout_seconds",
     "logical_query_timeout_seconds", "recovery_timeout_seconds", "prepare_operational_target_seconds",
     "prepare_hard_timeout_seconds", "resource_sample_interval_seconds"}

PositiveInDeployment ==
    {"cpu_per_container", "memory_mib_per_container", "max_prepare_mib", "health_timeout_seconds",
     "operation_timeout_seconds", "reserve_memory_mib", "minimum_free_disk_mib"}

\* What passes through int(), which raises for NaN.
Whole ==
    {"warmup", "repetitions", "query_rounds", "memory_mib_per_container", "max_prepare_mib",
     "reserve_memory_mib", "minimum_free_disk_mib"}

PassesCheck(key, value) == PassesAsPositive(value) /\ (key \in Whole => value # NaN)

\* load_config returns: scenarios are a sequence of records, the rest is that
\* of WithDefaults.
ValidBenchmark(experiment, deployment, scenarios) ==
    /\ experiment.physical_query_request_timeout_seconds # None
    /\ IsInjective([i \in DOMAIN scenarios |-> scenarios[i].name])
    /\ [i \in DOMAIN scenarios |-> scenarios[i].users] = expected_users
    /\ experiment.layouts = <<"distributed", "replicated">>
    /\ deployment.containers_per_host = 1
    /\ \A key \in PositiveInExperiment : PassesCheck(key, experiment[key])
    /\ \A key \in PositiveInDeployment : PassesCheck(key, deployment[key])
    /\ ~AtMost(experiment.prepare_hard_timeout_seconds, experiment.prepare_operational_target_seconds)

-----------------------------------------------------------------------------
\* load_topology: the hosts that are not excluded, in their order.
ActiveHosts(hosts, excluded) == SelectSeq(hosts, LAMBDA host : host.id \notin excluded)

ValidTopology(hosts, excluded) ==
    LET ids == [i \in DOMAIN hosts |-> hosts[i].id]
    IN /\ IsInjective(ids)
       /\ \A i \in DOMAIN hosts : /\ hosts[i].tier \in {"cloud", "fog", "mist", "edge"}
                                  /\ hosts[i].port \in 1 .. 65535
       /\ \A i, j \in DOMAIN hosts : hosts[i].local /\ hosts[j].local => i = j
       /\ excluded \subseteq Range(ids)
       /\ ActiveHosts(hosts, excluded) # <<>>
=============================================================================
