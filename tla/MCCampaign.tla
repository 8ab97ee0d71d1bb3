------------------------------- MODULE MCCampaign --------------------------------
(***************************************************************************)
(* Instances of Campaign for TLC: the iterations that load_config allows   *)
(* for one scenario (--scenario), with a catalog of one query.             *)
(***************************************************************************)
EXTENDS Campaign, BenchmarkConfig

CONSTANTS cloud, edge

Host(id, tier) == [id |-> id, tier |-> tier, port |-> 8080, local |-> tier = "cloud"]

Topology == <<Host(cloud, "cloud"), Host("fog-1", "fog"), Host(edge, "edge")>>

\* The tightest configuration: 1 wherever a value has to be positive.
Deployment == [key \in PositiveInDeployment \cup {"containers_per_host"} |-> 1]

\* With the former name of the timeout and without its two descendants.
Experiment ==
    [key \in PositiveInExperiment \cup {"layouts", "request_timeout_seconds"} |->
        CASE key = "layouts" -> <<"distributed", "replicated">>
          [] key \in {"query_rounds", "prepare_hard_timeout_seconds"} -> 2
          [] key \in {"physical_query_request_timeout_seconds", "logical_query_timeout_seconds",
                      "recovery_timeout_seconds"} -> None
          [] OTHER -> 1]

Scenarios == [i \in 1 .. 16 |-> [name |-> i, users |-> expected_users[i]]]

Accepted(e) == ValidBenchmark(WithDefaults(e, Deployment), Deployment, Scenarios)

\* Without any name for the timeout, or with a hard timeout of preparations
\* that its target reaches, nothing runs; neither does a topology without
\* hosts, nor one without the host that is to be excluded.
ASSUME Examples ==
    /\ Accepted(Experiment)
    /\ ~Accepted([Experiment EXCEPT !.request_timeout_seconds = None])
    /\ ~Accepted([Experiment EXCEPT !.prepare_hard_timeout_seconds = 1])
    /\ ValidTopology(Topology, {"fog-1"})
    /\ ~ValidTopology(Topology, {cloud, "fog-1", edge}) /\ ~ValidTopology(Topology, {"fog-2"})

Active == ActiveHosts(Topology, {"fog-1"})

HostsActive == {Active[i].id : i \in DOMAIN Active}
LayoutsConfigured == Len(Experiment.layouts)
IterationsConfigured == Experiment.warmup + Experiment.repetitions
\* Each layout has its own fragments.
GraphConfigured == Experiment.layouts
GraphsConfigured == Range(Experiment.layouts)
QueriesConfigured == Experiment.query_rounds
=============================================================================
