------------------------------ MODULE MCMonitoring -------------------------------
(***************************************************************************)
(* Instances of Monitoring for TLC: the repetitions that run plans for one *)
(* of two scenarios, both layouts, the idle condition and one of two       *)
(* levels of demand.                                                       *)
(***************************************************************************)
EXTENDS Monitoring, MonitoringConfig, TLC

CONSTANTS cloud, edge

Configured ==
    [scenarios |-> <<"users-50">>, layouts |-> <<"distributed", "replicated">>,
     demand_levels |-> <<"low", "high">>, repetitions |-> 1, include_idle |-> TRUE]

Planned == Plan(Configured, <<"users-1", "users-50">>, {"high"})

\* Every combination is measured once, the idle condition first.
ASSUME PlanIsComplete ==
    /\ Len(Planned) = 4 /\ IsInjective(Planned)
    /\ \A r \in DOMAIN Planned : Planned[r].condition.active <=> r % 2 = 0

RepetitionsPlanned == Len(Planned)
GraphPlanned == [r \in DOMAIN Planned |-> Planned[r].layout]
GraphsPlanned == Range(GraphPlanned)
IdlingPlanned == {r \in DOMAIN Planned : ~Planned[r].condition.active}
=============================================================================
