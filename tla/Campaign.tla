-------------------------------- MODULE Campaign ---------------------------------
(***************************************************************************)
(* The scalability campaign (experiment.py, run) over the workers of       *)
(* WorkerPool: the initial check, for each scenario its dataset, for each  *)
(* of its two layouts the reference fragments and a cold start, then       *)
(* iterations (warm-up and measured) of reset, preparation, checks, a      *)
(* serial catalog of queries, recovery after the first logical timeout,    *)
(* and the accounts of what failed.                                        *)
(*                                                                         *)
(* As in module Monitoring one thread controls and time is left out.       *)
(***************************************************************************)
EXTENDS WorkerPool

CONSTANTS
    Layouts,     \* scenario-layout combinations in a row, two of each scenario
    Graph,       \* the dataset and layout of each
    Iterations,  \* warm-up and repetitions of each
    MaxQueries   \* query_rounds times the catalog

ASSUME CampaignAssumption ==
    /\ Layouts \in Nat \ {0} /\ Layouts % 2 = 0
    /\ Iterations \in Nat \ {0}
    /\ Graph \in [1 .. Layouts -> Graphs]
    /\ MaxQueries \in Nat

VARIABLES
    pc,         \* where the runner is
    layout, iteration,
    todo,       \* hosts the current phase has still to treat
    recovered,  \* hosts whose restart was verified
    asked,      \* logical queries of this iteration
    queryFailures,  \* some of them failed
    abandonment,    \* layout_recovery_failed
    record,     \* status of the current iteration
    unharmed,   \* iterations that ended completed or with payload_limit_exceeded
    limited,    \* some iteration ended with payload_limit_exceeded
    failures,   \* some failure was appended to `failures`
    manifest    \* the status in manifest.json

tally == <<unharmed, limited>>
accounts == <<record, tally, failures, manifest>>
runVars == <<pc, layout, iteration, todo, recovered, asked, queryFailures, abandonment, accounts>>
vars == <<poolVars, runVars>>

Init ==
    /\ PoolInit
    /\ pc = "connect" /\ layout = 1 /\ iteration = 0
    /\ todo = Hosts /\ recovered = {}
    /\ asked = 0 /\ queryFailures = FALSE /\ abandonment = FALSE
    /\ record = "none"
    /\ unharmed = 0 /\ limited = FALSE
    /\ failures = FALSE /\ manifest = "running"

Goto(p, hs) ==
    /\ pc' = p /\ todo' = hs
    /\ UNCHANGED <<layout, iteration, recovered, asked, queryFailures, abandonment, accounts>>

\* The iteration has its status; container_states comes next.
Conclude(s) ==
    /\ pc' = "containers" /\ todo' = {}
    /\ record' = s
    /\ UNCHANGED <<layout, iteration, recovered, asked, queryFailures, abandonment, tally, failures, manifest>>

-----------------------------------------------------------------------------
(***************************************************************************)
(* restart_workers on all hosts: before a layout, after a timeout that     *)
(* left a worker busy, and after an OOM kill.                              *)
(***************************************************************************)
Restarting == {"cold", "restart", "oomRestart"}

RestartHost(h) ==
    /\ pc \in Restarting /\ h \in todo
    /\ todo' = todo \ {h}
    /\ \/ Renew(h) /\ recovered' = recovered \cup {h}
       \/ (Renew(h) \/ UNCHANGED poolVars) /\ UNCHANGED recovered
    /\ UNCHANGED <<pc, layout, iteration, asked, queryFailures, abandonment, accounts>>

StartIteration ==
    /\ pc' = "reset" /\ todo' = Hosts /\ recovered' = {}
    /\ iteration' = iteration + 1
    /\ asked' = 0 /\ queryFailures' = FALSE
    /\ record' = "running"

\* The loops over scenarios and layouts go on behind the first n layouts.
GoOn(n) ==
    /\ IF n = Layouts
       THEN /\ pc' = "finished" /\ UNCHANGED <<layout, todo>>
            /\ manifest' = IF failures' THEN "completed_with_failures" ELSE "completed"
       ELSE /\ pc' = IF n % 2 = 0 THEN "dataset" ELSE "reference"
            /\ layout' = n + 1 /\ todo' = Hosts /\ UNCHANGED manifest
    /\ iteration' = 0 /\ recovered' = {}
    /\ abandonment' = FALSE
    /\ record' = "none"
    /\ UNCHANGED <<asked, queryFailures>>

\* The layouts up to the n-th are skipped, for a failure that is recorded.
Skip(n) ==
    /\ failures' = TRUE
    /\ GoOn(n)
    /\ UNCHANGED <<poolVars, tally>>

\* A layout whose cold start failed is skipped.
ColdStarted ==
    /\ pc = "cold" /\ todo = {}
    /\ IF recovered = Hosts
       THEN StartIteration /\ UNCHANGED <<poolVars, layout, abandonment, tally, failures, manifest>>
       ELSE Skip(layout)

-----------------------------------------------------------------------------
(***************************************************************************)
(* What precedes the iterations.                                           *)
(***************************************************************************)
Connect(h) ==
    /\ pc = "connect" /\ h \in todo
    /\ Idle(h)
    /\ Goto("connect", todo \ {h})
    /\ UNCHANGED poolVars

\* initial_readiness: the manifest gets the status of the exception.
ConnectFails ==
    /\ pc = "connect" /\ todo # {}
    /\ pc' = "finished"
    /\ manifest' \in {"hard_timeout", "incompatible_worker", "failed"}
    /\ UNCHANGED <<poolVars, layout, iteration, todo, recovered, asked, queryFailures, abandonment, record, tally, failures>>

Connected ==
    /\ pc = "connect" /\ todo = {}
    /\ Goto("dataset", Hosts)
    /\ UNCHANGED poolVars

\* dataset_generation; both layouts of the scenario depend on it.
Generate ==
    /\ pc = "dataset"
    /\ \/ Goto("reference", Hosts) /\ UNCHANGED poolVars
       \/ Skip(layout + 1)

\* reference_validation.
Validate ==
    /\ pc = "reference"
    /\ \/ Goto("cold", Hosts) /\ UNCHANGED poolVars
       \/ Skip(layout)

-----------------------------------------------------------------------------
(***************************************************************************)
(* One iteration, up to the end of its catalog.                            *)
(***************************************************************************)
\* request_json(/reset), one host after the other.
Reset(h) ==
    /\ pc = "reset" /\ h \in todo
    /\ CallAll({h}, "reset", Unloaded)
    /\ Goto("resetting", todo \ {h})

ResetDone ==
    /\ pc = "resetting" /\ Resolved
    /\ IF AllAnswered THEN Goto("reset", todo) ELSE \E s \in {"failed", "hard_timeout"} : Conclude(s)
    /\ UNCHANGED poolVars

ResetsDone ==
    /\ pc = "reset" /\ todo = {}
    /\ Goto("readiness", Hosts)
    /\ UNCHANGED poolVars

ShowsFragment(h) == data[h] = Graph[layout]

\* The phases in which wait_ready must succeed on every host in turn.
Waiting == {"readiness", "prepared", "post_check"}

CheckHost(h) ==
    /\ pc \in Waiting /\ h \in todo
    /\ Idle(h)
    /\ pc # "readiness" => ShowsFragment(h)
    /\ Goto(pc, todo \ {h})
    /\ UNCHANGED poolVars

CheckFails ==
    /\ pc \in Waiting /\ todo # {}
    /\ \E s \in {"hard_timeout", "incompatible_worker", "failed"} : Conclude(s)
    /\ UNCHANGED poolVars

\* _prepare_workers, unless the partition fails, a fragment is too large or it
\* is not the expected one.
Prepare ==
    /\ pc = "readiness" /\ todo = {}
    /\ \/ CallAll(Hosts, "prepare", Graph[layout]) /\ Goto("preparing", {})
       \/ /\ \E s \in {"failed", "payload_limit_exceeded", "semantic_mismatch"} : Conclude(s)
          /\ UNCHANGED poolVars

PrepareDone ==
    /\ pc = "preparing" /\ Resolved
    /\ IF AllAnswered THEN Goto("prepared", Hosts)
       ELSE \E s \in {"failed", "hard_timeout", "semantic_mismatch", "payload_limit_exceeded"} : Conclude(s)
    /\ UNCHANGED poolVars

Prepared ==
    /\ pc = "prepared" /\ todo = {}
    /\ Goto("queries", {})
    /\ UNCHANGED poolVars

StartQuery(hs) ==
    /\ pc = "queries" /\ asked < MaxQueries
    /\ CallAll(hs, "query", Unloaded)
    /\ asked' = asked + 1
    /\ pc' = "querying"
    /\ UNCHANGED <<layout, iteration, todo, recovered, queryFailures, abandonment, accounts>>

TimedOut == \E h \in Hosts : call[h] = "timedout"

\* The next query follows one that completed and one that failed alike.
QueryEnds ==
    /\ pc = "querying" /\ Resolved /\ ~TimedOut
    /\ pc' = "queries"
    /\ queryFailures' = (queryFailures \/ ~AllAnswered)
    /\ UNCHANGED <<poolVars, layout, iteration, todo, recovered, asked, abandonment, accounts>>

\* The merge refuses; the exception ends the iteration.
QueryRaises ==
    /\ pc = "querying" /\ Resolved /\ AllAnswered
    /\ Conclude("failed")
    /\ UNCHANGED poolVars

\* The first logical timeout aborts the iteration: of the query, which does not
\* wait for what is open, of a participant before, or of the merge.
Abort ==
    /\ pc = "querying"
    /\ Resolved => TimedOut \/ AllAnswered
    /\ LeaveOpen
    /\ Goto("recovery", Hosts)

CatalogDone ==
    /\ pc = "queries"
    /\ asked = MaxQueries
    /\ Goto("post_check", Hosts)
    /\ UNCHANGED poolVars

PostChecked ==
    /\ pc = "post_check" /\ todo = {}
    /\ Conclude(IF queryFailures THEN "failed" ELSE "completed")
    /\ UNCHANGED poolVars

-----------------------------------------------------------------------------
(***************************************************************************)
(* _recover_after_query_timeout.                                           *)
(***************************************************************************)
FoundIdle(h) ==
    /\ pc = "recovery" /\ h \in todo
    /\ Idle(h)
    /\ Goto("recovery", todo \ {h})
    /\ UNCHANGED poolVars

\* One worker that is not idle in time, and all workers are restarted.
FoundBusy ==
    /\ pc = "recovery" /\ todo # {}
    /\ Goto("restart", Hosts)
    /\ UNCHANGED poolVars

AllIdle ==
    /\ pc = "recovery" /\ todo = {}
    /\ Conclude("query_timeout")
    /\ UNCHANGED poolVars

\* Mutant: the result of the restart is not looked at.
RestartedAny ==
    /\ pc = "restart" /\ todo = {}
    /\ Conclude("query_timeout")
    /\ UNCHANGED poolVars

\* Mutant: the catalog is resumed on the restarted workers.
RestartedResumes ==
    /\ pc = "restart" /\ todo = {}
    /\ Goto("queries", {})
    /\ UNCHANGED poolVars

Restarted ==
    /\ pc = "restart" /\ todo = {}
    /\ pc' = "containers" /\ record' = "query_timeout"
    /\ abandonment' = (recovered # Hosts)
    /\ UNCHANGED <<poolVars, layout, iteration, todo, recovered, asked, queryFailures, tally, failures, manifest>>

-----------------------------------------------------------------------------
(***************************************************************************)
(* The end of an iteration.                                                *)
(***************************************************************************)
\* container_states: a dead container may have been killed for its memory;
\* whether its restart succeeds is recorded and not looked at.
Killed ==
    /\ pc = "containers"
    /\ \E h \in Hosts : ~up[h]
    /\ pc' = "oomRestart" /\ todo' = Hosts
    /\ record' = "oom_killed"
    /\ UNCHANGED <<poolVars, layout, iteration, recovered, asked, queryFailures, abandonment, tally, failures, manifest>>

\* Mutant: what fails within a catalog is not appended.
CountedAborts == {"hard_timeout", "query_timeout", "oom_killed", "incompatible_worker", "semantic_mismatch"}

\* The statuses that are appended to `failures`.
Counted == {"failed", "hard_timeout", "query_timeout", "oom_killed", "incompatible_worker", "semantic_mismatch"}

EndIteration ==
    /\ pc = "containers" \/ (pc = "oomRestart" /\ todo = {})
    /\ unharmed' = unharmed + IF record \in {"completed", "payload_limit_exceeded"} THEN 1 ELSE 0
    /\ limited' = (limited \/ record = "payload_limit_exceeded")
    /\ failures' = (failures \/ record \in Counted \/ abandonment)
    /\ IF abandonment \/ iteration = Iterations
       THEN GoOn(layout)
       ELSE StartIteration /\ UNCHANGED <<layout, abandonment, manifest>>
    /\ UNCHANGED poolVars

Runner ==
    \/ ConnectFails \/ Connected \/ Generate \/ Validate \/ ColdStarted
    \/ ResetDone \/ ResetsDone \/ CheckFails \/ Prepare \/ PrepareDone \/ Prepared
    \/ QueryEnds \/ QueryRaises \/ Abort \/ CatalogDone \/ PostChecked
    \/ FoundBusy \/ AllIdle \/ Restarted \/ Killed \/ EndIteration
    \/ \E h \in Hosts : Connect(h) \/ RestartHost(h) \/ Reset(h) \/ CheckHost(h) \/ FoundIdle(h)
    \/ \E hs \in SUBSET Hosts \ {{}} : StartQuery(hs)

Next == (PoolStep /\ UNCHANGED runVars) \/ Runner

Spec == Init /\ [][Next]_vars

\* The runner is scheduled and its calls have timeouts; workers owe nothing.
FairSpec ==
    /\ Spec
    /\ WF_vars(Runner)
    /\ \A h \in Hosts : WF_vars(Abandon(h, "timedout") /\ UNCHANGED runVars)

-----------------------------------------------------------------------------
(***************************************************************************)
(* Properties                                                              *)
(***************************************************************************)
Statuses == {"completed", "failed", "hard_timeout", "query_timeout", "oom_killed",
             "incompatible_worker", "semantic_mismatch", "payload_limit_exceeded"}

\* The phases between an iteration's start and its status.
Iterating == {"reset", "resetting", "readiness", "preparing", "prepared", "queries", "querying",
              "post_check", "recovery", "restart"}

Concluded == {"containers", "oomRestart"}

RunTypes ==
    /\ pc \in Iterating \cup Concluded \cup {"connect", "dataset", "reference", "cold", "finished"}
    /\ layout \in 1 .. Layouts /\ iteration \in 0 .. Iterations
    /\ todo \subseteq Hosts /\ recovered \subseteq Hosts
    /\ asked \in 0 .. MaxQueries
    /\ queryFailures \in BOOLEAN /\ abandonment \in BOOLEAN /\ failures \in BOOLEAN
    /\ record \in Statuses \cup {"none", "running"}
    /\ unharmed \in Nat /\ limited \in BOOLEAN
    /\ manifest \in {"running", "completed", "completed_with_failures", "failed", "hard_timeout", "incompatible_worker"}

TypeOK == PoolTypes /\ RunTypes

\* "workers must recover to an idle state or be restarted before another
\* repetition can begin" (README.md:39), and every layout starts from fresh
\* processes (README.md:41): an iteration that is the first of its layout, or
\* follows one aborted by a logical timeout, starts with workers that have
\* nothing left to do and report it, whatever was abandoned before.
StartsClean ==
    [][StartIteration /\ (iteration = 0 \/ record = "query_timeout") =>
          \A h \in Hosts : line[h] = <<>> /\ transit[h] = {} /\ ~leak[h]]_vars

\* The catalog is asked of the layout's own fragments, although requests of
\* earlier iterations with other datasets were abandoned on the way.
OwnFragments ==
    pc \in {"queries", "querying"} => \A h \in Hosts : up[h] => data[h] = Graph[layout]

\* The checks after the catalog look at one host after the other, and still
\* tell that all of them are done at once with queries that failed halfway.
PostCheckIsSound ==
    pc = "post_check" /\ todo = {} => \A h \in Hosts : line[h] = <<>> /\ transit[h] = {}

\* The campaign comes to its end whatever the workers do.
Ends == <>(pc = "finished")

\* The manifest says completed exactly if no iteration of any layout was
\* skipped, abandoned or failed; payload_limit_exceeded, which is not among the
\* statuses that are counted, is the exception (see EveryFailureIsCounted).
ManifestIsTruthful ==
    pc = "finished" => (manifest = "completed" <=> unharmed = Layouts * Iterations)

\* The categories of failure that tests and reports name, the body limit among
\* them (test_control_plane.py:16), keep a campaign from being "completed".
EveryFailureIsCounted == manifest = "completed" => ~limited
=============================================================================
