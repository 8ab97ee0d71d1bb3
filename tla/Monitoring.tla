------------------------------- MODULE Monitoring --------------------------------
(***************************************************************************)
(* The continuous-monitoring experiment (continuous_monitoring/            *)
(* experiment.py, run) over the workers of WorkerPool: the initial check,  *)
(* the datasets and references, and for each repetition reset, preparation *)
(* and checks, the task executor that the scheduler calls, the recovery    *)
(* after a logical timeout, the final checks and the accounts.             *)
(*                                                                         *)
(* One thread controls; what it does concurrently on several hosts is done *)
(* here host by host in any order.  Time is left out: wait_ready and every *)
(* call may fail at any moment, and the window may end between two cycles. *)
(***************************************************************************)
EXTENDS WorkerPool

CONSTANTS
    Repetitions,  \* repetitions in a row, conditions and layouts included
    Graph,        \* the dataset and layout of each repetition
    Idling,       \* the repetitions of the condition "idle": no monitoring
    TaskSize,     \* queries of a monitoring task
    MaxQueries    \* bound of the model: logical queries of a window

ASSUME MonitoringAssumption ==
    /\ Repetitions \in Nat \ {0}
    /\ Graph \in [1 .. Repetitions -> Graphs]
    /\ Idling \subseteq 1 .. Repetitions
    /\ TaskSize \in Nat \ {0}
    /\ MaxQueries \in Nat

VARIABLES
    pc,        \* where the runner is
    rep,       \* the current repetition
    todo,      \* hosts the current phase has still to treat
    suspects,  \* restart_ids
    step,      \* queries done by the current execution of the task
    asked,     \* logical queries of this window
    recovered, \* recovered_ids
    status,    \* status of each repetition
    failures,  \* the counter of that name
    manifest   \* the status in manifest.json

accounts == <<failures, manifest>>
runVars == <<pc, rep, todo, suspects, recovered, step, asked, status, accounts>>
vars == <<poolVars, runVars>>

Init ==
    /\ PoolInit
    /\ pc = "connect" /\ rep = 1
    /\ todo = Hosts
    /\ suspects = {} /\ recovered = {}
    /\ step = 0 /\ asked = 0
    /\ status = [r \in 1 .. Repetitions |-> "running"]
    /\ failures = 0 /\ manifest = "running"

-----------------------------------------------------------------------------
(***************************************************************************)
(* Before the window (run).                                                *)
(***************************************************************************)
\* Mutant: only the exceptions of a repetition are counted.
FailsWithException(s) == s = "failed"

\* failures += 1, in the branch of an incomplete measurement or in `except`.
Fails(s) == s # "completed"

EndRepetition(s) ==
    /\ status' = [status EXCEPT ![rep] = s]
    /\ failures' = IF Fails(s) THEN failures + 1 ELSE failures
    /\ pc' = "ended"
    /\ todo' = {}
    /\ UNCHANGED <<rep, suspects, recovered, step, asked, manifest>>

\* wait_ready on every host in turn, then the dataset, the reference
\* fragments and the directories of the first condition.  Nothing catches what
\* any of it raises: run is left and the manifest stays as it was written.
Connect(h) ==
    /\ pc = "connect" /\ h \in todo
    /\ Idle(h)
    /\ todo' = todo \ {h}
    /\ UNCHANGED <<poolVars, pc, rep, suspects, recovered, step, asked, status, accounts>>

SetUp ==
    /\ pc = "connect" /\ todo = {}
    /\ pc' = "reset" /\ todo' = Hosts
    /\ UNCHANGED <<poolVars, rep, suspects, recovered, step, asked, status, accounts>>

\* A dataset, a layout or a condition of its own.
NewCondition(r) == r = 1 \/ Graph[r] # Graph[r - 1] \/ (r \in Idling) # (r - 1 \in Idling)

SetUpRaises ==
    /\ \/ pc = "connect"
       \/ pc = "ended" /\ rep < Repetitions /\ NewCondition(rep + 1)
    /\ pc' = "raised"
    /\ UNCHANGED <<poolVars, rep, todo, suspects, recovered, step, asked, status, accounts>>

\* request_json(/reset), one host after the other.
Reset(h) ==
    /\ pc = "reset" /\ h \in todo /\ Resolved
    /\ CallAll({h}, "reset", Unloaded)
    /\ todo' = todo \ {h}
    /\ pc' = "resetting"
    /\ UNCHANGED <<rep, suspects, recovered, step, asked, status, accounts>>

ResetDone ==
    /\ pc = "resetting" /\ Resolved
    /\ IF AllAnswered THEN pc' = "reset" /\ UNCHANGED <<rep, todo, suspects, recovered, step, asked, status, accounts>>
                      ELSE EndRepetition("failed")
    /\ UNCHANGED poolVars

\* _prepare_workers on all hosts.
Prepare ==
    /\ pc = "reset" /\ todo = {}
    /\ CallAll(Hosts, "prepare", Graph[rep])
    /\ pc' = "preparing"
    /\ UNCHANGED <<rep, todo, suspects, recovered, step, asked, status, accounts>>

PrepareDone ==
    /\ pc = "preparing" /\ Resolved
    /\ IF AllAnswered
       THEN pc' = "prepared" /\ todo' = Hosts /\ UNCHANGED <<rep, suspects, recovered, step, asked, status, accounts>>
       ELSE EndRepetition("failed")
    /\ UNCHANGED poolVars

\* The phases in which wait_ready must succeed on every host in turn, and
\* where the runner goes when it has: the check of the prepared fragments, the
\* check before the window and the check after it.
After == [prepared |-> "before", before |-> "between", after |-> "done"]

ShowsFragment(h) == data[h] = Graph[rep]

CheckHost(h) ==
    /\ pc \in DOMAIN After /\ h \in todo
    /\ Idle(h)
    /\ pc = "prepared" => ShowsFragment(h)
    /\ todo' = todo \ {h}
    /\ UNCHANGED <<poolVars, pc, rep, suspects, recovered, step, asked, status, accounts>>

CheckFails ==
    /\ pc \in DOMAIN After /\ todo # {}
    /\ EndRepetition("failed")
    /\ UNCHANGED poolVars

Checked ==
    /\ pc \in DOMAIN After /\ todo = {}
    /\ IF pc = "after"
       THEN EndRepetition("completed")
       ELSE /\ pc' = After[pc]
            /\ todo' = IF pc = "prepared" THEN Hosts ELSE {}
            /\ UNCHANGED <<rep, suspects, recovered, step, asked, status, accounts>>
    /\ UNCHANGED poolVars

-----------------------------------------------------------------------------
(***************************************************************************)
(* The window: _task_executor, called by the scheduler cycle after cycle.  *)
(***************************************************************************)
\* The participants depend on query and layout (select_hosts).
StartQuery(hs) ==
    /\ pc = "between" /\ rep \notin Idling
    /\ asked < MaxQueries
    /\ CallAll(hs, "query", Unloaded)
    /\ asked' = asked + 1
    /\ todo' = hs
    /\ pc' = "querying"
    /\ UNCHANGED <<rep, suspects, recovered, step, status, accounts>>

\* The budget of the task is used up between two queries: a logical timeout
\* without a recovery.
ExhaustBudget ==
    /\ pc = "between" /\ step \in 1 .. TaskSize - 1
    /\ step' = 0
    /\ UNCHANGED <<poolVars, pc, rep, todo, suspects, recovered, asked, status, accounts>>

NextStep == (step + 1) % TaskSize

\* Every participant answered, in time.
QueryCompletes ==
    /\ pc = "querying" /\ Resolved /\ AllAnswered
    /\ pc' = "between" /\ todo' = {}
    /\ step' = NextStep
    /\ UNCHANGED <<poolVars, rep, suspects, recovered, asked, status, accounts>>

\* Every participant answered and the merge refused: the exception is caught
\* (semantic_failure).
QueryRaises ==
    /\ pc = "querying" /\ Resolved /\ AllAnswered
    /\ pc' = "between" /\ todo' = {}
    /\ step' = 0
    /\ UNCHANGED <<poolVars, rep, suspects, recovered, asked, status, accounts>>

\* Mutant: a participant that failed hides one that timed out.
TimedOutOnly == ~AllAnswered /\ \A h \in todo : call[h] \in {"answered", "timedout"}

TimedOut == \E h \in Hosts : call[h] = "timedout"

\* physical_failure: the cycle ends, and nobody looks after the participants.
QueryFails ==
    /\ pc = "querying" /\ Resolved /\ ~AllAnswered /\ ~TimedOut
    /\ pc' = "between" /\ todo' = {}
    /\ step' = 0
    /\ UNCHANGED <<poolVars, rep, suspects, recovered, asked, status, accounts>>

\* query_timeout (logical_timeout of the cycle): at the deadline of the query,
\* which does not wait for what is open; of a participant before it; or because
\* the merge came too late.
QueryTimesOut ==
    /\ pc = "querying"
    /\ Resolved => TimedOut \/ AllAnswered
    /\ LeaveOpen
    /\ pc' = "idleCheck"
    /\ suspects' = {} /\ recovered' = {}
    /\ UNCHANGED <<rep, todo, step, asked, status, accounts>>

EndWindow ==
    /\ pc = "between" /\ step = 0
    /\ pc' = "after" /\ todo' = Hosts
    /\ UNCHANGED <<poolVars, rep, suspects, recovered, step, asked, status, accounts>>

\* An exception leaves run_scheduler (see NeverRaises in module Scheduler).
SchedulerRaises ==
    /\ pc = "between" /\ step = 0 /\ rep \notin Idling
    /\ EndRepetition("failed")
    /\ UNCHANGED poolVars

-----------------------------------------------------------------------------
(***************************************************************************)
(* _recover_after_timeout, of the participants of the query.               *)
(***************************************************************************)
\* wait_ready(require_idle=True) with the digests of the host's fragment.
FoundIdle(h) ==
    /\ pc = "idleCheck" /\ h \in todo
    /\ Idle(h) /\ ShowsFragment(h)
    /\ todo' = todo \ {h}
    /\ UNCHANGED <<poolVars, pc, rep, suspects, recovered, step, asked, status, accounts>>

FoundBusy(h) ==
    /\ pc = "idleCheck" /\ h \in todo
    /\ todo' = todo \ {h}
    /\ suspects' = suspects \cup {h}
    /\ UNCHANGED <<poolVars, pc, rep, recovered, step, asked, status, accounts>>

\* The cycle ends with a logical timeout and the scheduler goes on.
Resume ==
    /\ \/ pc = "idleCheck" /\ suspects = {}
       \/ pc = "recheck"
    /\ todo = {}
    /\ pc' = "between"
    /\ step' = 0
    /\ UNCHANGED <<poolVars, rep, todo, suspects, recovered, asked, status, accounts>>

\* restart_workers(restart_ids).
Restart ==
    /\ pc = "idleCheck" /\ todo = {} /\ suspects # {}
    /\ pc' = "restarting" /\ todo' = suspects
    /\ UNCHANGED <<poolVars, rep, suspects, recovered, step, asked, status, accounts>>

RestartWorks(h) ==
    /\ pc = "restarting" /\ h \in todo
    /\ Renew(h)
    /\ todo' = todo \ {h}
    /\ recovered' = recovered \cup {h}
    /\ UNCHANGED <<pc, rep, suspects, step, asked, status, accounts>>

\* ssh or docker fails, or the new process does not become ready in time.
RestartFails(h) ==
    /\ pc = "restarting" /\ h \in todo
    /\ Renew(h) \/ UNCHANGED poolVars
    /\ todo' = todo \ {h}
    /\ UNCHANGED <<pc, rep, suspects, recovered, step, asked, status, accounts>>

AllRecovered == recovered = suspects

\* Mutant: restarted workers are used as they are.
ReprepareSkipped ==
    /\ pc = "restarting" /\ todo = {}
    /\ AllRecovered
    /\ pc' = "between"
    /\ step' = 0
    /\ UNCHANGED <<poolVars, rep, todo, suspects, recovered, asked, status, accounts>>

Reprepare ==
    /\ pc = "restarting" /\ todo = {}
    /\ AllRecovered
    /\ CallAll(suspects, "prepare", Graph[rep])
    /\ pc' = "repreparing"
    /\ UNCHANGED <<rep, todo, suspects, recovered, step, asked, status, accounts>>

Reprepared ==
    /\ pc = "repreparing" /\ Resolved /\ AllAnswered
    /\ pc' = "recheck" /\ todo' = suspects
    /\ UNCHANGED <<poolVars, rep, suspects, recovered, step, asked, status, accounts>>

Recheck(h) ==
    /\ pc = "recheck" /\ h \in todo
    /\ Idle(h) /\ ShowsFragment(h)
    /\ todo' = todo \ {h}
    /\ UNCHANGED <<poolVars, pc, rep, suspects, recovered, step, asked, status, accounts>>

\* recovery_succeeded = False: the scheduler halts.
Halt ==
    /\ \/ pc = "restarting" /\ todo = {} /\ ~AllRecovered
       \/ pc = "repreparing" /\ Resolved /\ ~AllAnswered
       \/ pc = "recheck" /\ todo # {}
    /\ EndRepetition("recovery_failed")
    /\ UNCHANGED poolVars

-----------------------------------------------------------------------------
\* Nothing happens to the workers between two repetitions.
NextRepetition ==
    /\ pc = "ended"
    /\ IF rep = Repetitions
       THEN /\ pc' = "finished"
            /\ manifest' = IF failures = 0 THEN "completed" ELSE "completed_with_failures"
            /\ UNCHANGED <<rep, todo, suspects, recovered, step, asked>>
       ELSE /\ pc' = "reset" /\ rep' = rep + 1
            /\ todo' = Hosts /\ suspects' = {} /\ recovered' = {}
            /\ step' = 0 /\ asked' = 0
            /\ UNCHANGED manifest
    /\ UNCHANGED <<poolVars, status, failures>>

Runner ==
    \/ SetUp \/ SetUpRaises \/ ResetDone \/ Prepare \/ PrepareDone \/ CheckFails \/ Checked
    \/ ExhaustBudget \/ QueryCompletes \/ QueryRaises \/ QueryFails \/ QueryTimesOut \/ EndWindow \/ SchedulerRaises
    \/ Resume \/ Restart \/ Reprepare \/ Reprepared \/ Halt \/ NextRepetition
    \/ \E h \in Hosts : \/ Connect(h) \/ Reset(h) \/ CheckHost(h) \/ FoundIdle(h) \/ FoundBusy(h)
                        \/ RestartWorks(h) \/ RestartFails(h) \/ Recheck(h)
    \/ \E hs \in SUBSET Hosts \ {{}} : StartQuery(hs)

Next == (PoolStep /\ UNCHANGED runVars) \/ Runner

Spec == Init /\ [][Next]_vars

\* The runner is scheduled and its calls have timeouts; workers owe nothing.
FairSpec ==
    /\ Spec
    /\ WF_vars(Runner)
    /\ \A h \in Hosts : WF_vars(Abandon(h, "timedout") /\ UNCHANGED runVars)

-----------------------------------------------------------------------------
(***************************************************************************)
(* Properties                                                              *)
(***************************************************************************)
RunTypes ==
    /\ pc \in {"connect", "reset", "resetting", "preparing", "prepared", "before", "between", "querying", "after",
               "idleCheck", "restarting", "repreparing", "recheck", "ended", "finished", "raised"}
    /\ rep \in 1 .. Repetitions
    /\ todo \subseteq Hosts /\ suspects \subseteq Hosts /\ recovered \subseteq Hosts
    /\ step \in 0 .. TaskSize - 1
    /\ asked \in 0 .. MaxQueries
    /\ status \in [1 .. Repetitions -> {"running", "completed", "failed", "recovery_failed"}]
    /\ failures \in Nat /\ manifest \in {"running", "completed", "completed_with_failures"}

TypeOK == PoolTypes /\ RunTypes

\* "After a logical timeout, the runner waits for every participating worker
\* [...] before scheduling resumes" (MONITORING_OVERHEAD.md:27): when the next
\* cycle can start, no worker has, or will have, work of a query that timed
\* out, whichever participants were found idle, restarted or busy, and though
\* the logical timeout of an exhausted budget is not followed by any check.
TimeoutsLeaveNothing ==
    pc = "between" => \A h \in Hosts : \A q \in Requests(h) \cup transit[h] : q.client # "timedout"

\* "The graph is not reset, repartitioned, or reasoned again during the
\* measured window" (MONITORING_OVERHEAD.md:11): a worker that can be queried
\* has the fragment of this repetition, although requests of earlier
\* repetitions were abandoned and workers were restarted within the window.
GraphIsKept ==
    pc \in {"between", "querying", "idleCheck"} =>
        \A h \in Hosts : up[h] => data[h] = Graph[rep]

\* A repetition reported completed leaves no work behind on any worker, not
\* even that of queries which failed and were not followed by a recovery.
CompletedIsQuiet ==
    pc = "ended" /\ status[rep] = "completed" =>
        \A h \in Hosts : line[h] = <<>> /\ transit[h] = {}

\* A manifest that says completed vouches for every repetition, those whose
\* measurement was halted by a failed recovery and those of the idle condition
\* included, and one that mentions failures can name one; an experiment that
\* raised on the way says neither.
ManifestIsTruthful ==
    /\ manifest = "completed" <=> pc = "finished" /\ \A r \in 1 .. Repetitions : status[r] = "completed"
    /\ manifest = "running" <=> pc # "finished"

\* Whatever workers, network and restarts do, the experiment comes to its end.
Ends == <>(pc \in {"finished", "raised"})
=============================================================================
