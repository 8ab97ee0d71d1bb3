# Continuum Monitoring: TLA+ models, checks and proofs

This directory models the control logic of the edge/fog/cloud semantic-query
benchmark in this repository: a Python control plane that measures, and a Rust
data plane that is measured. TLC checks the models on small instances; TLAPS
proves the main results for every value of the constants.

Run inside this directory:

    tlc -workers 2 -config Scheduler.cfg MCScheduler      (any run of PROJECT.json)
    tlapm SchedulerProofs.tla                             (any *Proofs module)

## 1. The system

Two experiments share the code. `run` (scalability) sends catalogs of logical
queries to growing sets of hosts and records how far they get. `monitor`
(continuous monitoring) runs tasks at fixed rates for a measurement window,
while a sampler records resources. In both, a logical query is fanned out to
several workers over HTTP and is valid only as a whole.

| Component | State | Operations | Talks to |
|---|---|---|---|
| Monitoring scheduler, `continuous_monitoring/scheduler.py` | `next_due`, the batch, events, busy time, halted flag | scan, skip, dispatch, miss, execute, drain | calls `execute` (the task executor); reads the monotonic clock |
| Monitoring runner, `continuous_monitoring/experiment.py` | per-repetition rows, prepared dataset per host | task executor with a budget, timeout recovery, repetition loop | scheduler callback, logical queries, deployment, sampler |
| Logical query execution, `query_execution.py` | thread pool, futures, one logical deadline | select hosts, fan out, wait, cancel, merge | HTTP client, in pool threads that are never joined |
| HTTP client, `protocol.py` | one connection per request, a deadline, the timeout of its socket | `request_json`, `wait_ready` | worker; closing the connection is its only way to cancel |
| Data and routing, `experiment.py`, `query_execution.py`, `partition.rs`, `rdfs.rs` | a graph per host | partition, projection, materialization, selection of hosts | the two runners send the fragments, the logical queries follow the routes |
| Worker, `rust/continuum-worker/src/main.rs` | permit (semaphore of 1), `waiting`, `active`, the loaded graph | `/health`, `/reset`, `/prepare`, `/query` | answers HTTP; drops handlers of closed connections at await points |
| Campaign runner, `experiment.py` | iterations, rows, per-host datasets | partition, prepare, catalog rounds, recovery, abort | logical queries, deployment |
| Deployment, `deployment.py` | containers on remote hosts | deploy, restart, inspect | ssh, docker |
| Resource sampler, `resources.py` | phase label, output file, a thread | sample, `set_phase`, enter and exit | docker; shares the phase with the runner's thread |
| RDF library, `rust/continuum-rdf/src` | none | partition, closure, canonical form, query, synthetic data | called by the worker and a command-line tool |
| Configuration and topology, `config.py`, `topology.py`, `continuous_monitoring/config.py` | none | validate, fall back, resolve | everything else runs on what they accept |
| Reporting, CLI | none | aggregate, dispatch | files |

### What is hard about it

* **Time.** The scheduler, the coordinator, each pool thread and each HTTP
  request read a clock at different moments and decide from stale readings.
* **Cancellation.** A client that times out only closes its connection. The
  worker may already be computing, may be queued, or may not have seen the
  request; what it does then decides whether the next query is measured alone.
* **Counters read without a lock.** The control plane concludes that a worker
  is idle from two atomic counters that are read, and updated, one by one.
* **Partial failure.** One of several participants fails, stalls or answers at
  the deadline; a recovery fails in the middle of a batch; a process dies.
* **Distributed meaning.** Fragments are closed under RDFS apart from each other
  and queried apart from each other; the answers must be those of the whole.

The hazards, each at its line, are in `PROJECT.json`.

### What makes each component correct

* Scheduler: every slot of every task is accounted for exactly once; cycles do
  not overlap, do not catch up in bursts, and start in the promised order; the
  run ends.
* Worker: one semantic operation at a time, in an order that explains every
  answer; no request is stuck and no permit is lost when clients go away;
  `/health` overlooks no work that lasts as long as the health request.
* Logical query: the published result is the merge of all answers, in time, or
  nothing; a timeout is reported whenever work may remain behind; the
  coordinator always returns.
* HTTP client: an answer that is accepted was in time; every call ends.
* Runner and campaign: no query is measured while another one's work is still
  going on; a repetition uses the dataset it says; failures are counted, and the
  manifest says what happened.
* Data and routing: nothing is inferred that the whole dataset does not entail;
  what belongs together is on one host; a query reaches the data it asks for.
* Configuration: what is accepted satisfies what the scheduler assumes.
* Sampler: a sample belongs to the phase it names; the file is complete.

## 2. Modules

| Module | Kind | What it is |
|---|---|---|
| `Scheduler` | model of `run_scheduler` | one thread, one clock |
| `SlotLedger` | abstract specification | what the scheduler promises about cycles |
| `SchedulerProofs` | theorems | about `Scheduler` |
| `Worker` | model of the worker process | handlers at the granularity of atomic operations and awaits |
| `SerialWorker` | abstract specification | one request at a time |
| `WorkerProofs` | theorems | about `Worker`, with its refinement of `SerialWorker` |
| `LogicalQuery` | model of one logical query | coordinator and pool threads |
| `AllOrNothing` | abstract specification | the merge of everybody's answers in time, or nothing |
| `LogicalQueryProofs` | theorems | about `LogicalQuery`, with its refinement of `AllOrNothing` |
| `HttpClient` | model of `request_json` and `wait_ready` | operation by operation of the socket |
| `ControlPlaneProofs` | theorems | about the two small parts of the control plane, `HttpClient` and `Sampler` |
| `WorkerPool` | environment | coarse workers, the network and the calls, as a runner sees them |
| `WorkerPoolProofs` | lemmas | what the steps of the pool preserve, for both runners |
| `Monitoring` | model of `run` of the monitoring experiment | composed with `WorkerPool` |
| `MonitoringProofs` | theorems | about `Monitoring` |
| `Campaign` | model of `run` of the scalability experiment | composed with `WorkerPool` |
| `CampaignProofs` | theorems | about `Campaign` |
| `Rdfs` | operators | the rules of `materialize` |
| `Distribution` | model of fragments, materialization and routing | composed with `Rdfs` |
| `DistributionProofs` | theorems | about `Distribution` |
| `BenchmarkConfig` | predicates | what `load_config` and `load_topology` accept |
| `MonitoringConfig` | predicates and operators | what `load_monitoring_config` accepts and resolves, the plan of repetitions |
| `Sampler` | model of the resource sampler | runner's thread, sampling thread, pool |
| `MC...` | instances | constants for TLC, derived from accepted configurations where the code does so |

### `Scheduler`

`pc` follows the loop of `run_scheduler`: `loop` is the `while` test, `compare`
and `argument` are the two clock readings of line 73, `sleeping` and `sleepEnd`
the two sleeps, `scan` the `for` over the tasks (one `ScanTask` step per turn of
its inner `while`), `dispatch` the batch, `executing` a call of `execute`,
`drain` the final loop. `nextDue`, `stamp`, `due`, `events`, `busy` and
`maxPending` are the variables `next_due`, `now`, `due`, `events`,
`scheduler_busy_seconds` and `max_pending_monitoring_tasks`.

`Tick` advances the clock by one, only in control states in which the code is
about to read it. Time that passes elsewhere cannot be told apart from time that
passes just before the next reading, so nothing is lost and the state space
stays small. Between two steps any number of ticks may happen, so executions,
sleeps and the loop itself take any time.

The executor is a choice: `completed`, `logical_timeout` or `failed` (both other
outcomes), and for a logical timeout whether the recovery inside the call
succeeded. The comparison of the sort key is a total order (`Precedes`), and the
dispatched item is the first one (`FirstOf`). The counters of the summary other
than busy time and the maximal batch are sums over `events` and left out.

### `Worker`

A request goes through stages; the groups of stages name what the code holds at
each (`Announced`: counted in `waiting`; `Owning`: has the permit; `Counted`:
counted in `active`; `OnThread`: occupies a runtime thread). A handler can be
interleaved with others only as far as there are threads (`ThreadAvailable`),
and can be dropped only at its single await. `Arrive`, `TryPermit`, `Resume`,
`LeaveQueue` and `Activate` are the lines of `ActiveGuard::acquire`;
`Deactivate` is its `drop`, and `Release` the drop of the permit field that
follows. `TryPermit`, `HandOver`, `Without` and `DropHandler` follow the
documented behaviour of Tokio's fair semaphore and of Axum on a closed
connection. `ProbeLock`, `ProbeActive` and `ProbeWaiting` are the three reads of
`/health`. `seen` holds what a health request has read, and what the code does not
have: the requests that were inside, waiting or counted as active during all of
it (`Report`), by which an answer can be judged.

Parsing, store construction, reasoning and SPARQL are one step each with the
outcomes the handler distinguishes. A graph is identified by its digest. The
identity fields of `/health` never change and are left out.

### `LogicalQuery`

The coordinator submits, waits, collects, cancels, judges, merges and checks the
deadline; each participant's `thread` goes from `submitted` through `budgeted`,
`requesting` and `received` to `done`, or is `cancelled`. The remaining budget
is computed from one reading of the clock (`submitted` to `budgeted`) and
becomes the deadline of the request with another (`budgeted` to `requesting`).
Threads read the same clock concurrently, so `Tick` is enabled everywhere after
the start. `Fail` stands for every error that is not a timeout. Answers are sets
of result keys and an ASK value. Only the merge strategies' control is kept:
`Unmergeable` are the cases in which the code raises.

### `HttpClient`

One call at a time: a request with a payload (`upload`) or the polls of
`wait_ready`. `pc` names the pending operation of the socket (`connect`,
`headers`, `body`, `head`, `read`), the sleep between two polls, or how the call
ended. `opEnd` is when the pending operation times out (`TimeOut`):
`connection.request` connects and sends with the socket's first timeout, and only
`Recalculate` (`settimeout(remaining())`) brings it back to what is left of
`deadline`; each segment of the response head starts the timeout anew
(`ReceivePart`), as often as segments come (`HeadParts` bounds it in the model).
The last read of a body is not followed by a look at the clock (`ReceiveEnd`).
`Break` is a refused or broken connection. A response cut off within its body ends
as a `ValueError`, which `wait_ready` does not retry. A body has a known length,
so that a read is one `recv`; computation between the operations takes no time.
`Timeout` is finite: the unlimited timeout of diagnostic runs is left out.

The other modules use that calls end by themselves, before their deadline or
after it (`CallEnds`).

### `WorkerPool`

The workers of all hosts together, small enough to be composed with a runner. A
handler is one step (`Handle`), except for the wait for the permit; a worker
reads requests one by one (`Arrive`) and serves them in order of arrival, which
is what the fair semaphore of `Worker` gives. `Drop` is the handler dropped in
the wait list, with the counter it leaves incremented (`leak`). `Idle` is one
successful poll of `wait_ready(require_idle=True)`; its health answer is exact,
as it is with the single runtime thread of the deployed containers
(`NeedsTwoThreads`; with more, see `TornHealth`).

The control plane makes at most one call per host at a time (`call`). A call
ends answered, refused by the handler, at its deadline, or by a broken
connection; in the last two cases (`GiveUp`) the worker keeps what it has read.
When a logical query returns at its deadline, the calls of its pool threads are
still open and nobody joins them: `LeaveOpen`, a part of the runner's own action,
counts them as timed out. `LateDelivery` says what becomes of a request that the
worker has not read by then: its bytes may still be in the buffers of a kernel on
the way, or a thread that was left behind may not even have sent them, and then a
worker can read a request that nobody waits for.

### `Monitoring`

`pc` follows `run` of `continuous_monitoring/experiment.py`. `connect` is the
first look at every worker, `SetUp` the dataset, the reference fragments and the
directories of a condition; nothing catches what these raise (`SetUpRaises`), at
the start and again before a repetition with a dataset, layout or condition of
its own. A repetition resets host by host, prepares all (`_prepare_workers`),
checks the fragments (`prepared`) and idleness before the window (`before`), and
runs the window (`between` two queries, `querying`, which ends when every
request has, or at the deadline with some of them open), the recovery of
`_recover_after_timeout` (`idleCheck`, `restarting`, `repreparing`, `recheck`)
and the final check (`after`). Repetitions in `Idling` ask nothing. `step`
counts the queries the task executor has done for the current cycle, `suspects`
and `recovered` are `restart_ids` and `recovered_ids`; `status`, `failures` and
`manifest` are the accounts.

The scheduler is reduced to what the executor sees of it: cycles one after the
other, an end of the window, an exception or a halt. A dataset with its layout
is a member of `Graphs`, and a worker's fragment is named by its dataset. Clocks
are left out: a wait or a call may fail at any moment, and a merge may be late.

### `Campaign`

`pc` follows `run` of `experiment.py`: the first look at every worker
(`connect`, with the three statuses a manifest can get there), the dataset of a
scenario, the reference fragments of a layout, its cold start (`cold`), then
for each iteration reset, readiness, preparation, the digest check, the serial
catalog (`queries`, `querying`, where a query may return before its requests, as in
`Monitoring`) and `post_check`; `recovery` and `restart` are
`_recover_after_query_timeout`; `containers` and `oomRestart` the look at
container states, after which `EndIteration` keeps the accounts. `Skip` and
`GoOn` are the `continue` and `break` statements by which a layout, or both
layouts of a scenario, are left. `record` is the status of the iteration,
`abandonment` is `layout_recovery_failed`. Instead of all rows the model counts
the iterations that ended completed or with `payload_limit_exceeded`
(`unharmed`), and keeps whether one ended with the latter (`limited`), whether
anything was appended to `failures`, and the status in the manifest.

### `Rdfs` and `Distribution`

A graph is a set of triples; a name is a pair of a kind and the number at its
end. `Start` is what `materialize` does before its loop (literals of equal
value, resources), `Turn` one cycle, rule by rule. `Distribution` chooses any
tiers, a layout and a number of users, builds the facts of the generator as far
as they differ in how the code treats them, and gives every host its fragment:
`PartitionGraph` is `partition_graph`, `ConsentProjection` and the choice in
`Fragment` are `partition_dataset`. All hosts then reason turn by turn, together
with two graphs that no host has: the whole dataset, and the dataset without
users. `SelectHosts` is `select_hosts` for every scope.

### `BenchmarkConfig` and `MonitoringConfig`

Predicates on parsed files: `ValidBenchmark`, `ValidTopology`,
`ValidMonitoring`; `WithDefaults`, `ActiveHosts`, `Resolve` and `Plan` are what
the loaders and `run` make of them. Comparisons are those of Python with `nan`
(`AtMost`, `Exceeds`): all false. The instances are derived from accepted
configurations: `MCScheduler` runs the tasks that `Resolve` gives, `MCMonitoring`
the repetitions of a `Plan`, `MCCampaign` the hosts, layouts, iterations and
rounds of the tightest configuration `load_config` accepts. The `ASSUME`s there
(`Examples`, `PlanIsComplete`) are evaluated by TLC and show configurations at
the boundary accepted and rejected.

### `Sampler`

`runner` is the runner's thread: `setPhase` waits for the lock, `assign` and
`announce` are the statements under it, `joining` and `left` are `__exit__`.
`sampler` is the sampling thread, `probe` the future of each host. Writing a
sample is one step under the lock; `set_phase` is three, and the lock is what
keeps a sample out of them. `takenIn`, and the field `taken` of the rows, are not
in the code: they remember when a sample was taken. `RecordRaises` and `Die` are
the thread that outlives the join and finds the file closed.

## 3. Runs

| Run | What it shows |
|---|---|
| `Scheduler` | All scheduler properties, the refinement of `SlotLedger` and termination: three tasks with intervals 2 and 3, two priorities, deadlines of their own, a window of 6 |
| `Worker` | The permit and its wait list, what the counters show and by how much `queue_depth` is off, what an idle answer can overlook, stability of the graph, the refinement of `SerialWorker` and progress: a prepare, a reset, a query that does not parse, one probe, two threads, one death |
| `FanOut` | Leftovers, the refinement of `AllOrNothing`, the return of the coordinator and the end of pool threads: two participants, four merge cases, two keys |
| `Transport` | No answer is accepted after its deadline, however its parts arrive; a request and the polls of `wait_ready` end by themselves |
| `Repetitions` | Four planned repetitions, two layouts with and without monitoring: what a timeout leaves behind, which graph is queried, what a completed repetition and the manifest promise, whether the run ends |
| `Campaign` | A scenario of two layouts of two iterations on two of three hosts: clean starts, own fragments, the sequential check after the catalog, the manifest, the end |
| `Distribution` | Four hosts of all combinations of tiers, both layouts, up to three users: no invented inference, entities that stay whole, routes of merged scopes and of keys that reach the data, the count of consents where cloud and edge have hosts |
| `Sampler` | Two rounds on two hosts, three changes of phase: the structure of the file, how stale a label can be, which samples are lost and whether the hosts stay in step, leaving the sampler |
| `NegativeSleep`, `QueueDepthLeak`, `TornHealth`, `UncountedFailure` | Violations: see the findings |

**Bounds.** `MaxTime` bounds the clock and exceeds the window, so that
executions end after it. With intervals 2 and 3 in a window of 6 slots meet in
every alignment, tasks fall due together (two at 3, and more in batches that
come late), executions overrun one or more slots of the other tasks, and a slot
of every task falls exactly on the end of the window.

`Requests` are three, and each is sent at most once: a retry is a request of its
own. Three are enough for one owner and two that queue, of which either
withdraws, or for one owner, one that is woken and one that arrives. It takes
two threads: with one the queue is never used (`NeedsTwoThreads`). A queue of
two has no interior; that a withdrawal from there leaves it consistent is the
theorem `Serialized`, for any number of requests. Two threads suffice otherwise:
one for a handler that is under way and one for whatever comes between its
steps. Whether the extractors refuse a body is a choice of each request
(`RefuseBody`). `MaxKills` is 1 in `Worker` and 0 elsewhere. In `FanOut` the
clock goes up to `MaxTime`, past every deadline, and on to the end of the last
request. Two participants suffice for every combination of two outcomes, and the
verdict depends on the set of outcomes only; the theorems cover more.

`Transport`: with `Timeout` 4 each operation of an upload can end
early, late or at its limit, and `HeadParts` 3 lets a head come in up to four
segments, each of them late; with `DeadlineSeconds` 7, `PollTimeout` 3 and
`Pause` 1 a poll can start one instant before the deadline and outlive it. No
bound on time is needed: the clock stops with the call.

In `Repetitions` and `Campaign` two hosts suffice to have one that was checked
and one that was not; two layouts with different fragments, to leave a request
of one behind for the other, and two conditions or iterations in each, to leave
it for the same; two queries per window, in a task of two, for one query that
fails and one that follows; one worker death (`MaxDeaths`). `LateDelivery` is
FALSE in both (see the observations).

`Distribution`: four hosts give every pattern of the four tiers with none, one
or several hosts in it, hence all fallbacks; three users on two nodes make both
owners of two own users, and one node shared by two users. `BaseGraph` has an
axiom of each kind that acts on generated facts (domain, range, subclass,
subproperty), the ontology's datatype, a user and a node of its own, and two
numerals of equal value. In `Sampler` two phases and three changes let a phase
be left and entered again while a sample is under way.

**Deadlock** is not checked: the scheduler returns, requests run out, the query
and the calls finish, materializations reach their fixed point, and the clock
has a bound.

**Fairness.** Scheduler: weak fairness of the clock and of the thread. It
includes that `execute` returns, which holds because every request, idle check
and restart in it has a timeout. Worker: weak fairness per handler, that is, the
runtime polls what can proceed and computations end; nothing is assumed of
clients, deaths or timeouts. Coordinator: weak fairness of the clock and its own
thread only; `ThreadsEnd` assumes fair pool threads in its own premise.
Sampler: weak fairness of the runner's thread, none of the sampling thread.
Runners: weak fairness of the runner and of the deadline of its calls; workers
owe nothing, so that all progress is due to timeouts. That a call ends is
justified by `CallEnds` of `HttpClient`: there the clock, the timeout of the
socket and the wake-up of a sleeper are fair, and nothing else; that a head has
finitely many segments is due to the limits of `http.client` on lines and their
number. `Distribution` needs no fairness.

## 4. Findings

* **A sleep may be negative** (`NegativeSleep`). `if clock() < nearest:
  sleeper(nearest - clock())` reads the clock twice; `time.sleep` raises on a
  negative argument. The other sleep of the function is clamped.
* **`queue_depth` leaks** (`QueueDepthLeak`). A handler dropped while it waits
  for the permit never decrements `waiting`: the worker is never idle again.
* **`/health` overlooks a request** (`TornHealth`). `waiting` is decremented
  before `active` is incremented, and both are loaded one after the other: an idle
  answer may miss a request that goes from the one to the other, and owns the
  permit. `SteadyWorkIsSeen` says that this is all it can miss.
  Both defects of the worker need two runtime threads, that is a container with
  two CPUs; `NeedsTwoThreads` proves that on one they cannot happen. The deployed
  containers have one.
* **A too large fragment is not counted** (`UncountedFailure`). An iteration
  with `payload_limit_exceeded` is not appended to `failures`, so a campaign of
  only such iterations is reported completed. `ManifestIsTruthful` shows that it
  is the only such status.

### Observations without a run

The properties named bound what follows.

* After a failed recovery the scheduler stops in the middle of a batch. The
  batch's other slots have left `next_due` and appear in no event, so the
  denominator of compliance is too small; `EverySlotRecorded` speaks of windows
  that close normally.
* A sample counts for the phase in which it is written, not the one in which it
  was taken. `OnlyFirstIsStale` bounds the error to one sample per host and
  phase, which matters in short phases.
* "Every physical request receives at most the remaining logical budget"
  (`BENCHMARK.md:13`): the budget is computed from one reading of the clock
  (`query_execution.py:49`) and the deadline of the request from a later one
  (`protocol.py:20`), so it may lie behind the logical deadline by the time
  between them. `ImplementsPromise` shows that the coordinator merges nothing late.
* "Finite HTTP timeouts are global wall-clock deadlines" (`BENCHMARK.md:17`), but
  connection, headers and payload are each given the whole timeout, and each
  segment of the response's head what remained before it: a call may be blocked
  after its deadline, for as long as segments come. `AcceptedInTime` shows that no
  late answer is accepted, `CallEnds` that the call ends.
* Samples taken before the first `set_phase` carry the label `unassigned`
  (`resources.py:32`), which is none of the five phases of `BENCHMARK.md:21`.
* When the hosts of a tier are all excluded, routing and partitioning fall back
  differently: a query for the cloud goes to a host without the projection, and
  `cloud_authorities` misses partitions when all tiers own some. The premises of
  `CountsEveryone` and `RoutedHostsSuffice` say so.
* `nan` passes every check of intervals, deadlines and timeouts, whose
  comparisons it makes false. `AcceptedIsSchedulable` needs `Numeric`.
* An exception in the set-up of a monitoring condition leaves the manifest
  "running" for ever. A directory that exists already is one, as a layout
  configured twice or a level named "idle" produces it.
* With `LateDelivery` TRUE, `GraphIsKept` of `Monitoring` is violated: a reset
  that timed out in one repetition is read by its worker in the window of the
  next. It needs a request that outlives its connection, or a pool thread that
  sends it late, by the whole set-up.
* After a physical failure the runner does not wait for idle workers; the query
  of a broken connection may still be computed while the next one starts.
  `CompletedIsQuiet` shows that it has ended when the repetition completes.

## 5. Theorems

Every invariant and every action or refinement property that a passing run checks is
also a theorem, for every value of the constants, and so are the type
invariants. Assumptions are the named `ASSUME`s of the modules: what
configuration validation guarantees (`ConfigAssumption`), finite sets of
requests, probes and hosts (`WorkerAssumption`, `PoolAssumption`), at least one
participant and positive timeouts (`QueryAssumption`, `NoneAssumption`,
`ClientAssumption`), and what the ontology is like (`BaseAssumption`, below).
The bounds of the models (`MaxTime`, `MaxKills`, `MaxDeaths`, `MaxQueries`,
`MaxUsers`) are any numbers. The theorems about the runners named below with (*)
assume `~LateDelivery`, in their statement. `SamplerInv` and `Closed`, the longest
inductive invariants, were also checked with TLC on the instances of their runs.

* **Scheduler**: `TypeCorrect`, `Conservation`, `Complete`, `NoBurst`,
  `OneAtATime`, `Utilization`, `InOrder`, `BusyIsLate`, `Implements`. The clock
  bound plays no part.
  `SlotConservation` is not inductive: that a slot is not recorded twice needs
  that everything recorded, batched or running lies below `next_due`, that
  `next_due` is itself a slot, and that batch and execution are
  empty in the right control states. `NoCatchUpBurst` needs that the scan never
  runs ahead of the clock and that batched slots were not late when taken.
  `LogicalConcurrencyOne` needs that recorded executions ended before the
  running one started. `SimultaneousInOrder` needs `Orderly`: outside a scan the
  next slot of every task lies behind the last scan, so a cycle due at the same
  instant as one that ran cannot join a later batch; what ran precedes what is
  still in the batch, as the sort key orders any two tasks. `BusyMissIsLate`
  needs `Excused`: once the inner loop of the scan has abandoned a slot, the next
  one it looks at follows an abandoned one. The refinement of
  `SlotLedger` uses all of these but the last; every step takes up, abandons,
  starts or ends cycles in the ledger, or does nothing that it sees.
* **Configuration and scheduler**: `AcceptedIsSchedulable`: whatever
  `load_monitoring_config` accepts resolves, at every level, to tasks that meet
  `ConfigAssumption`, if its numbers are numbers. `UnwarnedLacksAtMostOne`: a task
  without a cycle warning has the recommended number of slots in the window, or
  one less (see below).
* **Worker**: `TypeCorrect`, `Serialized`, `StableQueries`, `Implements`,
  `Covering`, `ExactDepth`, `SteadyWork`, `NeedsTwoThreads`, for any number of
  requests, probes, threads and deaths. The
  argument is that of a lock: the permit is in one place; a request in an owning
  stage is that place; the graph changes only at a stage that owns it. The wait
  list must be shown to be exactly the queued requests, which needs the absence
  of duplicates when a waiter withdraws from the middle. The refinement follows:
  the answer is computed at the step that changes the graph, and an executing
  query's clone is the current graph. `Counters` counts the requests in the
  stages that a counter stands for: `active_requests` is exact, and `queue_depth`
  exceeds the requests that wait by the handlers dropped since the process
  started. `Sightings` follows a health request from its lock to its answer: what
  it holds for present during all of it was counted when the counter was read.
  `NeedsTwoThreads` is about one thread: no request ever waits for the permit
  there (`Alone`), so none is dropped, and a probe finds no request inside.
* **Logical query**: `TypeCorrect`, `LeftoversReported`, `Implements`. The
  invariant relates the collected rows to the threads: a row collected as
  completed belongs to a thread that has ended with an answer, and a merge
  happens only when all are.
* **HTTP client**: `TypeCorrect`, `Accepted`, for all timeouts and any number of
  segments. No guard says that an accepted answer is in time: the invariant is
  that a pending operation is not past its end, and that the end of a read, whose
  timeout was computed from the deadline just before, is not past the deadline.
* **Sampler**: `SamplerTypeCorrect`, `Reconstructable`, `OneStaleLabel`,
  `Complete`, for any number of hosts, phases, rounds and changes. `Timeline`
  ties the file to the threads: the phase that its rows leave open is the current
  one, except inside `set_phase`, where the runner has the lock. `Fresh`
  is why only the first label of a phase can be stale: once a host has a row in
  the phase, a sample of it that waits was taken in it. `Rounds` counts the rows
  of each host. What the file says is an operator on sequences; lemmas say what
  appending a row does to it.
* **Monitoring**: `NothingLeft`*, `Measured`*, `QuietAtTheEnd`*, `Truthful`,
  `TypeCorrect`*. `Phases` says for each phase which hosts have been brought into
  order and which have not: whose pending requests leave the repetition's graph
  alone (`Harmless`), who has it (`Kept`), who may hold a query that timed out
  (`Late`). It needs `OneWaiting`: at most one pending request of a host has a
  client, exactly while the call is open. `WorkerPoolProofs` summarises the
  steps of workers and network by `Evolves`: a host gets no new requests, its
  graph changes only by one it had, and a client is lost only from an open call.
  `Accounts` relates counter, statuses and manifest; it says nothing of workers,
  which is why `Truthful` needs no assumption about delivery.
* **Campaign**: `CleanStarts`*, `Measured`*, `PostChecks`*, `Truthful`,
  `TypeCorrect`*, along the same lines. Here the accounts are a count: `unharmed`
  is the number of iterations behind the runner (`Past`) exactly if nothing was
  appended to `failures`.
* **Distribution**: `Sound`, `Covered`, `EntitiesWhole`, `RoutesSuffice`,
  `EveryoneCounted`, for every host sequence, assignment of tiers and number of
  users. `Sound` needs nothing of the ontology: the fragments are contained in
  the dataset, and `Start` and `Turn` are monotone. The others rest on `Closed`.
  Of two triples that a rule joins one is an axiom, or the result is nothing new
  (`OneFact`); axioms come from axioms (`AxiomOfAxioms`), and every owner's
  fragment has those of the base. So what the whole dataset entails from a user's
  fact the owner of the user entails alone, turn by turn (`CoverTurn`), and no
  rule relates the users of two owners (`PrivateTurn`). What a user's facts entail
  about a shared node is known without them (`NodesKnown`): the range of
  `connectsTo` is a superclass of `EdgeNode`. The start replaces only numerals of
  the base and of the nodes (`Plain`). The theorems are about the facts of the
  generator that `Dataset` has, which are not all of them.

`BaseAssumption` is what these proofs need of `base.nt`, and each part of it is
true of that file: its triples do not mention generated entities; no term of the
RDF and RDFS vocabulary is a subject, and as objects there are only
`rdfs:Datatype` in one type and `rdfs:Literal` in two ranges; the one subproperty
is `hasGeometry` (7734); `connectsTo` has range `ComputationalNode` (7417), a
superclass of `EdgeNode` (1221); what has a consent range is typed `User`. It is
not idle: with a range of `connectsTo` that edge nodes are not known to have, a
user's fact would say something of a node that other owners do not know; with a
subproperty of `rdfs:domain`, facts would make axioms. `LiteralAssumption` says
that literals are not among the terms of the rules and the entities.

**An observation from a proof.** The warning about too few cycles
(`config.py:184-185`) compares `measurement_seconds / interval` with the
recommendation, but the first slot lies an interval after the start
(`scheduler.py:62`) and one on the end of the window is not run (69, 78). A window
that is an exact multiple of the interval has one cycle less than the quotient in
the message, so a task may lack one recommended cycle without a warning; the
message says "approximately", and the theorem is stated so.

**Model-checked only.** Liveness (`Terminates`, `EveryRequestLeaves`, `Returns`,
`ThreadsEnd`, `CallEnds`, `Ends`, `ExitReturns`), which the prover cannot treat,
as it has neither fairness nor `ENABLED`. No theorem says that the reasoning
reaches its fixed point; `Closed` holds in every turn and does not need it. The
library's induction takes an operator and cannot be used here; the two places
that need induction, the hosts of a tier (`Chosen`) and the last change of phase
in the sampler's file (`Greatest`), look at a least number instead, which
well-foundedness gives. Induction over richer data is out of reach: `OfTier` is
the only recursion in the models, a function, and the closure of a graph is
reached by steps.

## 6. Plan

Done: scheduler, worker, logical query, HTTP client, both runners with their
accounts, distribution of the data, configuration, sampler; theorems about all
of them. What is left, the most important first:

1. `WorkerPool` as an abstraction of `Worker`: each coarse worker implemented by
   the fine-grained one with a single runtime thread.
2. What the loaders of `BenchmarkConfig` accept implies the assumptions of
   `Campaign` and `Distribution`, as `AcceptedIsSchedulable` does for `Scheduler`.
3. The filters of reporting, over the rows the runners leave.

## 7. Not modelled

* **Reporting** is one sequential pass over recorded files, most of it statistics
  and figures. It relies on properties checked here: complete files
  (`Bracketed`), hosts whose n-th samples belong together (`NothingIsLost`),
  statuses and counters (`ManifestIsTruthful`). One of its assumptions is not:
  it takes differences of counters that a restart within the window resets.
* **Command line** and the RDF command-line tool dispatch arguments.
* **Deployment**: `ssh` and `docker` invocations keep no state in the program;
  what a restart does to a worker is `Renew`.
* **Canonical form and SPARQL**: digests of sorted text and calls into Oxigraph;
  equal graphs have equal digests in the models.
* **Details of what is modelled**: the unlimited timeout of diagnostic runs, TOML
  parsing, the values of generated facts, blank nodes (the data has none), the
  hash of names without a number (no synthetic name is one), the contents of
  evidence files.

The components list of `PROJECT.json` gives the reason for each part.
