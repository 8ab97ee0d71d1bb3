-------------------------------- MODULE Worker ---------------------------------
(***************************************************************************)
(* The semantic worker process (rust/continuum-worker/src/main.rs): an     *)
(* Axum server on a Tokio runtime of Threads threads.                      *)
(*                                                                         *)
(* A handler runs on a thread from one await point to the next; the only   *)
(* await inside a handler is the acquisition of the one permit of          *)
(* semantic_queue, so parsing, reasoning and query execution hold a thread *)
(* and cannot be interrupted.  A client that gives up closes its           *)
(* connection: the server then drops the handler if it is waiting at that  *)
(* await, and otherwise finishes it for nobody.                            *)
(***************************************************************************)
EXTENDS Integers, Sequences, FiniteSets

CONSTANTS
    Requests,   \* the POST requests clients will make, each at most once
    Kind,       \* "reset", "prepare" or "query"
    Payload,    \* the graph a prepare carries; Garbage does not parse
    Header,     \* x-expected-dataset-digest, or NoHeader
    Datasets,   \* graphs, identified by their digests
    Unloaded, Garbage, NoHeader,
    Probes,     \* the GET /health requests
    Threads,    \* worker threads of the runtime
    MaxKills    \* bound of the model: how often the process dies

ASSUME WorkerAssumption ==
    /\ IsFiniteSet(Requests) /\ IsFiniteSet(Probes)
    /\ Kind \in [Requests -> {"reset", "prepare", "query"}]
    /\ Payload \in [Requests -> Datasets \cup {Garbage}]
    /\ Header \in [Requests -> Datasets \cup {NoHeader}]
    /\ Unloaded \notin Datasets /\ Garbage \notin Datasets /\ NoHeader \notin Datasets
    /\ Threads \in Nat \ {0}
    /\ MaxKills \in Nat

VARIABLES
    up,         \* the process runs
    kills,      \* how often it died
    stage,      \* where each request is
    gone,       \* requests whose client closed the connection
    queue,      \* FIFO wait list of semantic_queue
    free,       \* semantic_queue has its permit
    waiting,    \* AppState.waiting
    active,     \* AppState.active
    data,       \* AppState.data: the loaded graph (store and digests together)
    snapshot,   \* the store a query works on
    reply,      \* the answer the handler computed
    probe,      \* where each health request is
    seen        \* what it has read so far; the requests that were inside, waiting
                \* and counted when it began, and still are when it looks idle

requestVars == <<stage, gone, snapshot, reply>>
permitVars == <<queue, free, waiting, active>>
probeVars == <<probe, seen>>
processVars == <<up, kills>>
vars == <<processVars, requestVars, permitVars, data, probeVars>>

-----------------------------------------------------------------------------
\* Stages in the order a request goes through them.
Outside == {"unsent", "sent"}
Ended == {"replied", "dropped", "lost"}
\* waiting has been incremented and not yet decremented
Announced == {"arrived", "queued", "woken", "permitted"}
\* the handler owns the permit
Owning == {"woken", "permitted", "admitted", "holding", "executing", "leaving", "releasing"}
\* active has been incremented and not yet decremented
Counted == {"holding", "executing", "leaving"}
\* the handler occupies a thread
OnThread == {"arrived", "permitted", "admitted", "holding", "executing", "leaving", "releasing"}
Inside == Announced \cup Owning
\* the worker still has semantic work to do for the request
Busy == Announced \cup {"admitted"} \cup Counted

In(stages) == {r \in Requests : stage[r] \in stages}

Probing == {p \in Probes : probe[p] \in {"locked", "loaded"}}

ThreadAvailable == Cardinality(In(OnThread)) + Cardinality(Probing) < Threads

NoAnswer == [status |-> "pending", graph |-> Unloaded]
NothingSeen == [active |-> 0, waiting |-> 0, inside |-> {}, queued |-> {}, running |-> {}]

Goto(r, s) == stage' = [stage EXCEPT ![r] = s]

\* Mutant: the waiter in front leaves in place of the one that withdrew.
WithoutFirst(q, i) == Tail(q)

\* The wait list after the waiter at place i withdrew.
Without(q, i) == [j \in 1 .. Len(q) - 1 |-> IF j < i THEN q[j] ELSE q[j + 1]]

Init ==
    /\ up = TRUE /\ kills = 0
    /\ stage = [r \in Requests |-> "unsent"]
    /\ gone = {}
    /\ queue = <<>> /\ free = TRUE /\ waiting = 0 /\ active = 0
    /\ data = Unloaded
    /\ snapshot = [r \in Requests |-> Unloaded]
    /\ reply = [r \in Requests |-> NoAnswer]
    /\ probe = [p \in Probes |-> "unsent"]
    /\ seen = [p \in Probes |-> NothingSeen]

-----------------------------------------------------------------------------
(***************************************************************************)
(* Clients (protocol.request_json) and the process.                        *)
(***************************************************************************)
Send(r) ==
    /\ stage[r] = "unsent"
    /\ Goto(r, "sent")
    /\ UNCHANGED <<processVars, gone, snapshot, reply, permitVars, data, probeVars>>

\* The client's timeout: it closes the connection and forgets the request.
GiveUp(r) ==
    /\ r \notin gone /\ stage[r] \notin Ended \cup {"unsent"}
    /\ gone' = gone \cup {r}
    /\ UNCHANGED <<processVars, stage, snapshot, reply, permitVars, data, probeVars>>

\* The process dies (out of memory, docker restart): handlers, counters,
\* semaphore and graph go with it, and so do connections and probes.
Kill ==
    /\ up /\ kills < MaxKills
    /\ up' = FALSE /\ kills' = kills + 1
    /\ stage' = [r \in Requests |-> IF stage[r] \in Inside \cup {"sent"} THEN "lost" ELSE stage[r]]
    /\ queue' = <<>> /\ free' = TRUE /\ waiting' = 0 /\ active' = 0
    /\ data' = Unloaded
    /\ probe' = [p \in Probes |-> IF p \in Probing THEN "unsent" ELSE probe[p]]
    /\ UNCHANGED <<gone, snapshot, reply, seen>>

Boot ==
    /\ ~up
    /\ up' = TRUE
    /\ UNCHANGED <<kills, requestVars, permitVars, data, probeVars>>

\* Connection refused, or closed before the request was complete.
Discard(r) ==
    /\ stage[r] = "sent"
    /\ ~up \/ r \in gone
    /\ Goto(r, "lost")
    /\ UNCHANGED <<processVars, gone, snapshot, reply, permitVars, data, probeVars>>

\* DefaultBodyLimit and the Json extractor may answer without calling the handler:
\* size and JSON of a body are a choice here.  A reset reads no body.
RefuseBody(r) ==
    /\ up /\ stage[r] = "sent" /\ Kind[r] # "reset"
    /\ ThreadAvailable
    /\ Goto(r, "replied")
    /\ UNCHANGED <<processVars, gone, snapshot, reply, permitVars, data, probeVars>>

-----------------------------------------------------------------------------
(***************************************************************************)
(* ActiveGuard::acquire, and its end.                                      *)
(***************************************************************************)
\* waiting.fetch_add(1)
Arrive(r) ==
    /\ up /\ stage[r] = "sent"
    /\ ThreadAvailable
    /\ Goto(r, "arrived")
    /\ waiting' = waiting + 1
    /\ UNCHANGED <<processVars, gone, snapshot, reply, queue, free, active, data, probeVars>>

\* Mutant: the semaphore is created with a permit for everyone.
TryPermitEveryone(r) ==
    /\ stage[r] = "arrived"
    /\ Goto(r, "permitted")
    /\ UNCHANGED <<processVars, gone, snapshot, reply, permitVars, data, probeVars>>

\* acquire_owned(): the permit at once, or a place at the end of the queue
\* and the thread back to the runtime.
TryPermit(r) ==
    /\ stage[r] = "arrived"
    /\ IF free THEN free' = FALSE /\ Goto(r, "permitted") /\ UNCHANGED queue
               ELSE queue' = Append(queue, r) /\ Goto(r, "queued") /\ UNCHANGED free
    /\ UNCHANGED <<processVars, gone, snapshot, reply, waiting, active, data, probeVars>>

\* The runtime polls a handler that was handed the permit.
Resume(r) ==
    /\ stage[r] = "woken"
    /\ ThreadAvailable
    /\ Goto(r, "permitted")
    /\ UNCHANGED <<processVars, gone, snapshot, reply, permitVars, data, probeVars>>

\* Mutant: waiting only grows.
LeaveQueueUncounted(r) ==
    /\ stage[r] = "permitted"
    /\ Goto(r, "admitted")
    /\ UNCHANGED <<processVars, gone, snapshot, reply, permitVars, data, probeVars>>

\* waiting.fetch_sub(1)
LeaveQueue(r) ==
    /\ stage[r] = "permitted"
    /\ Goto(r, "admitted")
    /\ waiting' = waiting - 1
    /\ UNCHANGED <<processVars, gone, snapshot, reply, queue, free, active, data, probeVars>>

\* Mutant: a guard that counts down only.
ActivateUncounted(r) ==
    /\ stage[r] = "admitted"
    /\ Goto(r, "holding")
    /\ UNCHANGED <<processVars, gone, snapshot, reply, permitVars, data, probeVars>>

\* active.fetch_add(1)
Activate(r) ==
    /\ stage[r] = "admitted"
    /\ Goto(r, "holding")
    /\ active' = active + 1
    /\ UNCHANGED <<processVars, gone, snapshot, reply, queue, free, waiting, data, probeVars>>

\* Mutant: a guard without a Drop implementation.
DeactivateForgotten(r) ==
    /\ stage[r] = "leaving"
    /\ Goto(r, "releasing")
    /\ UNCHANGED <<processVars, gone, snapshot, reply, permitVars, data, probeVars>>

\* ActiveGuard::drop: active.fetch_sub(1) ...
Deactivate(r) ==
    /\ stage[r] = "leaving"
    /\ Goto(r, "releasing")
    /\ active' = active - 1
    /\ UNCHANGED <<processVars, gone, snapshot, reply, queue, free, waiting, data, probeVars>>

\* Mutant: the permit is returned and nobody is woken.
HandOverForgotten(r, s) == free' = TRUE /\ Goto(r, s) /\ UNCHANGED queue

\* The permit goes to the head of the queue if there is one.  Request r
\* continues at stage s.
HandOver(r, s) ==
    IF queue = <<>>
    THEN free' = TRUE /\ Goto(r, s) /\ UNCHANGED queue
    ELSE /\ stage' = [stage EXCEPT ![r] = s, ![Head(queue)] = "woken"]
         /\ queue' = Tail(queue)
         /\ UNCHANGED free

\* ... and then its permit field; the response is sent afterwards.
Release(r) ==
    /\ stage[r] = "releasing"
    /\ HandOver(r, "replied")
    /\ UNCHANGED <<processVars, gone, snapshot, reply, waiting, active, data, probeVars>>

\* The connection of a handler that is at its await point was closed: the
\* handler is dropped there.  Its place or its permit goes back to the
\* semaphore, but the line waiting.fetch_sub(1) is never reached.
DropHandler(r) ==
    /\ r \in gone
    /\ ThreadAvailable
    /\ \/ /\ stage[r] = "queued"
          /\ Goto(r, "dropped")
          /\ \E i \in 1 .. Len(queue) : queue[i] = r /\ queue' = Without(queue, i)
          /\ UNCHANGED free
       \/ stage[r] = "woken" /\ HandOver(r, "dropped")
    /\ UNCHANGED <<processVars, gone, snapshot, reply, waiting, active, data, probeVars>>

-----------------------------------------------------------------------------
(***************************************************************************)
(* The handlers, between acquiring and dropping the guard.                 *)
(***************************************************************************)
Acceptable(r) == Payload[r] \in Datasets /\ Header[r] \in {NoHeader, Payload[r]}

\* A writer of AppState.data waits until no health request holds the read lock.
Unlocked == Probing = {}

Respond(r, status, graph) ==
    /\ reply' = [reply EXCEPT ![r] = [status |-> status, graph |-> graph]]
    /\ Goto(r, "leaving")

ResetGraph(r) ==
    /\ stage[r] = "holding" /\ Kind[r] = "reset"
    /\ Unlocked
    /\ data' = Unloaded
    /\ Respond(r, "reset", Unloaded)
    /\ UNCHANGED <<processVars, gone, snapshot, permitVars, probeVars>>

\* parse_ntriples fails, the digest differs from the header, or the store
\* cannot be built: the loaded graph stays.
FailPrepare(r) ==
    /\ stage[r] = "holding" /\ Kind[r] = "prepare"
    /\ Respond(r, IF Acceptable(r) THEN "internal_error" ELSE "rejected", data)
    /\ UNCHANGED <<processVars, gone, snapshot, permitVars, data, probeVars>>

InstallGraph(r) ==
    /\ stage[r] = "holding" /\ Kind[r] = "prepare"
    /\ Acceptable(r)
    /\ Unlocked
    /\ data' = Payload[r]
    /\ Respond(r, "prepared", Payload[r])
    /\ UNCHANGED <<processVars, gone, snapshot, permitVars, probeVars>>

\* The query clones the store and works on the clone without the lock.
ReadStore(r) ==
    /\ stage[r] = "holding" /\ Kind[r] = "query"
    /\ IF data = Unloaded
       THEN Respond(r, "graph_not_loaded", Unloaded) /\ UNCHANGED snapshot
       ELSE /\ snapshot' = [snapshot EXCEPT ![r] = data]
            /\ Goto(r, "executing")
            /\ UNCHANGED reply
    /\ UNCHANGED <<processVars, gone, permitVars, data, probeVars>>

RunQuery(r) ==
    /\ stage[r] = "executing"
    /\ Respond(r, IF Payload[r] = Garbage THEN "rejected" ELSE "rows", snapshot[r])
    /\ UNCHANGED <<processVars, gone, snapshot, permitVars, data, probeVars>>

-----------------------------------------------------------------------------
(***************************************************************************)
(* health: the read lock, then two loads that are not one.  The digests it *)
(* reports with them are left out.                                         *)
(***************************************************************************)
ProbeLock(p) ==
    /\ up /\ probe[p] = "unsent" /\ ThreadAvailable
    /\ probe' = [probe EXCEPT ![p] = "locked"]
    /\ seen' = [seen EXCEPT ![p] = [NothingSeen EXCEPT !.inside = In(Busy), !.queued = In(Announced),
                                                       !.running = In(Counted)]]
    /\ UNCHANGED <<processVars, requestVars, permitVars, data>>

ProbeActive(p) ==
    /\ probe[p] = "locked"
    /\ probe' = [probe EXCEPT ![p] = "loaded"]
    /\ seen' = [seen EXCEPT ![p].active = active]
    /\ UNCHANGED <<processVars, requestVars, permitVars, data>>

\* The answer to a health request that has found f; what an idle one overlooks.
Report(f) ==
    IF f.active = 0 /\ waiting = 0
    THEN [f EXCEPT !.inside = @ \cap In(Busy), !.queued = @ \cap In(Announced),
                   !.running = @ \cap In(Counted)]
    ELSE [NothingSeen EXCEPT !.active = f.active, !.waiting = waiting]

ProbeWaiting(p) ==
    /\ probe[p] = "loaded"
    /\ probe' = [probe EXCEPT ![p] = "answered"]
    /\ seen' = [seen EXCEPT ![p] = Report(@)]
    /\ UNCHANGED <<processVars, requestVars, permitVars, data>>

-----------------------------------------------------------------------------
Serve(r) ==
    \/ Discard(r) \/ RefuseBody(r) \/ Arrive(r) \/ TryPermit(r) \/ Resume(r) \/ LeaveQueue(r)
    \/ Activate(r) \/ ResetGraph(r) \/ FailPrepare(r) \/ InstallGraph(r) \/ ReadStore(r)
    \/ RunQuery(r) \/ Deactivate(r) \/ Release(r) \/ DropHandler(r)

Health(p) == ProbeLock(p) \/ ProbeActive(p) \/ ProbeWaiting(p)

Next ==
    \/ Kill \/ Boot
    \/ \E r \in Requests : Send(r) \/ GiveUp(r) \/ Serve(r)
    \/ \E p \in Probes : Health(p)

Spec == Init /\ [][Next]_vars

\* The runtime polls every handler that can proceed; clients, timeouts and
\* deaths are not forced to happen.
FairSpec ==
    /\ Spec
    /\ WF_vars(Boot)
    /\ \A r \in Requests : WF_vars(Serve(r))
    /\ \A p \in Probes : WF_vars(Health(p))

-----------------------------------------------------------------------------
(***************************************************************************)
(* Properties                                                              *)
(***************************************************************************)
Stages == Outside \cup Inside \cup Ended

Replies == [status : {"pending", "reset", "prepared", "rejected", "internal_error",
                      "graph_not_loaded", "rows"},
            graph : Datasets \cup {Unloaded}]

TypeOK ==
    /\ up \in BOOLEAN /\ kills \in Nat
    /\ stage \in [Requests -> Stages]
    /\ gone \subseteq Requests
    /\ queue \in Seq(Requests) /\ free \in BOOLEAN
    /\ waiting \in Int /\ active \in Int
    /\ data \in Datasets \cup {Unloaded}
    /\ snapshot \in [Requests -> Datasets \cup {Unloaded}]
    /\ reply \in [Requests -> Replies]
    /\ probe \in [Probes -> {"unsent", "locked", "loaded", "answered"}]
    /\ seen \in [Probes -> [active : Int, waiting : Int,
                            inside : SUBSET Requests, queued : SUBSET Requests,
                            running : SUBSET Requests]]

\* "A capacity-one semaphore serializes semantic work" (ARCHITECTURE.md:7): the
\* permit has one place, nobody waits for it while it is free, and a request
\* dropped at the await neither keeps it nor leaves a hole in the queue.
OnePermit ==
    /\ Cardinality(In(Owning)) + (IF free THEN 1 ELSE 0) = 1
    /\ free => queue = <<>>
    /\ In({"queued"}) = {queue[i] : i \in 1 .. Len(queue)}
    /\ \A i, j \in 1 .. Len(queue) : queue[i] = queue[j] => i = j

\* The counters behind active_requests and queue_depth: active is exact, and
\* waiting never understates, so a worker cannot look idle for good while a
\* request is queued.
CountersCover ==
    /\ active = Cardinality(In(Counted))
    /\ waiting >= Cardinality(In(Announced))

\* queue_depth is the number of requests that wait, and one more for each handler
\* that was ever dropped at its await since the process started: that is all the
\* counter can be off by.
QueueDepthExact == kills = 0 => waiting = Cardinality(In(Announced \cup {"dropped"}))

\* No reset or prepare replaces the graph under a query that is executing,
\* even when clients of earlier requests have gone and their work goes on.
QueriesAreStable == \A r \in In({"executing"}) : snapshot[r] = data

IdleReported(p) == probe[p] = "answered" /\ seen[p].active = 0 /\ seen[p].waiting = 0

\* "/health reports [...] queue depth, active requests, idle state"
\* (ARCHITECTURE.md:7): idle=true is not reported when some request was inside with
\* work to do during the whole of the health request.
IdleIsTruthful == \A p \in Probes : IdleReported(p) => seen[p].inside = {}

\* What the two loads do guarantee, on any number of threads: a request that an
\* idle answer overlooks was on its way from waiting to active while they were
\* made; one that waited all the time, or was executed all the time, is seen.
SteadyWorkIsSeen ==
    \A p \in Probes : IdleReported(p) => seen[p].queued = {} /\ seen[p].running = {}

\* Every request that got in gets out: answered, dropped or lost.
EveryRequestLeaves == \A r \in Requests : stage[r] \in Inside ~> stage[r] \in Ended

\* "workers must recover to an idle state or be restarted"
\* (README.md:39): once requests stop coming, the worker shows itself idle.
RecoversToIdle == <>[](active = 0 /\ waiting = 0)

\* The interleaved handlers implement a worker that serves one request at a time.
Serial == INSTANCE SerialWorker

ImplementsSerial == Serial!Spec
=============================================================================
