------------------------------- MODULE WorkerPool --------------------------------
(***************************************************************************)
(* The workers and the network as a runner sees them: the environment of   *)
(* the modules that model the control plane.  A worker is that of module   *)
(* Worker with a whole handler as one step and exact health answers; a     *)
(* call is protocol.request_json, at most one per host at a time.          *)
(*                                                                         *)
(* A client that times out or loses its connection leaves behind whatever  *)
(* it has sent.  With LateDelivery a request that its worker had not read  *)
(* by then may still reach it: from the buffers of a kernel, or because a  *)
(* query returned at its deadline without the thread that was about to     *)
(* send it (LeaveOpen).  Without it, what has not arrived never will.      *)
(***************************************************************************)
EXTENDS Integers, Sequences, FiniteSets

CONSTANTS
    Hosts,         \* the hosts of the topology
    Graphs,        \* datasets; every host has its own fragment of each
    Unloaded,
    LateDelivery,
    MaxDeaths      \* bound of the model: worker processes that die by themselves

ASSUME PoolAssumption ==
    /\ Hosts # {} /\ IsFiniteSet(Hosts)
    /\ Unloaded \notin Graphs
    /\ LateDelivery \in BOOLEAN
    /\ MaxDeaths \in Nat

VARIABLES
    up,        \* the worker process runs
    deaths,
    transit,   \* requests sent to a host and not read by its worker
    line,      \* requests inside the worker; the first one owns the permit
    begun,     \* the first one is executing
    leak,      \* AppState.waiting was left incremented
    data,      \* the loaded fragment, named by its dataset
    call       \* the call the control plane makes to each host

poolVars == <<up, deaths, transit, line, begun, leak, data, call>>

-----------------------------------------------------------------------------
\* What became of the client of a request.
Clients == {"waiting", "timedout", "broken"}

Request == [op : {"reset", "prepare", "query"}, graph : Graphs \cup {Unloaded}, client : Clients]

Calls == {"none", "open", "answered", "refused", "timedout", "broken"}

PoolTypes ==
    /\ up \in [Hosts -> BOOLEAN]
    /\ deaths \in Nat
    /\ transit \in [Hosts -> SUBSET Request]
    /\ line \in [Hosts -> Seq(Request)]
    /\ begun \in [Hosts -> BOOLEAN] /\ leak \in [Hosts -> BOOLEAN]
    /\ data \in [Hosts -> Graphs \cup {Unloaded}]
    /\ call \in [Hosts -> Calls]

PoolInit ==
    /\ up = [h \in Hosts |-> TRUE] /\ deaths = 0
    /\ transit = [h \in Hosts |-> {}]
    /\ line = [h \in Hosts |-> <<>>]
    /\ begun = [h \in Hosts |-> FALSE] /\ leak = [h \in Hosts |-> FALSE]
    /\ data = [h \in Hosts |-> Unloaded]
    /\ call = [h \in Hosts |-> "none"]

Requests(h) == {line[h][i] : i \in DOMAIN line[h]}

-----------------------------------------------------------------------------
(***************************************************************************)
(* What the control plane does; these operators are parts of its actions.  *)
(***************************************************************************)
\* One request to each host of hs, concurrently.
CallAll(hs, op, graph) ==
    /\ transit' = [h \in Hosts |->
          transit[h] \cup IF h \in hs THEN {[op |-> op, graph |-> graph, client |-> "waiting"]} ELSE {}]
    /\ call' = [h \in Hosts |-> IF h \in hs THEN "open" ELSE "none"]
    /\ UNCHANGED <<up, deaths, line, begun, leak, data>>

Resolved == \A h \in Hosts : call[h] # "open"

AllAnswered == \A h \in Hosts : call[h] \in {"none", "answered"}

\* Mutant: only active_requests is looked at.
IdleActive(h) == up[h] /\ ~begun[h]

\* One successful poll of wait_ready(require_idle=True).
Idle(h) == up[h] /\ line[h] = <<>> /\ ~leak[h]

\* docker restart: a new process, a new network namespace.
Renew(h) ==
    /\ up' = [up EXCEPT ![h] = TRUE]
    /\ transit' = [transit EXCEPT ![h] = {}]
    /\ line' = [line EXCEPT ![h] = <<>>]
    /\ begun' = [begun EXCEPT ![h] = FALSE]
    /\ leak' = [leak EXCEPT ![h] = FALSE]
    /\ data' = [data EXCEPT ![h] = Unloaded]
    /\ UNCHANGED <<deaths, call>>

-----------------------------------------------------------------------------
(***************************************************************************)
(* Steps of the workers, the network and the calls.                        *)
(***************************************************************************)
Arrive(h) ==
    /\ up[h]
    /\ \E q \in transit[h] :
          /\ transit' = [transit EXCEPT ![h] = @ \ {q}]
          /\ line' = [line EXCEPT ![h] = Append(@, q)]
    /\ begun' = [begun EXCEPT ![h] = @ \/ line[h] = <<>>]
    /\ UNCHANGED <<up, deaths, leak, data, call>>

\* The head of the wait list is polled with the permit.
Begin(h) ==
    /\ line[h] # <<>> /\ ~begun[h]
    /\ begun' = [begun EXCEPT ![h] = TRUE]
    /\ UNCHANGED <<up, deaths, transit, line, leak, data, call>>

Reply(h, q, c) == call' = [call EXCEPT ![h] = IF q.client = "waiting" THEN c ELSE @]

\* The handler at the head runs to its end, for nobody if its client has gone.
Handle(h) ==
    /\ begun[h]
    /\ LET q == Head(line[h])
       IN \/ /\ q.op = "reset"
             /\ data' = [data EXCEPT ![h] = Unloaded]
             /\ Reply(h, q, "answered")
          \/ /\ q.op = "prepare"
             /\ data' = [data EXCEPT ![h] = q.graph]
             /\ Reply(h, q, "answered")
          \/ /\ q.op = "query" /\ data[h] # Unloaded
             /\ Reply(h, q, "answered")
             /\ UNCHANGED data
          \/ \* graph_not_loaded, or an error of the handler
             /\ q.op # "reset"
             /\ Reply(h, q, "refused")
             /\ UNCHANGED data
    /\ line' = [line EXCEPT ![h] = Tail(@)]
    /\ begun' = [begun EXCEPT ![h] = FALSE]
    /\ UNCHANGED <<up, deaths, transit, leak>>

\* A waiting handler whose client has gone is dropped at its await.
Drop(h) ==
    /\ \E i \in DOMAIN line[h] :
          /\ line[h][i].client # "waiting"
          /\ i > 1 \/ ~begun[h]
          /\ line' = [line EXCEPT ![h] = SubSeq(@, 1, i - 1) \o SubSeq(@, i + 1, Len(@))]
    /\ leak' = [leak EXCEPT ![h] = TRUE]
    /\ UNCHANGED <<up, deaths, transit, begun, data, call>>

Abandoned(q, why) == IF q.client = "waiting" THEN [q EXCEPT !.client = why] ELSE q

\* Calls end without an answer for the control plane; their requests are left
\* to themselves.
GiveUp(hs, why) ==
    /\ call' = [h \in Hosts |-> IF h \in hs THEN why ELSE call[h]]
    /\ transit' = [h \in Hosts |->
          IF h \in hs THEN {Abandoned(q, why) : q \in {q \in transit[h] : LateDelivery \/ q.client # "waiting"}}
                      ELSE transit[h]]
    /\ line' = [h \in Hosts |->
          IF h \in hs THEN [i \in DOMAIN line[h] |-> Abandoned(line[h][i], why)] ELSE line[h]]
    /\ UNCHANGED <<up, deaths, begun, leak, data>>

\* Mutant: a preparation has no deadline.
AbandonQuick(h, why) ==
    /\ call[h] = "open"
    /\ \A q \in transit[h] \cup Requests(h) : q.client = "waiting" => q.op # "prepare"
    /\ GiveUp({h}, why)

\* The call of host h ends without an answer: its deadline has passed, or its
\* connection was refused, reset or became unreachable.
Abandon(h, why) == call[h] = "open" /\ GiveUp({h}, why)

\* Part of an action of the control plane: at the deadline of a logical query
\* the calls still open count as timed out, and their threads are not joined.
LeaveOpen == GiveUp({h \in Hosts : call[h] = "open"}, "timedout")

\* The container dies and stays down (restart: "no").
Die(h) ==
    /\ up[h] /\ deaths < MaxDeaths
    /\ up' = [up EXCEPT ![h] = FALSE]
    /\ deaths' = deaths + 1
    /\ transit' = [transit EXCEPT ![h] = {}]
    /\ line' = [line EXCEPT ![h] = <<>>]
    /\ begun' = [begun EXCEPT ![h] = FALSE]
    /\ leak' = [leak EXCEPT ![h] = FALSE]
    /\ data' = [data EXCEPT ![h] = Unloaded]
    /\ UNCHANGED call

PoolStep ==
    \E h \in Hosts :
        \/ Arrive(h) \/ Begin(h) \/ Handle(h) \/ Drop(h) \/ Die(h)
        \/ Abandon(h, "timedout") \/ Abandon(h, "broken")
=============================================================================
