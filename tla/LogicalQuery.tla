----------------------------- MODULE LogicalQuery ------------------------------
(***************************************************************************)
(* One logical query (query_execution.py): the coordinator thread fans it  *)
(* out to its participants through a thread pool, waits for all of them at *)
(* most until the logical deadline, and merges.  A pool thread makes one   *)
(* HTTP request (protocol.py) and leaves a row in its future; it is never  *)
(* joined, so it may outlive execute_logical_query.                        *)
(*                                                                         *)
(* As in module Scheduler the clock advances on its own, but here threads  *)
(* read it concurrently, so that it may advance between any two steps.     *)
(***************************************************************************)
EXTENDS Integers, FiniteSets

CONSTANTS
    Hosts,            \* the participants: select_hosts(...)
    Queries,          \* records of merge_strategy and kind
    Keys,             \* result keys
    None,             \* no answer, no result
    LogicalTimeout, PhysicalTimeout,
    MaxTime           \* bound of the model: the clock stops there, or when
                      \* the last request sent until then expires

ASSUME QueryAssumption ==
    /\ Hosts # {} /\ IsFiniteSet(Hosts)
    /\ \A q \in Queries : q.merge \in STRING /\ q.kind \in STRING
    /\ LogicalTimeout \in Nat \ {0} /\ PhysicalTimeout \in Nat \ {0}
    /\ MaxTime \in Nat

Answers == [keys : SUBSET Keys, ask : BOOLEAN]

Results == [ask : BOOLEAN] \cup [keys : SUBSET Keys]

ASSUME NoneAssumption == None \notin Answers \cup Results

VARIABLES
    clock,
    query,      \* the logical query
    pc,         \* where the coordinator is
    deadline,   \* logical_started + logical_timeout
    waitUntil,  \* when wait() gives up
    thread,     \* where the future of each participant is
    timer,      \* effective_timeout of a thread, then when its request times out
    answer,     \* the outcome each worker returned
    row,        \* status of the row each future holds
    physical,   \* status of the row collected for each participant
    pending,    \* pending_hosts
    status,     \* status of the logical query
    result      \* what result_count and result_digest are computed from

threadVars == <<thread, timer, answer, row>>
resultVars == <<physical, pending, status, result>>
vars == <<clock, query, pc, deadline, waitUntil, threadVars, resultVars>>

-----------------------------------------------------------------------------
Lesser(a, b) == IF a <= b THEN a ELSE b
Greater(a, b) == IF a <= b THEN b ELSE a

NoRow == "none"

Init ==
    /\ clock = 0
    /\ query \in Queries
    /\ pc = "start"
    /\ deadline = 0 /\ waitUntil = 0
    /\ thread = [h \in Hosts |-> "unsubmitted"]
    /\ timer = [h \in Hosts |-> 0]
    /\ answer = [h \in Hosts |-> None]
    /\ row = [h \in Hosts |-> NoRow]
    /\ physical = [h \in Hosts |-> NoRow]
    /\ pending = {}
    /\ status = "open"
    /\ result = None

Tick ==
    /\ pc # "start"
    /\ clock < MaxTime \/ \E h \in Hosts : thread[h] = "requesting" /\ clock < timer[h]
    /\ clock' = clock + 1
    /\ UNCHANGED <<query, pc, deadline, waitUntil, threadVars, resultVars>>

-----------------------------------------------------------------------------
(***************************************************************************)
(* _physical_query, in a pool thread, and request_json.                    *)
(***************************************************************************)
Finish(h, s) ==
    /\ thread' = [thread EXCEPT ![h] = "done"]
    /\ row' = [row EXCEPT ![h] = s]
    /\ timer' = [timer EXCEPT ![h] = 0]

\* effective_timeout
RequestTimeout(remaining) == Lesser(PhysicalTimeout, remaining)

\* The thread computes its budget, unless the deadline has already passed.
Dispatch(h) ==
    /\ thread[h] = "submitted"
    /\ LET remaining == deadline - clock
       IN IF remaining <= 0
          THEN Finish(h, "query_timeout")
          ELSE /\ timer' = [timer EXCEPT ![h] = RequestTimeout(remaining)]
               /\ thread' = [thread EXCEPT ![h] = "budgeted"]
               /\ UNCHANGED row
    /\ UNCHANGED <<clock, query, pc, deadline, waitUntil, answer, resultVars>>

\* request_json makes a deadline of the budget, with a clock reading of its own.
Request(h) ==
    /\ thread[h] = "budgeted"
    /\ timer' = [timer EXCEPT ![h] = clock + timer[h]]
    /\ thread' = [thread EXCEPT ![h] = "requesting"]
    /\ UNCHANGED <<clock, query, pc, deadline, waitUntil, answer, row, resultVars>>

\* The last byte of the response arrives before the request's own deadline.
Receive(h) ==
    /\ thread[h] = "requesting"
    /\ clock < timer[h]
    /\ \E a \in Answers : answer' = [answer EXCEPT ![h] = a]
    /\ thread' = [thread EXCEPT ![h] = "received"]
    /\ timer' = [timer EXCEPT ![h] = 0]
    /\ UNCHANGED <<clock, query, pc, deadline, waitUntil, row, resultVars>>

\* The row of a received response; by then any time may have passed.
Deliver(h) ==
    /\ thread[h] = "received"
    /\ Finish(h, "completed")
    /\ UNCHANGED <<clock, query, pc, deadline, waitUntil, answer, resultVars>>

\* Mutant: the request is made without a timeout.
ExpireNever(h) == FALSE

Expire(h) ==
    /\ thread[h] = "requesting"
    /\ clock >= timer[h]
    /\ Finish(h, "query_timeout")
    /\ UNCHANGED <<clock, query, pc, deadline, waitUntil, answer, resultVars>>

\* Connection refused or lost, an HTTP error, a response without an outcome.
Fail(h) ==
    /\ thread[h] = "requesting"
    /\ Finish(h, "failed")
    /\ UNCHANGED <<clock, query, pc, deadline, waitUntil, answer, resultVars>>

-----------------------------------------------------------------------------
(***************************************************************************)
(* execute_logical_query, in the coordinator thread.                       *)
(***************************************************************************)
Begin ==
    /\ pc = "start"
    /\ pc' = "submitting"
    /\ deadline' = clock + LogicalTimeout
    /\ UNCHANGED <<clock, query, waitUntil, threadVars, resultVars>>

Submit(h) ==
    /\ pc = "submitting" /\ thread[h] = "unsubmitted"
    /\ thread' = [thread EXCEPT ![h] = "submitted"]
    /\ UNCHANGED <<clock, query, pc, deadline, waitUntil, timer, answer, row, resultVars>>

Wait ==
    /\ pc = "submitting"
    /\ \A h \in Hosts : thread[h] # "unsubmitted"
    /\ pc' = "waiting"
    /\ waitUntil' = Greater(clock, deadline)
    /\ UNCHANGED <<clock, query, deadline, threadVars, resultVars>>

Done == {h \in Hosts : row[h] # NoRow}

\* Mutant: wait() without a timeout.
WaitOverForAll == Done = Hosts

WaitOver == Done = Hosts \/ clock >= waitUntil

\* wait() returns done and pending; the rows of the done futures are taken.
Collect ==
    /\ pc = "waiting"
    /\ WaitOver
    /\ physical' = [h \in Hosts |-> row[h]]
    /\ pending' = Hosts \ Done
    /\ pc' = "cancelling"
    /\ UNCHANGED <<clock, query, deadline, waitUntil, threadVars, status, result>>

\* A pending future gets a timeout row; cancel() has an effect only if no
\* thread has taken it up.
Cancel(h) ==
    /\ pc = "cancelling"
    /\ h \in pending /\ physical[h] = NoRow
    /\ physical' = [physical EXCEPT ![h] = "query_timeout"]
    /\ thread' = [thread EXCEPT ![h] = IF @ = "submitted" THEN "cancelled" ELSE @]
    /\ UNCHANGED <<clock, query, pc, deadline, waitUntil, timer, answer, row, pending, status, result>>

\* Mutant: a failed participant outweighs one that timed out.
VerdictFailFirst(rows) ==
    IF "failed" \in rows THEN "failed"
    ELSE IF "query_timeout" \in rows THEN "query_timeout" ELSE "completed"

Verdict(rows) ==
    IF rows = {"completed"} THEN "completed"
    ELSE IF "query_timeout" \in rows THEN "query_timeout" ELSE "failed"

Judge ==
    /\ pc = "cancelling"
    /\ \A h \in Hosts : physical[h] # NoRow
    /\ status' = Verdict({physical[h] : h \in Hosts})
    /\ pc' = IF status' = "completed" THEN "merging" ELSE "finished"
    /\ UNCHANGED <<clock, query, deadline, waitUntil, threadVars, physical, pending, result>>

\* The strategies the merge refuses; the exception leaves the function.
Unmergeable ==
    \/ query.merge = "single" /\ Cardinality(Hosts) # 1
    \/ query.merge = "boolean_or" /\ query.kind # "ask"
    \/ query.merge \notin {"single", "set_union", "boolean_or"}

MergeAnswers(q, given) ==
    IF q.merge = "boolean_or" THEN [ask |-> \E h \in Hosts : given[h].ask]
                            ELSE [keys |-> UNION {given[h].keys : h \in Hosts}]

Merge ==
    /\ pc = "merging"
    /\ IF Unmergeable
       THEN pc' = "raised" /\ UNCHANGED result
       ELSE pc' = "merged" /\ result' = MergeAnswers(query, answer)
    /\ UNCHANGED <<clock, query, deadline, waitUntil, threadVars, physical, pending, status>>

\* Mutant: the deadline is not looked at after the merge.
ExpiredNever == FALSE

Expired == clock > deadline

\* A merge finished after the deadline is void.
Check ==
    /\ pc = "merged"
    /\ IF Expired
       THEN status' = "query_timeout" /\ result' = None
       ELSE UNCHANGED <<status, result>>
    /\ pc' = "finished"
    /\ UNCHANGED <<clock, query, deadline, waitUntil, threadVars, physical, pending>>

-----------------------------------------------------------------------------
Coordinator ==
    \/ Begin \/ Wait \/ Collect \/ Judge \/ Merge \/ Check
    \/ \E h \in Hosts : Submit(h) \/ Cancel(h)

Thread(h) == Dispatch(h) \/ Request(h) \/ Receive(h) \/ Deliver(h) \/ Expire(h) \/ Fail(h)

Next == Tick \/ Coordinator \/ \E h \in Hosts : Thread(h)

Spec == Init /\ [][Next]_vars

\* Time passes and the coordinator is scheduled; workers owe nothing.
FairSpec == Spec /\ WF_vars(Tick) /\ WF_vars(Coordinator)

\* The pool threads are scheduled; neither an answer nor an error is owed to
\* them, so that only the timeout of a request is certain to end it.
ThreadsScheduled == \A h \in Hosts : WF_vars(Dispatch(h) \/ Request(h) \/ Deliver(h) \/ Expire(h))

-----------------------------------------------------------------------------
(***************************************************************************)
(* Properties                                                              *)
(***************************************************************************)
Statuses == {"completed", "query_timeout", "failed"}

TypeOK ==
    /\ clock \in Nat
    /\ query \in Queries
    /\ pc \in {"start", "submitting", "waiting", "cancelling", "merging", "merged", "finished", "raised"}
    /\ deadline \in Nat /\ waitUntil \in Nat
    /\ thread \in [Hosts -> {"unsubmitted", "submitted", "budgeted", "requesting", "received", "done", "cancelled"}]
    /\ timer \in [Hosts -> Nat]
    /\ answer \in [Hosts -> Answers \cup {None}]
    /\ row \in [Hosts -> Statuses \cup {NoRow}]
    /\ physical \in [Hosts -> Statuses \cup {NoRow}]
    /\ pending \subseteq Hosts
    /\ status \in Statuses \cup {"open"}
    /\ result \in Results \cup {None}

\* Work may go on for the query, on a worker or in a pool thread, or has yet to
\* be sent to one.
Unfinished(h) ==
    \/ thread[h] \in {"submitted", "budgeted", "requesting", "received"}
    \/ row[h] = "query_timeout"

\* Workers are checked for idleness only after "query_timeout"
\* (experiment.py:236): a query that leaves a request behind, in a pool thread
\* or given up by its client, is reported so, whatever other participants did.
LeftoversAreTimeouts ==
    pc = "finished" /\ (\E h \in Hosts : Unfinished(h)) => status = "query_timeout"

\* execute_logical_query returns whether or not any worker ever answers.
Returns == <>(pc \in {"finished", "raised"})

\* No pool thread that is scheduled stays behind for ever.
ThreadsEnd ==
    ThreadsScheduled => \A h \in Hosts : thread[h] = "submitted" ~> thread[h] \in {"done", "cancelled"}

\* Fan-out, deadlines and merge implement the all-or-nothing promise: what is
\* published is the merge of everybody's answer, in time, or no result at all.
Promise == INSTANCE AllOrNothing WITH
    NoAnswer <- None,
    Merge   <- MergeAnswers,
    given   <- answer,
    Time    <- LogicalTimeout,
    left    <- IF pc = "start" THEN LogicalTimeout ELSE deadline - clock,
    verdict <- IF pc # "finished" THEN [status |-> "open"]
               ELSE IF status = "completed" THEN [status |-> status, result |-> result]
               ELSE [status |-> status]

ImplementsPromise == Promise!Spec
=============================================================================
