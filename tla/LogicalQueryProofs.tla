-------------------------- MODULE LogicalQueryProofs ---------------------------
(***************************************************************************)
(* Theorems about LogicalQuery, for every set of participants, every       *)
(* timeout and every set of queries.                                       *)
(*                                                                         *)
(* Shared says what the pool threads share with the coordinator: a row     *)
(* exactly when the thread is done, an answer exactly when one was         *)
(* received.  Rows says what the rows the coordinator took are worth:      *)
(* those it did not see are timeouts, and it stopped looking only when its *)
(* time was over.                                                          *)
(***************************************************************************)
EXTENDS LogicalQuery, TLAPS

Early == {"start", "submitting", "waiting"}
Judged == {"merging", "merged", "finished", "raised"}

Shared ==
    /\ \A h \in Hosts : row[h] # NoRow <=> thread[h] = "done"
    /\ \A h \in Hosts : answer[h] # None <=> thread[h] = "received" \/ row[h] = "completed"
    /\ pc = "start" => \A h \in Hosts : thread[h] = "unsubmitted"

Rows ==
    /\ pc \in Early => \A h \in Hosts : physical[h] = NoRow
    /\ pc \notin Early => \A h \in Hosts :
          IF h \in pending THEN physical[h] \in {NoRow, "query_timeout"}
                           ELSE physical[h] = row[h] /\ row[h] # NoRow
    /\ pc \notin {"start", "submitting"} =>
          waitUntil >= deadline /\ \A h \in Hosts : thread[h] # "unsubmitted"
    /\ pc \notin Early /\ pending # {} => clock >= deadline

Outcome ==
    /\ pc \notin Judged => status = "open" /\ result = None
    /\ pc \in Judged =>
          /\ status # "open"
          /\ \A h \in Hosts : physical[h] # NoRow
          /\ status = "completed" => \A h \in Hosts : physical[h] = "completed"
          /\ (\E h \in Hosts : physical[h] = "query_timeout") => status = "query_timeout"
    /\ pc \in {"merging", "merged", "raised"} => status = "completed"
    /\ pc = "merged" \/ (pc = "finished" /\ status = "completed") => result = MergeAnswers(query, answer)
    /\ pc = "merging" => result = None

Inv == TypeOK /\ Shared /\ Rows /\ Outcome

-----------------------------------------------------------------------------
LEMMA Initially == Init => Inv
BY QueryAssumption DEF Init, Inv, TypeOK, Shared, Rows, Outcome, Early, Judged, NoRow

\* The merge of answers is a result.
LEMMA MergeType ==
    ASSUME NEW q, NEW given, \A h \in Hosts : given[h] \in Answers
    PROVE  MergeAnswers(q, given) \in Results
<1>1. CASE q.merge = "boolean_or"
      BY <1>1 DEF MergeAnswers, Results
<1>2. CASE q.merge # "boolean_or"
  <2>1. UNION {given[h].keys : h \in Hosts} \in SUBSET Keys
        BY DEF Answers
  <2> QED BY <1>2, <2>1 DEF MergeAnswers, Results
<1> QED BY <1>1, <1>2

\* The merge looks at the answers only.
LEMMA MergeSame ==
    ASSUME NEW q, NEW f, NEW g, \A h \in Hosts : f[h] = g[h]
    PROVE  MergeAnswers(q, f) = MergeAnswers(q, g)
<1>1. \A h \in Hosts : f[h].keys = g[h].keys /\ f[h].ask = g[h].ask
      OBVIOUS
<1>2. {f[h].keys : h \in Hosts} = {g[h].keys : h \in Hosts}
      BY <1>1
<1>3. (\E h \in Hosts : f[h].ask) <=> (\E h \in Hosts : g[h].ask)
      BY <1>1
<1> QED BY <1>2, <1>3 DEF MergeAnswers

-----------------------------------------------------------------------------
(***************************************************************************)
(* A thread moves: the coordinator's variables stay, and a thread whose    *)
(* row was taken is done and moves no more.                                *)
(***************************************************************************)
LEMMA ThreadStep ==
    ASSUME Inv, NEW h \in Hosts, Thread(h)
    PROVE  Inv'
<1> USE QueryAssumption DEF NoRow
<1>1. /\ UNCHANGED <<clock, query, pc, deadline, waitUntil, physical, pending, status, result>>
      /\ thread[h] \in {"submitted", "budgeted", "requesting", "received"}
      BY DEF Thread, Dispatch, Request, Receive, Deliver, Expire, Fail, resultVars
<1>2. \A g \in Hosts \ {h} : thread'[g] = thread[g] /\ row'[g] = row[g] /\ answer'[g] = answer[g]
      BY DEF Thread, Dispatch, Request, Receive, Deliver, Expire, Fail, Finish, Inv, TypeOK
<1>3. TypeOK'
  <2>1. CASE Dispatch(h)
    <3>1. RequestTimeout(deadline - clock) \in Nat \/ deadline - clock <= 0
          BY DEF Inv, TypeOK, RequestTimeout, Lesser
    <3> QED BY <1>1, <2>1, <3>1 DEF Dispatch, Finish, Inv, TypeOK, Statuses
  <2>2. CASE Request(h) \/ Receive(h)
        BY <1>1, <2>2 DEF Request, Receive, Inv, TypeOK
  <2>3. CASE Deliver(h) \/ Expire(h) \/ Fail(h)
        BY <1>1, <2>3 DEF Deliver, Expire, Fail, Finish, Inv, TypeOK, Statuses
  <2> QED BY <2>1, <2>2, <2>3 DEF Thread
<1>4. Shared'
  <2>1. pc # "start"
        BY <1>1 DEF Inv, Shared
  <2>2. row[h] = NoRow
        BY <1>1 DEF Inv, Shared
  <2>3. row'[h] # NoRow <=> thread'[h] = "done"
        BY <1>1, <2>2 DEF Thread, Dispatch, Request, Receive, Deliver, Expire, Fail, Finish, Inv, TypeOK
  <2>4. answer'[h] # None <=> thread'[h] = "received" \/ row'[h] = "completed"
    <3>1. CASE Receive(h)
          BY <3>1, NoneAssumption DEF Receive, Inv, TypeOK
    <3>2. CASE Dispatch(h) \/ Request(h) \/ Deliver(h) \/ Expire(h) \/ Fail(h)
          BY <2>2, <3>2 DEF Dispatch, Request, Deliver, Expire, Fail, Finish, Inv, TypeOK, Shared
    <3> QED BY <3>1, <3>2 DEF Thread
  <2> QED BY <1>1, <1>2, <2>1, <2>3, <2>4 DEF Inv, Shared
<1>5. pc \notin Early => h \in pending
      BY <1>1 DEF Inv, Shared, Rows
<1>6. Rows'
  <2>1. thread'[h] # "unsubmitted"
        BY <1>1 DEF Thread, Dispatch, Request, Receive, Deliver, Expire, Fail, Finish, Inv, TypeOK
  <2> QED BY <1>1, <1>2, <1>5, <2>1 DEF Inv, Rows
<1>7. Outcome'
  <2>1. pc = "merged" \/ (pc = "finished" /\ status = "completed") =>
           \A g \in Hosts : physical[g] = "completed"
        BY DEF Inv, Outcome, Judged
  <2>2. pc \in Judged => physical[h] = "query_timeout"
        BY <1>5 DEF Inv, Rows, Outcome, Judged, Early
  <2>3. ~(pc = "merged" \/ (pc = "finished" /\ status = "completed"))
        BY <2>1, <2>2 DEF Judged
  <2> QED BY <1>1, <2>3 DEF Inv, Outcome
<1> QED BY <1>3, <1>4, <1>6, <1>7 DEF Inv

LEMMA CoordinatorStep ==
    ASSUME Inv, Coordinator
    PROVE  Inv'
<1> USE QueryAssumption DEF NoRow, Early, Judged, threadVars, resultVars
<1>1. CASE Begin
      BY <1>1 DEF Begin, Inv, TypeOK, Shared, Rows, Outcome
<1>2. ASSUME NEW h \in Hosts, Submit(h)
      PROVE  Inv'
  <2>1. \A g \in Hosts : thread'[g] = IF g = h THEN "submitted" ELSE thread[g]
        BY <1>2 DEF Submit, Inv, TypeOK
  <2>2. TypeOK'
        BY <1>2 DEF Submit, Inv, TypeOK
  <2>3. Shared'
        BY <1>2, <2>1 DEF Submit, Inv, Shared
  <2>4. Rows' /\ Outcome'
        BY <1>2 DEF Submit, Inv, Rows, Outcome
  <2> QED BY <2>2, <2>3, <2>4 DEF Inv
<1>3. CASE Wait
      BY <1>3 DEF Wait, Greater, Inv, TypeOK, Shared, Rows, Outcome
<1>4. CASE Collect
  <2>1. \A h \in Hosts : physical'[h] = row[h]
        BY <1>4 DEF Collect
  <2>2. TypeOK'
        BY <1>4 DEF Collect, Done, Inv, TypeOK
  <2>3. Shared' /\ Outcome'
        BY <1>4 DEF Collect, Inv, Shared, Outcome
  <2>4. pending' # {} => clock >= deadline
        BY <1>4 DEF Collect, WaitOver, Inv, Rows, TypeOK
  <2>5. Rows'
        BY <1>4, <2>1, <2>4 DEF Collect, Done, Inv, Rows
  <2> QED BY <2>2, <2>3, <2>5 DEF Inv
<1>5. ASSUME NEW h \in Hosts, Cancel(h)
      PROVE  Inv'
  <2>1. \A g \in Hosts : physical'[g] = IF g = h THEN "query_timeout" ELSE physical[g]
        BY <1>5 DEF Cancel, Inv, TypeOK
  <2>2. \A g \in Hosts : thread'[g] = IF g = h /\ thread[h] = "submitted" THEN "cancelled" ELSE thread[g]
        BY <1>5 DEF Cancel, Inv, TypeOK
  <2>3. TypeOK'
        BY <1>5 DEF Cancel, Inv, TypeOK, Statuses
  <2>4. Shared'
        BY <1>5, <2>2 DEF Cancel, Inv, Shared
  <2>5. Rows'
        BY <1>5, <2>1, <2>2 DEF Cancel, Inv, Rows
  <2>6. Outcome'
        BY <1>5 DEF Cancel, Inv, Outcome
  <2> QED BY <2>3, <2>4, <2>5, <2>6 DEF Inv
<1>6. CASE Judge
  <2>1. \A h \in Hosts : physical[h] \in Statuses
        BY <1>6 DEF Judge, Inv, TypeOK
  <2>2. /\ status' \in Statuses
        /\ status' = "completed" => \A h \in Hosts : physical[h] = "completed"
        /\ (\E h \in Hosts : physical[h] = "query_timeout") => status' = "query_timeout"
        BY <1>6, <2>1 DEF Judge, Verdict, Statuses
  <2>3. TypeOK'
        BY <1>6, <2>2 DEF Judge, Inv, TypeOK
  <2>4. Shared' /\ Rows'
        BY <1>6 DEF Judge, Inv, Shared, Rows
  <2>5. Outcome'
        BY <1>6, <2>2 DEF Judge, Inv, Outcome, Statuses
  <2> QED BY <2>3, <2>4, <2>5 DEF Inv
<1>7. CASE Merge
  <2>1. \A h \in Hosts : answer[h] \in Answers
    <3> SUFFICES ASSUME NEW h \in Hosts
                 PROVE  answer[h] \in Answers
        OBVIOUS
    <3>1. physical[h] = "completed" /\ h \notin pending
          BY <1>7 DEF Merge, Inv, Rows, Outcome
    <3>2. row[h] = "completed"
          BY <1>7, <3>1 DEF Merge, Inv, Rows
    <3> QED BY <3>2 DEF Inv, TypeOK, Shared
  <2>2. MergeAnswers(query, answer) \in Results
        BY <2>1, MergeType
  <2>3. TypeOK'
        BY <1>7, <2>2 DEF Merge, Inv, TypeOK
  <2>4. Shared' /\ Rows'
        BY <1>7 DEF Merge, Inv, Shared, Rows
  <2>5. Outcome'
        BY <1>7 DEF Merge, Inv, Outcome
  <2> QED BY <2>3, <2>4, <2>5 DEF Inv
<1>8. CASE Check
  <2>1. TypeOK'
        BY <1>8 DEF Check, Inv, TypeOK, Statuses
  <2>2. Shared' /\ Rows'
        BY <1>8 DEF Check, Inv, Shared, Rows
  <2>3. Outcome'
        BY <1>8 DEF Check, Inv, Outcome
  <2> QED BY <2>1, <2>2, <2>3 DEF Inv
<1> QED BY <1>1, <1>2, <1>3, <1>4, <1>5, <1>6, <1>7, <1>8 DEF Coordinator

LEMMA Inductive == Inv /\ [Next]_vars => Inv'
<1> SUFFICES ASSUME Inv, [Next]_vars
             PROVE  Inv'
    OBVIOUS
<1>1. CASE Tick
      BY <1>1 DEF Tick, threadVars, resultVars, Inv, TypeOK, Shared, Rows, Outcome
<1>2. CASE UNCHANGED vars
      BY <1>2 DEF vars, threadVars, resultVars, Inv, TypeOK, Shared, Rows, Outcome
<1> QED BY <1>1, <1>2, ThreadStep, CoordinatorStep DEF Next

LEMMA Invariant == Spec => []Inv
BY Initially, Inductive, PTL DEF Spec

\* Every variable keeps its type.
THEOREM TypeCorrect == Spec => []TypeOK
<1>1. Inv => TypeOK
      BY DEF Inv
<1> QED BY <1>1, Invariant, PTL

\* What a finished query leaves behind is reported as a timeout, the status
\* that makes the runner look at the workers again.
THEOREM LeftoversReported == Spec => []LeftoversAreTimeouts
<1>1. ASSUME Inv, pc = "finished", NEW h \in Hosts, Unfinished(h)
      PROVE  status = "query_timeout"
  <2>1. CASE h \in pending
        BY <1>1, <2>1 DEF Inv, Rows, Outcome, Early, Judged
  <2>2. CASE h \notin pending
    <3>1. physical[h] = row[h] /\ row[h] # NoRow
          BY <1>1, <2>2 DEF Inv, Rows, Early
    <3>2. row[h] = "query_timeout"
          BY <1>1, <3>1 DEF Inv, Shared, Unfinished
    <3> QED BY <1>1, <3>1, <3>2 DEF Inv, Outcome, Judged
  <2> QED BY <2>1, <2>2
<1>2. Inv => LeftoversAreTimeouts
      BY <1>1 DEF LeftoversAreTimeouts
<1> QED BY <1>2, Invariant, PTL

-----------------------------------------------------------------------------
(***************************************************************************)
(* The refinement.  Receiving an answer is Give; the verdict falls when    *)
(* Judge or Check finishes the query; all else is time or a stutter.       *)
(***************************************************************************)
LEMMA RefinesInit == Init => Promise!Init
BY DEF Init, Promise!Init

LEMMA ThreadRefines ==
    ASSUME Inv, NEW h \in Hosts, Thread(h)
    PROVE  [Promise!Next]_(Promise!vars)
<1>1. UNCHANGED <<clock, query, pc, deadline, status, result>>
      BY DEF Thread, Dispatch, Request, Receive, Deliver, Expire, Fail, resultVars
<1>2. CASE Receive(h)
  <2>1. answer[h] = None
        BY <1>2 DEF Receive, Inv, Shared, NoRow
  <2>2. Promise!Give(h)
        BY <1>1, <1>2, <2>1 DEF Receive, Promise!Give
  <2> QED BY <2>2 DEF Promise!Next
<1>3. CASE Dispatch(h) \/ Request(h) \/ Deliver(h) \/ Expire(h) \/ Fail(h)
      BY <1>1, <1>3 DEF Dispatch, Request, Deliver, Expire, Fail, Promise!vars
<1> QED BY <1>2, <1>3 DEF Thread

LEMMA CoordinatorRefines ==
    ASSUME Inv, Coordinator
    PROVE  [Promise!Next]_(Promise!vars)
<1> USE DEF Early, Judged, NoRow
<1>1. answer' = answer /\ query' = query /\ clock' = clock
      BY DEF Coordinator, Begin, Submit, Wait, Collect, Cancel, Judge, Merge, Check, threadVars
<1>2. CASE Begin
      BY <1>1, <1>2, QueryAssumption DEF Begin, resultVars, Promise!vars, Inv, TypeOK
<1>3. ASSUME NEW h \in Hosts, Submit(h) \/ Cancel(h)
      PROVE  UNCHANGED Promise!vars
      BY <1>1, <1>3 DEF Submit, Cancel, resultVars, Promise!vars
<1>4. CASE Wait \/ Collect
      BY <1>1, <1>4 DEF Wait, Collect, resultVars, Promise!vars
<1>5. CASE Judge
  <2>1. CASE status' = "completed"
        BY <1>1, <1>5, <2>1 DEF Judge, Promise!vars
  <2>2. CASE status' = "query_timeout"
    <3>1. PICK h \in Hosts : physical[h] = "query_timeout"
          BY <1>5, <2>2 DEF Judge, Verdict
    <3>2. Promise!Complete => deadline - clock <= 0
      <4> SUFFICES ASSUME answer[h] # None
                   PROVE  deadline - clock <= 0
          BY DEF Promise!Complete
      <4>1. h \in pending
            BY <1>5, <3>1 DEF Judge, Inv, Shared, Rows
      <4> QED BY <1>5, <4>1 DEF Judge, Inv, Rows, TypeOK
    <3>3. pc = "cancelling" /\ pc' = "finished" /\ UNCHANGED <<deadline, result>>
          BY <1>5, <2>2 DEF Judge
    <3>4. Promise!TimeOut
          BY <1>1, <2>2, <3>2, <3>3 DEF Promise!TimeOut, Promise!Open
    <3> QED BY <3>4 DEF Promise!Next
  <2>3. CASE status' = "failed"
    <3>1. \E h \in Hosts : physical[h] \notin {"completed", "query_timeout"}
          BY <1>5, <2>3, QueryAssumption DEF Judge, Verdict
    <3>2. ~Promise!Complete
          BY <1>5, <3>1 DEF Judge, Inv, Shared, Rows, Promise!Complete
    <3>3. pc = "cancelling" /\ pc' = "finished" /\ UNCHANGED <<deadline, result>>
          BY <1>5, <2>3 DEF Judge
    <3>4. Promise!Fail
          BY <1>1, <2>3, <3>2, <3>3 DEF Promise!Fail, Promise!Open
    <3> QED BY <3>4 DEF Promise!Next
  <2> QED BY <1>5, <2>1, <2>2, <2>3 DEF Judge, Verdict
<1>6. CASE Merge
      BY <1>1, <1>6 DEF Merge, Promise!vars
<1>7. CASE Check
  <2>1. pc = "merged" /\ pc' = "finished" /\ deadline' = deadline /\ status = "completed"
        BY <1>7 DEF Check, Inv, Outcome
  <2>2. CASE Expired
    <3>1. status' = "query_timeout" /\ deadline - clock <= 0
          BY <1>7, <2>2 DEF Check, Expired, Inv, TypeOK
    <3>2. Promise!TimeOut
          BY <1>1, <2>1, <3>1 DEF Promise!TimeOut, Promise!Open
    <3> QED BY <3>2 DEF Promise!Next
  <2>3. CASE ~Expired
    <3>1. UNCHANGED <<status, result>> /\ deadline - clock >= 0
          BY <1>7, <2>3 DEF Check, Expired, Inv, TypeOK
    <3>2. Promise!Complete
      <4> SUFFICES ASSUME NEW h \in Hosts
                   PROVE  answer[h] # None
          BY DEF Promise!Complete
      <4>1. physical[h] = "completed"
            BY <2>1 DEF Inv, Outcome
      <4>2. row[h] = "completed"
            BY <2>1, <4>1 DEF Inv, Rows
      <4> QED BY <4>2 DEF Inv, Shared
    <3>3. result = MergeAnswers(query, answer)
          BY <2>1 DEF Inv, Outcome
    <3>4. Promise!Succeed
          BY <1>1, <2>1, <3>1, <3>2, <3>3 DEF Promise!Succeed, Promise!Open
    <3> QED BY <3>4 DEF Promise!Next
  <2> QED BY <2>2, <2>3
<1> QED BY <1>2, <1>3, <1>4, <1>5, <1>6, <1>7 DEF Coordinator

LEMMA StepRefines == Inv /\ [Next]_vars => [Promise!Next]_(Promise!vars)
<1> SUFFICES ASSUME Inv, [Next]_vars
             PROVE  [Promise!Next]_(Promise!vars)
    OBVIOUS
<1>1. CASE Tick
  <2>1. Promise!Pass
        BY <1>1 DEF Tick, threadVars, resultVars, Promise!Pass, Inv, TypeOK
  <2> QED BY <2>1 DEF Promise!Next
<1>2. CASE UNCHANGED vars
      BY <1>2 DEF vars, threadVars, resultVars, Promise!vars
<1> QED BY <1>1, <1>2, ThreadRefines, CoordinatorRefines DEF Next

\* A logical query publishes the merge of everybody's answers, in time, or
\* no result: whatever the threads and workers do.
THEOREM Implements == Spec => ImplementsPromise
<1>1. Inv /\ [Next]_vars => [Promise!Next]_(Promise!vars)
      BY StepRefines
<1> QED BY RefinesInit, <1>1, Invariant, PTL DEF Spec, ImplementsPromise, Promise!Spec
=============================================================================
