----------------------------- MODULE WorkerProofs ------------------------------
(***************************************************************************)
(* Proofs about Worker, for every set of requests and health probes, every *)
(* number of threads and every number of deaths of the process.            *)
(***************************************************************************)
EXTENDS Worker, FiniteSetTheorems, TLAPS

\* The one permit is in the semaphore or with one handler, and the wait list
\* holds exactly the handlers that are queued, each once.
Permit ==
    /\ \A r, s \in Requests : stage[r] \in Owning /\ stage[s] \in Owning => r = s
    /\ free <=> \A r \in Requests : stage[r] \notin Owning
    /\ free => queue = <<>>

WaitList ==
    /\ \A i \in 1 .. Len(queue) : stage[queue[i]] = "queued"
    /\ \A i, j \in 1 .. Len(queue) : queue[i] = queue[j] => i = j
    /\ \A r \in Requests : stage[r] = "queued" => \E i \in 1 .. Len(queue) : queue[i] = r

LEMMA WithoutType ==
    ASSUME NEW S, NEW q \in Seq(S), NEW i \in 1 .. Len(q)
    PROVE  /\ Without(q, i) \in Seq(S)
           /\ Len(Without(q, i)) = Len(q) - 1
           /\ \A j \in 1 .. Len(q) - 1 : Without(q, i)[j] = IF j < i THEN q[j] ELSE q[j + 1]
<1>1. Len(q) - 1 \in Nat
      OBVIOUS
<1>2. \A j \in 1 .. Len(q) - 1 : (IF j < i THEN q[j] ELSE q[j + 1]) \in S
      OBVIOUS
<1>3. Without(q, i) \in [1 .. Len(q) - 1 -> S]
      BY <1>2 DEF Without
<1> QED BY <1>1, <1>3 DEF Without

LEMMA StageNames ==
    {"unsent", "sent", "arrived", "queued", "woken", "permitted", "admitted", "holding", "executing",
     "leaving", "releasing", "replied", "dropped", "lost"} = Stages
BY DEF Stages, Outside, Inside, Announced, Owning, Ended

LEMMA GotoType ==
    ASSUME TypeOK, NEW r \in Requests, NEW s \in Stages, Goto(r, s)
    PROVE  stage' \in [Requests -> Stages]
BY DEF TypeOK, Goto

LEMMA HandOverType ==
    ASSUME TypeOK, NEW r \in Requests, NEW s \in Stages, HandOver(r, s)
    PROVE  stage' \in [Requests -> Stages] /\ queue' \in Seq(Requests) /\ free' \in BOOLEAN
<1>1. CASE queue = <<>>
      BY <1>1, GotoType DEF HandOver, TypeOK
<1>2. CASE queue # <<>>
  <2>1. queue' = Tail(queue) /\ free' = free /\ stage' = [stage EXCEPT ![r] = s, ![Head(queue)] = "woken"]
        BY <1>2 DEF HandOver
  <2>2. "woken" \in Stages /\ stage \in [Requests -> Stages] /\ queue \in Seq(Requests) /\ free \in BOOLEAN
        BY StageNames DEF TypeOK
  <2>3. stage' \in [Requests -> Stages]
        BY <2>1, <2>2
  <2>4. queue' \in Seq(Requests)
        BY <1>2, <2>1, <2>2
  <2> QED BY <2>1, <2>2, <2>3, <2>4
<1> QED BY <1>1, <1>2

LEMMA RespondType ==
    ASSUME TypeOK, NEW r \in Requests, NEW graph \in Datasets \cup {Unloaded},
           NEW status \in {"reset", "prepared", "rejected", "internal_error", "graph_not_loaded", "rows"},
           Respond(r, status, graph)
    PROVE  stage' \in [Requests -> Stages] /\ reply' \in [Requests -> Replies]
<1>1. [status |-> status, graph |-> graph] \in Replies
      BY DEF Replies
<1>2. stage' \in [Requests -> Stages]
      BY StageNames, GotoType DEF Respond
<1> QED BY <1>1, <1>2 DEF Respond, TypeOK

LEMMA TypeInductive == TypeOK /\ [Next]_vars => TypeOK'
<1> SUFFICES ASSUME TypeOK, [Next]_vars
             PROVE  TypeOK'
    OBVIOUS
<1> USE WorkerAssumption DEF WorkerAssumption, processVars, requestVars, permitVars, probeVars
<1> USE StageNames
<1>1. CASE Kill
  <2>1. stage' \in [Requests -> Stages]
        BY <1>1 DEF Kill, TypeOK
  <2>2. probe' \in [Probes -> {"unsent", "locked", "loaded", "answered"}]
        BY <1>1 DEF Kill, TypeOK
  <2>3. <<>> \in Seq(Requests) /\ kills + 1 \in Nat
        BY DEF TypeOK
  <2>4. /\ up' \in BOOLEAN /\ kills' \in Nat /\ queue' \in Seq(Requests) /\ free' \in BOOLEAN
        /\ waiting' \in Int /\ active' \in Int /\ data' \in Datasets \cup {Unloaded}
    <3>1. /\ up' = FALSE /\ kills' = kills + 1 /\ queue' = <<>> /\ free' = TRUE
          /\ waiting' = 0 /\ active' = 0 /\ data' = Unloaded
          BY <1>1 DEF Kill
    <3>2. up' \in BOOLEAN /\ free' \in BOOLEAN
          BY <3>1, Zenon
    <3>3. queue' \in Seq(Requests)
          BY <2>3, <3>1
    <3> QED BY <2>3, <3>1, <3>2, <3>3
  <2>5. UNCHANGED <<gone, snapshot, reply, seen>>
        BY <1>1 DEF Kill
  <2> QED BY <2>1, <2>2, <2>4, <2>5 DEF TypeOK
<1>2. CASE Boot
      BY <1>2 DEF Boot, TypeOK
<1>3. ASSUME NEW r \in Requests, NEW s \in Stages, Goto(r, s),
             UNCHANGED <<processVars, gone, snapshot, reply, queue, free, data, probeVars>>,
             waiting' \in Int, active' \in Int
      PROVE  TypeOK'
      BY <1>3, GotoType DEF TypeOK
<1>4. ASSUME NEW r \in Requests, Send(r) \/ Discard(r) \/ RefuseBody(r) \/ Resume(r)
      PROVE  TypeOK'
  <2>1. waiting' \in Int /\ active' \in Int
        BY <1>4 DEF Send, Discard, RefuseBody, Resume, TypeOK
  <2> QED BY <1>3, <1>4, <2>1 DEF Send, Discard, RefuseBody, Resume
<1>5. ASSUME NEW r \in Requests, GiveUp(r)
      PROVE  TypeOK'
      BY <1>5 DEF GiveUp, TypeOK
<1>6. ASSUME NEW r \in Requests, Arrive(r) \/ LeaveQueue(r) \/ Activate(r) \/ Deactivate(r)
      PROVE  TypeOK'
  <2>1. waiting' \in Int /\ active' \in Int
        BY <1>6 DEF Arrive, LeaveQueue, Activate, Deactivate, TypeOK
  <2> QED BY <1>3, <1>6, <2>1 DEF Arrive, LeaveQueue, Activate, Deactivate
<1>7. ASSUME NEW r \in Requests, TryPermit(r)
      PROVE  TypeOK'
  <2>1. stage' \in [Requests -> Stages]
        BY <1>7, GotoType DEF TryPermit
  <2>2. queue' \in Seq(Requests) /\ free' \in BOOLEAN
    <3>1. queue \in Seq(Requests) /\ free \in BOOLEAN /\ Append(queue, r) \in Seq(Requests)
          BY DEF TypeOK
    <3> QED BY <1>7, <3>1 DEF TryPermit
  <2> QED BY <1>7, <2>1, <2>2 DEF TryPermit, TypeOK
<1>8. ASSUME NEW r \in Requests, Release(r)
      PROVE  TypeOK'
      BY <1>8, HandOverType DEF Release, TypeOK
<1>9. ASSUME NEW r \in Requests, DropHandler(r)
      PROVE  TypeOK'
  <2>1. CASE stage[r] = "queued"
    <3>1. PICK i \in 1 .. Len(queue) : queue' = Without(queue, i)
          BY <1>9, <2>1 DEF DropHandler
    <3>2. queue' \in Seq(Requests)
          BY <3>1, WithoutType DEF TypeOK
    <3>3. stage' \in [Requests -> Stages]
          BY <1>9, <2>1, GotoType DEF DropHandler
    <3> QED BY <1>9, <2>1, <3>2, <3>3 DEF DropHandler, TypeOK
  <2>2. CASE stage[r] = "woken"
        BY <1>9, <2>2, HandOverType DEF DropHandler, TypeOK
  <2> QED BY <1>9, <2>1, <2>2 DEF DropHandler
<1>10. ASSUME NEW r \in Requests, ResetGraph(r) \/ FailPrepare(r) \/ InstallGraph(r) \/ RunQuery(r)
       PROVE  TypeOK'
  <2>1. data' \in Datasets \cup {Unloaded}
        BY <1>10 DEF ResetGraph, FailPrepare, InstallGraph, RunQuery, Acceptable, TypeOK
  <2>2. stage' \in [Requests -> Stages] /\ reply' \in [Requests -> Replies]
        BY <1>10, RespondType DEF ResetGraph, FailPrepare, InstallGraph, RunQuery, Acceptable, TypeOK
  <2> QED BY <1>10, <2>1, <2>2 DEF ResetGraph, FailPrepare, InstallGraph, RunQuery, TypeOK
<1>11. ASSUME NEW r \in Requests, ReadStore(r)
       PROVE  TypeOK'
  <2>1. CASE data = Unloaded
    <3>1. stage' \in [Requests -> Stages] /\ reply' \in [Requests -> Replies]
          BY <1>11, <2>1, RespondType DEF ReadStore, TypeOK
    <3> QED BY <1>11, <2>1, <3>1 DEF ReadStore, TypeOK
  <2>2. CASE data # Unloaded
    <3>1. stage' \in [Requests -> Stages]
          BY <1>11, <2>2, GotoType DEF ReadStore
    <3>2. snapshot' \in [Requests -> Datasets \cup {Unloaded}]
          BY <1>11, <2>2 DEF ReadStore, TypeOK
    <3>3. UNCHANGED <<up, kills, gone, queue, free, waiting, active, data, reply, probe, seen>>
          BY <1>11, <2>2 DEF ReadStore
    <3> QED BY <3>1, <3>2, <3>3 DEF TypeOK
  <2> QED BY <2>1, <2>2
<1>12. ASSUME NEW p \in Probes, Health(p)
       PROVE  TypeOK'
  <2> DEFINE Facts == [active : Int, waiting : Int, inside : SUBSET Requests,
                       queued : SUBSET Requests, running : SUBSET Requests]
             i == In(Busy)
             j == In(Announced)
             k == In(Counted)
  <2>1. NothingSeen \in Facts
        BY DEF NothingSeen
  <2>2. i \in SUBSET Requests /\ j \in SUBSET Requests /\ k \in SUBSET Requests
        BY DEF In
  <2>3. seen \in [Probes -> Facts] /\ seen[p] \in Facts /\ active \in Int /\ waiting \in Int
        BY DEF TypeOK
  <2>4. ProbeLock(p) => seen' = [seen EXCEPT ![p] = [NothingSeen EXCEPT !.inside = i, !.queued = j, !.running = k]]
        BY DEF ProbeLock
  <2>9. Report(seen[p]) = IF seen[p].active = 0 /\ waiting = 0
                          THEN [seen[p] EXCEPT !.inside = @ \cap i, !.queued = @ \cap j, !.running = @ \cap k]
                          ELSE [NothingSeen EXCEPT !.active = seen[p].active, !.waiting = waiting]
        BY DEF Report
  <2> HIDE DEF i, j, k
  <2>10. [NothingSeen EXCEPT !.inside = i, !.queued = j, !.running = k] \in Facts
         BY <2>1, <2>2
  <2>11. [seen[p] EXCEPT !.active = active] \in Facts
         BY <2>3
  <2>12. Report(seen[p]) \in Facts
    <3>1. [NothingSeen EXCEPT !.active = seen[p].active, !.waiting = waiting] \in Facts
          BY <2>1, <2>3
    <3>2. [seen[p] EXCEPT !.inside = @ \cap i, !.queued = @ \cap j, !.running = @ \cap k] \in Facts
          BY <2>2, <2>3
    <3> HIDE DEF Facts
    <3> QED BY <2>9, <3>1, <3>2
  <2> HIDE DEF Facts
  <2>5. \E f \in Facts : seen' = [seen EXCEPT ![p] = f]
    <3>1. CASE ProbeLock(p)
          BY <3>1, <2>4, <2>10
    <3>2. CASE ProbeActive(p)
      <4>1. seen' = [seen EXCEPT ![p] = [seen[p] EXCEPT !.active = active]]
            BY <3>2 DEF ProbeActive
      <4> QED BY <4>1, <2>11
    <3>3. CASE ProbeWaiting(p)
      <4>1. seen' = [seen EXCEPT ![p] = Report(seen[p])]
            BY <3>3 DEF ProbeWaiting
      <4> QED BY <4>1, <2>12
    <3> QED BY <1>12, <3>1, <3>2, <3>3 DEF Health
  <2>8. seen' \in [Probes -> Facts]
        BY <2>3, <2>5
  <2>6. probe' \in [Probes -> {"unsent", "locked", "loaded", "answered"}]
        BY <1>12 DEF Health, ProbeLock, ProbeActive, ProbeWaiting, TypeOK
  <2>7. UNCHANGED <<processVars, requestVars, permitVars, data>>
        BY <1>12 DEF Health, ProbeLock, ProbeActive, ProbeWaiting
  <2> QED BY <2>6, <2>7, <2>8 DEF Facts, TypeOK
<1>13. CASE UNCHANGED vars
       BY <1>13 DEF vars, TypeOK
<1> QED BY <1>1, <1>2, <1>4, <1>5, <1>6, <1>7, <1>8, <1>9, <1>10, <1>11, <1>12, <1>13 DEF Next, Serve

LEMMA TypeInitially == Init => TypeOK
<1> SUFFICES ASSUME Init PROVE TypeOK
    OBVIOUS
<1> USE StageNames DEF Init
<1>1. up \in BOOLEAN /\ kills \in Nat /\ waiting \in Int /\ active \in Int /\ gone \subseteq Requests
      OBVIOUS
<1>2. stage \in [Requests -> Stages] /\ probe \in [Probes -> {"unsent", "locked", "loaded", "answered"}]
      OBVIOUS
<1>3. queue \in Seq(Requests) /\ free \in BOOLEAN
      OBVIOUS
<1>4. snapshot \in [Requests -> Datasets \cup {Unloaded}] /\ data \in Datasets \cup {Unloaded}
      OBVIOUS
<1>5. reply \in [Requests -> Replies]
      BY DEF NoAnswer, Replies
<1>6. seen \in [Probes -> [active : Int, waiting : Int, inside : SUBSET Requests,
                          queued : SUBSET Requests, running : SUBSET Requests]]
      BY DEF NothingSeen
<1> QED BY <1>1, <1>2, <1>3, <1>4, <1>5, <1>6 DEF TypeOK

\* Type correctness of the worker.
THEOREM TypeCorrect == Spec => []TypeOK
BY TypeInitially, TypeInductive, PTL DEF Spec

-----------------------------------------------------------------------------
(***************************************************************************)
(* The permit.  A step is a move of one handler, or a hand-over: every     *)
(* action is first described by what it does to stage, queue and free.     *)
(***************************************************************************)
Lock == Permit /\ WaitList

\* A handler goes from one stage to another, neither of them a stage of waiting,
\* without taking or leaving the permit.
LEMMA LockMove ==
    ASSUME TypeOK, Lock, NEW r \in Requests, NEW s \in Stages, Goto(r, s),
           stage[r] # "queued", s # "queued", stage[r] \in Owning <=> s \in Owning,
           UNCHANGED <<queue, free>>
    PROVE  Lock'
<1>1. \A q \in Requests : stage'[q] = IF q = r THEN s ELSE stage[q]
      BY DEF TypeOK, Goto
<1>2. \A i \in 1 .. Len(queue) : queue[i] \in Requests
      BY DEF TypeOK
<1>3. Permit'
      BY <1>1 DEF Lock, Permit
<1>4. WaitList'
      BY <1>1, <1>2 DEF Lock, WaitList
<1> QED BY <1>3, <1>4 DEF Lock

LEMMA LockHandOver ==
    ASSUME TypeOK, Lock, NEW r \in Requests, NEW s \in Ended, stage[r] \in Owning, HandOver(r, s)
    PROVE  Lock'
<1>1. s \in Stages /\ s \notin Owning /\ s # "queued" /\ stage[r] # "queued"
      BY DEF Ended, Owning, Stages
<1>2. CASE queue = <<>>
  <2>1. \A q \in Requests : stage'[q] = IF q = r THEN s ELSE stage[q]
        BY <1>2 DEF HandOver, Goto, TypeOK
  <2>2. free' = TRUE /\ queue' = <<>>
        BY <1>2 DEF HandOver
  <2>3. \A q \in Requests : stage'[q] \notin Owning
        BY <1>1, <2>1 DEF Lock, Permit
  <2>4. \A q \in Requests : stage'[q] # "queued"
        BY <1>1, <1>2, <2>1 DEF Lock, WaitList
  <2> QED BY <2>2, <2>3, <2>4 DEF Lock, Permit, WaitList
<1>3. CASE queue # <<>>
  <2> DEFINE h == Head(queue)
  <2>1. /\ queue \in Seq(Requests) /\ Len(queue) \in Nat /\ Len(queue) >= 1
        /\ h = queue[1] /\ h \in Requests
        BY <1>3 DEF TypeOK
  <2>2. stage[h] = "queued" /\ h # r
        BY <1>1, <2>1 DEF Lock, WaitList
  <2>3. /\ queue' = Tail(queue) /\ free' = free
        /\ stage' = [stage EXCEPT ![r] = s, ![h] = "woken"]
        BY <1>3 DEF HandOver
  <2>4. \A q \in Requests : stage'[q] = IF q = h THEN "woken" ELSE IF q = r THEN s ELSE stage[q]
        BY <2>1, <2>3 DEF TypeOK
  <2>5. "woken" \in Owning
        BY DEF Owning
  <2>6. free = FALSE
        BY DEF Lock, Permit, TypeOK
  <2>7. Len(queue') = Len(queue) - 1 /\ \A i \in 1 .. Len(queue') : queue'[i] = queue[i + 1]
        BY <1>3, <2>1, <2>3
  <2> HIDE DEF h
  <2>8. Permit'
    <3>1. \A q \in Requests : stage'[q] \in Owning <=> q = h
          BY <1>1, <2>1, <2>2, <2>4, <2>5 DEF Lock, Permit
    <3>2. free' = FALSE
          BY <2>3, <2>6
    <3> QED BY <2>1, <3>1, <3>2 DEF Permit
  <2>9. \A i \in 1 .. Len(queue') : i + 1 \in 1 .. Len(queue) /\ queue[i + 1] # h /\ queue[i + 1] \in Requests
        BY <2>1, <2>7 DEF Lock, WaitList
  <2>10. \A i \in 1 .. Len(queue') : stage'[queue'[i]] = "queued"
        BY <1>1, <2>4, <2>7, <2>9 DEF Lock, WaitList
  <2>11. \A i, j \in 1 .. Len(queue') : queue'[i] = queue'[j] => i = j
        BY <2>1, <2>7, <2>9 DEF Lock, WaitList
  <2>12. ASSUME NEW q \in Requests, stage'[q] = "queued"
         PROVE  \E i \in 1 .. Len(queue') : queue'[i] = q
    <3>1. stage[q] = "queued" /\ q # h
          BY <1>1, <2>4, <2>12
    <3>2. PICK i \in 1 .. Len(queue) : queue[i] = q
          BY <3>1 DEF Lock, WaitList
    <3>3. i # 1
          BY <2>1, <3>1, <3>2
    <3>4. i - 1 \in 1 .. Len(queue') /\ queue'[i - 1] = q
          BY <2>1, <2>7, <3>2, <3>3
    <3> QED BY <3>4
  <2> QED BY <2>8, <2>10, <2>11, <2>12 DEF Lock, WaitList
<1> QED BY <1>2, <1>3

LEMMA LockTry ==
    ASSUME TypeOK, Lock, NEW r \in Requests, TryPermit(r)
    PROVE  Lock'
<1> DEFINE n == Len(queue)
<1>1. stage[r] = "arrived" /\ queue \in Seq(Requests) /\ n \in Nat /\ free \in BOOLEAN
      BY DEF TryPermit, TypeOK
<1>2. "arrived" \notin Owning /\ "queued" \notin Owning /\ "permitted" \in Owning
      BY DEF Owning
<1>3. CASE free
  <2>1. \A q \in Requests : stage'[q] = IF q = r THEN "permitted" ELSE stage[q]
        BY <1>3 DEF TryPermit, Goto, TypeOK
  <2>2. free' = FALSE /\ queue' = queue /\ queue = <<>>
        BY <1>3 DEF TryPermit, Lock, Permit
  <2>3. Permit'
        BY <1>2, <1>3, <2>1, <2>2 DEF Lock, Permit
  <2>4. WaitList'
        BY <1>1, <1>3, <2>1, <2>2 DEF Lock, WaitList
  <2> QED BY <2>3, <2>4 DEF Lock
<1>4. CASE ~free
  <2>1. \A q \in Requests : stage'[q] = IF q = r THEN "queued" ELSE stage[q]
        BY <1>4 DEF TryPermit, Goto, TypeOK
  <2>2. free' = free /\ queue' = Append(queue, r)
        BY <1>4 DEF TryPermit
  <2>3. Permit'
        BY <1>1, <1>2, <1>4, <2>1, <2>2 DEF Lock, Permit
  <2>4. Len(queue') = n + 1 /\ queue'[n + 1] = r /\ \A i \in 1 .. n : queue'[i] = queue[i]
        BY <1>1, <2>2
  <2>5. \A i \in 1 .. n : queue[i] # r /\ queue[i] \in Requests /\ stage[queue[i]] = "queued"
        BY <1>1 DEF Lock, WaitList
  <2>6. \A i \in 1 .. Len(queue') : i \in 1 .. n \/ i = n + 1
        BY <1>1, <2>4
  <2>7. \A i \in 1 .. n : i \in 1 .. Len(queue') /\ n + 1 \in 1 .. Len(queue')
        BY <1>1, <2>4
  <2>8. n + 1 \in 1 .. Len(queue')
        BY <1>1, <2>4
  <2> HIDE DEF n
  <2>9. \A i \in 1 .. Len(queue') : stage'[queue'[i]] = "queued"
        BY <2>1, <2>4, <2>5, <2>6
  <2>10. \A i, j \in 1 .. Len(queue') : queue'[i] = queue'[j] => i = j
    <3>1. \A i, j \in 1 .. n : queue[i] = queue[j] => i = j
          BY DEF Lock, WaitList, n
    <3> QED BY <2>4, <2>5, <2>6, <3>1
  <2>11. ASSUME NEW q \in Requests, stage'[q] = "queued"
         PROVE  \E i \in 1 .. Len(queue') : queue'[i] = q
    <3>1. CASE q = r
          BY <2>4, <2>8, <3>1
    <3>2. CASE q # r
      <4>1. PICK i \in 1 .. n : queue[i] = q
            BY <2>1, <2>11, <3>2 DEF Lock, WaitList, n
      <4> QED BY <2>4, <2>7, <4>1
    <3> QED BY <3>1, <3>2
  <2> QED BY <2>3, <2>9, <2>10, <2>11 DEF Lock, WaitList
<1> QED BY <1>3, <1>4

LEMMA LockWithdraw ==
    ASSUME TypeOK, Lock, NEW r \in Requests, stage[r] = "queued", DropHandler(r)
    PROVE  Lock'
<1> DEFINE n == Len(queue)
<1>1. PICK k \in 1 .. n : queue[k] = r /\ queue' = Without(queue, k)
      BY DEF DropHandler
<1>2. free' = free /\ Goto(r, "dropped")
      BY DEF DropHandler
<1>3. \A q \in Requests : stage'[q] = IF q = r THEN "dropped" ELSE stage[q]
      BY <1>2 DEF Goto, TypeOK
<1>4. "dropped" \notin Owning /\ "queued" \notin Owning
      BY DEF Owning
<1>5. queue \in Seq(Requests) /\ n \in Nat /\ queue # <<>>
      BY <1>1 DEF TypeOK
<1>6. ~free
      BY <1>5 DEF Lock, Permit
<1>7. Permit'
      BY <1>2, <1>3, <1>4, <1>6 DEF Lock, Permit
<1>8. /\ Len(queue') = n - 1
      /\ \A j \in 1 .. n - 1 : queue'[j] = IF j < k THEN queue[j] ELSE queue[j + 1]
      BY <1>1, <1>5, WithoutType
<1> DEFINE old(j) == IF j < k THEN j ELSE j + 1
<1>9. \A j \in 1 .. Len(queue') : old(j) \in 1 .. n /\ old(j) # k /\ queue'[j] = queue[old(j)]
      BY <1>5, <1>8
<1>10. \A i \in 1 .. n : i # k => \E j \in 1 .. Len(queue') : queue'[j] = queue[i]
  <2> SUFFICES ASSUME NEW i \in 1 .. n, i # k PROVE \E j \in 1 .. Len(queue') : queue'[j] = queue[i]
      OBVIOUS
  <2>1. CASE i < k
    <3>1. i \in 1 .. Len(queue') /\ queue'[i] = queue[i]
          BY <1>5, <1>8, <2>1
    <3> QED BY <3>1
  <2>2. CASE i > k
    <3>1. i - 1 \in 1 .. Len(queue') /\ queue'[i - 1] = queue[i]
          BY <1>5, <1>8, <2>2
    <3> QED BY <3>1
  <2> QED BY <1>5, <2>1, <2>2
<1>11. \A i, j \in 1 .. Len(queue') : old(i) = old(j) => i = j
       BY <1>5, <1>8
<1>12. \A i \in 1 .. n : queue[i] \in Requests /\ stage[queue[i]] = "queued" /\ (i # k => queue[i] # r)
       BY <1>1, <1>5 DEF Lock, WaitList
<1>13. \A i, j \in 1 .. n : queue[i] = queue[j] => i = j
       BY DEF Lock, WaitList
<1> HIDE DEF n, old
<1>14. \A i \in 1 .. Len(queue') : stage'[queue'[i]] = "queued"
       BY <1>3, <1>9, <1>12
<1>15. \A i, j \in 1 .. Len(queue') : queue'[i] = queue'[j] => i = j
       BY <1>9, <1>11, <1>13
<1>16. ASSUME NEW q \in Requests, stage'[q] = "queued"
       PROVE  \E i \in 1 .. Len(queue') : queue'[i] = q
  <2>1. stage[q] = "queued" /\ q # r
        BY <1>3, <1>16
  <2>2. PICK i \in 1 .. n : queue[i] = q
        BY <2>1 DEF Lock, WaitList, n
  <2> QED BY <1>1, <1>10, <2>1, <2>2
<1> QED BY <1>7, <1>14, <1>15, <1>16 DEF Lock, WaitList

LEMMA LockInductive == TypeOK /\ Lock /\ [Next]_vars => Lock'
<1> SUFFICES ASSUME TypeOK, Lock, [Next]_vars
             PROVE  Lock'
    OBVIOUS
<1> USE StageNames
<1>1. CASE Kill
  <2>1. \A r \in Requests : stage'[r] \notin Owning /\ stage'[r] # "queued"
        BY <1>1 DEF Kill, TypeOK, Inside, Owning, Announced
  <2>2. free' = TRUE /\ queue' = <<>>
        BY <1>1 DEF Kill
  <2> QED BY <2>1, <2>2 DEF Lock, Permit, WaitList
<1>2. ASSUME UNCHANGED <<stage, queue, free>>
      PROVE  Lock'
      BY <1>2 DEF Lock, Permit, WaitList
<1>3. CASE Boot \/ UNCHANGED vars
      BY <1>2, <1>3 DEF Boot, vars, requestVars, permitVars
<1>4. ASSUME NEW p \in Probes, Health(p)
      PROVE  Lock'
      BY <1>2, <1>4 DEF Health, ProbeLock, ProbeActive, ProbeWaiting, requestVars, permitVars
<1>5. ASSUME NEW r \in Requests, GiveUp(r)
      PROVE  Lock'
      BY <1>2, <1>5 DEF GiveUp, permitVars
<1>6. ASSUME NEW r \in Requests, Send(r) \/ Discard(r) \/ RefuseBody(r)
      PROVE  Lock'
  <2>1. PICK s \in {"sent", "lost", "replied"} : Goto(r, s) /\ stage[r] \in {"unsent", "sent"}
        BY <1>6 DEF Send, Discard, RefuseBody
  <2>2. UNCHANGED <<queue, free>>
        BY <1>6 DEF Send, Discard, RefuseBody, permitVars
  <2> QED BY <2>1, <2>2, LockMove DEF Owning
<1>7. ASSUME NEW r \in Requests, Arrive(r)
      PROVE  Lock'
      BY <1>7, LockMove DEF Arrive, Owning
<1>8. ASSUME NEW r \in Requests, Resume(r) \/ LeaveQueue(r) \/ Activate(r) \/ Deactivate(r)
      PROVE  Lock'
  <2>1. PICK s \in {"permitted", "admitted", "holding", "releasing"} :
           Goto(r, s) /\ stage[r] \in {"woken", "permitted", "admitted", "leaving"}
        BY <1>8 DEF Resume, LeaveQueue, Activate, Deactivate
  <2>2. UNCHANGED <<queue, free>>
        BY <1>8 DEF Resume, LeaveQueue, Activate, Deactivate, permitVars
  <2> QED BY <2>1, <2>2, LockMove DEF Owning
<1>9. ASSUME NEW r \in Requests, ResetGraph(r) \/ FailPrepare(r) \/ InstallGraph(r) \/ ReadStore(r) \/ RunQuery(r)
      PROVE  Lock'
  <2>1. PICK s \in {"leaving", "executing"} : Goto(r, s) /\ stage[r] \in {"holding", "executing"}
        BY <1>9 DEF ResetGraph, FailPrepare, InstallGraph, ReadStore, RunQuery, Respond
  <2>2. UNCHANGED <<queue, free>>
        BY <1>9 DEF ResetGraph, FailPrepare, InstallGraph, ReadStore, RunQuery, permitVars
  <2> QED BY <2>1, <2>2, LockMove DEF Owning
<1>10. ASSUME NEW r \in Requests, TryPermit(r)
       PROVE  Lock'
       BY <1>10, LockTry
<1>11. ASSUME NEW r \in Requests, Release(r)
       PROVE  Lock'
       BY <1>11, LockHandOver DEF Release, Owning, Ended
<1>12. ASSUME NEW r \in Requests, DropHandler(r)
       PROVE  Lock'
  <2>1. CASE stage[r] = "queued"
        BY <1>12, <2>1, LockWithdraw
  <2>2. CASE stage[r] = "woken"
        BY <1>12, <2>2, LockHandOver DEF DropHandler, Owning, Ended
  <2> QED BY <1>12, <2>1, <2>2 DEF DropHandler
<1> QED BY <1>1, <1>3, <1>4, <1>5, <1>6, <1>7, <1>8, <1>9, <1>10, <1>11, <1>12 DEF Next, Serve

LEMMA LockGivesOnePermit == TypeOK /\ Lock => OnePermit
<1> SUFFICES ASSUME TypeOK, Lock PROVE OnePermit
    OBVIOUS
<1>1. Cardinality(In(Owning)) + (IF free THEN 1 ELSE 0) = 1
  <2>1. CASE free
    <3>1. In(Owning) = {}
          BY <2>1 DEF In, Lock, Permit
    <3>2. Cardinality({}) = 0
          BY FS_EmptySet
    <3> QED BY <2>1, <3>1, <3>2
  <2>2. CASE ~free
    <3>1. PICK r \in Requests : stage[r] \in Owning
          BY <2>2 DEF Lock, Permit
    <3>2. In(Owning) = {r}
          BY <3>1 DEF In, Lock, Permit
    <3>3. Cardinality({r}) = 1
          BY FS_Singleton
    <3> QED BY <2>2, <3>2, <3>3
  <2> QED BY <2>1, <2>2
<1>2. In({"queued"}) = {queue[i] : i \in 1 .. Len(queue)}
  <2>1. \A i \in 1 .. Len(queue) : queue[i] \in Requests
        BY DEF TypeOK
  <2> QED BY <2>1 DEF In, Lock, WaitList
<1> QED BY <1>1, <1>2 DEF OnePermit, Lock, Permit, WaitList

LEMMA LockInvariant == Spec => [](TypeOK /\ Lock)
<1>1. Init => Lock
      BY DEF Init, Lock, Permit, WaitList, Owning
<1>2. (TypeOK /\ Lock) /\ [Next]_vars => (TypeOK /\ Lock)'
      BY TypeInductive, LockInductive
<1> QED BY <1>1, <1>2, TypeInitially, PTL DEF Spec

\* Semantic work is serialized: whatever clients give up, whenever the process
\* dies, the permit is in one place and no waiter is forgotten or stranded.
THEOREM Serialized == Spec => []OnePermit
BY LockInvariant, LockGivesOnePermit, PTL

-----------------------------------------------------------------------------
(***************************************************************************)
(* The graph.  Only the owner of the permit replaces it, so what a query   *)
(* copied is still the loaded graph when it answers; with that, the step   *)
(* that computes an answer is the whole request of the serial worker.      *)
(***************************************************************************)
Stable ==
    \A r \in Requests :
        stage[r] = "executing" => snapshot[r] = data /\ data # Unloaded /\ Kind[r] = "query"

\* stages at which no answer has been computed
Silent == Outside \cup Announced \cup {"admitted", "holding", "executing"}

Unanswered ==
    \A r \in Requests :
        stage[r] \in Silent => reply[r] = NoAnswer

Graph == Stable /\ Unanswered

\* Steps that compute no answer and start no query.
LEMMA GraphMove ==
    ASSUME TypeOK, Graph, UNCHANGED <<data, snapshot, reply>>,
           \A q \in Requests : stage'[q] = "executing" => stage[q] = "executing",
           \A q \in Requests : stage'[q] \in Silent => stage[q] \in Silent
    PROVE  Graph'
<1>1. ASSUME NEW q \in Requests, stage'[q] = "executing"
      PROVE  snapshot'[q] = data' /\ data' # Unloaded /\ Kind[q] = "query"
  <2>1. stage[q] = "executing"
        BY <1>1
  <2>2. snapshot[q] = data /\ data # Unloaded /\ Kind[q] = "query"
        BY <2>1 DEF Graph, Stable
  <2> QED BY <2>2
<1>2. ASSUME NEW q \in Requests, stage'[q] \in Silent
      PROVE  reply'[q] = NoAnswer
  <2>1. stage[q] \in Silent
        BY <1>2
  <2>2. reply[q] = NoAnswer
        BY <2>1 DEF Graph, Unanswered, Silent
  <2> QED BY <2>2
<1> QED BY <1>1, <1>2 DEF Graph, Stable, Unanswered, Silent

LEMMA GraphGoto ==
    ASSUME TypeOK, Graph, NEW r \in Requests, NEW s \in Stages, Goto(r, s), s # "executing",
           s \in Silent => stage[r] \in Silent, UNCHANGED <<data, snapshot, reply>>
    PROVE  Graph'
<1>1. \A q \in Requests : stage'[q] = IF q = r THEN s ELSE stage[q]
      BY DEF Goto, TypeOK
<1> QED BY <1>1, GraphMove

LEMMA GraphHandOver ==
    ASSUME TypeOK, Lock, Graph, NEW r \in Requests, NEW s \in Ended, HandOver(r, s),
           UNCHANGED <<data, snapshot, reply>>
    PROVE  Graph'
<1>1. s # "executing" /\ s \notin Silent /\ s \in Stages
      BY DEF Ended, Outside, Announced, Stages, Silent
<1>2. CASE queue = <<>>
      BY <1>1, <1>2, GraphGoto DEF HandOver
<1>3. CASE queue # <<>>
  <2>1. Head(queue) = queue[1] /\ Head(queue) \in Requests /\ 1 \in 1 .. Len(queue)
        BY <1>3 DEF TypeOK
  <2>2. stage[Head(queue)] = "queued"
        BY <2>1 DEF Lock, WaitList
  <2>3. stage' = [stage EXCEPT ![r] = s, ![Head(queue)] = "woken"]
        BY <1>3 DEF HandOver
  <2>4. \A q \in Requests : stage'[q] = IF q = Head(queue) THEN "woken" ELSE IF q = r THEN s ELSE stage[q]
        BY <2>1, <2>3 DEF TypeOK
  <2>5. "queued" \in Silent /\ "woken" # "executing"
        BY DEF Announced, Silent
  <2> QED BY <1>1, <2>2, <2>4, <2>5, GraphMove
<1> QED BY <1>2, <1>3

\* The owner of the permit computes its answer: no query is executing but its own.
LEMMA GraphRespond ==
    ASSUME TypeOK, Lock, Graph, NEW r \in Requests, stage[r] \in {"holding", "executing"},
           NEW status, NEW graph, Respond(r, status, graph), UNCHANGED snapshot
    PROVE  Graph'
<1>1. \A q \in Requests : stage'[q] = IF q = r THEN "leaving" ELSE stage[q]
      BY DEF Respond, Goto, TypeOK
<1>2. \A q \in Requests : q # r => stage[q] # "executing" /\ reply'[q] = reply[q]
      BY DEF Lock, Permit, Owning, Respond, TypeOK
<1>3. "leaving" \notin Silent
      BY DEF Silent, Outside, Announced
<1> QED BY <1>1, <1>2, <1>3 DEF Graph, Stable, Unanswered

LEMMA GraphInductive == TypeOK /\ Lock /\ Graph /\ [Next]_vars => Graph'
<1> SUFFICES ASSUME TypeOK, Lock, Graph, [Next]_vars
             PROVE  Graph'
    OBVIOUS
<1> USE StageNames
<1>1. CASE Kill
  <2>1. \A q \in Requests : stage'[q] = IF stage[q] \in Inside \cup {"sent"} THEN "lost" ELSE stage[q]
        BY <1>1 DEF Kill, TypeOK
  <2>2. "executing" \in Inside /\ "lost" # "executing"
        BY DEF Inside, Owning
  <2>3. \A q \in Requests : stage'[q] # "executing"
        BY <2>1, <2>2
  <2>4. "lost" \notin Silent
        BY DEF Silent, Outside, Announced
  <2>5. UNCHANGED reply
        BY <1>1 DEF Kill
  <2> QED BY <2>1, <2>3, <2>4, <2>5 DEF Graph, Stable, Unanswered
<1>2. ASSUME UNCHANGED <<stage, data, snapshot, reply>>
      PROVE  Graph'
      BY <1>2 DEF Graph, Stable, Unanswered
<1>3. CASE Boot \/ UNCHANGED vars
      BY <1>2, <1>3 DEF Boot, vars, requestVars, permitVars
<1>4. ASSUME NEW p \in Probes, Health(p)
      PROVE  Graph'
      BY <1>2, <1>4 DEF Health, ProbeLock, ProbeActive, ProbeWaiting, requestVars
<1>5. ASSUME NEW r \in Requests, GiveUp(r)
      PROVE  Graph'
      BY <1>2, <1>5 DEF GiveUp
<1>6. ASSUME NEW r \in Requests, Send(r) \/ Discard(r) \/ RefuseBody(r) \/ Arrive(r)
      PROVE  Graph'
  <2>1. PICK s \in {"sent", "lost", "replied", "arrived"} : Goto(r, s) /\ stage[r] \in {"unsent", "sent"}
        BY <1>6 DEF Send, Discard, RefuseBody, Arrive
  <2>2. UNCHANGED <<data, snapshot, reply>>
        BY <1>6 DEF Send, Discard, RefuseBody, Arrive
  <2> QED BY <2>1, <2>2, GraphGoto DEF Silent, Outside
<1>7. ASSUME NEW r \in Requests, Resume(r) \/ LeaveQueue(r) \/ Activate(r) \/ Deactivate(r)
      PROVE  Graph'
  <2>1. PICK s \in {"permitted", "admitted", "holding", "releasing"} :
           /\ Goto(r, s)
           /\ stage[r] \in {"woken", "permitted", "admitted", "leaving"}
           /\ s # "releasing" => stage[r] # "leaving"
        BY <1>7 DEF Resume, LeaveQueue, Activate, Deactivate
  <2>2. UNCHANGED <<data, snapshot, reply>>
        BY <1>7 DEF Resume, LeaveQueue, Activate, Deactivate
  <2> QED BY <2>1, <2>2, GraphGoto DEF Silent, Outside, Announced
<1>8. ASSUME NEW r \in Requests, TryPermit(r)
      PROVE  Graph'
  <2>1. PICK s \in {"permitted", "queued"} : Goto(r, s) /\ stage[r] = "arrived"
        BY <1>8 DEF TryPermit
  <2>2. UNCHANGED <<data, snapshot, reply>>
        BY <1>8 DEF TryPermit
  <2> QED BY <2>1, <2>2, GraphGoto DEF Silent, Announced
<1>9. ASSUME NEW r \in Requests, ResetGraph(r) \/ FailPrepare(r) \/ InstallGraph(r) \/ RunQuery(r)
      PROVE  Graph'
  <2>1. stage[r] \in {"holding", "executing"} /\ UNCHANGED snapshot
        BY <1>9 DEF ResetGraph, FailPrepare, InstallGraph, RunQuery
  <2>2. \E status, graph : Respond(r, status, graph)
        BY <1>9 DEF ResetGraph, FailPrepare, InstallGraph, RunQuery
  <2> QED BY <2>1, <2>2, GraphRespond
<1>10. ASSUME NEW r \in Requests, ReadStore(r)
       PROVE  Graph'
  <2>1. CASE data = Unloaded
    <3>1. stage[r] \in {"holding", "executing"} /\ UNCHANGED snapshot /\ Respond(r, "graph_not_loaded", Unloaded)
          BY <1>10, <2>1 DEF ReadStore
    <3> QED BY <3>1, GraphRespond
  <2>2. CASE data # Unloaded
    <3>1. /\ stage[r] = "holding" /\ Kind[r] = "query" /\ UNCHANGED <<data, reply>>
          /\ snapshot' = [snapshot EXCEPT ![r] = data] /\ Goto(r, "executing")
          BY <1>10, <2>2 DEF ReadStore
    <3>2. \A q \in Requests : stage'[q] = IF q = r THEN "executing" ELSE stage[q]
          BY <3>1 DEF Goto, TypeOK
    <3>3. \A q \in Requests : snapshot'[q] = IF q = r THEN data ELSE snapshot[q]
          BY <3>1 DEF TypeOK
    <3> QED BY <2>2, <3>1, <3>2, <3>3 DEF Graph, Stable, Unanswered, Silent
  <2> QED BY <2>1, <2>2
<1>11. ASSUME NEW r \in Requests, Release(r)
       PROVE  Graph'
       BY <1>11, GraphHandOver DEF Release, Ended
<1>12. ASSUME NEW r \in Requests, DropHandler(r)
       PROVE  Graph'
  <2>1. UNCHANGED <<data, snapshot, reply>>
        BY <1>12 DEF DropHandler
  <2>2. CASE stage[r] = "queued"
    <3>1. Goto(r, "dropped") /\ "dropped" \notin Silent
          BY <1>12, <2>2 DEF DropHandler, Silent, Outside, Announced
    <3> QED BY <2>1, <3>1, GraphGoto
  <2>3. CASE stage[r] = "woken"
        BY <1>12, <2>1, <2>3, GraphHandOver DEF DropHandler, Ended
  <2> QED BY <1>12, <2>2, <2>3 DEF DropHandler
<1> QED BY <1>1, <1>3, <1>4, <1>5, <1>6, <1>7, <1>8, <1>9, <1>10, <1>11, <1>12 DEF Next, Serve

LEMMA GraphInvariant == Spec => [](TypeOK /\ Lock /\ Graph)
<1>1. Init => Graph
      BY DEF Init, Graph, Stable, Unanswered
<1>2. (TypeOK /\ Lock /\ Graph) /\ [Next]_vars => Graph'
      BY GraphInductive
<1> QED BY <1>1, <1>2, LockInvariant, PTL DEF Spec

\* A query answers from the graph that is loaded when it answers, although it
\* works on a copy without the lock and other clients keep sending.
THEOREM StableQueries == Spec => []QueriesAreStable
<1>1. Graph => QueriesAreStable
      BY DEF Graph, Stable, QueriesAreStable, In
<1> QED BY <1>1, GraphInvariant, PTL

LEMMA AnswerRefines ==
    ASSUME TypeOK, Lock, Graph, NEW r \in Requests,
           ResetGraph(r) \/ FailPrepare(r) \/ InstallGraph(r) \/ ReadStore(r) \/ RunQuery(r)
    PROVE  [Serial!Next]_(Serial!vars)
<1> USE WorkerAssumption DEF WorkerAssumption
<1>1. reply[r] = Serial!Pending
      BY DEF Graph, Unanswered, Silent, NoAnswer, Serial!Pending, ResetGraph, FailPrepare, InstallGraph, ReadStore, RunQuery
<1>2. ASSUME NEW status, NEW graph, Respond(r, status, graph), data' = graph,
             Serial!Answer(status, graph) \in Serial!Answers(r, data)
      PROVE  Serial!Perform(r)
  <2>1. reply' = [reply EXCEPT ![r] = Serial!Answer(status, graph)]
        BY <1>2 DEF Respond, Serial!Answer
  <2>2. data' = Serial!Answer(status, graph).graph
        BY <1>2 DEF Serial!Answer
  <2> QED BY <1>1, <1>2, <2>1, <2>2 DEF Serial!Perform
<1>3. Serial!Acceptable(r) <=> Acceptable(r)
      BY DEF Serial!Acceptable, Acceptable
<1>4. CASE ResetGraph(r)
      BY <1>2, <1>4 DEF ResetGraph, Serial!Answers, Serial!Next
<1>5. CASE FailPrepare(r)
      BY <1>2, <1>3, <1>5 DEF FailPrepare, Serial!Answers, Serial!Next
<1>6. CASE InstallGraph(r)
      BY <1>2, <1>3, <1>6 DEF InstallGraph, Serial!Answers, Serial!Next
<1>7. CASE ReadStore(r)
  <2>1. CASE data = Unloaded
        BY <1>2, <1>7, <2>1 DEF ReadStore, Serial!Answers, Serial!Next
  <2>2. CASE data # Unloaded
        BY <1>7, <2>2 DEF ReadStore, Serial!vars
  <2> QED BY <2>1, <2>2
<1>8. CASE RunQuery(r)
  <2>1. snapshot[r] = data /\ data # Unloaded
        BY <1>8 DEF RunQuery, Graph, Stable
  <2>2. Respond(r, IF Payload[r] = Garbage THEN "rejected" ELSE "rows", data) /\ data' = data
        BY <1>8, <2>1 DEF RunQuery
  <2>3. Kind[r] = "query"
        BY <1>8 DEF RunQuery, Graph, Stable
  <2>4. Serial!Answer(IF Payload[r] = Garbage THEN "rejected" ELSE "rows", data) \in Serial!Answers(r, data)
        BY <2>1, <2>3 DEF Serial!Answers
  <2>5. Serial!Perform(r)
        BY <1>2, <2>2, <2>4
  <2> QED BY <2>5 DEF Serial!Next
<1> QED BY <1>4, <1>5, <1>6, <1>7, <1>8

LEMMA StepRefines == TypeOK /\ Lock /\ Graph /\ [Next]_vars => [Serial!Next]_(Serial!vars)
<1> SUFFICES ASSUME TypeOK, Lock, Graph, [Next]_vars
             PROVE  [Serial!Next]_(Serial!vars)
    OBVIOUS
<1>1. CASE Kill
      BY <1>1 DEF Kill, Serial!Next, Serial!Die
<1>2. CASE Boot \/ UNCHANGED vars
      BY <1>2 DEF Boot, vars, requestVars, Serial!vars
<1>3. ASSUME NEW p \in Probes, Health(p)
      PROVE  UNCHANGED Serial!vars
      BY <1>3 DEF Health, ProbeLock, ProbeActive, ProbeWaiting, requestVars, Serial!vars
<1>4. ASSUME NEW r \in Requests, Send(r) \/ GiveUp(r) \/ Discard(r) \/ RefuseBody(r) \/ Arrive(r) \/ Resume(r)
      PROVE  UNCHANGED Serial!vars
      BY <1>4 DEF Send, GiveUp, Discard, RefuseBody, Arrive, Resume, Serial!vars
<1>5. ASSUME NEW r \in Requests, TryPermit(r) \/ LeaveQueue(r) \/ Activate(r) \/ Deactivate(r) \/ Release(r) \/ DropHandler(r)
      PROVE  UNCHANGED Serial!vars
      BY <1>5 DEF TryPermit, LeaveQueue, Activate, Deactivate, Release, DropHandler, Serial!vars
<1> QED BY <1>1, <1>2, <1>3, <1>4, <1>5, AnswerRefines DEF Next, Serve

\* The worker implements the serial worker.
THEOREM Implements == Spec => ImplementsSerial
<1>1. Init => Serial!Init
      BY DEF Init, NoAnswer, Serial!Init, Serial!Pending
<1>2. TypeOK /\ Lock /\ Graph /\ [Next]_vars => [Serial!Next]_(Serial!vars)
      BY StepRefines
<1> QED BY <1>1, <1>2, GraphInvariant, PTL DEF Spec, ImplementsSerial, Serial!Spec
-----------------------------------------------------------------------------
(***************************************************************************)
(* The counters.  A handler changes a counter in the step in which it      *)
(* enters or leaves the stages the counter stands for; only DropHandler    *)
(* leaves waiting above the number of requests that are announced, by one. *)
(***************************************************************************)
Waited == Announced \cup {"dropped"}

Counters ==
    /\ active = Cardinality(In(Counted))
    /\ waiting >= Cardinality(In(Announced))
    /\ kills = 0 => waiting = Cardinality(In(Waited))

\* Where a request that was counted in active can be while the process lives, and
\* where it is no longer counted.
Past == {"releasing", "replied"}

\* What a health request knows: active shows a request that is executed when it
\* is read, and one that is executed at the end was so at the beginning.
Sightings ==
    \A p \in Probes :
        /\ p \in Probing => seen[p].running \subseteq In(Counted \cup Past)
        /\ probe[p] = "loaded" /\ seen[p].active = 0 => seen[p].running \cap In(Counted) = {}
        /\ IdleReported(p) => seen[p].queued = {} /\ seen[p].running = {}

\* A runtime of one thread: the handler that has the thread keeps it until it
\* ends, so the permit is always free at the await, and nothing waits there.
Alone ==
    /\ \A r \in Requests : stage[r] \notin {"queued", "woken"}
    /\ \A r, s \in In(OnThread) : r = s
    /\ Probing # {} => In(OnThread) = {}
    /\ \A p \in Probes : probe[p] # "unsent" => seen[p].inside = {}

OneThread == Threads = 1 => Alone

\* What the answer to a health request overlooks, if it says idle.
LEMMA ReportOverlooks ==
    ASSUME TypeOK, NEW p \in Probes
    PROVE  /\ Report(seen[p]).inside \subseteq seen[p].inside
           /\ Report(seen[p]).active = seen[p].active
           /\ seen[p].active = 0 /\ Report(seen[p]).waiting = 0 =>
                  /\ Report(seen[p]).queued \subseteq In(Announced)
                  /\ Report(seen[p]).running = seen[p].running \cap In(Counted)
                  /\ waiting = 0
<1>1. seen[p] \in [active : Int, waiting : Int, inside : SUBSET Requests, queued : SUBSET Requests,
                   running : SUBSET Requests]
      BY DEF TypeOK
<1> DEFINE i == In(Busy)  j == In(Announced)  k == In(Counted)
<1> HIDE DEF i, j, k
<1>2. CASE seen[p].active = 0 /\ waiting = 0
  <2>1. Report(seen[p]) = [seen[p] EXCEPT !.inside = @ \cap i, !.queued = @ \cap j, !.running = @ \cap k]
        BY <1>2 DEF Report, i, j, k
  <2> QED BY <1>1, <1>2, <2>1 DEF i, j, k
<1>3. CASE ~(seen[p].active = 0 /\ waiting = 0)
  <2>1. Report(seen[p]) = [NothingSeen EXCEPT !.active = seen[p].active, !.waiting = waiting]
        BY <1>3 DEF Report
  <2> QED BY <1>1, <1>3, <2>1 DEF NothingSeen
<1> QED BY <1>2, <1>3

LEMMA InFinite ==
    ASSUME NEW S
    PROVE  IsFiniteSet(In(S)) /\ Cardinality(In(S)) \in Nat
<1>1. In(S) \subseteq Requests /\ IsFiniteSet(Requests)
      BY WorkerAssumption DEF WorkerAssumption, In
<1>2. IsFiniteSet(In(S))
      BY <1>1, FS_Subset
<1> QED BY <1>2, FS_CardinalityType

\* What a move of one handler does to the number of handlers at some stages.
LEMMA CountMove ==
    ASSUME TypeOK, NEW S, NEW r \in Requests, NEW s, Goto(r, s)
    PROVE  /\ (stage[r] \in S <=> s \in S) => Cardinality(In(S)') = Cardinality(In(S))
           /\ stage[r] \notin S /\ s \in S => Cardinality(In(S)') = Cardinality(In(S)) + 1
           /\ stage[r] \in S /\ s \notin S => Cardinality(In(S)') = Cardinality(In(S)) - 1
<1>1. \A q \in Requests : stage'[q] = IF q = r THEN s ELSE stage[q]
      BY DEF Goto, TypeOK
<1>2. IsFiniteSet(In(S))
      BY InFinite
<1>3. ASSUME stage[r] \in S <=> s \in S PROVE In(S)' = In(S)
      BY <1>1, <1>3 DEF In
<1>4. ASSUME stage[r] \notin S, s \in S PROVE Cardinality(In(S)') = Cardinality(In(S)) + 1
  <2>1. In(S)' = In(S) \cup {r} /\ r \notin In(S)
        BY <1>1, <1>4 DEF In
  <2> QED BY <1>2, <2>1, FS_AddElement
<1>5. ASSUME stage[r] \in S, s \notin S PROVE Cardinality(In(S)') = Cardinality(In(S)) - 1
  <2>1. In(S)' = In(S) \ {r} /\ r \in In(S)
        BY <1>1, <1>5 DEF In
  <2> QED BY <1>2, <2>1, FS_RemoveElement
<1> QED BY <1>3, <1>4, <1>5

\* A hand-over moves the head of the wait list within the announced requests.
LEMMA CountHandOver ==
    ASSUME TypeOK, Lock, NEW r \in Requests, NEW s \in Ended, HandOver(r, s),
           stage[r] \in {"woken", "releasing"}
    PROVE  /\ In(Counted)' = In(Counted)
           /\ In(Announced)' = In(Announced) \ {r}
           /\ In(OnThread)' = In(OnThread) \ {r}
           /\ (stage[r] = "woken" <=> s = "dropped") => In(Waited)' = In(Waited)
<1> USE DEF Waited
<1>1. /\ s \notin Counted /\ s \notin Announced /\ s \notin OnThread /\ stage[r] \notin Counted
      /\ stage[r] \in Waited <=> stage[r] = "woken"
      BY DEF Ended, Counted, Announced, OnThread
<1>2. CASE queue = <<>>
  <2>1. \A q \in Requests : stage'[q] = IF q = r THEN s ELSE stage[q]
        BY <1>2 DEF HandOver, Goto, TypeOK
  <2> QED BY <1>1, <2>1 DEF In
<1>3. CASE queue # <<>>
  <2>1. Head(queue) = queue[1] /\ Head(queue) \in Requests /\ 1 \in 1 .. Len(queue)
        BY <1>3 DEF TypeOK
  <2>2. stage[Head(queue)] = "queued"
        BY <2>1 DEF Lock, WaitList
  <2>3. stage' = [stage EXCEPT ![r] = s, ![Head(queue)] = "woken"]
        BY <1>3 DEF HandOver
  <2>4. \A q \in Requests : stage'[q] = IF q = Head(queue) THEN "woken" ELSE IF q = r THEN s ELSE stage[q]
        BY <2>1, <2>3 DEF TypeOK
  <2>5. /\ "queued" \notin Counted /\ "queued" \in Announced /\ "queued" \notin OnThread
        /\ "woken" \notin Counted /\ "woken" \in Announced /\ "woken" \notin OnThread
        BY DEF Counted, Announced, OnThread
  <2> QED BY <1>1, <2>1, <2>2, <2>4, <2>5 DEF In
<1> QED BY <1>2, <1>3

\* Nothing is inside a process that has died.
LEMMA KilledEmpty ==
    ASSUME TypeOK, Kill
    PROVE  /\ In(Counted)' = {} /\ In(Announced)' = {} /\ In(OnThread)' = {}
           /\ \A q \in Requests : stage'[q] \notin Inside
<1>1. \A q \in Requests : stage'[q] = IF stage[q] \in Inside \cup {"sent"} THEN "lost" ELSE stage[q]
      BY DEF Kill, TypeOK
<1>2. /\ "lost" \notin Inside
      /\ Counted \subseteq Inside /\ Announced \subseteq Inside /\ OnThread \subseteq Inside
      BY DEF Inside, Owning, Announced, Counted, OnThread
<1> QED BY <1>1, <1>2 DEF In

LEMMA CountersInductive == TypeOK /\ Lock /\ Counters /\ [Next]_vars => Counters'
<1> SUFFICES ASSUME TypeOK, Lock, Counters, [Next]_vars
             PROVE  Counters'
    OBVIOUS
<1> DEFINE n == Cardinality(In(Counted))
           m == Cardinality(In(Announced))
           w == Cardinality(In(Waited))
<1>0. n \in Nat /\ m \in Nat /\ w \in Nat /\ kills \in Nat /\ waiting \in Int /\ active \in Int
      BY InFinite DEF TypeOK
<1>1. CASE Kill
  <2>1. active' = 0 /\ waiting' = 0 /\ Cardinality({}) = 0
        BY <1>1, FS_EmptySet DEF Kill
  <2>2. In(Counted)' = {} /\ In(Announced)' = {}
        BY <1>1, KilledEmpty
  <2>3. kills' # 0
        BY <1>0, <1>1 DEF Kill
  <2> QED BY <2>1, <2>2, <2>3 DEF Counters
<1>2. ASSUME UNCHANGED <<stage, waiting, active, kills>>
      PROVE  Counters'
      BY <1>2 DEF Counters, In
<1>3. CASE Boot \/ UNCHANGED vars
      BY <1>2, <1>3 DEF Boot, vars, processVars, requestVars, permitVars
<1>4. ASSUME NEW p \in Probes, Health(p)
      PROVE  Counters'
      BY <1>2, <1>4 DEF Health, ProbeLock, ProbeActive, ProbeWaiting, processVars, requestVars, permitVars
<1>5. ASSUME NEW r \in Requests, GiveUp(r)
      PROVE  Counters'
      BY <1>2, <1>5 DEF GiveUp, processVars, permitVars
<1>6. ASSUME NEW r \in Requests, NEW s, Goto(r, s),
             stage[r] \in Counted <=> s \in Counted, stage[r] \in Announced <=> s \in Announced,
             stage[r] \in Waited <=> s \in Waited, UNCHANGED <<waiting, active, kills>>
      PROVE  Counters'
      BY <1>6, CountMove DEF Counters
<1>7. ASSUME NEW r \in Requests, Send(r) \/ Discard(r) \/ RefuseBody(r) \/ TryPermit(r) \/ Resume(r)
      PROVE  Counters'
  <2>1. PICK s \in {"sent", "lost", "replied", "permitted", "queued"} :
           /\ Goto(r, s) /\ stage[r] \in {"unsent", "sent", "arrived", "woken"}
           /\ stage[r] \in {"arrived", "woken"} <=> s \in {"permitted", "queued"}
        BY <1>7 DEF Send, Discard, RefuseBody, TryPermit, Resume
  <2>2. UNCHANGED <<waiting, active, kills>>
        BY <1>7 DEF Send, Discard, RefuseBody, TryPermit, Resume, processVars, permitVars
  <2> QED BY <1>6, <2>1, <2>2 DEF Counted, Announced, Waited
<1>8. ASSUME NEW r \in Requests, Arrive(r)
      PROVE  Counters'
  <2>1. Goto(r, "arrived") /\ stage[r] = "sent" /\ waiting' = waiting + 1 /\ UNCHANGED <<active, kills>>
        BY <1>8 DEF Arrive, processVars
  <2>2. Cardinality(In(Announced)') = m + 1
        BY <2>1, CountMove DEF Announced
  <2>4. Cardinality(In(Waited)') = w + 1
        BY <2>1, CountMove DEF Announced, Waited
  <2>3. Cardinality(In(Counted)') = n
    <3>1. "sent" \notin Counted /\ "arrived" \notin Counted
          BY DEF Counted
    <3> QED BY <2>1, <3>1, CountMove
  <2> QED BY <1>0, <2>1, <2>2, <2>3, <2>4 DEF Counters
<1>9. ASSUME NEW r \in Requests, LeaveQueue(r)
      PROVE  Counters'
  <2>1. Goto(r, "admitted") /\ stage[r] = "permitted" /\ waiting' = waiting - 1 /\ UNCHANGED <<active, kills>>
        BY <1>9 DEF LeaveQueue, processVars
  <2>2. Cardinality(In(Announced)') = m - 1
        BY <2>1, CountMove DEF Announced
  <2>4. Cardinality(In(Waited)') = w - 1
        BY <2>1, CountMove DEF Announced, Waited
  <2>3. Cardinality(In(Counted)') = n
    <3>1. "permitted" \notin Counted /\ "admitted" \notin Counted
          BY DEF Counted
    <3> QED BY <2>1, <3>1, CountMove
  <2> QED BY <1>0, <2>1, <2>2, <2>3, <2>4 DEF Counters
<1>10. ASSUME NEW r \in Requests, Activate(r)
       PROVE  Counters'
  <2>1. Goto(r, "holding") /\ stage[r] = "admitted" /\ active' = active + 1 /\ UNCHANGED <<waiting, kills>>
        BY <1>10 DEF Activate, processVars
  <2>2. Cardinality(In(Counted)') = n + 1
        BY <2>1, CountMove DEF Counted
  <2>3. Cardinality(In(Announced)') = m
    <3>1. "admitted" \notin Announced /\ "holding" \notin Announced
          BY DEF Announced
    <3> QED BY <2>1, <3>1, CountMove
  <2>4. Cardinality(In(Waited)') = w
    <3>1. "admitted" \notin Waited /\ "holding" \notin Waited
          BY DEF Announced, Waited
    <3> QED BY <2>1, <3>1, CountMove
  <2> QED BY <1>0, <2>1, <2>2, <2>3, <2>4 DEF Counters
<1>11. ASSUME NEW r \in Requests, Deactivate(r)
       PROVE  Counters'
  <2>1. Goto(r, "releasing") /\ stage[r] = "leaving" /\ active' = active - 1 /\ UNCHANGED <<waiting, kills>>
        BY <1>11 DEF Deactivate, processVars
  <2>2. Cardinality(In(Counted)') = n - 1
        BY <2>1, CountMove DEF Counted
  <2>3. Cardinality(In(Announced)') = m
    <3>1. "leaving" \notin Announced /\ "releasing" \notin Announced
          BY DEF Announced
    <3> QED BY <2>1, <3>1, CountMove
  <2>4. Cardinality(In(Waited)') = w
    <3>1. "leaving" \notin Waited /\ "releasing" \notin Waited
          BY DEF Announced, Waited
    <3> QED BY <2>1, <3>1, CountMove
  <2> QED BY <1>0, <2>1, <2>2, <2>3, <2>4 DEF Counters
<1>12. ASSUME NEW r \in Requests, ResetGraph(r) \/ FailPrepare(r) \/ InstallGraph(r) \/ ReadStore(r) \/ RunQuery(r)
       PROVE  Counters'
  <2>1. PICK s \in {"leaving", "executing"} : Goto(r, s) /\ stage[r] \in {"holding", "executing"}
        BY <1>12 DEF ResetGraph, FailPrepare, InstallGraph, ReadStore, RunQuery, Respond
  <2>2. UNCHANGED <<waiting, active, kills>>
        BY <1>12 DEF ResetGraph, FailPrepare, InstallGraph, ReadStore, RunQuery, processVars, permitVars
  <2> QED BY <1>6, <2>1, <2>2 DEF Counted, Announced, Waited
<1>13. ASSUME NEW r \in Requests, Release(r)
       PROVE  Counters'
  <2>1. stage[r] = "releasing" /\ HandOver(r, "replied") /\ UNCHANGED <<waiting, active, kills>>
        BY <1>13 DEF Release, processVars
  <2>2. r \notin In(Announced)
        BY <2>1 DEF In, Announced
  <2>3. In(Counted)' = In(Counted) /\ In(Announced)' = In(Announced) /\ In(Waited)' = In(Waited)
        BY <2>1, <2>2, CountHandOver DEF Ended
  <2> QED BY <2>1, <2>3 DEF Counters
<1>14. ASSUME NEW r \in Requests, DropHandler(r)
       PROVE  Counters'
  <2>1. UNCHANGED <<waiting, active, kills>> /\ stage[r] \in {"queued", "woken"}
        BY <1>14 DEF DropHandler, processVars
  <2>3. In(Counted)' = In(Counted) /\ In(Announced)' = In(Announced) \ {r} /\ In(Waited)' = In(Waited)
    <3>1. CASE stage[r] = "queued"
      <4>1. Goto(r, "dropped")
            BY <1>14, <3>1 DEF DropHandler
      <4>2. \A q \in Requests : stage'[q] = IF q = r THEN "dropped" ELSE stage[q]
            BY <4>1 DEF Goto, TypeOK
      <4> QED BY <3>1, <4>2 DEF In, Counted, Announced, Waited
    <3>2. CASE stage[r] = "woken"
          BY <1>14, <3>2, CountHandOver DEF DropHandler, Ended
    <3> QED BY <2>1, <3>1, <3>2
  <2>4. r \in In(Announced)
        BY <2>1 DEF In, Announced
  <2>5. Cardinality(In(Announced) \ {r}) = m - 1
        BY <2>4, InFinite, FS_RemoveElement
  <2> QED BY <1>0, <2>1, <2>3, <2>5 DEF Counters
<1> QED BY <1>1, <1>3, <1>4, <1>5, <1>7, <1>8, <1>9, <1>10, <1>11, <1>12, <1>13, <1>14 DEF Next, Serve

\* A thread is available to nobody else while the only one is occupied.
LEMMA OnlyThread ==
    ASSUME Threads = 1, ThreadAvailable
    PROVE  In(OnThread) = {} /\ Probing = {}
<1>1. IsFiniteSet(In(OnThread)) /\ Cardinality(In(OnThread)) \in Nat
      BY InFinite
<1>2. Probing \subseteq Probes /\ IsFiniteSet(Probes)
      BY WorkerAssumption DEF WorkerAssumption, Probing
<1>3. IsFiniteSet(Probing) /\ Cardinality(Probing) \in Nat
      BY <1>2, FS_Subset, FS_CardinalityType
<1>4. Cardinality(In(OnThread)) = 0 /\ Cardinality(Probing) = 0
      BY <1>1, <1>3 DEF ThreadAvailable
<1> QED BY <1>1, <1>3, <1>4, FS_EmptySet

\* Handlers move one at a time, and enter the thread only when it is free.
LEMMA AloneMove ==
    ASSUME TypeOK, Alone, NEW r \in Requests, NEW s, Goto(r, s), s \notin {"queued", "woken"},
           s \in OnThread => stage[r] \in OnThread \/ (In(OnThread) = {} /\ Probing = {}),
           UNCHANGED probeVars
    PROVE  Alone'
<1>1. \A q \in Requests : stage'[q] = IF q = r THEN s ELSE stage[q]
      BY DEF Goto, TypeOK
<1>2. Probing' = Probing /\ UNCHANGED <<probe, seen>>
      BY DEF Probing, probeVars
<1> QED BY <1>1, <1>2 DEF Alone, In

LEMMA AloneInductive == Threads = 1 /\ TypeOK /\ Lock /\ Alone /\ [Next]_vars => Alone'
<1> SUFFICES ASSUME Threads = 1, TypeOK, Lock, Alone, [Next]_vars
             PROVE  Alone'
    OBVIOUS
<1>1. CASE Kill
  <2>1. In(OnThread)' = {} /\ \A q \in Requests : stage'[q] \notin Inside
        BY <1>1, KilledEmpty
  <2>2. "queued" \in Inside /\ "woken" \in Inside
        BY DEF Inside, Announced
  <2>3. \A p \in Probes : probe'[p] # "unsent" => probe[p] # "unsent" /\ seen'[p] = seen[p]
        BY <1>1 DEF Kill, TypeOK
  <2> QED BY <2>1, <2>2, <2>3 DEF Alone
<1>2. ASSUME UNCHANGED <<stage, probe, seen>>
      PROVE  Alone'
      BY <1>2 DEF Alone, In, Probing
<1>3. CASE Boot \/ UNCHANGED vars
      BY <1>2, <1>3 DEF Boot, vars, requestVars, probeVars
<1>4. ASSUME NEW r \in Requests, GiveUp(r)
      PROVE  Alone'
      BY <1>2, <1>4 DEF GiveUp, probeVars
<1>5. ASSUME NEW r \in Requests, Send(r) \/ Discard(r) \/ RefuseBody(r)
      PROVE  Alone'
  <2>1. PICK s \in {"sent", "lost", "replied"} : Goto(r, s) /\ UNCHANGED probeVars
        BY <1>5 DEF Send, Discard, RefuseBody
  <2> QED BY <2>1, AloneMove DEF OnThread
<1>6. ASSUME NEW r \in Requests, Arrive(r)
      PROVE  Alone'
  <2>1. Goto(r, "arrived") /\ UNCHANGED probeVars /\ In(OnThread) = {} /\ Probing = {}
        BY <1>6, OnlyThread DEF Arrive
  <2> QED BY <2>1, AloneMove
<1>7. ASSUME NEW r \in Requests, TryPermit(r)
      PROVE  Alone'
  <2>1. stage[r] = "arrived" /\ UNCHANGED probeVars
        BY <1>7 DEF TryPermit
  <2>2. free
    <3>1. ASSUME NEW q \in Requests, stage[q] \in Owning PROVE FALSE
      <4>1. stage[q] \in OnThread /\ stage[r] \in OnThread
            BY <2>1, <3>1 DEF Alone, Owning, OnThread
      <4>2. q = r
            BY <4>1 DEF Alone, In
      <4> QED BY <2>1, <3>1, <4>2 DEF Owning
    <3> QED BY <3>1 DEF Lock, Permit
  <2>3. Goto(r, "permitted")
        BY <1>7, <2>2 DEF TryPermit
  <2> QED BY <2>1, <2>3, AloneMove DEF OnThread
<1>8. ASSUME NEW r \in Requests, LeaveQueue(r) \/ Activate(r) \/ Deactivate(r)
      PROVE  Alone'
  <2>1. PICK s \in {"admitted", "holding", "releasing"} :
           Goto(r, s) /\ UNCHANGED probeVars /\ stage[r] \in {"permitted", "admitted", "leaving"}
        BY <1>8 DEF LeaveQueue, Activate, Deactivate
  <2> QED BY <2>1, AloneMove DEF OnThread
<1>9. ASSUME NEW r \in Requests, ResetGraph(r) \/ FailPrepare(r) \/ InstallGraph(r) \/ ReadStore(r) \/ RunQuery(r)
      PROVE  Alone'
  <2>1. PICK s \in {"leaving", "executing"} : Goto(r, s) /\ stage[r] \in {"holding", "executing"}
        BY <1>9 DEF ResetGraph, FailPrepare, InstallGraph, ReadStore, RunQuery, Respond
  <2>2. UNCHANGED probeVars
        BY <1>9 DEF ResetGraph, FailPrepare, InstallGraph, ReadStore, RunQuery
  <2> QED BY <2>1, <2>2, AloneMove DEF OnThread
<1>10. ASSUME NEW r \in Requests, Release(r)
       PROVE  Alone'
  <2>1. queue = <<>>
    <3>1. ASSUME queue # <<>> PROVE FALSE
      <4>1. 1 \in 1 .. Len(queue) /\ queue[1] \in Requests
            BY <3>1 DEF TypeOK
      <4> QED BY <4>1 DEF Lock, WaitList, Alone
    <3> QED BY <3>1
  <2>2. Goto(r, "replied") /\ UNCHANGED probeVars
        BY <1>10, <2>1 DEF Release, HandOver
  <2> QED BY <2>2, AloneMove DEF OnThread
<1>11. ASSUME NEW r \in Requests, Resume(r) \/ DropHandler(r)
       PROVE  FALSE
       BY <1>11 DEF Resume, DropHandler, Alone
<1>12. ASSUME NEW p \in Probes, Health(p)
       PROVE  Alone'
  <2>1. UNCHANGED stage
        BY <1>12 DEF Health, ProbeLock, ProbeActive, ProbeWaiting, requestVars
  <2>2. \A q \in Probes : q # p => probe'[q] = probe[q] /\ seen'[q] = seen[q]
        BY <1>12 DEF Health, ProbeLock, ProbeActive, ProbeWaiting, TypeOK
  <2>3. CASE ProbeLock(p)
    <3>1. In(OnThread) = {}
          BY <2>3, OnlyThread DEF ProbeLock
    <3>2. In(Busy) = {}
      <4>1. Busy \subseteq OnThread \cup {"queued", "woken"}
            BY DEF Busy, Announced, Counted, OnThread
      <4> QED BY <3>1, <4>1 DEF In, Alone
    <3>3. seen'[p] = [NothingSeen EXCEPT !.inside = In(Busy), !.queued = In(Announced), !.running = In(Counted)]
          BY <2>3 DEF ProbeLock, TypeOK
    <3>4. seen'[p].inside = {}
          BY <3>2, <3>3 DEF NothingSeen
    <3> QED BY <2>1, <2>2, <3>1, <3>4 DEF Alone, In
  <2>4. CASE ProbeActive(p) \/ ProbeWaiting(p)
    <3>1. probe[p] \in {"locked", "loaded"} /\ seen[p].inside = {} /\ In(OnThread) = {}
          BY <2>4 DEF ProbeActive, ProbeWaiting, Alone, Probing
    <3>2. CASE ProbeActive(p)
      <4>1. seen'[p] = [seen[p] EXCEPT !.active = active] /\ seen[p].inside \in SUBSET Requests
            BY <3>2 DEF ProbeActive, TypeOK
      <4>2. seen'[p].inside = seen[p].inside
            BY <4>1 DEF TypeOK
      <4> QED BY <2>1, <2>2, <3>1, <4>2 DEF Alone, In
    <3>4. CASE ProbeWaiting(p)
      <4>1. seen'[p] = Report(seen[p])
            BY <3>4 DEF ProbeWaiting, TypeOK
      <4>2. Report(seen[p]).inside \subseteq seen[p].inside
            BY ReportOverlooks
      <4> QED BY <2>1, <2>2, <3>1, <4>1, <4>2 DEF Alone, In
    <3> QED BY <2>4, <3>2, <3>4
  <2> QED BY <1>12, <2>3, <2>4 DEF Health
<1> QED BY <1>1, <1>3, <1>4, <1>5, <1>6, <1>7, <1>8, <1>9, <1>10, <1>11, <1>12 DEF Next, Serve

\* Requests that are past being counted stay there while the process lives, and no
\* request is counted again.
LEMMA PastStays ==
    ASSUME TypeOK, Lock, [Next]_vars, NEW q \in Requests
    PROVE  \/ Kill
           \/ /\ stage[q] \in Past => stage'[q] \in Past
              /\ stage[q] \in Counted => stage'[q] \in Counted \cup Past
<1>1. ASSUME NEW r \in Requests, NEW s, Goto(r, s), stage[r] \in Past => s \in Past,
             stage[r] \in Counted => s \in Counted \cup Past
      PROVE  /\ stage[q] \in Past => stage'[q] \in Past
             /\ stage[q] \in Counted => stage'[q] \in Counted \cup Past
      BY <1>1 DEF Goto, TypeOK
<1>2. ASSUME NEW r \in Requests, Serve(r) \/ Send(r)
      PROVE  /\ stage[q] \in Past => stage'[q] \in Past
             /\ stage[q] \in Counted => stage'[q] \in Counted \cup Past
  <2>1. CASE Release(r) \/ (DropHandler(r) /\ stage[r] = "woken")
    <3>1. PICK s \in {"replied", "dropped"} : HandOver(r, s) /\ stage[r] \in {"woken", "releasing"}
                                             /\ (stage[r] = "releasing" => s = "replied")
          BY <2>1 DEF Release, DropHandler
    <3>2. CASE queue = <<>>
      <4>1. Goto(r, s)
            BY <3>1, <3>2 DEF HandOver
      <4> QED BY <1>1, <3>1, <4>1 DEF Past, Counted
    <3>3. CASE queue # <<>>
      <4>1. Head(queue) = queue[1] /\ Head(queue) \in Requests /\ 1 \in 1 .. Len(queue)
            BY <3>3 DEF TypeOK
      <4>2. stage[Head(queue)] = "queued"
            BY <4>1 DEF Lock, WaitList
      <4>3. stage' = [stage EXCEPT ![r] = s, ![Head(queue)] = "woken"]
            BY <3>1, <3>3 DEF HandOver
      <4>4. stage'[q] = IF q = Head(queue) THEN "woken" ELSE IF q = r THEN s ELSE stage[q]
            BY <4>1, <4>3 DEF TypeOK
      <4> QED BY <3>1, <4>2, <4>4 DEF Past, Counted
    <3> QED BY <3>2, <3>3
  <2>2. CASE ~(Release(r) \/ (DropHandler(r) /\ stage[r] = "woken"))
    <3>1. PICK s : /\ Goto(r, s)
                   /\ \/ stage[r] \in {"unsent", "sent", "arrived", "queued", "woken", "permitted", "admitted"}
                      \/ stage[r] \in Counted /\ s \in Counted \cup Past
      <4>1. CASE Send(r) \/ Discard(r) \/ RefuseBody(r) \/ Arrive(r) \/ TryPermit(r) \/ Resume(r)
                 \/ LeaveQueue(r) \/ Activate(r)
            BY <4>1 DEF Send, Discard, RefuseBody, Arrive, TryPermit, Resume, LeaveQueue, Activate
      <4>2. CASE DropHandler(r)
            BY <2>2, <4>2 DEF DropHandler
      <4>3. CASE ResetGraph(r) \/ FailPrepare(r) \/ InstallGraph(r) \/ ReadStore(r) \/ RunQuery(r) \/ Deactivate(r)
            BY <4>3 DEF ResetGraph, FailPrepare, InstallGraph, ReadStore, RunQuery, Deactivate, Respond, Counted, Past
      <4> QED BY <1>2, <2>1, <2>2, <4>1, <4>2, <4>3 DEF Serve
    <3>2. stage[r] \in Past => s \in Past
          BY <3>1 DEF Past, Counted
    <3>3. stage[r] \in Counted => s \in Counted \cup Past
          BY <3>1 DEF Past, Counted
    <3> QED BY <1>1, <3>1, <3>2, <3>3
  <2> QED BY <2>1, <2>2
<1>3. ASSUME UNCHANGED stage
      PROVE  /\ stage[q] \in Past => stage'[q] \in Past
             /\ stage[q] \in Counted => stage'[q] \in Counted \cup Past
      BY <1>3
<1>4. CASE Kill
      BY <1>4
<1>5. CASE Boot \/ UNCHANGED vars
      BY <1>3, <1>5 DEF Boot, vars, requestVars
<1>6. ASSUME NEW r \in Requests, GiveUp(r) PROVE UNCHANGED stage
      BY <1>6 DEF GiveUp
<1>7. ASSUME NEW p \in Probes, Health(p) PROVE UNCHANGED stage
      BY <1>7 DEF Health, ProbeLock, ProbeActive, ProbeWaiting, requestVars
<1> QED BY <1>2, <1>3, <1>4, <1>5, <1>6, <1>7 DEF Next

LEMMA SightingsInductive == TypeOK /\ Lock /\ Counters /\ Sightings /\ [Next]_vars => Sightings'
<1> SUFFICES ASSUME TypeOK, Lock, Counters, Sightings, [Next]_vars, NEW p \in Probes
             PROVE  /\ p \in Probing' => seen'[p].running \subseteq In(Counted \cup Past)'
                    /\ probe'[p] = "loaded" /\ seen'[p].active = 0 => seen'[p].running \cap In(Counted)' = {}
                    /\ IdleReported(p)' => seen'[p].queued = {} /\ seen'[p].running = {}
    BY DEF Sightings
<1>0. seen[p] \in [active : Int, waiting : Int, inside : SUBSET Requests, queued : SUBSET Requests,
                   running : SUBSET Requests]
      BY DEF TypeOK
<1>1. CASE Kill
  <2>1. probe'[p] = (IF p \in Probing THEN "unsent" ELSE probe[p]) /\ seen' = seen
        BY <1>1 DEF Kill, TypeOK
  <2> QED BY <2>1 DEF Sightings, Probing, IdleReported
<1>2. ASSUME ~Kill, probe'[p] = probe[p], seen'[p] = seen[p]
      PROVE  /\ p \in Probing' => seen'[p].running \subseteq In(Counted \cup Past)'
             /\ probe'[p] = "loaded" /\ seen'[p].active = 0 => seen'[p].running \cap In(Counted)' = {}
             /\ IdleReported(p)' => seen'[p].queued = {} /\ seen'[p].running = {}
  <2>1. \A q \in Requests : /\ stage[q] \in Past => stage'[q] \in Past
                            /\ stage[q] \in Counted => stage'[q] \in Counted \cup Past
        BY <1>2, PastStays
  <2>2. Past \cap Counted = {}
        BY DEF Past, Counted
  <2>3. p \in Probing' <=> p \in Probing
        BY <1>2 DEF Probing
  <2>4. p \in Probing => seen[p].running \subseteq In(Counted \cup Past)'
        BY <2>1 DEF Sightings, In
  <2>5. ASSUME probe[p] = "loaded", seen[p].active = 0 PROVE seen[p].running \cap In(Counted)' = {}
    <3>1. \A q \in seen[p].running : q \in Requests /\ stage[q] \in Past
          BY <1>0, <2>5 DEF Sightings, In, Probing
    <3> QED BY <2>1, <2>2, <3>1 DEF In
  <2> QED BY <1>2, <2>3, <2>4, <2>5 DEF Sightings, IdleReported
<1>3. CASE UNCHANGED probeVars /\ ~Kill
      BY <1>2, <1>3 DEF probeVars
<1>4. CASE \E q \in Probes : Health(q)
  <2> PICK q \in Probes : Health(q)
      BY <1>4
  <2>1. UNCHANGED <<stage, kills>>
        BY DEF Health, ProbeLock, ProbeActive, ProbeWaiting, requestVars, processVars
  <2>2. CASE q # p
    <3>1. probe'[p] = probe[p] /\ seen'[p] = seen[p]
          BY <2>2 DEF Health, ProbeLock, ProbeActive, ProbeWaiting, TypeOK
    <3>2. ~Kill
          BY <2>1 DEF Kill, TypeOK
    <3> QED BY <1>2, <3>1, <3>2
  <2>3. CASE q = p /\ ProbeLock(p)
    <3>1. seen'[p] = [NothingSeen EXCEPT !.inside = In(Busy), !.queued = In(Announced), !.running = In(Counted)]
          BY <2>3 DEF ProbeLock, TypeOK
    <3>2. seen'[p].running = In(Counted) /\ probe'[p] = "locked"
          BY <2>3, <3>1 DEF NothingSeen, ProbeLock, TypeOK
    <3> QED BY <2>1, <3>2 DEF In, IdleReported
  <2>4. CASE q = p /\ ProbeActive(p)
    <3>1. seen'[p] = [seen[p] EXCEPT !.active = active] /\ probe[p] = "locked" /\ probe'[p] = "loaded"
          BY <2>4 DEF ProbeActive, TypeOK
    <3>2. seen'[p].running = seen[p].running /\ seen'[p].active = active
          BY <1>0, <3>1
    <3>3. active = 0 => In(Counted) = {}
          BY InFinite, FS_EmptySet DEF Counters
    <3>4. p \in Probing
          BY <3>1 DEF Probing
    <3> QED BY <2>1, <3>1, <3>2, <3>3, <3>4 DEF Sightings, In, IdleReported
  <2>5. CASE q = p /\ ProbeWaiting(p)
    <3>1. seen'[p] = Report(seen[p]) /\ probe[p] = "loaded" /\ probe'[p] = "answered"
          BY <2>5 DEF ProbeWaiting, TypeOK
    <3>2. waiting = 0 => In(Announced) = {}
          BY InFinite, FS_EmptySet DEF Counters, TypeOK
    <3>3. IdleReported(p)' => seen'[p].queued = {} /\ seen'[p].running = {}
          BY <3>1, <3>2, ReportOverlooks DEF IdleReported, Sightings
    <3> QED BY <3>1, <3>3 DEF Probing
  <2> QED BY <2>2, <2>3, <2>4, <2>5 DEF Health
<1>5. CASE UNCHANGED vars
  <2>1. ~Kill
        BY <1>5 DEF vars, processVars, Kill, TypeOK
  <2> QED BY <1>3, <1>5, <2>1 DEF vars
<1>6. CASE Boot
      BY <1>3, <1>6 DEF Boot, Kill
<1>7. ASSUME NEW r \in Requests, Send(r) \/ GiveUp(r) \/ Serve(r)
      PROVE  UNCHANGED <<probeVars, kills>>
  <2>1. CASE Send(r) \/ GiveUp(r) \/ Discard(r) \/ RefuseBody(r) \/ Arrive(r) \/ TryPermit(r) \/ Resume(r)
             \/ LeaveQueue(r) \/ Activate(r) \/ Deactivate(r) \/ Release(r) \/ DropHandler(r)
        BY <2>1 DEF Send, GiveUp, Discard, RefuseBody, Arrive, TryPermit, Resume, LeaveQueue, Activate,
                    Deactivate, Release, DropHandler, processVars
  <2>2. CASE ResetGraph(r) \/ FailPrepare(r) \/ InstallGraph(r) \/ ReadStore(r) \/ RunQuery(r)
        BY <2>2 DEF ResetGraph, FailPrepare, InstallGraph, ReadStore, RunQuery, processVars
  <2> QED BY <1>7, <2>1, <2>2 DEF Serve
<1>8. CASE \E r \in Requests : Send(r) \/ GiveUp(r) \/ Serve(r)
  <2>1. UNCHANGED <<probeVars, kills>>
        BY <1>7, <1>8
  <2>2. ~Kill
        BY <2>1 DEF Kill, TypeOK
  <2> QED BY <1>3, <2>1, <2>2
<1> QED BY <1>1, <1>4, <1>5, <1>6, <1>8 DEF Next

LEMMA CountersInvariant == Spec => [](TypeOK /\ Lock /\ OneThread /\ Counters /\ Sightings)
<1>1. Init => OneThread /\ Counters /\ Sightings
  <2> SUFFICES ASSUME Init PROVE OneThread /\ Counters /\ Sightings
      OBVIOUS
  <2>1. \A S : "unsent" \notin S => In(S) = {}
        BY DEF Init, In
  <2>2. In(Counted) = {} /\ In(Announced) = {} /\ In(Waited) = {} /\ In(OnThread) = {}
        BY <2>1 DEF Counted, Announced, Waited, OnThread
  <2>3. Cardinality({}) = 0
        BY FS_EmptySet
  <2>4. Counters
        BY <2>2, <2>3 DEF Init, Counters
  <2>5. OneThread
        BY <2>2 DEF Init, OneThread, Alone
  <2>6. Sightings
        BY DEF Init, Sightings, Probing, IdleReported
  <2> QED BY <2>4, <2>5, <2>6
<1>2. (TypeOK /\ Lock /\ OneThread /\ Counters /\ Sightings) /\ [Next]_vars
          => (OneThread /\ Counters /\ Sightings)'
      BY AloneInductive, CountersInductive, SightingsInductive DEF OneThread
<1> QED BY <1>1, <1>2, LockInvariant, PTL DEF Spec

\* active_requests is exact and queue_depth never understates, with any number
\* of threads, whoever gives up and whenever the process dies.
THEOREM Covering == Spec => []CountersCover
<1>1. Counters => CountersCover
      BY DEF Counters, CountersCover
<1> QED BY <1>1, CountersInvariant, PTL

\* In the life of one process, queue_depth is the number of requests that wait and
\* one for each handler dropped at its await, on any number of threads.
THEOREM ExactDepth == Spec => []QueueDepthExact
<1>1. Counters => QueueDepthExact
      BY DEF Counters, QueueDepthExact, Waited
<1> QED BY <1>1, CountersInvariant, PTL

\* However the two loads of /health are torn, an idle answer overlooks no request
\* that waited all the time or was executed all the time.
THEOREM SteadyWork == Spec => []SteadyWorkIsSeen
<1>1. Sightings => SteadyWorkIsSeen
      BY DEF Sightings, SteadyWorkIsSeen
<1> QED BY <1>1, CountersInvariant, PTL

\* Both defects of /health need a second runtime thread: on one, no request waits
\* at the await and can be dropped there, and no health request is answered while
\* one is inside.
THEOREM NeedsTwoThreads == Spec => [](Threads = 1 => In({"queued", "woken"}) = {} /\ IdleIsTruthful)
<1>1. OneThread => (Threads = 1 => In({"queued", "woken"}) = {} /\ IdleIsTruthful)
      BY DEF OneThread, Alone, In, IdleIsTruthful, IdleReported
<1> QED BY <1>1, CountersInvariant, PTL
=============================================================================
