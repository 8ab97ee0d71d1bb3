---------------------------- MODULE MonitoringProofs -----------------------------
(***************************************************************************)
(* The safety properties of module Monitoring, for any number of hosts and *)
(* repetitions, where requests of closed connections are not delivered.    *)
(*                                                                         *)
(* The inductive invariant says what every host may still have pending in  *)
(* every phase of the runner: who waits for it (OneWaiting), what it can   *)
(* do to the graph (Harmless), and which logical timeouts it stems from    *)
(* (Late).  The steps of workers and network are summarised by Evolves, so *)
(* that each phase is looked at once.                                      *)
(***************************************************************************)
EXTENDS Monitoring, WorkerPoolProofs

\* What is pending leaves the graph of this repetition as it is.
Harmless(h) ==
    \A q \in Pending(h) : q.op = "query" \/ (q.op = "prepare" /\ q.graph = Graph[rep])

Kept(h) == up[h] => data[h] = Graph[rep]

Calling == {"resetting", "preparing", "querying", "repreparing"}

InWindow == {"before", "between", "querying", "after", "idleCheck", "restarting", "repreparing", "recheck"}

Phases ==
    /\ pc \notin Calling => Resolved
    /\ pc \in InWindow => \A h \in Hosts : Harmless(h)
    /\ pc = "prepared" => \A h \in Hosts \ todo : Harmless(h) /\ Kept(h) /\ ~Late(h)
    /\ pc \in {"before", "between", "querying", "after", "idleCheck"} => \A h \in Hosts : Kept(h)
    /\ pc \in {"restarting", "repreparing"} => \A h \in Hosts \ suspects : Kept(h)
    /\ pc = "recheck" => \A h \in Hosts \ todo : Kept(h)
    /\ pc \in {"before", "between", "recheck"} => \A h \in Hosts : ~Late(h)
    /\ pc \in {"querying", "repreparing"} => \A h \in Hosts : Late(h) => call[h] = "timedout"
    /\ pc = "querying" => \A h \in Hosts \ todo : call[h] = "none"
    /\ pc = "idleCheck" => recovered = {} /\ \A h \in Hosts : Late(h) => h \in todo \cup suspects
    /\ pc = "restarting" => todo \subseteq suspects /\ \A h \in Hosts : Late(h) => h \in suspects \ recovered
    /\ pc = "after" => \A h \in Hosts \ todo : Pending(h) = {}
    /\ pc = "ended" /\ status[rep] = "completed" => \A h \in Hosts : Pending(h) = {}

\* The statuses of the repetitions, and what the counter and the manifest
\* make of them.
Accounts ==
    /\ \A r \in 1 .. Repetitions :
          /\ r < rep => status[r] # "running"
          /\ r > rep => status[r] = "running"
    /\ pc \in {"ended", "finished"} => status[rep] # "running"
    /\ pc \notin {"ended", "finished", "raised"} => status[rep] = "running"
    /\ failures = 0 <=> \A r \in 1 .. Repetitions : status[r] \in {"running", "completed"}
    /\ manifest = "running" <=> pc # "finished"
    /\ pc = "finished" => rep = Repetitions /\ (manifest = "completed" <=> failures = 0)

Inv ==
    /\ TypeOK
    /\ \A h \in Hosts : OneWaiting(h)
    /\ Serving
    /\ Phases
    /\ Accounts

-----------------------------------------------------------------------------
(***************************************************************************)
(* The phases survive what workers and network do.                         *)
(***************************************************************************)
LEMMA HostEvolves ==
    ASSUME NEW h \in Hosts, Evolves(h), rep' = rep
    PROVE  /\ Harmless(h) => Harmless(h)'
           /\ Harmless(h) /\ Kept(h) => Kept(h)'
           /\ Late(h)' => Late(h) \/ (call[h] = "open" /\ call'[h] = "timedout")
           /\ Pending(h) = {} => Pending(h)' = {}
           /\ call'[h] = call[h] \/ call[h] = "open"
  BY DEF Evolves, Harmless, Kept, Late

LEMMA PhasesEvolve ==
    ASSUME Phases, UNCHANGED runVars, \A h \in Hosts : Evolves(h)
    PROVE  Phases'
<1>1. UNCHANGED <<pc, rep, todo, suspects, recovered, status>>
  BY DEF runVars
<1>2. \A h \in Hosts : /\ Harmless(h) => Harmless(h)'
                       /\ Harmless(h) /\ Kept(h) => Kept(h)'
                       /\ Late(h)' => Late(h) \/ (call[h] = "open" /\ call'[h] = "timedout")
                       /\ Pending(h) = {} => Pending(h)' = {}
                       /\ call'[h] = call[h] \/ call[h] = "open"
  BY <1>1, HostEvolves
<1>3. Resolved => Resolved' /\ \A h \in Hosts : Late(h)' => Late(h)
  BY <1>2 DEF Resolved
<1>. QED BY <1>1, <1>2, <1>3 DEF Phases, Calling, InWindow

\* They also survive a step of the runner that leaves the workers alone.
LEMMA Still ==
    ASSUME UNCHANGED poolVars
    PROVE  /\ PoolInv => PoolInv'
           /\ Serving => Serving'
           /\ Resolved => Resolved'
           /\ \A h \in Hosts : /\ Pending(h)' = Pending(h)
                               /\ Late(h)' => Late(h)
                               /\ call'[h] = call[h]
                               /\ rep' = rep => (Harmless(h) => Harmless(h)') /\ (Kept(h) => Kept(h)')
<1>1. UNCHANGED <<up, data>>
  BY DEF poolVars
<1>. QED BY <1>1, PoolStill DEF Harmless, Kept

-----------------------------------------------------------------------------
(***************************************************************************)
(* The steps of the runner: the accounts.                                  *)
(***************************************************************************)
Over == {"ended", "finished", "raised"}

Quiet ==
    /\ UNCHANGED <<rep, status, failures, manifest>>
    /\ pc \notin Over /\ pc' \notin Over

Ending == pc \notin Over /\ \E s \in {"completed", "failed", "recovery_failed"} : EndRepetition(s)

LEMMA RunnerSteps ==
    ASSUME Runner
    PROVE  Quiet \/ Ending \/ NextRepetition \/ SetUpRaises
<1> USE DEF accounts, Quiet, Over
<1>1. CASE SetUp \/ Prepare
  BY <1>1 DEF SetUp, Prepare
<1>2. CASE ResetDone \/ PrepareDone \/ CheckFails
  BY <1>2 DEF ResetDone, PrepareDone, CheckFails, After, Ending
<1>3. CASE Checked
  BY <1>3 DEF Checked, After, Ending
<1>4. CASE ExhaustBudget \/ QueryCompletes \/ QueryRaises \/ QueryFails \/ QueryTimesOut \/ EndWindow
  BY <1>4 DEF ExhaustBudget, QueryCompletes, QueryRaises, QueryFails, QueryTimesOut, EndWindow
<1>5. CASE SchedulerRaises \/ Halt
  BY <1>5 DEF SchedulerRaises, Halt, Ending
<1>6. CASE Resume \/ Restart \/ Reprepare \/ Reprepared
  BY <1>6 DEF Resume, Restart, Reprepare, Reprepared
<1>7. ASSUME NEW h \in Hosts,
             Connect(h) \/ Reset(h) \/ CheckHost(h) \/ FoundIdle(h) \/ FoundBusy(h)
                \/ RestartWorks(h) \/ RestartFails(h) \/ Recheck(h)
      PROVE  Quiet
  BY <1>7 DEF Connect, Reset, CheckHost, After, FoundIdle, FoundBusy, RestartWorks, RestartFails, Recheck
<1>8. ASSUME NEW hs \in SUBSET Hosts, StartQuery(hs)
      PROVE  Quiet
  BY <1>8 DEF StartQuery
<1>. QED BY <1>1, <1>2, <1>3, <1>4, <1>5, <1>6, <1>7, <1>8 DEF Runner

LEMMA EndAccounts ==
    ASSUME RunTypes, Accounts, Ending
    PROVE  Accounts'
<1>1. PICK s \in {"completed", "failed", "recovery_failed"} : EndRepetition(s)
  BY DEF Ending
<1>2. /\ status' = [status EXCEPT ![rep] = s] /\ pc' = "ended" /\ rep' = rep /\ manifest' = manifest
      /\ failures' = IF s # "completed" THEN failures + 1 ELSE failures
  BY <1>1 DEF EndRepetition, Fails
<1>3. /\ rep \in 1 .. Repetitions /\ failures \in Nat
      /\ \A r \in 1 .. Repetitions : status'[r] = IF r = rep THEN s ELSE status[r]
  BY <1>2 DEF RunTypes
<1>4. /\ pc \notin Over /\ status[rep] = "running" /\ manifest = "running"
      /\ \A r \in 1 .. Repetitions : /\ r < rep => status[r] # "running"
                                     /\ r > rep => status[r] = "running"
  BY DEF Ending, Accounts, Over
<1>5. /\ \A r \in 1 .. Repetitions : /\ r < rep => status'[r] # "running"
                                     /\ r > rep => status'[r] = "running"
      /\ status'[rep] # "running"
  BY <1>3, <1>4
<1>6. failures' = 0 <=> \A r \in 1 .. Repetitions : status'[r] \in {"running", "completed"}
  <2>1. failures = 0 <=> \A r \in 1 .. Repetitions : status[r] \in {"running", "completed"}
    BY DEF Accounts
  <2>2. CASE s = "completed"
    BY <1>2, <1>3, <1>4, <2>1, <2>2
  <2>3. CASE s # "completed"
    <3>1. failures' # 0
      BY <1>2, <1>3, <2>3
    <3>2. status'[rep] \notin {"running", "completed"}
      BY <1>1, <1>3, <2>3
    <3>. QED BY <1>3, <3>1, <3>2
  <2>. QED BY <2>2, <2>3
<1>. QED BY <1>2, <1>4, <1>5, <1>6 DEF Accounts

LEMMA NextAccounts ==
    ASSUME RunTypes, Accounts, NextRepetition
    PROVE  Accounts'
<1>1. pc = "ended" /\ UNCHANGED <<status, failures>> /\ rep \in 1 .. Repetitions /\ Repetitions \in Nat
  BY MonitoringAssumption DEF NextRepetition, RunTypes
<1>2. CASE rep = Repetitions
  <2>1. /\ pc' = "finished" /\ rep' = rep
        /\ manifest' = IF failures = 0 THEN "completed" ELSE "completed_with_failures"
    BY <1>2 DEF NextRepetition
  <2>. QED BY <1>1, <1>2, <2>1 DEF Accounts
<1>3. CASE rep # Repetitions
  <2>1. pc' = "reset" /\ rep' = rep + 1 /\ manifest' = manifest
    BY <1>3 DEF NextRepetition
  <2>. QED BY <1>1, <1>3, <2>1 DEF Accounts
<1>. QED BY <1>2, <1>3

LEMMA AccountsKept ==
    ASSUME RunTypes, Accounts, Runner
    PROVE  Accounts'
<1>1. CASE Quiet
  BY <1>1 DEF Quiet, Over, Accounts
<1>2. CASE SetUpRaises
  BY <1>2 DEF SetUpRaises, accounts, Accounts
<1>. QED BY <1>1, <1>2, EndAccounts, NextAccounts, RunnerSteps

-----------------------------------------------------------------------------
(***************************************************************************)
(* The steps of the runner: types and phases.                              *)
(***************************************************************************)
LEMMA EndTypes ==
    ASSUME RunTypes, NEW s \in {"completed", "failed", "recovery_failed"}, EndRepetition(s)
    PROVE  RunTypes'
  BY DEF RunTypes, EndRepetition

LEMMA RunTypesKept ==
    ASSUME RunTypes, Runner
    PROVE  RunTypes'
<1> USE MonitoringAssumption DEF accounts
<1>1. CASE Quiet
  <2>1. CASE SetUp \/ Prepare \/ ResetDone \/ PrepareDone \/ CheckFails
    BY <1>1, <2>1 DEF SetUp, Prepare, ResetDone, PrepareDone, CheckFails, RunTypes, EndRepetition
  <2>2. CASE Checked
    BY <1>1, <2>2 DEF Checked, After, RunTypes, EndRepetition
  <2>3. CASE ExhaustBudget \/ QueryRaises \/ QueryFails \/ QueryTimesOut \/ EndWindow
    BY <1>1, <2>3 DEF ExhaustBudget, QueryRaises, QueryFails, QueryTimesOut, EndWindow, RunTypes
  <2>4. CASE QueryCompletes
    <3>1. NextStep \in 0 .. TaskSize - 1
      BY DEF NextStep, RunTypes
    <3>. QED BY <2>4, <3>1 DEF QueryCompletes, RunTypes
  <2>5. CASE SchedulerRaises \/ Halt
    BY <1>1, <2>5 DEF SchedulerRaises, Halt, RunTypes, EndRepetition, Quiet, Over
  <2>6. CASE Resume \/ Restart \/ Reprepare \/ Reprepared
    BY <2>6 DEF Resume, Restart, Reprepare, Reprepared, RunTypes
  <2>7. ASSUME NEW h \in Hosts,
               Connect(h) \/ Reset(h) \/ CheckHost(h) \/ FoundIdle(h) \/ FoundBusy(h)
                  \/ RestartWorks(h) \/ RestartFails(h) \/ Recheck(h)
        PROVE  RunTypes'
    BY <2>7 DEF Connect, Reset, CheckHost, FoundIdle, FoundBusy, RestartWorks, RestartFails, Recheck, RunTypes
  <2>8. ASSUME NEW hs \in SUBSET Hosts, StartQuery(hs)
        PROVE  RunTypes'
    BY <2>8 DEF StartQuery, RunTypes
  <2>9. CASE SetUpRaises \/ NextRepetition
    BY <1>1, <2>9 DEF Quiet, Over, SetUpRaises, NextRepetition
  <2>. QED BY <2>1, <2>2, <2>3, <2>4, <2>5, <2>6, <2>7, <2>8, <2>9 DEF Runner
<1>2. CASE Ending
  BY <1>2, EndTypes DEF Ending
<1>3. CASE SetUpRaises
  BY <1>3 DEF SetUpRaises, RunTypes
<1>4. CASE NextRepetition
  BY <1>4 DEF NextRepetition, RunTypes
<1>. QED BY <1>1, <1>2, <1>3, <1>4, RunnerSteps

LEMMA QuietPhases ==
    ASSUME Workers, RunTypes, Phases,
           SetUp \/ PrepareDone \/ Checked \/ ExhaustBudget \/ QueryCompletes \/ QueryRaises
              \/ QueryFails \/ EndWindow \/ Resume \/ Restart \/ Reprepared
    PROVE  Workers' /\ Phases'
<1>1. UNCHANGED poolVars /\ rep' = rep
  BY DEF SetUp, PrepareDone, Checked, EndRepetition, ExhaustBudget, QueryCompletes, QueryRaises,
         QueryFails, EndWindow, Resume, Restart, Reprepared
<1>2. Workers'
  BY <1>1, Still DEF Workers
<1> SUFFICES Phases'
  BY <1>2
<1>3. /\ Resolved => Resolved'
      /\ \A h \in Hosts : /\ Harmless(h) => Harmless(h)'
                          /\ Kept(h) => Kept(h)'
                          /\ Late(h)' => Late(h)
                          /\ Pending(h)' = Pending(h)
                          /\ call'[h] = call[h]
  BY <1>1, Still
<1> USE DEF Calling, InWindow
<1>4. CASE SetUp \/ PrepareDone
  BY <1>3, <1>4 DEF SetUp, PrepareDone, EndRepetition, Phases, RunTypes
<1>5. CASE Checked
  <2>1. CASE pc = "prepared"
    BY <1>3, <1>5, <2>1 DEF Checked, After, Phases
  <2>2. CASE pc = "before"
    BY <1>3, <1>5, <2>2 DEF Checked, After, Phases
  <2>3. CASE pc = "after"
    BY <1>3, <1>5, <2>3 DEF Checked, After, EndRepetition, Phases
  <2>. QED BY <1>5, <2>1, <2>2, <2>3 DEF Checked, After
<1>6. CASE ExhaustBudget \/ EndWindow
  BY <1>3, <1>6 DEF ExhaustBudget, EndWindow, Phases
<1>7. CASE QueryCompletes \/ QueryRaises
  BY <1>3, <1>7 DEF QueryCompletes, QueryRaises, AllAnswered, Phases
<1>8. CASE QueryFails
  BY <1>3, <1>8 DEF QueryFails, TimedOut, Phases
<1>9. CASE Resume
  BY <1>3, <1>9 DEF Resume, Phases
<1>10. CASE Restart
  BY <1>3, <1>10 DEF Restart, Phases
<1>11. CASE Reprepared
  BY <1>3, <1>11 DEF Reprepared, AllAnswered, Phases
<1>. QED BY <1>4, <1>5, <1>6, <1>7, <1>8, <1>9, <1>10, <1>11

\* A query times out: every participant is still to be looked after, and only
\* participants had calls that could be left.
LEMMA TimeoutPhases ==
    ASSUME ~LateDelivery, Workers, RunTypes, Phases, QueryTimesOut
    PROVE  Workers' /\ Phases'
<1>1. /\ pc = "querying" /\ pc' = "idleCheck" /\ suspects' = {} /\ recovered' = {}
      /\ UNCHANGED <<rep, todo>> /\ LeaveOpen
  BY DEF QueryTimesOut
<1>2. Workers' /\ Resolved' /\ \A h \in Hosts : Evolves(h)
  BY <1>1, LeftOpen DEF Workers
<1>3. \A h \in Hosts : /\ Harmless(h) /\ Kept(h)
                       /\ Late(h) => call[h] = "timedout"
                       /\ h \notin todo => call[h] = "none"
  BY <1>1 DEF Phases, InWindow
<1>4. \A h \in Hosts : Harmless(h)' /\ Kept(h)' /\ (Late(h)' => h \in todo)
  BY <1>1, <1>2, <1>3, HostEvolves
<1>. QED BY <1>1, <1>2, <1>4 DEF Phases, Calling, InWindow

\* A host is ticked off.
LEMMA HostPhases ==
    ASSUME Workers, RunTypes, Phases, NEW h \in Hosts,
           Connect(h) \/ CheckHost(h) \/ FoundIdle(h) \/ FoundBusy(h) \/ Recheck(h)
    PROVE  Workers' /\ Phases'
<1>1. UNCHANGED <<poolVars, pc, rep, status>>
  BY DEF Connect, CheckHost, FoundIdle, FoundBusy, Recheck
<1>2. Workers'
  BY <1>1, Still DEF Workers
<1> SUFFICES Phases'
  BY <1>2
<1>3. /\ Resolved => Resolved'
      /\ \A k \in Hosts : /\ Harmless(k) => Harmless(k)'
                          /\ Kept(k) => Kept(k)'
                          /\ Late(k)' => Late(k)
                          /\ Pending(k)' = Pending(k)
                          /\ call'[k] = call[k]
  BY <1>1, Still
<1>4. Resolved /\ Idle(h) => Pending(h) = {}
  BY NobodyWaits DEF Workers
<1>5. Pending(h) = {} => Harmless(h) /\ ~Late(h)
  BY DEF Harmless, Late
<1>6. ShowsFragment(h) => Kept(h)
  BY DEF ShowsFragment, Kept
<1> USE DEF Calling, InWindow
<1>7. CASE Connect(h)
  BY <1>1, <1>3, <1>7 DEF Connect, Phases
<1>8. CASE CheckHost(h)
  BY <1>1, <1>3, <1>4, <1>5, <1>6, <1>8 DEF CheckHost, After, Phases
<1>9. CASE FoundIdle(h)
  BY <1>1, <1>3, <1>4, <1>5, <1>9 DEF FoundIdle, Phases
<1>10. CASE FoundBusy(h)
  BY <1>1, <1>3, <1>10 DEF FoundBusy, Phases
<1>11. CASE Recheck(h)
  BY <1>1, <1>3, <1>6, <1>11 DEF Recheck, Phases
<1>. QED BY <1>7, <1>8, <1>9, <1>10, <1>11

\* A repetition ends, or the next one begins.
LEMMA EndPhases ==
    ASSUME Workers, RunTypes, Phases,
           ResetDone \/ CheckFails \/ SchedulerRaises \/ Halt \/ NextRepetition \/ SetUpRaises
    PROVE  Workers' /\ Phases'
<1>1. UNCHANGED poolVars
  BY DEF ResetDone, CheckFails, SchedulerRaises, Halt, NextRepetition, SetUpRaises
<1>2. Workers'
  BY <1>1, Still DEF Workers
<1>3. Resolved => Resolved'
  BY <1>1, Still
<1>4. Resolved
  BY DEF ResetDone, CheckFails, SchedulerRaises, Halt, NextRepetition, SetUpRaises, After, Phases, Calling
<1>5. \/ pc' \in {"reset", "finished", "raised"}
      \/ pc' = "ended" /\ rep' = rep /\ status'[rep] # "completed"
  <2>1. CASE ResetDone
    BY <2>1 DEF ResetDone, EndRepetition, RunTypes
  <2>2. CASE CheckFails \/ SchedulerRaises \/ Halt
    BY <2>2 DEF CheckFails, SchedulerRaises, Halt, EndRepetition, RunTypes
  <2>3. CASE NextRepetition \/ SetUpRaises
    BY <2>3 DEF NextRepetition, SetUpRaises
  <2>. QED BY <2>1, <2>2, <2>3
<1>. QED BY <1>2, <1>3, <1>4, <1>5 DEF Phases, Calling, InWindow

LEMMA CallPhases ==
    ASSUME Workers, RunTypes, Phases,
           \/ Prepare \/ Reprepare
           \/ \E h \in Hosts : Reset(h)
           \/ \E hs \in SUBSET Hosts : StartQuery(hs)
    PROVE  Workers' /\ Phases'
<1> USE DEF Calling, InWindow
<1>1. Resolved /\ Graph[rep] \in Graphs
  BY MonitoringAssumption DEF Prepare, Reprepare, Reset, StartQuery, Phases, RunTypes
<1>2. CASE Prepare
  <2>1. Workers'
    BY <1>1, <1>2, Called DEF Prepare, Workers
  <2>. QED BY <1>2, <2>1 DEF Prepare, Phases
<1>3. ASSUME NEW h \in Hosts, Reset(h)
      PROVE  Workers' /\ Phases'
  <2>1. Workers'
    BY <1>1, <1>3, Called DEF Reset, Workers
  <2>. QED BY <1>3, <2>1 DEF Reset, Phases
<1>4. ASSUME NEW hs \in SUBSET Hosts, StartQuery(hs)
      PROVE  Workers' /\ Phases'
  <2>1. CallAll(hs, "query", Unloaded) /\ pc = "between" /\ pc' = "querying" /\ todo' = hs /\ rep' = rep
        /\ UNCHANGED <<up, data>>
    BY <1>4 DEF StartQuery, CallAll
  <2>2. /\ Workers'
        /\ \A h \in Hosts : \A q \in Pending(h)' :
              q \in Pending(h) \/ (q.op = "query" /\ q.graph = Unloaded /\ q.client = "waiting")
        /\ \A h \in Hosts : Late(h)' => Late(h)
        /\ \A h \in Hosts : call'[h] = IF h \in hs THEN "open" ELSE "none"
    <3>1. PoolInv /\ Serving
      BY DEF Workers
    <3>2. "query" \in {"reset", "prepare", "query"} /\ Unloaded \in Graphs \cup {Unloaded}
      OBVIOUS
    <3>. QED BY <1>1, <2>1, <3>1, <3>2, Called DEF Workers
  <2>3. \A h \in Hosts : Harmless(h)' /\ Kept(h)' /\ ~Late(h)'
    BY <2>1, <2>2 DEF Phases, Harmless, Kept
  <2>. QED BY <2>1, <2>2, <2>3 DEF Phases
<1>5. CASE Reprepare
  <2>1. /\ CallAll(suspects, "prepare", Graph[rep])
        /\ pc = "restarting" /\ pc' = "repreparing" /\ recovered = suspects
        /\ UNCHANGED <<rep, suspects, up, data>>
    BY <1>5 DEF Reprepare, AllRecovered, CallAll
  <2>2. /\ Workers'
        /\ \A h \in Hosts : \A q \in Pending(h)' :
              q \in Pending(h) \/ (q.op = "prepare" /\ q.graph = Graph[rep] /\ q.client = "waiting")
        /\ \A h \in Hosts : Late(h)' => Late(h)
    <3>1. PoolInv /\ Serving /\ Resolved
      BY <1>1 DEF Workers
    <3>2. ASSUME NEW hs \in SUBSET Hosts, NEW g \in Graphs \cup {Unloaded}, CallAll(hs, "prepare", g)
          PROVE  /\ PoolInv' /\ Serving'
                 /\ \A h \in Hosts : \A q \in Pending(h)' :
                       q \in Pending(h) \/ (q.op = "prepare" /\ q.graph = g /\ q.client = "waiting")
                 /\ \A h \in Hosts : Late(h)' => Late(h)
                 /\ \A h \in Hosts : call'[h] = IF h \in hs THEN "open" ELSE "none"
      BY <3>1, <3>2, Called
    <3>. QED BY <1>1, <2>1, <3>2 DEF Workers, RunTypes
  <2>3. \A h \in Hosts : Harmless(h)' /\ ~Late(h)'
    BY <2>1, <2>2 DEF Phases, Harmless
  <2>4. \A h \in Hosts \ suspects : Kept(h)'
    BY <2>1 DEF Phases, Kept
  <2>. QED BY <2>1, <2>2, <2>3, <2>4 DEF Phases
<1>. QED BY <1>2, <1>3, <1>4, <1>5

LEMMA RestartPhases ==
    ASSUME Workers, RunTypes, Phases, NEW h \in Hosts, RestartWorks(h) \/ RestartFails(h)
    PROVE  Workers' /\ Phases'
<1> USE DEF Calling, InWindow
<1>1. /\ pc = "restarting" /\ h \in todo /\ todo' = todo \ {h}
      /\ UNCHANGED <<pc, rep, suspects>>
      /\ Resolved
  BY DEF RestartWorks, RestartFails, Phases
<1>2. CASE Renew(h)
  <2>1. /\ Workers' /\ Resolved'
        /\ Pending(h)' = {}
        /\ \A k \in Hosts \ {h} : /\ Pending(k)' = Pending(k)
                                  /\ up'[k] = up[k] /\ data'[k] = data[k]
    BY <1>1, <1>2, Renewed DEF Workers
  <2>2. \A k \in Hosts : /\ Harmless(k)'
                         /\ k # h => (Kept(k) => Kept(k)')
                         /\ Late(k)' => Late(k) /\ k # h
    BY <1>1, <2>1 DEF Phases, Harmless, Kept, Late
  <2>3. recovered' \subseteq recovered \cup {h}
    BY DEF RestartWorks, RestartFails
  <2>. QED BY <1>1, <2>1, <2>2, <2>3 DEF Phases
<1>3. CASE UNCHANGED poolVars /\ recovered' = recovered
  <2>1. Workers' /\ Resolved'
    BY <1>1, <1>3, Still DEF Workers
  <2>2. \A k \in Hosts : /\ Harmless(k) => Harmless(k)'
                         /\ Kept(k) => Kept(k)'
                         /\ Late(k)' => Late(k)
    BY <1>1, <1>3, Still
  <2>. QED BY <1>1, <1>3, <2>1, <2>2 DEF Phases
<1>. QED BY <1>2, <1>3 DEF RestartWorks, RestartFails

-----------------------------------------------------------------------------
LEMMA Initially == Init => Inv
<1> SUFFICES ASSUME Init PROVE Inv
  OBVIOUS
<1> USE MonitoringAssumption, PoolAssumption DEF Init, PoolInit
<1>1. PoolTypes
  BY DEF PoolTypes, Calls
<1>2. RunTypes
  BY DEF RunTypes, accounts
<1>3. \A h \in Hosts : OneWaiting(h)
  BY DEF OneWaiting, Pending, Requests
<1>4. Serving /\ Phases /\ Accounts
  BY DEF Serving, Phases, Accounts, Resolved, Calling, InWindow
<1>. QED BY <1>1, <1>2, <1>3, <1>4 DEF Inv, TypeOK

LEMMA InvKept ==
    ASSUME ~LateDelivery, Inv, [Next]_vars
    PROVE  Inv'
<1>1. Workers /\ RunTypes /\ Phases /\ Accounts
  BY DEF Inv, TypeOK, Workers, PoolInv
<1>2. SUFFICES Workers' /\ RunTypes' /\ Phases' /\ Accounts'
  BY DEF Inv, TypeOK, Workers, PoolInv
<1>3. CASE PoolStep /\ UNCHANGED runVars
  <2>1. Workers' /\ \A h \in Hosts : Evolves(h)
    BY <1>1, <1>3, PoolStepEvolves DEF Workers
  <2>2. RunTypes' /\ Accounts'
    BY <1>1, <1>3 DEF runVars, accounts, RunTypes, Accounts
  <2>. QED BY <1>1, <1>3, <2>1, <2>2, PhasesEvolve
<1>4. CASE Runner
  <2>1. Workers' /\ Phases'
    BY <1>1, <1>4, QuietPhases, TimeoutPhases, HostPhases, EndPhases, CallPhases, RestartPhases DEF Runner
  <2>. QED BY <1>1, <1>4, <2>1, AccountsKept, RunTypesKept
<1>5. CASE UNCHANGED vars
  <2>1. UNCHANGED <<poolVars, pc, rep, todo, suspects, recovered, step, asked, status, failures, manifest>>
    BY <1>5 DEF vars, runVars, accounts
  <2>2. Workers' /\ Resolved => Resolved'
    BY <2>1, Still
  <2>3. Workers'
    BY <1>1, <2>1, Still DEF Workers
  <2>4. \A h \in Hosts : /\ Pending(h)' = Pending(h) /\ (Late(h)' => Late(h)) /\ call'[h] = call[h]
                         /\ (Harmless(h) => Harmless(h)') /\ (Kept(h) => Kept(h)')
    BY <2>1, Still
  <2>5. Phases'
    BY <1>1, <2>1, <2>4, Still DEF Phases, Calling, InWindow
  <2>. QED BY <1>1, <2>1, <2>3, <2>5 DEF RunTypes, Accounts
<1>. QED BY <1>3, <1>4, <1>5 DEF Next

\* The invariant holds throughout, if late requests are never delivered.
THEOREM InvHolds ==
    ASSUME ~LateDelivery
    PROVE  Spec => []Inv
<1>1. Inv /\ [Next]_vars => Inv'
  BY InvKept
<1>. QED BY <1>1, Initially, PTL DEF Spec

\* Every variable keeps to its type.
THEOREM TypeCorrect ==
    ASSUME ~LateDelivery
    PROVE  Spec => []TypeOK
<1>1. Inv => TypeOK
  BY DEF Inv
<1>. QED BY <1>1, InvHolds, PTL

\* Before the next cycle can start, no worker has work of a query that timed
\* out: what _recover_after_timeout waits for.
THEOREM NothingLeft ==
    ASSUME ~LateDelivery
    PROVE  Spec => []TimeoutsLeaveNothing
<1>1. Inv => TimeoutsLeaveNothing
  BY DEF Inv, Phases, Late, Pending, TimeoutsLeaveNothing
<1>. QED BY <1>1, InvHolds, PTL

\* In the window, a worker that runs has the fragment prepared for this
\* repetition, whatever earlier repetitions have left in its queue.
THEOREM Measured ==
    ASSUME ~LateDelivery
    PROVE  Spec => []GraphIsKept
<1>1. Inv => GraphIsKept
  BY DEF Inv, Phases, Kept, GraphIsKept
<1>. QED BY <1>1, InvHolds, PTL

\* A completed repetition leaves no request in any worker or on the way.
THEOREM QuietAtTheEnd ==
    ASSUME ~LateDelivery
    PROVE  Spec => []CompletedIsQuiet
<1>1. ASSUME Inv PROVE CompletedIsQuiet
  <2>1. ASSUME NEW h \in Hosts, Pending(h) = {}
        PROVE  line[h] = <<>> /\ transit[h] = {}
    <3>1. line[h] \in Seq(Request) /\ Requests(h) = {}
      BY <1>1, <2>1 DEF Inv, TypeOK, PoolTypes, Pending
    <3>2. Len(line[h]) = 0
      <4>1. Len(line[h]) \in Nat /\ DOMAIN line[h] = 1 .. Len(line[h])
        BY <3>1
      <4>2. 1 \notin DOMAIN line[h]
        BY <3>1 DEF Requests
      <4>. QED BY <4>1, <4>2
    <3>3. line[h] = <<>>
      BY <3>1, <3>2
    <3>. QED BY <2>1, <3>3 DEF Pending
  <2>. QED BY <1>1, <2>1 DEF Inv, Phases, CompletedIsQuiet
<1>. QED BY <1>1, InvHolds, PTL

\* What the manifest says is true, even if late requests are delivered: the
\* accounts depend on the runner alone.
THEOREM Truthful == Spec => []ManifestIsTruthful
<1>1. Init => RunTypes /\ Accounts
  BY Initially DEF Inv, TypeOK
<1>2. RunTypes /\ Accounts /\ [Next]_vars => RunTypes' /\ Accounts'
  <2>1. ASSUME RunTypes, Accounts, Runner
        PROVE  RunTypes' /\ Accounts'
    BY <2>1, AccountsKept, RunTypesKept
  <2>2. ASSUME RunTypes, Accounts, UNCHANGED runVars
        PROVE  RunTypes' /\ Accounts'
    BY <2>2 DEF runVars, accounts, RunTypes, Accounts
  <2>. QED BY <2>1, <2>2 DEF Next, vars
<1>3. ASSUME RunTypes, Accounts
      PROVE  ManifestIsTruthful
  <2>1. /\ rep \in 1 .. Repetitions /\ Repetitions \in Nat
        /\ \A r \in 1 .. Repetitions : r < rep => status[r] # "running"
        /\ failures = 0 <=> \A r \in 1 .. Repetitions : status[r] \in {"running", "completed"}
        /\ manifest = "running" <=> pc # "finished"
        /\ pc = "finished" => rep = Repetitions /\ status[rep] # "running" /\ (manifest = "completed" <=> failures = 0)
    BY <1>3, MonitoringAssumption DEF RunTypes, Accounts
  <2>2. CASE pc = "finished"
    <3>1. \A r \in 1 .. Repetitions : status[r] # "running"
      BY <2>1, <2>2
    <3>. QED BY <2>1, <2>2, <3>1 DEF ManifestIsTruthful
  <2>3. CASE pc # "finished"
    BY <2>1, <2>3 DEF ManifestIsTruthful
  <2>. QED BY <2>2, <2>3
<1>. QED BY <1>1, <1>2, <1>3, PTL DEF Spec
=============================================================================
