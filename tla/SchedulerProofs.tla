--------------------------- MODULE SchedulerProofs -----------------------------
(***************************************************************************)
(* Proofs about Scheduler, for every set of tasks, every interval,         *)
(* deadline and priority the configuration accepts, every window and every *)
(* duration of the executions.                                             *)
(***************************************************************************)
EXTENDS Scheduler, MonitoringConfig, FiniteSetTheorems, TLAPS

\* What the loop keeps true of its control: something runs exactly while
\* execute() is on the stack, it started in the past, and the batch is finite.
Control ==
    /\ IsFiniteSet(due)
    /\ \A r \in running : r.start <= clock
    /\ pc # "executing" => running = {}
    /\ pc = "executing" => \E r \in [task : Tasks, slot : Nat, start : Nat] : running = {r}

LEMMA EffectiveDeadlineType ==
    ASSUME NEW t \in Tasks
    PROVE  /\ EffectiveDeadline(t) \in Nat
           /\ EffectiveDeadline(t) <= Interval[t]
BY ConfigAssumption DEF ConfigAssumption, EffectiveDeadline, Lesser

LEMMA AdvanceType ==
    ASSUME TypeOK, NEW t \in Tasks
    PROVE  Advance(t) \in [Tasks -> Nat]
BY ConfigAssumption DEF ConfigAssumption, TypeOK, Advance

LEMMA MissedEventType ==
    ASSUME NEW t \in Tasks, NEW s \in Nat, NEW reason \in MissedReasons
    PROVE  MissedEvent(t, s, reason) \in Event
BY DEF MissedEvent, Event, MissedReasons, NoTime, Executions

LEMMA ExecutedEventType ==
    ASSUME NEW r \in [task : Tasks, slot : Nat, start : Nat],
           NEW x \in Executions, NEW finish \in Nat
    PROVE  ExecutedEvent(r, x, finish) \in Event
BY DEF ExecutedEvent, Event, MissedReasons, NoTime, Executions

\* TypeOK with Control is inductive.
LEMMA TypeInductive == TypeOK /\ Control /\ [Next]_vars => TypeOK' /\ Control'
<1> SUFFICES ASSUME TypeOK, Control, [Next]_vars
             PROVE  TypeOK' /\ Control'
    OBVIOUS
<1> USE ConfigAssumption DEF ConfigAssumption
<1> USE DEF ReadsClock
<1>1. CASE Tick
      BY <1>1 DEF Tick, TypeOK, Control
<1>2. CASE Loop
      BY <1>2 DEF Loop, TypeOK, Control
<1>3. CASE WindowEnds
      BY <1>3 DEF WindowEnds, TypeOK, Control
<1>4. CASE NotYetDue
      BY <1>4 DEF NotYetDue, TypeOK, Control
<1>5. CASE Sleep
      BY <1>5 DEF Sleep, TypeOK, Control
<1>6. CASE StartScan
      BY <1>6 DEF StartScan, TypeOK, Control
<1>7. ASSUME NEW t \in Tasks, ScanTask(t)
      PROVE  TypeOK' /\ Control'
  <2>1. Advance(t) \in [Tasks -> Nat]
        BY AdvanceType
  <2>2. MissedEvent(t, nextDue[t], "scheduler_busy") \in Event
        BY MissedEventType DEF TypeOK, MissedReasons
  <2>3. [task |-> t, slot |-> nextDue[t]] \in [task : Tasks, slot : Nat]
        BY DEF TypeOK
  <2>4. IsFiniteSet(due \cup {[task |-> t, slot |-> nextDue[t]]})
        BY FS_AddElement DEF Control
  <2>5. TypeOK'
        BY <1>7, <2>1, <2>2, <2>3 DEF ScanTask, TypeOK
  <2>6. Control'
        BY <1>7, <2>4 DEF ScanTask, Control
  <2> QED BY <2>5, <2>6
<1>8. CASE EndScan
  <2>1. Cardinality(due) \in Nat
        BY FS_CardinalityType DEF Control
  <2> QED BY <1>8, <2>1 DEF EndScan, TypeOK, Control, Greater
<1>9. CASE BatchDone
      BY <1>9 DEF BatchDone, TypeOK, Control
<1>10. ASSUME NEW item \in due, MissDeadline(item)
       PROVE  TypeOK' /\ Control'
  <2>1. MissedEvent(item.task, item.slot, "task_deadline_elapsed_before_start") \in Event
        BY MissedEventType DEF TypeOK, MissedReasons
  <2>2. IsFiniteSet(due \ {item})
        BY FS_RemoveElement DEF Control
  <2> QED BY <1>10, <2>1, <2>2 DEF MissDeadline, TypeOK, Control
<1>11. ASSUME NEW item \in due, StartExecution(item)
       PROVE  TypeOK' /\ Control'
  <2>1. IsFiniteSet(due \ {item})
        BY FS_RemoveElement DEF Control
  <2>2. [task |-> item.task, slot |-> item.slot, start |-> clock] \in [task : Tasks, slot : Nat, start : Nat]
        BY DEF TypeOK
  <2>3. TypeOK'
        BY <1>11, <2>2 DEF StartExecution, ActualStart, TypeOK
  <2>4. pc' = "executing" /\ due' = due \ {item} /\ clock' = clock
        /\ running' = {[task |-> item.task, slot |-> item.slot, start |-> clock]}
        BY <1>11 DEF StartExecution, ActualStart
  <2>5. \A r \in running' : r.start <= clock'
        BY <2>4 DEF TypeOK
  <2>6. Control'
        BY <2>1, <2>2, <2>4, <2>5 DEF Control
  <2> QED BY <2>3, <2>6
<1>12. ASSUME NEW x \in Executions, NEW failed \in BOOLEAN, FinishExecution(x, failed)
       PROVE  TypeOK' /\ Control'
  <2>1. PICK r \in [task : Tasks, slot : Nat, start : Nat] : running = {r}
        BY <1>12 DEF FinishExecution, Control
  <2>2. ExecutedEvent(r, x, clock) \in Event
        BY ExecutedEventType DEF TypeOK
  <2>3. (CHOOSE q \in running : TRUE) = r
        BY <2>1
  <2>4. r.start <= clock
        BY <2>1 DEF Control
  <2>5. Spent(r) \in Nat
        BY <2>4 DEF Spent, TypeOK
  <2>6. events' \subseteq Event
        BY <1>12, <2>1, <2>2 DEF FinishExecution, TypeOK
  <2>7. busy' = busy + (clock - r.start)
        BY <1>12, <2>3 DEF FinishExecution, Spent
  <2>8. busy' \in Nat
        BY <2>7, <2>5 DEF TypeOK, Spent
  <2> QED BY <1>12, <2>6, <2>8 DEF FinishExecution, TypeOK, Control
<1>13. ASSUME NEW t \in Tasks, DrainSlot(t)
       PROVE  TypeOK' /\ Control'
  <2>1. Advance(t) \in [Tasks -> Nat]
        BY AdvanceType
  <2>2. \A reason \in MissedReasons : MissedEvent(t, nextDue[t], reason) \in Event
        BY MissedEventType DEF TypeOK
  <2> QED BY <1>13, <2>1, <2>2 DEF DrainSlot, TypeOK, Control, MissedReasons
<1>14. CASE Return
       BY <1>14 DEF Return, TypeOK, Control
<1>15. CASE UNCHANGED vars
       BY <1>15 DEF vars, TypeOK, Control
<1> QED BY <1>1, <1>2, <1>3, <1>4, <1>5, <1>6, <1>7, <1>8, <1>9, <1>10, <1>11, <1>12,
           <1>13, <1>14, <1>15 DEF Next, Step

\* The initial state.
LEMMA TypeInitially == Init => TypeOK /\ Control
<1> SUFFICES ASSUME Init PROVE TypeOK /\ Control
    OBVIOUS
<1>1. \A t \in Tasks : Interval[t] \in Nat
      BY ConfigAssumption DEF ConfigAssumption
<1>2. TypeOK
      BY <1>1 DEF Init, TypeOK, ReadsClock
<1>3. IsFiniteSet({})
      BY FS_EmptySet
<1>4. Control
      BY <1>3 DEF Init, Control
<1> QED BY <1>2, <1>4

\* Type correctness: in particular busy_seconds never decreases below zero and
\* every event that is recorded is one of those the reports know.
THEOREM TypeCorrect == Spec => []TypeOK
<1>1. Init => TypeOK /\ Control
      BY TypeInitially
<1>2. (TypeOK /\ Control) /\ [Next]_vars => (TypeOK /\ Control)'
      BY TypeInductive
<1> QED BY <1>1, <1>2, PTL DEF Spec

-----------------------------------------------------------------------------
(***************************************************************************)
(* Time.  A slot enters the batch only when its instant has been reached,  *)
(* and what has finished or been accounted for lies in the past of         *)
(* whatever starts next.                                                   *)
(***************************************************************************)
Stamped ==
    /\ stamp <= clock
    /\ \A d \in due : d.slot <= stamp

InThePast ==
    /\ busy <= clock
    /\ \A r \in running : busy <= r.start
    /\ \A e \in events : Executed(e) => /\ e.start \in Nat /\ e.finish \in Nat
                                        /\ e.finish <= clock
                                        /\ \A r \in running : e.finish <= r.start

Time == Stamped /\ InThePast /\ NoCatchUpBurst /\ LogicalConcurrencyOne

LEMMA TimeUnchanged ==
    ASSUME Time, UNCHANGED <<stamp, due, running, events, busy>>, clock' \in Nat, clock \in Nat, clock <= clock',
           TypeOK, TypeOK'
    PROVE  Time'
BY DEF Time, Stamped, InThePast, NoCatchUpBurst, LogicalConcurrencyOne, TypeOK, Executed, Event

LEMMA TimeMissed ==
    ASSUME Time, TypeOK, NEW e \in Event, ~Executed(e), events' = events \cup {e},
           UNCHANGED <<clock, stamp, running, busy>>,
           \A d \in due' : d.slot <= stamp
    PROVE  Time'
BY DEF Time, Stamped, InThePast, NoCatchUpBurst, LogicalConcurrencyOne, Executed

LEMMA TimeInductive == TypeOK /\ TypeOK' /\ Control /\ Time /\ [Next]_vars => Time'
<1> SUFFICES ASSUME TypeOK, TypeOK', Control, Time, [Next]_vars
             PROVE  Time'
    OBVIOUS
<1> USE ConfigAssumption DEF ConfigAssumption
<1>1. CASE Tick
      BY <1>1, TimeUnchanged DEF Tick, TypeOK
<1>2. CASE Loop \/ WindowEnds \/ NotYetDue \/ Sleep \/ EndScan \/ BatchDone \/ Return \/ UNCHANGED vars
  <2>1. UNCHANGED <<clock, stamp, due, running, events, busy>>
        BY <1>2 DEF Loop, WindowEnds, NotYetDue, Sleep, EndScan, BatchDone, Return, vars
  <2> QED BY <2>1, TimeUnchanged DEF TypeOK
<1>3. CASE StartScan
      BY <1>3 DEF StartScan, TypeOK, Time, Stamped, InThePast, NoCatchUpBurst, LogicalConcurrencyOne
<1>4. ASSUME NEW t \in Tasks, ScanTask(t)
      PROVE  Time'
  <2>1. CASE ~Passed(t)
    <3>1. UNCHANGED <<clock, stamp, due, running, events, busy>>
          BY <1>4, <2>1 DEF ScanTask
    <3> QED BY <3>1, TimeUnchanged DEF TypeOK
  <2>2. CASE Passed(t) /\ due' = due \cup {[task |-> t, slot |-> nextDue[t]]} /\ events' = events
    <3>1. \A d \in due' : d.slot <= stamp
          BY <2>2 DEF Passed, Time, Stamped
    <3> QED BY <1>4, <2>2, <3>1 DEF ScanTask, Time, Stamped, InThePast, NoCatchUpBurst, LogicalConcurrencyOne
  <2>3. CASE due' = due /\ events' = events \cup {MissedEvent(t, nextDue[t], "scheduler_busy")}
    <3>1. MissedEvent(t, nextDue[t], "scheduler_busy") \in Event
          BY MissedEventType DEF TypeOK, MissedReasons
    <3>2. ~Executed(MissedEvent(t, nextDue[t], "scheduler_busy"))
          BY DEF Executed, MissedEvent
    <3>3. \A d \in due' : d.slot <= stamp
          BY <2>3 DEF Time, Stamped
    <3>4. UNCHANGED <<clock, stamp, running, busy>>
          BY <1>4 DEF ScanTask
    <3> QED BY <2>3, <3>1, <3>2, <3>3, <3>4, TimeMissed
  <2> QED BY <1>4, <2>1, <2>2, <2>3 DEF ScanTask
<1>5. ASSUME NEW item \in due, MissDeadline(item)
      PROVE  Time'
  <2> DEFINE e == MissedEvent(item.task, item.slot, "task_deadline_elapsed_before_start")
  <2>1. e \in Event
        BY MissedEventType DEF TypeOK, MissedReasons
  <2>2. ~Executed(e)
        BY DEF Executed, MissedEvent
  <2>3. \A d \in due' : d.slot <= stamp
        BY <1>5 DEF MissDeadline, Time, Stamped
  <2>4. UNCHANGED <<clock, stamp, running, busy>> /\ events' = events \cup {e}
        BY <1>5 DEF MissDeadline
  <2> HIDE DEF e
  <2> QED BY <2>1, <2>2, <2>3, <2>4, TimeMissed
<1>6. ASSUME NEW item \in due, StartExecution(item)
      PROVE  Time'
  <2> DEFINE r == [task |-> item.task, slot |-> item.slot, start |-> clock]
  <2>1. /\ running' = {r} /\ due' = due \ {item}
        /\ UNCHANGED <<clock, stamp, events, busy>>
        BY <1>6 DEF StartExecution, ActualStart
  <2>2. item.task \in Tasks /\ item.slot \in Nat
        BY DEF TypeOK
  <2> DEFINE E == EffectiveDeadline(item.task)
  <2>7. E \in Nat /\ E <= Interval[item.task] /\ Interval[item.task] \in Nat
        BY <2>2, EffectiveDeadlineType
  <2>8. Lesser(item.slot + E - clock, Window - clock) > 0
        BY <1>6 DEF StartExecution, Remaining, ActualStart
  <2> HIDE DEF E
  <2>9. clock \in Nat /\ stamp \in Nat /\ Window \in Nat
        BY DEF TypeOK
  <2>3. clock < item.slot + E /\ clock < Window
        BY <2>2, <2>7, <2>8, <2>9 DEF Lesser
  <2>10. item.slot <= clock
        BY <2>2, <2>9 DEF Time, Stamped
  <2>4. item.slot <= clock /\ clock < item.slot + Interval[item.task]
        BY <2>2, <2>3, <2>7, <2>9, <2>10
  <2>5. Stamped' /\ InThePast'
        BY <2>1 DEF Time, Stamped, InThePast
  <2>6. NoCatchUpBurst' /\ LogicalConcurrencyOne'
        BY <2>1, <2>3, <2>4 DEF Time, NoCatchUpBurst, LogicalConcurrencyOne
  <2> QED BY <2>5, <2>6 DEF Time
<1>7. ASSUME NEW x \in Executions, NEW failed \in BOOLEAN, FinishExecution(x, failed)
      PROVE  Time'
  <2>1. PICK r \in [task : Tasks, slot : Nat, start : Nat] : running = {r}
        BY <1>7 DEF FinishExecution, Control
  <2> DEFINE e == ExecutedEvent(r, x, clock)
  <2>2. /\ e.task = r.task /\ e.slot = r.slot /\ e.start = r.start /\ e.finish = clock
        BY DEF ExecutedEvent
  <2>3. (CHOOSE q \in running : TRUE) = r
        BY <2>1
  <2>4. /\ events' = events \cup {e} /\ running' = {} /\ busy' = busy + (clock - r.start)
        /\ UNCHANGED <<clock, stamp, due>>
        BY <1>7, <2>1, <2>3 DEF FinishExecution, Spent
  <2> HIDE DEF e
  <2>5. r.start <= clock /\ busy <= r.start
        BY <2>1 DEF Control, Time, InThePast
  <2>6. Stamped' /\ InThePast'
        BY <2>1, <2>2, <2>4, <2>5 DEF Time, Stamped, InThePast, TypeOK
  <2>7. NoCatchUpBurst'
        BY <2>1, <2>2, <2>4 DEF Time, NoCatchUpBurst
  <2>8. LogicalConcurrencyOne'
        BY <2>1, <2>2, <2>4 DEF Time, InThePast, LogicalConcurrencyOne
  <2> QED BY <2>6, <2>7, <2>8 DEF Time
<1>8. ASSUME NEW t \in Tasks, DrainSlot(t)
      PROVE  Time'
  <2>1. PICK reason \in MissedReasons : events' = events \cup {MissedEvent(t, nextDue[t], reason)}
        BY <1>8 DEF DrainSlot, MissedReasons
  <2>2. MissedEvent(t, nextDue[t], reason) \in Event
        BY MissedEventType DEF TypeOK
  <2>3. ~Executed(MissedEvent(t, nextDue[t], reason))
        BY DEF Executed, MissedEvent
  <2>4. UNCHANGED <<clock, stamp, running, busy, due>>
        BY <1>8 DEF DrainSlot
  <2>5. \A d \in due' : d.slot <= stamp
        BY <2>4 DEF Time, Stamped
  <2> QED BY <2>1, <2>2, <2>3, <2>4, <2>5, TimeMissed
<1> QED BY <1>1, <1>2, <1>3, <1>4, <1>5, <1>6, <1>7, <1>8 DEF Next, Step

LEMMA TimeInitially == Init => Time
BY DEF Init, Time, Stamped, InThePast, NoCatchUpBurst, LogicalConcurrencyOne

LEMMA TimeInvariant == Spec => [](TypeOK /\ Control /\ Time)
<1>1. Init => TypeOK /\ Control /\ Time
      BY TypeInitially, TimeInitially
<1>2. (TypeOK /\ Control /\ Time) /\ [Next]_vars => (TypeOK /\ Control /\ Time)'
      BY TypeInductive, TimeInductive
<1> QED BY <1>1, <1>2, PTL DEF Spec

\* No catch-up burst, whatever the durations of the executions.
THEOREM NoBurst == Spec => []NoCatchUpBurst
BY TimeInvariant, PTL DEF Time

\* Executions never overlap, however many tasks share an instant.
THEOREM OneAtATime == Spec => []LogicalConcurrencyOne
BY TimeInvariant, PTL DEF Time

\* The busy time never exceeds the elapsed time.
THEOREM Utilization == Spec => []UtilizationBound
<1>1. TypeOK /\ Control /\ Time => UtilizationBound
      BY DEF TypeOK, Control, Time, InThePast, UtilizationBound, Spent
<1> QED BY <1>1, TimeInvariant, PTL

-----------------------------------------------------------------------------
(***************************************************************************)
(* Conservation of slots.  The pointwise form below is inductive: every    *)
(* slot below next_due is in the ledger, in the batch or running, never in *)
(* two of them; next_due itself stays on the grid of the task and is at    *)
(* most one interval beyond a slot of the window.                          *)
(***************************************************************************)
Has(S, t, s) == \E x \in S : x.task = t /\ x.slot = s

OnGrid(t, d) == \E k \in Nat \ {0} : d = k * Interval[t] /\ (k - 1) * Interval[t] < Window

Grid == \A t \in Tasks : OnGrid(t, nextDue[t])

Placed ==
    \A x \in events \cup due \cup running :
        x.task \in Tasks /\ x.slot \in Slots(x.task) /\ x.slot < Window /\ x.slot < nextDue[x.task]

Taken ==
    \A t \in Tasks, s \in Nat :
        s \in Slots(t) /\ s < nextDue[t] => Has(events, t, s) \/ Has(due, t, s) \/ Has(running, t, s)

Distinct ==
    \A t \in Tasks, s \in Nat :
        /\ ~(Has(events, t, s) /\ Has(due, t, s))
        /\ ~(Has(events, t, s) /\ Has(running, t, s))
        /\ ~(Has(due, t, s) /\ Has(running, t, s))
        /\ \A e, f \in events : e.task = t /\ e.slot = s /\ f.task = t /\ f.slot = s => e = f

Slotted == Grid /\ Placed /\ Taken /\ Distinct

\* Multiples of an interval are at least an interval apart.
LEMMA MultiplesApart ==
    ASSUME NEW i \in Nat \ {0}, NEW j \in Nat, NEW k \in Nat, j * i < k * i
    PROVE  j < k /\ j * i <= (k - 1) * i
<1>1. j < k
  <2> SUFFICES ASSUME j >= k PROVE FALSE
      OBVIOUS
  <2>1. PICK n \in Nat : j = k + n
        BY j - k \in Nat
  <2>2. j * i = k * i + n * i
        BY <2>1
  <2>3. n * i \in Nat /\ k * i \in Nat
        OBVIOUS
  <2> QED BY <2>2, <2>3
<1>2. PICK n \in Nat : k - 1 = j + n
      BY <1>1, k - 1 - j \in Nat
<1>3. (k - 1) * i = j * i + n * i
      BY <1>2
<1>4. n * i \in Nat /\ j * i \in Nat
      OBVIOUS
<1> QED BY <1>1, <1>3, <1>4

\* Advancing next_due passes exactly one slot of the task.
LEMMA OneSlotPassed ==
    ASSUME NEW t \in Tasks, NEW d \in Nat, OnGrid(t, d), d < Window
    PROVE  /\ d \in Slots(t)
           /\ OnGrid(t, d + Interval[t])
           /\ d < d + Interval[t]
           /\ \A s \in Slots(t) : s < d + Interval[t] => s < d \/ s = d
<1> DEFINE i == Interval[t]
<1>1. i \in Nat \ {0} /\ Window \in Nat \ {0}
      BY ConfigAssumption DEF ConfigAssumption
<1>2. PICK k \in Nat \ {0} : d = k * i
      BY DEF OnGrid
<1> HIDE DEF i
<1>3. k <= k * i
  <2>1. PICK n \in Nat : i = 1 + n
        BY <1>1, i - 1 \in Nat
  <2>2. k * i = k + k * n
        BY <2>1
  <2>3. k * n \in Nat
        OBVIOUS
  <2> QED BY <2>2, <2>3
<1>4. k \in 1 .. Window
      BY <1>1, <1>2, <1>3
<1>5. d \in Slots(t)
      BY <1>2, <1>4 DEF Slots, i
<1>6. (k + 1) * i = d + i /\ (k + 1) - 1 = k
      BY <1>1, <1>2
<1>7. OnGrid(t, d + Interval[t])
      BY <1>1, <1>2, <1>6 DEF OnGrid, i
<1>8. ASSUME NEW s \in Slots(t), s < d + i
      PROVE  s < d \/ s = d
  <2>1. PICK n \in 1 .. Window : s = n * i
        BY DEF Slots, i
  <2>2. n * i < (k + 1) * i
        BY <1>6, <1>8, <2>1
  <2>3. n * i <= ((k + 1) - 1) * i
        BY <1>1, <2>2, MultiplesApart
  <2>4. s <= d
        BY <1>2, <1>6, <2>1, <2>3
  <2> QED BY <1>1, <2>1, <2>4
<1> QED BY <1>1, <1>5, <1>7, <1>8 DEF i

\* The slot under next_due is nowhere yet.
LEMMA NextIsFresh ==
    ASSUME TypeOK, Slotted, NEW t \in Tasks
    PROVE  /\ ~Has(events, t, nextDue[t])
           /\ ~Has(due, t, nextDue[t])
           /\ ~Has(running, t, nextDue[t])
<1>1. nextDue[t] \in Nat
      BY DEF TypeOK
<1> QED BY <1>1 DEF Slotted, Placed, Has

\* Taking the next slot of a task into the ledger.
LEMMA TakeIntoLedger ==
    ASSUME TypeOK, Slotted, NEW t \in Tasks, nextDue[t] < Window,
           NEW e, e.task = t, e.slot = nextDue[t],
           events' = events \cup {e}, nextDue' = Advance(t), UNCHANGED <<due, running>>
    PROVE  Slotted'
<1> DEFINE d == nextDue[t]
<1>1. /\ d \in Nat /\ Interval[t] \in Nat \ {0}
      /\ nextDue \in [Tasks -> Nat]
      BY ConfigAssumption DEF ConfigAssumption, TypeOK
<1>2. /\ d \in Slots(t)
      /\ OnGrid(t, d + Interval[t])
      /\ \A s \in Slots(t) : s < d + Interval[t] => s < d \/ s = d
      BY <1>1, OneSlotPassed DEF Slotted, Grid
<1>3. /\ nextDue'[t] = d + Interval[t]
      /\ \A u \in Tasks : u # t => nextDue'[u] = nextDue[u]
      /\ \A u \in Tasks : nextDue[u] <= nextDue'[u] /\ nextDue[u] \in Nat /\ nextDue'[u] \in Nat
      BY <1>1 DEF Advance
<1>4. ~Has(events, t, d) /\ ~Has(due, t, d) /\ ~Has(running, t, d)
      BY NextIsFresh
<1>5. Grid'
      BY <1>2, <1>3 DEF Slotted, Grid, OnGrid
<1>6. ASSUME NEW x \in events' \cup due' \cup running'
      PROVE  x.task \in Tasks /\ x.slot \in Slots(x.task) /\ x.slot < Window /\ x.slot < nextDue'[x.task]
  <2>1. CASE x = e
        BY <2>1, <1>1, <1>2, <1>3
  <2>2. CASE x \in events \cup due \cup running
    <3>1. x.task \in Tasks /\ x.slot \in Slots(x.task) /\ x.slot < Window /\ x.slot < nextDue[x.task]
          BY <2>2 DEF Slotted, Placed
    <3>2. x.slot \in Nat
          BY <3>1, <2>2, ConfigAssumption DEF TypeOK, Event
    <3> QED BY <3>1, <3>2, <1>3
  <2> QED BY <1>6, <2>1, <2>2
<1>7. Placed'
      BY <1>6 DEF Placed, Slots
<1>8. Taken'
  <2> SUFFICES ASSUME NEW u \in Tasks, NEW s \in Nat, s \in Slots(u), s < nextDue'[u]
               PROVE  Has(events', u, s) \/ Has(due', u, s) \/ Has(running', u, s)
      BY DEF Taken, Slots, Has
  <2>1. CASE u = t /\ s = d
        BY <2>1 DEF Has
  <2>2. CASE s < nextDue[u]
        BY <2>2 DEF Slotted, Taken, Has
  <2> QED BY <1>2, <1>3, <2>1, <2>2
<1>9. Distinct'
      BY <1>4 DEF Slotted, Distinct, Has
<1> QED BY <1>5, <1>7, <1>8, <1>9 DEF Slotted

\* Taking the next slot of a task into the batch.
LEMMA TakeIntoBatch ==
    ASSUME TypeOK, Slotted, NEW t \in Tasks, nextDue[t] < Window,
           due' = due \cup {[task |-> t, slot |-> nextDue[t]]},
           nextDue' = Advance(t), UNCHANGED <<events, running>>
    PROVE  Slotted'
<1> DEFINE d == nextDue[t]
<1> DEFINE c == [task |-> t, slot |-> d]
<1>1. /\ d \in Nat /\ Interval[t] \in Nat \ {0}
      /\ nextDue \in [Tasks -> Nat]
      BY ConfigAssumption DEF ConfigAssumption, TypeOK
<1>2. /\ d \in Slots(t)
      /\ OnGrid(t, d + Interval[t])
      /\ \A s \in Slots(t) : s < d + Interval[t] => s < d \/ s = d
      BY <1>1, OneSlotPassed DEF Slotted, Grid
<1>3. /\ nextDue'[t] = d + Interval[t]
      /\ \A u \in Tasks : u # t => nextDue'[u] = nextDue[u]
      /\ \A u \in Tasks : nextDue[u] <= nextDue'[u] /\ nextDue[u] \in Nat /\ nextDue'[u] \in Nat
      BY <1>1 DEF Advance
<1>4. ~Has(events, t, d) /\ ~Has(due, t, d) /\ ~Has(running, t, d)
      BY NextIsFresh
<1>5. Grid'
      BY <1>2, <1>3 DEF Slotted, Grid, OnGrid
<1>6. ASSUME NEW x \in events' \cup due' \cup running'
      PROVE  x.task \in Tasks /\ x.slot \in Slots(x.task) /\ x.slot < Window /\ x.slot < nextDue'[x.task]
  <2>1. CASE x = c
        BY <2>1, <1>1, <1>2, <1>3
  <2>2. CASE x \in events \cup due \cup running
    <3>1. x.task \in Tasks /\ x.slot \in Slots(x.task) /\ x.slot < Window /\ x.slot < nextDue[x.task]
          BY <2>2 DEF Slotted, Placed
    <3>2. x.slot \in Nat
          BY <3>1, <2>2, ConfigAssumption DEF TypeOK, Event
    <3> QED BY <3>1, <3>2, <1>3
  <2> QED BY <1>6, <2>1, <2>2
<1>7. Placed'
      BY <1>6 DEF Placed, Slots
<1>8. Taken'
  <2> SUFFICES ASSUME NEW u \in Tasks, NEW s \in Nat, s \in Slots(u), s < nextDue'[u]
               PROVE  Has(events', u, s) \/ Has(due', u, s) \/ Has(running', u, s)
      BY DEF Taken, Slots, Has
  <2>1. CASE u = t /\ s = d
    <3>1. c \in due' /\ c.task = u /\ c.slot = s
          BY <2>1
    <3> QED BY <3>1 DEF Has
  <2>2. CASE s < nextDue[u]
        BY <2>2 DEF Slotted, Taken, Has
  <2> QED BY <1>2, <1>3, <2>1, <2>2
<1>9. Distinct'
      BY <1>4 DEF Slotted, Distinct, Has
<1> QED BY <1>5, <1>7, <1>8, <1>9 DEF Slotted


\* A slot leaves the batch or the processor for the ledger, or the batch for
\* the processor; next_due does not move.
LEMMA Moved ==
    ASSUME TypeOK, Slotted, NEW x, NEW y, x.task = y.task, x.slot = y.slot,
           UNCHANGED nextDue,
           \/ x \in due /\ due' = due \ {x} /\ events' = events \cup {y} /\ UNCHANGED running
           \/ x \in due /\ due' = due \ {x} /\ running' = {y} /\ running = {} /\ UNCHANGED events
           \/ running = {x} /\ running' = {} /\ events' = events \cup {y} /\ UNCHANGED due
    PROVE  Slotted'
<1>1. x.task \in Tasks /\ x.slot \in Nat
      BY DEF TypeOK
<1>2. \A d \in due : d = [task |-> d.task, slot |-> d.slot]
      BY DEF TypeOK
<1>3. \A d \in due \ {x} : x \in due => ~(d.task = x.task /\ d.slot = x.slot)
      BY <1>2
<1>4. Grid'
      BY DEF Slotted, Grid, OnGrid
<1>5. Placed'
      BY DEF Slotted, Placed, Slots
<1>6. Taken'
      BY DEF Slotted, Taken, Has, Slots
<1>7. Distinct'
      BY <1>1, <1>3 DEF Slotted, Distinct, Has
<1> QED BY <1>4, <1>5, <1>6, <1>7 DEF Slotted

LEMMA SlottedInductive == TypeOK /\ Control /\ Slotted /\ [Next]_vars => Slotted'
<1> SUFFICES ASSUME TypeOK, Control, Slotted, [Next]_vars
             PROVE  Slotted'
    OBVIOUS
<1>1. ASSUME UNCHANGED <<nextDue, due, running, events>>
      PROVE  Slotted'
      BY <1>1 DEF Slotted, Grid, OnGrid, Placed, Taken, Distinct, Slots, Has
<1>2. CASE Tick \/ Loop \/ WindowEnds \/ NotYetDue \/ Sleep \/ StartScan \/ EndScan
           \/ BatchDone \/ Return \/ UNCHANGED vars
      BY <1>1, <1>2 DEF Tick, Loop, WindowEnds, NotYetDue, Sleep, StartScan, EndScan, BatchDone, Return, vars
<1>3. ASSUME NEW t \in Tasks, ScanTask(t)
      PROVE  Slotted'
  <2>1. CASE UNCHANGED <<nextDue, due, events>>
        BY <1>1, <1>3, <2>1 DEF ScanTask
  <2>2. CASE Passed(t) /\ due' = due \cup {[task |-> t, slot |-> nextDue[t]]}
             /\ nextDue' = Advance(t) /\ UNCHANGED events
        BY <1>3, <2>2, TakeIntoBatch DEF ScanTask, Passed
  <2>3. CASE Passed(t) /\ events' = events \cup {MissedEvent(t, nextDue[t], "scheduler_busy")}
             /\ nextDue' = Advance(t) /\ UNCHANGED due
    <3> DEFINE e == MissedEvent(t, nextDue[t], "scheduler_busy")
    <3>1. e.task = t /\ e.slot = nextDue[t]
          BY DEF MissedEvent
    <3>2. nextDue[t] < Window /\ UNCHANGED running
          BY <1>3, <2>3 DEF ScanTask, Passed
    <3>3. events' = events \cup {e}
          BY <2>3
    <3> HIDE DEF e
    <3> QED BY <2>3, <3>1, <3>2, <3>3, TakeIntoLedger
  <2> QED BY <1>3, <2>1, <2>2, <2>3 DEF ScanTask
<1>4. ASSUME NEW item \in due, MissDeadline(item)
      PROVE  Slotted'
  <2> DEFINE e == MissedEvent(item.task, item.slot, "task_deadline_elapsed_before_start")
  <2>1. e.task = item.task /\ e.slot = item.slot
        BY DEF MissedEvent
  <2>2. /\ due' = due \ {item} /\ events' = events \cup {e}
        /\ UNCHANGED <<running, nextDue>>
        BY <1>4 DEF MissDeadline
  <2> HIDE DEF e
  <2> QED BY <2>1, <2>2, Moved
<1>5. ASSUME NEW item \in due, StartExecution(item)
      PROVE  Slotted'
  <2> DEFINE r == [task |-> item.task, slot |-> item.slot, start |-> clock]
  <2>1. r.task = item.task /\ r.slot = item.slot
        OBVIOUS
  <2>2. /\ due' = due \ {item} /\ running' = {r} /\ running = {}
        /\ UNCHANGED <<events, nextDue>>
        BY <1>5 DEF StartExecution, ActualStart, Control
  <2> HIDE DEF r
  <2> QED BY <2>1, <2>2, Moved
<1>6. ASSUME NEW x \in Executions, NEW failed \in BOOLEAN, FinishExecution(x, failed)
      PROVE  Slotted'
  <2>1. PICK r \in [task : Tasks, slot : Nat, start : Nat] : running = {r}
        BY <1>6 DEF FinishExecution, Control
  <2> DEFINE e == ExecutedEvent(r, x, clock)
  <2>2. e.task = r.task /\ e.slot = r.slot
        BY DEF ExecutedEvent
  <2>3. /\ events' = events \cup {e} /\ running' = {}
        /\ UNCHANGED <<due, nextDue>>
        BY <1>6, <2>1 DEF FinishExecution
  <2> HIDE DEF e
  <2> QED BY <2>1, <2>2, <2>3, Moved
<1>7. ASSUME NEW t \in Tasks, DrainSlot(t)
      PROVE  Slotted'
  <2>1. PICK reason \in MissedReasons : events' = events \cup {MissedEvent(t, nextDue[t], reason)}
        BY <1>7 DEF DrainSlot, MissedReasons
  <2> DEFINE e == MissedEvent(t, nextDue[t], reason)
  <2>2. e.task = t /\ e.slot = nextDue[t]
        BY DEF MissedEvent
  <2>3. events' = events \cup {e}
        BY <2>1
  <2>4. nextDue[t] < Window /\ nextDue' = Advance(t) /\ UNCHANGED <<due, running>>
        BY <1>7 DEF DrainSlot
  <2> HIDE DEF e
  <2> QED BY <2>2, <2>3, <2>4, TakeIntoLedger
<1> QED BY <1>2, <1>3, <1>4, <1>5, <1>6, <1>7 DEF Next, Step

LEMMA SlottedInitially == Init => Slotted
<1> SUFFICES ASSUME Init PROVE Slotted
    OBVIOUS
<1>1. \A t \in Tasks : Interval[t] \in Nat \ {0} /\ Window \in Nat \ {0}
      BY ConfigAssumption DEF ConfigAssumption
<1>2. \A t \in Tasks : nextDue[t] = Interval[t]
      BY DEF Init
<1>3. \A t \in Tasks : OnGrid(t, nextDue[t])
  <2> TAKE t \in Tasks
  <2>1. 1 \in Nat \ {0} /\ nextDue[t] = 1 * Interval[t] /\ (1 - 1) * Interval[t] < Window
        BY <1>1, <1>2
  <2> QED BY <2>1 DEF OnGrid
<1>4. ASSUME NEW t \in Tasks, NEW s \in Slots(t)
      PROVE  ~(s < nextDue[t])
  <2>1. PICK n \in 1 .. Window : s = n * Interval[t]
        BY DEF Slots
  <2>2. ASSUME s < nextDue[t] PROVE FALSE
    <3>1. n * Interval[t] < 1 * Interval[t]
          BY <1>1, <1>2, <2>1, <2>2
    <3>2. n < 1
          BY <1>1, <3>1, MultiplesApart
    <3> QED BY <3>2
  <2> QED BY <2>2
<1> QED BY <1>3, <1>4 DEF Init, Slotted, Grid, Placed, Taken, Distinct, Has

\* The pointwise form is the property the runs check.
LEMMA SlottedGivesConservation == TypeOK /\ Slotted => SlotConservation
<1> SUFFICES ASSUME TypeOK, Slotted, NEW t \in Tasks
             PROVE  /\ {s \in Slots(t) : s < nextDue[t]} = Recorded(t) \cup Pending(t) \cup InProgress(t)
                    /\ Recorded(t) \cap (Pending(t) \cup InProgress(t)) = {}
                    /\ Pending(t) \cap InProgress(t) = {}
                    /\ \A e, f \in events : e.task = t /\ f.task = t /\ e.slot = f.slot => e = f
    BY DEF SlotConservation
<1>1. Slots(t) \subseteq Nat
      BY ConfigAssumption DEF ConfigAssumption, Slots
<1>2. \A s : /\ s \in Recorded(t) <=> Has(events, t, s)
             /\ s \in Pending(t) <=> Has(due, t, s)
             /\ s \in InProgress(t) <=> Has(running, t, s)
      BY DEF Recorded, Pending, InProgress, Has
<1>3. \A s : Has(events, t, s) \/ Has(due, t, s) \/ Has(running, t, s) => s \in Slots(t) /\ s < nextDue[t]
      BY DEF Slotted, Placed, Has
<1>4. \A s \in Slots(t) : s < nextDue[t] => Has(events, t, s) \/ Has(due, t, s) \/ Has(running, t, s)
      BY <1>1 DEF Slotted, Taken
<1>5. {s \in Slots(t) : s < nextDue[t]} = Recorded(t) \cup Pending(t) \cup InProgress(t)
      BY <1>2, <1>3, <1>4
<1>6. \A s : ~(Has(events, t, s) /\ Has(due, t, s)) /\ ~(Has(events, t, s) /\ Has(running, t, s))
             /\ ~(Has(due, t, s) /\ Has(running, t, s))
      BY <1>1, <1>3 DEF Slotted, Distinct
<1>7. \A e, f \in events : e.task = t /\ f.task = t /\ e.slot = f.slot => e = f
      BY DEF Slotted, Distinct, TypeOK, Event
<1> QED BY <1>2, <1>5, <1>6, <1>7

LEMMA SlottedInvariant == Spec => [](TypeOK /\ Control /\ Slotted)
<1>1. Init => TypeOK /\ Control /\ Slotted
      BY TypeInitially, SlottedInitially
<1>2. (TypeOK /\ Control /\ Slotted) /\ [Next]_vars => (TypeOK /\ Control /\ Slotted)'
      BY TypeInductive, SlottedInductive
<1> QED BY <1>1, <1>2, PTL DEF Spec

\* No cycle is counted twice and none is forgotten while the loop runs.
THEOREM Conservation == Spec => []SlotConservation
BY SlottedInvariant, SlottedGivesConservation, PTL

-----------------------------------------------------------------------------
(***************************************************************************)
(* At a normal return nothing waits or runs and every task has passed the  *)
(* end of the window, so conservation makes the ledger complete.           *)
(***************************************************************************)
Returning ==
    /\ pc \notin {"scan", "dispatch", "executing"} /\ ~halted => due = {}
    /\ pc \notin {"drain", "done"} => ~halted
    /\ pc = "done" => \A t \in Tasks : nextDue[t] >= Window

LEMMA ReturningInductive == TypeOK /\ Returning /\ [Next]_vars => Returning'
<1> SUFFICES ASSUME TypeOK, Returning, [Next]_vars
             PROVE  Returning'
    OBVIOUS
<1> USE DEF TypeOK, Returning, ReadsClock
<1>1. CASE Tick \/ UNCHANGED vars
      BY <1>1 DEF Tick, vars
<1>2. CASE Loop \/ WindowEnds \/ NotYetDue \/ Sleep \/ StartScan
      BY <1>2 DEF Loop, WindowEnds, NotYetDue, Sleep, StartScan
<1>3. CASE EndScan \/ BatchDone \/ Return
      BY <1>3 DEF EndScan, BatchDone, Return
<1>4. CASE \E t \in Tasks : ScanTask(t) \/ DrainSlot(t)
      BY <1>4 DEF ScanTask, DrainSlot
<1>5. CASE \E item \in due : MissDeadline(item) \/ StartExecution(item)
      BY <1>5 DEF MissDeadline, StartExecution
<1>6. CASE \E x \in Executions, failed \in BOOLEAN : FinishExecution(x, failed)
      BY <1>6 DEF FinishExecution
<1> QED BY <1>1, <1>2, <1>3, <1>4, <1>5, <1>6 DEF Next, Step

LEMMA CompleteAtReturn == TypeOK /\ Control /\ Slotted /\ Returning => EverySlotRecorded
<1> SUFFICES ASSUME TypeOK, Control, Slotted, Returning, pc = "done", ~halted, NEW t \in Tasks
             PROVE  Recorded(t) = {s \in Slots(t) : s < Window}
    BY DEF EverySlotRecorded
<1>1. due = {} /\ running = {} /\ nextDue[t] >= Window /\ nextDue[t] \in Nat
      BY DEF Returning, Control, TypeOK
<1>2. \A s \in Slots(t) : s \in Nat /\ Window \in Nat
      BY ConfigAssumption DEF ConfigAssumption, Slots
<1>3. \A s : s \in Recorded(t) <=> Has(events, t, s)
      BY DEF Recorded, Has
<1>4. \A s : Has(events, t, s) => s \in Slots(t) /\ s < Window
      BY DEF Slotted, Placed, Has
<1>5. \A s \in Slots(t) : s < Window => Has(events, t, s)
      BY <1>1, <1>2 DEF Slotted, Taken, Has
<1> QED BY <1>3, <1>4, <1>5

\* Every scheduled cycle of a window that closes normally is in the ledger.
THEOREM Complete == Spec => []EverySlotRecorded
<1>1. Init => Returning
      BY DEF Init, Returning
<1>2. TypeOK /\ Control /\ Slotted /\ Returning => EverySlotRecorded
      BY CompleteAtReturn
<1>3. (TypeOK /\ Returning) /\ [Next]_vars => Returning'
      BY ReturningInductive
<1> QED BY <1>1, <1>2, <1>3, SlottedInvariant, PTL DEF Spec

-----------------------------------------------------------------------------
(***************************************************************************)
(* The order of simultaneous cycles.  A scan leaves every task beyond its  *)
(* instant, so cycles of one slot are all in the batch of one scan, and    *)
(* what has been dispatched preceded whatever of its slot still waits.     *)
(***************************************************************************)
Behind(t) == nextDue[t] > stamp \/ nextDue[t] >= Window

Scanned ==
    /\ pc = "scan" => stamp = clock /\ \A t \in Tasks \ unscanned : Behind(t)
    /\ pc \in {"dispatch", "executing"} => \A t \in Tasks : Behind(t)

Ran == {e \in events : Executed(e)}

Ahead == \A x \in running \cup Ran, t \in Tasks : x.slot < nextDue[t]

InTurn ==
    /\ \A x \in running \cup Ran, d \in due : x.slot = d.slot => Precedes(x, d)
    /\ \A e \in Ran, r \in running : e.slot = r.slot => Precedes(e, r)

Orderly == Scanned /\ Ahead /\ InTurn /\ SimultaneousInOrder

\* The sort key is a strict order on cycles.
LEMMA PrecedesAsymmetric ==
    ASSUME NEW a, NEW b, a.task \in Tasks, b.task \in Tasks, a.slot \in Nat, b.slot \in Nat,
           Precedes(a, b), Precedes(b, a)
    PROVE  FALSE
<1>1. /\ Priority[a.task] \in Int /\ Priority[b.task] \in Int
      /\ a.task \in Nat /\ b.task \in Nat
      BY ConfigAssumption DEF ConfigAssumption
<1>2. EffectiveDeadline(a.task) \in Nat /\ EffectiveDeadline(b.task) \in Nat
      BY EffectiveDeadlineType
<1> QED BY <1>1, <1>2 DEF Precedes

\* The order looks at the cycle only.
LEMMA PrecedesOfCycle ==
    ASSUME NEW a, NEW b, NEW c, a.task = b.task, a.slot = b.slot
    PROVE  /\ Precedes(a, c) <=> Precedes(b, c)
           /\ Precedes(c, a) <=> Precedes(c, b)
BY DEF Precedes

\* next_due only moves forward.
LEMMA AdvanceForward ==
    ASSUME TypeOK, NEW t \in Tasks
    PROVE  /\ Advance(t)[t] = nextDue[t] + Interval[t]
           /\ \A u \in Tasks : u # t => Advance(t)[u] = nextDue[u]
           /\ \A u \in Tasks : nextDue[u] \in Nat /\ nextDue[u] <= Advance(t)[u] /\ Advance(t)[u] \in Nat
BY ConfigAssumption DEF ConfigAssumption, TypeOK, Advance

LEMMA OrderUnchanged ==
    ASSUME TypeOK, Orderly, NEW E \in SUBSET Event, \A e \in E : ~Executed(e),
           events' = events \cup E, UNCHANGED running, due' \subseteq due,
           \A t \in Tasks : nextDue[t] <= nextDue'[t] /\ nextDue[t] \in Nat /\ nextDue'[t] \in Nat
    PROVE  Ahead' /\ InTurn' /\ SimultaneousInOrder'
<1>1. Ran' = Ran
      BY DEF Ran, Executed
<1>2. \A x \in running \cup Ran : x.slot \in Nat
      BY DEF Ran, TypeOK, Event
<1>3. Ahead'
      BY <1>1, <1>2 DEF Orderly, Ahead
<1>4. InTurn'
      BY <1>1 DEF Orderly, InTurn, Precedes
<1>5. SimultaneousInOrder'
      BY <1>1 DEF Orderly, SimultaneousInOrder, Ran, Precedes
<1> QED BY <1>3, <1>4, <1>5

LEMMA OrderlyInductive == TypeOK /\ TypeOK' /\ Control /\ Time /\ Orderly /\ [Next]_vars => Orderly'
<1> SUFFICES ASSUME TypeOK, TypeOK', Control, Time, Orderly, [Next]_vars
             PROVE  Orderly'
    OBVIOUS
<1> USE DEF ReadsClock
<1>0. \A t \in Tasks : nextDue[t] \in Nat /\ nextDue'[t] \in Nat
      BY DEF TypeOK
<1>1. ASSUME Scanned', UNCHANGED <<nextDue, events, running>>, due' \subseteq due
      PROVE  Orderly'
  <2>1. \A t \in Tasks : nextDue[t] <= nextDue'[t]
        BY <1>0, <1>1
  <2>2. Ahead' /\ InTurn' /\ SimultaneousInOrder'
    <3>1. events' = events \cup {} /\ {} \in SUBSET Event
          BY <1>1
    <3> QED BY <1>0, <1>1, <2>1, <3>1, OrderUnchanged
  <2> QED BY <1>1, <2>2 DEF Orderly
<1>2. CASE Tick \/ Loop \/ WindowEnds \/ NotYetDue \/ Sleep \/ BatchDone \/ Return \/ UNCHANGED vars
  <2>1. UNCHANGED <<nextDue, events, running, due>> /\ Scanned'
        BY <1>2 DEF Tick, Loop, WindowEnds, NotYetDue, Sleep, BatchDone, Return, vars,
                    Orderly, Scanned, Behind
  <2> QED BY <1>1, <2>1
<1>3. CASE StartScan
  <2>1. UNCHANGED <<nextDue, events, running, due>> /\ Scanned'
        BY <1>3 DEF StartScan, Orderly, Scanned, Behind
  <2> QED BY <1>1, <2>1
<1>4. CASE EndScan
  <2>1. UNCHANGED <<nextDue, events, running, due>> /\ Scanned'
        BY <1>4 DEF EndScan, Orderly, Scanned, Behind
  <2> QED BY <1>1, <2>1
<1>5. ASSUME NEW t \in Tasks, ScanTask(t)
      PROVE  Orderly'
  <2>1. pc = "scan" /\ pc' = "scan" /\ stamp' = stamp /\ clock' = clock /\ running' = running
        BY <1>5 DEF ScanTask
  <2>2. CASE ~Passed(t) /\ unscanned' = unscanned \ {t} /\ UNCHANGED <<nextDue, due, events>>
    <3>1. Behind(t)
          BY <2>2, <1>0, ConfigAssumption DEF ConfigAssumption, Passed, Behind, TypeOK
    <3>2. Scanned'
          BY <2>1, <2>2, <3>1 DEF Orderly, Scanned, Behind
    <3> QED BY <1>1, <2>1, <2>2, <3>2
  <2>3. CASE /\ Passed(t) /\ ~Late(t) /\ unscanned' = unscanned \ {t}
             /\ due' = due \cup {[task |-> t, slot |-> nextDue[t]]}
             /\ nextDue' = Advance(t) /\ events' = events
    <3> DEFINE c == [task |-> t, slot |-> nextDue[t]]
    <3>1. /\ nextDue'[t] = nextDue[t] + Interval[t]
          /\ \A u \in Tasks : u # t => nextDue'[u] = nextDue[u]
          /\ \A u \in Tasks : nextDue[u] <= nextDue'[u]
          BY <2>3, AdvanceForward
    <3>2. nextDue'[t] > stamp
          BY <2>3, <3>1, <1>0, ConfigAssumption DEF ConfigAssumption, Late, TypeOK
    <3>3. Scanned'
          BY <2>1, <2>3, <3>1, <3>2 DEF Orderly, Scanned, Behind
    <3>4. Ran' = Ran
          BY <2>3 DEF Ran
    <3>5. \A x \in running \cup Ran : x.slot \in Nat /\ x.slot < nextDue[t]
          BY DEF Ran, TypeOK, Event, Orderly, Ahead
    <3>6. Ahead'
          BY <1>0, <2>1, <3>1, <3>4 DEF Orderly, Ahead, Ran, TypeOK, Event
    <3>7. InTurn'
      <4>1. c.slot = nextDue[t]
            OBVIOUS
      <4>2. due' = due \cup {c}
            BY <2>3
      <4> HIDE DEF c
      <4>3. ASSUME NEW x \in running \cup Ran, NEW d \in due', x.slot = d.slot
            PROVE  Precedes(x, d)
            BY <1>0, <3>5, <4>1, <4>2, <4>3 DEF Orderly, InTurn
      <4> QED BY <2>1, <3>4, <4>3 DEF Orderly, InTurn, Precedes
    <3>8. SimultaneousInOrder'
          BY <2>3 DEF Orderly, SimultaneousInOrder, Precedes
    <3> QED BY <3>3, <3>6, <3>7, <3>8 DEF Orderly
  <2>4. CASE /\ events' = events \cup {MissedEvent(t, nextDue[t], "scheduler_busy")}
             /\ nextDue' = Advance(t) /\ UNCHANGED <<due, unscanned>>
    <3> DEFINE e == MissedEvent(t, nextDue[t], "scheduler_busy")
    <3>1. {e} \in SUBSET Event /\ \A x \in {e} : ~Executed(x)
      <4>1. e \in Event
            BY <1>0, MissedEventType DEF MissedReasons
      <4>2. ~Executed(e)
            BY DEF Executed, MissedEvent
      <4> QED BY <4>1, <4>2
    <3>2. /\ events' = events \cup {e}
          /\ \A u \in Tasks : nextDue[u] <= nextDue'[u]
          BY <2>4, AdvanceForward
    <3> HIDE DEF e
    <3>3. Ahead' /\ InTurn' /\ SimultaneousInOrder'
          BY <1>0, <2>1, <2>4, <3>1, <3>2, OrderUnchanged
    <3>4. Scanned'
      <4>1. ASSUME NEW u \in Tasks \ unscanned PROVE Behind(u)'
        <5>1. Behind(u) /\ nextDue[u] <= nextDue'[u]
              BY <2>1, <3>2 DEF Orderly, Scanned
        <5> QED BY <5>1, <1>0, <2>1, ConfigAssumption DEF Behind, TypeOK, ConfigAssumption
      <4> QED BY <2>1, <2>4, <4>1 DEF Orderly, Scanned
    <3> QED BY <3>3, <3>4 DEF Orderly
  <2> QED BY <1>5, <2>2, <2>3, <2>4 DEF ScanTask
<1>6. ASSUME NEW item \in due, MissDeadline(item)
      PROVE  Orderly'
  <2> DEFINE e == MissedEvent(item.task, item.slot, "task_deadline_elapsed_before_start")
  <2>1. {e} \in SUBSET Event /\ \A x \in {e} : ~Executed(x)
    <3>1. e \in Event
          BY MissedEventType DEF TypeOK, MissedReasons
    <3>2. ~Executed(e)
          BY DEF Executed, MissedEvent
    <3> QED BY <3>1, <3>2
  <2>2. events' = events \cup {e} /\ due' \subseteq due /\ UNCHANGED <<running, nextDue, pc, stamp, clock, unscanned>>
        BY <1>6 DEF MissDeadline
  <2> HIDE DEF e
  <2>3. Ahead' /\ InTurn' /\ SimultaneousInOrder'
    <3>1. \A t \in Tasks : nextDue[t] <= nextDue'[t]
          BY <1>0, <2>2
    <3> QED BY <1>0, <2>1, <2>2, <3>1, OrderUnchanged
  <2>4. Scanned'
        BY <2>2 DEF Orderly, Scanned, Behind
  <2> QED BY <2>3, <2>4 DEF Orderly
<1>7. ASSUME NEW item \in due, StartExecution(item)
      PROVE  Orderly'
  <2> DEFINE r == [task |-> item.task, slot |-> item.slot, start |-> clock]
  <2>1. r.task = item.task /\ r.slot = item.slot
        OBVIOUS
  <2>2. /\ running' = {r} /\ running = {} /\ due' = due \ {item} /\ pc = "dispatch" /\ pc' = "executing"
        /\ UNCHANGED <<clock, nextDue, stamp, unscanned, events>>
        /\ FirstOf(due, item)
        BY <1>7 DEF StartExecution, ActualStart, Control
  <2> HIDE DEF r
  <2>3. Ran' = Ran
        BY <2>2 DEF Ran
  <2>4. Scanned'
        BY <2>2 DEF Orderly, Scanned, Behind
  <2>5. ASSUME NEW t \in Tasks PROVE item.slot < nextDue[t]
    <3>1. Behind(t)
          BY <2>2 DEF Orderly, Scanned
    <3>2. item.slot <= stamp /\ item.slot \in Nat /\ stamp \in Nat /\ Window \in Nat
          BY ConfigAssumption DEF ConfigAssumption, Time, Stamped, TypeOK
    <3>3. item.slot < Window
          BY <1>7, <3>2, EffectiveDeadlineType DEF TypeOK, StartExecution, Remaining, ActualStart, Lesser, Time, Stamped
    <3> QED BY <1>0, <3>1, <3>2, <3>3 DEF Behind
  <2>6. Ahead'
        BY <2>1, <2>2, <2>3, <2>5 DEF Orderly, Ahead
  <2>7. InTurn'
    <3>1. ASSUME NEW x \in running' \cup Ran', NEW d \in due', x.slot = d.slot
          PROVE  Precedes(x, d)
      <4>1. CASE x = r
        <5>1. Precedes(item, d)
              BY <2>2 DEF FirstOf
        <5> QED BY <4>1, <5>1, <2>1, PrecedesOfCycle
      <4>2. CASE x \in Ran
            BY <2>2, <3>1, <4>2 DEF Orderly, InTurn
      <4> QED BY <2>2, <2>3, <4>1, <4>2
    <3>2. ASSUME NEW e \in Ran', e.slot = r.slot
          PROVE  Precedes(e, r)
      <4>1. Precedes(e, item)
            BY <2>1, <2>3, <3>2 DEF Orderly, InTurn
      <4> QED BY <4>1, <2>1, PrecedesOfCycle
    <3> QED BY <2>2, <3>1, <3>2 DEF InTurn, Precedes
  <2>8. SimultaneousInOrder'
        BY <2>2 DEF Orderly, SimultaneousInOrder, Precedes
  <2> QED BY <2>4, <2>6, <2>7, <2>8 DEF Orderly
<1>8. ASSUME NEW x \in Executions, NEW failed \in BOOLEAN, FinishExecution(x, failed)
      PROVE  Orderly'
  <2>1. PICK r \in [task : Tasks, slot : Nat, start : Nat] : running = {r}
        BY <1>8 DEF FinishExecution, Control
  <2> DEFINE e == ExecutedEvent(r, x, clock)
  <2>2. /\ e.task = r.task /\ e.slot = r.slot /\ e.start = r.start /\ Executed(e)
        BY DEF ExecutedEvent, Executed
  <2>3. /\ events' = events \cup {e} /\ running' = {}
        /\ UNCHANGED <<clock, stamp, due, nextDue, unscanned>>
        /\ pc = "executing" /\ pc' \in {"drain", "dispatch"}
        BY <1>8, <2>1 DEF FinishExecution
  <2> HIDE DEF e
  <2>4. Ran' = Ran \cup {e}
        BY <2>2, <2>3 DEF Ran, Executed
  <2>5. Scanned'
        BY <2>3 DEF Orderly, Scanned, Behind
  <2>6. Ahead'
        BY <2>1, <2>2, <2>3, <2>4 DEF Orderly, Ahead
  <2>7. InTurn'
    <3>1. ASSUME NEW y \in Ran', NEW d \in due, y.slot = d.slot
          PROVE  Precedes(y, d)
      <4>1. CASE y = e
        <5>1. Precedes(r, d)
              BY <2>1, <2>2, <3>1, <4>1 DEF Orderly, InTurn
        <5> QED BY <4>1, <5>1, <2>2, PrecedesOfCycle
      <4>2. CASE y \in Ran
            BY <3>1, <4>2 DEF Orderly, InTurn
      <4> QED BY <2>4, <4>1, <4>2
    <3> QED BY <2>3, <3>1 DEF InTurn, Precedes
  <2>8. SimultaneousInOrder'
    <3>1. ASSUME NEW f \in Ran, NEW g \in Ran', f.slot = g.slot, Precedes(f, g)
          PROVE  f.finish <= g.start
      <4>1. CASE g = e
            BY <2>1, <2>2, <4>1 DEF Time, InThePast, Ran
      <4>2. CASE g \in Ran
            BY <3>1, <4>2 DEF Orderly, SimultaneousInOrder, Ran
      <4> QED BY <2>4, <4>1, <4>2
    <3>2. ASSUME NEW g \in Ran', e.slot = g.slot, Precedes(e, g)
          PROVE  FALSE
      <4>1. e.task \in Tasks /\ e.slot \in Nat
            BY <2>2
      <4>2. CASE g = e
            BY <3>2, <4>1, <4>2, PrecedesAsymmetric
      <4>3. CASE g \in Ran
        <5>1. Precedes(g, r) /\ g.task \in Tasks /\ g.slot \in Nat
              BY <2>1, <2>2, <3>2, <4>3 DEF Orderly, InTurn, Ran, TypeOK, Event
        <5>2. Precedes(g, e)
              BY <5>1, <2>2, PrecedesOfCycle
        <5> QED BY <3>2, <4>1, <5>1, <5>2, PrecedesAsymmetric
      <4> QED BY <2>4, <4>2, <4>3
    <3>3. \A f, g \in Ran' : f.slot = g.slot /\ Precedes(f, g) => f.finish <= g.start
          BY <2>4, <3>1, <3>2
    <3> QED BY <3>3 DEF SimultaneousInOrder, Ran, Precedes
  <2> QED BY <2>5, <2>6, <2>7, <2>8 DEF Orderly
<1>9. ASSUME NEW t \in Tasks, DrainSlot(t)
      PROVE  Orderly'
  <2>1. PICK reason \in MissedReasons : events' = events \cup {MissedEvent(t, nextDue[t], reason)}
        BY <1>9 DEF DrainSlot, MissedReasons
  <2> DEFINE e == MissedEvent(t, nextDue[t], reason)
  <2>2. {e} \in SUBSET Event /\ \A x \in {e} : ~Executed(x)
        BY <1>0, MissedEventType DEF Executed, MissedEvent
  <2>3. events' = events \cup {e}
        BY <2>1
  <2> HIDE DEF e
  <2>4. /\ UNCHANGED <<running, due>> /\ pc' = "drain"
        /\ \A u \in Tasks : nextDue[u] <= nextDue'[u]
        BY <1>9, AdvanceForward DEF DrainSlot
  <2>5. Ahead' /\ InTurn' /\ SimultaneousInOrder'
        BY <1>0, <2>2, <2>3, <2>4, OrderUnchanged
  <2> QED BY <2>4, <2>5 DEF Orderly, Scanned
<1> QED BY <1>2, <1>3, <1>4, <1>5, <1>6, <1>7, <1>8, <1>9 DEF Next, Step

LEMMA OrderlyInvariant == Spec => [](TypeOK /\ Control /\ Time /\ Orderly)
<1>1. Init => TypeOK /\ Control /\ Time /\ Orderly
  <2>1. Init => Orderly
        BY DEF Init, Orderly, Scanned, Ahead, InTurn, SimultaneousInOrder, Ran
  <2> QED BY <2>1, TypeInitially, TimeInitially
<1>2. (TypeOK /\ Control /\ Time /\ Orderly) /\ [Next]_vars => (TypeOK /\ Control /\ Time /\ Orderly)'
      BY TypeInductive, TimeInductive, OrderlyInductive
<1> QED BY <1>1, <1>2, PTL DEF Spec

\* Of two cycles due at one instant the one that precedes in the order of the
\* batch has finished before the other starts, for every number of tasks.
THEOREM InOrder == Spec => []SimultaneousInOrder
BY OrderlyInvariant, PTL DEF Orderly

-----------------------------------------------------------------------------
(***************************************************************************)
(* Abandoned cycles.  The inner loop of a scan is entered by a slot that   *)
(* is late by an interval, and goes on from the slot it abandoned last.    *)
(***************************************************************************)
\* The slot before d of task t was abandoned because the scheduler was busy.
Abandoned(t, d) == \E f \in events : /\ f.task = t /\ f.reason = "scheduler_busy"
                                     /\ f.slot = d - Interval[t]

Skipping == skipping =>
    /\ pc = "scan"
    /\ \E t \in unscanned : (\A u \in unscanned : t <= u) /\ Abandoned(t, nextDue[t])

Excused == Skipping /\ BusyMissIsLate

\* Events of other kinds, and a later instant of the scan, excuse no less.
LEMMA StillExcused ==
    ASSUME TypeOK, TypeOK', BusyMissIsLate, stamp <= stamp',
           NEW E \in SUBSET Event, events' = events \cup E,
           \A e \in E : e.reason = "scheduler_busy" =>
              stamp' >= e.slot + Interval[e.task] \/ Abandoned(e.task, e.slot)
    PROVE  BusyMissIsLate'
<1> SUFFICES ASSUME NEW e \in events', e.reason = "scheduler_busy"
             PROVE  \/ stamp' >= e.slot + Interval[e.task]
                    \/ \E f \in events' : /\ f.task = e.task /\ f.reason = "scheduler_busy"
                                          /\ f.slot = e.slot - Interval[e.task]
    BY DEF BusyMissIsLate
<1>1. /\ e.slot \in Nat /\ Interval[e.task] \in Nat /\ stamp \in Nat /\ stamp' \in Nat
      BY ConfigAssumption DEF ConfigAssumption, TypeOK, Event
<1>2. stamp >= e.slot + Interval[e.task] \/ stamp' >= e.slot + Interval[e.task] \/ Abandoned(e.task, e.slot)
      BY DEF BusyMissIsLate, Abandoned
<1> QED BY <1>1, <1>2 DEF Abandoned

LEMMA ExcusedByOthers ==
    ASSUME TypeOK, TypeOK', BusyMissIsLate, stamp' = stamp,
           NEW e \in Event, e.reason # "scheduler_busy", events' = events \cup {e}
    PROVE  BusyMissIsLate'
<1>1. stamp <= stamp'
      BY DEF TypeOK
<1>2. {e} \in SUBSET Event
      OBVIOUS
<1>3. \A x \in {e} : x.reason = "scheduler_busy" =>
         stamp' >= x.slot + Interval[x.task] \/ Abandoned(x.task, x.slot)
      OBVIOUS
<1> QED BY <1>1, <1>2, <1>3, StillExcused

LEMMA ExcusedInductive == TypeOK /\ TypeOK' /\ Control /\ Time /\ Excused /\ [Next]_vars => Excused'
<1> SUFFICES ASSUME TypeOK, TypeOK', Control, Time, Excused, [Next]_vars
             PROVE  Excused'
    OBVIOUS
<1> USE DEF ReadsClock
<1>1. ASSUME UNCHANGED events, stamp <= stamp'
      PROVE  BusyMissIsLate'
  <2>1. {} \in SUBSET Event /\ events' = events \cup {}
        BY <1>1
  <2> QED BY <1>1, <2>1, StillExcused DEF Excused
<1>2. CASE Tick \/ Loop \/ WindowEnds \/ NotYetDue \/ Sleep \/ EndScan \/ BatchDone \/ Return \/ UNCHANGED vars
  <2>1. Skipping'
        BY <1>2 DEF Tick, Loop, WindowEnds, NotYetDue, Sleep, EndScan, BatchDone, Return, vars,
                    Excused, Skipping, Abandoned
  <2>2. UNCHANGED <<events, stamp>> /\ stamp \in Nat
        BY <1>2 DEF Tick, Loop, WindowEnds, NotYetDue, Sleep, EndScan, BatchDone, Return, vars, TypeOK
  <2> QED BY <1>1, <2>1, <2>2 DEF Excused
<1>3. CASE StartScan
  <2>1. Skipping'
        BY <1>3 DEF StartScan, Excused, Skipping
  <2>2. UNCHANGED events /\ stamp <= stamp'
        BY <1>3 DEF StartScan, Time, Stamped
  <2> QED BY <1>1, <2>1, <2>2 DEF Excused
<1>4. ASSUME NEW t \in Tasks, ScanTask(t)
      PROVE  Excused'
  <2>1. /\ pc = "scan" /\ pc' = "scan" /\ stamp' = stamp /\ stamp \in Nat
        /\ t \in unscanned /\ \A u \in unscanned : t <= u
        /\ \A u \in unscanned : u \in Nat
        BY <1>4, ConfigAssumption DEF ScanTask, TypeOK, ConfigAssumption
  <2>2. skipping => Abandoned(t, nextDue[t])
    <3>1. ASSUME skipping PROVE Abandoned(t, nextDue[t])
      <4>1. PICK u \in unscanned : (\A v \in unscanned : u <= v) /\ Abandoned(u, nextDue[u])
            BY <3>1 DEF Excused, Skipping
      <4>2. u = t
            BY <2>1, <4>1
      <4> QED BY <4>1, <4>2
    <3> QED BY <3>1
  <2>3. CASE UNCHANGED events /\ skipping' = FALSE
        BY <1>1, <2>1, <2>3 DEF Excused, Skipping
  <2>4. CASE UNCHANGED events /\ ~skipping /\ UNCHANGED skipping
        BY <1>1, <2>1, <2>4 DEF Excused, Skipping
  <2>5. CASE /\ skipping \/ Late(t)
             /\ events' = events \cup {MissedEvent(t, nextDue[t], "scheduler_busy")}
             /\ nextDue' = Advance(t) /\ UNCHANGED unscanned
    <3> DEFINE e == MissedEvent(t, nextDue[t], "scheduler_busy")
    <3>1. e.task = t /\ e.slot = nextDue[t] /\ e.reason = "scheduler_busy" /\ nextDue[t] \in Nat
          BY DEF MissedEvent, TypeOK
    <3>2. e \in Event
          BY <3>1, MissedEventType DEF MissedReasons
    <3>3. events' = events \cup {e}
          BY <2>5
    <3> HIDE DEF e
    <3>4. Late(t) => stamp >= e.slot + Interval[e.task]
          BY <2>1, <3>1, ConfigAssumption DEF ConfigAssumption, Late
    <3>5. BusyMissIsLate'
      <4>1. \A x \in {e} : x.reason = "scheduler_busy" =>
              stamp' >= x.slot + Interval[x.task] \/ Abandoned(x.task, x.slot)
            BY <2>1, <2>2, <2>5, <3>1, <3>4
      <4>2. stamp <= stamp' /\ {e} \in SUBSET Event
            BY <2>1, <3>2
      <4> QED BY <3>3, <4>1, <4>2, StillExcused DEF Excused
    <3>6. Abandoned(t, nextDue[t])'
      <4>1. nextDue'[t] - Interval[t] = nextDue[t]
            BY <2>5, <3>1, AdvanceForward, ConfigAssumption DEF ConfigAssumption
      <4> QED BY <3>1, <3>3, <4>1 DEF Abandoned
    <3>7. Skipping'
          BY <2>1, <2>5, <3>6 DEF Skipping
    <3> QED BY <3>5, <3>7 DEF Excused
  <2> QED BY <1>4, <2>3, <2>4, <2>5 DEF ScanTask
<1>5. ASSUME NEW item \in due, MissDeadline(item)
      PROVE  Excused'
  <2> DEFINE e == MissedEvent(item.task, item.slot, "task_deadline_elapsed_before_start")
  <2>1. e \in Event /\ e.reason # "scheduler_busy"
    <3>1. e \in Event
          BY MissedEventType DEF TypeOK, MissedReasons
    <3> QED BY <3>1 DEF MissedEvent
  <2>2. events' = events \cup {e} /\ stamp' = stamp /\ stamp \in Nat
        BY <1>5 DEF MissDeadline, TypeOK
  <2> HIDE DEF e
  <2>3. BusyMissIsLate'
        BY <2>1, <2>2, ExcusedByOthers DEF Excused
  <2> QED BY <1>5, <2>3 DEF MissDeadline, Excused, Skipping
<1>6. ASSUME NEW item \in due, StartExecution(item)
      PROVE  Excused'
  <2>1. UNCHANGED <<events, stamp, skipping>> /\ pc = "dispatch" /\ stamp \in Nat
        BY <1>6 DEF StartExecution, TypeOK
  <2> QED BY <1>1, <2>1 DEF Excused, Skipping
<1>7. ASSUME NEW x \in Executions, NEW failed \in BOOLEAN, FinishExecution(x, failed)
      PROVE  Excused'
  <2>1. PICK r \in [task : Tasks, slot : Nat, start : Nat] : running = {r}
        BY <1>7 DEF FinishExecution, Control
  <2> DEFINE e == ExecutedEvent(r, x, clock)
  <2>2. e \in Event /\ e.reason # "scheduler_busy"
    <3>1. e \in Event
          BY ExecutedEventType DEF TypeOK
    <3> QED BY <3>1 DEF ExecutedEvent
  <2>3. events' = events \cup {e} /\ UNCHANGED <<stamp, skipping>> /\ pc = "executing" /\ stamp \in Nat
        BY <1>7, <2>1 DEF FinishExecution, TypeOK
  <2> HIDE DEF e
  <2>4. BusyMissIsLate'
        BY <2>2, <2>3, ExcusedByOthers DEF Excused
  <2> QED BY <2>3, <2>4 DEF Excused, Skipping
<1>8. ASSUME NEW t \in Tasks, DrainSlot(t)
      PROVE  Excused'
  <2>1. PICK reason \in MissedReasons \ {"scheduler_busy"} :
           events' = events \cup {MissedEvent(t, nextDue[t], reason)}
        BY <1>8 DEF DrainSlot, MissedReasons
  <2> DEFINE e == MissedEvent(t, nextDue[t], reason)
  <2>2. e \in Event /\ e.reason # "scheduler_busy"
    <3>1. e \in Event
          BY MissedEventType DEF TypeOK
    <3> QED BY <3>1 DEF MissedEvent
  <2>3. events' = events \cup {e}
        BY <2>1
  <2> HIDE DEF e
  <2>4. UNCHANGED <<stamp, skipping>> /\ pc = "drain" /\ stamp \in Nat
        BY <1>8 DEF DrainSlot, TypeOK
  <2>5. BusyMissIsLate'
        BY <2>2, <2>3, <2>4, ExcusedByOthers DEF Excused
  <2> QED BY <2>4, <2>5 DEF Excused, Skipping
<1> QED BY <1>2, <1>3, <1>4, <1>5, <1>6, <1>7, <1>8 DEF Next, Step

\* No cycle is abandoned as busy unless the scheduler came a whole interval
\* late for it or for an uninterrupted run of slots before it.
THEOREM BusyIsLate == Spec => []BusyMissIsLate
<1>1. Init => Excused
      BY DEF Init, Excused, Skipping, BusyMissIsLate
<1>2. TypeOK /\ TypeOK' /\ Control /\ Time /\ Excused /\ [Next]_vars => Excused'
      BY ExcusedInductive
<1> QED BY <1>1, <1>2, TimeInvariant, PTL DEF Spec, Excused

-----------------------------------------------------------------------------
(***************************************************************************)
(* The scheduler implements SlotLedger: by the invariants above, the slot  *)
(* a scan takes up or abandons is the next of its task, a start lies in    *)
(* the period of its slot, and everything else is invisible or a move.     *)
(***************************************************************************)
LedgerInv == TypeOK /\ Control /\ Time /\ Slotted /\ Orderly

MapTo(S) == {CycleOf(x) : x \in S}

Waived == {e \in events : ~Executed(e)}

LEMMA MapMembers ==
    ASSUME NEW S, NEW t, NEW s
    PROVE  [task |-> t, slot |-> s] \in MapTo(S) <=> Has(S, t, s)
BY DEF MapTo, CycleOf, Has

LEMMA MapAdd ==
    ASSUME NEW S, NEW x
    PROVE  MapTo(S \cup {x}) = MapTo(S) \cup {CycleOf(x)}
BY DEF MapTo

\* The state of the ledger, in terms of the scheduler's.
LEMMA LedgerState ==
    /\ Ledger!Settled = MapTo(due) \cup MapTo(running) \cup MapTo(Ran) \cup MapTo(Waived)
    /\ Ledger!vars = <<clock, MapTo(due), MapTo(running), MapTo(Ran), MapTo(Waived), pc \in {"drain", "done"}>>
BY DEF Ledger!Settled, Ledger!vars, MapTo, Ran, Waived

\* What is settled of a task are its slots before next_due.
LEMMA SettledSlots ==
    ASSUME TypeOK, Slotted, NEW t \in Tasks, NEW s
    PROVE  [task |-> t, slot |-> s] \in Ledger!Settled
              <=> Has(events, t, s) \/ Has(due, t, s) \/ Has(running, t, s)
<1>1. Has(events, t, s) <=> Has(Ran, t, s) \/ Has(Waived, t, s)
      BY DEF Has, Ran, Waived
<1> QED BY <1>1, LedgerState, MapMembers

LEMMA NextOfTask ==
    ASSUME TypeOK, Slotted, NEW t \in Tasks, nextDue[t] < Window
    PROVE  LET c == [task |-> t, slot |-> nextDue[t]]
           IN  c \in Ledger!Cycles /\ Ledger!NextOfItsTask(c)
<1> DEFINE c == [task |-> t, slot |-> nextDue[t]]
<1>1. nextDue[t] \in Slots(t)
      BY OneSlotPassed DEF Slotted, Grid, TypeOK
<1>2. c \in Ledger!Cycles
      BY <1>1 DEF Ledger!Cycles, Ledger!Slots, Slots
<1>3. c \notin Ledger!Settled
      BY NextIsFresh, SettledSlots
<1>4. ASSUME NEW s \in Slots(t), s < nextDue[t]
      PROVE  [task |-> t, slot |-> s] \in Ledger!Settled
  <2>1. s \in Nat
        BY ConfigAssumption DEF ConfigAssumption, Slots
  <2> QED BY <1>4, <2>1, SettledSlots DEF Slotted, Taken
<1>5. Ledger!Slots(t) = Slots(t)
      BY DEF Ledger!Slots, Slots
<1>6. Ledger!NextOfItsTask(c)
      BY <1>3, <1>4, <1>5 DEF Ledger!NextOfItsTask
<1> QED BY <1>2, <1>6

LEMMA LedgerStep == LedgerInv /\ [Next]_vars => [Ledger!Next]_(Ledger!vars)
<1> SUFFICES ASSUME LedgerInv, [Next]_vars
             PROVE  [Ledger!Next]_(Ledger!vars)
    OBVIOUS
<1> USE DEF LedgerInv
<1>1. ASSUME UNCHANGED <<clock, due, running, events>>, pc' \in {"drain", "done"} <=> pc \in {"drain", "done"}
      PROVE  UNCHANGED Ledger!vars
      BY <1>1 DEF Ledger!vars, CycleOf, Executed
<1>2. CASE Tick
      BY <1>2 DEF Tick, ReadsClock, Ledger!TimePasses, Ledger!Next
<1>3. CASE Loop \/ WindowEnds \/ NotYetDue \/ Sleep \/ StartScan \/ EndScan \/ BatchDone \/ Return \/ UNCHANGED vars
  <2>1. UNCHANGED <<due, running, events, clock>> /\ (pc \in {"drain", "done"} => pc' \in {"drain", "done"})
        BY <1>3 DEF Loop, WindowEnds, NotYetDue, Sleep, StartScan, EndScan, BatchDone, Return, vars
  <2>2. CASE pc' \in {"drain", "done"} /\ pc \notin {"drain", "done"}
    <3>1. running = {}
          BY <1>3, <2>2 DEF Loop, WindowEnds, NotYetDue, Sleep, StartScan, EndScan, BatchDone, Return, vars, Control
    <3>2. Ledger!Close
          BY <2>1, <2>2, <3>1 DEF Ledger!Close, CycleOf, Executed
    <3> QED BY <3>2 DEF Ledger!Next
  <2> QED BY <1>1, <2>1, <2>2
<1>4. ASSUME NEW t \in Tasks, ScanTask(t)
      PROVE  [Ledger!Next]_(Ledger!vars)
  <2> DEFINE c == [task |-> t, slot |-> nextDue[t]]
  <2>1. /\ pc = "scan" /\ pc' = "scan" /\ stamp = clock /\ UNCHANGED <<clock, running>>
        BY <1>4 DEF ScanTask, Orderly, Scanned
  <2>2. c.task = t /\ c.slot = nextDue[t] /\ CycleOf(c) = c
        BY DEF CycleOf
  <2>3. Passed(t) => c \in Ledger!Cycles /\ Ledger!NextOfItsTask(c)
        BY NextOfTask DEF Passed
  <2>4. nextDue[t] \in Nat /\ Interval[t] \in Nat /\ clock \in Nat
        BY ConfigAssumption DEF ConfigAssumption, TypeOK
  <2>5. CASE UNCHANGED <<due, events>>
        BY <1>1, <2>1, <2>5
  <2>6. CASE Passed(t) /\ ~Late(t) /\ due' = due \cup {c} /\ UNCHANGED events
    <3>1. Ledger!InItsPeriod(c)
          BY <2>1, <2>2, <2>4, <2>6 DEF Passed, Late, Ledger!InItsPeriod
    <3>2. MapTo(due') = MapTo(due) \cup {c}
          BY <2>2, <2>6, MapAdd
    <3>3. Ledger!Claim(c)
          BY <2>1, <2>3, <2>6, <3>1, <3>2 DEF Ledger!Claim, MapTo, Executed, CycleOf
    <3> QED BY <2>3, <2>6, <3>3 DEF Ledger!Next
  <2>7. CASE Passed(t) /\ due' = due /\ events' = events \cup {MissedEvent(t, nextDue[t], "scheduler_busy")}
    <3> DEFINE e == MissedEvent(t, nextDue[t], "scheduler_busy")
    <3>1. CycleOf(e) = c /\ ~Executed(e)
          BY DEF MissedEvent, CycleOf, Executed
    <3>2. events' = events \cup {e}
          BY <2>7
    <3> HIDE DEF e
    <3>3. Ran' = Ran /\ Waived' = Waived \cup {e}
          BY <3>1, <3>2 DEF Ran, Waived, Executed
    <3>4. MapTo(Waived') = MapTo(Waived) \cup {c}
          BY <3>1, <3>3, MapAdd
    <3>5. c.slot <= clock
          BY <2>1, <2>2, <2>7 DEF Passed
    <3> HIDE DEF c
    <3>6. Ledger!Skip(c)
          BY <2>1, <2>3, <2>7, <3>3, <3>4, <3>5 DEF Ledger!Skip, MapTo, Ran, Waived
    <3> QED BY <2>3, <2>7, <3>6 DEF Ledger!Next
  <2> QED BY <1>4, <2>5, <2>6, <2>7 DEF ScanTask
<1>5. ASSUME NEW item \in due
      PROVE  /\ CycleOf(item) = item
             /\ MapTo(due \ {item}) = MapTo(due) \ {item}
             /\ item \in MapTo(due) /\ item \in Ledger!Cycles
  <2>1. \A d \in due : CycleOf(d) = d
        BY DEF CycleOf, TypeOK
  <2>2. item.slot \in Slots(item.task) /\ item.slot < Window /\ item.task \in Tasks
        BY DEF Slotted, Placed
  <2>3. item \in Ledger!Cycles
        BY <2>2 DEF Ledger!Cycles, Ledger!Slots, Slots, TypeOK
  <2> QED BY <2>1, <2>3 DEF MapTo
<1>6. ASSUME NEW item \in due, MissDeadline(item)
      PROVE  [Ledger!Next]_(Ledger!vars)
  <2> DEFINE e == MissedEvent(item.task, item.slot, "task_deadline_elapsed_before_start")
  <2>1. CycleOf(e) = item /\ ~Executed(e)
        BY <1>5 DEF MissedEvent, CycleOf, Executed
  <2>2. /\ events' = events \cup {e} /\ due' = due \ {item} /\ UNCHANGED <<clock, running, pc>>
        /\ pc = "dispatch"
        BY <1>6 DEF MissDeadline
  <2> HIDE DEF e
  <2>3. Ran' = Ran /\ Waived' = Waived \cup {e}
        BY <2>1, <2>2 DEF Ran, Waived, Executed
  <2>4. MapTo(Waived') = MapTo(Waived) \cup {item} /\ MapTo(due') = MapTo(due) \ {item}
        BY <1>5, <2>1, <2>2, <2>3, MapAdd
  <2>5. Ledger!GiveUp(item)
        BY <1>5, <2>2, <2>3, <2>4 DEF Ledger!GiveUp, MapTo, Ran, Waived
  <2> QED BY <1>5, <2>5 DEF Ledger!Next
<1>7. ASSUME NEW item \in due, StartExecution(item)
      PROVE  [Ledger!Next]_(Ledger!vars)
  <2> DEFINE r == [task |-> item.task, slot |-> item.slot, start |-> clock]
  <2>1. CycleOf(r) = item
        BY <1>5 DEF CycleOf
  <2>2. /\ running' = {r} /\ running = {} /\ due' = due \ {item} /\ UNCHANGED <<clock, events>>
        /\ pc = "dispatch" /\ pc' = "executing" /\ Remaining(item) > 0
        BY <1>7 DEF StartExecution, ActualStart, Control
  <2> HIDE DEF r
  <2>3. MapTo(running') = {item} /\ MapTo(running) = {} /\ MapTo(due') = MapTo(due) \ {item}
        BY <1>5, <2>1, <2>2 DEF MapTo
  <2>4. /\ item.task \in Tasks /\ item.slot \in Nat /\ clock \in Nat /\ stamp \in Nat
        /\ item.slot <= stamp /\ stamp <= clock /\ Window \in Nat
        BY ConfigAssumption DEF ConfigAssumption, TypeOK, Time, Stamped
  <2>5. /\ EffectiveDeadline(item.task) \in Nat /\ Interval[item.task] \in Nat
        /\ EffectiveDeadline(item.task) <= Interval[item.task]
        BY <2>4, EffectiveDeadlineType, ConfigAssumption DEF ConfigAssumption
  <2>6. Ledger!InItsPeriod(item) /\ clock < Window
        BY <2>2, <2>4, <2>5 DEF Remaining, ActualStart, Lesser, Ledger!InItsPeriod
  <2>7. Ledger!Start(item)
        BY <1>5, <2>2, <2>3, <2>6 DEF Ledger!Start, MapTo
  <2> QED BY <1>5, <2>7 DEF Ledger!Next
<1>8. ASSUME NEW x \in Executions, NEW failed \in BOOLEAN, FinishExecution(x, failed)
      PROVE  [Ledger!Next]_(Ledger!vars)
  <2>1. PICK r \in [task : Tasks, slot : Nat, start : Nat] : running = {r}
        BY <1>8 DEF FinishExecution, Control
  <2> DEFINE e == ExecutedEvent(r, x, clock)
             c == CycleOf(r)
  <2>2. CycleOf(e) = c /\ Executed(e)
        BY DEF ExecutedEvent, CycleOf, Executed
  <2>3. /\ events' = events \cup {e} /\ running' = {} /\ UNCHANGED <<clock, due>>
        BY <1>8, <2>1 DEF FinishExecution
  <2> HIDE DEF e
  <2>4. Ran' = Ran \cup {e} /\ Waived' = Waived
        BY <2>2, <2>3 DEF Ran, Waived, Executed
  <2>5. MapTo(Ran') = MapTo(Ran) \cup {c} /\ MapTo(running) = {c} /\ MapTo(running') = {}
        BY <2>1, <2>2, <2>3, <2>4, MapAdd DEF MapTo
  <2>6. c \in Ledger!Cycles
    <3>1. r.slot \in Slots(r.task) /\ r.slot < Window /\ r.task \in Tasks
          BY <2>1 DEF Slotted, Placed
    <3> QED BY <3>1 DEF Ledger!Cycles, Ledger!Slots, Slots, CycleOf
  <2>7. (pc' \in {"drain", "done"}) \in BOOLEAN
        OBVIOUS
  <2> HIDE DEF c
  <2>8. Ledger!Finish(c)
        BY <2>3, <2>4, <2>5, <2>7 DEF Ledger!Finish, MapTo, Ran, Waived
  <2> QED BY <2>6, <2>8 DEF Ledger!Next
<1>9. ASSUME NEW t \in Tasks, DrainSlot(t)
      PROVE  [Ledger!Next]_(Ledger!vars)
  <2> DEFINE c == [task |-> t, slot |-> nextDue[t]]
  <2>1. PICK reason \in MissedReasons : events' = events \cup {MissedEvent(t, nextDue[t], reason)}
        BY <1>9 DEF DrainSlot, MissedReasons
  <2> DEFINE e == MissedEvent(t, nextDue[t], reason)
  <2>2. CycleOf(e) = c /\ ~Executed(e)
        BY DEF MissedEvent, CycleOf, Executed
  <2>3. events' = events \cup {e}
        BY <2>1
  <2> HIDE DEF e
  <2>4. Ran' = Ran /\ Waived' = Waived \cup {e}
        BY <2>2, <2>3 DEF Ran, Waived, Executed
  <2>5. MapTo(Waived') = MapTo(Waived) \cup {c}
        BY <2>2, <2>4, MapAdd
  <2>6. c \in Ledger!Cycles /\ Ledger!NextOfItsTask(c)
        BY <1>9, NextOfTask DEF DrainSlot
  <2>7. UNCHANGED <<clock, due, running>> /\ pc = "drain" /\ pc' = "drain"
        BY <1>9 DEF DrainSlot
  <2> HIDE DEF c
  <2>8. Ledger!Skip(c)
        BY <2>4, <2>5, <2>6, <2>7 DEF Ledger!Skip, MapTo, Ran, Waived
  <2> QED BY <2>6, <2>8 DEF Ledger!Next
<1> QED BY <1>2, <1>3, <1>4, <1>6, <1>7, <1>8, <1>9 DEF Next, Step

\* Whatever the tasks, the scheduler's ledger of cycles is one that SlotLedger
\* allows: in order, once, in its own period, one at a time.
THEOREM Implements == Spec => ImplementsLedger
<1>1. Init => Ledger!Init
      BY DEF Init, Ledger!Init
<1>2. LedgerInv /\ [Next]_vars => [Ledger!Next]_(Ledger!vars)
      BY LedgerStep
<1>3. Spec => []LedgerInv
      BY SlottedInvariant, OrderlyInvariant, PTL DEF LedgerInv
<1> QED BY <1>1, <1>2, <1>3, PTL DEF Spec, ImplementsLedger, Ledger!Spec

(***************************************************************************)
(* What a configuration that is accepted guarantees to the scheduler, as   *)
(* far as its numbers are numbers: the assumptions made above.             *)
(***************************************************************************)

\* The intervals and deadlines that were configured are numbers.
Numeric(c) ==
    /\ NaN \notin Int
    /\ c.durations.measurement_seconds \in Int
    /\ \A i \in DOMAIN c.tasks : \A l \in Range(c.demand_levels) :
          /\ c.tasks[i].intervals_seconds[l] \in Int
          /\ c.tasks[i].deadlines_seconds[l] \in Int

\* What ConfigAssumption asks of resolved tasks, and what
\* the records of its events rely on: task_id identifies a task, and a query
\* belongs to one of them.
Schedulable(tasks) ==
    /\ \A t \in DOMAIN tasks :
          /\ tasks[t].interval_seconds \in Nat \ {0}
          /\ tasks[t].deadline_seconds \in Nat \ {0}
          /\ tasks[t].deadline_seconds <= tasks[t].interval_seconds
    /\ \A t, u \in DOMAIN tasks : tasks[t].task_id = tasks[u].task_id => t = u
    /\ \A t, u \in DOMAIN tasks :
          Range(tasks[t].query_ids) \cap Range(tasks[u].query_ids) # {} => t = u

\* A timing that passes the checks of validate_monitoring_tasks is
\* 0 < deadline <= interval, unless NaN is among its numbers.
LEMMA Timing ==
    ASSUME NaN \notin Int, NEW interval \in Int, NEW deadline \in Int, ValidTiming(interval, deadline)
    PROVE  /\ interval \in Nat \ {0} /\ deadline \in Nat \ {0}
           /\ deadline <= interval
  BY DEF ValidTiming, PassesAsPositive, AtMost, Exceeds

\* For every demand level, the tasks that resolve_tasks hands to run_scheduler
\* meet what the scheduler assumes, if load_monitoring_config accepted their
\* configuration and its numbers are numbers.
THEOREM AcceptedIsSchedulable ==
    ASSUME NEW c, NEW known, NEW contracts, NEW policies,
           ValidMonitoring(c, known, contracts, policies), Numeric(c),
           NEW level \in Range(c.demand_levels)
    PROVE  Schedulable(Resolve(c, level))
<1> DEFINE tasks == Resolve(c, level)
<1>1. DOMAIN tasks = DOMAIN c.tasks
  BY DEF Resolve
<1>2. ValidTasks(c.tasks, Range(c.demand_levels), contracts, policies)
  BY DEF ValidMonitoring
<1>3. ASSUME NEW t \in DOMAIN tasks
      PROVE  /\ tasks[t].interval_seconds \in Nat \ {0}
             /\ tasks[t].deadline_seconds \in Nat \ {0}
             /\ tasks[t].deadline_seconds <= tasks[t].interval_seconds
  <2>1. ValidTask(c.tasks[t], Range(c.demand_levels), contracts, policies)
    BY <1>1, <1>2 DEF ValidTasks
  <2>2. /\ DOMAIN c.tasks[t].deadlines_seconds = Range(c.demand_levels)
        /\ ValidTiming(c.tasks[t].intervals_seconds[level], c.tasks[t].deadlines_seconds[level])
    BY <2>1 DEF ValidTask
  <2>3. /\ tasks[t].interval_seconds = c.tasks[t].intervals_seconds[level]
        /\ tasks[t].deadline_seconds = c.tasks[t].deadlines_seconds[level]
    BY <1>1, <2>2 DEF Resolve
  <2>4. /\ NaN \notin Int
        /\ c.tasks[t].intervals_seconds[level] \in Int
        /\ c.tasks[t].deadlines_seconds[level] \in Int
    BY <1>1 DEF Numeric
  <2> HIDE DEF tasks
  <2>. QED BY <2>2, <2>3, <2>4, Timing
<1>4. ASSUME NEW t \in DOMAIN tasks, NEW u \in DOMAIN tasks, tasks[t].task_id = tasks[u].task_id
      PROVE  t = u
  <2>1. c.tasks[t].task_id = c.tasks[u].task_id
    BY <1>1, <1>4 DEF Resolve
  <2>. QED BY <1>1, <1>2, <2>1 DEF ValidTasks, IsInjective
<1>5. ASSUME NEW t \in DOMAIN tasks, NEW u \in DOMAIN tasks,
             Range(tasks[t].query_ids) \cap Range(tasks[u].query_ids) # {}
      PROVE  t = u
  <2>1. /\ tasks[t].query_ids = c.tasks[t].query_ids
        /\ tasks[u].query_ids = c.tasks[u].query_ids
    BY <1>1 DEF Resolve
  <2>2. PICK m \in DOMAIN c.tasks[t].query_ids, n \in DOMAIN c.tasks[u].query_ids :
            c.tasks[t].query_ids[m] = c.tasks[u].query_ids[n]
    BY <1>5, <2>1 DEF Range
  <2>. QED BY <1>1, <1>2, <2>2 DEF ValidTasks, AssignedOnce
<1>. QED BY <1>3, <1>4, <1>5 DEF Schedulable

\* A task without a warning at a level has the recommended number of cycles
\* inside the window, or one less: the warning (config.py:184-185) compares the
\* quotient of window and interval, but the first slot is an interval after the
\* start (scheduler.py:62) and a slot at the very end of the window is not run
\* (scheduler.py:69 and 78), so an exact multiple is one cycle short of its quotient.
THEOREM UnwarnedLacksAtMostOne ==
    ASSUME NEW c, NEW known, NEW contracts, NEW policies,
           ValidMonitoring(c, known, contracts, policies), Numeric(c), c.minimum_cycles \in Int,
           NEW i \in DOMAIN c.tasks, NEW level \in Range(c.demand_levels),
           <<i, level>> \notin Warnings(c)
    PROVE  LET interval == Resolve(c, level)[i].interval_seconds
               window == c.durations.measurement_seconds
           IN  /\ \A n \in 1 .. c.minimum_cycles - 1 : n * interval < window
               /\ c.minimum_cycles * interval <= window
<1> DEFINE interval == c.tasks[i].intervals_seconds[level]
           window == c.durations.measurement_seconds
           least == c.minimum_cycles
<1>1. Resolve(c, level)[i].interval_seconds = interval
  BY DEF Resolve
<1>2. interval \in Nat \ {0} /\ window \in Int /\ NaN \notin Int
  <2>1. Schedulable(Resolve(c, level)) /\ DOMAIN Resolve(c, level) = DOMAIN c.tasks
    BY AcceptedIsSchedulable DEF Resolve
  <2>. QED BY <1>1, <2>1 DEF Schedulable, Numeric
<1>3. ~Exceeds(least * interval, window)
  <2>1. <<i, level>> \in (DOMAIN c.tasks) \X Range(c.demand_levels)
    OBVIOUS
  <2>2. interval # NaN
    BY <1>2
  <2>. QED BY <2>1, <2>2 DEF Warnings
<1> HIDE DEF interval, window, least
<1>4. least \in Int
  BY DEF least
<1>5. least * interval <= window
  <2>1. least * interval \in Int
    BY <1>2, <1>4
  <2>. QED BY <1>2, <1>3, <2>1 DEF Exceeds
<1>6. ASSUME NEW n \in 1 .. least - 1
      PROVE  n * interval < window
  <2>1. n * interval <= (least - 1) * interval
    BY <1>2, <1>4
  <2>2. (least - 1) * interval = least * interval - interval
    BY <1>2, <1>4
  <2>3. /\ n * interval \in Int /\ least * interval \in Int
        /\ (least - 1) * interval \in Int
    BY <1>2, <1>4
  <2>. QED BY <1>2, <1>5, <2>1, <2>2, <2>3
<1>. QED BY <1>1, <1>5, <1>6 DEF least, window, interval
=============================================================================
