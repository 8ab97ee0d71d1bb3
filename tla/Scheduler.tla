------------------------------- MODULE Scheduler -------------------------------
(***************************************************************************)
(* The fixed-rate scheduler of the continuous-monitoring experiment        *)
(* (continuous_monitoring/scheduler.py, run_scheduler).                    *)
(*                                                                         *)
(* One thread runs the loop.  The monotonic clock is a variable that       *)
(* advances on its own; the action Tick is enabled exactly where the code  *)
(* is about to read the clock again, because time that passes elsewhere is *)
(* indistinguishable from time that passes just before the next read.      *)
(* The window starts at instant 0 (start == 0).                            *)
(***************************************************************************)
EXTENDS Integers, FiniteSets

CONSTANTS
    Tasks,          \* the resolved MonitoringTasks, identified by numbers
    Interval,       \* interval_seconds of each task
    Deadline,       \* deadline_seconds of each task, or NoDeadline
    Priority,       \* priority of each task
    NoDeadline,     \* stands for deadline_seconds = None
    GlobalTimeout,  \* global_timeout (logical_timeout_seconds)
    Window,         \* measurement_seconds, hence also `end`
    MaxTime         \* bound of the model: the clock stops there

(***************************************************************************)
(* What load_monitoring_config accepts (config.py): positive durations and *)
(* 0 < deadline <= interval.                                               *)
(***************************************************************************)
ASSUME ConfigAssumption ==
    /\ Tasks # {} /\ Tasks \subseteq Nat /\ IsFiniteSet(Tasks)
    /\ Interval \in [Tasks -> Nat \ {0}]
    /\ Priority \in [Tasks -> Int]
    /\ NoDeadline \notin Nat
    /\ DOMAIN Deadline = Tasks
    /\ \A t \in Tasks : \/ Deadline[t] = NoDeadline
                        \/ Deadline[t] \in Nat \ {0} /\ Deadline[t] <= Interval[t]
    /\ GlobalTimeout \in Nat \ {0}
    /\ Window \in Nat \ {0}
    /\ MaxTime \in Nat /\ Window <= MaxTime

VARIABLES
    clock,       \* the monotonic clock
    pc,          \* where the scheduler thread is
    nextDue,     \* next_due
    stamp,       \* `now`, the instant the current scan was taken
    unscanned,   \* tasks the current scan has still to look at
    skipping,    \* the scan is inside the inner while loop
    due,         \* the slots of this batch still to be dispatched
    running,     \* the execution in progress: a set of at most one record
    events,      \* the recorded cycles
    busy,        \* scheduler_busy_seconds
    maxPending,  \* max_pending_monitoring_tasks
    halted       \* scheduler_halted

vars == <<clock, pc, nextDue, stamp, unscanned, skipping, due, running,
          events, busy, maxPending, halted>>

-----------------------------------------------------------------------------
Lesser(a, b) == IF a <= b THEN a ELSE b
Greater(a, b) == IF a <= b THEN b ELSE a

\* _deadline: the policy deadline, or the interval, capped by the global one.
EffectiveDeadline(t) ==
    Lesser(IF Deadline[t] = NoDeadline THEN Interval[t] ELSE Deadline[t], GlobalTimeout)

\* nearest = min(next_due.values())
Nearest == CHOOSE d \in {nextDue[t] : t \in Tasks} : \A t \in Tasks : d <= nextDue[t]

\* The sort key of a batch: descending priority, effective deadline, slot, id.
Precedes(a, b) ==
    \/ Priority[a.task] > Priority[b.task]
    \/ /\ Priority[a.task] = Priority[b.task]
       /\ \/ EffectiveDeadline(a.task) < EffectiveDeadline(b.task)
          \/ /\ EffectiveDeadline(a.task) = EffectiveDeadline(b.task)
             /\ \/ a.slot < b.slot
                \/ a.slot = b.slot /\ a.task < b.task

\* Mutant: the batch is not sorted and stays in the order of the scan.
FirstScanned(batch, item) == item \in batch /\ \A other \in batch \ {item} : item.task < other.task

FirstOf(batch, item) == item \in batch /\ \A other \in batch \ {item} : Precedes(item, other)

NoTime == -1

\* execution_status of a cycle that ran; "failed" stands for semantic_failure
\* and physical_failure, which the scheduler only counts.
Executions == {"completed", "logical_timeout", "failed"}

MissedReasons == {"scheduler_busy", "task_deadline_elapsed_before_start",
                  "timeout_recovery_failed", "measurement_window_closed_while_scheduler_busy"}

Event == [task : Tasks, slot : Nat, execution : Executions \cup {"not_executed"},
          schedule : {"completed_on_time", "completed_late", "missed_schedule"},
          reason : MissedReasons \cup {"none"}, start : Nat \cup {NoTime}, finish : Nat \cup {NoTime}]

MissedEvent(t, slot, reason) ==
    [task |-> t, slot |-> slot, execution |-> "not_executed", schedule |-> "missed_schedule",
     reason |-> reason, start |-> NoTime, finish |-> NoTime]

ExecutedEvent(r, execution, finish) ==
    [task |-> r.task, slot |-> r.slot, execution |-> execution,
     schedule |-> IF finish <= r.slot + EffectiveDeadline(r.task)
                  THEN "completed_on_time" ELSE "completed_late",
     reason |-> "none", start |-> r.start, finish |-> finish]

Executed(e) == e.schedule # "missed_schedule"

-----------------------------------------------------------------------------
Init ==
    /\ clock = 0
    /\ pc = "loop"
    /\ nextDue = [t \in Tasks |-> Interval[t]]
    /\ stamp = 0
    /\ unscanned = {}
    /\ skipping = FALSE
    /\ due = {}
    /\ running = {}
    /\ events = {}
    /\ busy = 0
    /\ maxPending = 0
    /\ halted = FALSE

ReadsClock == {"loop", "sleepEnd", "compare", "argument", "sleeping", "dispatch", "executing"}

Tick ==
    /\ pc \in ReadsClock
    /\ clock < MaxTime
    /\ clock' = clock + 1
    /\ UNCHANGED <<pc, nextDue, stamp, unscanned, skipping, due, running, events, busy, maxPending, halted>>

\* while tasks and clock() < end and not scheduler_halted, then the test of
\* `nearest >= end`; the final sleep is clamped with max(0.0, ...).
Loop ==
    /\ pc = "loop"
    /\ pc' = IF clock >= Window \/ halted THEN "drain"
             ELSE IF Nearest >= Window THEN "sleepEnd" ELSE "compare"
    /\ UNCHANGED <<clock, nextDue, stamp, unscanned, skipping, due, running, events, busy, maxPending, halted>>

WindowEnds ==
    /\ pc = "sleepEnd"
    /\ clock >= Window
    /\ pc' = "drain"
    /\ UNCHANGED <<clock, nextDue, stamp, unscanned, skipping, due, running, events, busy, maxPending, halted>>

\* if clock() < nearest: the argument of the sleep is computed from a second
\* reading of the clock.
NotYetDue ==
    /\ pc = "compare"
    /\ clock < Nearest
    /\ pc' = "argument"
    /\ UNCHANGED <<clock, nextDue, stamp, unscanned, skipping, due, running, events, busy, maxPending, halted>>

\* sleeper(nearest - clock()): time.sleep raises ValueError when its argument
\* is negative, and nothing in run_scheduler catches it.
Sleep ==
    /\ pc = "argument"
    /\ pc' = IF clock > Nearest THEN "raised" ELSE "sleeping"
    /\ UNCHANGED <<clock, nextDue, stamp, unscanned, skipping, due, running, events, busy, maxPending, halted>>

\* now = clock(): the scan of all tasks works with this one instant.
StartScan ==
    /\ pc \in {"compare", "sleeping"}
    /\ clock >= Nearest
    /\ pc' = "scan"
    /\ stamp' = clock
    /\ unscanned' = Tasks
    /\ UNCHANGED <<clock, nextDue, skipping, due, running, events, busy, maxPending, halted>>

\* Mutant: the scan does not stop at the end of the window.
PassedAnytime(t) == nextDue[t] <= stamp

Passed(t) == nextDue[t] <= stamp /\ nextDue[t] < Window

\* Mutant: a slot is given up once its deadline has passed.
LateForDeadline(t) == stamp - nextDue[t] >= EffectiveDeadline(t)

\* The next slot of the task has begun as well.
Late(t) == stamp - nextDue[t] >= Interval[t]

\* Mutant: the slot taken up is left in next_due.
AdvanceForgotten(t) == nextDue

\* scheduled += task.interval_seconds
Advance(t) == [nextDue EXCEPT ![t] = @ + Interval[t]]

ScanTask(t) ==
    /\ pc = "scan"
    /\ t \in unscanned
    /\ \A u \in unscanned : t <= u
    /\ \/ \* neither due nor, any more, to be skipped
          /\ ~Passed(t)
          /\ skipping' = FALSE
          /\ unscanned' = unscanned \ {t}
          /\ UNCHANGED <<nextDue, due, events>>
       \/ \* due, and its next slot has not begun: a candidate of this batch
          /\ Passed(t) /\ ~skipping /\ ~Late(t)
          /\ due' = due \cup {[task |-> t, slot |-> nextDue[t]]}
          /\ nextDue' = Advance(t)
          /\ unscanned' = unscanned \ {t}
          /\ UNCHANGED <<skipping, events>>
       \/ \* one turn of the inner while loop: every passed slot is missed
          /\ Passed(t) /\ (skipping \/ Late(t))
          /\ events' = events \cup {MissedEvent(t, nextDue[t], "scheduler_busy")}
          /\ nextDue' = Advance(t)
          /\ skipping' = TRUE
          /\ UNCHANGED <<unscanned, due>>
    /\ UNCHANGED <<clock, pc, stamp, running, busy, maxPending, halted>>

EndScan ==
    /\ pc = "scan"
    /\ unscanned = {}
    /\ maxPending' = Greater(maxPending, Cardinality(due))
    /\ pc' = "dispatch"
    /\ UNCHANGED <<clock, nextDue, stamp, unscanned, skipping, due, running, events, busy, halted>>

BatchDone ==
    /\ pc = "dispatch"
    /\ due = {}
    /\ pc' = "loop"
    /\ UNCHANGED <<clock, nextDue, stamp, unscanned, skipping, due, running, events, busy, maxPending, halted>>

\* Mutant: the batch reuses the instant of its scan.
ActualStartOfScan == stamp

\* actual_start: every dispatch reads the clock anew.
ActualStart == clock

\* Mutant: only the window bounds the start of a cycle.
RemainingWindow(item) == Window - ActualStart

\* remaining_deadline
Remaining(item) ==
    Lesser(item.slot + EffectiveDeadline(item.task) - ActualStart, Window - ActualStart)

\* Mutant: a missed item stays in the batch.
MissDeadlineStays(item) ==
    /\ pc = "dispatch"
    /\ FirstOf(due, item)
    /\ Remaining(item) <= 0
    /\ events' = events \cup {MissedEvent(item.task, item.slot, "task_deadline_elapsed_before_start")}
    /\ UNCHANGED <<clock, pc, nextDue, stamp, unscanned, skipping, due, running, busy, maxPending, halted>>

MissDeadline(item) ==
    /\ pc = "dispatch"
    /\ FirstOf(due, item)
    /\ Remaining(item) <= 0
    /\ due' = due \ {item}
    /\ events' = events \cup {MissedEvent(item.task, item.slot, "task_deadline_elapsed_before_start")}
    /\ UNCHANGED <<clock, pc, nextDue, stamp, unscanned, skipping, running, busy, maxPending, halted>>

StartExecution(item) ==
    /\ pc = "dispatch"
    /\ FirstOf(due, item)
    /\ Remaining(item) > 0
    /\ due' = due \ {item}
    /\ running' = {[task |-> item.task, slot |-> item.slot, start |-> ActualStart]}
    /\ pc' = "executing"
    /\ UNCHANGED <<clock, nextDue, stamp, unscanned, skipping, events, busy, maxPending, halted>>

\* actual_end - actual_start
Spent(r) == clock - r.start

\* execute() returns: the executor may take any time (a timeout is followed
\* by the recovery of the workers inside the same call), and only a logical
\* timeout can come with recovery_succeeded == False.
FinishExecution(execution, recoveryFailed) ==
    /\ pc = "executing"
    /\ recoveryFailed => execution = "logical_timeout"
    /\ events' = events \cup {ExecutedEvent(r, execution, clock) : r \in running}
    /\ busy' = busy + Spent(CHOOSE r \in running : TRUE)
    /\ running' = {}
    /\ halted' = recoveryFailed
    /\ pc' = IF recoveryFailed THEN "drain" ELSE "dispatch"
    /\ UNCHANGED <<clock, nextDue, stamp, unscanned, skipping, due, maxPending>>

\* The final loop: what is still scheduled inside the window is missed.
DrainSlot(t) ==
    /\ pc = "drain"
    /\ nextDue[t] < Window
    /\ events' = events \cup
         {MissedEvent(t, nextDue[t], IF halted THEN "timeout_recovery_failed"
                                     ELSE "measurement_window_closed_while_scheduler_busy")}
    /\ nextDue' = Advance(t)
    /\ UNCHANGED <<clock, pc, stamp, unscanned, skipping, due, running, busy, maxPending, halted>>

Return ==
    /\ pc = "drain"
    /\ \A t \in Tasks : nextDue[t] >= Window
    /\ pc' = "done"
    /\ UNCHANGED <<clock, nextDue, stamp, unscanned, skipping, due, running, events, busy, maxPending, halted>>

Step ==
    \/ Loop \/ WindowEnds \/ NotYetDue \/ Sleep \/ StartScan \/ EndScan \/ BatchDone \/ Return
    \/ \E t \in Tasks : ScanTask(t) \/ DrainSlot(t)
    \/ \E item \in due : MissDeadline(item) \/ StartExecution(item)
    \/ \E x \in Executions, failed \in BOOLEAN : FinishExecution(x, failed)

Next == Tick \/ Step

Spec == Init /\ [][Next]_vars

\* Time passes, the thread is scheduled, and the executor returns: every
\* physical request, idle check and restart it makes has a timeout.
FairSpec == Spec /\ WF_vars(Tick) /\ WF_vars(Step)

-----------------------------------------------------------------------------
(***************************************************************************)
(* Properties                                                              *)
(***************************************************************************)
TypeOK ==
    /\ clock \in Nat
    /\ pc \in ReadsClock \cup {"scan", "drain", "done", "raised"}
    /\ nextDue \in [Tasks -> Nat]
    /\ stamp \in Nat
    /\ unscanned \subseteq Tasks
    /\ skipping \in BOOLEAN
    /\ due \subseteq [task : Tasks, slot : Nat]
    /\ running \subseteq [task : Tasks, slot : Nat, start : Nat]
    /\ events \subseteq Event
    /\ busy \in Nat
    /\ maxPending \in Nat
    /\ halted \in BOOLEAN

Slots(t) == {n * Interval[t] : n \in 1 .. Window}

Recorded(t) == {e.slot : e \in {x \in events : x.task = t}}
Pending(t) == {d.slot : d \in {x \in due : x.task = t}}
InProgress(t) == {r.slot : r \in {x \in running : x.task = t}}

\* Every slot taken out of next_due is recorded, waiting in the batch or
\* executing, in exactly one of the three, and has one event at most: no cycle
\* is counted twice or forgotten between scheduler.py:74 and the end of the
\* batch, whatever the executor does meanwhile.
SlotConservation ==
    \A t \in Tasks :
        /\ {s \in Slots(t) : s < nextDue[t]} = Recorded(t) \cup Pending(t) \cup InProgress(t)
        /\ Recorded(t) \cap (Pending(t) \cup InProgress(t)) = {}
        /\ Pending(t) \cap InProgress(t) = {}
        /\ \A e, f \in events : e.task = t /\ f.task = t /\ e.slot = f.slot => e = f

\* When the window closes normally, the ledger holds exactly the slots
\* t0 + n*interval inside it, so the compliance denominator counts "all
\* scheduled cycles, including missed slots" (MONITORING_OVERHEAD.md:23).
EverySlotRecorded ==
    pc = "done" /\ ~halted =>
        \A t \in Tasks : Recorded(t) = {s \in Slots(t) : s < Window}

\* No catch-up burst: an execution starts inside the period of its own slot
\* and inside the window, so one task never starts twice in one period.
NoCatchUpBurst ==
    \A r \in running \cup {e \in events : Executed(e)} :
        /\ r.slot <= r.start
        /\ r.start < r.slot + Interval[r.task]
        /\ r.start < Window

\* "Logical concurrency remains one" (MONITORING_OVERHEAD.md:21): two cycles
\* that ran have not overlapped, though their slots may coincide.
LogicalConcurrencyOne ==
    \A e, f \in {x \in events : Executed(x)} :
        e = f \/ e.finish <= f.start \/ f.finish <= e.start

\* The busy time is made of disjoint pieces of the elapsed time, whatever the
\* durations, so scheduler_utilization never exceeds 1.
UtilizationBound ==
    \A r \in running : busy + Spent(r) <= clock

\* "Simultaneously due tasks are ordered by descending priority, earliest
\* deadline, scheduled time and stable task ID" (MONITORING_OVERHEAD.md:21):
\* of two cycles due at one instant the first in that order starts first, even
\* when time passes between their dispatches.
SimultaneousInOrder ==
    \A e, f \in {x \in events : Executed(x)} :
        e.slot = f.slot /\ Precedes(e, f) => e.finish <= f.start

\* A cycle is abandoned for being busy only if the scheduler was late for it
\* by a whole interval, or had already abandoned the task's previous slot.
BusyMissIsLate ==
    \A e \in events : e.reason = "scheduler_busy" =>
        \/ stamp >= e.slot + Interval[e.task]
        \/ \E f \in events : /\ f.task = e.task /\ f.reason = "scheduler_busy"
                             /\ f.slot = e.slot - Interval[e.task]

\* A slot reached while the scheduler is between two readings of the clock is
\* executed or missed like any other: the loop never dies of it.
NeverRaises == pc # "raised"

\* The window ends: the scheduler returns (or raises) whatever the executor
\* does, since the clock passes the end of the window.
Terminates == <>(pc \in {"done", "raised"})

\* The scheduler implements the ledger of cycles: polling, batching, sorting,
\* sleeping and the two ways of missing a slot are steps or stutters of it.
CycleOf(x) == [task |-> x.task, slot |-> x.slot]

Ledger == INSTANCE SlotLedger WITH
    claimed  <- {CycleOf(d) : d \in due},
    active   <- {CycleOf(r) : r \in running},
    executed <- {CycleOf(e) : e \in {x \in events : Executed(x)}},
    missed   <- {CycleOf(e) : e \in {x \in events : ~Executed(x)}},
    closed   <- pc \in {"drain", "done"}

ImplementsLedger == Ledger!Spec
=============================================================================
