------------------------------ MODULE SlotLedger -------------------------------
(***************************************************************************)
(* What the monitoring scheduler promises about cycles, without saying how *)
(* it polls, sorts or sleeps.  Task t has a cycle at every multiple of its *)
(* interval inside the window.  A cycle is taken up at most once, in slot  *)
(* order within its task; it can start only during its own period; one     *)
(* cycle runs at a time; an executed or missed cycle stays what it is; and *)
(* a cycle that is not yet due is given up only once the window is closed. *)
(***************************************************************************)
EXTENDS Integers

CONSTANTS Tasks, Interval, Window

VARIABLES
    clock,     \* the monotonic clock, from the start of the window
    claimed,   \* cycles taken up, waiting for their turn
    active,    \* the cycle that is running, if any
    executed,  \* cycles that ran
    missed,    \* cycles that will never run
    closed     \* no further cycle starts

vars == <<clock, claimed, active, executed, missed, closed>>

Slots(t) == {n * Interval[t] : n \in 1 .. Window}

Cycles == UNION {[task : {t}, slot : {s \in Slots(t) : s < Window}] : t \in Tasks}

Settled == claimed \cup active \cup executed \cup missed

NextOfItsTask(c) ==
    /\ c \notin Settled
    /\ \A s \in Slots(c.task) : s < c.slot => [task |-> c.task, slot |-> s] \in Settled

Init ==
    /\ clock = 0
    /\ claimed = {} /\ active = {} /\ executed = {} /\ missed = {}
    /\ closed = FALSE

InItsPeriod(c) == c.slot <= clock /\ clock < c.slot + Interval[c.task]

Claim(c) ==
    /\ ~closed
    /\ NextOfItsTask(c)
    /\ InItsPeriod(c)
    /\ claimed' = claimed \cup {c}
    /\ UNCHANGED <<clock, active, executed, missed, closed>>

\* A cycle is passed over without ever having been claimed.
Skip(c) ==
    /\ NextOfItsTask(c)
    /\ c.slot <= clock \/ closed
    /\ missed' = missed \cup {c}
    /\ UNCHANGED <<clock, claimed, active, executed, closed>>

GiveUp(c) ==
    /\ ~closed
    /\ c \in claimed
    /\ claimed' = claimed \ {c}
    /\ missed' = missed \cup {c}
    /\ UNCHANGED <<clock, active, executed, closed>>

Start(c) ==
    /\ ~closed
    /\ c \in claimed
    /\ active = {}
    /\ InItsPeriod(c)
    /\ clock < Window
    /\ claimed' = claimed \ {c}
    /\ active' = {c}
    /\ UNCHANGED <<clock, executed, missed, closed>>

\* The run may be closed at once when the recovery after this cycle failed.
Finish(c) ==
    /\ active = {c}
    /\ active' = {}
    /\ executed' = executed \cup {c}
    /\ closed' \in BOOLEAN
    /\ UNCHANGED <<clock, claimed, missed>>

Close ==
    /\ active = {}
    /\ closed' = TRUE
    /\ UNCHANGED <<clock, claimed, active, executed, missed>>

TimePasses ==
    /\ clock' = clock + 1
    /\ UNCHANGED <<claimed, active, executed, missed, closed>>

Next ==
    \/ TimePasses \/ Close
    \/ \E c \in Cycles : Claim(c) \/ Skip(c) \/ GiveUp(c) \/ Start(c) \/ Finish(c)

Spec == Init /\ [][Next]_vars
=============================================================================
