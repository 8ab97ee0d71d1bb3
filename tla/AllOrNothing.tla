----------------------------- MODULE AllOrNothing ------------------------------
(***************************************************************************)
(* What a logical query promises (ARCHITECTURE.md, "Completed sets are     *)
(* merged only when every required participant succeeds"): a valid result  *)
(* is the merge of the answers of all its participants, obtained within    *)
(* its time; otherwise there is no result, and the verdict is final.  With *)
(* all the answers in hand it is void only when its time is used up.       *)
(***************************************************************************)
EXTENDS Integers

CONSTANTS Hosts, Queries, Answers, NoAnswer, Merge(_, _), Time

VARIABLES
    query,    \* what is asked
    given,    \* the answer each participant has given, or NoAnswer
    left,     \* time left until the deadline
    verdict   \* "open", "query_timeout", "failed", or "completed" with a result

vars == <<query, given, left, verdict>>

Open == verdict = [status |-> "open"]

Complete == \A h \in Hosts : given[h] # NoAnswer

Init ==
    /\ query \in Queries
    /\ given = [h \in Hosts |-> NoAnswer]
    /\ left = Time
    /\ verdict = [status |-> "open"]

Give(h) ==
    /\ given[h] = NoAnswer
    /\ \E a \in Answers : given' = [given EXCEPT ![h] = a]
    /\ UNCHANGED <<query, left, verdict>>

Pass == left' = left - 1 /\ UNCHANGED <<query, given, verdict>>

Succeed ==
    /\ Open /\ Complete /\ left >= 0
    /\ verdict' = [status |-> "completed", result |-> Merge(query, given)]
    /\ UNCHANGED <<query, given, left>>

\* Before the deadline, a timeout is that of one participant.
TimeOut ==
    /\ Open /\ (Complete => left <= 0)
    /\ verdict' = [status |-> "query_timeout"]
    /\ UNCHANGED <<query, given, left>>

Fail ==
    /\ Open /\ ~Complete
    /\ verdict' = [status |-> "failed"]
    /\ UNCHANGED <<query, given, left>>

Next == Pass \/ Succeed \/ TimeOut \/ Fail \/ \E h \in Hosts : Give(h)

Spec == Init /\ [][Next]_vars
=============================================================================
