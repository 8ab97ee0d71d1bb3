------------------------------- MODULE HttpClient --------------------------------
(***************************************************************************)
(* The HTTP client of the control plane (protocol.py): request_json, one   *)
(* request with one deadline over several socket operations, and           *)
(* wait_ready, which polls /health with it.                                *)
(*                                                                         *)
(* A blocking socket operation ends when the worker or the network lets it *)
(* or at its own timeout; computation takes no time.  A body has a length, *)
(* so that one read1 is one recv at most.                                  *)
(***************************************************************************)
EXTENDS Integers

CONSTANTS
    Timeout,          \* timeout of a request with a payload
    DeadlineSeconds,  \* deadline_seconds of wait_ready
    PollTimeout,      \* the 5 of min(5, deadline_seconds)
    Pause,            \* the sleep between two polls
    HeadParts         \* bound of the model: the segments of a response's head
                      \* before the last (http.client limits lines and headers)

ASSUME ClientAssumption ==
    /\ Timeout \in Nat \ {0} /\ DeadlineSeconds \in Nat \ {0}
    /\ PollTimeout \in Nat \ {0} /\ Pause \in Nat \ {0}
    /\ HeadParts \in Nat

VARIABLES
    clock,
    caller,       \* "upload": one request with a payload; "wait_ready": polls
    pc,           \* the pending operation, or how the call ended
    deadline,     \* deadline of the request
    sockTimeout,  \* timeout of the socket
    opEnd,        \* when the pending operation times out
    parts         \* segments of the response's head that have arrived

vars == <<clock, caller, pc, deadline, sockTimeout, opEnd, parts>>

RequestTimeout ==
    IF caller = "upload" THEN Timeout
    ELSE IF PollTimeout < DeadlineSeconds THEN PollTimeout ELSE DeadlineSeconds

\* Operations of the socket, in the order of connection.request and getresponse.
Socket == {"connect", "headers", "body", "head", "read"}
Blocking == Socket \cup {"sleep"}
Ends == {"returned", "RuntimeError", "ValueError", "TimeoutError"}

\* The deadline is set and the connection is opened with what remains: all of it.
Init ==
    /\ clock = 0
    /\ caller \in {"upload", "wait_ready"}
    /\ pc = "connect"
    /\ deadline = RequestTimeout /\ sockTimeout = RequestTimeout /\ opEnd = RequestTimeout
    /\ parts = 0

Pass ==
    /\ pc \in Blocking /\ clock < opEnd
    /\ clock' = clock + 1
    /\ UNCHANGED <<caller, pc, deadline, sockTimeout, opEnd, parts>>

-----------------------------------------------------------------------------
(***************************************************************************)
(* request_json.                                                           *)
(***************************************************************************)
\* How the call ends, or goes on: wait_ready sleeps after a RuntimeError, and
\* only after that one.
Finish(result) ==
    /\ IF caller = "wait_ready" /\ result = "RuntimeError"
       THEN pc' = "sleep" /\ opEnd' = clock + Pause
       ELSE pc' = result /\ UNCHANGED opEnd
    /\ UNCHANGED <<clock, caller, deadline, sockTimeout, parts>>

\* The operations inside connection.request share the timeout of the socket.
Proceed(op) ==
    /\ pc' = op
    /\ opEnd' = clock + sockTimeout
    /\ UNCHANGED <<clock, caller, deadline, sockTimeout, parts>>

\* Mutant: the socket keeps the timeout it was opened with.
RecalculateForgotten(op) == IF deadline <= clock THEN Finish("RuntimeError") ELSE Proceed(op)

\* settimeout(remaining()) before the next operation.
Recalculate(op) ==
    IF deadline <= clock THEN Finish("RuntimeError")
    ELSE /\ pc' = op
         /\ sockTimeout' = deadline - clock /\ opEnd' = deadline
         /\ UNCHANGED <<clock, caller, deadline, parts>>

Connect == pc = "connect" /\ Proceed("headers")

SendHeaders ==
    /\ pc = "headers"
    /\ IF caller = "upload" THEN Proceed("body") ELSE Recalculate("head")

SendBody == pc = "body" /\ Recalculate("head")

\* A part of the response's head: the next segment has the same timeout anew.
ReceivePart ==
    /\ pc = "head" /\ parts < HeadParts
    /\ parts' = parts + 1
    /\ opEnd' = clock + sockTimeout
    /\ UNCHANGED <<clock, caller, pc, deadline, sockTimeout>>

ReceiveHead == pc = "head" /\ Recalculate("read")

ReceiveChunk == pc = "read" /\ Recalculate("read")

\* The answer is complete, with status 200 or another, or the connection was
\* closed within the body, which is then not JSON: a ValueError.  After this
\* last read, an empty one, nothing looks at the clock.
ReceiveEnd ==
    /\ pc = "read"
    /\ \E r \in {"returned", "RuntimeError", "ValueError"} : Finish(r)

\* Mutant: only the connection is made with a timeout.
TimeOutConnecting == pc = "connect" /\ clock = opEnd /\ Finish("RuntimeError")

TimeOut == pc \in Socket /\ clock = opEnd /\ Finish("RuntimeError")

\* Connection refused or lost.
Break == pc \in Socket /\ Finish("RuntimeError")

-----------------------------------------------------------------------------
(***************************************************************************)
(* wait_ready.                                                             *)
(***************************************************************************)
\* The worker answers but it is not ready, not the expected one or not idle.
NotReady ==
    /\ caller = "wait_ready"
    /\ pc = "read"
    /\ Finish("RuntimeError")

Wake ==
    /\ pc = "sleep" /\ clock = opEnd
    /\ IF clock < DeadlineSeconds
       THEN /\ pc' = "connect"
            /\ deadline' = clock + RequestTimeout
            /\ sockTimeout' = RequestTimeout /\ opEnd' = deadline'
            /\ parts' = 0
            /\ UNCHANGED <<clock, caller>>
       ELSE /\ pc' = "TimeoutError"
            /\ UNCHANGED <<clock, caller, deadline, sockTimeout, opEnd, parts>>

-----------------------------------------------------------------------------
Next ==
    \/ Pass
    \/ Connect \/ SendHeaders \/ SendBody \/ ReceivePart \/ ReceiveHead \/ ReceiveChunk \/ ReceiveEnd
    \/ TimeOut \/ Break \/ NotReady \/ Wake

Spec == Init /\ [][Next]_vars

\* Time passes, timeouts fire and the sleeper wakes up; worker and network owe
\* nothing.
FairSpec == Spec /\ WF_vars(Pass) /\ WF_vars(TimeOut) /\ WF_vars(Wake)

-----------------------------------------------------------------------------
(***************************************************************************)
(* Properties                                                              *)
(***************************************************************************)
TypeOK ==
    /\ clock \in Nat
    /\ caller \in {"upload", "wait_ready"}
    /\ pc \in Blocking \cup Ends
    /\ deadline \in Nat \ {0} /\ sockTimeout \in Nat \ {0} /\ opEnd \in Nat \ {0}
    /\ parts \in 0 .. HeadParts

\* A body whose bytes keep coming is not accepted after the deadline of its
\* request, although no clock is read after the last of them: every read is
\* armed with no more than what remains (protocol.py:39), however much of the
\* deadline connection, request and head have used or overrun.
AcceptedInTime == pc = "returned" => clock <= deadline

\* request_json and wait_ready end although worker and network may stop at any
\* point or dribble the head: all that makes them end is the timeout of the
\* socket and the deadline of the wait.  This is what the runners' fairness rests
\* on.
CallEnds == <>(pc \in Ends)
=============================================================================
