----------------------------- MODULE SerialWorker ------------------------------
(***************************************************************************)
(* What a semantic worker promises to the control plane: /reset, /prepare  *)
(* and /query take effect one at a time and at most once, each against the *)
(* graph left by the one before, and a process that dies forgets its graph.*)
(***************************************************************************)
CONSTANTS Requests, Kind, Payload, Header, Datasets, Unloaded, Garbage, NoHeader

VARIABLES
    data,    \* the loaded graph
    reply    \* the answer computed for each request

vars == <<data, reply>>

Pending == [status |-> "pending", graph |-> Unloaded]

Answer(status, graph) == [status |-> status, graph |-> graph]

Acceptable(r) == Payload[r] \in Datasets /\ Header[r] \in {NoHeader, Payload[r]}

\* The answers a request may get when the loaded graph is d.
Answers(r, d) ==
    CASE Kind[r] = "reset"   -> {Answer("reset", Unloaded)}
      [] Kind[r] = "prepare" -> IF Acceptable(r)
                                THEN {Answer("prepared", Payload[r]), Answer("internal_error", d)}
                                ELSE {Answer("rejected", d)}
      [] Kind[r] = "query"   -> IF d = Unloaded THEN {Answer("graph_not_loaded", d)}
                                ELSE {Answer(IF Payload[r] = Garbage THEN "rejected" ELSE "rows", d)}

Init == data = Unloaded /\ reply = [r \in Requests |-> Pending]

Perform(r) ==
    /\ reply[r] = Pending
    /\ \E a \in Answers(r, data) :
          /\ reply' = [reply EXCEPT ![r] = a]
          /\ data' = a.graph

Die == data' = Unloaded /\ UNCHANGED reply

Next == Die \/ \E r \in Requests : Perform(r)

Spec == Init /\ [][Next]_vars
=============================================================================
