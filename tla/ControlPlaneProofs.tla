--------------------------- MODULE ControlPlaneProofs ----------------------------
(***************************************************************************)
(* Proofs about the two small parts of the runners' control plane, which   *)
(* share nothing but the machine they run on: the HTTP client (HttpClient) *)
(* for every timeout, deadline and pause, and the resource sampler         *)
(* (Sampler) for all hosts, phases, and numbers of rounds and changes.     *)
(***************************************************************************)
EXTENDS HttpClient, Sampler, FiniteSetTheorems, WellFoundedInduction, TLAPS

-----------------------------------------------------------------------------
(***************************************************************************)
(* HttpClient                                                              *)
(***************************************************************************)
\* The inductive invariant: a pending operation is not past its end, a read ends
\* by the deadline of its request, and only wait_ready sleeps.
IInv ==
    /\ TypeOK
    /\ pc \in Blocking => clock <= opEnd
    /\ pc = "read" => opEnd <= deadline
    /\ pc = "sleep" => caller = "wait_ready"
    /\ AcceptedInTime

LEMMA TimeoutType == RequestTimeout \in Nat \ {0}
  BY ClientAssumption DEF RequestTimeout

LEMMA InitInv == Init => IInv
<1> SUFFICES ASSUME Init PROVE IInv
  OBVIOUS
<1> QED
  BY TimeoutType, ClientAssumption DEF Init, IInv, TypeOK, AcceptedInTime, Blocking, Socket

\* The ways in which a call goes on.  Only a read, which ends by the deadline, is
\* followed by the acceptance of an answer.
LEMMA FinishInv ==
  ASSUME IInv, pc \in Socket, NEW result \in {"returned", "RuntimeError", "ValueError"},
         result = "returned" => pc = "read",
         Finish(result)
  PROVE  IInv'
<1> USE DEF Finish
<1>1. TypeOK'
  BY ClientAssumption DEF IInv, TypeOK, Blocking, Socket, Ends
<1>2. pc' = "sleep" => caller' = "wait_ready" /\ clock' <= opEnd'
  BY ClientAssumption DEF IInv, TypeOK
<1>3. pc' \in {"sleep", result}
  OBVIOUS
<1>4. pc' \in Blocking => pc' = "sleep"
  BY <1>3 DEF Blocking, Socket
<1>5. AcceptedInTime'
  <2> SUFFICES ASSUME pc' = "returned" PROVE clock' <= deadline'
    BY DEF AcceptedInTime
  <2>1. pc = "read"
    BY <1>3
  <2> QED
    BY <2>1 DEF IInv, TypeOK, Blocking, Socket
<1> QED
  BY <1>1, <1>2, <1>3, <1>4, <1>5 DEF IInv

LEMMA ProceedInv ==
  ASSUME IInv, NEW op \in {"headers", "body"}, Proceed(op)
  PROVE  IInv'
BY DEF Proceed, IInv, TypeOK, AcceptedInTime, Blocking, Socket

LEMMA RecalculateInv ==
  ASSUME IInv, pc \in Socket, NEW op \in {"head", "read"}, Recalculate(op)
  PROVE  IInv'
<1>1. CASE deadline <= clock
  BY <1>1, FinishInv DEF Recalculate
<1>2. CASE clock < deadline
  <2>1. /\ pc' = op /\ sockTimeout' = deadline - clock /\ opEnd' = deadline
        /\ UNCHANGED <<clock, caller, deadline, parts>>
    BY <1>2 DEF Recalculate, IInv, TypeOK
  <2> QED
    BY <1>2, <2>1 DEF IInv, TypeOK, AcceptedInTime, Blocking, Socket
<1> QED
  BY <1>1, <1>2 DEF IInv, TypeOK

\* Wake: the next poll begins with a whole timeout.
LEMMA WakeInv == IInv /\ Wake => IInv'
<1> SUFFICES ASSUME IInv, Wake PROVE IInv'
  OBVIOUS
<1> USE DEF Wake
<1>1. RequestTimeout \in Nat \ {0}
  BY TimeoutType
<1>2. CASE clock < DeadlineSeconds
  <2>1. /\ pc' = "connect" /\ deadline' = clock + RequestTimeout
        /\ sockTimeout' = RequestTimeout /\ opEnd' = clock + RequestTimeout
        /\ parts' = 0 /\ UNCHANGED <<clock, caller>>
    BY <1>2
  <2>2. clock + RequestTimeout \in Nat \ {0} /\ clock <= clock + RequestTimeout
    BY <1>1 DEF IInv, TypeOK
  <2> HIDE DEF Wake
  <2> QED
    BY <1>1, <2>1, <2>2, ClientAssumption DEF IInv, TypeOK, AcceptedInTime, Blocking, Socket
<1>3. CASE ~(clock < DeadlineSeconds)
  BY <1>3 DEF IInv, TypeOK, AcceptedInTime, Blocking, Socket, Ends
<1> QED
  BY <1>2, <1>3

LEMMA NextInv == IInv /\ [Next]_vars => IInv'
<1> SUFFICES ASSUME IInv, [Next]_vars PROVE IInv'
  OBVIOUS
<1>1. CASE Pass
  BY <1>1 DEF Pass, IInv, TypeOK, AcceptedInTime, Blocking, Socket
<1>2. CASE Connect
  BY <1>2, ProceedInv DEF Connect
<1>3. CASE SendHeaders
  <2>1. CASE caller = "upload"
    BY <1>3, <2>1, ProceedInv DEF SendHeaders
  <2>2. CASE caller # "upload"
    BY <1>3, <2>2, RecalculateInv DEF SendHeaders, Socket
  <2> QED
    BY <2>1, <2>2
<1>4. CASE SendBody
  BY <1>4, RecalculateInv DEF SendBody, Socket
<1>5. CASE ReceivePart
  BY <1>5, ClientAssumption DEF ReceivePart, IInv, TypeOK, AcceptedInTime, Blocking, Socket
<1>6. CASE ReceiveHead
  BY <1>6, RecalculateInv DEF ReceiveHead, Socket
<1>7. CASE ReceiveChunk
  BY <1>7, RecalculateInv DEF ReceiveChunk, Socket
<1>8. CASE ReceiveEnd
  BY <1>8, FinishInv DEF ReceiveEnd, Socket
<1>9. CASE TimeOut
  BY <1>9, FinishInv DEF TimeOut
<1>10. CASE Break
  BY <1>10, FinishInv DEF Break
<1>11. CASE NotReady
  BY <1>11, FinishInv DEF NotReady, Socket
<1>12. CASE Wake
  BY <1>12, WakeInv
<1>13. CASE UNCHANGED vars
  BY <1>13 DEF vars, IInv, TypeOK, AcceptedInTime
<1> QED
  BY <1>1, <1>2, <1>3, <1>4, <1>5, <1>6, <1>7, <1>8, <1>9, <1>10, <1>11, <1>12, <1>13 DEF Next

THEOREM InvHolds == Spec => []IInv
<1> QED
  BY InitInv, NextInv, PTL DEF Spec

\* The variables keep their types: no timeout that reaches a socket is zero or
\* negative, which would make it non-blocking or raise.
THEOREM TypeCorrect == Spec => []TypeOK
<1>1. IInv => TypeOK
  BY DEF IInv
<1> QED
  BY <1>1, InvHolds, PTL

\* Whatever the timeouts and however long connection, request and head take,
\* request_json accepts no answer after its deadline: the timeout that each read is
\* armed with ends by then.
THEOREM Accepted == Spec => []AcceptedInTime
<1>1. IInv => AcceptedInTime
  BY DEF IInv
<1> QED
  BY <1>1, InvHolds, PTL

-----------------------------------------------------------------------------
(***************************************************************************)
(* Sampler: the rows of the file                                           *)
(***************************************************************************)
Row == [row : {"start", "end", "sample"}, label : Labels, host : Hosts \cup {NoHost}, taken : Labels]

\* The operators of the properties, for any sequence of rows.
Events(f, n) == {i \in 1 .. n : f[i].row # "sample"}

OpenIn(f, n) ==
    IF Events(f, n) = {} \/ f[Max(Events(f, n))].row = "end" THEN Unassigned ELSE f[Max(Events(f, n))].label

WellBracketed(f) ==
    \A i \in 1 .. Len(f) : OpenIn(f, i - 1) = IF f[i].row = "start" THEN Unassigned ELSE f[i].label

\* Host h has a sample in the phase that is not yet at an end.
Labelled(f, h) ==
    \E i \in 1 .. Len(f) :
        f[i].row = "sample" /\ f[i].host = h /\ \A k \in i .. Len(f) : f[k].row = "sample"

OnlyFirst(f) ==
    \A i, j \in 1 .. Len(f) :
        /\ i < j
        /\ f[i].row = "sample" /\ f[j].row = "sample"
        /\ f[i].host = f[j].host
        /\ \A k \in i .. j : f[k].row = "sample"
        => f[j].taken = f[j].label

RowsOf(f, h) == {i \in 1 .. Len(f) : f[i].host = h}

LEMMA Greatest ==
  ASSUME NEW n \in Nat, NEW S \in SUBSET (1 .. n), S # {}
  PROVE  Max(S) \in S /\ \A i \in S : Max(S) >= i
<1> DEFINE T == {n - i : i \in S}
           R == OpToRel(<, Nat)
<1>1. \A i \in S : i \in Nat /\ n - i \in Nat
  OBVIOUS
<1>2. T \subseteq Nat /\ T # {}
  BY <1>1
<1>3. PICK x \in T : \A y \in T : ~(<<y, x>> \in R)
  <2>1. IsWellFoundedOn(R, Nat)
    BY NatLessThanWellFounded, Zenon
  <2> HIDE DEF T, R
  <2> QED
    BY <1>2, <2>1, WFMin
<1>4. PICK m \in S : x = n - m
  BY <1>3, Zenon
<1>5. ASSUME NEW i \in S
      PROVE  m >= i
  <2>1. n - i \in T
    BY Zenon
  <2>2. ~(<<n - i, n - m>> \in R)
    BY <1>3, <1>4, <2>1, Zenon
  <2>3. ~(n - i < n - m)
    BY <1>1, <2>2 DEF OpToRel
  <2> QED
    BY <1>1, <2>3
<1> QED
  BY <1>5 DEF Max

LEMMA Appended ==
  ASSUME NEW f \in Seq(Row), NEW r \in Row
  PROVE  /\ Append(f, r) \in Seq(Row)
         /\ Len(f) \in Nat /\ Len(Append(f, r)) = Len(f) + 1
         /\ Append(f, r)[Len(f) + 1] = r
         /\ \A i \in 1 .. Len(f) : Append(f, r)[i] = f[i] /\ f[i] \in Row
  OBVIOUS

\* Two sequences that agree on the events leave the same phase open.
LEMMA SameOpen ==
  ASSUME NEW f, NEW e, NEW n \in Nat, NEW m \in Nat,
         Events(e, m) = Events(f, n), \A i \in 1 .. n : e[i] = f[i]
  PROVE  OpenIn(e, m) = OpenIn(f, n)
<1>1. CASE Events(f, n) = {}
  BY <1>1 DEF OpenIn
<1>2. CASE Events(f, n) # {}
  <2>1. Events(f, n) \in SUBSET (1 .. n)
    BY DEF Events
  <2>2. Max(Events(f, n)) \in 1 .. n
    BY <1>2, <2>1, Greatest
  <2>3. e[Max(Events(f, n))] = f[Max(Events(f, n))]
    BY <2>2
  <2> QED
    BY <2>3 DEF OpenIn
<1> QED
  BY <1>1, <1>2

LEMMA OpenKept ==
  ASSUME NEW f \in Seq(Row), NEW r \in Row, NEW n \in 0 .. Len(f)
  PROVE  OpenIn(Append(f, r), n) = OpenIn(f, n)
<1>1. n \in Nat /\ \A i \in 1 .. n : Append(f, r)[i] = f[i]
  BY Appended
<1>2. Events(Append(f, r), n) = Events(f, n)
  BY <1>1 DEF Events
<1> QED
  BY <1>1, <1>2, SameOpen

\* What a new row does to the phase that the rows leave open.
LEMMA OpenExtended ==
  ASSUME NEW f \in Seq(Row), NEW r \in Row
  PROVE  OpenIn(Append(f, r), Len(Append(f, r))) =
           IF r.row = "sample" THEN OpenIn(f, Len(f))
           ELSE IF r.row = "end" THEN Unassigned ELSE r.label
<1> DEFINE e == Append(f, r)
           n == Len(f)
           events == Events(e, n + 1)
<1>1. /\ n \in Nat /\ Len(e) = n + 1 /\ e[n + 1] = r
      /\ \A i \in 1 .. n : e[i] = f[i]
  BY Appended
<1> HIDE DEF e, n
<1>2. CASE r.row = "sample"
  <2>1. events = Events(f, n)
    BY <1>1, <1>2 DEF Events
  <2>2. OpenIn(e, n + 1) = OpenIn(f, n)
    BY <1>1, <2>1, SameOpen
  <2> QED
    BY <1>1, <1>2, <2>2 DEF e, n
<1>3. CASE r.row # "sample"
  <2>1. n + 1 \in events /\ events \in SUBSET (1 .. n + 1) /\ n + 1 \in Nat
    BY <1>1, <1>3 DEF Events
  <2>2. Max(events) \in 1 .. n + 1 /\ Max(events) >= n + 1
    BY <2>1, Greatest
  <2>3. Max(events) = n + 1
    BY <1>1, <2>2
  <2>4. OpenIn(e, n + 1) = IF r.row = "end" THEN Unassigned ELSE r.label
    BY <1>1, <2>1, <2>3 DEF OpenIn
  <2> QED
    BY <1>1, <1>3, <2>4 DEF e, n
<1> QED
  BY <1>2, <1>3

LEMMA BracketsKept ==
  ASSUME NEW f \in Seq(Row), NEW r \in Row, WellBracketed(f),
         OpenIn(f, Len(f)) = IF r.row = "start" THEN Unassigned ELSE r.label
  PROVE  WellBracketed(Append(f, r))
<1> DEFINE e == Append(f, r)
<1>1. /\ Len(f) \in Nat /\ Len(e) = Len(f) + 1 /\ e[Len(f) + 1] = r
      /\ \A i \in 1 .. Len(f) : e[i] = f[i]
  BY Appended
<1>2. \A i \in 0 .. Len(f) : OpenIn(e, i) = OpenIn(f, i)
  BY OpenKept
<1> HIDE DEF e
<1>3. ASSUME NEW i \in 1 .. Len(e)
      PROVE  OpenIn(e, i - 1) = IF e[i].row = "start" THEN Unassigned ELSE e[i].label
  <2>1. CASE i \in 1 .. Len(f)
    <3>1. i - 1 \in 0 .. Len(f)
      BY <1>1, <2>1
    <3> QED
      BY <1>1, <1>2, <2>1, <3>1 DEF WellBracketed
  <2>2. CASE i = Len(f) + 1
    <3>1. i - 1 = Len(f) /\ Len(f) \in 0 .. Len(f)
      BY <1>1, <2>2
    <3> QED
      BY <1>1, <1>2, <2>2, <3>1
  <2> QED
    BY <1>1, <2>1, <2>2
<1> QED
  BY <1>3 DEF e, WellBracketed

\* An event ends what the samples before it had in common.
LEMMA FreshAfterEvent ==
  ASSUME NEW f \in Seq(Row), NEW r \in Row, r.row # "sample", OnlyFirst(f)
  PROVE  OnlyFirst(Append(f, r)) /\ \A h : ~Labelled(Append(f, r), h)
<1> DEFINE e == Append(f, r)
<1>1. /\ Len(f) \in Nat /\ Len(e) = Len(f) + 1 /\ e[Len(f) + 1] = r
      /\ \A i \in 1 .. Len(f) : e[i] = f[i]
  BY Appended
<1> HIDE DEF e
<1>2. ASSUME NEW h PROVE ~Labelled(e, h)
  BY <1>1 DEF Labelled
<1>3. OnlyFirst(e)
  <2> SUFFICES ASSUME NEW i \in 1 .. Len(e), NEW j \in 1 .. Len(e),
                      i < j, e[i].row = "sample", e[j].row = "sample", e[i].host = e[j].host,
                      \A k \in i .. j : e[k].row = "sample"
               PROVE  e[j].taken = e[j].label
    BY DEF OnlyFirst
  <2>1. i \in 1 .. Len(f) /\ j \in 1 .. Len(f) /\ \A k \in i .. j : k \in 1 .. Len(f)
    BY <1>1
  <2> QED
    BY <1>1, <2>1 DEF OnlyFirst
<1> QED
  BY <1>2, <1>3 DEF e

LEMMA FreshAfterSample ==
  ASSUME NEW f \in Seq(Row), NEW r \in Row, OnlyFirst(f), r.row = "sample",
         Labelled(f, r.host) => r.taken = r.label
  PROVE  /\ OnlyFirst(Append(f, r))
         /\ \A h : h # r.host /\ Labelled(Append(f, r), h) => Labelled(f, h)
<1> DEFINE e == Append(f, r)
<1>1. /\ Len(f) \in Nat /\ Len(e) = Len(f) + 1 /\ e[Len(f) + 1] = r
      /\ \A i \in 1 .. Len(f) : e[i] = f[i]
  BY Appended
<1> HIDE DEF e
<1>2. ASSUME NEW h, h # r.host, Labelled(e, h)
      PROVE  Labelled(f, h)
  <2>1. PICK i \in 1 .. Len(e) : /\ e[i].row = "sample" /\ e[i].host = h
                                 /\ \A k \in i .. Len(e) : e[k].row = "sample"
    BY <1>2 DEF Labelled
  <2>2. i \in 1 .. Len(f) /\ \A k \in i .. Len(f) : k \in i .. Len(e) /\ k \in 1 .. Len(f)
    BY <1>1, <1>2, <2>1
  <2> QED
    BY <1>1, <2>1, <2>2 DEF Labelled
<1>3. OnlyFirst(e)
  <2> SUFFICES ASSUME NEW i \in 1 .. Len(e), NEW j \in 1 .. Len(e),
                      i < j, e[i].row = "sample", e[j].row = "sample", e[i].host = e[j].host,
                      \A k \in i .. j : e[k].row = "sample"
               PROVE  e[j].taken = e[j].label
    BY DEF OnlyFirst
  <2>1. i \in 1 .. Len(f)
    BY <1>1
  <2>2. CASE j \in 1 .. Len(f)
    <3>1. \A k \in i .. j : k \in 1 .. Len(f)
      BY <2>1, <2>2, <1>1
    <3> QED
      BY <1>1, <2>1, <2>2, <3>1 DEF OnlyFirst
  <2>3. CASE j = Len(f) + 1
    <3>1. \A k \in i .. Len(f) : k \in i .. j /\ k \in 1 .. Len(f)
      BY <1>1, <2>1, <2>3
    <3>2. Labelled(f, r.host)
      BY <1>1, <2>1, <2>3, <3>1 DEF Labelled
    <3> QED
      BY <1>1, <2>3, <3>2
  <2> QED
    BY <1>1, <2>2, <2>3
<1> QED
  BY <1>2, <1>3 DEF e

LEMMA Counted ==
  ASSUME NEW f \in Seq(Row), NEW r \in Row, NEW h
  PROVE  /\ Cardinality(RowsOf(f, h)) \in Nat
         /\ Cardinality(RowsOf(Append(f, r), h)) =
              IF r.host = h THEN Cardinality(RowsOf(f, h)) + 1 ELSE Cardinality(RowsOf(f, h))
<1> DEFINE e == Append(f, r)
<1>1. /\ Len(f) \in Nat /\ Len(e) = Len(f) + 1 /\ e[Len(f) + 1] = r
      /\ \A i \in 1 .. Len(f) : e[i] = f[i]
  BY Appended
<1> HIDE DEF e
<1>2. RowsOf(f, h) \subseteq 1 .. Len(f)
  BY DEF RowsOf
<1>3. IsFiniteSet(RowsOf(f, h))
  <2>1. IsFiniteSet(1 .. Len(f))
    BY <1>1, FS_Interval
  <2> QED
    BY <1>2, <2>1, FS_Subset
<1>4. CASE r.host = h
  <2>1. RowsOf(e, h) = RowsOf(f, h) \cup {Len(f) + 1} /\ Len(f) + 1 \notin RowsOf(f, h)
    BY <1>1, <1>4 DEF RowsOf
  <2> QED
    BY <1>3, <1>4, <2>1, FS_AddElement, FS_CardinalityType DEF e
<1>5. CASE r.host # h
  <2>1. RowsOf(e, h) = RowsOf(f, h)
    BY <1>1, <1>5 DEF RowsOf
  <2> QED
    BY <1>3, <1>5, <2>1, FS_CardinalityType DEF e
<1> QED
  BY <1>4, <1>5

-----------------------------------------------------------------------------
(***************************************************************************)
(* Sampler: the inductive invariant                                        *)
(***************************************************************************)
\* The lock is held from the end of a phase to the start of the next, and
\* whenever it is free and the file open, the file agrees with _phase.
Timeline ==
    /\ lock = "runner" <=> runner \in {"assign", "announce"}
    /\ open <=> runner # "left"
    /\ OpenIn(file, Len(file)) = IF runner \in {"assign", "announce", "left"} THEN Unassigned ELSE phase
    /\ WellBracketed(file)

\* A host's sample that waits to be recorded was taken in the current phase, if
\* the phase has one of the host: unless the phase changed and the event that
\* says so is not written.
Fresh ==
    /\ \A h \in Hosts : runner # "announce" /\ probe[h] = "ready" /\ Labelled(file, h) => takenIn[h] = phase
    /\ OnlyFirst(file)

\* Of every round that was started a host has a row, or its sample is still due.
Rounds ==
    /\ sampler \in {"waiting", "ended"} => \A h \in Hosts : probe[h] = "off"
    /\ \A h \in Hosts : Cardinality(RowsOf(file, h)) = IF probe[h] = "off" THEN rounds ELSE rounds - 1

SamplerInv == SamplerTypes /\ Timeline /\ Fresh /\ Rounds

LEMMA RowTypes ==
  ASSUME SamplerTypes
  PROVE  /\ file \in Seq(Row)
         /\ \A p \in Labels : PhaseEvent("end", p) \in Row /\ PhaseEvent("start", p) \in Row
         /\ \A h \in Hosts : SampleRow(h) \in Row
  BY DEF SamplerTypes, Row, PhaseEvent, SampleRow

LEMMA TypesInit == SamplerInit => SamplerTypes
<1> SUFFICES ASSUME SamplerInit PROVE SamplerTypes
  OBVIOUS
<1>1. file \in Seq(Row)
  BY DEF SamplerInit
<1> QED
  BY <1>1 DEF SamplerInit, SamplerTypes, Labels, Row

LEMMA TypesKept == SamplerTypes /\ [SamplerNext]_samplerVars => SamplerTypes'
<1> SUFFICES ASSUME SamplerTypes, [SamplerNext]_samplerVars PROVE SamplerTypes'
  OBVIOUS
<1>1. /\ file \in Seq(Row)
      /\ \A p \in Labels : PhaseEvent("end", p) \in Row /\ PhaseEvent("start", p) \in Row
      /\ \A h \in Hosts : SampleRow(h) \in Row
  BY RowTypes
<1>2. file' \in Seq(Row) => file' \in Seq([row : {"start", "end", "sample"}, label : Labels,
                                            host : Hosts \cup {NoHost}, taken : Labels])
  BY DEF Row
<1>3. ASSUME NEW r \in Row PROVE Append(file, r) \in Seq(Row)
  BY <1>1
<1> USE DEF runnerVars, probeVars
<1>4. CASE \E p \in Phases : CallSetPhase(p)
  BY <1>4 DEF CallSetPhase, SamplerTypes, Labels
<1>5. CASE EnterSetPhase
  <2>1. file' \in Seq(Row)
    BY <1>1, <1>3, <1>5 DEF EnterSetPhase, SamplerTypes
  <2> QED
    BY <1>2, <1>5, <2>1 DEF EnterSetPhase, SamplerTypes
<1>6. CASE AssignPhase
  BY <1>6 DEF AssignPhase, SamplerTypes
<1>7. CASE AnnouncePhase
  <2>1. file' \in Seq(Row)
    BY <1>1, <1>3, <1>7 DEF AnnouncePhase, SamplerTypes
  <2> QED
    BY <1>2, <1>7, <2>1 DEF AnnouncePhase, SamplerTypes
<1>8. CASE Exit
  BY <1>8 DEF Exit, SamplerTypes
<1>9. CASE Close
  <2>1. file' \in Seq(Row)
    BY <1>1, <1>3, <1>9 DEF Close, SamplerTypes
  <2> QED
    BY <1>2, <1>9, <2>1 DEF Close, SamplerTypes
<1>10. CASE StartRound
  BY <1>10 DEF StartRound, SamplerTypes
<1>11. CASE EndThread \/ Die \/ EndRound
  BY <1>11 DEF EndThread, Die, EndRound, SamplerTypes
<1>12. ASSUME NEW h \in Hosts, Record(h)
       PROVE  SamplerTypes'
  <2>1. file' \in Seq(Row)
    BY <1>1, <1>3, <1>12 DEF Record
  <2> QED
    BY <1>2, <1>12, <2>1 DEF Record, Yielded, SamplerTypes
<1>13. ASSUME NEW h \in Hosts, RecordRaises(h)
       PROVE  SamplerTypes'
  BY <1>13 DEF RecordRaises, SamplerTypes
<1>14. ASSUME NEW h \in Hosts, Take(h)
       PROVE  SamplerTypes'
  BY <1>14 DEF Take, SamplerTypes
<1>15. CASE UNCHANGED samplerVars
  BY <1>15 DEF samplerVars, SamplerTypes
<1> QED
  BY <1>4, <1>5, <1>6, <1>7, <1>8, <1>9, <1>10, <1>11, <1>12, <1>13, <1>14, <1>15
  DEF SamplerNext, RunnerStep, SamplingStep

LEMMA TimelineKept == SamplerTypes /\ Timeline /\ [SamplerNext]_samplerVars => Timeline'
<1> SUFFICES ASSUME SamplerTypes, Timeline, [SamplerNext]_samplerVars PROVE Timeline'
  OBVIOUS
<1>1. /\ file \in Seq(Row)
      /\ \A p \in Labels : PhaseEvent("end", p) \in Row /\ PhaseEvent("start", p) \in Row
      /\ \A h \in Hosts : SampleRow(h) \in Row
      /\ phase \in Labels
  BY RowTypes DEF SamplerTypes
<1> DEFINE opened(r) == IF r.row = "sample" THEN OpenIn(file, Len(file))
                        ELSE IF r.row = "end" THEN Unassigned ELSE r.label
\* A row that fits what the file leaves open.
<1>2. ASSUME NEW r \in Row, file' = Append(file, r),
             OpenIn(file, Len(file)) = IF r.row = "start" THEN Unassigned ELSE r.label
      PROVE  WellBracketed(file)' /\ OpenIn(file, Len(file))' = opened(r)
  <2>1. WellBracketed(Append(file, r))
    BY <1>1, <1>2, BracketsKept DEF Timeline
  <2>2. OpenIn(Append(file, r), Len(Append(file, r))) = opened(r)
    BY <1>1, OpenExtended
  <2> QED
    BY <1>2, <2>1, <2>2
<1>3. file' = file => /\ WellBracketed(file)' = WellBracketed(file)
                      /\ OpenIn(file, Len(file))' = OpenIn(file, Len(file))
  OBVIOUS
<1> USE DEF runnerVars, probeVars
<1>4. CASE \E p \in Phases : CallSetPhase(p)
  BY <1>3, <1>4 DEF CallSetPhase, Timeline
<1>5. CASE EnterSetPhase
  <2>1. CASE target = phase \/ phase = Unassigned
    BY <1>3, <1>5, <2>1 DEF EnterSetPhase, Timeline
  <2>2. CASE target # phase /\ phase # Unassigned
    <3>1. OpenIn(file, Len(file)) = phase /\ file' = Append(file, PhaseEvent("end", phase))
      BY <1>5, <2>2 DEF EnterSetPhase, Timeline
    <3>2. PhaseEvent("end", phase).row = "end" /\ PhaseEvent("end", phase).label = phase
      BY DEF PhaseEvent
    <3>3. WellBracketed(file)' /\ OpenIn(file, Len(file))' = Unassigned
      BY <1>1, <1>2, <3>1, <3>2
    <3> QED
      BY <1>5, <2>2, <3>3 DEF EnterSetPhase, Timeline
  <2> QED
    BY <2>1, <2>2
<1>6. CASE AssignPhase
  BY <1>3, <1>6 DEF AssignPhase, Timeline
<1>7. CASE AnnouncePhase
  <2>1. OpenIn(file, Len(file)) = Unassigned /\ file' = Append(file, PhaseEvent("start", phase))
    BY <1>7 DEF AnnouncePhase, Timeline
  <2>2. PhaseEvent("start", phase).row = "start" /\ PhaseEvent("start", phase).label = phase
    BY DEF PhaseEvent
  <2>3. WellBracketed(file)' /\ OpenIn(file, Len(file))' = phase
    BY <1>1, <1>2, <2>1, <2>2
  <2> QED
    BY <1>7, <2>3 DEF AnnouncePhase, Timeline
<1>8. CASE Exit
  BY <1>3, <1>8 DEF Exit, Timeline
<1>9. CASE Close
  <2>1. OpenIn(file, Len(file)) = phase
    BY <1>9 DEF Close, Joined, Timeline
  <2>2. CASE phase = Unassigned
    BY <1>3, <1>9, <2>1, <2>2 DEF Close, Joined, Timeline
  <2>3. CASE phase # Unassigned
    <3>1. file' = Append(file, PhaseEvent("end", phase))
      BY <1>9, <2>3 DEF Close
    <3>2. PhaseEvent("end", phase).row = "end" /\ PhaseEvent("end", phase).label = phase
      BY DEF PhaseEvent
    <3>3. WellBracketed(file)' /\ OpenIn(file, Len(file))' = Unassigned
      BY <1>1, <1>2, <2>1, <3>1, <3>2
    <3> QED
      BY <1>9, <3>3 DEF Close, Joined, Timeline
  <2> QED
    BY <2>2, <2>3
<1>10. CASE StartRound \/ EndThread \/ Die \/ EndRound
  BY <1>3, <1>10 DEF StartRound, EndThread, Die, EndRound, Timeline
<1>11. ASSUME NEW h \in Hosts, Record(h)
       PROVE  Timeline'
  <2>1. OpenIn(file, Len(file)) = phase /\ file' = Append(file, SampleRow(h))
    BY <1>11 DEF Record, MayRecord, Timeline
  <2>2. SampleRow(h).row = "sample" /\ SampleRow(h).label = phase
    BY DEF SampleRow
  <2>3. WellBracketed(file)' /\ OpenIn(file, Len(file))' = OpenIn(file, Len(file))
    BY <1>1, <1>2, <2>1, <2>2
  <2> QED
    BY <1>11, <2>3 DEF Record, Timeline
<1>12. ASSUME NEW h \in Hosts, RecordRaises(h) \/ Take(h)
       PROVE  Timeline'
  BY <1>3, <1>12 DEF RecordRaises, Take, Timeline
<1>13. CASE UNCHANGED samplerVars
  BY <1>3, <1>13 DEF samplerVars, Timeline
<1> QED
  BY <1>4, <1>5, <1>6, <1>7, <1>8, <1>9, <1>10, <1>11, <1>12, <1>13
  DEF SamplerNext, RunnerStep, SamplingStep

LEMMA FreshKept == SamplerTypes /\ Timeline /\ Fresh /\ [SamplerNext]_samplerVars => Fresh'
<1> SUFFICES ASSUME SamplerTypes, Timeline, Fresh, [SamplerNext]_samplerVars PROVE Fresh'
  OBVIOUS
<1>1. /\ file \in Seq(Row)
      /\ \A p \in Labels : PhaseEvent("end", p) \in Row /\ PhaseEvent("start", p) \in Row
      /\ \A h \in Hosts : SampleRow(h) \in Row
      /\ phase \in Labels
  BY RowTypes DEF SamplerTypes
<1>2. ASSUME NEW kind \in {"start", "end"}, file' = Append(file, PhaseEvent(kind, phase))
      PROVE  Fresh'
  <2>1. PhaseEvent(kind, phase) \in Row /\ PhaseEvent(kind, phase).row # "sample"
    BY <1>1 DEF PhaseEvent
  <2>2. OnlyFirst(file') /\ \A h : ~Labelled(file', h)
    BY <1>1, <1>2, <2>1, FreshAfterEvent DEF Fresh
  <2> QED
    BY <2>2 DEF Fresh
<1>3. file' = file => /\ OnlyFirst(file)' = OnlyFirst(file)
                      /\ \A h \in Hosts : Labelled(file, h)' = Labelled(file, h)
  OBVIOUS
<1> USE DEF runnerVars, probeVars
<1>4. CASE \E p \in Phases : CallSetPhase(p)
  BY <1>3, <1>4 DEF CallSetPhase, Fresh
<1>5. CASE EnterSetPhase
  <2>1. CASE target = phase \/ phase = Unassigned
    BY <1>3, <1>5, <2>1 DEF EnterSetPhase, Fresh
  <2>2. CASE target # phase /\ phase # Unassigned
    BY <1>2, <1>5, <2>2 DEF EnterSetPhase
  <2> QED
    BY <2>1, <2>2
<1>6. CASE AssignPhase
  BY <1>3, <1>6 DEF AssignPhase, Fresh
<1>7. CASE AnnouncePhase
  BY <1>2, <1>7 DEF AnnouncePhase
<1>8. CASE Exit
  BY <1>3, <1>8 DEF Exit, Fresh
<1>9. CASE Close
  <2>1. CASE phase = Unassigned
    BY <1>3, <1>9, <2>1 DEF Close, Joined, Fresh
  <2>2. CASE phase # Unassigned
    BY <1>2, <1>9, <2>2 DEF Close
  <2> QED
    BY <2>1, <2>2
<1>10. CASE StartRound
  BY <1>3, <1>10 DEF StartRound, Fresh
<1>11. CASE EndThread \/ Die \/ EndRound
  BY <1>3, <1>11 DEF EndThread, Die, EndRound, Fresh
<1>12. ASSUME NEW h \in Hosts, Take(h)
       PROVE  Fresh'
  BY <1>3, <1>12 DEF Take, Fresh, SamplerTypes
<1>13. ASSUME NEW h \in Hosts, Record(h)
       PROVE  Fresh'
  <2>1. /\ SampleRow(h).row = "sample" /\ SampleRow(h).host = h
        /\ SampleRow(h).label = phase /\ SampleRow(h).taken = takenIn[h]
    BY DEF SampleRow
  <2>2. runner # "announce" /\ probe[h] = "ready" /\ file' = Append(file, SampleRow(h))
    BY <1>13 DEF Record, MayRecord, Timeline
  <2>3. Labelled(file, h) => takenIn[h] = phase
    BY <2>2 DEF Fresh
  <2>4. OnlyFirst(file') /\ \A k : k # h /\ Labelled(file', k) => Labelled(file, k)
    BY <1>1, <2>1, <2>2, <2>3, FreshAfterSample DEF Fresh
  <2>5. probe' = [probe EXCEPT ![h] = "off"] /\ UNCHANGED <<runner, takenIn, phase>>
    BY <1>13 DEF Record, Yielded
  <2> QED
    BY <2>4, <2>5 DEF Fresh, SamplerTypes
<1>14. ASSUME NEW h \in Hosts, RecordRaises(h)
       PROVE  Fresh'
  BY <1>3, <1>14 DEF RecordRaises, Fresh
<1>15. CASE UNCHANGED samplerVars
  BY <1>3, <1>15 DEF samplerVars, Fresh
<1> QED
  BY <1>4, <1>5, <1>6, <1>7, <1>8, <1>9, <1>10, <1>11, <1>12, <1>13, <1>14, <1>15
  DEF SamplerNext, RunnerStep, SamplingStep

LEMMA RoundsKept == SamplerTypes /\ Rounds /\ [SamplerNext]_samplerVars => Rounds'
<1> SUFFICES ASSUME SamplerTypes, Rounds, [SamplerNext]_samplerVars PROVE Rounds'
  OBVIOUS
<1> DEFINE rows(h) == Cardinality(RowsOf(file, h))
<1>1. /\ file \in Seq(Row)
      /\ \A p \in Labels : PhaseEvent("end", p) \in Row /\ PhaseEvent("start", p) \in Row
      /\ \A h \in Hosts : SampleRow(h) \in Row
      /\ phase \in Labels
  BY RowTypes DEF SamplerTypes
<1>2. ASSUME NEW kind \in {"start", "end"}, file' = Append(file, PhaseEvent(kind, phase)), NEW h \in Hosts
      PROVE  rows(h)' = rows(h)
  <2>1. PhaseEvent(kind, phase) \in Row /\ PhaseEvent(kind, phase).host # h
    BY <1>1, SamplerAssumption DEF PhaseEvent
  <2> QED
    BY <1>1, <1>2, <2>1, Counted
<1>3. ASSUME file' = file, NEW h \in Hosts
      PROVE  rows(h)' = rows(h)
  BY <1>3
<1> USE DEF runnerVars, probeVars
<1>4. CASE \E p \in Phases : CallSetPhase(p)
  BY <1>3, <1>4 DEF CallSetPhase, Rounds
<1>5. CASE EnterSetPhase
  <2>1. \A h \in Hosts : rows(h)' = rows(h)
    BY <1>2, <1>3, <1>5 DEF EnterSetPhase
  <2> QED
    BY <1>5, <2>1 DEF EnterSetPhase, Rounds
<1>6. CASE AssignPhase
  BY <1>3, <1>6 DEF AssignPhase, Rounds
<1>7. CASE AnnouncePhase
  BY <1>2, <1>7 DEF AnnouncePhase, Rounds
<1>8. CASE Exit
  BY <1>3, <1>8 DEF Exit, Rounds
<1>9. CASE Close
  <2>1. \A h \in Hosts : rows(h)' = rows(h)
    BY <1>2, <1>3, <1>9 DEF Close
  <2> QED
    BY <1>9, <2>1 DEF Close, Rounds
<1>10. CASE StartRound
  BY <1>3, <1>10 DEF StartRound, Rounds, SamplerTypes
<1>11. CASE EndThread \/ Die \/ EndRound
  BY <1>3, <1>11 DEF EndThread, Die, EndRound, Collected, Rounds
<1>12. ASSUME NEW h \in Hosts, Take(h)
       PROVE  Rounds'
  BY <1>3, <1>12 DEF Take, Rounds, SamplerTypes
<1>13. ASSUME NEW h \in Hosts, Record(h)
       PROVE  Rounds'
  <2>1. /\ SampleRow(h).host = h /\ file' = Append(file, SampleRow(h))
        /\ probe[h] = "ready" /\ sampler = "collecting"
        /\ probe' = [probe EXCEPT ![h] = "off"] /\ UNCHANGED <<sampler, rounds>>
    BY <1>13 DEF SampleRow, Record, MayRecord, Yielded
  <2>2. \A k \in Hosts : /\ rows(k) \in Nat
                         /\ rows(k)' = IF k = h THEN rows(k) + 1 ELSE rows(k)
    BY <1>1, <2>1, Counted
  <2> HIDE DEF rows
  <2>3. \A k \in Hosts : rows(k)' = IF probe'[k] = "off" THEN rounds' ELSE rounds' - 1
    BY <2>1, <2>2 DEF Rounds, SamplerTypes, rows
  <2> QED
    BY <2>1, <2>3 DEF Rounds, rows
<1>14. ASSUME NEW h \in Hosts, RecordRaises(h)
       PROVE  Rounds'
  BY <1>3, <1>14 DEF RecordRaises, Rounds
<1>15. CASE UNCHANGED samplerVars
  BY <1>3, <1>15 DEF samplerVars, Rounds
<1> QED
  BY <1>4, <1>5, <1>6, <1>7, <1>8, <1>9, <1>10, <1>11, <1>12, <1>13, <1>14, <1>15
  DEF SamplerNext, RunnerStep, SamplingStep

LEMMA SamplerInvInit == SamplerInit => SamplerInv
<1> SUFFICES ASSUME SamplerInit PROVE SamplerInv
  OBVIOUS
<1>1. file = <<>> /\ Len(file) = 0 /\ Events(file, 0) = {}
  BY DEF SamplerInit, Events
<1>2. Timeline
  BY <1>1 DEF SamplerInit, Timeline, OpenIn, WellBracketed
<1>3. Fresh
  BY <1>1 DEF SamplerInit, Fresh, Labelled, OnlyFirst
<1>4. Rounds
  <2>1. \A h \in Hosts : RowsOf(file, h) = {}
    BY <1>1 DEF RowsOf
  <2> QED
    BY <2>1, FS_EmptySet DEF SamplerInit, Rounds
<1> QED
  BY <1>2, <1>3, <1>4, TypesInit DEF SamplerInv

LEMMA SamplerInvHolds == SamplerSpec => []SamplerInv
<1>1. SamplerInv /\ [SamplerNext]_samplerVars => SamplerInv'
  BY TypesKept, TimelineKept, FreshKept, RoundsKept DEF SamplerInv
<1> QED
  BY <1>1, SamplerInvInit, PTL DEF SamplerSpec

\* The variables keep their types.
THEOREM SamplerTypeCorrect == SamplerSpec => []SamplerTypes
<1>1. SamplerInv => SamplerTypes
  BY DEF SamplerInv
<1> QED
  BY <1>1, SamplerInvHolds, PTL

\* For all hosts, phases and numbers of rounds and changes: the phases of the
\* file are opened and closed alternately, every sample stands in the phase that
\* it names, and a file that was closed leaves no phase open.
THEOREM Reconstructable == SamplerSpec => []Bracketed
<1>1. SamplerInv => Bracketed
  <2> SUFFICES ASSUME SamplerInv PROVE Bracketed
    OBVIOUS
  <2>1. \A n : OpenAfter(n) = OpenIn(file, n)
    BY DEF OpenAfter, OpenIn, Events, IsEvent
  <2>2. \A i \in 1 .. Len(file) : file[i] \in Row
    BY RowTypes DEF SamplerInv
  <2>3. \A i \in 1 .. Len(file) : file[i].row \in {"start", "end", "sample"}
    BY <2>2 DEF Row
  <2>4. ~open => OpenAfter(Len(file)) = Unassigned
    BY <2>1 DEF SamplerInv, SamplerTypes, Timeline
  <2> QED
    BY <2>1, <2>3, <2>4 DEF SamplerInv, Timeline, WellBracketed, Bracketed
<1> QED
  BY <1>1, SamplerInvHolds, PTL

\* A sample that names a later phase than the one it was taken in is the first
\* of its host in that phase.
THEOREM OneStaleLabel == SamplerSpec => []OnlyFirstIsStale
<1>1. SamplerInv => OnlyFirstIsStale
  BY DEF SamplerInv, Fresh, OnlyFirst, OnlyFirstIsStale, IsEvent
<1> QED
  BY <1>1, SamplerInvHolds, PTL

\* When the sampling thread was joined the file has a row for every host of every
\* round, and the hosts are never more than one row apart.
THEOREM Complete == SamplerSpec => []NothingIsLost
<1>1. SamplerInv => NothingIsLost
  <2> SUFFICES ASSUME SamplerInv PROVE NothingIsLost
    OBVIOUS
  <2>1. \A h \in Hosts : Samples(h) = IF probe[h] = "off" THEN rounds ELSE rounds - 1
    BY DEF SamplerInv, Rounds, Samples, RowsOf
  <2>2. rounds \in Nat /\ (sampler = "ended" => \A h \in Hosts : probe[h] = "off")
    BY DEF SamplerInv, SamplerTypes, Rounds
  <2> QED
    BY <2>1, <2>2 DEF NothingIsLost
<1> QED
  BY <1>1, SamplerInvHolds, PTL
=============================================================================
