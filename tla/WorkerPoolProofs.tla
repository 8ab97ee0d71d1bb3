----------------------------- MODULE WorkerPoolProofs -----------------------------
(***************************************************************************)
(* What the proofs about the two runners share: the invariant of the pool  *)
(* and a summary of the steps of workers and network (Evolves), of calls   *)
(* and of restarts, so that a runner's proof looks at each of its phases   *)
(* once.  Requests of closed connections are not delivered here.           *)
(***************************************************************************)
EXTENDS WorkerPool, TLAPS

Pending(h) == transit[h] \cup Requests(h)

\* A pending request is waited for by at most one open call.
OneWaiting(h) ==
    /\ \A q \in transit[h] : q.client = "waiting"
    /\ \A q, r \in transit[h] : q = r
    /\ \A i \in DOMAIN line[h] : line[h][i].client = "waiting" =>
          /\ transit[h] = {}
          /\ \A j \in DOMAIN line[h] : line[h][j].client = "waiting" => i = j
    /\ \A q \in Pending(h) : q.client = "waiting" => call[h] = "open"

Serving == \A h \in Hosts : begun[h] => line[h] # <<>>

Late(h) == \E q \in Pending(h) : q.client = "timedout"

-----------------------------------------------------------------------------
(***************************************************************************)
(* The steps of workers and network.                                       *)
(***************************************************************************)
\* What a pool step does to one host, as far as the phases care: requests
\* disappear, are taken over, or lose a client whose call ends with them; a
\* call only ends; the graph changes by a request that was pending, and only a
\* pending request can leak.
Evolves(h) ==
    /\ \A q \in Pending(h)' : \E p \in Pending(h) :
          /\ q.op = p.op /\ q.graph = p.graph
          /\ q.client = p.client \/ (call[h] = "open" /\ call'[h] = q.client)
    /\ call'[h] = call[h] \/ call[h] = "open"
    /\ up'[h] => /\ up[h]
                 /\ \/ data'[h] = data[h]
                    \/ \E p \in Pending(h) : p.op = "reset" \/ (p.op = "prepare" /\ data'[h] = p.graph)
    /\ leak'[h] => leak[h] \/ Pending(h) # {}

PoolInv == PoolTypes /\ \A h \in Hosts : OneWaiting(h)

Workers == PoolInv /\ Serving

\* A sequence without its i-th element; Behind(i, j) is where the j-th element
\* was.
Behind(i, j) == IF j < i THEN j ELSE j + 1

LEMMA Removed ==
    ASSUME NEW S, NEW s \in Seq(S), NEW i \in 1 .. Len(s)
    PROVE  LET t == SubSeq(s, 1, i - 1) \o SubSeq(s, i + 1, Len(s))
           IN /\ t \in Seq(S)
              /\ DOMAIN t = 1 .. Len(s) - 1
              /\ \A j \in DOMAIN t : t[j] = s[Behind(i, j)]
<1> DEFINE a == SubSeq(s, 1, i - 1)
           b == SubSeq(s, i + 1, Len(s))
           m == i - 1
           n == Len(s) - i
           t == a \o b
<1>1. Len(s) \in Nat /\ \A j \in 1 .. Len(s) : s[j] \in S
  OBVIOUS
<1>2. m \in Nat /\ n \in Nat /\ m + n = Len(s) - 1
  BY <1>1
<1>3. a \in Seq(S)
  BY <1>1
<1>4. Len(a) = m
  BY <1>1
<1>5. \A j \in 1 .. m : a[j] = s[j]
  BY <1>1
<1>6. b \in Seq(S)
  BY <1>1
<1>7. Len(b) = n
  BY <1>1
<1>8. \A j \in 1 .. n : b[j] = s[i + j]
  BY <1>1
<1> HIDE DEF a, b, m, n
<1>9. /\ t \in Seq(S) /\ Len(t) = m + n
      /\ \A j \in 1 .. m + n : t[j] = IF j <= m THEN a[j] ELSE b[j - m]
  <2>1. m \in Nat /\ n \in Nat
    BY <1>2
  <2>2. t \in Seq(S) /\ Len(t) = m + n
    BY <1>3, <1>4, <1>6, <1>7, <2>1
  <2>3. \A j \in 1 .. m + n : t[j] = IF j <= m THEN a[j] ELSE b[j - m]
    BY <1>3, <1>4, <1>6, <1>7, <2>1
  <2>. QED BY <2>2, <2>3
<1> HIDE DEF t
<1> USE DEF m, n
<1>10. DOMAIN t = 1 .. Len(s) - 1
  BY <1>2, <1>9
<1>11. ASSUME NEW j \in DOMAIN t
       PROVE  t[j] = s[Behind(i, j)]
  <2>1. j \in 1 .. m + n
    BY <1>2, <1>10
  <2>2. CASE j <= m
    <3>1. t[j] = a[j] /\ j \in 1 .. m /\ j < i
      BY <1>1, <1>9, <2>1, <2>2
    <3>2. a[j] = s[j]
      BY <1>5, <3>1
    <3>. QED BY <3>1, <3>2 DEF Behind
  <2>3. CASE ~(j <= m)
    <3>1. t[j] = b[j - m] /\ j - m \in 1 .. n
      BY <1>1, <1>9, <2>1, <2>3
    <3>2. b[j - m] = s[i + (j - m)]
      BY <1>8, <3>1
    <3>3. i + (j - m) = j + 1 /\ ~(j < i)
      BY <1>1, <2>1, <2>3
    <3>. QED BY <3>1, <3>2, <3>3 DEF Behind
  <2>. QED BY <2>2, <2>3
<1>. QED BY <1>9, <1>10, <1>11 DEF t, a, b

\* The other hosts are left alone.
LEMMA Elsewhere ==
    ASSUME NEW k \in Hosts, OneWaiting(k),
           up'[k] = up[k], transit'[k] = transit[k], line'[k] = line[k],
           leak'[k] = leak[k], data'[k] = data[k], call'[k] = call[k]
    PROVE  OneWaiting(k)' /\ Evolves(k)
  BY DEF OneWaiting, Evolves, Pending, Requests

LEMMA ArriveEvolves ==
    ASSUME PoolInv, NEW h \in Hosts, Arrive(h)
    PROVE  PoolInv' /\ \A k \in Hosts : Evolves(k)
<1>1. PICK q \in transit[h] : /\ transit' = [transit EXCEPT ![h] = @ \ {q}]
                              /\ line' = [line EXCEPT ![h] = Append(@, q)]
  BY DEF Arrive
<1>2. PoolTypes'
  BY <1>1 DEF Arrive, PoolInv, PoolTypes
<1>3. /\ line[h] \in Seq(Request) /\ q \in Request
      /\ line'[h] = Append(line[h], q) /\ transit'[h] = transit[h] \ {q}
      /\ UNCHANGED <<up, leak, data, call>>
  BY <1>1 DEF Arrive, PoolInv, PoolTypes
<1>4. transit'[h] = {} /\ q.client = "waiting"
      /\ \A i \in DOMAIN line[h] : line[h][i].client # "waiting"
  BY <1>3 DEF PoolInv, OneWaiting
<1>5. /\ DOMAIN line'[h] = 1 .. Len(line[h]) + 1
      /\ \A i \in 1 .. Len(line[h]) : line'[h][i] = line[h][i]
      /\ line'[h][Len(line[h]) + 1] = q
      /\ Len(line[h]) \in Nat /\ DOMAIN line[h] = 1 .. Len(line[h])
  BY <1>3
<1>6. Pending(h)' = Pending(h)
  BY <1>3, <1>4, <1>5 DEF Pending, Requests
<1>7. OneWaiting(h)'
  BY <1>3, <1>4, <1>5, <1>6 DEF PoolInv, OneWaiting
<1>8. Evolves(h)
  BY <1>3, <1>6 DEF Evolves
<1>9. ASSUME NEW k \in Hosts \ {h}
      PROVE  OneWaiting(k)' /\ Evolves(k)
  BY <1>1, <1>3, Elsewhere DEF PoolInv, PoolTypes
<1>. QED BY <1>2, <1>7, <1>8, <1>9 DEF PoolInv

LEMMA BeginEvolves ==
    ASSUME PoolInv, NEW h \in Hosts, Begin(h)
    PROVE  PoolInv' /\ \A k \in Hosts : Evolves(k)
<1>1. PoolTypes'
  BY DEF Begin, PoolInv, PoolTypes
<1>2. ASSUME NEW k \in Hosts
      PROVE  OneWaiting(k)' /\ Evolves(k)
  BY Elsewhere DEF PoolInv, Begin
<1>. QED BY <1>1, <1>2 DEF PoolInv

LEMMA DieEvolves ==
    ASSUME PoolInv, NEW h \in Hosts, Die(h)
    PROVE  PoolInv' /\ \A k \in Hosts : Evolves(k)
<1>1. PoolTypes'
  BY DEF Die, PoolInv, PoolTypes
<1>2. OneWaiting(h)' /\ Evolves(h)
  BY DEF Die, PoolInv, PoolTypes, OneWaiting, Evolves, Pending, Requests
<1>3. ASSUME NEW k \in Hosts \ {h}
      PROVE  OneWaiting(k)' /\ Evolves(k)
  BY Elsewhere DEF PoolInv, PoolTypes, Die
<1>. QED BY <1>1, <1>2, <1>3 DEF PoolInv

LEMMA DropEvolves ==
    ASSUME PoolInv, NEW h \in Hosts, Drop(h)
    PROVE  PoolInv' /\ \A k \in Hosts : Evolves(k)
<1>1. PICK i \in DOMAIN line[h] :
          line' = [line EXCEPT ![h] = SubSeq(@, 1, i - 1) \o SubSeq(@, i + 1, Len(@))]
  BY DEF Drop
<1>2. line[h] \in Seq(Request) /\ line \in [Hosts -> Seq(Request)]
  BY DEF PoolInv, PoolTypes
<1>3. Len(line[h]) \in Nat /\ DOMAIN line[h] = 1 .. Len(line[h]) /\ i \in 1 .. Len(line[h])
  BY <1>2
<1>4. line'[h] = SubSeq(line[h], 1, i - 1) \o SubSeq(line[h], i + 1, Len(line[h]))
  BY <1>1, <1>2
<1>5. /\ line'[h] \in Seq(Request)
      /\ DOMAIN line'[h] = 1 .. Len(line[h]) - 1
      /\ \A j \in DOMAIN line'[h] : line'[h][j] = line[h][Behind(i, j)]
  <2> DEFINE t == SubSeq(line[h], 1, i - 1) \o SubSeq(line[h], i + 1, Len(line[h]))
  <2>1. /\ t \in Seq(Request)
        /\ DOMAIN t = 1 .. Len(line[h]) - 1
        /\ \A j \in DOMAIN t : t[j] = line[h][Behind(i, j)]
    BY <1>2, <1>3, Removed
  <2>2. line'[h] = t
    BY <1>4
  <2> HIDE DEF t
  <2>. QED BY <2>1, <2>2
<1>6. /\ \A j \in DOMAIN line'[h] : Behind(i, j) \in DOMAIN line[h]
      /\ \A j, k \in DOMAIN line'[h] : Behind(i, j) = Behind(i, k) => j = k
  BY <1>3, <1>5 DEF Behind
<1>7. PoolTypes'
  <2>1. line' \in [Hosts -> Seq(Request)]
    BY <1>1, <1>2, <1>5
  <2>. QED BY <2>1 DEF Drop, PoolInv, PoolTypes
<1>8. UNCHANGED <<up, transit, data, call>> /\ \A k \in Hosts \ {h} : leak'[k] = leak[k]
  BY DEF Drop, PoolInv, PoolTypes
<1>9. Requests(h)' \subseteq Requests(h) /\ Requests(h) # {}
  <2>1. Requests(h)' \subseteq Requests(h)
    BY <1>5, <1>6 DEF Requests
  <2>2. line[h][i] \in Requests(h)
    BY DEF Requests
  <2>. QED BY <2>1, <2>2
<1>10. Evolves(h)
  BY <1>8, <1>9 DEF Evolves, Pending
<1>11. OneWaiting(h)'
  <2>1. ASSUME NEW a \in DOMAIN line'[h], line'[h][a].client = "waiting"
        PROVE  /\ transit[h] = {}
               /\ \A b \in DOMAIN line'[h] : line'[h][b].client = "waiting" => a = b
    <3>1. /\ Behind(i, a) \in DOMAIN line[h]
          /\ line[h][Behind(i, a)].client = "waiting"
      BY <1>5, <1>6, <2>1
    <3>2. /\ transit[h] = {}
          /\ \A j \in DOMAIN line[h] : line[h][j].client = "waiting" => Behind(i, a) = j
      BY <3>1 DEF PoolInv, OneWaiting
    <3>3. ASSUME NEW b \in DOMAIN line'[h], line'[h][b].client = "waiting"
          PROVE  a = b
      <4>1. Behind(i, b) \in DOMAIN line[h] /\ line[h][Behind(i, b)].client = "waiting"
        BY <1>5, <1>6, <3>3
      <4>. QED BY <1>6, <3>2, <4>1
    <3>. QED BY <3>2, <3>3
  <2>2. \A q \in Pending(h)' : q.client = "waiting" => call'[h] = "open"
    BY <1>8, <1>9 DEF PoolInv, OneWaiting, Pending
  <2>3. (\A q \in transit[h] : q.client = "waiting") /\ \A q, r \in transit[h] : q = r
    BY DEF PoolInv, OneWaiting
  <2>. QED BY <1>8, <2>1, <2>2, <2>3 DEF OneWaiting
<1>12. ASSUME NEW k \in Hosts \ {h}
       PROVE  OneWaiting(k)' /\ Evolves(k)
  BY <1>1, <1>2, <1>8, Elsewhere DEF PoolInv
<1>. QED BY <1>7, <1>10, <1>11, <1>12 DEF PoolInv

LEMMA HandleEvolves ==
    ASSUME PoolInv, NEW h \in Hosts, Handle(h), line[h] # <<>>
    PROVE  PoolInv' /\ \A k \in Hosts : Evolves(k)
<1> DEFINE q == Head(line[h])
<1>1. line[h] \in Seq(Request) /\ line \in [Hosts -> Seq(Request)]
  BY DEF PoolInv, PoolTypes
<1>2. /\ Len(line[h]) \in Nat /\ DOMAIN line[h] = 1 .. Len(line[h]) /\ 1 \in DOMAIN line[h]
      /\ q = line[h][1] /\ q \in Request
  BY <1>1
<1>3. /\ line' = [line EXCEPT ![h] = Tail(@)] /\ line'[h] = Tail(line[h])
      /\ begun' = [begun EXCEPT ![h] = FALSE]
      /\ UNCHANGED <<up, deaths, transit, leak>>
  BY <1>1 DEF Handle
<1>4. /\ line'[h] \in Seq(Request)
      /\ DOMAIN line'[h] = 1 .. Len(line[h]) - 1
      /\ \A j \in DOMAIN line'[h] : line'[h][j] = line[h][j + 1]
  BY <1>1, <1>2, <1>3
<1>5. PICK c \in {"answered", "refused"} :
         call' = [call EXCEPT ![h] = IF q.client = "waiting" THEN c ELSE @]
  BY DEF Handle, Reply
<1>6. /\ \A k \in Hosts \ {h} : data'[k] = data[k]
      /\ \/ data'[h] = data[h]
         \/ q.op = "reset"
         \/ q.op = "prepare" /\ data'[h] = q.graph
      /\ data' \in [Hosts -> Graphs \cup {Unloaded}]
  BY <1>2 DEF Handle, PoolInv, PoolTypes, Request
<1>7. PoolTypes'
  <2>1. line' \in [Hosts -> Seq(Request)]
    BY <1>1, <1>3, <1>4
  <2>2. call' \in [Hosts -> Calls]
    BY <1>5 DEF PoolInv, PoolTypes, Calls
  <2>. QED BY <1>3, <1>6, <2>1, <2>2 DEF PoolInv, PoolTypes
<1>8. call'[h] = IF q.client = "waiting" THEN c ELSE call[h]
  BY <1>5 DEF PoolInv, PoolTypes
<1>9. Requests(h)' \subseteq Requests(h) /\ q \in Requests(h) /\ Pending(h)' \subseteq Pending(h)
  <2>1. \A j \in DOMAIN line'[h] : j + 1 \in DOMAIN line[h] /\ line'[h][j] = line[h][j + 1]
    BY <1>2, <1>4
  <2>. QED BY <1>2, <1>3, <2>1 DEF Requests, Pending
<1>10. q.client = "waiting" => call[h] = "open"
  BY <1>9 DEF PoolInv, OneWaiting, Pending
<1>11. Evolves(h)
  <2>1. call'[h] = call[h] \/ call[h] = "open"
    BY <1>8, <1>10
  <2>2. \A r \in Pending(h)' : \E p \in Pending(h) : r.op = p.op /\ r.graph = p.graph /\ r.client = p.client
    BY <1>9
  <2>3. q \in Pending(h)
    BY <1>9 DEF Pending
  <2>. QED BY <1>3, <1>6, <2>1, <2>2, <2>3 DEF Evolves
<1>12. OneWaiting(h)'
  <2>1. /\ \A r \in transit[h] : r.client = "waiting"
        /\ \A r, p \in transit[h] : r = p
        /\ \A i \in DOMAIN line[h] : line[h][i].client = "waiting" =>
              /\ transit[h] = {}
              /\ \A j \in DOMAIN line[h] : line[h][j].client = "waiting" => i = j
        /\ \A r \in Pending(h) : r.client = "waiting" => call[h] = "open"
    BY DEF PoolInv, OneWaiting
  <2>2. ASSUME NEW i \in DOMAIN line'[h], line'[h][i].client = "waiting"
        PROVE  /\ transit[h] = {}
               /\ \A j \in DOMAIN line'[h] : line'[h][j].client = "waiting" => i = j
               /\ q.client # "waiting"
    <3>1. /\ i \in Nat \ {0}
          /\ i + 1 \in DOMAIN line[h] /\ line[h][i + 1].client = "waiting"
      BY <1>2, <1>4, <2>2
    <3>2. ASSUME NEW j \in DOMAIN line'[h], line'[h][j].client = "waiting"
          PROVE  i = j
      <4>1. j \in Nat /\ j + 1 \in DOMAIN line[h] /\ line[h][j + 1].client = "waiting"
        BY <1>2, <1>4, <3>2
      <4>2. i + 1 = j + 1
        BY <2>1, <3>1, <4>1
      <4>. QED BY <3>1, <4>1, <4>2
    <3>3. q.client # "waiting"
      <4>1. i + 1 # 1
        BY <3>1
      <4>. QED BY <1>2, <2>1, <3>1, <4>1
    <3>. QED BY <2>1, <3>1, <3>2, <3>3
  <2>3. ASSUME NEW r \in Pending(h)', r.client = "waiting"
        PROVE  call'[h] = "open"
    <3>1. call[h] = "open"
      BY <1>9, <2>1, <2>3
    <3>2. CASE r \in transit[h]
      BY <1>2, <1>8, <2>1, <3>1, <3>2
    <3>3. CASE r \in Requests(h)'
      BY <1>8, <2>2, <2>3, <3>1, <3>3 DEF Requests
    <3>. QED BY <1>3, <3>2, <3>3 DEF Pending
  <2>. QED BY <1>3, <2>1, <2>2, <2>3 DEF OneWaiting
<1>13. ASSUME NEW k \in Hosts \ {h}
       PROVE  OneWaiting(k)' /\ Evolves(k)
  BY <1>1, <1>3, <1>5, <1>6, Elsewhere DEF PoolInv, PoolTypes
<1>. QED BY <1>7, <1>11, <1>12, <1>13 DEF PoolInv

\* Calls that are given up, one or several.
LEMMA GiveUpEvolves ==
    ASSUME ~LateDelivery, PoolInv, NEW hs \in SUBSET Hosts, NEW why \in {"timedout", "broken"},
           \A h \in hs : call[h] = "open", GiveUp(hs, why)
    PROVE  PoolInv' /\ \A h \in Hosts : Evolves(h) /\ call'[h] = IF h \in hs THEN why ELSE call[h]
<1>1. /\ \A h \in Hosts : line[h] \in Seq(Request) /\ transit[h] \subseteq Request
      /\ \A h \in Hosts : Len(line[h]) \in Nat /\ DOMAIN line[h] = 1 .. Len(line[h])
      /\ \A h \in Hosts : \A i \in DOMAIN line[h] : line[h][i] \in Request
  BY DEF PoolInv, PoolTypes
<1>2. \A h \in hs : /\ line'[h] = [i \in DOMAIN line[h] |-> Abandoned(line[h][i], why)]
                     /\ transit'[h] = {} /\ call'[h] = why
  <2>1. \A h \in hs : \A q \in transit[h] : q.client = "waiting"
    BY DEF PoolInv, OneWaiting
  <2>. QED BY <2>1 DEF GiveUp
<1>3. \A h \in Hosts \ hs : line'[h] = line[h] /\ transit'[h] = transit[h] /\ call'[h] = call[h]
  BY DEF GiveUp
<1>4. UNCHANGED <<up, deaths, begun, leak, data>>
  BY DEF GiveUp
<1>5. \A q \in Request : /\ Abandoned(q, why) \in Request
                         /\ Abandoned(q, why).client # "waiting"
                         /\ Abandoned(q, why).op = q.op /\ Abandoned(q, why).graph = q.graph
                         /\ Abandoned(q, why).client \in {q.client, why}
  BY DEF Abandoned, Request, Clients
<1>6. ASSUME NEW h \in hs
      PROVE  /\ line'[h] \in Seq(Request) /\ DOMAIN line'[h] = DOMAIN line[h]
             /\ \A i \in DOMAIN line[h] : line'[h][i] = Abandoned(line[h][i], why)
  <2>1. /\ Len(line[h]) \in Nat /\ DOMAIN line[h] = 1 .. Len(line[h])
        /\ \A i \in DOMAIN line[h] : Abandoned(line[h][i], why) \in Request
    BY <1>1, <1>5
  <2>2. line'[h] = [i \in DOMAIN line[h] |-> Abandoned(line[h][i], why)]
    BY <1>2
  <2>3. line'[h] \in [1 .. Len(line[h]) -> Request]
    BY <2>1, <2>2
  <2>4. line'[h] \in Seq(Request)
    BY <2>1, <2>3
  <2>. QED BY <2>2, <2>4
<1>7. PoolTypes'
  <2>1. line' \in [Hosts -> Seq(Request)]
    <3>1. \A h \in Hosts : line'[h] \in Seq(Request)
      BY <1>1, <1>3, <1>6
    <3>. QED BY <3>1 DEF GiveUp
  <2>2. transit' \in [Hosts -> SUBSET Request]
    <3>1. \A h \in Hosts : transit'[h] \subseteq Request
      BY <1>1, <1>2, <1>3
    <3>. QED BY <3>1 DEF GiveUp
  <2>3. call' \in [Hosts -> Calls]
    <3>1. \A h \in Hosts : call'[h] \in Calls
      BY <1>2, <1>3 DEF PoolInv, PoolTypes, Calls
    <3>. QED BY <3>1 DEF GiveUp
  <2>. QED BY <1>4, <2>1, <2>2, <2>3 DEF PoolInv, PoolTypes
<1>8. ASSUME NEW h \in hs
      PROVE  OneWaiting(h)' /\ Evolves(h)
  <2>1. ASSUME NEW q \in Pending(h)'
        PROVE  /\ q.client # "waiting"
               /\ \E p \in Pending(h) : /\ q.op = p.op /\ q.graph = p.graph
                                        /\ q.client = p.client \/ call'[h] = q.client
    <3>1. PICK i \in DOMAIN line[h] : q = Abandoned(line[h][i], why)
      BY <1>2, <1>6 DEF Pending, Requests
    <3>2. line[h][i] \in Pending(h)
      BY DEF Pending, Requests
    <3>. QED BY <1>1, <1>2, <1>5, <3>1, <3>2
  <2>2. Evolves(h)
    BY <1>4, <2>1 DEF Evolves
  <2>3. \A i \in DOMAIN line'[h] : line'[h][i].client # "waiting"
    BY <1>1, <1>5, <1>6
  <2>. QED BY <1>2, <2>1, <2>2, <2>3 DEF OneWaiting
<1>9. ASSUME NEW h \in Hosts \ hs
      PROVE  OneWaiting(h)' /\ Evolves(h)
  BY <1>3, <1>4, Elsewhere DEF PoolInv
<1>. QED BY <1>2, <1>3, <1>7, <1>8, <1>9 DEF PoolInv

LEMMA GiveUpServing ==
    ASSUME PoolInv, Serving, NEW hs \in SUBSET Hosts, NEW why, GiveUp(hs, why)
    PROVE  Serving'
<1>1. ASSUME NEW h \in Hosts, line[h] # <<>>
      PROVE  line'[h] # <<>>
  <2>1. line[h] \in Seq(Request) /\ DOMAIN line[h] = 1 .. Len(line[h]) /\ Len(line[h]) \in Nat
    BY DEF PoolInv, PoolTypes
  <2>2. DOMAIN line'[h] = DOMAIN line[h]
    BY DEF GiveUp
  <2>3. 1 \in DOMAIN line[h]
    BY <1>1, <2>1
  <2>. QED BY <2>2, <2>3
<1>. QED BY <1>1 DEF GiveUp, Serving

LEMMA ServingKept ==
    ASSUME PoolInv, Serving, PoolStep
    PROVE  Serving'
<1>1. PICK h \in Hosts :
         \/ Arrive(h) \/ Begin(h) \/ Handle(h) \/ Drop(h) \/ Die(h)
         \/ Abandon(h, "timedout") \/ Abandon(h, "broken")
  BY DEF PoolStep
<1>2. /\ line \in [Hosts -> Seq(Request)] /\ begun \in [Hosts -> BOOLEAN]
      /\ line[h] \in Seq(Request)
  BY DEF PoolInv, PoolTypes
<1>3. CASE Arrive(h)
  <2>1. PICK q \in transit[h] : line' = [line EXCEPT ![h] = Append(@, q)]
    BY <1>3 DEF Arrive
  <2>2. q \in Request
    BY DEF PoolInv, PoolTypes
  <2>3. Append(line[h], q) # <<>>
    <3>1. Len(line[h]) \in Nat
      BY <1>2
    <3>2. Len(Append(line[h], q)) = Len(line[h]) + 1
      BY <1>2, <2>2
    <3>3. Len(Append(line[h], q)) # Len(<<>>)
      BY <3>1, <3>2
    <3>. QED BY <3>3
  <2>4. line'[h] # <<>>
    BY <1>2, <2>1, <2>3
  <2>5. \A k \in Hosts \ {h} : line'[k] = line[k] /\ begun'[k] = begun[k]
    BY <1>2, <1>3, <2>1 DEF Arrive
  <2>. QED BY <2>4, <2>5 DEF Serving
<1>4. CASE Begin(h)
  BY <1>2, <1>4 DEF Begin, Serving
<1>5. CASE Handle(h) \/ Die(h)
  BY <1>2, <1>5 DEF Handle, Die, Serving
<1>6. CASE Drop(h)
  <2>1. PICK i \in DOMAIN line[h] :
          /\ i > 1 \/ ~begun[h]
          /\ line' = [line EXCEPT ![h] = SubSeq(@, 1, i - 1) \o SubSeq(@, i + 1, Len(@))]
    BY <1>6 DEF Drop
  <2>2. i \in 1 .. Len(line[h]) /\ Len(line[h]) \in Nat
    BY <1>2
  <2>3. DOMAIN line'[h] = 1 .. Len(line[h]) - 1
    BY <1>2, <2>1, <2>2, Removed
  <2>4. begun[h] => line'[h] # <<>>
    BY <2>1, <2>2, <2>3
  <2>. QED BY <1>2, <1>6, <2>1, <2>4 DEF Drop, Serving
<1>7. ASSUME NEW why \in {"timedout", "broken"}, Abandon(h, why)
      PROVE  Serving'
  BY <1>7, GiveUpServing DEF Abandon
<1>. QED BY <1>1, <1>3, <1>4, <1>5, <1>6, <1>7

LEMMA PoolStepEvolves ==
    ASSUME ~LateDelivery, PoolInv, Serving, PoolStep
    PROVE  PoolInv' /\ Serving' /\ \A h \in Hosts : Evolves(h)
<1>1. PICK h \in Hosts :
         \/ Arrive(h) \/ Begin(h) \/ Handle(h) \/ Drop(h) \/ Die(h)
         \/ Abandon(h, "timedout") \/ Abandon(h, "broken")
  BY DEF PoolStep
<1>2. Handle(h) => line[h] # <<>>
  BY DEF Handle, Serving
<1>3. Serving'
  BY ServingKept
<1>4. PoolInv' /\ \A k \in Hosts : Evolves(k)
  <2>1. CASE Arrive(h) \/ Begin(h) \/ Drop(h) \/ Die(h)
    BY <2>1, ArriveEvolves, BeginEvolves, DropEvolves, DieEvolves
  <2>2. CASE Handle(h)
    BY <1>2, <2>2, HandleEvolves
  <2>3. ASSUME NEW why \in {"timedout", "broken"}, Abandon(h, why)
        PROVE  PoolInv' /\ \A k \in Hosts : Evolves(k)
    BY <2>3, GiveUpEvolves DEF Abandon
  <2>. QED BY <1>1, <2>1, <2>2, <2>3
<1>. QED BY <1>3, <1>4

-----------------------------------------------------------------------------
(***************************************************************************)
(* What the runner does to the workers.                                    *)
(***************************************************************************)
\* While no call is open nobody waits, and nothing is under way.
LEMMA NobodyWaits ==
    ASSUME PoolInv, Resolved, NEW h \in Hosts
    PROVE  /\ transit[h] = {} /\ Pending(h) = Requests(h)
           /\ \A q \in Pending(h) : q.client # "waiting"
           /\ Idle(h) => Pending(h) = {}
<1>1. \A q \in Pending(h) : q.client # "waiting"
  BY DEF PoolInv, OneWaiting, Resolved
<1>2. transit[h] = {}
  BY <1>1 DEF PoolInv, OneWaiting, Pending
<1>3. Idle(h) => Requests(h) = {}
  BY DEF Idle, Requests
<1>. QED BY <1>1, <1>2, <1>3 DEF Pending

LEMMA Called ==
    ASSUME PoolInv, Serving, Resolved, NEW hs \in SUBSET Hosts,
           NEW op \in {"reset", "prepare", "query"}, NEW graph \in Graphs \cup {Unloaded},
           CallAll(hs, op, graph)
    PROVE  /\ PoolInv' /\ Serving'
           /\ \A h \in Hosts : \A q \in Pending(h)' : q \in Pending(h) \/ (q.op = op /\ q.graph = graph /\ q.client = "waiting")
           /\ \A h \in Hosts : Late(h)' => Late(h)
           /\ \A h \in Hosts : call'[h] = IF h \in hs THEN "open" ELSE "none"
<1> DEFINE new == [op |-> op, graph |-> graph, client |-> "waiting"]
<1>1. new \in Request /\ new.op = op /\ new.graph = graph /\ new.client = "waiting"
  BY DEF Request, Clients
<1> HIDE DEF new
<1>2. /\ \A h \in Hosts : transit'[h] = transit[h] \cup IF h \in hs THEN {new} ELSE {}
      /\ \A h \in Hosts : call'[h] = IF h \in hs THEN "open" ELSE "none"
      /\ UNCHANGED <<up, deaths, line, begun, leak, data>>
  BY DEF CallAll, new
<1>3. PoolTypes'
  <2>1. transit' \in [Hosts -> SUBSET Request]
    BY <1>1, <1>2 DEF CallAll, PoolInv, PoolTypes
  <2>2. call' \in [Hosts -> Calls]
    BY DEF CallAll, Calls
  <2>. QED BY <1>2, <2>1, <2>2 DEF PoolInv, PoolTypes
<1>4. ASSUME NEW h \in Hosts
      PROVE  /\ OneWaiting(h)'
             /\ Pending(h)' = Pending(h) \cup IF h \in hs THEN {new} ELSE {}
  <2>1. Requests(h)' = Requests(h)
    BY <1>2 DEF Requests
  <2>2. transit[h] = {} /\ \A q \in Pending(h) : q.client # "waiting"
    BY NobodyWaits
  <2>3. transit'[h] = IF h \in hs THEN {new} ELSE {}
    BY <1>2, <2>2
  <2>4. Pending(h)' = Pending(h) \cup IF h \in hs THEN {new} ELSE {}
    BY <2>1, <2>2, <2>3 DEF Pending
  <2>5. \A i \in DOMAIN line'[h] : line'[h][i].client # "waiting"
    BY <1>2, <2>2 DEF Pending, Requests
  <2>6. OneWaiting(h)'
    BY <1>1, <1>2, <2>2, <2>3, <2>4, <2>5 DEF OneWaiting
  <2>. QED BY <2>4, <2>6
<1>5. \A h \in Hosts : Late(h)' => Late(h)
  BY <1>1, <1>4 DEF Late
<1>6. Serving'
  BY <1>2 DEF Serving
<1>. QED BY <1>1, <1>2, <1>3, <1>4, <1>5, <1>6 DEF PoolInv

LEMMA Renewed ==
    ASSUME PoolInv, Serving, Resolved, NEW h \in Hosts, Renew(h)
    PROVE  /\ PoolInv' /\ Serving' /\ Resolved'
           /\ Pending(h)' = {} /\ ~leak'[h]
           /\ \A k \in Hosts \ {h} : /\ Pending(k)' = Pending(k)
                                     /\ up'[k] = up[k] /\ data'[k] = data[k] /\ leak'[k] = leak[k]
<1>1. PoolTypes'
  BY DEF Renew, PoolInv, PoolTypes
<1>2. OneWaiting(h)' /\ Pending(h)' = {} /\ ~leak'[h]
  BY DEF Renew, PoolInv, PoolTypes, OneWaiting, Pending, Requests
<1>3. ASSUME NEW k \in Hosts \ {h}
      PROVE  /\ OneWaiting(k)' /\ Pending(k)' = Pending(k)
             /\ up'[k] = up[k] /\ data'[k] = data[k] /\ leak'[k] = leak[k]
  BY Elsewhere DEF PoolInv, PoolTypes, Renew, Pending, Requests
<1>4. Serving' /\ Resolved'
  BY DEF Renew, PoolInv, PoolTypes, Serving, Resolved
<1>. QED BY <1>1, <1>2, <1>3, <1>4 DEF PoolInv

\* A query that returns at its deadline resolves every call; what it leaves
\* behind stems from a call that was open.
LEMMA LeftOpen ==
    ASSUME ~LateDelivery, PoolInv, Serving, LeaveOpen
    PROVE  /\ PoolInv' /\ Serving' /\ Resolved'
           /\ \A h \in Hosts : Evolves(h)
<1> DEFINE hs == {h \in Hosts : call[h] = "open"}
<1>1. GiveUp(hs, "timedout") /\ hs \in SUBSET Hosts /\ \A h \in hs : call[h] = "open"
  BY DEF LeaveOpen
<1>2. \A h \in Hosts : h \notin hs => call[h] # "open"
  OBVIOUS
<1> HIDE DEF hs
<1>3. PoolInv' /\ \A h \in Hosts : Evolves(h) /\ call'[h] = IF h \in hs THEN "timedout" ELSE call[h]
  BY <1>1, GiveUpEvolves
<1>4. Serving'
  BY <1>1, GiveUpServing
<1>5. Resolved'
  BY <1>2, <1>3 DEF Resolved
<1>. QED BY <1>3, <1>4, <1>5

\* A step of the runner that leaves the workers alone.
LEMMA PoolStill ==
    ASSUME UNCHANGED poolVars
    PROVE  /\ PoolInv => PoolInv'
           /\ Serving => Serving'
           /\ Resolved => Resolved'
           /\ \A h \in Hosts : /\ Pending(h)' = Pending(h)
                               /\ Late(h)' => Late(h)
                               /\ call'[h] = call[h]
<1>1. UNCHANGED <<up, deaths, transit, line, begun, leak, data, call>>
  BY DEF poolVars
<1>2. PoolInv => PoolInv'
  BY <1>1 DEF PoolInv, PoolTypes, OneWaiting, Pending, Requests
<1>3. \A h \in Hosts : Pending(h)' = Pending(h)
  BY <1>1 DEF Pending, Requests
<1>4. Serving => Serving' /\ (Resolved => Resolved')
  BY <1>1 DEF Serving, Resolved
<1>. QED BY <1>1, <1>2, <1>3, <1>4 DEF Late, Serving, Resolved
=============================================================================
