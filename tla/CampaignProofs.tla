----------------------------- MODULE CampaignProofs -------------------------------
(***************************************************************************)
(* The safety properties of module Campaign, for any number of hosts,      *)
(* layouts and iterations.  Those about the workers hold where requests of *)
(* closed connections are not delivered; the accounts depend on the runner *)
(* alone.                                                                  *)
(*                                                                         *)
(* Phases says which workers are known to be done, and which graph they    *)
(* can have, in every phase of the runner; Accounts compares the           *)
(* iterations that went well with those that are over (Over).              *)
(***************************************************************************)
EXTENDS Campaign, WorkerPoolProofs

\* What is pending leaves the graph of this layout as it is.
Harmless(h) ==
    \A q \in Pending(h) : q.op = "query" \/ (q.op = "prepare" /\ q.graph = Graph[layout])

Kept(h) == up[h] => data[h] = Graph[layout]

\* Nothing is left to do, and the worker reports it.
Clean(h) == Pending(h) = {} /\ ~leak[h]

Calling == {"resetting", "preparing", "querying"}

Phases ==
    /\ pc \notin Calling => Resolved
    /\ pc \notin {"cold", "restart", "containers", "oomRestart", "finished"} => recovered = {}
    /\ pc \in {"cold", "restart"} => \A h \in recovered : Clean(h)
    /\ pc = "prepared" => \A h \in Hosts \ todo : Harmless(h) /\ Kept(h)
    /\ pc \in {"queries", "querying"} => \A h \in Hosts : Harmless(h) /\ Kept(h)
    /\ pc = "post_check" => \A h \in Hosts \ todo : Pending(h) = {}
    /\ pc = "recovery" => \A h \in Hosts \ todo : Clean(h)
    /\ pc = "containers" /\ record = "query_timeout" /\ ~abandonment => \A h \in Hosts : Clean(h)

\* Iterations of n layouts.
Block(n) == n * Iterations

\* The iterations that are over, skipped ones included.
Past == Block(layout - 1) + IF iteration = 0 THEN 0 ELSE iteration - 1

Accounts ==
    /\ pc \in Iterating \cup Concluded <=> iteration # 0
    /\ pc \in Concluded => record \in Statuses
    /\ pc = "oomRestart" => record = "oom_killed"
    /\ pc \notin Concluded => ~abandonment
    /\ abandonment => record \in {"query_timeout", "oom_killed"}
    /\ pc = "dataset" => layout % 2 = 1
    /\ pc = "connect" => layout = 1
    /\ pc # "finished" => /\ manifest = "running"
                          /\ unharmed <= Past
                          /\ failures <=> unharmed < Past
    /\ pc = "finished" => (manifest = "completed" <=> unharmed = Layouts * Iterations)

Inv ==
    /\ PoolInv /\ Serving
    /\ RunTypes
    /\ Phases
    /\ Accounts

-----------------------------------------------------------------------------
(***************************************************************************)
(* The phases survive what workers and network do.                         *)
(***************************************************************************)
LEMMA HostEvolves ==
    ASSUME NEW h \in Hosts, Evolves(h), layout' = layout
    PROVE  /\ Harmless(h) => Harmless(h)'
           /\ Harmless(h) /\ Kept(h) => Kept(h)'
           /\ Pending(h) = {} => Pending(h)' = {}
           /\ Clean(h) => Clean(h)'
           /\ call'[h] = call[h] \/ call[h] = "open"
  BY DEF Evolves, Harmless, Kept, Clean

LEMMA PhasesEvolve ==
    ASSUME RunTypes, Phases, UNCHANGED runVars, \A h \in Hosts : Evolves(h)
    PROVE  Phases'
<1>1. UNCHANGED <<pc, layout, todo, recovered, record, abandonment>>
  BY DEF runVars, accounts
<1>2. \A h \in Hosts : /\ Harmless(h) => Harmless(h)'
                       /\ Harmless(h) /\ Kept(h) => Kept(h)'
                       /\ Pending(h) = {} => Pending(h)' = {}
                       /\ Clean(h) => Clean(h)'
                       /\ call'[h] = call[h] \/ call[h] = "open"
  BY <1>1, HostEvolves
<1>3. Resolved => Resolved'
  BY <1>2 DEF Resolved
<1>. QED BY <1>1, <1>2, <1>3 DEF Phases, Calling, RunTypes

\* They also survive a step of the runner that leaves the workers alone.
LEMMA Still ==
    ASSUME UNCHANGED poolVars
    PROVE  /\ PoolInv => PoolInv'
           /\ Serving => Serving'
           /\ Resolved => Resolved'
           /\ \A h \in Hosts : /\ Pending(h)' = Pending(h)
                               /\ Clean(h) => Clean(h)'
                               /\ layout' = layout => (Harmless(h) => Harmless(h)') /\ (Kept(h) => Kept(h)')
<1>1. UNCHANGED <<up, data, leak>>
  BY DEF poolVars
<1>. QED BY <1>1, PoolStill DEF Harmless, Kept, Clean

-----------------------------------------------------------------------------
(***************************************************************************)
(* The steps of the runner: types and accounts.                            *)
(***************************************************************************)
Quiet ==
    /\ UNCHANGED <<layout, iteration, record, abandonment, unharmed, limited, failures, manifest>>
    /\ pc # "finished" /\ pc' # "finished"
    /\ pc \in Iterating <=> pc' \in Iterating
    /\ pc \in Concluded \/ pc' \in Concluded => pc' = pc
    /\ pc' = "dataset" => pc = "connect"
    /\ pc' = "connect" => pc = "connect"

Concluding == pc \in Iterating /\ \E s \in Statuses : Conclude(s)

Skipping == pc \in {"dataset", "reference", "cold"} /\ Skip(IF pc = "dataset" THEN layout + 1 ELSE layout)

LEMMA RunnerSteps ==
    ASSUME Runner
    PROVE  \/ Quiet \/ Concluding \/ Skipping
           \/ ConnectFails \/ Restarted \/ Killed \/ EndIteration
           \/ pc = "cold" /\ recovered = Hosts /\ StartIteration /\ UNCHANGED <<layout, abandonment, tally, failures, manifest>>
<1> USE DEF accounts, tally, Iterating, Concluded, Goto, Statuses
<1>1. CASE Connected \/ ResetsDone \/ Prepared \/ CatalogDone \/ FoundBusy
  BY <1>1 DEF Connected, ResetsDone, Prepared, CatalogDone, FoundBusy, Quiet
<1>2. CASE Generate \/ Validate
  BY <1>2 DEF Generate, Validate, Quiet, Skipping
<1>3. CASE ColdStarted
  BY <1>3 DEF ColdStarted, Skipping
<1>4. CASE ResetDone \/ Prepare \/ PrepareDone
  BY <1>4 DEF ResetDone, Prepare, PrepareDone, Quiet, Concluding
<1>5. CASE CheckFails \/ QueryRaises \/ PostChecked \/ AllIdle
  BY <1>5 DEF CheckFails, Waiting, QueryRaises, PostChecked, AllIdle, Concluding
<1>6. CASE QueryEnds \/ Abort
  BY <1>6 DEF QueryEnds, Abort, Quiet
<1>7. ASSUME NEW h \in Hosts, Connect(h) \/ RestartHost(h) \/ Reset(h) \/ CheckHost(h) \/ FoundIdle(h)
      PROVE  Quiet
  BY <1>7 DEF Connect, RestartHost, Restarting, Reset, CheckHost, Waiting, FoundIdle, Quiet
<1>8. ASSUME NEW hs \in SUBSET Hosts, StartQuery(hs)
      PROVE  Quiet
  BY <1>8 DEF StartQuery, Quiet
<1>. QED BY <1>1, <1>2, <1>3, <1>4, <1>5, <1>6, <1>7, <1>8 DEF Runner

LEMMA Blocks ==
    ASSUME NEW n \in Nat
    PROVE  /\ Block(n) \in Nat /\ Block(0) = 0
           /\ Block(n + 1) = Block(n) + Iterations
  BY CampaignAssumption DEF Block

\* The loops go on with accounts that are right for what lies behind.
LEMMA GoOnAccounts ==
    ASSUME RunTypes, NEW n \in 1 .. Layouts, GoOn(n),
           unharmed' \in Nat, unharmed' <= Block(n),
           failures' <=> unharmed' < Block(n), manifest = "running"
    PROVE  Accounts'
<1> USE CampaignAssumption
<1>1. Block(n) \in Nat /\ Block(Layouts) = Layouts * Iterations
  BY Blocks DEF Block
<1>2. iteration' = 0 /\ record' = "none" /\ abandonment' = FALSE
  BY DEF GoOn
<1>3. CASE n = Layouts
  <2>1. pc' = "finished" /\ manifest' = IF failures' THEN "completed_with_failures" ELSE "completed"
    BY <1>3 DEF GoOn
  <2>. QED BY <1>1, <1>2, <1>3, <2>1 DEF Accounts, Iterating, Concluded
<1>4. CASE n # Layouts
  <2>1. /\ pc' = IF n % 2 = 0 THEN "dataset" ELSE "reference"
        /\ layout' = n + 1 /\ manifest' = "running"
    BY <1>4 DEF GoOn
  <2>2. n % 2 = 0 => layout' % 2 = 1
    BY <2>1
  <2>3. Past' = Block(n)
    <3>1. layout' - 1 = n
      BY <2>1
    <3>2. Past' = Block(n) + 0
      BY <1>2, <3>1 DEF Past, Block
    <3>. QED BY <1>1, <3>2
  <2>. QED BY <1>2, <2>1, <2>2, <2>3 DEF Accounts, Iterating, Concluded
<1>. QED BY <1>3, <1>4

LEMMA GoOnTypes ==
    ASSUME RunTypes, NEW n \in 1 .. Layouts, GoOn(n),
           unharmed' \in Nat, failures' \in BOOLEAN, limited' \in BOOLEAN
    PROVE  RunTypes'
<1> USE CampaignAssumption
<1>1. /\ iteration' = 0 /\ recovered' = {} /\ abandonment' = FALSE /\ record' = "none"
      /\ UNCHANGED <<asked, queryFailures>>
  BY DEF GoOn
<1>2. /\ pc' \in {"finished", "dataset", "reference"} /\ layout' \in 1 .. Layouts /\ todo' \subseteq Hosts
      /\ manifest' \in {manifest, "completed", "completed_with_failures"}
  <2>1. CASE n = Layouts
    BY <2>1 DEF GoOn, RunTypes
  <2>2. CASE n # Layouts
    BY <2>2 DEF GoOn, RunTypes
  <2>. QED BY <2>1, <2>2
<1>3. /\ pc' \in Iterating \cup Concluded \cup {"connect", "dataset", "reference", "cold", "finished"}
      /\ manifest' \in {"running", "completed", "completed_with_failures", "failed", "hard_timeout", "incompatible_worker"}
  BY <1>2 DEF RunTypes
<1>4. /\ iteration' \in 0 .. Iterations /\ recovered' \subseteq Hosts
      /\ record' \in Statuses \cup {"none", "running"} /\ asked' \in 0 .. MaxQueries
  BY <1>1 DEF RunTypes
<1>5. queryFailures' \in BOOLEAN
  BY <1>1 DEF RunTypes
<1>6. abandonment' \in BOOLEAN
  BY <1>1
<1>. QED BY <1>2, <1>3, <1>4, <1>5, <1>6 DEF RunTypes

LEMMA PastIs ==
    ASSUME RunTypes
    PROVE  /\ Past \in Nat
           /\ iteration = 0 => Past = Block(layout - 1)
           /\ iteration # 0 => Past + 1 = Block(layout - 1) + iteration
           /\ Block(layout) = Block(layout - 1) + Iterations
           /\ Block(layout + 1) = Block(layout - 1) + 2 * Iterations
<1> USE CampaignAssumption
<1>1. layout - 1 \in Nat /\ layout \in Nat /\ iteration \in Nat
  BY DEF RunTypes
<1>2. Block(layout - 1) \in Nat /\ Block(layout - 1 + 1) = Block(layout - 1) + Iterations
  BY <1>1, Blocks
<1>3. Block(layout) \in Nat /\ Block(layout + 1) = Block(layout) + Iterations
  BY <1>1, Blocks
<1>4. layout - 1 + 1 = layout
  BY <1>1
<1>. QED BY <1>1, <1>2, <1>3, <1>4 DEF Past

LEMMA SkipAccounts ==
    ASSUME RunTypes, Accounts, Skipping
    PROVE  RunTypes' /\ Accounts'
<1> DEFINE n == IF pc = "dataset" THEN layout + 1 ELSE layout
<1>1. n \in 1 .. Layouts /\ pc # "finished" /\ iteration = 0
  BY CampaignAssumption DEF RunTypes, Accounts, Skipping, Iterating, Concluded
<1>2. Block(n) \in Nat /\ Past < Block(n)
  <2>1. Past = Block(layout - 1) /\ Past \in Nat /\ Iterations \in Nat \ {0}
    BY <1>1, PastIs, CampaignAssumption
  <2>. QED BY <2>1, PastIs
<1>3. failures' = TRUE /\ GoOn(n) /\ unharmed' = unharmed /\ limited' = limited
  BY DEF Skipping, Skip, tally
<1>4. unharmed \in Nat /\ unharmed <= Past /\ Past \in Nat /\ manifest = "running"
  BY <1>1, PastIs DEF Accounts, RunTypes
<1> HIDE DEF n
<1>5. Accounts'
  BY <1>1, <1>2, <1>3, <1>4, GoOnAccounts
<1>6. RunTypes'
  BY <1>1, <1>3, <1>4, GoOnTypes DEF RunTypes
<1>. QED BY <1>5, <1>6

LEMMA EndAccounts ==
    ASSUME RunTypes, Accounts, EndIteration
    PROVE  RunTypes' /\ Accounts'
<1> USE CampaignAssumption
<1>1. /\ pc \in Concluded /\ iteration \in 1 .. Iterations /\ record \in Statuses
      /\ abandonment => record \in {"query_timeout", "oom_killed"}
      /\ manifest = "running" /\ unharmed <= Past /\ (failures <=> unharmed < Past)
      /\ unharmed \in Nat /\ Past \in Nat /\ failures \in BOOLEAN
  BY PastIs DEF EndIteration, Concluded, Accounts, RunTypes
<1>2. /\ unharmed' = unharmed + IF record \in {"completed", "payload_limit_exceeded"} THEN 1 ELSE 0
      /\ failures' = (failures \/ record \in Counted \/ abandonment)
      /\ limited' = (limited \/ record = "payload_limit_exceeded")
  BY DEF EndIteration
<1>3. record \in {"completed", "payload_limit_exceeded"} <=> record \notin Counted
  BY <1>1 DEF Statuses, Counted
<1>4. /\ unharmed' \in Nat /\ unharmed' <= Past + 1 /\ failures' \in BOOLEAN /\ limited' \in BOOLEAN
      /\ failures' <=> unharmed' < Past + 1
      /\ abandonment => unharmed' <= Past /\ failures'
  <2>1. abandonment => record \in Counted
    BY <1>1 DEF Counted
  <2>2. CASE record \in Counted
    <3>1. unharmed' = unharmed
      BY <1>1, <1>2, <1>3, <2>2
    <3>2. failures' = TRUE
      BY <1>2, <2>2
    <3>. QED BY <1>1, <1>2, <3>1, <3>2
  <2>3. CASE record \notin Counted
    <3>1. unharmed' = unharmed + 1
      BY <1>2, <1>3, <2>3
    <3>2. failures' = failures
      BY <1>1, <1>2, <2>1, <2>3
    <3>. QED BY <1>1, <1>2, <2>1, <2>3, <3>1, <3>2
  <2>. QED BY <2>2, <2>3
<1>5. CASE abandonment \/ iteration = Iterations
  <2>1. GoOn(layout) /\ layout \in 1 .. Layouts
    BY <1>5 DEF EndIteration, RunTypes
  <2>2. Block(layout) \in Nat /\ unharmed' <= Block(layout) /\ (failures' <=> unharmed' < Block(layout))
    <3>1. /\ Block(layout) = Block(layout - 1) + Iterations /\ Past + 1 = Block(layout - 1) + iteration
          /\ Block(layout - 1) \in Nat
      <4>1. layout - 1 \in Nat
        BY DEF RunTypes
      <4>. QED BY <1>1, <4>1, PastIs, Blocks
    <3>. QED BY <1>1, <1>4, <1>5, <3>1
  <2>3. Accounts'
    BY <1>1, <1>4, <2>1, <2>2, GoOnAccounts
  <2>4. RunTypes'
    BY <1>4, <2>1, GoOnTypes
  <2>. QED BY <2>3, <2>4
<1>6. CASE ~(abandonment \/ iteration = Iterations)
  <2>1. StartIteration /\ UNCHANGED <<layout, abandonment, manifest>>
    BY <1>6 DEF EndIteration
  <2>2. Past' = Past + 1
    <3>1. iteration' = iteration + 1 /\ layout' = layout
      BY <2>1 DEF StartIteration
    <3>2. Past = Block(layout - 1) + (iteration - 1) /\ Past' = Block(layout - 1) + iteration
      BY <1>1, <3>1 DEF Past, Block
    <3>3. Block(layout - 1) \in Nat
      <4>1. layout - 1 \in Nat
        BY DEF RunTypes
      <4>. QED BY <4>1, Blocks
    <3>. QED BY <1>1, <3>2, <3>3
  <2>3. Accounts'
    BY <1>1, <1>4, <1>6, <2>1, <2>2 DEF StartIteration, Accounts, Iterating, Concluded
  <2>4. RunTypes'
    <3>1. /\ pc' = "reset" /\ todo' = Hosts /\ recovered' = {} /\ iteration' = iteration + 1
          /\ asked' = 0 /\ queryFailures' = FALSE /\ record' = "running"
          /\ UNCHANGED <<layout, abandonment, manifest>>
      BY <2>1 DEF StartIteration
    <3>2. iteration' \in 0 .. Iterations
      BY <1>1, <1>6, <3>1
    <3>3. pc' \in Iterating
      BY <3>1 DEF Iterating
    <3>4. /\ layout' \in 1 .. Layouts /\ asked' \in 0 .. MaxQueries /\ abandonment' \in BOOLEAN
          /\ manifest' \in {"running", "completed", "completed_with_failures", "failed", "hard_timeout", "incompatible_worker"}
      BY <3>1 DEF RunTypes
    <3>5. todo' \subseteq Hosts /\ recovered' \subseteq Hosts /\ queryFailures' \in BOOLEAN
      BY <3>1
    <3>. QED BY <1>4, <3>1, <3>2, <3>3, <3>4, <3>5 DEF RunTypes
  <2>. QED BY <2>3, <2>4
<1>. QED BY <1>5, <1>6

LEMMA AccountsKept ==
    ASSUME RunTypes, Accounts, Runner
    PROVE  Accounts'
<1> USE CampaignAssumption
<1>1. CASE Quiet
  BY <1>1 DEF Quiet, Accounts, Past, Iterating, Concluded
<1>2. CASE Concluding
  BY <1>2 DEF Concluding, Conclude, tally, Accounts, Past, Iterating, Concluded
<1>3. CASE Restarted
  BY <1>3 DEF Restarted, tally, Accounts, Past, Iterating, Concluded, Statuses
<1>4. CASE Killed
  BY <1>4 DEF Killed, tally, Accounts, Past, Iterating, Concluded, Statuses
<1>5. CASE ConnectFails
  <2>1. /\ layout = 1 /\ iteration = 0 /\ unharmed <= Past /\ unharmed \in Nat /\ pc' = "finished"
        /\ manifest' \in {"hard_timeout", "incompatible_worker", "failed"}
        /\ UNCHANGED <<iteration, abandonment, unharmed>> /\ ~abandonment
    BY <1>5 DEF ConnectFails, tally, Accounts, RunTypes, Iterating, Concluded
  <2>2. Past = 0
    BY <2>1, Blocks DEF Past
  <2>3. Layouts * Iterations # 0
    OBVIOUS
  <2>4. unharmed' # Layouts * Iterations
    BY <2>1, <2>2, <2>3
  <2>. QED BY <2>1, <2>4 DEF Accounts, Iterating, Concluded
<1>6. CASE pc = "cold" /\ recovered = Hosts /\ StartIteration /\ UNCHANGED <<layout, abandonment, tally, failures, manifest>>
  BY <1>6 DEF StartIteration, tally, Accounts, Past, Iterating, Concluded
<1>. QED BY <1>1, <1>2, <1>3, <1>4, <1>5, <1>6, SkipAccounts, EndAccounts, RunnerSteps

\* What most steps do to the variables of the runner.
Moves ==
    /\ pc' \in Iterating \cup Concluded \cup {"connect", "dataset", "reference", "cold", "finished"}
    /\ todo' \subseteq Hosts /\ recovered' \subseteq Hosts /\ asked' \in 0 .. MaxQueries
    /\ queryFailures' \in BOOLEAN /\ abandonment' \in BOOLEAN
    /\ UNCHANGED <<layout, iteration, unharmed, limited, failures>>
    /\ record' = record \/ record' \in Statuses
    /\ manifest' = manifest \/ manifest' \in {"failed", "hard_timeout", "incompatible_worker"}

LEMMA MovesTypes ==
    ASSUME RunTypes, Moves
    PROVE  RunTypes'
<1>1. /\ layout' \in 1 .. Layouts /\ iteration' \in 0 .. Iterations
      /\ record' \in Statuses \cup {"none", "running"} /\ unharmed' \in Nat
      /\ manifest' \in {"running", "completed", "completed_with_failures", "failed", "hard_timeout", "incompatible_worker"}
  BY DEF RunTypes, Moves
<1>2. failures' \in BOOLEAN /\ limited' \in BOOLEAN
  BY DEF RunTypes, Moves
<1>. QED BY <1>1, <1>2 DEF RunTypes, Moves

LEMMA GotoMoves ==
    ASSUME RunTypes, NEW p, NEW hs \in SUBSET Hosts, Goto(p, hs),
           p \in Iterating \cup Concluded \cup {"connect", "dataset", "reference", "cold", "finished"}
    PROVE  RunTypes'
<1>1. Moves
  <2>1. queryFailures' \in BOOLEAN
    BY DEF Goto, RunTypes
  <2>2. abandonment' \in BOOLEAN
    BY DEF Goto, RunTypes
  <2>. QED BY <2>1, <2>2 DEF Goto, accounts, tally, RunTypes, Moves
<1>. QED BY <1>1, MovesTypes

LEMMA ConcludeMoves ==
    ASSUME RunTypes, NEW s \in Statuses, Conclude(s)
    PROVE  RunTypes'
<1>1. Moves
  <2>1. queryFailures' \in BOOLEAN
    BY DEF Conclude, RunTypes
  <2>2. abandonment' \in BOOLEAN
    BY DEF Conclude, RunTypes
  <2>. QED BY <2>1, <2>2 DEF Conclude, accounts, tally, RunTypes, Moves, Concluded
<1>. QED BY <1>1, MovesTypes

LEMMA RunTypesKept ==
    ASSUME RunTypes, Accounts, Runner
    PROVE  RunTypes'
<1> USE CampaignAssumption DEF Iterating, Concluded
<1>1. CASE Connected \/ ResetsDone \/ Prepared \/ CatalogDone \/ FoundBusy
  BY <1>1, GotoMoves DEF Connected, ResetsDone, Prepared, CatalogDone, FoundBusy
<1>2. CASE Generate
  BY <1>2, GotoMoves, SkipAccounts DEF Generate, Skipping
<1>3. CASE Validate
  BY <1>3, GotoMoves, SkipAccounts DEF Validate, Skipping
<1>4. CASE ColdStarted
  <2>1. CASE Skip(layout)
    BY <1>4, <2>1, SkipAccounts DEF ColdStarted, Skipping
  <2>2. CASE StartIteration /\ UNCHANGED <<layout, abandonment, tally, failures, manifest>>
    <3>1. iteration = 0
      BY <1>4 DEF ColdStarted, Accounts
    <3>2. iteration' \in 0 .. Iterations /\ layout' \in 1 .. Layouts /\ unharmed' \in Nat /\ asked' \in 0 .. MaxQueries
      BY <2>2, <3>1 DEF StartIteration, tally, RunTypes
    <3>3. abandonment' \in BOOLEAN
      BY <2>2 DEF RunTypes
    <3>4. failures' \in BOOLEAN
      BY <2>2 DEF RunTypes
    <3>5. limited' \in BOOLEAN
      BY <2>2 DEF RunTypes, tally
    <3>6. queryFailures' \in BOOLEAN
      BY <2>2 DEF StartIteration
    <3>7. /\ pc' \in Iterating /\ todo' \subseteq Hosts /\ recovered' \subseteq Hosts
          /\ record' \in Statuses \cup {"none", "running"}
          /\ manifest' \in {"running", "completed", "completed_with_failures", "failed", "hard_timeout", "incompatible_worker"}
      BY <2>2 DEF StartIteration, RunTypes
    <3>. QED BY <3>2, <3>3, <3>4, <3>5, <3>6, <3>7 DEF RunTypes
  <2>. QED BY <1>4, <2>1, <2>2 DEF ColdStarted
<1>5. CASE ResetDone
  BY <1>5, GotoMoves, ConcludeMoves DEF ResetDone, Statuses, RunTypes
<1>6. CASE Prepare \/ PrepareDone
  BY <1>6, GotoMoves, ConcludeMoves DEF Prepare, PrepareDone, Statuses
<1>7. CASE CheckFails \/ QueryRaises \/ PostChecked \/ AllIdle
  BY <1>7, ConcludeMoves DEF CheckFails, QueryRaises, PostChecked, AllIdle, Statuses
<1>8. CASE QueryEnds
  <2>1. queryFailures' \in BOOLEAN
    BY <1>8 DEF QueryEnds, RunTypes, AllAnswered
  <2>2. abandonment' \in BOOLEAN
    BY <1>8 DEF QueryEnds, RunTypes
  <2>3. Moves
    BY <1>8, <2>1, <2>2 DEF QueryEnds, accounts, tally, RunTypes, Moves
  <2>. QED BY <2>3, MovesTypes
<1>9. CASE Abort
  BY <1>9, GotoMoves DEF Abort
<1>10. CASE ConnectFails \/ Restarted \/ Killed
  <2>1. queryFailures' \in BOOLEAN
    BY <1>10 DEF ConnectFails, Restarted, Killed, RunTypes
  <2>2. abandonment' \in BOOLEAN
    <3>1. CASE Restarted
      BY <3>1 DEF Restarted
    <3>2. CASE ConnectFails \/ Killed
      BY <3>2 DEF ConnectFails, Killed, RunTypes
    <3>. QED BY <1>10, <3>1, <3>2
  <2>3. Moves
    BY <1>10, <2>1, <2>2 DEF ConnectFails, Restarted, Killed, tally, RunTypes, Moves, Statuses
  <2>. QED BY <2>3, MovesTypes
<1>11. ASSUME NEW h \in Hosts, Connect(h) \/ Reset(h) \/ CheckHost(h) \/ FoundIdle(h)
       PROVE  RunTypes'
  <2>1. PICK hs \in SUBSET Hosts : hs = todo \ {h}
    BY DEF RunTypes
  <2>. QED BY <1>11, <2>1, GotoMoves DEF Connect, Reset, CheckHost, Waiting, FoundIdle
<1>12. ASSUME NEW h \in Hosts, RestartHost(h)
       PROVE  RunTypes'
  <2>1. queryFailures' \in BOOLEAN
    BY <1>12 DEF RestartHost, RunTypes
  <2>2. abandonment' \in BOOLEAN
    BY <1>12 DEF RestartHost, RunTypes
  <2>3. Moves
    BY <1>12, <2>1, <2>2 DEF RestartHost, accounts, tally, RunTypes, Moves
  <2>. QED BY <2>3, MovesTypes
<1>13. ASSUME NEW hs \in SUBSET Hosts, StartQuery(hs)
       PROVE  RunTypes'
  <2>1. queryFailures' \in BOOLEAN
    BY <1>13 DEF StartQuery, RunTypes
  <2>2. abandonment' \in BOOLEAN
    BY <1>13 DEF StartQuery, RunTypes
  <2>3. Moves
    BY <1>13, <2>1, <2>2 DEF StartQuery, accounts, tally, RunTypes, Moves
  <2>. QED BY <2>3, MovesTypes
<1>14. CASE EndIteration
  BY <1>14, EndAccounts
<1>. QED BY <1>1, <1>2, <1>3, <1>4, <1>5, <1>6, <1>7, <1>8, <1>9, <1>10, <1>11, <1>12, <1>13, <1>14 DEF Runner

-----------------------------------------------------------------------------
(***************************************************************************)
(* The steps of the runner: phases.                                        *)
(***************************************************************************)
\* A new iteration, or whatever comes before the first one of a layout.
LEMMA BetweenPhases ==
    ASSUME Workers, RunTypes, Phases, Accounts,
           \/ ConnectFails \/ Connected \/ Generate \/ Validate \/ ColdStarted \/ EndIteration
           \/ ResetsDone \/ CatalogDone \/ FoundBusy
    PROVE  Workers' /\ Phases'
<1>1. UNCHANGED poolVars
  BY DEF ConnectFails, Connected, Generate, Validate, ColdStarted, Skip, EndIteration, ResetsDone, CatalogDone, FoundBusy
<1>2. Workers' /\ (Resolved => Resolved')
  BY <1>1, Still DEF Workers
<1>3. Resolved
  BY DEF ConnectFails, Connected, Generate, Validate, ColdStarted, EndIteration, ResetsDone, CatalogDone,
         FoundBusy, Phases, Calling
<1>4. \/ pc' = "finished"
      \/ pc' \in {"dataset", "reference", "reset", "readiness", "cold", "restart"} /\ recovered' = {}
      \/ pc' = "post_check" /\ todo' = Hosts /\ recovered' = {}
  <2>1. CASE ConnectFails \/ Connected \/ ResetsDone \/ CatalogDone
    BY <2>1 DEF ConnectFails, Connected, ResetsDone, CatalogDone, Goto, Phases
  <2>2. CASE Generate \/ ColdStarted \/ EndIteration
    BY <2>2 DEF Generate, Goto, ColdStarted, EndIteration, Skip, GoOn, StartIteration, Phases
  <2>3. CASE Validate
    BY <2>3 DEF Validate, Goto, Skip, GoOn, Phases
  <2>4. CASE FoundBusy
    BY <2>4 DEF FoundBusy, Goto, Phases
  <2>. QED BY <2>1, <2>2, <2>3, <2>4
<1>. QED BY <1>2, <1>3, <1>4 DEF Phases, Calling

\* An iteration gets its status, other than after a logical timeout.
LEMMA ConcludePhases ==
    ASSUME Workers, RunTypes, Phases, UNCHANGED poolVars, Resolved,
           NEW s \in Statuses \ {"query_timeout"}, Conclude(s)
    PROVE  Workers' /\ Phases'
<1>1. Workers' /\ Resolved'
  BY Still DEF Workers
<1>2. pc' = "containers" /\ record' = s
  BY DEF Conclude
<1>. QED BY <1>1, <1>2 DEF Phases, Calling

LEMMA QuietPhases ==
    ASSUME Workers, RunTypes, Phases,
           \/ ResetDone \/ PrepareDone \/ CheckFails \/ Prepared \/ QueryEnds \/ QueryRaises
           \/ PostChecked \/ AllIdle \/ Restarted \/ Killed
    PROVE  Workers' /\ Phases'
<1>1. UNCHANGED poolVars
  BY DEF ResetDone, PrepareDone, CheckFails, Prepared, QueryEnds, QueryRaises, PostChecked, AllIdle, Restarted, Killed
<1>2. /\ Workers'
      /\ Resolved => Resolved'
      /\ \A h \in Hosts : /\ Pending(h)' = Pending(h)
                          /\ Clean(h) => Clean(h)'
                          /\ layout' = layout => (Harmless(h) => Harmless(h)') /\ (Kept(h) => Kept(h)')
  BY <1>1, Still DEF Workers
<1>3. Resolved
  BY DEF ResetDone, PrepareDone, CheckFails, Waiting, Prepared, QueryEnds, QueryRaises, PostChecked,
         AllIdle, Restarted, Killed, Phases, Calling
<1> USE DEF Calling
<1>4. CASE ResetDone \/ PrepareDone
  <2>1. CASE Goto("reset", todo)
    BY <1>2, <1>3, <1>4, <2>1 DEF ResetDone, PrepareDone, Goto, Phases
  <2>2. CASE Goto("prepared", Hosts)
    BY <1>2, <1>3, <1>4, <2>2 DEF ResetDone, PrepareDone, Goto, Phases
  <2>3. CASE \E s \in {"failed", "hard_timeout", "semantic_mismatch", "payload_limit_exceeded"} : Conclude(s)
    <3>1. PICK s \in {"failed", "hard_timeout", "semantic_mismatch", "payload_limit_exceeded"} : Conclude(s)
      BY <2>3
    <3>2. s \in Statuses \ {"query_timeout"}
      BY DEF Statuses
    <3>. QED BY <1>1, <1>3, <3>1, <3>2, ConcludePhases
  <2>. QED BY <1>4, <2>1, <2>2, <2>3 DEF ResetDone, PrepareDone
<1>5. CASE CheckFails \/ QueryRaises \/ PostChecked
  <2>1. PICK s \in {"completed", "failed", "hard_timeout", "incompatible_worker"} : Conclude(s)
    BY <1>5 DEF CheckFails, QueryRaises, PostChecked
  <2>2. s \in Statuses \ {"query_timeout"}
    BY DEF Statuses
  <2>. QED BY <1>1, <1>3, <2>1, <2>2, ConcludePhases
<1>6. CASE Prepared
  BY <1>2, <1>3, <1>6 DEF Prepared, Goto, Phases
<1>7. CASE QueryEnds
  BY <1>2, <1>3, <1>7 DEF QueryEnds, Phases
<1>8. CASE AllIdle
  BY <1>2, <1>3, <1>8 DEF AllIdle, Conclude, Phases
<1>9. CASE Restarted
  BY <1>2, <1>3, <1>9 DEF Restarted, Phases
<1>10. CASE Killed
  BY <1>2, <1>3, <1>10 DEF Killed, Phases
<1>. QED BY <1>2, <1>4, <1>5, <1>6, <1>7, <1>8, <1>9, <1>10

\* A query times out, and nothing is known of any worker.
LEMMA AbortPhases ==
    ASSUME ~LateDelivery, Workers, RunTypes, Phases, Abort
    PROVE  Workers' /\ Phases'
<1>1. Workers' /\ Resolved'
  BY LeftOpen DEF Abort, Workers
<1>. QED BY <1>1 DEF Abort, Goto, Phases, Calling

\* A host is ticked off.
LEMMA HostPhases ==
    ASSUME Workers, RunTypes, Phases, NEW h \in Hosts, Connect(h) \/ CheckHost(h) \/ FoundIdle(h)
    PROVE  Workers' /\ Phases'
<1>1. /\ UNCHANGED <<pc, layout, recovered, record, abandonment>> /\ UNCHANGED poolVars
      /\ todo' = todo \ {h} /\ Idle(h)
  BY DEF Connect, CheckHost, FoundIdle, Goto, accounts
<1>2. /\ Workers'
      /\ Resolved => Resolved'
      /\ \A k \in Hosts : /\ Pending(k)' = Pending(k)
                          /\ Clean(k) => Clean(k)'
                          /\ (Harmless(k) => Harmless(k)') /\ (Kept(k) => Kept(k)')
  BY <1>1, Still DEF Workers
<1>3. pc \in Waiting \cup {"connect", "recovery"} /\ Resolved
  BY DEF Connect, CheckHost, FoundIdle, Waiting, Phases, Calling
<1>4. Clean(h) /\ Pending(h) = {} /\ Harmless(h)
  BY <1>1, <1>3, NobodyWaits DEF Idle, Clean, Harmless, Workers
<1>5. pc = "prepared" => Kept(h)
  BY DEF Connect, CheckHost, FoundIdle, ShowsFragment, Kept
<1>. QED BY <1>1, <1>2, <1>3, <1>4, <1>5 DEF Phases, Calling, Waiting

LEMMA CallPhases ==
    ASSUME Workers, RunTypes, Phases,
           Prepare \/ (\E h \in Hosts : Reset(h)) \/ \E hs \in SUBSET Hosts : StartQuery(hs)
    PROVE  Workers' /\ Phases'
<1> USE DEF Calling
<1>1. Resolved /\ Graph[layout] \in Graphs
  BY CampaignAssumption DEF Prepare, Reset, StartQuery, Phases, RunTypes
<1>2. CASE Prepare
  <2>1. CASE CallAll(Hosts, "prepare", Graph[layout]) /\ Goto("preparing", {})
    <3>1. Workers'
      BY <1>1, <2>1, Called DEF Workers
    <3>. QED BY <1>2, <2>1, <3>1 DEF Prepare, Goto, Phases
  <2>2. CASE (\E s \in {"failed", "payload_limit_exceeded", "semantic_mismatch"} : Conclude(s)) /\ UNCHANGED poolVars
    BY <1>1, <2>2, ConcludePhases DEF Statuses
  <2>. QED BY <1>2, <2>1, <2>2 DEF Prepare
<1>3. ASSUME NEW h \in Hosts, Reset(h)
      PROVE  Workers' /\ Phases'
  <2>1. Workers'
    BY <1>1, <1>3, Called DEF Reset, Workers
  <2>. QED BY <1>3, <2>1 DEF Reset, Goto, Phases
<1>4. ASSUME NEW hs \in SUBSET Hosts, StartQuery(hs)
      PROVE  Workers' /\ Phases'
  <2>1. /\ CallAll(hs, "query", Unloaded) /\ pc = "queries" /\ pc' = "querying" /\ layout' = layout /\ recovered' = recovered
        /\ UNCHANGED <<up, data>>
    BY <1>4 DEF StartQuery, CallAll
  <2>2. /\ Workers'
        /\ \A h \in Hosts : \A q \in Pending(h)' :
              q \in Pending(h) \/ (q.op = "query" /\ q.graph = Unloaded /\ q.client = "waiting")
    <3>1. PoolInv /\ Serving
      BY DEF Workers
    <3>2. ASSUME CallAll(hs, "query", Unloaded)
          PROVE  /\ PoolInv' /\ Serving'
                 /\ \A h \in Hosts : \A q \in Pending(h)' :
                       q \in Pending(h) \/ (q.op = "query" /\ q.graph = Unloaded /\ q.client = "waiting")
                 /\ \A h \in Hosts : Late(h)' => Late(h)
                 /\ \A h \in Hosts : call'[h] = IF h \in hs THEN "open" ELSE "none"
      BY <1>1, <3>1, <3>2, Called
    <3>. QED BY <2>1, <3>2 DEF Workers
  <2>3. \A h \in Hosts : Harmless(h)' /\ Kept(h)'
    BY <2>1, <2>2 DEF Phases, Harmless, Kept
  <2>. QED BY <2>1, <2>2, <2>3 DEF Phases
<1>. QED BY <1>2, <1>3, <1>4

LEMMA RestartPhases ==
    ASSUME Workers, RunTypes, Phases, Accounts, NEW h \in Hosts, RestartHost(h)
    PROVE  Workers' /\ Phases'
<1> USE DEF Calling, Restarting
<1>1. /\ pc \in Restarting /\ UNCHANGED <<pc, layout, record, abandonment>>
      /\ Resolved /\ recovered \subseteq Hosts
  BY DEF RestartHost, accounts, Phases, RunTypes
<1>2. CASE Renew(h)
  <2>1. /\ Workers' /\ Resolved'
        /\ Pending(h)' = {} /\ ~leak'[h]
        /\ \A k \in Hosts \ {h} : Pending(k)' = Pending(k) /\ leak'[k] = leak[k]
    BY <1>1, <1>2, Renewed DEF Workers
  <2>2. Clean(h)' /\ \A k \in Hosts : Clean(k) => Clean(k)'
    BY <2>1 DEF Clean
  <2>3. recovered' \subseteq recovered \cup {h}
    BY DEF RestartHost
  <2>. QED BY <1>1, <2>1, <2>2, <2>3 DEF Phases
<1>3. CASE UNCHANGED poolVars /\ recovered' = recovered
  <2>1. Workers' /\ Resolved' /\ \A k \in Hosts : Clean(k) => Clean(k)'
    BY <1>1, <1>3, Still DEF Workers
  <2>. QED BY <1>1, <1>3, <2>1 DEF Phases
<1>. QED BY <1>2, <1>3 DEF RestartHost

-----------------------------------------------------------------------------
LEMMA Initially == Init => Inv
<1> SUFFICES ASSUME Init PROVE Inv
  OBVIOUS
<1> USE CampaignAssumption, PoolAssumption DEF Init, PoolInit
<1>1. PoolTypes
  BY DEF PoolTypes, Calls
<1>2. RunTypes
  <2>1. queryFailures \in BOOLEAN /\ abandonment \in BOOLEAN
    OBVIOUS
  <2>2. failures \in BOOLEAN /\ limited \in BOOLEAN
    OBVIOUS
  <2>3. layout \in 1 .. Layouts /\ iteration \in 0 .. Iterations /\ asked \in 0 .. MaxQueries /\ unharmed \in Nat
    OBVIOUS
  <2>. QED BY <2>1, <2>2, <2>3 DEF RunTypes
<1>3. \A h \in Hosts : OneWaiting(h)
  BY DEF OneWaiting, Pending, Requests
<1>4. Serving /\ Phases
  BY DEF Serving, Phases, Resolved, Calling
<1>5. Accounts
  <2>1. Past = 0
    BY Blocks DEF Past
  <2>. QED BY <2>1 DEF Accounts, Iterating, Concluded
<1>. QED BY <1>1, <1>2, <1>3, <1>4, <1>5 DEF Inv, PoolInv

LEMMA BooksKept == RunTypes /\ Accounts /\ [Next]_vars => RunTypes' /\ Accounts'
<1> SUFFICES ASSUME RunTypes, Accounts, [Next]_vars
             PROVE  RunTypes' /\ Accounts'
  OBVIOUS
<1>1. CASE Runner
  BY <1>1, AccountsKept, RunTypesKept
<1>2. CASE UNCHANGED runVars
  BY <1>2 DEF runVars, accounts, tally, RunTypes, Accounts, Past
<1>. QED BY <1>1, <1>2 DEF Next, vars

LEMMA InvKept ==
    ASSUME ~LateDelivery, Inv, [Next]_vars
    PROVE  Inv'
<1>1. Workers /\ RunTypes /\ Phases /\ Accounts
  BY DEF Inv, Workers
<1>2. SUFFICES Workers' /\ Phases'
  BY <1>1, BooksKept DEF Inv, Workers
<1>3. CASE PoolStep /\ UNCHANGED runVars
  <2>1. Workers' /\ \A h \in Hosts : Evolves(h)
    BY <1>1, <1>3, PoolStepEvolves DEF Workers
  <2>. QED BY <1>1, <1>3, <2>1, PhasesEvolve
<1>4. CASE Runner
  BY <1>1, <1>4, BetweenPhases, QuietPhases, AbortPhases, HostPhases, CallPhases, RestartPhases DEF Runner
<1>5. CASE UNCHANGED vars
  <2>1. UNCHANGED poolVars /\ UNCHANGED <<pc, layout, todo, recovered, record, abandonment>>
    BY <1>5 DEF vars, runVars, accounts
  <2>2. Workers' /\ (Resolved => Resolved')
    BY <1>1, <2>1, Still DEF Workers
  <2>3. \A h \in Hosts : /\ Pending(h)' = Pending(h)
                         /\ Clean(h) => Clean(h)'
                         /\ (Harmless(h) => Harmless(h)') /\ (Kept(h) => Kept(h)')
    BY <2>1, Still
  <2>. QED BY <1>1, <2>1, <2>2, <2>3 DEF Phases, Calling, RunTypes
<1>. QED BY <1>3, <1>4, <1>5 DEF Next

\* The invariant holds throughout, if late requests are never delivered.
THEOREM InvHolds ==
    ASSUME ~LateDelivery
    PROVE  Spec => []Inv
<1>1. Inv /\ [Next]_vars => Inv'
  BY InvKept
<1>. QED BY <1>1, Initially, PTL DEF Spec

\* Every variable keeps to its type.
THEOREM TypeCorrect ==
    ASSUME ~LateDelivery
    PROVE  Spec => []TypeOK
<1>1. Inv => TypeOK
  BY DEF Inv, PoolInv, TypeOK
<1>. QED BY <1>1, InvHolds, PTL

\* The catalog of every iteration is asked of the fragments of its layout.
THEOREM Measured ==
    ASSUME ~LateDelivery
    PROVE  Spec => []OwnFragments
<1>1. Inv => OwnFragments
  BY DEF Inv, Phases, Kept, OwnFragments
<1>. QED BY <1>1, InvHolds, PTL

LEMMA NothingPending ==
    ASSUME PoolInv, NEW h \in Hosts, Pending(h) = {}
    PROVE  line[h] = <<>> /\ transit[h] = {}
<1>1. line[h] \in Seq(Request) /\ Requests(h) = {}
  BY DEF PoolInv, PoolTypes, Pending
<1>2. Len(line[h]) \in Nat /\ DOMAIN line[h] = 1 .. Len(line[h])
  BY <1>1
<1>3. 1 \notin DOMAIN line[h]
  BY <1>1 DEF Requests
<1>4. Len(line[h]) = 0
  BY <1>2, <1>3
<1>. QED BY <1>1, <1>4 DEF Pending

\* When the checks after the catalog are through, no worker has anything left.
THEOREM PostChecks ==
    ASSUME ~LateDelivery
    PROVE  Spec => []PostCheckIsSound
<1>1. Inv => PostCheckIsSound
  BY NothingPending DEF Inv, Phases, PostCheckIsSound
<1>. QED BY <1>1, InvHolds, PTL

\* The first iteration of a layout, and one after a logical timeout, starts
\* with workers that have nothing left to do and report it.
THEOREM CleanStarts ==
    ASSUME ~LateDelivery
    PROVE  Spec => StartsClean
<1> DEFINE Start == StartIteration /\ (iteration = 0 \/ record = "query_timeout")
           Spotless == \A h \in Hosts : line[h] = <<>> /\ transit[h] = {} /\ ~leak[h]
<1>1. ASSUME Inv, [Next]_vars, Start
      PROVE  Spotless
  <2>1. /\ iteration' = iteration + 1 /\ iteration \in Nat /\ pc' = "reset"
        /\ PoolInv /\ RunTypes /\ Phases /\ Accounts
    BY <1>1, CampaignAssumption DEF StartIteration, Inv, RunTypes
  <2>2. iteration' # iteration /\ iteration' # 0
    BY <2>1
  <2>3. Runner
    BY <1>1, <2>2 DEF Next, vars, runVars
  <2>4. \/ pc = "cold" /\ recovered = Hosts
        \/ EndIteration
    <3>1. ~Quiet /\ ~Concluding /\ ~ConnectFails /\ ~Restarted /\ ~Killed
      BY <2>1, <2>2 DEF Quiet, Concluding, Conclude, ConnectFails, Restarted, Killed
    <3>2. ~Skipping
      BY <2>2 DEF Skipping, Skip, GoOn
    <3>. QED BY <2>3, <3>1, <3>2, RunnerSteps
  <2>5. \A h \in Hosts : Clean(h)
    <3>1. CASE pc = "cold" /\ recovered = Hosts
      BY <2>1, <3>1 DEF Phases
    <3>2. CASE EndIteration
      <4>1. ~abandonment
        BY <2>2, <3>2 DEF EndIteration, GoOn
      <4>2. pc \in Concluded
        BY <3>2 DEF EndIteration, Concluded
      <4>3. iteration # 0
        BY <2>1, <4>2 DEF Accounts
      <4>4. record = "query_timeout" /\ pc = "containers"
        BY <1>1, <2>1, <4>2, <4>3 DEF Accounts, Concluded
      <4>. QED BY <2>1, <4>1, <4>4 DEF Phases
    <3>. QED BY <2>4, <3>1, <3>2
  <2>. QED BY <2>1, <2>5, NothingPending DEF Clean
<1>2. Inv /\ [Next]_vars => [Start => Spotless]_vars
  BY <1>1
<1>. QED BY <1>2, InvHolds, PTL DEF Spec, StartsClean

\* The manifest is true of all layouts and iterations, even if late requests
\* are delivered: the accounts depend on the runner alone.
THEOREM Truthful == Spec => []ManifestIsTruthful
<1>1. Init => RunTypes /\ Accounts
  BY Initially DEF Inv
<1>2. Accounts => ManifestIsTruthful
  BY DEF Accounts, ManifestIsTruthful
<1>. QED BY <1>1, <1>2, BooksKept, PTL DEF Spec
=============================================================================
