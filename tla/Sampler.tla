--------------------------------- MODULE Sampler ----------------------------------
(***************************************************************************)
(* The resource sampler of one repetition (resources.py): the sampling     *)
(* thread takes a sample on every host per round, in a pool of threads,    *)
(* and records each as it comes; the runner's thread announces phases and  *)
(* finally leaves the sampler.  They share the phase, the file and a lock. *)
(*                                                                         *)
(* A row of the file keeps what the properties compare: the label, and for *)
(* a sample its host and the phase in which it was taken.                  *)
(***************************************************************************)
EXTENDS Integers, Sequences, FiniteSets, FiniteSetsExt

CONSTANTS
    Hosts,
    Phases,
    Unassigned,   \* the label before the first phase
    NoHost,       \* in the rows of phase events
    MaxRounds,    \* bound of the model: rounds of the sampling thread
    MaxSwitches   \* bound of the model: calls of set_phase

ASSUME SamplerAssumption ==
    /\ IsFiniteSet(Hosts) /\ NoHost \notin Hosts
    /\ Unassigned \notin Phases
    /\ MaxRounds \in Nat /\ MaxSwitches \in Nat

VARIABLES
    runner,    \* where the runner's thread is
    target,    \* argument of set_phase
    sampler,   \* where the sampling thread is
    probe,     \* the future of each host's sample
    takenIn,   \* the phase in which it was taken
    rounds, switches,
    stop,      \* stop_event
    lock,      \* the thread that holds _lock
    phase,     \* _phase
    open,      \* _handle is not None
    file

runnerVars == <<runner, target, switches>>
probeVars == <<probe, takenIn>>
samplerVars == <<runnerVars, sampler, probeVars, rounds, stop, lock, phase, open, file>>

Labels == Phases \cup {Unassigned}

\* __enter__
SamplerInit ==
    /\ runner = "running" /\ target = Unassigned
    /\ sampler = "waiting"
    /\ probe = [h \in Hosts |-> "off"] /\ takenIn = [h \in Hosts |-> Unassigned]
    /\ rounds = 0 /\ switches = 0
    /\ stop = FALSE
    /\ lock = "free"
    /\ phase = Unassigned
    /\ open = TRUE
    /\ file = <<>>

PhaseEvent(kind, p) == [row |-> kind, label |-> p, host |-> NoHost, taken |-> p]
SampleRow(h) == [row |-> "sample", label |-> phase, host |-> h, taken |-> takenIn[h]]

-----------------------------------------------------------------------------
(***************************************************************************)
(* set_phase                                                               *)
(***************************************************************************)
CallSetPhase(p) ==
    /\ runner = "running" /\ switches < MaxSwitches
    /\ runner' = "setPhase" /\ target' = p
    /\ switches' = switches + 1
    /\ UNCHANGED <<sampler, probeVars, rounds, stop, lock, phase, open, file>>

\* The same phase again is no event.
EnterSetPhase ==
    /\ runner = "setPhase" /\ lock = "free"
    /\ IF target = phase
       THEN runner' = "running" /\ UNCHANGED <<lock, file>>
       ELSE /\ runner' = "assign" /\ lock' = "runner"
            /\ file' = IF phase = Unassigned THEN file ELSE Append(file, PhaseEvent("end", phase))
    /\ UNCHANGED <<target, switches, sampler, probeVars, rounds, stop, phase, open>>

AssignPhase ==
    /\ runner = "assign"
    /\ phase' = target
    /\ runner' = "announce"
    /\ UNCHANGED <<target, switches, sampler, probeVars, rounds, stop, lock, open, file>>

AnnouncePhase ==
    /\ runner = "announce"
    /\ file' = Append(file, PhaseEvent("start", phase))
    /\ lock' = "free"
    /\ runner' = "running"
    /\ UNCHANGED <<target, switches, sampler, probeVars, rounds, stop, phase, open>>

-----------------------------------------------------------------------------
(***************************************************************************)
(* __exit__                                                                *)
(***************************************************************************)
Exit ==
    /\ runner = "running"
    /\ stop' = TRUE
    /\ runner' = "joining"
    /\ UNCHANGED <<target, switches, sampler, probeVars, rounds, lock, phase, open, file>>

\* Mutant: join() without a timeout.
JoinedForCertain == runner = "joining" /\ sampler \in {"ended", "dead"}

\* The sampling thread has ended, or the timeout of join has passed.
Joined == runner = "joining"

Close ==
    /\ Joined
    /\ lock = "free"
    /\ file' = IF phase = Unassigned THEN file ELSE Append(file, PhaseEvent("end", phase))
    /\ open' = FALSE
    /\ runner' = "left"
    /\ UNCHANGED <<target, switches, sampler, probeVars, rounds, stop, lock, phase>>

-----------------------------------------------------------------------------
(***************************************************************************)
(* _run and the samples of its pool                                        *)
(***************************************************************************)
\* Between two rounds: the interval may be cut short by the event.
StartRound ==
    /\ sampler = "waiting" /\ ~stop
    /\ rounds < MaxRounds
    /\ rounds' = rounds + 1
    /\ probe' = [h \in Hosts |-> "running"]
    /\ sampler' = "collecting"
    /\ UNCHANGED <<runnerVars, takenIn, stop, lock, phase, open, file>>

EndThread ==
    /\ sampler = "waiting" /\ stop
    /\ sampler' = "ended"
    /\ UNCHANGED <<runnerVars, probeVars, rounds, stop, lock, phase, open, file>>

\* The command on the host ends, with statistics or an error.
Take(h) ==
    /\ probe[h] = "running"
    /\ probe' = [probe EXCEPT ![h] = "ready"]
    /\ takenIn' = [takenIn EXCEPT ![h] = phase]
    /\ UNCHANGED <<runnerVars, sampler, rounds, stop, lock, phase, open, file>>

\* Mutant: a sample is recorded without the lock.
MayRecordUnlocked == sampler = "collecting"

MayRecord == sampler = "collecting" /\ lock = "free"

\* Mutant: a recorded sample is yielded again.
YieldedAgain(h) == UNCHANGED probe

Yielded(h) == probe' = [probe EXCEPT ![h] = "off"]

\* as_completed yields a future, _record_sample writes its row.
Record(h) ==
    /\ MayRecord
    /\ probe[h] = "ready" /\ open
    /\ file' = Append(file, SampleRow(h))
    /\ Yielded(h)
    /\ UNCHANGED <<runnerVars, sampler, takenIn, rounds, stop, lock, phase, open>>

\* The sampler was left: _emit_locked raises, and the exception leaves the
\* pool, which waits for its other samples, and then the thread.
RecordRaises(h) ==
    /\ MayRecord
    /\ probe[h] = "ready" /\ ~open
    /\ sampler' = "raising"
    /\ UNCHANGED <<runnerVars, probeVars, rounds, stop, lock, phase, open, file>>

Die ==
    /\ sampler = "raising"
    /\ \A h \in Hosts : probe[h] # "running"
    /\ sampler' = "dead"
    /\ UNCHANGED <<runnerVars, probeVars, rounds, stop, lock, phase, open, file>>

\* Mutant: the round is given up when the event is set.
CollectedOrStopped == stop \/ \A h \in Hosts : probe[h] = "off"

Collected == \A h \in Hosts : probe[h] = "off"

EndRound ==
    /\ sampler = "collecting"
    /\ Collected
    /\ sampler' = "waiting"
    /\ UNCHANGED <<runnerVars, probeVars, rounds, stop, lock, phase, open, file>>

-----------------------------------------------------------------------------
RunnerStep == (\E p \in Phases : CallSetPhase(p)) \/ EnterSetPhase \/ AssignPhase \/ AnnouncePhase \/ Exit \/ Close

SamplingStep == StartRound \/ EndThread \/ Die \/ EndRound \/ \E h \in Hosts : Record(h) \/ RecordRaises(h)

SamplerNext == RunnerStep \/ SamplingStep \/ \E h \in Hosts : Take(h)

SamplerSpec == SamplerInit /\ [][SamplerNext]_samplerVars

\* The runner's thread is scheduled; the sampling thread owes nothing.
FairSampler == SamplerSpec /\ WF_samplerVars(RunnerStep)

-----------------------------------------------------------------------------
(***************************************************************************)
(* Properties                                                              *)
(***************************************************************************)
SamplerTypes ==
    /\ runner \in {"running", "setPhase", "assign", "announce", "joining", "left"}
    /\ target \in Labels /\ phase \in Labels
    /\ sampler \in {"waiting", "collecting", "raising", "ended", "dead"}
    /\ probe \in [Hosts -> {"off", "running", "ready"}] /\ takenIn \in [Hosts -> Labels]
    /\ rounds \in Nat /\ switches \in Nat
    /\ stop \in BOOLEAN /\ open \in BOOLEAN
    /\ lock \in {"free", "runner"}
    /\ file \in Seq([row : {"start", "end", "sample"}, label : Labels, host : Hosts \cup {NoHost}, taken : Labels])

IsEvent(i) == file[i].row # "sample"

\* The phase that the rows before row n leave open.
OpenAfter(n) ==
    LET events == {i \in 1 .. n : IsEvent(i)}
    IN IF events = {} \/ file[Max(events)].row = "end" THEN Unassigned ELSE file[Max(events)].label

\* "Phase-start/end events make the timeline reconstructable" (BENCHMARK.md:21):
\* phases are opened and closed alternately, every sample carries the phase
\* that is open where it stands, and a file that is closed leaves none open.
Bracketed ==
    /\ \A i \in 1 .. Len(file) :
          CASE file[i].row = "start"  -> OpenAfter(i - 1) = Unassigned
            [] file[i].row = "end"    -> OpenAfter(i - 1) = file[i].label
            [] file[i].row = "sample" -> OpenAfter(i - 1) = file[i].label
    /\ ~open => OpenAfter(Len(file)) = Unassigned

\* A sample may be labelled with a later phase than the one it was taken in,
\* but only the first sample of its host in the phase.
OnlyFirstIsStale ==
    \A i, j \in 1 .. Len(file) :
        /\ i < j
        /\ file[i].row = "sample" /\ file[j].row = "sample"
        /\ file[i].host = file[j].host
        /\ \A k \in i .. j : ~IsEvent(k)
        => file[j].taken = file[j].label

Samples(h) == Cardinality({i \in 1 .. Len(file) : file[i].host = h})

\* Partial failures are preserved (RESULTS.md:3): when the sampling thread was
\* joined, the file has a row for every host of every round; and even when it
\* was not, the hosts stay in step, so that the n-th samples of all hosts, whose
\* memory reports add up (continuous_monitoring/reporting.py:66), are of one round.
NothingIsLost ==
    /\ sampler = "ended" => \A h \in Hosts : Samples(h) = rounds
    /\ \A g, h \in Hosts : Samples(g) <= Samples(h) + 1

\* Leaving the sampler takes a bounded time, whatever happens on the hosts.
ExitReturns == runner = "joining" ~> runner = "left"
=============================================================================
