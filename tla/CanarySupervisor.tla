--------------------------- MODULE CanarySupervisor ---------------------------
(***************************************************************************)
(* One run of scripts/canary_supervisor.py: the loop that samples, judges, *)
(* replaces dead children and fires each scheduled recovery once, and the  *)
(* `finally` block that drains the queue, stops the workers, reports and   *)
(* rolls back.  Producers and workers (staging_canary.py) are a set of     *)
(* slots each, and the queue they share is a number of jobs.               *)
(***************************************************************************)
EXTENDS Integers, FiniteSets

CONSTANTS
    Producers,   \* slots of the producers
    Slots,       \* slots of the shadow workers
    FirstSlot, LastSlot, \* workers[0] and workers[-1]
    MaxQueue,    \* bound: jobs owed at a time
    MaxDeaths,   \* bound: children that die by themselves
    Failing      \* the recoveries that may raise

Recoveries == {"worker_restart", "kill_lease_holder", "pause_and_drain",
               "full_runtime_restart", "probe"}  \* probe: those that change nothing

ASSUME CanaryAssumption ==
    /\ {FirstSlot, LastSlot} \subseteq Slots
    /\ {MaxQueue, MaxDeaths} \subseteq Nat
    /\ Failing \subseteq Recoveries

VARIABLES
    spc,       \* where the supervisor is
    recovery,  \* the recovery that is running
    fired,     \* recoveries that have been fired
    producing, \* producers that are alive
    stragglers, \* producers that outlived the join: its timeout passed first
    working,   \* workers that are alive
    managing,  \* slots whose spec says manage_wal
    halted,    \* projection_control: paused
    queue,     \* jobs pending or in progress
    reason,    \* why the loop ended
    drained,   \* the verdict of the final drain
    rolledBack,
    childDeaths    \* children that died by themselves

canaryVars == <<spc, recovery, fired, producing, working, managing, halted,
                queue, stragglers, reason, drained, rolledBack, childDeaths>>
children == <<producing, working, managing, halted, queue, childDeaths>>
ending == <<stragglers, reason, drained, rolledBack>>

CanaryTypeOK ==
    /\ spc \in {"boot", "loop", "fire", "recover", "joining", "draining", "report",
                "done", "raised"}
    /\ recovery \in Recoveries \cup {"none"}
    /\ fired \subseteq Recoveries
    /\ producing \subseteq Producers /\ stragglers \subseteq Producers
    /\ working \subseteq Slots /\ managing \subseteq Slots
    /\ {halted, drained, rolledBack} \subseteq BOOLEAN
    /\ queue \in 0..MaxQueue
    /\ reason \in {"none", "deadline", "fatal", "signal", "exception"}
    /\ childDeaths \in 0..MaxDeaths

CanaryInit ==
    /\ spc = "boot" /\ recovery = "none" /\ fired = {}
    /\ producing = {} /\ stragglers = {} /\ working = {} /\ managing = {}
    /\ halted = FALSE
    /\ queue = 0
    /\ reason = "none" /\ drained = FALSE /\ rolledBack = FALSE
    /\ childDeaths = 0

-----------------------------------------------------------------------------
(* The children. *)

Produce ==
    /\ producing # {} /\ queue < MaxQueue
    /\ queue' = queue + 1
    /\ UNCHANGED <<spc, recovery, fired, producing, working, managing, halted,
                   ending, childDeaths>>

Project ==
    /\ working # {} /\ ~halted /\ queue > 0
    /\ queue' = queue - 1
    /\ UNCHANGED <<spc, recovery, fired, producing, working, managing, halted,
                   ending, childDeaths>>

\* A producer looks at its stop event before every observation.
ProducerLeaves ==
    /\ spc \in {"draining", "report", "done", "raised"}
    /\ \E p \in producing : producing' = producing \ {p}
    /\ UNCHANGED <<spc, recovery, fired, working, managing, halted, queue,
                   ending, childDeaths>>

ChildDies ==
    /\ childDeaths < MaxDeaths
    /\ childDeaths' = childDeaths + 1
    /\ \/ \E p \in producing : producing' = producing \ {p} /\ UNCHANGED working
       \/ \E w \in working : working' = working \ {w} /\ UNCHANGED producing
    /\ UNCHANGED <<spc, recovery, fired, managing, halted, queue, ending>>

-----------------------------------------------------------------------------
(* run(): the loop. *)

Boot ==
    /\ spc = "boot"
    /\ spc' = "loop"
    /\ producing' = Producers /\ working' = Slots /\ managing' = {FirstSlot}
    /\ UNCHANGED <<recovery, fired, halted, queue, ending, childDeaths>>

\* A sample replaces what died, by the spec it died with, and is then judged.
Sample ==
    /\ spc = "loop"
    /\ producing' = Producers /\ working' = Slots
    /\ \/ spc' = "fire" /\ UNCHANGED reason
       \/ spc' = "joining" /\ reason' = "fatal"
    /\ UNCHANGED <<recovery, fired, managing, halted, queue, stragglers, drained,
                   rolledBack, childDeaths>>

\* The deadline, or a signal, which sets the producers' stop event.
LoopEnds ==
    /\ spc = "loop"
    /\ spc' = "joining"
    /\ reason' \in {"deadline", "signal"}
    /\ UNCHANGED <<recovery, fired, children, stragglers, drained, rolledBack>>

\* Recoveries that are due fire one after another, each once.
Fire(kind) ==
    /\ spc = "fire"
    /\ kind \notin fired
    /\ fired' = fired \cup {kind}
    /\ recovery' = kind
    /\ spc' = "recover"
    /\ CASE kind = "worker_restart" -> working' = working \ {FirstSlot}
                                       /\ UNCHANGED <<producing, halted>>
         [] kind = "kill_lease_holder" -> working' = working \ {LastSlot}
                                          /\ UNCHANGED <<producing, halted>>
         [] kind = "pause_and_drain" -> halted' = TRUE
                                        /\ UNCHANGED <<producing, working>>
         [] kind = "full_runtime_restart" -> working' = {} /\ producing' = {}
                                             /\ UNCHANGED halted
         [] kind = "probe" -> UNCHANGED <<producing, working, halted>>
    /\ UNCHANGED <<managing, queue, ending, childDeaths>>

NothingDue ==
    /\ spc = "fire"
    /\ spc' = "loop"
    /\ UNCHANGED <<recovery, fired, children, ending>>

\* Mutant: a restarted worker 0 does not manage the WAL.
RespawnedUnmanaged(i, manage) == managing \ {i}

\* _spawn_worker: the slot's spec is written anew.
Respawned(i, manage) == IF manage THEN managing \cup {i} ELSE managing \ {i}

Lifted(kind) == halted /\ kind # "pause_and_drain"

RecoveryEnds ==
    /\ spc = "recover"
    /\ spc' = "fire"
    /\ recovery' = "none"
    /\ halted' = Lifted(recovery)
    /\ CASE recovery = "worker_restart" -> working' = working \cup {FirstSlot}
                                           /\ managing' = Respawned(FirstSlot, TRUE)
                                           /\ UNCHANGED producing
         [] recovery = "kill_lease_holder" -> working' = working \cup {LastSlot}
                                              /\ managing' = Respawned(LastSlot, FALSE)
                                              /\ UNCHANGED producing
         [] recovery = "full_runtime_restart" -> working' = Slots
                                                 /\ managing' = {FirstSlot}
                                                 /\ producing' = Producers
         [] OTHER -> UNCHANGED <<producing, working, managing>>
    /\ UNCHANGED <<fired, queue, ending, childDeaths>>

\* It raises.  The handler names a module the file never imports, and the
\* NameError leaves the loop: only the finally block runs.
RecoveryRaises ==
    /\ spc = "recover"
    /\ recovery \in Failing
    /\ spc' = "joining"
    /\ recovery' = "none"
    /\ reason' = "exception"
    /\ UNCHANGED <<fired, children, stragglers, drained, rolledBack>>

-----------------------------------------------------------------------------
(* The finally block. *)

\* Mutant: the workers are told to stop together with the producers.
JoinEverybody ==
    /\ spc = "joining"
    /\ spc' = "draining"
    /\ stragglers' \in SUBSET producing
    /\ producing' = stragglers' /\ working' = {}
    /\ UNCHANGED <<recovery, fired, managing, halted, queue, reason, drained,
                   rolledBack, childDeaths>>

\* The stop event is set and every producer is joined for two minutes; whether
\* it ended is not looked at.
JoinProducers ==
    /\ spc = "joining"
    /\ spc' = "draining"
    /\ stragglers' \in SUBSET producing
    /\ producing' = stragglers'
    /\ UNCHANGED <<recovery, fired, working, managing, halted, queue, reason, drained,
                   rolledBack, childDeaths>>

\* Mutant: the fifteen minutes are over, and that counts as drained.
ConcludeInTime ==
    /\ spc = "draining"
    /\ spc' = "report"
    /\ drained' = TRUE
    /\ queue = 0 \/ halted \/ working = {}
    /\ working' = {}
    /\ UNCHANGED <<recovery, fired, producing, managing, halted, queue, stragglers,
                   reason, rolledBack, childDeaths>>

\* An empty queue, or fifteen minutes, which are enough for workers that can
\* work and for a straggler to look at its stop event; then the workers stop.
ConcludeDrain ==
    /\ spc = "draining"
    /\ spc' = "report"
    /\ \/ queue = 0 /\ drained' = TRUE
       \/ queue > 0 /\ (halted \/ working = {}) /\ drained' = FALSE
    /\ working' = {}
    /\ UNCHANGED <<recovery, fired, producing, managing, halted, queue, stragglers,
                   reason, rolledBack, childDeaths>>

\* The sweep or the doctor raises, and nothing after it runs.
ReportRaises ==
    /\ spc = "report"
    /\ "probe" \in Failing
    /\ spc' = "raised"
    /\ UNCHANGED <<recovery, fired, children, ending>>

\* _rollback_to_legacy pauses the projections, and leaves a marker.
Conclude ==
    /\ spc = "report"
    /\ spc' = "done"
    /\ rolledBack' = (reason = "fatal")
    /\ halted' = (halted \/ reason = "fatal")
    /\ UNCHANGED <<recovery, fired, producing, working, managing, queue, stragglers,
                   reason, drained, childDeaths>>

Supervise ==
    \/ Boot \/ Sample \/ LoopEnds
    \/ \E kind \in Recoveries : Fire(kind)
    \/ NothingDue \/ RecoveryEnds \/ RecoveryRaises
    \/ JoinProducers \/ ConcludeDrain \/ ReportRaises \/ Conclude

CanaryNext == Produce \/ Project \/ ProducerLeaves \/ ChildDies \/ Supervise

CanarySpec == CanaryInit /\ [][CanaryNext]_canaryVars

\* Workers work, producers come to look at their stop event, and the supervisor
\* goes on; the deadline comes.
CanaryFairness ==
    /\ WF_canaryVars(Supervise)
    /\ WF_canaryVars(Project)
    /\ WF_canaryVars(ProducerLeaves)
    /\ SF_canaryVars(LoopEnds)

-----------------------------------------------------------------------------
(* Properties. *)

\* However workers die, are killed and are replaced, the specs in use name one
\* worker that manages the WAL.
OneManager == spc # "boot" => managing = {FirstSlot}

\* Where a drain is reported the queue is empty and stays empty, whoever died
\* before or during it, unless a producer outlived its join: stragglers, and
\* nobody else, still write behind it.  And the pause of a scheduled recovery is
\* lifted again, so that a run that ends neither in a rollback nor in an
\* exception leaves the projections running.
EndsClean ==
    /\ spc \in {"draining", "report", "done", "raised"} => producing \subseteq stragglers
    /\ drained => queue = 0 \/ stragglers # {}
    /\ spc = "done" /\ halted => reason \in {"fatal", "exception"}

\* "Producers are gone and the workers are deliberately still running": a
\* producer whose join timed out is not gone when the drain begins.
ProducersGone == spc = "draining" => producing = {}

\* "The queue has to reach zero on its own": workers stay up behind the
\* producers, so it does, unless as many children died as there are workers
\* or a recovery that raised left its pause or its restart half done.
DrainsByItself ==
    spc = "draining" ~>
        (queue = 0 \/ childDeaths >= Cardinality(Slots) \/ reason = "exception")

\* "Correctness breaks stop the run; latency breaks do not", nor do recoveries
\* that fail: the loop ends at its deadline, on a signal or on a fatal breach.
OnlyFatalStopsRun == reason # "exception"
=============================================================================
