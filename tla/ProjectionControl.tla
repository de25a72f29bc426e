-------------------------- MODULE ProjectionControl --------------------------
(***************************************************************************)
(* The pause flag and drain() (cognitive/projection_control.py), composed  *)
(* with the workers.  run_once reads the flag in one statement and claims  *)
(* in later ones, so a pause may land in between.  drain() is a worker of  *)
(* its own, built without the flag; it runs batches until nothing is       *)
(* outstanding or its deadline passes, and then states an outcome.         *)
(***************************************************************************)
EXTENDS ReconciliationWorker

CONSTANTS
    Drainer,    \* the worker drain() runs
    MaxPauses,  \* bound: calls of pause()
    MaxDrains   \* bound: calls of drain()

ASSUME ControlAssumption ==
    /\ Drainer \in Workers
    /\ {MaxPauses, MaxDrains} \subseteq Nat

VARIABLES
    paused,   \* projection_control: the global row
    polled,   \* workers that have read the flag and not claimed since
    draining, \* drain() is running
    outcome,  \* the last outcome, while nothing was appended after it
    pauses, drains

controlVars == <<paused, polled, draining, outcome, pauses, drains>>
controlAllVars == <<vars, controlVars>>

ControlTypeOK ==
    /\ TypeOK
    /\ paused \in BOOLEAN
    /\ polled \subseteq Workers
    /\ draining \in BOOLEAN
    /\ outcome \in {"none", "complete", "unresolved"}
    /\ pauses \in 0..MaxPauses
    /\ drains \in 0..MaxDrains

ControlInit ==
    /\ Init
    /\ paused = FALSE
    /\ polled = {}
    /\ draining = FALSE
    /\ outcome = "none"
    /\ pauses = 0
    /\ drains = 0

-----------------------------------------------------------------------------
Pause ==
    /\ ~paused
    /\ pauses < MaxPauses
    /\ writer = Nobody
    /\ paused' = TRUE
    /\ pauses' = pauses + 1
    /\ UNCHANGED <<vars, polled, draining, outcome, drains>>

Resume ==
    /\ paused
    /\ writer = Nobody
    /\ paused' = FALSE
    /\ UNCHANGED <<vars, polled, draining, outcome, pauses, drains>>

\* Mutant: a worker with a tenant of its own does not look at the global row.
PausedOwnScope(w) == FALSE

\* paused(): a worker without the flag never sees a pause.
Paused(w) == w # Drainer /\ paused

\* run_once up to its claim.
Poll(w) ==
    /\ pc[w] = "idle"
    /\ w \notin polled
    /\ ~Paused(w)
    /\ w = Drainer => draining
    /\ polled' = polled \cup {w}
    /\ UNCHANGED <<vars, paused, draining, outcome, pauses, drains>>

PolledClaim(w) ==
    /\ w \in polled
    /\ Claim(w)
    /\ polled' = polled \ {w}
    /\ UNCHANGED <<paused, draining, outcome, pauses, drains>>

\* The claim finds nothing, and run_once returns.
EmptyClaim(w) ==
    /\ w \in polled
    /\ {j \in Jobs : Claimable(j)} \ Yielding = {}
    /\ polled' = polled \ {w}
    /\ UNCHANGED <<vars, paused, draining, outcome, pauses, drains>>

BatchStep(w) ==
    /\ pc[w] # "idle"
    /\ WorkerStep(w)
    /\ UNCHANGED controlVars

StartDrain ==
    /\ ~draining
    /\ drains < MaxDrains
    /\ pc[Drainer] = "idle"
    /\ draining' = TRUE
    /\ drains' = drains + 1
    /\ outcome' = "none"
    /\ UNCHANGED <<vars, paused, polled, pauses>>

\* Mutant: a job somebody has claimed counts as done.
OutstandingPending == {j \in Jobs : jobs[j].status = "pending"}

Outstanding == {j \in Jobs : Unsettled(j)}

\* The loop ends on an empty queue or at the deadline; the outcome is read
\* from the queue as it is then.
FinishDrain ==
    /\ draining
    /\ pc[Drainer] = "idle"
    /\ draining' = FALSE
    /\ polled' = polled \ {Drainer}
    /\ outcome' = IF Outstanding = {} THEN "complete" ELSE "unresolved"
    /\ UNCHANGED <<vars, paused, pauses, drains>>

\* An append that commits owes new work, and an old outcome says nothing of it.
AppendStep ==
    /\ Appending
    /\ outcome' = IF jobs' = jobs THEN outcome ELSE "none"
    /\ UNCHANGED <<paused, polled, draining, pauses, drains>>

WorkerHalts(w) ==
    /\ CrashWorker(w) \/ StopWorker(w)
    /\ polled' = polled \ {w}
    /\ draining' = (draining /\ w # Drainer)
    /\ UNCHANGED <<paused, outcome, pauses, drains>>

Elsewhere ==
    /\ (\E j \in Jobs : TimePasses(j)) \/ AppendDies
    /\ UNCHANGED controlVars

ControlNext ==
    \/ Pause
    \/ Resume
    \/ \E w \in Workers : \/ Poll(w)
                          \/ PolledClaim(w)
                          \/ EmptyClaim(w)
                          \/ BatchStep(w)
                          \/ WorkerHalts(w)
    \/ StartDrain
    \/ FinishDrain
    \/ AppendStep
    \/ Elsewhere

ControlSpec == ControlInit /\ [][ControlNext]_controlAllVars

\* Workers keep polling; whoever pauses also resumes, or drains.
ControlFairness ==
    /\ \A w \in Workers : WF_controlAllVars(PolledClaim(w) \/ EmptyClaim(w) \/ BatchStep(w))
    /\ \A j \in Jobs : WF_controlAllVars(TimePasses(j) /\ UNCHANGED controlVars)
    /\ WF_controlAllVars(append.event # NoEvent /\ AppendStep)

FairControlSpec == ControlSpec /\ ControlFairness

-----------------------------------------------------------------------------
(* Properties. *)

\* A drain that reports completion tells the truth for as long as nothing is
\* appended: no worker is left that could put a job back, paused or not.
DrainedIsIdle ==
    outcome = "complete" =>
        /\ \A j \in Jobs : ~Unsettled(j)
        /\ \A w \in Workers : pc[w] = "idle"

\* "Checked between claims, never inside one": under a pause that stands, every
\* batch already claimed runs to its end and then nobody claims, or even polls,
\* again.
PauseQuiesces ==
    <>[](paused /\ ~draining) =>
        <>[](\A w \in Workers : pc[w] = "idle" /\ w \notin polled)
=============================================================================
