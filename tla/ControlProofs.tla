--------------------------- MODULE ControlProofs ---------------------------
(***************************************************************************)
(* What is proved of the pause flag and of drain(): they add no step to    *)
(* the queue that the workers do not take already, so all that holds of    *)
(* the workers holds under them; and a drain that reports completion tells *)
(* the truth for as long as nothing is appended.                           *)
(***************************************************************************)
EXTENDS ProjectionControl, ExactlyOnceProofs

-----------------------------------------------------------------------------
(* A controlled queue is a queue. *)

LEMMA ControlIsNext == [ControlNext]_controlAllVars => [Next]_vars
<1> SUFFICES ASSUME ControlNext PROVE [Next]_vars
  BY DEF controlAllVars, vars
<1>1. CASE Pause \/ Resume \/ StartDrain \/ FinishDrain
  BY <1>1 DEF Pause, Resume, StartDrain, FinishDrain
<1>2. ASSUME NEW w \in Workers, Poll(w) \/ EmptyClaim(w)
      PROVE  UNCHANGED vars
  BY <1>2 DEF Poll, EmptyClaim
<1>3. ASSUME NEW w \in Workers, PolledClaim(w) \/ BatchStep(w) \/ WorkerHalts(w)
      PROVE  WorkerStep(w) \/ CrashWorker(w) \/ StopWorker(w)
  BY <1>3 DEF PolledClaim, BatchStep, WorkerHalts, WorkerStep
<1>4. CASE AppendStep \/ Elsewhere
  BY <1>4 DEF AppendStep, Elsewhere, Next
<1>5. QED
  BY <1>1, <1>2, <1>3, <1>4 DEF ControlNext, Next

\* The pause flag and drain() restrict the workers and never extend them:
\* whatever is true of every behaviour of the workers, the client and the clock
\* stays true when somebody pauses, resumes and drains.
THEOREM ControlledWorkersAreWorkers == ControlSpec => Spec
<1>1. ControlInit => Init
  BY DEF ControlInit
<1>2. QED
  BY <1>1, ControlIsNext, PTL DEF ControlSpec, Spec

-----------------------------------------------------------------------------
(* Types. *)

LEMMA ControlTypeStep ==
    TypeInv /\ TypeInv' /\ ControlTypeOK /\ [ControlNext]_controlAllVars => ControlTypeOK'
<1> SUFFICES ASSUME TypeInv', ControlTypeOK, [ControlNext]_controlAllVars
             PROVE  ControlTypeOK'
  OBVIOUS
<1> USE DEF ControlTypeOK
<1>0. TypeOK' /\ MaxPauses \in Nat /\ MaxDrains \in Nat
  BY ControlAssumption DEF TypeInv
<1>1. CASE Pause \/ Resume
  <2>1. pauses' \in 0..MaxPauses
    BY <1>0, <1>1 DEF Pause, Resume
  <2>2. paused' \in BOOLEAN /\ UNCHANGED <<polled, draining, outcome, drains>>
    BY <1>1 DEF Pause, Resume
  <2>3. QED
    BY <1>0, <2>1, <2>2
<1>2. ASSUME NEW w \in Workers,
             Poll(w) \/ PolledClaim(w) \/ EmptyClaim(w) \/ BatchStep(w) \/ WorkerHalts(w)
      PROVE  ControlTypeOK'
  <2>1. polled' \subseteq Workers /\ UNCHANGED <<paused, outcome, pauses, drains>>
    BY <1>2 DEF Poll, PolledClaim, EmptyClaim, BatchStep, WorkerHalts, controlVars
  <2>2. draining' \in BOOLEAN
    BY <1>2 DEF Poll, PolledClaim, EmptyClaim, BatchStep, WorkerHalts, controlVars
  <2>3. QED
    BY <1>0, <2>1, <2>2
<1>3. CASE StartDrain \/ FinishDrain
  <2>1. drains' \in 0..MaxDrains
    BY <1>0, <1>3 DEF StartDrain, FinishDrain
  <2>2. /\ draining' \in BOOLEAN /\ UNCHANGED <<paused, pauses>>
        /\ outcome' \in {"none", "complete", "unresolved"} /\ polled' \subseteq Workers
    BY <1>3 DEF StartDrain, FinishDrain
  <2>3. QED
    BY <1>0, <2>1, <2>2
<1>4. CASE AppendStep \/ Elsewhere
  BY <1>0, <1>4 DEF AppendStep, Elsewhere, controlVars
<1>5. CASE UNCHANGED controlAllVars
  BY <1>0, <1>5 DEF controlAllVars, controlVars
<1>6. QED
  BY <1>1, <1>2, <1>3, <1>4, <1>5 DEF ControlNext

\* The flag, the polls and the drain keep their types, and so does the queue
\* they control.
THEOREM ControlTypeCorrect == ControlSpec => []ControlTypeOK
<1>1. ControlInit => ControlTypeOK
  <2>1. Init => TypeOK
    BY InitType DEF TypeInv
  <2>2. 0 \in 0..MaxPauses /\ 0 \in 0..MaxDrains
    BY ControlAssumption
  <2>3. QED
    BY <2>1, <2>2 DEF ControlInit, ControlTypeOK
<1>2. ControlSpec => []TypeInv
  BY ControlledWorkersAreWorkers, TypeInvariant, PTL
<1>3. QED
  BY <1>1, <1>2, ControlTypeStep, PTL DEF ControlSpec

-----------------------------------------------------------------------------
(* A drained queue.  That no job is unsettled says something of the workers *)
(* only because a worker that is not idle holds a job, and a held job is in *)
(* progress while leases outlast batches.                                   *)

NextHolds == \A w \in Workers : pc[w] = "next" => claimed[w] # {}

LEMMA NextHoldsStep == TypeInv /\ NextHolds /\ [Next]_vars => NextHolds'
<1> SUFFICES ASSUME TypeInv, NextHolds, [Next]_vars
             PROVE  NextHolds'
  OBVIOUS
<1> USE DEF NextHolds
<1>1. CASE UNCHANGED <<pc, claimed>>
  BY <1>1
<1>2. ASSUME NEW w \in Workers,
             \A v \in Workers \ {w} : pc'[v] = pc[v] /\ claimed'[v] = claimed[v],
             pc'[w] = "next" => claimed'[w] # {}
      PROVE  NextHolds'
  BY <1>2
<1>3. ASSUME NEW w \in Workers, WorkerStep(w) \/ CrashWorker(w) \/ StopWorker(w)
      PROVE  NextHolds'
  <2> USE DEF Goto, TypeInv, TypeOK
  <2>1. CASE Claim(w)
    BY <1>2, <2>1 DEF Claim
  <2>2. CASE TakeJob(w)
    BY <1>2, <2>2 DEF TakeJob
  <2>3. CASE CheckTombstone(w) \/ CheckDependencies(w) \/ DecideFailure(w)
    BY <1>2, <2>3 DEF CheckTombstone, CheckDependencies, DecideFailure, ReadOnly, memoryVars
  <2>4. CASE InsertLedger(w) \/ BuilderDeclines(w) \/ BuilderMigrates(w) \/ BuilderWrites(w)
    BY <1>2, <2>4
    DEF InsertLedger, BuilderDeclines, BuilderMigrates, BuilderWrites, memoryVars
  <2>5. CASE BuildRaises(w) \/ CommitBuild(w)
    BY <1>2, <2>5 DEF BuildRaises, CommitBuild, memoryVars
  <2>6. ASSUME NEW r, Settle(w, r)
        PROVE  NextHolds'
    BY <1>2, <2>6 DEF Settle, Finished, memoryVars
  <2>7. CASE CompleteJob(w) \/ SkipJob(w) \/ FailJob(w)
    BY <2>6, <2>7 DEF CompleteJob, SkipJob, FailJob
  <2>8. CASE PoisonKills(w) \/ CrashWorker(w) \/ StopWorker(w)
    BY <1>2, <2>8 DEF PoisonKills, CrashWorker, StopWorker, Halted, Restarts
  <2>9. QED
    BY <1>3, <2>1, <2>2, <2>3, <2>4, <2>5, <2>7, <2>8 DEF WorkerStep
<1>4. CASE (\E j \in Jobs : TimePasses(j)) \/ Appending \/ AppendDies
  BY <1>1, <1>4 DEF TimePasses, Appending, AppendDies, workerVars
<1>5. QED
  BY <1>1, <1>3, <1>4 DEF Next, vars, workerVars

LEMMA BusyHoldsWork ==
    ASSUME TypeInv, HeldLive, NextHolds, NEW w \in Workers, pc[w] # "idle"
    PROVE  \E j \in Jobs : Unsettled(j)
<1>1. CASE pc[w] = "next"
  <2>1. PICK j \in claimed[w] : TRUE
    BY <1>1 DEF NextHolds
  <2>2. j \in Jobs
    BY <2>1 DEF TypeInv, TypeOK
  <2>3. QED
    BY <2>1, <2>2 DEF HeldLive, HeldBy, Unsettled
<1>2. CASE pc[w] # "next"
  <2>1. cur[w] \in Jobs
    BY <1>2 DEF TypeInv, HandOK
  <2>2. QED
    BY <2>1 DEF HeldLive, HeldBy, Unsettled
<1>3. QED
  BY <1>1, <1>2

LEMMA DrainStep ==
    TypeInv /\ HeldLive /\ NextHolds /\ DrainedIsIdle /\ [ControlNext]_controlAllVars
        => DrainedIsIdle'
<1> SUFFICES ASSUME TypeInv, HeldLive, NextHolds, DrainedIsIdle,
                    [ControlNext]_controlAllVars, outcome' = "complete"
             PROVE  /\ \A j \in Jobs : ~Unsettled(j)'
                    /\ \A w \in Workers : pc'[w] = "idle"
  BY DEF DrainedIsIdle
<1>1. CASE FinishDrain
  <2>1. /\ \A j \in Jobs : ~Unsettled(j)
        /\ UNCHANGED <<jobs, pc>>
    BY <1>1 DEF FinishDrain, Outstanding, vars, storeVars, workerVars
  <2>2. \A w \in Workers : pc[w] = "idle"
    BY <2>1, BusyHoldsWork
  <2>3. QED
    BY <2>1, <2>2 DEF Unsettled
<1>2. ASSUME outcome = "complete" PROVE /\ \A j \in Jobs : ~Unsettled(j)
                                        /\ \A w \in Workers : pc[w] = "idle"
  BY <1>2 DEF DrainedIsIdle
<1>3. ASSUME outcome = "complete", UNCHANGED <<jobs, pc>>
      PROVE  /\ \A j \in Jobs : ~Unsettled(j)'
             /\ \A w \in Workers : pc'[w] = "idle"
  BY <1>2, <1>3 DEF Unsettled
<1>4. CASE Pause \/ Resume \/ StartDrain
  BY <1>3, <1>4 DEF Pause, Resume, StartDrain, vars, storeVars, workerVars
<1>5. ASSUME NEW w \in Workers, Poll(w) \/ EmptyClaim(w)
      PROVE  outcome = "complete" /\ UNCHANGED <<jobs, pc>>
  BY <1>5 DEF Poll, EmptyClaim, vars, storeVars, workerVars
<1>6. ASSUME NEW w \in Workers, PolledClaim(w) PROVE FALSE
  <2>1. outcome = "complete" /\ Claim(w)
    BY <1>6 DEF PolledClaim
  <2>2. \E j \in Jobs : Claimable(j)
    BY <2>1 DEF Claim
  <2>3. QED
    BY <1>2, <2>1, <2>2 DEF Claimable
<1>7. ASSUME NEW w \in Workers, BatchStep(w) \/ WorkerHalts(w) PROVE FALSE
  <2>1. outcome = "complete" /\ pc[w] # "idle"
    BY <1>7 DEF BatchStep, WorkerHalts, CrashWorker, StopWorker, controlVars
  <2>2. QED
    BY <1>2, <2>1
<1>8. CASE AppendStep
  <2>1. outcome = "complete" /\ jobs' = jobs /\ UNCHANGED pc
    BY <1>8 DEF AppendStep, Appending, workerVars
  <2>2. QED
    BY <1>3, <2>1
<1>9. CASE Elsewhere
  <2>1. outcome = "complete"
    BY <1>9 DEF Elsewhere, controlVars
  <2>2. ASSUME NEW j \in Jobs, TimePasses(j) PROVE FALSE
    BY <1>2, <2>1, <2>2 DEF TimePasses
  <2>3. CASE AppendDies
    BY <1>3, <2>1, <2>3 DEF AppendDies, CrashAppend
  <2>4. QED
    BY <1>9, <2>2, <2>3 DEF Elsewhere
<1>10. CASE UNCHANGED controlAllVars
  BY <1>3, <1>10 DEF controlAllVars, controlVars, vars, storeVars, workerVars
<1>11. QED
  BY <1>1, <1>3, <1>4, <1>5, <1>6, <1>7, <1>8, <1>9, <1>10 DEF ControlNext

\* A drain that reports completion tells the truth until something is appended:
\* nothing is unsettled and no worker is left that could put a job back.
THEOREM DrainTellsTheTruth ==
    ASSUME LeaseOutlastsBatch
    PROVE  ControlSpec => []DrainedIsIdle
<1>1. Init => NextHolds
  BY DEF Init, NextHolds
<1>2. Spec => [](TypeInv /\ LeaseInv /\ NextHolds)
  BY <1>1, LeaseInvariant, TypeInvariant, NextHoldsStep, PTL DEF Spec
<1>3. ControlSpec => [](TypeInv /\ HeldLive /\ NextHolds)
  <2>1. LeaseInv => HeldLive
    BY DEF LeaseInv
  <2>2. QED
    BY <1>2, <2>1, ControlledWorkersAreWorkers, PTL
<1>4. ControlInit => DrainedIsIdle
  BY DEF ControlInit, DrainedIsIdle
<1>5. QED
  BY <1>3, <1>4, DrainStep, PTL DEF ControlSpec
=============================================================================
