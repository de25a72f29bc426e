-------------------------------- MODULE Doctor --------------------------------
(***************************************************************************)
(* The doctor and its repairs (cognitive/diagnostics.py, reconciliation.py,*)
(* doctor_incremental.py, doctor_cursor.py) against the running queue: the *)
(* workers, forget_derived and its tombstones.                             *)
(*                                                                         *)
(* A deep scan lists findings; a repair acts on each later, in two         *)
(* statements: the precondition is read again, then the row is written by  *)
(* job id.  An incremental scan leaves out, in the windowed checks, the    *)
(* rows its cursor has passed.  No row of the outbox or the ledger is ever *)
(* deleted, so a position in them is the set of rows it lies behind.       *)
(***************************************************************************)
EXTENDS Forgetting

CONSTANTS
    MaxScans,  \* bound: scans, deep and incremental
    NoFinding  \* no repair in hand

VARIABLES
    dpc,      \* where the doctor is
    actions,  \* planned repairs: [code, job]
    action,   \* the repair whose precondition was found to hold
    mark,     \* high-water mark an incremental scan read before it began
    covered,  \* the stored cursor
    clean,    \* the incremental scan just made found nothing blocking
    mended,   \* history: rebuilds asked for and not seen since
    examined, \* history: jobs a scan found nothing blocking about
    scans

doctorVars == <<dpc, actions, action, mark, covered, clean, mended, examined,
               scans>>
doctorAllVars == <<allVars, doctorVars>>

Repairable == {"JOB_STALE_LEASE", "JOB_ATTEMPTS_EXCEEDED",
               "COMPLETED_WITHOUT_PROJECTION", "CHILD_PENDING_WITH_DEAD_PARENT"}

Finding == [code : Repairable \cup {"OUTBOX_DEAD_LETTER", "SKIPPED_WITH_LEDGER",
                                    "LEDGER_WITHOUT_PROJECTION"},
            job : Jobs]

\* What a cursor has passed, table by table.
Position == [outbox : SUBSET Jobs, ledger : SUBSET Jobs]
Start == [outbox |-> {}, ledger |-> {}]

ASSUME DoctorAssumption == MaxScans \in Nat /\ NoFinding \notin Finding

DoctorTypeOK ==
    /\ ForgetTypeOK
    /\ dpc \in {"idle", "repair", "execute", "window", "save"}
    /\ actions \subseteq Finding
    /\ action \in Finding \cup {NoFinding}
    /\ {mark, covered} \subseteq Position
    /\ clean \in BOOLEAN
    /\ mended \subseteq Jobs
    /\ examined \subseteq Jobs
    /\ scans \in 0..MaxScans

DoctorInit ==
    /\ ForgetInit
    /\ dpc = "idle"
    /\ actions = {}
    /\ action = NoFinding
    /\ mark = Start
    /\ covered = Start
    /\ clean = FALSE
    /\ mended = {}
    /\ examined = {}
    /\ scans = 0

-----------------------------------------------------------------------------
(* The checks, as the jobs each reports. *)

Exists(j) == jobs[j].status # "absent"

NotBuilt(j) == j[2] = Memory /\ Rows(j[1]) = 0

\* Leases older than an hour, which is longer than any lease lasts.
StaleLeases == {j \in Jobs : Expired(j)}

AttemptsExceeded ==
    {j \in Jobs : /\ Exists(j)
                  /\ jobs[j].attempts > MaxAttempts
                  /\ jobs[j].status # "dead_letter"}

BlockedChildren == {j \in Jobs : jobs[j].status = "pending" /\ Blocked(j)}

DeadLetters == {j \in Jobs : jobs[j].status = "dead_letter"}

CompletedWithoutProjection(since) ==
    {j \in Jobs \ since : jobs[j].status = "completed" /\ NotBuilt(j)}

SkippedWithLedger(since) ==
    {j \in Jobs \ since : jobs[j].status = "skipped" /\ j \in ledger}

LedgerWithoutProjection(since) == {j \in ledger \ since : NotBuilt(j)}

\* What a scan from position `since` reports; a full one begins at Start.
Report(since, stale) ==
    [code : {"JOB_STALE_LEASE"}, job : stale]
    \cup [code : {"JOB_ATTEMPTS_EXCEEDED"}, job : AttemptsExceeded]
    \cup [code : {"CHILD_PENDING_WITH_DEAD_PARENT"}, job : BlockedChildren]
    \cup [code : {"OUTBOX_DEAD_LETTER"}, job : DeadLetters]
    \cup [code : {"COMPLETED_WITHOUT_PROJECTION"}, job : CompletedWithoutProjection(since.outbox)]
    \cup [code : {"SKIPPED_WITH_LEDGER"}, job : SkippedWithLedger(since.outbox)]
    \cup [code : {"LEDGER_WITHOUT_PROJECTION"}, job : LedgerWithoutProjection(since.ledger)]

\* FAIL and CRITICAL; a stale lease and a blocked child are warnings.
Blocking(findings) ==
    {f \in findings : f.code \notin {"JOB_STALE_LEASE", "CHILD_PENDING_WITH_DEAD_PARENT"}}

-----------------------------------------------------------------------------
(* ReconciliationEngine.run(repair=True) *)

Diagnose ==
    /\ dpc = "idle"
    /\ scans < MaxScans
    /\ scans' = scans + 1
    /\ \E stale \in SUBSET StaleLeases :
          actions' = {f \in Report(Start, stale) : f.code \in Repairable}
    /\ dpc' = "repair"
    /\ UNCHANGED <<allVars, action, mark, covered, clean, mended, examined>>

\* _still_applies: the status is read again, and no more than the status.
StillApplies(f) ==
    LET status == jobs[f.job].status
    IN  CASE f.code = "JOB_STALE_LEASE"       -> status = "in_progress"
          [] f.code = "JOB_ATTEMPTS_EXCEEDED" -> status # "dead_letter"
          [] f.code = "COMPLETED_WITHOUT_PROJECTION" ->
                 /\ status = "completed"
                 /\ f.job[2] \in Buildable
                 /\ Rows(f.job[1]) = 0
          [] f.code = "CHILD_PENDING_WITH_DEAD_PARENT" -> status = "pending"

CheckRepair(f) ==
    /\ dpc = "repair"
    /\ f \in actions
    /\ actions' = actions \ {f}
    /\ IF StillApplies(f)
       THEN action' = f /\ dpc' = "execute"
       ELSE UNCHANGED <<action, dpc>>
    /\ UNCHANGED <<allVars, mark, covered, clean, mended, examined, scans>>

RepairedRow(code, r) ==
    CASE code = "JOB_STALE_LEASE" -> [r EXCEPT !.status = "pending", !.due = TRUE]
      [] code = "COMPLETED_WITHOUT_PROJECTION" -> Fresh
      [] OTHER -> DeadRow(r)

\* _execute: by job id alone, whatever happened to the job since the check.
ExecuteRepair ==
    /\ dpc = "execute"
    /\ writer = Nobody
    /\ jobs' = [jobs EXCEPT ![action.job] = RepairedRow(action.code, @)]
    /\ mended' = IF action.code = "COMPLETED_WITHOUT_PROJECTION"
                 THEN mended \cup {action.job} ELSE mended
    /\ action' = NoFinding
    /\ dpc' = "repair"
    /\ UNCHANGED <<events, owed, ledger, copies, tombstones, writer, append>>
    /\ UNCHANGED <<workerVars, forgetVars, actions, mark, covered, clean, examined, scans>>

RepairReturns ==
    /\ dpc = "repair"
    /\ actions = {}
    /\ dpc' = "idle"
    /\ UNCHANGED <<allVars, actions, action, mark, covered, clean, mended, examined, scans>>

-----------------------------------------------------------------------------
(* IncrementalDoctor.run_incremental *)

HighWater == [outbox |-> {j \in Jobs : Exists(j)}, ledger |-> ledger]

\* The high-water mark is read before the scan.
ReadMark ==
    /\ dpc = "idle"
    /\ scans < MaxScans
    /\ scans' = scans + 1
    /\ mark' = HighWater
    /\ dpc' = "window"
    /\ UNCHANGED <<allVars, actions, action, covered, clean, mended, examined>>

ScanWindow ==
    /\ dpc = "window"
    /\ clean' = (Blocking(Report(covered, {})) = {})
    /\ examined' = examined \cup ({j \in Jobs : Exists(j)} \
                       {f.job : f \in Blocking(Report(Start, {}))})
    /\ dpc' = "save"
    /\ UNCHANGED <<allVars, actions, action, mark, covered, mended, scans>>

\* Mutant: the position saved is that of the moment it is saved.
SaveCursorLate ==
    /\ dpc = "save"
    /\ writer = Nobody
    /\ covered' = IF clean THEN HighWater ELSE covered
    /\ clean' = FALSE
    /\ dpc' = "idle"
    /\ UNCHANGED <<allVars, actions, action, mark, mended, examined, scans>>

\* A blocking finding holds the cursor where the scan began.
SaveCursor ==
    /\ dpc = "save"
    /\ writer = Nobody
    /\ covered' = IF clean THEN mark ELSE covered
    /\ clean' = FALSE
    /\ dpc' = "idle"
    /\ UNCHANGED <<allVars, actions, action, mark, mended, examined, scans>>

DoctorDies ==
    /\ dpc # "idle"
    /\ deaths < MaxDeaths
    /\ deaths' = deaths + 1
    /\ dpc' = "idle"
    /\ actions' = {}
    /\ action' = NoFinding
    /\ clean' = FALSE
    /\ UNCHANGED <<vars, fpc, targets, doomed, plan, rpc, lifted, late, reach,
                   forgets, replays>>
    /\ UNCHANGED <<mark, covered, mended, examined, scans>>

\* Everything else; a projection that is built again closes its repair.
Meanwhile ==
    /\ ForgetNext
    /\ mended' = {j \in mended : copies'[j] = 0}
    /\ UNCHANGED <<dpc, actions, action, mark, covered, clean, examined, scans>>

DoctorNext ==
    \/ Meanwhile
    \/ Diagnose
    \/ \E f \in actions : CheckRepair(f)
    \/ ExecuteRepair
    \/ RepairReturns
    \/ ReadMark
    \/ ScanWindow
    \/ SaveCursor
    \/ DoctorDies

DoctorSpec == DoctorInit /\ [][DoctorNext]_doctorAllVars

DoctorFairSpec ==
    /\ DoctorSpec
    /\ \A w \in Workers :
          WF_doctorAllVars(Meanwhile /\ WorkerStep(w) /\ UNCHANGED forgetVars)
    /\ \A j \in Jobs :
          WF_doctorAllVars(Meanwhile /\ TimePasses(j) /\ UNCHANGED forgetVars)

-----------------------------------------------------------------------------
(* Properties. *)

\* A cursor covers only rows that some scan has looked at and found nothing
\* blocking in: a row that arrives while a scan runs is not stepped over.
CoveredWasClean == covered.outbox \subseteq examined

\* And it hides nothing: when an incremental scan finds nothing blocking, a
\* full scan of the same moment would not have blocked either, although rows
\* the cursor passed have been deleted, retried or repaired since.
WindowMissesNothing ==
    [][dpc = "window" /\ clean' => Blocking(Report(Start, {})) = {}]_doctorAllVars

\* "Running twice changes nothing the second time": a projection the doctor
\* has asked the worker to rebuild is not found unbuilt and asked for again.
RepairsOnce ==
    [][\A j \in mended :
          dpc = "execute" /\ dpc' = "repair" /\ action.job = j
          => action.code # "COMPLETED_WITHOUT_PROJECTION"]_doctorAllVars

\* "Applying anyway would undo real work": a job is taken back as stale only
\* while its lease has in fact run out.
RepairSparesWork ==
    [][dpc = "execute" /\ dpc' = "repair" /\ action.code = "JOB_STALE_LEASE"
       => Expired(action.job)]_doctorAllVars

\* A job repaired under the workers settles again, whatever they have in
\* memory: no repair leaves it where no statement picks it up.
RepairedSettles == \A j \in Jobs : Unsettled(j) ~> ~Unsettled(j)
=============================================================================
