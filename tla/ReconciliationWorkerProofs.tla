--------------------- MODULE ReconciliationWorkerProofs ---------------------
(* What TLAPS proves of ReconciliationWorker, for every value of its       *)
(* constants: any number of workers, events, types, retries and crashes,   *)
(* whether leases outlast batches or not.                                  *)
EXTENDS ReconciliationWorker, TLAPS

-----------------------------------------------------------------------------
(* Rows. *)

\* The attempt count never leaves its range, however often a job is claimed.
LEMMA BumpType == \A n \in 0..AttemptCap : Bump(n) \in 0..AttemptCap
BY StoreAssumption, SMT DEF Bump, AttemptCap, HoldLimit

\* Every write of the queue leaves a row of the table's type.
LEMMA RowTypes ==
    /\ Absent \in Row
    /\ Fresh \in Row
    /\ \A r \in Row : /\ ClaimedRow(r) \in Row
                      /\ YieldedRow(r) \in Row
                      /\ CompletedRow(r) \in Row
                      /\ DeadRow(r) \in Row
                      /\ RetryRow(r) \in Row
                      /\ SkippedRow(r) \in Row
                      /\ [r EXCEPT !.due = TRUE] \in Row
<1>1. 0 \in 0..AttemptCap
  BY StoreAssumption, SMT DEF AttemptCap, HoldLimit
<1>2. Absent \in Row /\ Fresh \in Row
  BY <1>1 DEF Absent, Fresh, Row, Status
<1>3. ASSUME NEW r \in Row
      PROVE  ClaimedRow(r) \in Row
  BY <1>3, BumpType DEF ClaimedRow, Row, Status
<1>4. ASSUME NEW r \in Row
      PROVE  /\ YieldedRow(r) \in Row
             /\ CompletedRow(r) \in Row
             /\ DeadRow(r) \in Row
             /\ RetryRow(r) \in Row
             /\ SkippedRow(r) \in Row
             /\ [r EXCEPT !.due = TRUE] \in Row
  BY <1>4 DEF YieldedRow, CompletedRow, DeadRow, RetryRow, SkippedRow, Row, Status
<1>5. QED
  BY <1>2, <1>3, <1>4

-----------------------------------------------------------------------------
(* Type correctness.  A worker past the head of its batch has a job in hand; *)
(* without that the row it settles need not be a row of the table.           *)

HandOK == \A w \in Workers : pc[w] \notin {"idle", "next"} => cur[w] \in Jobs

TypeInv == TypeOK /\ HandOK

LEMMA InitType == Init => TypeInv
BY RowTypes, StoreAssumption, WorkerAssumption
   DEF Init, StoreInit, TypeInv, TypeOK, HandOK, StoreTypeOK, PC, NoAppend

\* The append transaction.
LEMMA AppendType ==
    ASSUME TypeInv, Appending \/ AppendDies
    PROVE  TypeInv'
<1>1. ASSUME Appending
      PROVE  TypeInv'
  <2>1. HandOK' /\ UNCHANGED workerVars
    BY <1>1 DEF Appending, TypeInv, HandOK, workerVars
  <2>2. ASSUME NEW e \in Events, NEW T \in Debts, BeginAppend(e, T)
        PROVE  StoreTypeOK'
    BY <2>2, StoreAssumption DEF BeginAppend, TypeInv, TypeOK, StoreTypeOK
  <2>3. ASSUME NEW t \in Types, EnqueueDebt(t)
        PROVE  StoreTypeOK'
    BY <2>3 DEF EnqueueDebt, TypeInv, TypeOK, StoreTypeOK
  <2>4. ASSUME CommitAppend
        PROVE  StoreTypeOK'
    <3>1. jobs' \in [Jobs -> Row]
      BY <2>4, RowTypes DEF CommitAppend, Enqueued, TypeInv, TypeOK, StoreTypeOK
    <3>2. append.event \in Events
      BY <2>4 DEF CommitAppend, TypeInv, TypeOK, StoreTypeOK
    <3>3. QED
      BY <2>4, <3>1, <3>2 DEF CommitAppend, NoAppend, TypeInv, TypeOK, StoreTypeOK
  <2>5. StoreTypeOK'
    BY <1>1, <2>2, <2>3, <2>4 DEF Appending
  <2>6. QED
    BY <2>1, <2>5 DEF TypeInv, TypeOK, workerVars
<1>2. ASSUME AppendDies
      PROVE  TypeInv'
  <2>1. faults' \in 0..MaxClientCrashes
    BY <1>2, WorkerAssumption DEF AppendDies, TypeInv, TypeOK
  <2>2. StoreTypeOK'
    BY <1>2 DEF AppendDies, CrashAppend, NoAppend, TypeInv, TypeOK, StoreTypeOK
  <2>3. QED
    BY <1>2, <2>1, <2>2 DEF AppendDies, TypeInv, TypeOK, HandOK
<1>3. QED
  BY <1>1, <1>2

\* The writes that end process().
LEMMA SettleType ==
    ASSUME TypeInv, NEW w \in Workers, NEW r \in Row, Settle(w, r)
    PROVE  TypeInv'
<1>1. StoreTypeOK'
  BY DEF Settle, TypeInv, TypeOK, StoreTypeOK
<1>2. HandOK'
  BY DEF Settle, Finished, Goto, TypeInv, TypeOK, HandOK, PC
<1>3. QED
  BY <1>1, <1>2 DEF Settle, Finished, Goto, memoryVars, TypeInv, TypeOK, PC

\* The steps that only read: the job in hand stays in hand.
LEMMA ReadOnlyType ==
    ASSUME TypeInv, NEW w \in Workers, NEW label \in PC, ReadOnly(w, label),
           pc[w] \notin {"idle", "next"}
    PROVE  TypeInv'
BY DEF ReadOnly, Goto, storeVars, memoryVars, TypeInv, TypeOK, StoreTypeOK, HandOK

LEMMA ClaimType ==
    ASSUME TypeInv, NEW w \in Workers, Claim(w)
    PROVE  TypeInv'
<1>1. PICK batch \in SUBSET Jobs :
        /\ jobs' = [j \in Jobs |->
                       CASE j \in batch    -> ClaimedRow(jobs[j])
                         [] j \in Yielding -> YieldedRow(jobs[j])
                         [] OTHER          -> jobs[j]]
        /\ claimed' = [claimed EXCEPT ![w] = batch]
        /\ retries' = [retries EXCEPT ![w] =
                          {j \in batch : jobs[j].attempts > 0}]
  BY DEF Claim
<1>2. jobs' \in [Jobs -> Row]
  <2>1. ASSUME NEW j \in Jobs
        PROVE  /\ jobs[j] \in Row
               /\ ClaimedRow(jobs[j]) \in Row
               /\ YieldedRow(jobs[j]) \in Row
    BY RowTypes DEF TypeInv, TypeOK, StoreTypeOK
  <2>2. QED
    BY <1>1, <2>1
<1>3. StoreTypeOK'
  BY <1>2 DEF Claim, TypeInv, TypeOK, StoreTypeOK
<1>4. claimed' \in [Workers -> SUBSET Jobs] /\ retries' \in [Workers -> SUBSET Jobs]
  BY <1>1 DEF TypeInv, TypeOK
<1>5. QED
  BY <1>3, <1>4 DEF Claim, Goto, TypeInv, TypeOK, HandOK, PC

\* The reads of process().
LEMMA ReadingType ==
    ASSUME TypeInv, NEW w \in Workers,
           TakeJob(w) \/ CheckTombstone(w) \/ CheckDependencies(w) \/ DecideFailure(w)
    PROVE  TypeInv'
<1>1. CASE TakeJob(w)
  <2>1. StoreTypeOK'
    BY <1>1 DEF TakeJob, storeVars, TypeInv, TypeOK, StoreTypeOK
  <2>2. cur' \in [Workers -> Jobs \cup {NoJob}] /\ claimed' \in [Workers -> SUBSET Jobs]
    BY <1>1 DEF TakeJob, TypeInv, TypeOK
  <2>3. pc' \in [Workers -> PC]
    BY <1>1 DEF TakeJob, Goto, PC, TypeInv, TypeOK
  <2>4. HandOK'
    BY <1>1 DEF TakeJob, Goto, TypeInv, TypeOK, HandOK
  <2>5. QED
    BY <1>1, <2>1, <2>2, <2>3, <2>4 DEF TakeJob, TypeInv, TypeOK
<1>2. CASE CheckTombstone(w)
  <2>1. PICK label \in PC : ReadOnly(w, label)
    BY <1>2 DEF CheckTombstone, PC
  <2>2. pc[w] \notin {"idle", "next"}
    BY <1>2 DEF CheckTombstone
  <2>3. QED
    BY <2>1, <2>2, ReadOnlyType
<1>3. CASE CheckDependencies(w)
  <2>1. PICK label \in PC : ReadOnly(w, label)
    BY <1>3 DEF CheckDependencies, PC
  <2>2. pc[w] \notin {"idle", "next"}
    BY <1>3 DEF CheckDependencies
  <2>3. QED
    BY <2>1, <2>2, ReadOnlyType
<1>4. CASE DecideFailure(w)
  <2>1. PICK label \in PC : ReadOnly(w, label)
    BY <1>4 DEF DecideFailure, PC
  <2>2. pc[w] \notin {"idle", "next"}
    BY <1>4 DEF DecideFailure
  <2>3. QED
    BY <2>1, <2>2, ReadOnlyType
<1>5. QED
  BY <1>1, <1>2, <1>3, <1>4

\* The transaction of the build.
LEMMA BuildType ==
    ASSUME TypeInv, NEW w \in Workers,
           \/ InsertLedger(w) \/ BuilderDeclines(w) \/ BuilderMigrates(w)
           \/ BuilderWrites(w) \/ BuildRaises(w) \/ CommitBuild(w)
    PROVE  TypeInv'
<1>1. CASE InsertLedger(w)
  BY <1>1 DEF InsertLedger, Goto, memoryVars, PC, TypeInv, TypeOK, StoreTypeOK, HandOK
<1>2. CASE BuilderDeclines(w)
  BY <1>2 DEF BuilderDeclines, Goto, memoryVars, PC, TypeInv, TypeOK, StoreTypeOK, HandOK
<1>3. CASE BuilderMigrates(w)
  <2>1. cur[w] \in Jobs
    BY <1>3 DEF BuilderMigrates, TypeInv, HandOK
  <2>2. migrated' \in [Workers -> SUBSET Migrating]
    BY <1>3 DEF BuilderMigrates, TypeInv, TypeOK
  <2>3. QED
    BY <1>3, <2>1, <2>2
       DEF BuilderMigrates, Goto, PC, TypeInv, TypeOK, StoreTypeOK, HandOK
<1>4. CASE BuilderWrites(w)
  BY <1>4 DEF BuilderWrites, Goto, memoryVars, PC, TypeInv, TypeOK, StoreTypeOK, HandOK
<1>5. CASE BuildRaises(w)
  BY <1>5 DEF BuildRaises, Goto, memoryVars, PC, TypeInv, TypeOK, StoreTypeOK, HandOK
<1>6. CASE CommitBuild(w)
  <2>1. cur[w] \in Jobs
    BY <1>6 DEF CommitBuild, TypeInv, HandOK
  <2>2. copies' \in [Jobs -> Nat]
    BY <1>6, <2>1 DEF CommitBuild, Written, TypeInv, TypeOK, StoreTypeOK
  <2>3. QED
    BY <1>6, <2>1, <2>2
       DEF CommitBuild, Goto, memoryVars, PC, TypeInv, TypeOK, StoreTypeOK, HandOK
<1>7. QED
  BY <1>1, <1>2, <1>3, <1>4, <1>5, <1>6

\* The last write of process(): the row it leaves is a row of the table.
LEMMA EndingType ==
    ASSUME TypeInv, NEW w \in Workers, CompleteJob(w) \/ SkipJob(w) \/ FailJob(w)
    PROVE  TypeInv'
<1>1. jobs[cur[w]] \in Row
  BY DEF CompleteJob, SkipJob, FailJob, TypeInv, TypeOK, StoreTypeOK, HandOK
<1>2. PICK r \in Row : Settle(w, r)
  BY <1>1, RowTypes DEF CompleteJob, SkipJob, FailJob
<1>3. QED
  BY <1>2, SettleType

\* Crashes, stops, and the passage of time.
LEMMA EnvironmentType ==
    ASSUME TypeInv,
           \/ \E w \in Workers : CrashWorker(w) \/ StopWorker(w) \/ PoisonKills(w)
           \/ \E j \in Jobs : TimePasses(j)
    PROVE  TypeInv'
<1>1. ASSUME NEW w \in Workers, Restarts(w)
      PROVE  /\ pc' \in [Workers -> PC] /\ cur' \in [Workers -> Jobs \cup {NoJob}]
             /\ claimed' \in [Workers -> SUBSET Jobs]
             /\ retries' \in [Workers -> SUBSET Jobs]
             /\ migrated' \in [Workers -> SUBSET Migrating]
             /\ HandOK'
  BY <1>1 DEF Restarts, Goto, PC, TypeInv, TypeOK, HandOK
<1>2. ASSUME NEW w \in Workers, CrashWorker(w) \/ StopWorker(w)
      PROVE  TypeInv'
  <2>1. crashes' \in 0..MaxCrashes
    BY <1>2, WorkerAssumption DEF CrashWorker, StopWorker, Halted, TypeInv, TypeOK
  <2>2. StoreTypeOK'
    BY <1>2 DEF CrashWorker, StopWorker, storeVars, TypeInv, TypeOK, StoreTypeOK
  <2>3. Restarts(w) /\ UNCHANGED faults
    BY <1>2 DEF CrashWorker, StopWorker, Halted
  <2>4. QED
    BY <1>1, <2>1, <2>2, <2>3 DEF TypeInv, TypeOK
<1>3. ASSUME NEW w \in Workers, PoisonKills(w)
      PROVE  TypeInv'
  <2>1. StoreTypeOK'
    BY <1>3 DEF PoisonKills, storeVars, TypeInv, TypeOK, StoreTypeOK
  <2>2. QED
    BY <1>1, <1>3, <2>1 DEF PoisonKills, TypeInv, TypeOK
<1>4. ASSUME NEW j \in Jobs, TimePasses(j)
      PROVE  TypeInv'
  <2>1. jobs' \in [Jobs -> Row]
    <3>1. [jobs[j] EXCEPT !.due = TRUE] \in Row
      BY RowTypes DEF TypeInv, TypeOK, StoreTypeOK
    <3>2. QED
      BY <1>4, <3>1 DEF TimePasses, TypeInv, TypeOK, StoreTypeOK
  <2>2. QED
    BY <1>4, <2>1 DEF TimePasses, workerVars, TypeInv, TypeOK, StoreTypeOK, HandOK
<1>5. QED
  BY <1>2, <1>3, <1>4

LEMMA TypeStep == TypeInv /\ [Next]_vars => TypeInv'
<1>1. ASSUME TypeInv, UNCHANGED vars
      PROVE  TypeInv'
  BY <1>1 DEF vars, storeVars, workerVars, TypeInv, TypeOK, StoreTypeOK, HandOK
<1>2. ASSUME TypeInv, NEW w \in Workers, WorkerStep(w)
      PROVE  TypeInv'
  BY <1>2, ClaimType, ReadingType, BuildType, EndingType, EnvironmentType
     DEF WorkerStep
<1>3. QED
  BY <1>1, <1>2, EnvironmentType, AppendType DEF Next

LEMMA TypeInvariant == Spec => []TypeInv
BY InitType, TypeStep, PTL DEF Spec

\* Every reachable state is well typed: whatever the workers, the client and
\* time do, the tables hold rows of their types and no count leaves its range.
THEOREM TypeCorrect == Spec => []TypeOK
<1>1. TypeInv => TypeOK
  BY DEF TypeInv
<1>2. QED
  BY <1>1, TypeInvariant, PTL

-----------------------------------------------------------------------------
(* Ledger, projections and queue.  LedgerBacked is not inductive: a worker  *)
(* about to complete a job must know the ledger has it, which holds because *)
(* rows are only ever added to the ledger.  ParentsFirst looks further      *)
(* back: the dependency check was made some steps before the build, and     *)
(* what it saw - a parent completed or declined - cannot be taken back in   *)
(* the ledger, although it can in the queue.                                *)

ParentsDone(j) ==
    \A p \in Parents[j[2]] : <<j[1], p>> \in ledger \/ j[1] \in Blank

\* What a worker knows of the job in hand from where it is in process().
HandKnows ==
    \A w \in Workers :
        /\ pc[w] = "ack" => cur[w] \in ledger
        /\ pc[w] = "skip" => cur[w][1] \in Blank
        /\ pc[w] \in {"build", "write", "late_write", "commit"}
              => ParentsDone(cur[w])

\* Only an event without content is skipped: nothing here places a tombstone.
SkippedBlank ==
    /\ tombstones = {}
    /\ \A j \in Jobs : jobs[j].status = "skipped" => j[1] \in Blank

LedgerInv ==
    /\ TypeInv
    /\ HandKnows
    /\ SkippedBlank
    /\ LedgerBacked
    /\ ProjectionRecorded
    /\ ParentsFirst

LEMMA InitLedger == Init => LedgerInv
<1>1. Init => HandKnows /\ SkippedBlank /\ LedgerBacked
  BY DEF Init, StoreInit, Absent, HandKnows, SkippedBlank, LedgerBacked
<1>2. Init => ProjectionRecorded /\ ParentsFirst
  BY DEF Init, StoreInit, ProjectionRecorded, ParentsFirst
<1>3. QED
  BY <1>1, <1>2, InitType DEF LedgerInv

\* A parent that is completed or skipped is done, and so is the dependency.
LEMMA ReadyIsDone ==
    ASSUME LedgerInv, NEW j \in Jobs, Ready(j)
    PROVE  ParentsDone(j)
<1>1. SUFFICES ASSUME NEW p \in Parents[j[2]], j[1] \notin Blank
               PROVE  <<j[1], p>> \in ledger
  BY DEF ParentsDone
<1>2. <<j[1], p>> \in Jobs
  BY StoreAssumption DEF Jobs
<1>3. jobs[<<j[1], p>>].status \in {"completed", "skipped"}
  BY DEF Ready, ParentStatus
<1>4. jobs[<<j[1], p>>].status = "completed"
  BY <1>1, <1>2, <1>3 DEF LedgerInv, SkippedBlank
<1>5. QED
  BY <1>2, <1>4 DEF LedgerInv, LedgerBacked

\* What a step that leaves ledger and projections alone has to show.
LEMMA QueueStep ==
    ASSUME LedgerInv, TypeInv', UNCHANGED <<ledger, copies, tombstones>>, HandKnows',
           \A j \in Jobs : /\ jobs'[j].status = "completed" => j \in ledger
                           /\ jobs'[j].status = "skipped" => j[1] \in Blank
    PROVE  LedgerInv'
<1>1. SkippedBlank' /\ LedgerBacked'
  BY DEF LedgerInv, SkippedBlank, LedgerBacked
<1>2. ProjectionRecorded' /\ ParentsFirst'
  BY DEF LedgerInv, ProjectionRecorded, ParentsFirst
<1>3. QED
  BY <1>1, <1>2 DEF LedgerInv

\* Nothing is lost by a step that leaves every status as it is.
LEMMA StatusKept ==
    ASSUME LedgerInv, \A j \in Jobs : jobs'[j].status \in {jobs[j].status, "pending",
                                                          "in_progress", "dead_letter"}
    PROVE  \A j \in Jobs : /\ jobs'[j].status = "completed" => j \in ledger
                           /\ jobs'[j].status = "skipped" => j[1] \in Blank
BY DEF LedgerInv, LedgerBacked, SkippedBlank

\* The reads of process(), where each check becomes knowledge.
LEMMA ReadingLedger ==
    ASSUME LedgerInv, NEW w \in Workers,
           TakeJob(w) \/ CheckTombstone(w) \/ CheckDependencies(w) \/ DecideFailure(w)
    PROVE  LedgerInv'
<1>1. UNCHANGED storeVars
  BY DEF TakeJob, CheckTombstone, CheckDependencies, DecideFailure, ReadOnly
<1>2. TypeInv'
  BY ReadingType DEF LedgerInv
<1>3. HandKnows'
  <2>1. CASE TakeJob(w)
    BY <2>1, <1>1 DEF TakeJob, Goto, storeVars, LedgerInv, HandKnows, ParentsDone,
                      TypeInv, TypeOK
  <2>2. CASE CheckTombstone(w)
    BY <2>2, <1>1 DEF CheckTombstone, ReadOnly, Goto, storeVars, LedgerInv,
                      HandKnows, ParentsDone, SkippedBlank, TypeInv, TypeOK
  <2>3. CASE CheckDependencies(w)
    <3>1. cur[w] \in Jobs
      BY <2>3 DEF CheckDependencies, LedgerInv, TypeInv, HandOK
    <3>2. PICK label \in {"dead", "hold", "build"} :
            ReadOnly(w, label) /\ (label = "build" => Ready(cur[w]))
      BY <2>3 DEF CheckDependencies
    <3>3. label = "build" => ParentsDone(cur[w])
      BY <3>1, <3>2, ReadyIsDone
    <3>4. QED
      BY <3>2, <3>3, <1>1 DEF ReadOnly, Goto, storeVars, LedgerInv, HandKnows,
                              ParentsDone, TypeInv, TypeOK
  <2>4. CASE DecideFailure(w)
    BY <2>4, <1>1 DEF DecideFailure, ReadOnly, Goto, storeVars, LedgerInv,
                      HandKnows, ParentsDone, TypeInv, TypeOK
  <2>5. QED
    BY <2>1, <2>2, <2>3, <2>4
<1>4. QED
  BY <1>1, <1>2, <1>3, QueueStep DEF storeVars, LedgerInv, LedgerBacked, SkippedBlank

\* The steps of the transaction that write neither ledger nor projection.
LEMMA OpenLedger ==
    ASSUME LedgerInv, NEW w \in Workers,
           InsertLedger(w) \/ BuilderDeclines(w) \/ BuilderWrites(w) \/ BuildRaises(w)
    PROVE  LedgerInv'
<1>1. UNCHANGED <<jobs, ledger, copies, tombstones, cur>>
  BY DEF InsertLedger, BuilderDeclines, BuilderWrites, BuildRaises
<1>2. TypeInv'
  BY BuildType DEF LedgerInv
<1>3. HandKnows'
  <2>1. CASE InsertLedger(w)
    BY <2>1 DEF InsertLedger, Goto, LedgerInv, HandKnows, ParentsDone, TypeInv, TypeOK
  <2>2. CASE BuilderDeclines(w)
    BY <2>2 DEF BuilderDeclines, Goto, LedgerInv, HandKnows, ParentsDone, TypeInv, TypeOK
  <2>3. CASE BuilderWrites(w)
    BY <2>3 DEF BuilderWrites, Goto, LedgerInv, HandKnows, ParentsDone, TypeInv, TypeOK
  <2>4. CASE BuildRaises(w)
    BY <2>4 DEF BuildRaises, Goto, LedgerInv, HandKnows, ParentsDone, TypeInv, TypeOK
  <2>5. QED
    BY <2>1, <2>2, <2>3, <2>4
<1>4. QED
  BY <1>1, <1>2, <1>3, QueueStep DEF LedgerInv, LedgerBacked, SkippedBlank

\* The two steps that make a ledger row durable.
LEMMA RecordLedger ==
    ASSUME LedgerInv, NEW w \in Workers, BuilderMigrates(w) \/ CommitBuild(w)
    PROVE  LedgerInv'
<1>1. /\ cur[w] \in Jobs
      /\ ParentsDone(cur[w])
      /\ ledger' = ledger \cup {cur[w]}
      /\ UNCHANGED <<jobs, tombstones>>
  BY DEF BuilderMigrates, CommitBuild, LedgerInv, HandKnows, TypeInv, HandOK
<1>2. TypeInv'
  BY BuildType DEF LedgerInv
<1>3. LedgerBacked' /\ SkippedBlank'
  BY <1>1 DEF LedgerInv, LedgerBacked, SkippedBlank
<1>4. ParentsFirst'
  BY <1>1 DEF LedgerInv, ParentsFirst, ParentsDone
<1>5. ProjectionRecorded'
  <2>1. CASE BuilderMigrates(w)
    BY <2>1, <1>1 DEF BuilderMigrates, LedgerInv, ProjectionRecorded
  <2>2. CASE CommitBuild(w)
    <3>1. \A j \in Jobs : j # cur[w] => copies'[j] = copies[j]
      BY <2>2, <1>1 DEF CommitBuild, Written, LedgerInv, TypeInv, TypeOK, StoreTypeOK
    <3>2. QED
      BY <3>1, <1>1 DEF LedgerInv, ProjectionRecorded
  <2>3. QED
    BY <2>1, <2>2
<1>6. HandKnows'
  <2>1. \A j : ParentsDone(j) => ParentsDone(j)'
    BY <1>1 DEF ParentsDone
  <2>2. /\ UNCHANGED cur
        /\ pc' = [pc EXCEPT ![w] = "ack"] \/ pc' = [pc EXCEPT ![w] = "late_write"]
    BY DEF BuilderMigrates, CommitBuild, Goto, memoryVars
  <2>3. QED
    BY <1>1, <2>1, <2>2 DEF LedgerInv, HandKnows, TypeInv, TypeOK
<1>7. QED
  BY <1>2, <1>3, <1>4, <1>5, <1>6 DEF LedgerInv

\* A worker with nothing in hand, or about to be told, knows nothing.
LEMMA Forgets ==
    ASSUME LedgerInv, NEW w \in Workers, UNCHANGED <<ledger>>,
           \A v \in Workers \ {w} : pc'[v] = pc[v] /\ cur'[v] = cur[v],
           pc'[w] \in {"idle", "next"}
    PROVE  HandKnows'
BY DEF LedgerInv, HandKnows, ParentsDone

\* The outbox write that ends process(): completed only from "ack", skipped
\* only from "skip".
LEMMA EndingLedger ==
    ASSUME LedgerInv, NEW w \in Workers, CompleteJob(w) \/ SkipJob(w) \/ FailJob(w)
    PROVE  LedgerInv'
<1>1. PICK r : /\ Settle(w, r)
               /\ r.status = "completed" => cur[w] \in ledger
               /\ r.status = "skipped" => cur[w][1] \in Blank
  <2>1. cur[w] \in Jobs /\ jobs[cur[w]] \in Row
    BY DEF CompleteJob, SkipJob, FailJob, LedgerInv, TypeInv, TypeOK, StoreTypeOK, HandOK
  <2>2. CASE CompleteJob(w)
    <3>1. CompletedRow(jobs[cur[w]]).status = "completed"
      BY <2>1 DEF CompletedRow, Row
    <3>2. QED
      BY <2>2, <3>1 DEF CompleteJob, LedgerInv, HandKnows
  <2>3. CASE SkipJob(w)
    <3>1. SkippedRow(jobs[cur[w]]).status \in {"skipped", jobs[cur[w]].status}
      BY <2>1 DEF SkippedRow, Row
    <3>2. cur[w][1] \in Blank
      BY <2>3 DEF SkipJob, LedgerInv, HandKnows
    <3>3. jobs[cur[w]].status = "completed" => cur[w] \in ledger
      BY <2>1 DEF LedgerInv, LedgerBacked
    <3>4. QED
      BY <2>3, <3>1, <3>2, <3>3 DEF SkipJob
  <2>4. CASE FailJob(w)
    <3>1. /\ DeadRow(jobs[cur[w]]).status = "dead_letter"
          /\ RetryRow(jobs[cur[w]]).status = "pending"
      BY <2>1 DEF DeadRow, RetryRow, Row
    <3>2. QED
      BY <2>4, <3>1 DEF FailJob
  <2>5. QED
    BY <2>2, <2>3, <2>4
<1>2. TypeInv'
  BY EndingType DEF LedgerInv
<1>3. jobs' = [jobs EXCEPT ![cur[w]] = r] /\ UNCHANGED <<ledger, copies, tombstones>>
  BY <1>1 DEF Settle
<1>4. HandKnows'
  <2>1. /\ pc'[w] \in {"idle", "next"}
        /\ \A v \in Workers \ {w} : pc'[v] = pc[v] /\ cur'[v] = cur[v]
    BY <1>1 DEF Settle, Finished, Goto, LedgerInv, TypeInv, TypeOK
  <2>2. QED
    BY <1>3, <2>1, Forgets
<1>5. \A j \in Jobs : /\ jobs'[j].status = "completed" => j \in ledger
                      /\ jobs'[j].status = "skipped" => j[1] \in Blank
  BY <1>1, <1>3 DEF LedgerInv, LedgerBacked, SkippedBlank, TypeInv, TypeOK, StoreTypeOK
<1>6. QED
  BY <1>2, <1>3, <1>4, <1>5, QueueStep

\* A claim settles nothing, and takes nothing from the ledger.
LEMMA ClaimLedger ==
    ASSUME LedgerInv, NEW w \in Workers, Claim(w)
    PROVE  LedgerInv'
<1>1. PICK batch \in SUBSET Jobs :
        jobs' = [j \in Jobs |->
                   CASE j \in batch    -> ClaimedRow(jobs[j])
                     [] j \in Yielding -> YieldedRow(jobs[j])
                     [] OTHER          -> jobs[j]]
  BY DEF Claim
<1>2. ASSUME NEW j \in Jobs
      PROVE  jobs'[j].status \in {jobs[j].status, "pending", "in_progress", "dead_letter"}
  <2>1. jobs[j] \in Row
    BY DEF LedgerInv, TypeInv, TypeOK, StoreTypeOK
  <2>2. ClaimedRow(jobs[j]).status = "in_progress" /\ YieldedRow(jobs[j]).status = "pending"
    BY <2>1 DEF ClaimedRow, YieldedRow, Row
  <2>3. jobs'[j] \in {ClaimedRow(jobs[j]), YieldedRow(jobs[j]), jobs[j]}
    BY <1>1
  <2>4. QED
    BY <2>2, <2>3
<1>3. UNCHANGED <<ledger, copies, tombstones>>
  BY DEF Claim
<1>4. HandKnows'
  <2>1. /\ pc'[w] \in {"idle", "next"}
        /\ \A v \in Workers \ {w} : pc'[v] = pc[v] /\ cur'[v] = cur[v]
    BY DEF Claim, Goto, LedgerInv, TypeInv, TypeOK
  <2>2. QED
    BY <1>3, <2>1, Forgets
<1>5. TypeInv'
  BY ClaimType DEF LedgerInv
<1>6. QED
  BY <1>2, <1>3, <1>4, <1>5, StatusKept, QueueStep

\* The environment: crashes, stops, poison, time and the client.
LEMMA EnvironmentLedger ==
    ASSUME LedgerInv,
           \/ \E w \in Workers : CrashWorker(w) \/ StopWorker(w) \/ PoisonKills(w)
           \/ \E j \in Jobs : TimePasses(j)
           \/ Appending
           \/ AppendDies
    PROVE  LedgerInv'
<1>1. TypeInv'
  BY EnvironmentType, AppendType DEF LedgerInv
<1>2. ASSUME NEW w \in Workers, CrashWorker(w) \/ StopWorker(w) \/ PoisonKills(w)
      PROVE  LedgerInv'
  <2>1. UNCHANGED <<jobs, ledger, copies, tombstones>>
    BY <1>2 DEF CrashWorker, StopWorker, PoisonKills, storeVars
  <2>2. Restarts(w)
    BY <1>2 DEF CrashWorker, StopWorker, PoisonKills, Halted
  <2>3. /\ pc'[w] \in {"idle", "next"}
        /\ \A v \in Workers \ {w} : pc'[v] = pc[v] /\ cur'[v] = cur[v]
    BY <2>2 DEF Restarts, Goto, LedgerInv, TypeInv, TypeOK
  <2>4. HandKnows'
    BY <2>1, <2>3, Forgets
  <2>5. QED
    BY <1>1, <2>1, <2>4, QueueStep DEF LedgerInv, LedgerBacked, SkippedBlank
<1>3. ASSUME UNCHANGED <<ledger, copies, tombstones, pc, cur>>,
             \A j \in Jobs : jobs'[j].status \in {jobs[j].status, "pending",
                                                  "in_progress", "dead_letter"}
      PROVE  LedgerInv'
  <2>1. HandKnows'
    BY <1>3 DEF LedgerInv, HandKnows, ParentsDone
  <2>2. QED
    BY <1>1, <1>3, <2>1, StatusKept, QueueStep
<1>4. ASSUME NEW j \in Jobs, TimePasses(j)
      PROVE  LedgerInv'
  <2>1. \A k \in Jobs : jobs'[k].status = jobs[k].status
    BY <1>4 DEF TimePasses, LedgerInv, TypeInv, TypeOK, StoreTypeOK, Row
  <2>2. QED
    BY <1>3, <1>4, <2>1 DEF TimePasses, workerVars
<1>5. ASSUME Appending
      PROVE  LedgerInv'
  <2>1. UNCHANGED <<ledger, copies, tombstones, pc, cur>>
    BY <1>5 DEF Appending, BeginAppend, EnqueueDebt, CommitAppend, workerVars
  <2>2. jobs' = jobs \/ jobs' = Enqueued(append.event, append.staged)
    BY <1>5 DEF Appending, BeginAppend, EnqueueDebt, CommitAppend
  <2>3. \A j \in Jobs : jobs'[j].status \in {jobs[j].status, "pending"}
    BY <2>2 DEF Enqueued, Fresh
  <2>4. QED
    BY <1>3, <2>1, <2>3
<1>6. ASSUME AppendDies
      PROVE  LedgerInv'
  BY <1>3, <1>6 DEF AppendDies, CrashAppend
<1>7. QED
  BY <1>2, <1>4, <1>5, <1>6

LEMMA LedgerStep == LedgerInv /\ [Next]_vars => LedgerInv'
<1>1. ASSUME LedgerInv, UNCHANGED vars
      PROVE  LedgerInv'
  <2>1. TypeInv'
    BY <1>1, TypeStep DEF LedgerInv
  <2>2. UNCHANGED <<jobs, ledger, copies, tombstones, pc, cur>>
    BY <1>1 DEF vars, storeVars, workerVars
  <2>3. HandKnows'
    BY <1>1, <2>2 DEF LedgerInv, HandKnows, ParentsDone
  <2>4. QED
    BY <1>1, <2>1, <2>2, <2>3, QueueStep DEF LedgerInv, LedgerBacked, SkippedBlank
<1>2. ASSUME LedgerInv, NEW w \in Workers, WorkerStep(w)
      PROVE  LedgerInv'
  BY <1>2, ClaimLedger, ReadingLedger, OpenLedger, RecordLedger, EndingLedger,
     EnvironmentLedger DEF WorkerStep
<1>3. QED
  BY <1>1, <1>2, EnvironmentLedger DEF Next

LEMMA LedgerInvariant == Spec => []LedgerInv
BY InitLedger, LedgerStep, PTL DEF Spec

\* A completed job has its ledger row, whichever worker completed it and
\* however many leases, retries and crashes it took.
THEOREM CompletedIsRecorded == Spec => []LedgerBacked
<1>1. LedgerInv => LedgerBacked
  BY DEF LedgerInv
<1>2. QED
  BY <1>1, LedgerInvariant, PTL

\* No projection is ever in a target store without its ledger row, even when
\* a builder commits the transaction under the worker.
THEOREM ProjectionIsRecorded == Spec => []ProjectionRecorded
<1>1. LedgerInv => ProjectionRecorded
  BY DEF LedgerInv
<1>2. QED
  BY <1>1, LedgerInvariant, PTL

\* Projections are built in dependency order, although the check and the
\* build are separate steps and the parent's row may change in between.
THEOREM DependencyOrder == Spec => []ParentsFirst
<1>1. LedgerInv => ParentsFirst
  BY DEF LedgerInv
<1>2. QED
  BY <1>1, LedgerInvariant, PTL
=============================================================================
