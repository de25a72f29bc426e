-------------------------- MODULE ExactlyOnceProofs --------------------------
(* Why a debt is projected exactly once: what TLAPS proves of the workers  *)
(* for every number of them, of events, types, retries and crashes.  That  *)
(* an event and its debt are one, and that ledger and projection are, holds *)
(* however short the leases are; that nothing is built twice needs leases  *)
(* that outlast the batch, or targets that upsert.                         *)
EXTENDS ReconciliationWorkerProofs

-----------------------------------------------------------------------------
(* The write lock.  A transaction that is open holds it, and nobody else   *)
(* does: without that a worker that ends its transaction could release the *)
(* lock of an append.                                                      *)

LockInv ==
    /\ append.event # NoEvent <=> writer = Client
    /\ append.event = NoEvent => append = NoAppend
    /\ \A w \in Workers : writer = w <=> pc[w] \in {"write", "commit"}

LEMMA InitLock == Init => LockInv
BY StoreAssumption DEF Init, StoreInit, NoAppend, LockInv

\* A worker that takes or leaves the lock does it where its pc says so.
LEMMA WorkerLock ==
    ASSUME TypeInv, LockInv, NEW w \in Workers, UNCHANGED append,
           \A v \in Workers \ {w} : pc'[v] = pc[v],
           \/ /\ writer' = writer
              /\ pc'[w] \in {"write", "commit"} <=> pc[w] \in {"write", "commit"}
           \/ writer = Nobody /\ writer' = w /\ pc'[w] \in {"write", "commit"}
           \/ writer = w /\ writer' = w /\ pc'[w] \in {"write", "commit"}
           \/ writer = w /\ writer' = Nobody /\ pc'[w] \notin {"write", "commit"}
    PROVE  LockInv'
BY StoreAssumption DEF LockInv, NoAppend

\* Ending process() leaves the lock as it was: it has to be free for that.
LEMMA SettleLock ==
    ASSUME TypeInv, LockInv, NEW w \in Workers, NEW r, Settle(w, r),
           pc[w] \notin {"write", "commit"}
    PROVE  LockInv'
<1>1. /\ pc'[w] \in {"idle", "next"}
      /\ \A v \in Workers \ {w} : pc'[v] = pc[v]
  BY DEF Settle, Finished, Goto, TypeInv, TypeOK
<1>2. UNCHANGED <<append, writer>>
  BY DEF Settle
<1>3. QED
  BY <1>1, <1>2, WorkerLock

LEMMA WorkerStepLock ==
    ASSUME TypeInv, LockInv, NEW w \in Workers,
           WorkerStep(w) \/ CrashWorker(w) \/ StopWorker(w)
    PROVE  LockInv'
<1> USE DEF Goto, TypeInv, TypeOK
<1>1. CASE Claim(w)
  BY <1>1, WorkerLock DEF Claim
<1>2. CASE TakeJob(w) \/ CheckTombstone(w) \/ CheckDependencies(w) \/ DecideFailure(w)
  <2>1. UNCHANGED <<append, writer>>
    BY <1>2 DEF TakeJob, CheckTombstone, CheckDependencies, DecideFailure, ReadOnly,
                storeVars
  <2>2. \A v \in Workers \ {w} : pc'[v] = pc[v]
    BY <1>2 DEF TakeJob, CheckTombstone, CheckDependencies, DecideFailure, ReadOnly
  <2>3. pc[w] \notin {"write", "commit"} /\ pc'[w] \notin {"write", "commit"}
    BY <1>2 DEF TakeJob, CheckTombstone, CheckDependencies, DecideFailure, ReadOnly
  <2>4. QED
    BY <2>1, <2>2, <2>3, WorkerLock
<1>3. CASE InsertLedger(w) \/ BuilderWrites(w)
  BY <1>3, WorkerLock DEF InsertLedger, BuilderWrites, LockInv
<1>4. CASE BuilderDeclines(w) \/ BuilderMigrates(w) \/ CommitBuild(w)
  BY <1>4, WorkerLock DEF BuilderDeclines, BuilderMigrates, CommitBuild, LockInv
<1>5. CASE BuildRaises(w)
  BY <1>5, WorkerLock DEF BuildRaises, LockInv
<1>6. CASE PoisonKills(w)
  BY <1>6, WorkerLock DEF PoisonKills, Restarts, storeVars
<1>7. CASE CompleteJob(w) \/ SkipJob(w) \/ FailJob(w)
  BY <1>7, SettleLock DEF CompleteJob, SkipJob, FailJob
<1>8. CASE CrashWorker(w)
  BY <1>8, WorkerLock DEF CrashWorker, Halted, Restarts, LockInv
<1>9. CASE StopWorker(w)
  BY <1>9, WorkerLock DEF StopWorker, Halted, Restarts, storeVars
<1>10. QED
  BY <1>1, <1>2, <1>3, <1>4, <1>5, <1>6, <1>7, <1>8, <1>9 DEF WorkerStep

LEMMA LockStep == TypeInv /\ LockInv /\ [Next]_vars => LockInv'
<1>1. ASSUME TypeInv, LockInv, UNCHANGED <<append, writer, pc>>
      PROVE  LockInv'
  BY <1>1 DEF LockInv, NoAppend
<1>2. ASSUME TypeInv, LockInv, NEW j \in Jobs, TimePasses(j)
      PROVE  LockInv'
  BY <1>1, <1>2 DEF TimePasses, workerVars
<1>3. ASSUME TypeInv, LockInv, Appending
      PROVE  LockInv'
  <2>1. UNCHANGED pc
    BY <1>3 DEF Appending, workerVars
  <2>2. ASSUME NEW e \in Events, NEW T \in Debts, BeginAppend(e, T)
        PROVE  LockInv'
    BY <1>3, <2>1, <2>2, StoreAssumption DEF BeginAppend, LockInv
  <2>3. ASSUME NEW t \in Types, EnqueueDebt(t)
        PROVE  LockInv'
    <3>1. append.event # NoEvent
      BY <1>3, <2>3 DEF EnqueueDebt, LockInv, NoAppend
    <3>2. append'.event = append.event /\ writer' = writer
      BY <1>3, <2>3 DEF EnqueueDebt, TypeInv, TypeOK, StoreTypeOK
    <3>3. QED
      BY <1>3, <2>1, <3>1, <3>2 DEF LockInv
  <2>4. CASE CommitAppend
    BY <1>3, <2>1, <2>4, StoreAssumption DEF CommitAppend, LockInv, NoAppend
  <2>5. QED
    BY <1>3, <2>2, <2>3, <2>4 DEF Appending
<1>4. ASSUME TypeInv, LockInv, AppendDies
      PROVE  LockInv'
  BY <1>4, StoreAssumption DEF AppendDies, CrashAppend, LockInv, NoAppend
<1>5. QED
  BY <1>1, <1>2, <1>3, <1>4, WorkerStepLock DEF Next, vars, storeVars, workerVars

-----------------------------------------------------------------------------
(* Event and debt.  DebtRecorded is about what is committed; it is kept by  *)
(* an append because the open transaction stages exactly what is owed, for  *)
(* an event that is not there yet, and by the workers because they write    *)
(* only rows that are there already.                                        *)

HeldBy(w, j) == j = cur[w] \/ j \in claimed[w]

StagedInv ==
    append.event # NoEvent =>
        /\ append.event \notin events
        /\ owed[append.event] = append.todo \cup append.staged

HeldExists ==
    \A w \in Workers, j \in Jobs : HeldBy(w, j) => jobs[j].status # "absent"

DebtInv ==
    /\ TypeInv
    /\ LockInv
    /\ StagedInv
    /\ HeldExists
    /\ DebtRecorded

LEMMA InitDebt == Init => DebtInv
<1>1. Init => StagedInv /\ HeldExists
  BY WorkerAssumption DEF Init, StoreInit, NoAppend, StagedInv, HeldExists, HeldBy
<1>2. Init => DebtRecorded
  BY DEF Init, StoreInit, Absent, DebtRecorded
<1>3. QED
  BY <1>1, <1>2, InitType, InitLock DEF DebtInv

\* What a step that appends nothing has to show.
LEMMA QueueDebt ==
    ASSUME DebtInv, TypeInv', LockInv', UNCHANGED <<events, owed, append>>,
           \A j \in Jobs : jobs'[j].status = "absent" <=> jobs[j].status = "absent",
           \A w \in Workers, j \in Jobs :
              HeldBy(w, j)' => HeldBy(w, j) \/ jobs[j].status # "absent"
    PROVE  DebtInv'
<1>1. StagedInv'
  BY DEF DebtInv, StagedInv
<1>2. HeldExists'
  BY DEF DebtInv, HeldExists
<1>3. DebtRecorded'
  <2>1. \A e \in events : \A t \in owed[e] : <<e, t>> \in Jobs
    BY DEF DebtInv, TypeInv, TypeOK, StoreTypeOK, Jobs
  <2>2. QED
    BY <2>1 DEF DebtInv, DebtRecorded
<1>4. QED
  BY <1>1, <1>2, <1>3 DEF DebtInv

\* A claim takes rows that are there, and leaves rows there.
LEMMA ClaimDebt ==
    ASSUME DebtInv, TypeInv', LockInv', NEW w \in Workers, Claim(w)
    PROVE  DebtInv'
<1>1. PICK batch \in SUBSET ({j \in Jobs : Claimable(j)} \ Yielding) :
        /\ jobs' = [j \in Jobs |->
                       CASE j \in batch    -> ClaimedRow(jobs[j])
                         [] j \in Yielding -> YieldedRow(jobs[j])
                         [] OTHER          -> jobs[j]]
        /\ claimed' = [claimed EXCEPT ![w] = batch]
  BY DEF Claim
<1>2. UNCHANGED <<events, owed, append, cur>>
  BY DEF Claim
<1>3. \A j \in batch \cup Yielding : jobs[j].status # "absent"
  BY DEF Claimable, Unsettled, Yielding, Expired
<1>4. ASSUME NEW j \in Jobs
      PROVE  jobs'[j].status = "absent" <=> jobs[j].status = "absent"
  <2>1. jobs[j] \in Row
    BY DEF DebtInv, TypeInv, TypeOK, StoreTypeOK
  <2>2. /\ ClaimedRow(jobs[j]).status = "in_progress"
        /\ YieldedRow(jobs[j]).status = "pending"
    BY <2>1 DEF ClaimedRow, YieldedRow, Row
  <2>3. \/ jobs'[j] = jobs[j]
        \/ j \in batch \cup Yielding /\ jobs'[j] \in {ClaimedRow(jobs[j]), YieldedRow(jobs[j])}
    BY <1>1
  <2>4. QED
    BY <1>3, <2>2, <2>3
<1>5. \A v \in Workers, j \in Jobs :
        HeldBy(v, j)' => HeldBy(v, j) \/ jobs[j].status # "absent"
  BY <1>1, <1>2, <1>3 DEF HeldBy, DebtInv, TypeInv, TypeOK
<1>6. QED
  BY <1>2, <1>4, <1>5, QueueDebt

\* The row a worker settles was claimed, so it is there, and stays there.
LEMMA EndingDebt ==
    ASSUME DebtInv, TypeInv', LockInv', NEW w \in Workers,
           CompleteJob(w) \/ SkipJob(w) \/ FailJob(w)
    PROVE  DebtInv'
<1>1. /\ cur[w] \in Jobs
      /\ jobs[cur[w]] \in Row
      /\ jobs[cur[w]].status # "absent"
  BY DEF CompleteJob, SkipJob, FailJob, DebtInv, TypeInv, TypeOK, StoreTypeOK, HandOK,
         HeldExists, HeldBy
<1>2. PICK r : Settle(w, r) /\ r.status # "absent"
  <2>1. /\ CompletedRow(jobs[cur[w]]).status # "absent"
        /\ SkippedRow(jobs[cur[w]]).status # "absent"
        /\ DeadRow(jobs[cur[w]]).status # "absent"
        /\ RetryRow(jobs[cur[w]]).status # "absent"
    BY <1>1 DEF CompletedRow, SkippedRow, DeadRow, RetryRow, Row
  <2>2. QED
    BY <2>1 DEF CompleteJob, SkipJob, FailJob
<1>3. \A j \in Jobs : jobs'[j].status = "absent" <=> jobs[j].status = "absent"
  BY <1>1, <1>2 DEF Settle, DebtInv, TypeInv, TypeOK, StoreTypeOK
<1>4. \A v \in Workers, j \in Jobs : HeldBy(v, j)' => HeldBy(v, j)
  BY <1>2, WorkerAssumption
     DEF Settle, Finished, memoryVars, HeldBy, DebtInv, TypeInv, TypeOK
<1>5. UNCHANGED <<events, owed, append>>
  BY <1>2 DEF Settle
<1>6. QED
  BY <1>3, <1>4, <1>5, QueueDebt

\* Every other step of a worker leaves the queue alone and takes up, at most,
\* what it holds.
LEMMA HandDebt ==
    ASSUME DebtInv, TypeInv', LockInv', NEW w \in Workers,
           \/ TakeJob(w) \/ CheckTombstone(w) \/ CheckDependencies(w)
           \/ InsertLedger(w) \/ BuilderDeclines(w) \/ BuilderMigrates(w)
           \/ BuilderWrites(w) \/ BuildRaises(w) \/ CommitBuild(w)
           \/ DecideFailure(w) \/ PoisonKills(w) \/ CrashWorker(w) \/ StopWorker(w)
    PROVE  DebtInv'
<1>1. UNCHANGED <<events, owed, append, jobs>>
  BY DEF TakeJob, CheckTombstone, CheckDependencies, InsertLedger, BuilderDeclines,
         BuilderMigrates, BuilderWrites, BuildRaises, CommitBuild, DecideFailure,
         PoisonKills, CrashWorker, StopWorker, ReadOnly, storeVars
<1>2. \A v \in Workers, j \in Jobs : HeldBy(v, j)' => HeldBy(v, j)
  <2>1. CASE TakeJob(w)
    BY <2>1 DEF TakeJob, HeldBy, DebtInv, TypeInv, TypeOK
  <2>2. CASE PoisonKills(w) \/ CrashWorker(w) \/ StopWorker(w)
    BY <2>2, WorkerAssumption
       DEF PoisonKills, CrashWorker, StopWorker, Halted, Restarts, HeldBy, DebtInv,
           TypeInv, TypeOK
  <2>3. CASE \/ CheckTombstone(w) \/ CheckDependencies(w) \/ InsertLedger(w)
             \/ BuilderDeclines(w) \/ BuilderMigrates(w) \/ BuilderWrites(w)
             \/ BuildRaises(w) \/ CommitBuild(w) \/ DecideFailure(w)
    <3>1. UNCHANGED <<cur, claimed>>
      BY <2>3 DEF CheckTombstone, CheckDependencies, InsertLedger, BuilderDeclines,
                  BuilderMigrates, BuilderWrites, BuildRaises, CommitBuild,
                  DecideFailure, ReadOnly, memoryVars
    <3>2. QED
      BY <3>1 DEF HeldBy
  <2>4. QED
    BY <2>1, <2>2, <2>3
<1>3. QED
  BY <1>1, <1>2, QueueDebt

\* The append, where the debt of an event becomes durable with it.
LEMMA AppendDebt ==
    ASSUME DebtInv, TypeInv', LockInv', Appending \/ AppendDies
    PROVE  DebtInv'
<1>1. UNCHANGED <<cur, claimed>>
  BY DEF Appending, AppendDies, workerVars
<1>2. ASSUME NEW e \in Events, NEW T \in Debts, BeginAppend(e, T)
      PROVE  DebtInv'
  <2>1. StagedInv'
    BY <1>2 DEF BeginAppend, StagedInv, DebtInv, TypeInv, TypeOK, StoreTypeOK
  <2>2. DebtRecorded'
    BY <1>2 DEF BeginAppend, DebtRecorded, DebtInv, TypeInv, TypeOK, StoreTypeOK
  <2>3. HeldExists'
    BY <1>1, <1>2 DEF BeginAppend, HeldExists, HeldBy, DebtInv
  <2>4. QED
    BY <2>1, <2>2, <2>3 DEF DebtInv
<1>3. ASSUME NEW t \in Types, EnqueueDebt(t)
      PROVE  DebtInv'
  <2>1. /\ append'.event = append.event
        /\ append'.todo \cup append'.staged = append.todo \cup append.staged
    BY <1>3 DEF EnqueueDebt, DebtInv, TypeInv, TypeOK, StoreTypeOK
  <2>2. StagedInv'
    BY <1>3, <2>1 DEF EnqueueDebt, StagedInv, DebtInv
  <2>3. DebtRecorded' /\ HeldExists'
    BY <1>1, <1>3 DEF EnqueueDebt, DebtRecorded, HeldExists, HeldBy, DebtInv
  <2>4. QED
    BY <2>2, <2>3 DEF DebtInv
<1>4. ASSUME CommitAppend
      PROVE  DebtInv'
  <2>1. /\ append.event \in Events
        /\ owed[append.event] = append.staged
        /\ append.staged \subseteq Types
    BY <1>4 DEF CommitAppend, StagedInv, DebtInv, TypeInv, TypeOK, StoreTypeOK
  <2>2. \A j \in Jobs :
          /\ jobs'[j].status = "absent" => jobs[j].status = "absent"
          /\ jobs'[j].status # "absent" =>
                jobs[j].status # "absent" \/ j[1] = append.event
          /\ j[1] = append.event /\ j[2] \in append.staged => jobs'[j].status # "absent"
    BY <1>4 DEF CommitAppend, Enqueued, Fresh
  <2>3. HeldExists'
    BY <1>1, <2>2 DEF HeldExists, HeldBy, DebtInv
  <2>4. ASSUME NEW e \in events', NEW t \in owed'[e]
        PROVE  jobs'[<<e, t>>].status # "absent"
    <3>1. owed' = owed /\ events' = events \cup {append.event}
      BY <1>4 DEF CommitAppend
    <3>2. <<e, t>> \in Jobs
      BY <3>1, <2>1, <2>4 DEF Jobs, DebtInv, TypeInv, TypeOK, StoreTypeOK
    <3>3. CASE e \in events
      BY <3>1, <3>2, <3>3, <2>2, <2>4 DEF DebtInv, DebtRecorded
    <3>4. CASE e = append.event
      BY <3>1, <3>2, <3>4, <2>1, <2>2, <2>4
    <3>5. QED
      BY <3>1, <3>3, <3>4, <2>4
  <2>5. DebtRecorded'
    BY <1>4, <2>2, <2>4 DEF CommitAppend, DebtRecorded, DebtInv
  <2>6. StagedInv'
    BY <1>4 DEF CommitAppend, NoAppend, StagedInv
  <2>7. QED
    BY <2>3, <2>5, <2>6 DEF DebtInv
<1>5. ASSUME AppendDies
      PROVE  DebtInv'
  <2>1. StagedInv'
    BY <1>5 DEF AppendDies, CrashAppend, NoAppend, StagedInv
  <2>2. DebtRecorded' /\ HeldExists'
    BY <1>1, <1>5 DEF AppendDies, CrashAppend, DebtRecorded, HeldExists, HeldBy, DebtInv
  <2>3. QED
    BY <2>1, <2>2 DEF DebtInv
<1>6. QED
  BY <1>2, <1>3, <1>4, <1>5 DEF Appending

LEMMA DebtStep == DebtInv /\ [Next]_vars => DebtInv'
<1> SUFFICES ASSUME DebtInv, [Next]_vars
             PROVE  DebtInv'
  OBVIOUS
<1>1. TypeInv' /\ LockInv'
  BY TypeStep, LockStep DEF DebtInv
<1>2. CASE UNCHANGED vars
  BY <1>1, <1>2, QueueDebt DEF vars, storeVars, workerVars, HeldBy
<1>3. ASSUME NEW w \in Workers, WorkerStep(w) \/ CrashWorker(w) \/ StopWorker(w)
      PROVE  DebtInv'
  BY <1>1, <1>3, ClaimDebt, HandDebt, EndingDebt DEF WorkerStep
<1>4. ASSUME NEW j \in Jobs, TimePasses(j)
      PROVE  DebtInv'
  <2>1. \A k \in Jobs : jobs'[k].status = jobs[k].status
    BY <1>4 DEF TimePasses, DebtInv, TypeInv, TypeOK, StoreTypeOK, Row
  <2>2. UNCHANGED <<events, owed, append, cur, claimed>>
    BY <1>4 DEF TimePasses, workerVars
  <2>3. QED
    BY <1>1, <2>1, <2>2, QueueDebt DEF HeldBy
<1>5. QED
  BY <1>1, <1>2, <1>3, <1>4, AppendDebt DEF Next

LEMMA DebtInvariant == Spec => []DebtInv
<1>1. Init => DebtInv
  BY InitDebt
<1>2. QED
  BY <1>1, DebtStep, PTL DEF Spec

\* Event and debt commit together or not at all: whatever crashes in between,
\* an event that is there owes what it was appended with, and no row of the
\* outbox is about an event that is not there.
THEOREM DebtIsDurable == Spec => []DebtRecorded
<1>1. DebtInv => DebtRecorded
  BY DEF DebtInv
<1>2. QED
  BY <1>1, DebtInvariant, PTL

-----------------------------------------------------------------------------
(* Nothing is built twice, if leases outlast the batch.  AtMostOnce speaks  *)
(* of rows in a target store; what keeps them at one is that a job is in    *)
(* one worker's hands at a time, because the lease of a job somebody holds  *)
(* does not run out, and that a worker on its way to the build still is     *)
(* right about what it read in the ledger, because only the holder of a job *)
(* records it there.                                                        *)

Separate ==
    /\ \A w \in Workers : pc[w] \in {"idle", "next"} => cur[w] = NoJob
    /\ \A w \in Workers : cur[w] \notin claimed[w]
    /\ \A v, w \in Workers, j \in Jobs : HeldBy(v, j) /\ HeldBy(w, j) => v = w

HeldLive ==
    \A w \in Workers, j \in Jobs :
        HeldBy(w, j) => jobs[j].status = "in_progress" /\ ~jobs[j].due

HandsFresh ==
    \A w \in Workers :
        /\ pc[w] \in {"buried", "dependency", "build", "write"} => cur[w] \notin ledger
        /\ pc[w] \in {"late_write", "commit"} => copies[cur[w]] = 0

LeaseInv == Separate /\ HeldLive /\ HandsFresh /\ AtMostOnce

\* What these steps rely on; deletions and repairs keep it too.
RowsInv == TypeInv /\ ProjectionRecorded

LEMMA InitLease == Init => LeaseInv
<1>1. Init => Separate /\ HeldLive /\ HandsFresh
  BY WorkerAssumption DEF Init, Separate, HeldLive, HandsFresh, HeldBy
<1>2. Init => AtMostOnce
  BY DEF Init, StoreInit, AtMostOnce
<1>3. QED
  BY <1>1, <1>2 DEF LeaseInv

\* A worker moves within process(), and writes no projection.
LEMMA MoveLease ==
    ASSUME RowsInv, LeaseInv, NEW w \in Workers,
           UNCHANGED <<cur, claimed, jobs, ledger, copies>>,
           \A v \in Workers \ {w} : pc'[v] = pc[v],
           pc'[w] \notin {"idle", "next"},
           /\ pc'[w] \in {"buried", "dependency", "build", "write"} => cur[w] \notin ledger
           /\ pc'[w] \in {"late_write", "commit"} => copies[cur[w]] = 0
    PROVE  LeaseInv'
BY DEF LeaseInv, Separate, HeldLive, HandsFresh, AtMostOnce, HeldBy

\* The steps of process() up to the commit.
LEMMA ProcessLease ==
    ASSUME RowsInv, LeaseInv, NEW w \in Workers,
           \/ CheckTombstone(w) \/ CheckDependencies(w) \/ InsertLedger(w)
           \/ BuilderDeclines(w) \/ BuilderWrites(w) \/ BuildRaises(w)
           \/ DecideFailure(w)
    PROVE  LeaseInv'
<1>1. UNCHANGED <<cur, claimed, jobs, ledger, copies>>
  BY DEF CheckTombstone, CheckDependencies, InsertLedger, BuilderDeclines,
         BuilderWrites, BuildRaises, DecideFailure, ReadOnly, storeVars, memoryVars
<1>2. \A v \in Workers \ {w} : pc'[v] = pc[v]
  BY DEF CheckTombstone, CheckDependencies, InsertLedger, BuilderDeclines,
         BuilderWrites, BuildRaises, DecideFailure, ReadOnly, Goto, RowsInv,
         TypeInv, TypeOK
<1>3. /\ pc'[w] \notin {"idle", "next", "late_write"}
      /\ pc'[w] \in {"buried", "dependency", "build", "write"} =>
            pc[w] \in {"buried", "dependency", "build"}
      /\ pc'[w] = "commit" => pc[w] \in {"write", "late_write"}
  BY DEF CheckTombstone, CheckDependencies, InsertLedger, BuilderDeclines,
         BuilderWrites, BuildRaises, DecideFailure, ReadOnly, Goto, RowsInv,
         TypeInv, TypeOK
<1>4. pc[w] = "write" => copies[cur[w]] = 0
  <2>1. pc[w] = "write" => cur[w] \in Jobs /\ cur[w] \notin ledger
    BY DEF RowsInv, TypeInv, HandOK, LeaseInv, HandsFresh
  <2>2. \A j \in Jobs : j \notin ledger => copies[j] = 0
    BY DEF RowsInv, ProjectionRecorded, TypeInv, TypeOK, StoreTypeOK
  <2>3. QED
    BY <2>1, <2>2
<1>5. QED
  BY <1>1, <1>2, <1>3, <1>4, MoveLease DEF LeaseInv, HandsFresh

\* Whoever records a job holds it, so nobody else's reading of the ledger
\* becomes false.
LEMMA RecordLease ==
    ASSUME RowsInv, LeaseInv, NEW w \in Workers, BuilderMigrates(w) \/ CommitBuild(w)
    PROVE  LeaseInv'
<1>1. /\ cur[w] \in Jobs
      /\ ledger' = ledger \cup {cur[w]}
      /\ UNCHANGED <<cur, claimed, jobs>>
      /\ \A v \in Workers \ {w} : pc'[v] = pc[v]
      /\ pc'[w] \in {"late_write", "ack"}
  BY DEF BuilderMigrates, CommitBuild, memoryVars, Goto, RowsInv, TypeInv, TypeOK, HandOK
<1>2. Separate' /\ HeldLive'
  BY <1>1 DEF LeaseInv, Separate, HeldLive, HeldBy
<1>3. \A v \in Workers \ {w} : cur[v] # cur[w]
  BY <1>1 DEF LeaseInv, Separate, HeldBy
<1>4. CASE BuilderMigrates(w)
  <2>1. copies[cur[w]] = 0 /\ UNCHANGED copies
    BY <1>1, <1>4 DEF BuilderMigrates, LeaseInv, HandsFresh, RowsInv,
                      ProjectionRecorded, TypeInv, TypeOK, StoreTypeOK
  <2>2. HandsFresh' /\ AtMostOnce'
    BY <1>1, <1>3, <2>1 DEF LeaseInv, HandsFresh, AtMostOnce
  <2>3. QED
    BY <1>2, <2>2 DEF LeaseInv
<1>5. CASE CommitBuild(w)
  <2>1. copies[cur[w]] = 0
    BY <1>5 DEF CommitBuild, LeaseInv, HandsFresh
  <2>2. copies' = [copies EXCEPT ![cur[w]] = 1]
    BY <1>1, <1>5, <2>1 DEF CommitBuild, Written, RowsInv, TypeInv, TypeOK, StoreTypeOK
  <2>3. pc'[w] = "ack"
    BY <1>5 DEF CommitBuild, Goto, RowsInv, TypeInv, TypeOK
  <2>4. ASSUME NEW v \in Workers \ {w}, pc[v] \in {"late_write", "commit"}
        PROVE  copies'[cur[v]] = 0
    <3>1. cur[v] \in Jobs /\ copies[cur[v]] = 0
      BY <2>4 DEF RowsInv, TypeInv, HandOK, LeaseInv, HandsFresh
    <3>2. QED
      BY <1>3, <2>2, <3>1 DEF RowsInv, TypeInv, TypeOK, StoreTypeOK
  <2>5. HandsFresh'
    BY <1>1, <1>3, <2>3, <2>4 DEF LeaseInv, HandsFresh
  <2>6. AtMostOnce'
    BY <1>1, <2>2 DEF LeaseInv, AtMostOnce, RowsInv, TypeInv, TypeOK, StoreTypeOK
  <2>7. QED
    BY <1>2, <2>5, <2>6 DEF LeaseInv
<1>6. QED
  BY <1>4, <1>5

\* A job taken up was claimed by the same worker: it only changes hands.
LEMMA TakeLease ==
    ASSUME RowsInv, LeaseInv, NEW w \in Workers, TakeJob(w)
    PROVE  LeaseInv'
<1>1. PICK j \in claimed[w] :
        /\ cur' = [cur EXCEPT ![w] = j]
        /\ claimed' = [claimed EXCEPT ![w] = claimed[w] \ {j}]
        /\ pc' = [pc EXCEPT ![w] = IF j \in ledger THEN "ack" ELSE "buried"]
  BY DEF TakeJob, Goto
<1>2. UNCHANGED <<jobs, ledger, copies>>
  BY DEF TakeJob, storeVars
<1>3. \A v \in Workers, k \in Jobs : HeldBy(v, k)' => HeldBy(v, k)
  BY <1>1 DEF HeldBy, RowsInv, TypeInv, TypeOK
<1>4. Separate'
  <2>1. \A v, u \in Workers, k \in Jobs : (HeldBy(v, k) /\ HeldBy(u, k))' => v = u
    BY <1>3 DEF LeaseInv, Separate
  <2>2. \A v \in Workers : cur'[v] \notin claimed'[v]
    BY <1>1 DEF LeaseInv, Separate, RowsInv, TypeInv, TypeOK
  <2>3. \A v \in Workers : pc'[v] \in {"idle", "next"} => cur'[v] = NoJob
    BY <1>1 DEF LeaseInv, Separate, RowsInv, TypeInv, TypeOK
  <2>4. QED
    BY <2>1, <2>2, <2>3 DEF Separate
<1>5. HeldLive'
  BY <1>2, <1>3 DEF LeaseInv, HeldLive
<1>6. HandsFresh' /\ AtMostOnce'
  BY <1>1, <1>2 DEF LeaseInv, HandsFresh, AtMostOnce, RowsInv, TypeInv, TypeOK
<1>7. QED
  BY <1>4, <1>5, <1>6 DEF LeaseInv

\* What is claimed is due, and what is held is not.
LEMMA ClaimLease ==
    ASSUME RowsInv, LeaseInv, NEW w \in Workers, Claim(w)
    PROVE  LeaseInv'
<1>1. PICK batch \in SUBSET ({j \in Jobs : Claimable(j)} \ Yielding) :
        /\ jobs' = [j \in Jobs |->
                       CASE j \in batch    -> ClaimedRow(jobs[j])
                         [] j \in Yielding -> YieldedRow(jobs[j])
                         [] OTHER          -> jobs[j]]
        /\ claimed' = [claimed EXCEPT ![w] = batch]
  BY DEF Claim
<1>2. /\ UNCHANGED <<cur, ledger, copies>>
      /\ pc' = [pc EXCEPT ![w] = "next"]
      /\ pc[w] = "idle"
  BY DEF Claim, Goto
<1>3. cur[w] = NoJob
  BY <1>2 DEF LeaseInv, Separate
<1>4. \A v \in Workers, j \in Jobs : HeldBy(v, j) => j \notin batch \cup Yielding
  BY DEF LeaseInv, HeldLive, Claimable, Yielding, Expired
<1>5. \A v \in Workers \ {w}, j \in Jobs : HeldBy(v, j)' => HeldBy(v, j)
  BY <1>1, <1>2 DEF HeldBy, RowsInv, TypeInv, TypeOK
<1>6. \A j \in Jobs : HeldBy(w, j)' => j \in batch
  BY <1>1, <1>2, <1>3, WorkerAssumption DEF HeldBy, RowsInv, TypeInv, TypeOK
<1>7. Separate'
  <2>1. ASSUME NEW v \in Workers, NEW u \in Workers, NEW j \in Jobs,
               HeldBy(v, j)', HeldBy(u, j)'
        PROVE  v = u
    BY <1>4, <1>5, <1>6, <2>1 DEF LeaseInv, Separate
  <2>2. \A v \in Workers : cur'[v] \notin claimed'[v]
    BY <1>1, <1>2, <1>3, WorkerAssumption DEF LeaseInv, Separate, RowsInv, TypeInv, TypeOK
  <2>3. \A v \in Workers : pc'[v] \in {"idle", "next"} => cur'[v] = NoJob
    BY <1>2, <1>3 DEF LeaseInv, Separate, RowsInv, TypeInv, TypeOK
  <2>4. QED
    BY <2>1, <2>2, <2>3 DEF Separate
<1>8. HeldLive'
  <2>1. ASSUME NEW j \in Jobs, j \in batch
        PROVE  jobs'[j].status = "in_progress" /\ ~jobs'[j].due
    BY <1>1, <2>1 DEF ClaimedRow
  <2>2. ASSUME NEW v \in Workers \ {w}, NEW j \in Jobs, HeldBy(v, j)'
        PROVE  jobs'[j].status = "in_progress" /\ ~jobs'[j].due
    <3>1. HeldBy(v, j) /\ jobs'[j] = jobs[j]
      BY <1>1, <1>4, <1>5, <2>2
    <3>2. QED
      BY <3>1 DEF LeaseInv, HeldLive
  <2>3. QED
    BY <1>6, <2>1, <2>2 DEF HeldLive
<1>9. HandsFresh' /\ AtMostOnce'
  BY <1>2 DEF LeaseInv, HandsFresh, AtMostOnce, RowsInv, TypeInv, TypeOK
<1>10. QED
  BY <1>7, <1>8, <1>9 DEF LeaseInv

\* A worker lets go of what it held.
LEMMA ReleaseLease ==
    ASSUME RowsInv, LeaseInv, NEW w \in Workers,
           UNCHANGED <<ledger, copies>>,
           \A v \in Workers \ {w} :
              pc'[v] = pc[v] /\ cur'[v] = cur[v] /\ claimed'[v] = claimed[v],
           pc'[w] \in {"idle", "next"},
           cur'[w] = NoJob,
           claimed'[w] \subseteq claimed[w],
           \A j \in Jobs : j # cur[w] => jobs'[j] = jobs[j],
           jobs' = jobs \/ cur[w] \in Jobs
    PROVE  LeaseInv'
<1>1. \A v \in Workers, j \in Jobs : HeldBy(v, j)' => HeldBy(v, j)
  BY WorkerAssumption DEF HeldBy
<1>2. Separate'
  <2>1. \A v, u \in Workers, j \in Jobs : (HeldBy(v, j) /\ HeldBy(u, j))' => v = u
    BY <1>1 DEF LeaseInv, Separate
  <2>2. NoJob \notin claimed'[w]
    BY WorkerAssumption DEF RowsInv, TypeInv, TypeOK
  <2>3. QED
    BY <2>1, <2>2 DEF LeaseInv, Separate
<1>3. HeldLive'
  <2>1. SUFFICES ASSUME NEW v \in Workers, NEW j \in Jobs, HeldBy(v, j)'
                 PROVE  jobs'[j] = jobs[j]
    BY <1>1 DEF LeaseInv, HeldLive
  <2>2. CASE jobs' = jobs
    BY <2>2
  <2>3. CASE cur[w] \in Jobs
    <3>1. ASSUME j = cur[w]
          PROVE  FALSE
      <4>1. v = w
        BY <1>1, <2>1, <2>3, <3>1 DEF LeaseInv, Separate, HeldBy
      <4>2. j \in claimed[w]
        BY <2>1, <4>1, WorkerAssumption DEF HeldBy
      <4>3. QED
        BY <3>1, <4>2 DEF LeaseInv, Separate
    <3>2. QED
      BY <3>1
  <2>4. QED
    BY <2>2, <2>3
<1>4. HandsFresh' /\ AtMostOnce'
  BY DEF LeaseInv, HandsFresh, AtMostOnce
<1>5. QED
  BY <1>2, <1>3, <1>4 DEF LeaseInv

\* The write that ends process(), and the deaths of a worker.
LEMMA EndingLease ==
    ASSUME RowsInv, LeaseInv, NEW w \in Workers,
           \/ CompleteJob(w) \/ SkipJob(w) \/ FailJob(w)
           \/ PoisonKills(w) \/ CrashWorker(w) \/ StopWorker(w)
    PROVE  LeaseInv'
<1>1. ASSUME NEW r, Settle(w, r), cur[w] \in Jobs
      PROVE  LeaseInv'
  <2>1. /\ UNCHANGED <<ledger, copies, claimed>>
        /\ jobs' = [jobs EXCEPT ![cur[w]] = r]
        /\ pc' = [pc EXCEPT ![w] = IF claimed[w] = {} THEN "idle" ELSE "next"]
        /\ cur' = [cur EXCEPT ![w] = NoJob]
    BY <1>1 DEF Settle, Finished, Goto, memoryVars
  <2>2. QED
    BY <1>1, <2>1, ReleaseLease DEF RowsInv, TypeInv, TypeOK, StoreTypeOK
<1>2. ASSUME Restarts(w), UNCHANGED <<ledger, copies, jobs>>
      PROVE  LeaseInv'
  BY <1>2, ReleaseLease DEF Restarts, Goto, RowsInv, TypeInv, TypeOK
<1>3. CASE CompleteJob(w) \/ SkipJob(w) \/ FailJob(w)
  BY <1>1, <1>3 DEF CompleteJob, SkipJob, FailJob, RowsInv, TypeInv, HandOK
<1>4. CASE PoisonKills(w) \/ CrashWorker(w) \/ StopWorker(w)
  BY <1>2, <1>4 DEF PoisonKills, CrashWorker, StopWorker, Halted, storeVars
<1>5. QED
  BY <1>3, <1>4

\* The client and time: no job that somebody holds is touched.
LEMMA EnvironmentLease ==
    ASSUME LeaseOutlastsBatch, RowsInv, LeaseInv,
           (\E j \in Jobs : TimePasses(j)) \/ Appending \/ AppendDies
    PROVE  LeaseInv'
<1>1. UNCHANGED <<pc, cur, claimed, ledger, copies>>
  BY DEF TimePasses, Appending, AppendDies, BeginAppend, EnqueueDebt, CommitAppend,
         CrashAppend, workerVars
<1>2. ASSUME NEW w \in Workers, NEW k \in Jobs, HeldBy(w, k)
      PROVE  jobs'[k] = jobs[k]
  <2>1. jobs[k].status = "in_progress"
    BY <1>2 DEF LeaseInv, HeldLive
  <2>2. ASSUME NEW j \in Jobs, TimePasses(j)
        PROVE  jobs'[k] = jobs[k]
    <3>1. j # k
      BY <1>2, <2>1, <2>2 DEF TimePasses, InHand, HeldBy
    <3>2. QED
      BY <2>2, <3>1 DEF TimePasses, RowsInv, TypeInv, TypeOK, StoreTypeOK
  <2>3. CASE Appending \/ AppendDies
    BY <2>1, <2>3 DEF Appending, AppendDies, BeginAppend, EnqueueDebt, CommitAppend,
                      CrashAppend, Enqueued
  <2>4. QED
    BY <2>2, <2>3
<1>3. Separate' /\ HandsFresh' /\ AtMostOnce'
  BY <1>1 DEF LeaseInv, Separate, HandsFresh, AtMostOnce, HeldBy
<1>4. HeldLive'
  BY <1>1, <1>2 DEF LeaseInv, HeldLive, HeldBy
<1>5. QED
  BY <1>3, <1>4 DEF LeaseInv

LEMMA LeaseStep ==
    ASSUME LeaseOutlastsBatch
    PROVE  RowsInv /\ LeaseInv /\ [Next]_vars => LeaseInv'
<1> SUFFICES ASSUME RowsInv, LeaseInv, [Next]_vars
             PROVE  LeaseInv'
  OBVIOUS
<1>1. CASE UNCHANGED vars
  BY <1>1 DEF vars, storeVars, workerVars, LeaseInv, Separate, HeldLive, HandsFresh,
              AtMostOnce, HeldBy
<1>2. ASSUME NEW w \in Workers, WorkerStep(w) \/ CrashWorker(w) \/ StopWorker(w)
      PROVE  LeaseInv'
  BY <1>2, ClaimLease, TakeLease, ProcessLease, RecordLease, EndingLease DEF WorkerStep
<1>3. QED
  BY <1>1, <1>2, EnvironmentLease DEF Next

LEMMA LeaseInvariant ==
    ASSUME LeaseOutlastsBatch
    PROVE  Spec => []LeaseInv
<1>1. LedgerInv => RowsInv
  BY DEF LedgerInv, RowsInv
<1>2. QED
  BY <1>1, InitLease, LeaseStep, LedgerInvariant, PTL DEF Spec

\* Exactly-once effect: as long as leases outlast the batch, no retry, crash
\* or reclaimed lease leaves two projections of one key, whatever the builder.
THEOREM ExactlyOnce ==
    ASSUME LeaseOutlastsBatch
    PROVE  Spec => []AtMostOnce
<1>1. LeaseInv => AtMostOnce
  BY DEF LeaseInv
<1>2. Spec => []LeaseInv
  BY LeaseInvariant
<1>3. QED
  BY <1>1, <1>2, PTL

-----------------------------------------------------------------------------
(* A target that upserts by key holds one row of it, whoever else builds.   *)

UpsertedOnce == \A j \in Jobs : j[2] \in Upserts => copies[j] <= 1

LEMMA UpsertStep == TypeInv /\ UpsertedOnce /\ [Next]_vars => UpsertedOnce'
<1> SUFFICES ASSUME TypeInv, UpsertedOnce, [Next]_vars
             PROVE  UpsertedOnce'
  OBVIOUS
<1>1. CASE UNCHANGED copies
  BY <1>1 DEF UpsertedOnce
<1>2. ASSUME NEW w \in Workers, CommitBuild(w)
      PROVE  UpsertedOnce'
  <2>1. cur[w] \in Jobs
    BY <1>2 DEF CommitBuild, TypeInv, HandOK
  <2>2. ASSUME NEW j \in Jobs, j[2] \in Upserts
        PROVE  copies'[j] <= 1
    BY <1>2, <2>1, <2>2 DEF CommitBuild, Written, UpsertedOnce, TypeInv, TypeOK,
                            StoreTypeOK
  <2>3. QED
    BY <2>2 DEF UpsertedOnce
<1>3. UNCHANGED copies \/ \E w \in Workers : CommitBuild(w)
  BY DEF Next, vars, storeVars, WorkerStep, Claim, TakeJob, CheckTombstone,
         CheckDependencies, InsertLedger, BuilderDeclines, BuilderMigrates,
         BuilderWrites, BuildRaises, PoisonKills, CompleteJob, SkipJob,
         DecideFailure, FailJob, Settle, ReadOnly, CrashWorker, StopWorker,
         TimePasses, Appending, BeginAppend, EnqueueDebt, CommitAppend,
         AppendDies, CrashAppend
<1>4. QED
  BY <1>1, <1>2, <1>3

-----------------------------------------------------------------------------
(* Ledger and projection.  A builder that runs no schema script leaves the  *)
(* transaction whole, and the two are one, however short the leases.        *)

\* Who writes the ledger, and what with it.
LEMMA LedgerWrites ==
    ASSUME Migrating = {}, [Next]_vars
    PROVE  UNCHANGED <<ledger, copies>> \/ \E w \in Workers : CommitBuild(w)
BY DEF Next, vars, storeVars, WorkerStep, Claim, TakeJob, CheckTombstone,
       CheckDependencies, InsertLedger, BuilderDeclines, BuilderMigrates,
       BuilderWrites, BuildRaises, PoisonKills, CompleteJob, SkipJob,
       DecideFailure, FailJob, Settle, ReadOnly, CrashWorker, StopWorker,
       TimePasses, Appending, BeginAppend, EnqueueDebt, CommitAppend,
       AppendDies, CrashAppend

LEMMA PairStep ==
    ASSUME Migrating = {}
    PROVE  TypeInv /\ LedgerPairsProjection /\ [Next]_vars => LedgerPairsProjection'
<1> SUFFICES ASSUME TypeInv, LedgerPairsProjection, [Next]_vars
             PROVE  LedgerPairsProjection'
  OBVIOUS
<1>1. CASE UNCHANGED <<ledger, copies>>
  BY <1>1 DEF LedgerPairsProjection
<1>2. ASSUME NEW w \in Workers, CommitBuild(w)
      PROVE  LedgerPairsProjection'
  <2>1. cur[w] \in Jobs
    BY <1>2 DEF CommitBuild, TypeInv, HandOK
  <2>2. \A j \in Jobs : /\ j # cur[w] => copies'[j] = copies[j]
                        /\ j = cur[w] => copies'[j] > 0
    BY <1>2, <2>1 DEF CommitBuild, Written, TypeInv, TypeOK, StoreTypeOK
  <2>3. ledger' = ledger \cup {cur[w]}
    BY <1>2 DEF CommitBuild
  <2>4. QED
    BY <2>2, <2>3 DEF LedgerPairsProjection
<1>3. QED
  BY <1>1, <1>2, LedgerWrites

\* Where no builder runs a schema script, there is no projection without its
\* ledger row and no ledger row without its projection, wherever a worker dies.
THEOREM LedgerAndProjection ==
    ASSUME Migrating = {}
    PROVE  Spec => []LedgerPairsProjection
<1>1. Init => LedgerPairsProjection
  BY DEF Init, StoreInit, LedgerPairsProjection
<1>2. QED
  BY <1>1, PairStep, TypeInvariant, PTL DEF Spec

-----------------------------------------------------------------------------
(* Dead letters and verdicts.  A worker that is about to decline a job, to  *)
(* park it or to put it back knows that nothing was built for it: it looked *)
(* when it took the job up, and held it ever since.                         *)

Unbuilt ==
    \A w \in Workers : pc[w] \notin {"idle", "next", "ack"} => cur[w] \notin ledger

VerdictInv == Unbuilt /\ DeadLetterUnbuilt

LEMMA InitVerdict == Init => VerdictInv
BY DEF Init, StoreInit, VerdictInv, Unbuilt, DeadLetterUnbuilt

LEMMA UnbuiltStep ==
    ASSUME Migrating = {}, LedgerInv, LeaseInv, Unbuilt, [Next]_vars
    PROVE  Unbuilt'
<1>1. ASSUME NEW w \in Workers, CommitBuild(w)
      PROVE  Unbuilt'
  <2>1. /\ cur[w] \in Jobs
        /\ ledger' = ledger \cup {cur[w]}
        /\ UNCHANGED cur
        /\ pc' = [pc EXCEPT ![w] = "ack"]
    BY <1>1 DEF CommitBuild, memoryVars, Goto, LedgerInv, TypeInv, HandOK
  <2>2. \A v \in Workers \ {w} : cur[v] # cur[w]
    BY <2>1 DEF LeaseInv, Separate, HeldBy
  <2>3. QED
    BY <2>1, <2>2 DEF Unbuilt, LedgerInv, TypeInv, TypeOK
<1>2. ASSUME UNCHANGED ledger, NEW w \in Workers,
             WorkerStep(w) \/ CrashWorker(w) \/ StopWorker(w)
      PROVE  Unbuilt'
  <2>1. \A v \in Workers \ {w} : pc'[v] = pc[v] /\ cur'[v] = cur[v]
    BY <1>2 DEF WorkerStep, Claim, TakeJob, CheckTombstone, CheckDependencies,
                InsertLedger, BuilderDeclines, BuilderMigrates, BuilderWrites,
                BuildRaises, PoisonKills, CommitBuild, CompleteJob, SkipJob,
                DecideFailure, FailJob, Settle, Finished, ReadOnly, CrashWorker,
                StopWorker, Halted, Restarts, Goto, memoryVars, LedgerInv,
                TypeInv, TypeOK
  <2>2. CASE TakeJob(w)
    <3>1. pc'[w] \notin {"idle", "next", "ack"} => cur'[w] \notin ledger
      BY <2>2 DEF TakeJob, Goto, LedgerInv, TypeInv, TypeOK
    <3>2. QED
      BY <1>2, <2>1, <3>1 DEF Unbuilt
  <2>3. CASE ~TakeJob(w)
    <3>1. \/ pc'[w] \in {"idle", "next", "ack"}
          \/ cur'[w] = cur[w] /\ pc[w] \notin {"idle", "next", "ack"}
      BY <1>2, <2>3
         DEF WorkerStep, Claim, CheckTombstone, CheckDependencies,
             InsertLedger, BuilderDeclines, BuilderMigrates, BuilderWrites,
             BuildRaises, PoisonKills, CommitBuild, CompleteJob, SkipJob,
             DecideFailure, FailJob, Settle, Finished, ReadOnly, CrashWorker,
             StopWorker, Halted, Restarts, Goto, memoryVars, LedgerInv,
             TypeInv, TypeOK
    <3>2. QED
      BY <1>2, <2>1, <3>1 DEF Unbuilt
  <2>4. QED
    BY <2>2, <2>3
<1>3. ASSUME UNCHANGED <<ledger, pc, cur>>
      PROVE  Unbuilt'
  BY <1>3 DEF Unbuilt
<1>4. UNCHANGED <<pc, cur>> \/ \E w \in Workers :
                                WorkerStep(w) \/ CrashWorker(w) \/ StopWorker(w)
  BY DEF Next, vars, workerVars, TimePasses, Appending, AppendDies
<1>5. QED
  BY <1>1, <1>2, <1>3, <1>4, LedgerWrites

\* A row becomes a dead letter only in the hands of a worker that parks it.
LEMMA DeadWritten ==
    ASSUME TypeInv, [Next]_vars, NEW j \in Jobs, jobs'[j].status = "dead_letter"
    PROVE  \/ jobs[j].status = "dead_letter"
           \/ \E w \in Workers : cur[w] = j /\ pc[w] = "dead"
<1>1. CASE UNCHANGED jobs
  BY <1>1
<1>2. ASSUME NEW w \in Workers, Claim(w)
      PROVE  jobs[j].status = "dead_letter"
  <2>1. jobs'[j] \in {ClaimedRow(jobs[j]), YieldedRow(jobs[j]), jobs[j]}
    BY <1>2 DEF Claim
  <2>2. jobs[j] \in Row
    BY DEF TypeInv, TypeOK, StoreTypeOK
  <2>3. ClaimedRow(jobs[j]).status = "in_progress" /\ YieldedRow(jobs[j]).status = "pending"
    BY <2>2 DEF ClaimedRow, YieldedRow, Row
  <2>4. QED
    BY <2>1, <2>3
<1>3. ASSUME NEW w \in Workers, CompleteJob(w) \/ SkipJob(w) \/ FailJob(w)
      PROVE  jobs[j].status = "dead_letter" \/ (cur[w] = j /\ pc[w] = "dead")
  <2>1. cur[w] \in Jobs /\ jobs[cur[w]] \in Row
    BY <1>3 DEF CompleteJob, SkipJob, FailJob, TypeInv, TypeOK, StoreTypeOK, HandOK
  <2>2. /\ CompletedRow(jobs[cur[w]]).status = "completed"
        /\ SkippedRow(jobs[cur[w]]).status \in {"skipped", jobs[cur[w]].status}
        /\ RetryRow(jobs[cur[w]]).status = "pending"
    BY <2>1 DEF CompletedRow, SkippedRow, RetryRow, Row
  <2>3. PICK r : /\ jobs' = [jobs EXCEPT ![cur[w]] = r]
                 /\ \/ pc[w] = "dead"
                    \/ r.status \in {"completed", "skipped", "pending",
                                     jobs[cur[w]].status}
    BY <1>3, <2>2 DEF CompleteJob, SkipJob, FailJob, Settle
  <2>4. QED
    BY <2>1, <2>3 DEF TypeInv, TypeOK, StoreTypeOK
<1>4. ASSUME NEW k \in Jobs, TimePasses(k)
      PROVE  jobs[j].status = "dead_letter"
  BY <1>4 DEF TimePasses, TypeInv, TypeOK, StoreTypeOK, Row
<1>5. ASSUME CommitAppend
      PROVE  jobs[j].status = "dead_letter"
  BY <1>5 DEF CommitAppend, Enqueued, Fresh
<1>6. \/ UNCHANGED jobs
      \/ CommitAppend
      \/ \E k \in Jobs : TimePasses(k)
      \/ \E w \in Workers : Claim(w) \/ CompleteJob(w) \/ SkipJob(w) \/ FailJob(w)
  BY DEF Next, vars, storeVars, WorkerStep, TakeJob, CheckTombstone,
         CheckDependencies, InsertLedger, BuilderDeclines, BuilderMigrates,
         BuilderWrites, BuildRaises, PoisonKills, CommitBuild, DecideFailure,
         ReadOnly, CrashWorker, StopWorker, Appending, BeginAppend, EnqueueDebt,
         AppendDies, CrashAppend
<1>7. QED
  BY <1>1, <1>2, <1>3, <1>4, <1>5, <1>6

LEMMA VerdictStep ==
    ASSUME Migrating = {}
    PROVE  LedgerInv /\ LeaseInv /\ VerdictInv /\ [Next]_vars => VerdictInv'
<1> SUFFICES ASSUME LedgerInv, LeaseInv, VerdictInv, [Next]_vars
             PROVE  VerdictInv'
  OBVIOUS
<1>1. Unbuilt'
  BY UnbuiltStep DEF VerdictInv
<1>2. SUFFICES ASSUME NEW j \in Jobs, jobs'[j].status = "dead_letter"
               PROVE  j \notin ledger'
  BY <1>1 DEF VerdictInv, DeadLetterUnbuilt
<1>3. j \notin ledger
  BY <1>2, DeadWritten DEF LedgerInv, VerdictInv, Unbuilt, DeadLetterUnbuilt
<1>4. ASSUME NEW w \in Workers, CommitBuild(w)
      PROVE  j \notin ledger'
  <2>1. cur[w] \in Jobs /\ pc[w] = "commit"
    BY <1>4 DEF CommitBuild, LedgerInv, TypeInv, HandOK
  <2>2. jobs'[cur[w]].status = "in_progress"
    BY <1>4, <2>1 DEF CommitBuild, LeaseInv, HeldLive, HeldBy
  <2>3. QED
    BY <1>2, <1>3, <1>4, <2>2 DEF CommitBuild
<1>5. QED
  BY <1>3, <1>4, LedgerWrites

LEMMA VerdictInvariant ==
    ASSUME LeaseOutlastsBatch, Migrating = {}
    PROVE  Spec => [](LedgerInv /\ LeaseInv /\ VerdictInv)
<1>1. Spec => []LeaseInv
  BY LeaseInvariant
<1>2. QED
  BY <1>1, InitVerdict, VerdictStep, LedgerInvariant, PTL DEF Spec

\* A dead letter is work that was not done: no operator who retries one finds
\* that it had been projected all along.
THEOREM DeadLettersUnbuilt ==
    ASSUME LeaseOutlastsBatch, Migrating = {}
    PROVE  Spec => []DeadLetterUnbuilt
<1>1. VerdictInv => DeadLetterUnbuilt
  BY DEF VerdictInv
<1>2. QED
  BY <1>1, VerdictInvariant, PTL

-----------------------------------------------------------------------------
(* The promise.  Queue, leases, workers and ledger implement the abstract   *)
(* specification in which a debt is projected once, declined or parked, and *)
(* none of these is taken back.  Most steps are invisible there; a commit   *)
(* of the append owes, a commit of the build projects, and the outbox write *)
(* that ends process() discharges.                                          *)

PromiseInv == DebtInv /\ LedgerInv /\ LeaseInv /\ VerdictInv

\* Which abstract state each status stands for.
LEMMA DebtStates ==
    /\ DebtOf("absent") = "none"
    /\ DebtOf("pending") = "owed"
    /\ DebtOf("in_progress") = "owed"
    /\ DebtOf("completed") = "done"
    /\ DebtOf("skipped") = "declined"
    /\ DebtOf("dead_letter") = "parked"
BY DEF DebtOf

\* A step that settles nothing, enqueues nothing and builds nothing.
LEMMA Invisible ==
    ASSUME UNCHANGED copies,
           \A j \in Jobs : DebtOf(jobs'[j].status) = DebtOf(jobs[j].status)
    PROVE  [Promise!Next]_<<[j \in Jobs |-> DebtOf(jobs[j].status)], copies>>
BY DEF Jobs

\* Claiming, yielding and waiting leave what is owed owed.
LEMMA QueuePromise ==
    ASSUME PromiseInv,
           (\E w \in Workers : Claim(w)) \/ (\E j \in Jobs : TimePasses(j))
    PROVE  [Promise!Next]_<<[j \in Jobs |-> DebtOf(jobs[j].status)], copies>>
<1>1. UNCHANGED copies
  BY DEF Claim, TimePasses
<1>2. ASSUME NEW w \in Workers, Claim(w), NEW j \in Jobs
      PROVE  DebtOf(jobs'[j].status) = DebtOf(jobs[j].status)
  <2>1. \/ jobs'[j] = jobs[j]
        \/ Unsettled(j) /\ jobs'[j] \in {ClaimedRow(jobs[j]), YieldedRow(jobs[j])}
    BY <1>2 DEF Claim, Claimable, Yielding, Expired, Unsettled
  <2>2. jobs[j] \in Row
    BY DEF PromiseInv, LedgerInv, TypeInv, TypeOK, StoreTypeOK
  <2>3. ClaimedRow(jobs[j]).status = "in_progress" /\ YieldedRow(jobs[j]).status = "pending"
    BY <2>2 DEF ClaimedRow, YieldedRow, Row
  <2>4. QED
    BY <2>1, <2>3, DebtStates DEF Unsettled
<1>3. ASSUME NEW k \in Jobs, TimePasses(k), NEW j \in Jobs
      PROVE  DebtOf(jobs'[j].status) = DebtOf(jobs[j].status)
  <2>1. jobs'[j].status = jobs[j].status
    BY <1>3 DEF TimePasses, PromiseInv, LedgerInv, TypeInv, TypeOK, StoreTypeOK, Row
  <2>2. QED
    BY <2>1
<1>4. QED
  BY <1>1, <1>2, <1>3, Invisible

\* The one commit of the append: everything the event owes, at once.
LEMMA OwePromise ==
    ASSUME PromiseInv, CommitAppend
    PROVE  [Promise!Next]_<<[j \in Jobs |-> DebtOf(jobs[j].status)], copies>>
<1> DEFINE e == append.event
           T == append.staged
           debt == [j \in Jobs |-> DebtOf(jobs[j].status)]
<1>1. e \in Events /\ T \in SUBSET Types /\ e \notin events
  BY DEF CommitAppend, PromiseInv, DebtInv, StagedInv, TypeInv, TypeOK, StoreTypeOK
<1>2. \A j \in Jobs : j[1] = e => jobs[j].status = "absent"
  BY <1>1 DEF PromiseInv, DebtInv, DebtRecorded
<1>3. \A t \in T : <<e, t>> \in Jobs /\ debt[<<e, t>>] = "none"
  BY <1>1, <1>2, DebtStates DEF Jobs
<1>4. \A j \in Jobs : DebtOf(jobs'[j].status) =
                        IF j[1] = e /\ j[2] \in T THEN "owed" ELSE DebtOf(jobs[j].status)
  BY <1>2, DebtStates DEF CommitAppend, Enqueued, Fresh
<1>5. UNCHANGED copies
  BY DEF CommitAppend
<1>6. Promise!Owe(e, T)
  BY <1>3, <1>4, <1>5 DEF Promise!Owe, Promise!Jobs, Jobs
<1>7. QED
  BY <1>1, <1>6 DEF Promise!Next

\* The one commit of the build: the job in hand is owed and was not built.
LEMMA ProjectPromise ==
    ASSUME PromiseInv, NEW w \in Workers, CommitBuild(w)
    PROVE  [Promise!Next]_<<[j \in Jobs |-> DebtOf(jobs[j].status)], copies>>
<1>1. /\ cur[w] \in Jobs
      /\ jobs[cur[w]].status = "in_progress"
      /\ copies[cur[w]] = 0
  BY DEF CommitBuild, PromiseInv, LeaseInv, HeldLive, HeldBy, HandsFresh, LedgerInv,
         TypeInv, HandOK
<1>2. copies' = [copies EXCEPT ![cur[w]] = 1] /\ UNCHANGED jobs
  BY <1>1 DEF CommitBuild, Written, PromiseInv, LedgerInv, TypeInv, TypeOK, StoreTypeOK
<1>3. Promise!Project(cur[w])
  BY <1>1, <1>2, DebtStates DEF Promise!Project
<1>4. QED
  BY <1>1, <1>3 DEF Promise!Next, Promise!Jobs, Jobs

\* The write that ends process() says what became of the debt: done where the
\* projection is there, declined or parked where it is not.
LEMMA DischargePromise ==
    ASSUME Migrating = {}, PromiseInv, LedgerPairsProjection, NEW w \in Workers,
           CompleteJob(w) \/ SkipJob(w) \/ FailJob(w)
    PROVE  [Promise!Next]_<<[j \in Jobs |-> DebtOf(jobs[j].status)], copies>>
<1>1. /\ cur[w] \in Jobs
      /\ jobs[cur[w]] \in Row
      /\ jobs[cur[w]].status = "in_progress"
  BY DEF CompleteJob, SkipJob, FailJob, PromiseInv, LeaseInv, HeldLive, HeldBy,
         LedgerInv, TypeInv, TypeOK, StoreTypeOK, HandOK
<1>2. /\ UNCHANGED copies
      /\ jobs \in [Jobs -> Row]
      /\ copies \in [Jobs -> Nat]
      /\ copies[cur[w]] <= 1
  BY <1>1 DEF CompleteJob, SkipJob, FailJob, Settle, PromiseInv, LeaseInv, AtMostOnce,
              LedgerInv, TypeInv, TypeOK, StoreTypeOK
<1>3. ASSUME NEW r, Settle(w, r), NEW v \in {"done", "declined", "parked"},
             DebtOf(r.status) = v, v = "done" <=> copies[cur[w]] = 1
      PROVE  Promise!Discharge(cur[w], v)
  <2>1. jobs' = [jobs EXCEPT ![cur[w]] = r]
    BY <1>3 DEF Settle
  <2>2. \A j \in Jobs : DebtOf(jobs'[j].status) =
                          IF j = cur[w] THEN v ELSE DebtOf(jobs[j].status)
    BY <1>1, <1>2, <1>3, <2>1
  <2>3. QED
    BY <1>1, <1>2, <1>3, <2>2, DebtStates DEF Promise!Discharge
<1>4. ASSUME NEW v \in {"done", "declined", "parked"}, Promise!Discharge(cur[w], v)
      PROVE  Promise!Next
  BY <1>1, <1>4 DEF Promise!Next, Promise!Jobs, Jobs
<1>5. CASE CompleteJob(w)
  <2>1. copies[cur[w]] = 1
    BY <1>1, <1>2, <1>5 DEF CompleteJob, PromiseInv, LedgerInv, HandKnows,
                            LedgerPairsProjection
  <2>2. DebtOf(CompletedRow(jobs[cur[w]]).status) = "done"
    BY <1>1, DebtStates DEF CompletedRow, Row
  <2>3. QED
    BY <1>3, <1>4, <1>5, <2>1, <2>2 DEF CompleteJob
<1>6. CASE SkipJob(w)
  <2>1. copies[cur[w]] # 1
    BY <1>1, <1>6 DEF SkipJob, PromiseInv, VerdictInv, Unbuilt, LedgerPairsProjection
  <2>2. DebtOf(SkippedRow(jobs[cur[w]]).status) = "declined"
    BY <1>1, DebtStates DEF SkippedRow, Row
  <2>3. QED
    BY <1>3, <1>4, <1>6, <2>1, <2>2 DEF SkipJob
<1>7. CASE pc[w] = "dead" /\ Settle(w, DeadRow(jobs[cur[w]]))
  <2>1. copies[cur[w]] # 1
    BY <1>1, <1>7 DEF PromiseInv, VerdictInv, Unbuilt, LedgerPairsProjection
  <2>2. DebtOf(DeadRow(jobs[cur[w]]).status) = "parked"
    BY <1>1, DebtStates DEF DeadRow, Row
  <2>3. QED
    BY <1>3, <1>4, <1>7, <2>1, <2>2
<1>8. CASE pc[w] = "retry" /\ Settle(w, RetryRow(jobs[cur[w]]))
  <2>1. RetryRow(jobs[cur[w]]).status = "pending"
    BY <1>1 DEF RetryRow, Row
  <2>2. \A j \in Jobs : DebtOf(jobs'[j].status) = DebtOf(jobs[j].status)
    BY <1>1, <1>2, <1>8, <2>1, DebtStates DEF Settle
  <2>3. QED
    BY <1>2, <2>2, Invisible
<1>9. QED
  BY <1>5, <1>6, <1>7, <1>8 DEF FailJob

LEMMA PromiseStep ==
    ASSUME Migrating = {}
    PROVE  PromiseInv /\ LedgerPairsProjection /\ [Next]_vars
              => [Promise!Next]_<<[j \in Jobs |-> DebtOf(jobs[j].status)], copies>>
<1> SUFFICES ASSUME PromiseInv, LedgerPairsProjection, [Next]_vars
             PROVE  [Promise!Next]_<<[j \in Jobs |-> DebtOf(jobs[j].status)], copies>>
  OBVIOUS
<1>1. CASE UNCHANGED <<jobs, copies>>
  BY <1>1, Invisible
<1>2. \/ UNCHANGED <<jobs, copies>>
      \/ CommitAppend
      \/ \E j \in Jobs : TimePasses(j)
      \/ \E w \in Workers : \/ Claim(w) \/ CommitBuild(w)
                            \/ CompleteJob(w) \/ SkipJob(w) \/ FailJob(w)
  BY DEF Next, vars, storeVars, WorkerStep, TakeJob, CheckTombstone,
         CheckDependencies, InsertLedger, BuilderDeclines, BuilderMigrates,
         BuilderWrites, BuildRaises, PoisonKills, DecideFailure,
         ReadOnly, CrashWorker, StopWorker, Appending, BeginAppend, EnqueueDebt,
         AppendDies, CrashAppend
<1>3. QED
  BY <1>1, <1>2, QueuePromise, OwePromise, ProjectPromise, DischargePromise

\* The outbox, the workers and the ledger do what OwedProjections promises,
\* step for step: whatever crashes, expires or is retried, a debt recorded with
\* its event is projected at most once, and done, declined or parked for good.
THEOREM WorkersKeepThePromise ==
    ASSUME LeaseOutlastsBatch, Migrating = {}
    PROVE  Spec => Promise!Safety
<1>1. Init => Promise!Init
  BY DebtStates DEF Init, StoreInit, Absent, Promise!Init, Promise!Jobs, Jobs
<1>2. Spec => []DebtInv
  BY DebtInvariant
<1>3. QED
  BY <1>1, <1>2, PromiseStep, LedgerAndProjection, VerdictInvariant, PTL
     DEF Spec, PromiseInv, Promise!Safety

-----------------------------------------------------------------------------
(* The queue.  What the workers ask of the outbox is what LeasedQueue       *)
(* promises and ProjectionOutbox implements: LeaseInv says that who settles *)
(* a job has it and that what is claimed is nobody's, DebtInv that an       *)
(* append enqueues only what is not there yet.                              *)

IdleEmpty == \A w \in Workers : pc[w] = "idle" => claimed[w] = {}

LeasedInv == DebtInv /\ LeaseInv /\ IdleEmpty

LeasedStep == [Leases!Next]_(Leases!vars)

LEMMA IdleEmptyStep == TypeInv /\ IdleEmpty /\ [Next]_vars => IdleEmpty'
<1> SUFFICES ASSUME TypeInv, IdleEmpty, [Next]_vars
             PROVE  IdleEmpty'
  OBVIOUS
<1> USE DEF TypeInv, TypeOK, Goto
<1>1. ASSUME NEW w \in Workers, Claim(w) \/ TakeJob(w)
      PROVE  IdleEmpty'
  BY <1>1 DEF Claim, TakeJob, IdleEmpty
<1>2. ASSUME NEW w \in Workers, CompleteJob(w) \/ SkipJob(w) \/ FailJob(w)
      PROVE  IdleEmpty'
  BY <1>2 DEF CompleteJob, SkipJob, FailJob, Settle, Finished, memoryVars, IdleEmpty
<1>3. ASSUME NEW w \in Workers, PoisonKills(w) \/ CrashWorker(w) \/ StopWorker(w)
      PROVE  IdleEmpty'
  BY <1>3 DEF PoisonKills, CrashWorker, StopWorker, Halted, Restarts, IdleEmpty
<1>4. ASSUME NEW w \in Workers,
             \/ CheckTombstone(w) \/ CheckDependencies(w) \/ DecideFailure(w)
             \/ InsertLedger(w) \/ BuilderDeclines(w) \/ BuilderWrites(w)
             \/ BuilderMigrates(w) \/ BuildRaises(w) \/ CommitBuild(w)
      PROVE  IdleEmpty'
  <2>1. UNCHANGED claimed
    BY <1>4 DEF CheckTombstone, CheckDependencies, DecideFailure, InsertLedger,
                BuilderDeclines, BuilderWrites, BuilderMigrates, BuildRaises,
                CommitBuild, ReadOnly, memoryVars
  <2>2. \A v \in Workers : pc'[v] = pc[v] \/ pc'[v] # "idle"
    BY <1>4 DEF CheckTombstone, CheckDependencies, DecideFailure, InsertLedger,
                BuilderDeclines, BuilderWrites, BuilderMigrates, BuildRaises,
                CommitBuild, ReadOnly
  <2>3. QED
    BY <2>1, <2>2 DEF IdleEmpty
<1>5. CASE UNCHANGED <<pc, claimed>>
  BY <1>5 DEF IdleEmpty
<1>6. QED
  BY <1>1, <1>2, <1>3, <1>4, <1>5
     DEF Next, WorkerStep, TimePasses, Appending, AppendDies, vars, workerVars

\* A step that moves no job, no hand and no lease.
LEMMA QueueStutter ==
    ASSUME \A j \in Jobs : /\ jobs'[j].status = jobs[j].status
                           /\ jobs[j].status = "in_progress" => jobs'[j].due = jobs[j].due,
           \A w \in Workers : HandOf(w)' = HandOf(w)
    PROVE  [Leases!Next]_(Leases!vars)
<1>1. [j \in Jobs |-> jobs[j].status]' = [j \in Jobs |-> jobs[j].status]
  BY DEF Jobs
<1>2. {j \in Jobs : LeaseRuns(j)}' = {j \in Jobs : LeaseRuns(j)}
  BY DEF Jobs, LeaseRuns
<1>3. [w \in Workers |-> HandOf(w)]' = [w \in Workers |-> HandOf(w)]
  OBVIOUS
<1>4. QED
  BY <1>1, <1>2, <1>3 DEF Leases!vars

\* The claim of run_once gives out what waits or was left behind, and puts back
\* what yields.
LEMMA QueueClaim ==
    ASSUME LeasedInv, NEW w \in Workers, Claim(w)
    PROVE  [Leases!Next]_(Leases!vars)
<1>1. PICK batch \in SUBSET ({j \in Jobs : Claimable(j)} \ Yielding) :
        /\ jobs' = [j \in Jobs |->
                       CASE j \in batch    -> ClaimedRow(jobs[j])
                         [] j \in Yielding -> YieldedRow(jobs[j])
                         [] OTHER          -> jobs[j]]
        /\ claimed' = [claimed EXCEPT ![w] = batch]
  BY DEF Claim
<1>2. /\ UNCHANGED cur
      /\ cur[w] = NoJob
      /\ claimed[w] = {}
      /\ NoJob \notin Jobs
      /\ claimed \in [Workers -> SUBSET Jobs]
      /\ jobs \in [Jobs -> Row]
  BY WorkerAssumption
     DEF Claim, LeasedInv, LeaseInv, Separate, IdleEmpty, DebtInv, TypeInv, TypeOK,
         StoreTypeOK
<1> DEFINE back == Yielding
           status == [j \in Jobs |-> jobs[j].status]
           leased == {j \in Jobs : LeaseRuns(j)}
           hands == [v \in Workers |-> HandOf(v)]
<1>3. /\ batch \in SUBSET Jobs /\ back \in SUBSET Jobs /\ batch \cap back = {}
      /\ \A j \in batch : \/ jobs[j].status = "pending"
                          \/ jobs[j].status = "in_progress" /\ jobs[j].due
      /\ \A j \in back : jobs[j].status = "in_progress" /\ jobs[j].due
  BY DEF Yielding, Expired, Claimable, Unsettled
<1>4. \A r \in Row : /\ ClaimedRow(r).status = "in_progress" /\ ~ClaimedRow(r).due
                     /\ YieldedRow(r).status = "pending"
  BY DEF ClaimedRow, YieldedRow, Row
<1>5. \A j \in Jobs : /\ j \in batch => jobs'[j] = ClaimedRow(jobs[j])
                      /\ j \in back => jobs'[j] = YieldedRow(jobs[j])
                      /\ j \notin batch /\ j \notin back => jobs'[j] = jobs[j]
  BY <1>1, <1>3
<1> HIDE DEF back
<1>6. \A j \in Jobs : jobs'[j].status = IF j \in batch THEN "in_progress"
                                        ELSE IF j \in back THEN "pending"
                                        ELSE jobs[j].status
  BY <1>2, <1>3, <1>4, <1>5
<1>7. status' = [j \in Jobs |-> IF j \in batch THEN "in_progress"
                                ELSE IF j \in back THEN "pending"
                                ELSE status[j]]
  BY <1>6 DEF Jobs
<1>8. leased' = leased \cup batch
  <2>1. \A j \in Jobs : j \in leased' <=> j \in leased \/ j \in batch
    BY <1>2, <1>3, <1>4, <1>5 DEF Jobs, LeaseRuns
  <2>2. QED
    BY <2>1, <1>3 DEF Jobs
<1>9. hands' = [hands EXCEPT ![w] = batch]
  <2>1. \A v \in Workers : hands'[v] = IF v = w THEN batch ELSE hands[v]
    BY <1>1, <1>2 DEF HandOf
  <2>2. QED
    BY <2>1
<1>10. hands[w] = {}
  BY <1>2 DEF HandOf
<1>11. /\ batch \in SUBSET (Leases!With("pending") \cup Leases!Abandoned)
       /\ back \in SUBSET Leases!Abandoned
  BY <1>3 DEF Leases!With, Leases!Abandoned, LeaseRuns
<1>12. Leases!Claim(w)
  BY <1>3, <1>7, <1>8, <1>9, <1>10, <1>11 DEF Leases!Claim
<1>13. QED
  BY <1>12 DEF Leases!Next

\* The write that ends process() settles a job its worker has.
LEMMA QueueSettle ==
    ASSUME LeasedInv, NEW w \in Workers, CompleteJob(w) \/ SkipJob(w) \/ FailJob(w)
    PROVE  [Leases!Next]_(Leases!vars)
<1>0. PICK j \in Jobs : j = cur[w]
  BY DEF CompleteJob, SkipJob, FailJob, LeasedInv, DebtInv, TypeInv, HandOK
<1> DEFINE status == [i \in Jobs |-> jobs[i].status]
           leased == {i \in Jobs : LeaseRuns(i)}
           hands == [v \in Workers |-> HandOf(v)]
<1>1. /\ jobs[j] \in Row
      /\ jobs[j].status = "in_progress"
      /\ j \notin claimed[w]
      /\ NoJob \notin Jobs
      /\ jobs \in [Jobs -> Row]
      /\ cur \in [Workers -> Jobs \cup {NoJob}]
  BY <1>0, WorkerAssumption
     DEF CompleteJob, SkipJob, FailJob, LeasedInv, LeaseInv, Separate, HeldLive, HeldBy,
         DebtInv, TypeInv, TypeOK, StoreTypeOK, HandOK
<1>2. PICK r : Settle(w, r) /\ r.status \in Leases!Outcome
  <2>1. /\ CompletedRow(jobs[j]).status = "completed"
        /\ SkippedRow(jobs[j]).status = "skipped"
        /\ DeadRow(jobs[j]).status = "dead_letter"
        /\ RetryRow(jobs[j]).status = "pending"
    BY <1>1 DEF CompletedRow, SkippedRow, DeadRow, RetryRow, Row
  <2>2. QED
    BY <1>0, <2>1 DEF CompleteJob, SkipJob, FailJob, Leases!Outcome
<1>3. /\ jobs' = [jobs EXCEPT ![j] = r]
      /\ cur' = [cur EXCEPT ![w] = NoJob]
      /\ UNCHANGED claimed
      /\ r.status # "in_progress"
  BY <1>0, <1>2 DEF Settle, Finished, memoryVars, Leases!Outcome
<1>4. \E s \in Leases!Outcome : status' = [status EXCEPT ![j] = s]
  <2>1. status' = [status EXCEPT ![j] = r.status]
    BY <1>1, <1>3 DEF Jobs
  <2>2. QED
    BY <1>2, <2>1
<1>5. leased' = leased \ {j}
  BY <1>1, <1>3 DEF Jobs, LeaseRuns
<1>6. hands' = [hands EXCEPT ![w] = @ \ {j}]
  <2>1. \A v \in Workers : hands'[v] = IF v = w THEN hands[w] \ {j} ELSE hands[v]
    BY <1>0, <1>1, <1>3 DEF HandOf
  <2>2. QED
    BY <2>1
<1>7. j \in hands[w]
  BY <1>0, <1>1 DEF HandOf
<1>8. Leases!Settle(w, j)
  BY <1>4, <1>5, <1>6 DEF Leases!Settle
<1>9. QED
  BY <1>7, <1>8 DEF Leases!Next

\* A worker that dies or stops abandons what it has.
LEMMA QueueAbandon ==
    ASSUME LeasedInv, NEW w \in Workers,
           PoisonKills(w) \/ CrashWorker(w) \/ StopWorker(w)
    PROVE  [Leases!Next]_(Leases!vars)
<1> DEFINE hands == [v \in Workers |-> HandOf(v)]
<1>1. /\ UNCHANGED jobs
      /\ cur' = [cur EXCEPT ![w] = NoJob]
      /\ claimed' = [claimed EXCEPT ![w] = {}]
  BY DEF PoisonKills, CrashWorker, StopWorker, Halted, Restarts, storeVars
<1>2. /\ cur \in [Workers -> Jobs \cup {NoJob}]
      /\ claimed \in [Workers -> SUBSET Jobs]
      /\ NoJob \notin Jobs
  BY WorkerAssumption DEF LeasedInv, DebtInv, TypeInv, TypeOK
<1>3. hands' = [hands EXCEPT ![w] = {}]
  <2>1. \A v \in Workers : hands'[v] = IF v = w THEN {} ELSE hands[v]
    BY <1>1, <1>2 DEF HandOf
  <2>2. QED
    BY <2>1
<1>4. Leases!Abandon(w)
  BY <1>1, <1>3 DEF Leases!Abandon, Jobs, LeaseRuns
<1>5. QED
  BY <1>4 DEF Leases!Next

\* The passage of time: of a lease it is an expiry, and nobody has the job.
LEMMA QueueTime ==
    ASSUME LeaseOutlastsBatch, LeasedInv, NEW j \in Jobs, TimePasses(j)
    PROVE  [Leases!Next]_(Leases!vars)
<1> DEFINE leased == {i \in Jobs : LeaseRuns(i)}
           hands == [v \in Workers |-> HandOf(v)]
<1>1. /\ jobs' = [jobs EXCEPT ![j].due = TRUE]
      /\ UNCHANGED <<cur, claimed>>
      /\ jobs \in [Jobs -> Row]
      /\ ~jobs[j].due
  BY DEF TimePasses, workerVars, LeasedInv, DebtInv, TypeInv, TypeOK, StoreTypeOK
<1>2. \A i \in Jobs : /\ jobs'[i].status = jobs[i].status
                      /\ i # j => jobs'[i] = jobs[i]
                      /\ i = j => jobs'[i].due
  BY <1>1 DEF Row
<1>3. CASE jobs[j].status # "in_progress"
  BY <1>1, <1>2, <1>3, QueueStutter DEF HandOf
<1>4. CASE jobs[j].status = "in_progress"
  <2>1. ~InHand(j)
    BY <1>4 DEF TimePasses
  <2>2. leased' = leased \ {j}
    BY <1>1, <1>2 DEF Jobs, LeaseRuns
  <2>3. \A w \in Workers : {j} \cap hands[w] = {}
    BY <2>1 DEF InHand, HandOf
  <2>4. {j} \in SUBSET leased
    BY <1>1, <1>4 DEF LeaseRuns
  <2>5. UNCHANGED <<[i \in Jobs |-> jobs[i].status], hands>>
    BY <1>1, <1>2 DEF Jobs, HandOf
  <2>6. Leases!Expire
    BY <2>2, <2>3, <2>4, <2>5 DEF Leases!Expire
  <2>7. QED
    BY <2>6 DEF Leases!Next
<1>5. QED
  BY <1>3, <1>4

\* The append enqueues what its event owes, none of which was there.
LEMMA QueueAppend ==
    ASSUME LeasedInv, CommitAppend, UNCHANGED <<cur, claimed>>
    PROVE  [Leases!Next]_(Leases!vars)
<1> DEFINE S == {j \in Jobs : j[1] = append.event /\ j[2] \in append.staged}
           status == [j \in Jobs |-> jobs[j].status]
           leased == {i \in Jobs : LeaseRuns(i)}
<1>1. append.event \notin events
  BY DEF CommitAppend, LeasedInv, DebtInv, StagedInv
<1>2. \A j \in S : jobs[j].status = "absent"
  BY <1>1 DEF LeasedInv, DebtInv, DebtRecorded
<1>3. \A j \in Jobs : jobs'[j] = IF j \in S THEN Fresh ELSE jobs[j]
  BY <1>2 DEF CommitAppend, Enqueued
<1>4. S \in SUBSET Leases!With("absent")
  BY <1>2 DEF Leases!With
<1>5. Fresh.status = "pending"
  BY DEF Fresh
<1> HIDE DEF S
<1>6. status' = [j \in Jobs |-> IF j \in S THEN "pending" ELSE status[j]]
  BY <1>3, <1>5 DEF Jobs
<1>7. UNCHANGED leased
  <2>1. \A j \in Jobs : j \in leased' <=> j \in leased
    BY <1>2, <1>3, <1>5 DEF Jobs, LeaseRuns
  <2>2. QED
    BY <2>1 DEF Jobs
<1>8. Leases!Enqueue
  BY <1>4, <1>6, <1>7 DEF Leases!Enqueue, Jobs, HandOf
<1>9. QED
  BY <1>8 DEF Leases!Next

LEMMA LeasesStep ==
    ASSUME LeaseOutlastsBatch
    PROVE  LeasedInv /\ [Next]_vars => LeasedStep
<1> SUFFICES ASSUME LeasedInv, [Next]_vars
             PROVE  LeasedStep
  OBVIOUS
<1>1. CASE UNCHANGED <<jobs, cur, claimed>>
  BY <1>1, QueueStutter DEF LeasedStep, HandOf
<1>2. ASSUME NEW w \in Workers, TakeJob(w)
      PROVE  LeasedStep
  <2>1. \A v \in Workers : HandOf(v)' = HandOf(v)
    BY <1>2, WorkerAssumption
       DEF TakeJob, HandOf, LeasedInv, LeaseInv, Separate, DebtInv, TypeInv, TypeOK
  <2>2. UNCHANGED jobs
    BY <1>2 DEF TakeJob, storeVars
  <2>3. QED
    BY <2>1, <2>2, QueueStutter DEF LeasedStep
<1>3. \/ UNCHANGED <<jobs, cur, claimed>>
      \/ CommitAppend /\ UNCHANGED <<cur, claimed>>
      \/ \E j \in Jobs : TimePasses(j)
      \/ \E w \in Workers : \/ Claim(w) \/ TakeJob(w)
                            \/ CompleteJob(w) \/ SkipJob(w) \/ FailJob(w)
                            \/ PoisonKills(w) \/ CrashWorker(w) \/ StopWorker(w)
  BY DEF Next, vars, storeVars, workerVars, memoryVars, WorkerStep, CheckTombstone,
         CheckDependencies, InsertLedger, BuilderDeclines, BuilderMigrates,
         BuilderWrites, BuildRaises, CommitBuild, DecideFailure, ReadOnly, Appending,
         BeginAppend, EnqueueDebt, AppendDies, CrashAppend
<1>4. CASE \E w \in Workers : Claim(w)
  BY <1>4, QueueClaim DEF LeasedStep
<1>5. CASE \E w \in Workers : CompleteJob(w) \/ SkipJob(w) \/ FailJob(w)
  BY <1>5, QueueSettle DEF LeasedStep
<1>6. CASE \E w \in Workers : PoisonKills(w) \/ CrashWorker(w) \/ StopWorker(w)
  BY <1>6, QueueAbandon DEF LeasedStep
<1>7. CASE \E j \in Jobs : TimePasses(j)
  BY <1>7, QueueTime DEF LeasedStep
<1>8. CASE CommitAppend /\ UNCHANGED <<cur, claimed>>
  BY <1>8, QueueAppend DEF LeasedStep
<1>9. QED
  BY <1>1, <1>2, <1>3, <1>4, <1>5, <1>6, <1>7, <1>8

\* The workers use the outbox as the abstract queue that ProjectionOutbox
\* implements on its clock: one bit of time and a claim in one step lose nothing
\* of what a queue with leases that outlast the batch can do to them.
THEOREM WorkersUseALeasedQueue ==
    ASSUME LeaseOutlastsBatch PROVE Spec => ImplementsLeases
<1>1. Init => IdleEmpty
  BY DEF Init, IdleEmpty
<1>2. Init => Leases!Init
  BY DEF Init, StoreInit, Absent, Leases!Init, Jobs, HandOf, LeaseRuns
<1>3. Spec => []LeaseInv
  BY LeaseInvariant
<1>4. Spec => []IdleEmpty
  BY <1>1, IdleEmptyStep, TypeInvariant, PTL DEF Spec
<1>5. QED
  BY <1>2, <1>3, <1>4, DebtInvariant, LeasesStep, PTL
     DEF Spec, LeasedInv, LeasedStep, ImplementsLeases, Leases!Spec
=============================================================================
