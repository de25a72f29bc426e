---------------------------- MODULE DoctorProofs ----------------------------
(***************************************************************************)
(* What is proved of deletion and repair beside a running queue: what the  *)
(* workers may rely on is kept by forget_derived, by the replay engine and *)
(* by the doctor, although each of them writes the queue by job id and     *)
(* none of them asks the workers; what is buried is written again only     *)
(* through the one window; and the doctor's cursor covers no row that was  *)
(* not examined.                                                           *)
(***************************************************************************)
EXTENDS Doctor, ExactlyOnceProofs

-----------------------------------------------------------------------------
(* What one step of the queue does to a row, to the ledger and to a worker. *)

PastTombstone == {"dependency", "build", "write", "late_write", "commit"}

LEMMA QueueJob ==
    ASSUME TypeInv, [Next]_vars, NEW j \in Jobs
    PROVE  /\ jobs[j].status # "absent" => jobs'[j].status # "absent"
           /\ jobs'[j].status = "completed" =>
                 \/ jobs[j].status = "completed"
                 \/ \E w \in Workers : pc[w] = "ack" /\ cur[w] = j
<1> DEFINE Fine == /\ jobs[j].status # "absent" => jobs'[j].status # "absent"
                   /\ jobs'[j].status = "completed" =>
                         \/ jobs[j].status = "completed"
                         \/ \E w \in Workers : pc[w] = "ack" /\ cur[w] = j
<1>0. jobs[j] \in Row /\ jobs \in [Jobs -> Row]
  BY DEF TypeInv, TypeOK, StoreTypeOK
<1>1. ASSUME jobs'[j].status \in {jobs[j].status, "pending", "in_progress",
                                  "dead_letter", "skipped"}
      PROVE  Fine
  BY <1>1
<1>2. ASSUME jobs'[j] = jobs[j] PROVE Fine
  BY <1>2
<1>3. ASSUME NEW w \in Workers, Claim(w) PROVE Fine
  <2>1. PICK batch \in SUBSET Jobs :
          jobs' = [k \in Jobs |->
                     CASE k \in batch    -> ClaimedRow(jobs[k])
                       [] k \in Yielding -> YieldedRow(jobs[k])
                       [] OTHER          -> jobs[k]]
    BY <1>3 DEF Claim
  <2>2. ClaimedRow(jobs[j]).status = "in_progress" /\ YieldedRow(jobs[j]).status = "pending"
    BY <1>0 DEF ClaimedRow, YieldedRow, Row
  <2>3. jobs'[j] \in {ClaimedRow(jobs[j]), YieldedRow(jobs[j]), jobs[j]}
    BY <2>1
  <2>4. QED
    BY <1>1, <2>2, <2>3
<1>4. ASSUME NEW w \in Workers, CompleteJob(w) \/ SkipJob(w) \/ FailJob(w)
      PROVE  Fine
  <2>1. PICK r : /\ jobs' = [jobs EXCEPT ![cur[w]] = r]
                 /\ \/ pc[w] = "ack" /\ r = CompletedRow(jobs[cur[w]])
                    \/ r = SkippedRow(jobs[cur[w]])
                    \/ r = DeadRow(jobs[cur[w]])
                    \/ r = RetryRow(jobs[cur[w]])
    BY <1>4 DEF CompleteJob, SkipJob, FailJob, Settle
  <2>2. CASE j # cur[w]
    BY <1>0, <1>2, <2>1, <2>2
  <2>3. CASE j = cur[w] /\ pc[w] = "ack" /\ r = CompletedRow(jobs[j])
    <3>1. CompletedRow(jobs[j]).status = "completed" /\ jobs'[j] = r
      BY <1>0, <2>1, <2>3 DEF CompletedRow, Row
    <3>2. QED
      BY <2>3, <3>1
  <2>4. CASE j = cur[w] /\ r = SkippedRow(jobs[j])
    <3>1. SkippedRow(jobs[j]).status \in {"skipped", jobs[j].status} /\ jobs'[j] = r
      BY <1>0, <2>1, <2>4 DEF SkippedRow, Row
    <3>2. QED
      BY <1>1, <2>4, <3>1
  <2>5. CASE j = cur[w] /\ r \in {DeadRow(jobs[j]), RetryRow(jobs[j])}
    <3>1. /\ DeadRow(jobs[j]).status = "dead_letter" /\ RetryRow(jobs[j]).status = "pending"
          /\ jobs'[j] = r
      BY <1>0, <2>1, <2>5 DEF DeadRow, RetryRow, Row
    <3>2. QED
      BY <1>1, <2>5, <3>1
  <2>6. QED
    BY <2>1, <2>2, <2>3, <2>4, <2>5
<1>5. ASSUME NEW k \in Jobs, TimePasses(k) PROVE Fine
  <2>1. jobs' = [jobs EXCEPT ![k].due = TRUE]
    BY <1>5 DEF TimePasses
  <2>2. jobs'[j].status = jobs[j].status
    BY <1>0, <2>1 DEF Row
  <2>3. QED
    BY <1>1, <2>2
<1>6. CASE Appending
  <2>1. jobs'[j] \in {jobs[j], Fresh}
    BY <1>0, <1>6 DEF Appending, BeginAppend, EnqueueDebt, CommitAppend, Enqueued
  <2>2. Fresh.status = "pending"
    BY DEF Fresh
  <2>3. QED
    BY <1>1, <2>1, <2>2
<1>7. CASE UNCHANGED jobs
  BY <1>2, <1>7
<1>8. \/ UNCHANGED jobs
      \/ \E w \in Workers : Claim(w) \/ CompleteJob(w) \/ SkipJob(w) \/ FailJob(w)
      \/ \E k \in Jobs : TimePasses(k)
      \/ Appending
  BY DEF Next, vars, storeVars, WorkerStep, TakeJob, CheckTombstone,
         CheckDependencies, InsertLedger, BuilderDeclines, BuilderMigrates,
         BuilderWrites, BuildRaises, PoisonKills, CommitBuild, DecideFailure,
         ReadOnly, CrashWorker, StopWorker, AppendDies, CrashAppend
<1>9. QED
  BY <1>3, <1>4, <1>5, <1>6, <1>7, <1>8

LEMMA QueueLedger ==
    ASSUME TypeInv, [Next]_vars
    PROVE  \/ UNCHANGED <<ledger, copies>>
           \/ \E w \in Workers :
                 /\ cur[w] \in Jobs /\ pc[w] \in {"write", "commit"}
                 /\ ledger' = ledger \cup {cur[w]}
                 /\ \/ UNCHANGED copies
                    \/ pc[w] = "commit" /\ copies' = Written(cur[w])
<1>1. \/ UNCHANGED <<ledger, copies>>
      \/ \E w \in Workers : CommitBuild(w) \/ BuilderMigrates(w)
  BY DEF Next, vars, storeVars, WorkerStep, Claim, TakeJob, CheckTombstone,
         CheckDependencies, InsertLedger, BuilderDeclines,
         BuilderWrites, BuildRaises, PoisonKills, CompleteJob, SkipJob,
         DecideFailure, FailJob, Settle, ReadOnly, CrashWorker, StopWorker,
         TimePasses, Appending, BeginAppend, EnqueueDebt, CommitAppend,
         AppendDies, CrashAppend
<1>2. ASSUME NEW w \in Workers, CommitBuild(w) \/ BuilderMigrates(w)
      PROVE  /\ cur[w] \in Jobs /\ pc[w] \in {"write", "commit"}
             /\ ledger' = ledger \cup {cur[w]}
             /\ \/ UNCHANGED copies
                \/ pc[w] = "commit" /\ copies' = Written(cur[w])
  BY <1>2 DEF CommitBuild, BuilderMigrates, TypeInv, HandOK
<1>3. QED
  BY <1>1, <1>2

LEMMA QueueHand ==
    ASSUME TypeInv, [Next]_vars, NEW w \in Workers
    PROVE  /\ tombstones' = tombstones
           /\ pc'[w] = "ack" => \/ cur'[w] \in ledger'
                                \/ pc[w] = "ack" /\ cur'[w] = cur[w]
           /\ pc'[w] \in PastTombstone =>
                 /\ cur'[w] = cur[w]
                 /\ \/ pc[w] \in PastTombstone
                    \/ pc[w] = "buried" /\ cur[w][1] \notin tombstones
<1> DEFINE Fine == /\ tombstones' = tombstones
                   /\ pc'[w] = "ack" => \/ cur'[w] \in ledger'
                                        \/ pc[w] = "ack" /\ cur'[w] = cur[w]
                   /\ pc'[w] \in PastTombstone =>
                         /\ cur'[w] = cur[w]
                         /\ \/ pc[w] \in PastTombstone
                            \/ pc[w] = "buried" /\ cur[w][1] \notin tombstones
<1>1. ASSUME tombstones' = tombstones, pc'[w] = pc[w], cur'[w] = cur[w] PROVE Fine
  BY <1>1
<1>2. CASE UNCHANGED <<tombstones, pc, cur>>
  BY <1>2
<1>3. ASSUME NEW v \in Workers, WorkerStep(v) \/ CrashWorker(v) \/ StopWorker(v)
      PROVE  Fine
  <2> USE DEF Goto, TypeInv, TypeOK
  <2>1. CASE Claim(v)
    BY <2>1 DEF Claim, PastTombstone
  <2>2. CASE TakeJob(v)
    BY <2>2 DEF TakeJob, storeVars, PastTombstone
  <2>3. CASE CheckTombstone(v)
    BY <2>3 DEF CheckTombstone, ReadOnly, memoryVars, storeVars, PastTombstone
  <2>4. CASE CheckDependencies(v)
    BY <2>4 DEF CheckDependencies, ReadOnly, memoryVars, storeVars, PastTombstone
  <2>5. CASE DecideFailure(v)
    BY <2>5 DEF DecideFailure, ReadOnly, memoryVars, storeVars, PastTombstone
  <2>6. CASE InsertLedger(v) \/ BuilderDeclines(v) \/ BuilderMigrates(v) \/ BuilderWrites(v)
    BY <2>6
    DEF InsertLedger, BuilderDeclines, BuilderMigrates, BuilderWrites, memoryVars,
        PastTombstone
  <2>7. CASE BuildRaises(v) \/ CommitBuild(v)
    BY <2>7 DEF BuildRaises, CommitBuild, memoryVars, PastTombstone
  <2>8. ASSUME NEW r, Settle(v, r) PROVE Fine
    BY <2>8 DEF Settle, Finished, memoryVars, PastTombstone
  <2>9. CASE CompleteJob(v) \/ SkipJob(v) \/ FailJob(v)
    BY <2>8, <2>9 DEF CompleteJob, SkipJob, FailJob
  <2>10. CASE PoisonKills(v) \/ CrashWorker(v) \/ StopWorker(v)
    BY <2>10
    DEF PoisonKills, CrashWorker, StopWorker, Halted, Restarts, storeVars, PastTombstone
  <2>11. QED
    BY <1>3, <2>1, <2>2, <2>3, <2>4, <2>5, <2>6, <2>7, <2>9, <2>10 DEF WorkerStep
<1>4. CASE (\E j \in Jobs : TimePasses(j)) \/ Appending \/ AppendDies
  BY <1>2, <1>4 DEF TimePasses, Appending, BeginAppend, EnqueueDebt, CommitAppend,
                    AppendDies, CrashAppend, workerVars
<1>5. QED
  BY <1>2, <1>3, <1>4 DEF Next, vars, storeVars, workerVars

-----------------------------------------------------------------------------
(* What the queue may rely on, whoever writes it.  LedgerInv is too much    *)
(* to ask here: with tombstones an event that has content may be skipped,   *)
(* and a deletion or a repair takes back what a parent's row said.          *)

Vouched == \A w \in Workers : pc[w] = "ack" => cur[w] \in ledger

LedgerHasRows == \A j \in ledger : jobs[j].status # "absent"

QueueInv ==
    /\ DebtInv
    /\ UpsertedOnce
    /\ Vouched
    /\ LedgerHasRows
    /\ LedgerBacked
    /\ ProjectionRecorded

LEMMA InitQueue == Init => QueueInv
<1>1. Init => UpsertedOnce /\ Vouched /\ LedgerHasRows
  BY DEF Init, StoreInit, UpsertedOnce, Vouched, LedgerHasRows
<1>2. Init => LedgerBacked /\ ProjectionRecorded
  BY DEF Init, StoreInit, Absent, LedgerBacked, ProjectionRecorded
<1>3. QED
  BY <1>1, <1>2, InitDebt DEF QueueInv

\* No build takes rows away from a target store.
LEMMA CopiesGrow ==
    ASSUME TypeInv, UpsertedOnce, [Next]_vars, NEW j \in Jobs
    PROVE  copies'[j] >= copies[j]
<1>1. copies[j] \in Nat /\ copies \in [Jobs -> Nat]
  BY DEF TypeInv, TypeOK, StoreTypeOK
<1>2. ASSUME NEW w \in Workers, cur[w] \in Jobs, copies' = Written(cur[w])
      PROVE  copies'[j] >= copies[j]
  BY <1>1, <1>2 DEF Written, UpsertedOnce
<1>3. QED
  BY <1>1, <1>2, QueueLedger

LEMMA QueueKeepsInv == QueueInv /\ [Next]_vars => QueueInv'
<1> SUFFICES ASSUME QueueInv, [Next]_vars PROVE QueueInv'
  OBVIOUS
<1>0. /\ DebtInv /\ TypeInv /\ UpsertedOnce /\ Vouched /\ LedgerHasRows
      /\ LedgerBacked /\ ProjectionRecorded /\ HeldExists
  BY DEF QueueInv, DebtInv
<1>1. DebtInv' /\ TypeInv'
  BY <1>0, DebtStep DEF DebtInv
<1>2. UpsertedOnce'
  BY <1>0, UpsertStep
<1>3. ledger \subseteq ledger'
  BY <1>0, QueueLedger
<1>4. Vouched'
  BY <1>0, <1>3, QueueHand DEF Vouched
<1>5. ledger' \subseteq Jobs
  BY <1>1 DEF TypeInv, TypeOK, StoreTypeOK
<1>6. LedgerHasRows'
  <2>1. ASSUME NEW j \in ledger' PROVE jobs[j].status # "absent"
    BY <1>0, <1>5, QueueLedger DEF LedgerHasRows, HeldExists, HeldBy
  <2>2. QED
    BY <1>0, <1>5, <2>1, QueueJob DEF LedgerHasRows
<1>7. LedgerBacked'
  BY <1>0, <1>3, QueueJob DEF LedgerBacked, Vouched
<1>8. ProjectionRecorded'
  <2> SUFFICES ASSUME NEW j \in Jobs, copies'[j] > 0 PROVE j \in ledger'
    BY DEF ProjectionRecorded
  <2>1. CASE copies'[j] = copies[j]
    BY <1>0, <1>3, <2>1 DEF ProjectionRecorded
  <2>2. CASE copies'[j] # copies[j]
    <3>1. PICK w \in Workers : /\ cur[w] \in Jobs /\ ledger' = ledger \cup {cur[w]}
                               /\ copies' = Written(cur[w])
      BY <1>0, <2>2, QueueLedger
    <3>2. j = cur[w]
      BY <1>0, <2>2, <3>1 DEF Written, TypeInv, TypeOK, StoreTypeOK
    <3>3. QED
      BY <3>1, <3>2
  <2>3. QED
    BY <2>1, <2>2
<1>9. QED
  BY <1>1, <1>2, <1>4, <1>6, <1>7, <1>8 DEF QueueInv

\* A write by somebody else: it may put rows back, add rows of events that are
\* there, park jobs and take projections away; it completes nothing.
LEMMA OthersKeepInv ==
    ASSUME QueueInv, UNCHANGED <<events, owed, ledger, writer, append, workerVars>>,
           jobs' \in [Jobs -> Row], copies' \in [Jobs -> Nat], tombstones' \subseteq Events,
           \A j \in Jobs : copies'[j] <= copies[j],
           \A j \in Jobs : /\ jobs[j].status # "absent" => jobs'[j].status # "absent"
                           /\ jobs'[j].status # "absent" =>
                                 jobs[j].status # "absent" \/ j[1] \in events
                           /\ jobs'[j].status = "completed" => jobs[j].status = "completed"
    PROVE  QueueInv'
<1>0. /\ DebtInv /\ TypeInv /\ UpsertedOnce /\ Vouched /\ LedgerHasRows
      /\ LedgerBacked /\ ProjectionRecorded
      /\ LockInv /\ StagedInv /\ HeldExists /\ DebtRecorded
  BY DEF QueueInv, DebtInv
<1>1. TypeInv'
  BY <1>0 DEF TypeInv, TypeOK, StoreTypeOK, HandOK, workerVars
<1>2. LockInv' /\ StagedInv'
  BY <1>0 DEF LockInv, StagedInv, workerVars, NoAppend
<1>3. HeldExists'
  BY <1>0 DEF HeldExists, HeldBy, workerVars
<1>4. DebtRecorded'
  <2>1. \A e \in events : \A t \in owed[e] : <<e, t>> \in Jobs
    BY <1>0 DEF TypeInv, TypeOK, StoreTypeOK, Jobs
  <2>2. QED
    BY <1>0, <2>1 DEF DebtRecorded
<1>5. DebtInv'
  BY <1>1, <1>2, <1>3, <1>4 DEF DebtInv
<1>6. ledger \subseteq Jobs /\ copies \in [Jobs -> Nat]
  BY <1>0 DEF TypeInv, TypeOK, StoreTypeOK
<1>7. UpsertedOnce'
  BY <1>0, <1>6 DEF UpsertedOnce
<1>8. Vouched' /\ LedgerHasRows' /\ LedgerBacked'
  BY <1>0, <1>6 DEF Vouched, LedgerHasRows, LedgerBacked, workerVars
<1>9. ProjectionRecorded'
  BY <1>0, <1>6 DEF ProjectionRecorded
<1>10. QED
  BY <1>5, <1>7, <1>8, <1>9 DEF QueueInv

-----------------------------------------------------------------------------
(* Deletion and replay.  A deletion subtracts what it resolved two steps    *)
(* before, and no store is left with fewer rows than none, because a        *)
(* projection only grows in between; a replay requeues what it planned      *)
(* before, for events that were there then and are there for good.          *)

Resolved ==
    /\ targets \in [Events -> Nat]
    /\ fpc \in {"queue", "delete"} =>
          \A e \in Events : targets[e] <= copies[<<e, Memory>>]

Planned ==
    /\ plan \subseteq [job : Jobs, how : {"enqueue", "reset", "rebuild"}]
    /\ \A c \in plan : c.job[1] \in events

ForgetTyped ==
    /\ fpc \in {"idle", "queue", "delete", "bury"}
    /\ doomed \subseteq Subject
    /\ rpc \in {"idle", "filter", "act"}
    /\ lifted \subseteq Events \ tombstones
    /\ late \subseteq Workers \X Jobs
    /\ reach \subseteq Subject
    /\ forgets \in 0..MaxForgets
    /\ replays \in 0..MaxReplays
    /\ deaths \in 0..MaxDeaths

\* A worker past its look at the tombstones writes what is buried only as one
\* of those that were late.
WindowInv ==
    \A w \in Workers :
        pc[w] \in PastTombstone /\ cur[w][1] \in tombstones => <<w, cur[w]>> \in late

ForgetInv == QueueInv /\ Resolved /\ Planned /\ ForgetTyped /\ WindowInv

LEMMA InitForget == ForgetInit => ForgetInv
<1> SUFFICES ASSUME ForgetInit PROVE ForgetInv
  OBVIOUS
<1>1. QueueInv
  BY InitQueue DEF ForgetInit
<1>2. Resolved /\ Planned
  BY DEF ForgetInit, Resolved, Planned
<1>3. 0 \in 0..MaxForgets /\ 0 \in 0..MaxReplays /\ 0 \in 0..MaxDeaths
  BY ForgettingAssumption
<1>4. ForgetTyped
  BY <1>3 DEF ForgetInit, ForgetTyped
<1>5. WindowInv
  BY DEF ForgetInit, Init, WindowInv, PastTombstone
<1>6. QED
  BY <1>1, <1>2, <1>4, <1>5 DEF ForgetInv

\* What a step that leaves the queue alone has to show.
LEMMA QueueRests ==
    ASSUME ForgetInv, UNCHANGED vars, UNCHANGED late
    PROVE  /\ QueueInv' /\ WindowInv'
           /\ targets' = targets /\ fpc' \in {fpc, "idle", "bury"} => Resolved'
           /\ UNCHANGED plan => Planned'
<1>1. QueueInv'
  BY QueueKeepsInv DEF ForgetInv
<1>2. UNCHANGED <<events, copies, tombstones, pc, cur>>
  BY DEF vars, storeVars, workerVars
<1>3. WindowInv'
  BY <1>2 DEF ForgetInv, WindowInv
<1>4. targets' = targets /\ fpc' \in {fpc, "idle", "bury"} => Resolved'
  BY <1>2 DEF ForgetInv, Resolved, Rows
<1>5. UNCHANGED plan => Planned'
  BY <1>2 DEF ForgetInv, Planned
<1>6. QED
  BY <1>1, <1>3, <1>4, <1>5

LEMMA QueueForget ==
    ASSUME ForgetInv, [Next]_vars, UNCHANGED forgetVars
    PROVE  ForgetInv'
<1>0. /\ QueueInv /\ TypeInv /\ UpsertedOnce /\ Resolved /\ Planned /\ ForgetTyped
      /\ WindowInv
  BY DEF ForgetInv, QueueInv, DebtInv
<1>1. UNCHANGED <<fpc, targets, doomed, plan, rpc, lifted, late, reach, forgets,
                  replays, deaths>>
  BY DEF forgetVars
<1>2. QueueInv' /\ TypeInv'
  BY <1>0, QueueKeepsInv DEF QueueInv, DebtInv
<1>3. Resolved'
  <2>1. ASSUME NEW e \in Events, fpc \in {"queue", "delete"}
        PROVE  targets[e] <= copies'[<<e, Memory>>]
    <3>1. <<e, Memory>> \in Jobs
      BY ForgettingAssumption DEF Jobs
    <3>2. copies'[<<e, Memory>>] >= copies[<<e, Memory>>]
      BY <1>0, <3>1, CopiesGrow
    <3>3. targets[e] <= copies[<<e, Memory>>] /\ targets[e] \in Nat
      BY <1>0, <2>1 DEF Resolved
    <3>4. copies[<<e, Memory>>] \in Nat /\ copies'[<<e, Memory>>] \in Nat
      BY <1>0, <1>2, <3>1 DEF TypeInv, TypeOK, StoreTypeOK
    <3>5. QED
      BY <3>2, <3>3, <3>4
  <2>2. QED
    BY <1>0, <1>1, <2>1 DEF Resolved
<1>4. events \subseteq events'
  BY DEF Next, vars, storeVars, WorkerStep, Claim, TakeJob, CheckTombstone,
         CheckDependencies, InsertLedger, BuilderDeclines, BuilderMigrates,
         BuilderWrites, BuildRaises, CommitBuild, PoisonKills, CompleteJob, SkipJob,
         DecideFailure, FailJob, Settle, ReadOnly, CrashWorker, StopWorker,
         TimePasses, Appending, BeginAppend, EnqueueDebt, CommitAppend,
         AppendDies, CrashAppend
<1>5. Planned'
  BY <1>0, <1>1, <1>4 DEF Planned
<1>6. tombstones' = tombstones /\ ForgetTyped'
  <2>1. tombstones' = tombstones
    BY DEF Next, vars, storeVars, WorkerStep, Claim, TakeJob, CheckTombstone,
           CheckDependencies, InsertLedger, BuilderDeclines, BuilderMigrates,
           BuilderWrites, BuildRaises, CommitBuild, PoisonKills, CompleteJob, SkipJob,
           DecideFailure, FailJob, Settle, ReadOnly, CrashWorker, StopWorker,
           TimePasses, Appending, BeginAppend, EnqueueDebt, CommitAppend,
           AppendDies, CrashAppend
  <2>2. QED
    BY <1>0, <1>1, <2>1 DEF ForgetTyped
<1>7. WindowInv'
  BY <1>0, <1>1, <1>6, QueueHand DEF WindowInv
<1>8. QED
  BY <1>2, <1>3, <1>5, <1>6, <1>7 DEF ForgetInv

\* A deletion takes from a target store no more rows than it has.
LEMMA DeletionShrinks ==
    ASSUME ForgetInv, DeleteRows, NEW j \in Jobs
    PROVE  copies'[j] \in Nat /\ copies'[j] <= copies[j]
<1>1. Resolved /\ fpc = "delete" /\ copies'[j] = Deleted(j) /\ copies[j] \in Nat
  BY DEF DeleteRows, ForgetInv, QueueInv, DebtInv, TypeInv, TypeOK, StoreTypeOK
<1>2. CASE j[1] \in doomed /\ j[2] = Memory
  <2>1. j[1] \in Events /\ j = <<j[1], Memory>>
    BY <1>2 DEF Jobs
  <2>2. targets[j[1]] <= copies[<<j[1], Memory>>] /\ targets[j[1]] \in Nat
    BY <1>1, <2>1 DEF Resolved
  <2>3. targets[j[1]] <= copies[j]
    BY <2>1, <2>2
  <2>4. Deleted(j) = copies[j] - targets[j[1]]
    BY <1>2 DEF Deleted
  <2>5. QED
    BY <1>1, <2>2, <2>3, <2>4
<1>3. CASE ~(j[1] \in doomed /\ j[2] = Memory)
  <2>1. Deleted(j) \in {copies[j], 0}
    BY <1>3 DEF Deleted
  <2>2. QED
    BY <1>1, <2>1
<1>4. QED
  BY <1>2, <1>3

\* forget_derived.
LEMMA ForgettingStep ==
    ASSUME ForgetInv, Forget \/ ForgetDies
    PROVE  ForgetInv'
<1>0. /\ QueueInv /\ TypeInv /\ Resolved /\ Planned /\ ForgetTyped /\ WindowInv
      /\ MaxForgets \in Nat /\ MaxDeaths \in Nat
  BY ForgettingAssumption DEF ForgetInv, QueueInv, DebtInv
<1>1. /\ copies \in [Jobs -> Nat] /\ jobs \in [Jobs -> Row] /\ tombstones \subseteq Events
      /\ \A e \in Events : <<e, Memory>> \in Jobs
  BY <1>0, ForgettingAssumption DEF TypeInv, TypeOK, StoreTypeOK, Jobs
<1>2. CASE Resolve
  <2>1. /\ UNCHANGED vars
        /\ UNCHANGED <<doomed, plan, rpc, lifted, late, replays, deaths>>
        /\ targets' = [e \in Events |-> IF e \in Subject THEN Rows(e) ELSE 0]
        /\ fpc' = "queue" /\ reach' \subseteq Subject /\ forgets' \in 0..MaxForgets
    BY <1>0, <1>2 DEF Resolve, ForgetTyped
  <2>2. UNCHANGED <<copies, tombstones>>
    BY <2>1 DEF vars, storeVars
  <2>3. Resolved'
    BY <1>1, <2>1, <2>2 DEF Resolved, Rows
  <2>4. ForgetTyped'
    BY <1>0, <2>1, <2>2 DEF ForgetTyped
  <2>5. QED
    BY <2>1, <2>3, <2>4, QueueRests DEF ForgetInv
<1>3. CASE ReadQueue
  <2>1. /\ UNCHANGED vars
        /\ UNCHANGED <<targets, plan, rpc, lifted, late, reach, forgets, replays, deaths>>
        /\ doomed' \subseteq Subject /\ fpc = "queue" /\ fpc' \in {"idle", "delete"}
    BY <1>3 DEF ReadQueue
  <2>2. UNCHANGED <<copies, tombstones>>
    BY <2>1 DEF vars, storeVars
  <2>3. Resolved'
    BY <1>0, <2>1, <2>2 DEF Resolved
  <2>4. ForgetTyped'
    BY <1>0, <2>1, <2>2 DEF ForgetTyped
  <2>5. QED
    BY <2>1, <2>3, <2>4, QueueRests DEF ForgetInv
<1>4. CASE DeleteRows
  <2>1. /\ fpc = "delete" /\ fpc' = "bury"
        /\ copies' = [j \in Jobs |-> Deleted(j)]
        /\ UNCHANGED <<events, owed, jobs, ledger, tombstones, writer, append, workerVars>>
        /\ UNCHANGED <<targets, doomed, plan, rpc, lifted, late, reach,
                       forgets, replays, deaths>>
    BY <1>4 DEF DeleteRows
  <2>2. \A j \in Jobs : copies'[j] \in Nat /\ copies'[j] <= copies[j]
    BY <1>4, DeletionShrinks
  <2>3. copies' \in [Jobs -> Nat]
    BY <2>1, <2>2
  <2>4. QueueInv'
    BY <1>0, <1>1, <2>1, <2>2, <2>3, OthersKeepInv
  <2>5. Resolved' /\ Planned' /\ ForgetTyped' /\ WindowInv'
    BY <1>0, <2>1 DEF Resolved, Planned, ForgetTyped, WindowInv, workerVars
  <2>6. QED
    BY <2>4, <2>5 DEF ForgetInv
<1>5. CASE PlaceTombstones
  <2>1. /\ tombstones' = tombstones \cup doomed
        /\ lifted' = lifted \ doomed
        /\ late' = late \cup PastCheck(doomed)
        /\ fpc' = "idle"
        /\ UNCHANGED <<events, owed, jobs, ledger, copies, writer, append, workerVars>>
        /\ UNCHANGED <<targets, doomed, plan, rpc, reach, forgets, replays, deaths>>
    BY <1>5 DEF PlaceTombstones
  <2>2. tombstones' \subseteq Events
    BY <1>0, <1>1, <2>1, ForgettingAssumption DEF ForgetTyped
  <2>3. QueueInv'
    <3>1. \A j \in Jobs : copies'[j] <= copies[j]
      BY <1>1, <2>1
    <3>2. QED
      BY <1>0, <1>1, <2>1, <2>2, <3>1, OthersKeepInv
  <2>4. PastCheck(doomed) \subseteq Workers \X Jobs
    BY <1>0 DEF PastCheck, TypeInv, HandOK
  <2>5. ForgetTyped'
    BY <1>0, <2>1, <2>4 DEF ForgetTyped
  <2>6. WindowInv'
    BY <1>0, <2>1 DEF WindowInv, PastCheck, PastTombstone, workerVars
  <2>7. Resolved' /\ Planned'
    BY <1>0, <2>1 DEF Resolved, Planned
  <2>8. QED
    BY <2>3, <2>5, <2>6, <2>7 DEF ForgetInv
<1>6. CASE ForgetDies
  <2>1. /\ UNCHANGED vars
        /\ UNCHANGED <<targets, doomed, plan, rpc, lifted, late, reach, forgets, replays>>
        /\ fpc' = "idle" /\ deaths' \in 0..MaxDeaths
    BY <1>0, <1>6 DEF ForgetDies, ForgetTyped
  <2>2. ForgetTyped'
    BY <1>0, <2>1 DEF ForgetTyped, vars, storeVars
  <2>3. QED
    BY <2>1, <2>2, QueueRests DEF ForgetInv
<1>7. QED
  BY <1>2, <1>3, <1>4, <1>5, <1>6 DEF Forget

\* The lifting of a tombstone, and the replay engine.
LEMMA ReplayStep ==
    ASSUME ForgetInv,
           \/ \E e \in Events : Lift(e)
           \/ Scan \/ FilterBuried \/ ReplayReturns
           \/ \E type \in Types : Rebuild(type)
           \/ \E c \in plan : Requeue(c)
    PROVE  ForgetInv'
<1>0. /\ QueueInv /\ TypeInv /\ Resolved /\ Planned /\ ForgetTyped /\ WindowInv
      /\ MaxReplays \in Nat
  BY ForgettingAssumption DEF ForgetInv, QueueInv, DebtInv
<1>1. /\ copies \in [Jobs -> Nat] /\ jobs \in [Jobs -> Row] /\ tombstones \subseteq Events
      /\ events \subseteq Events /\ \A j \in Jobs : copies[j] <= copies[j]
      /\ Replayable \subseteq Types
  BY <1>0, StoreAssumption DEF TypeInv, TypeOK, StoreTypeOK
<1>2. ASSUME NEW e \in Events, Lift(e) PROVE ForgetInv'
  <2>1. /\ tombstones' = tombstones \ {e}
        /\ lifted' = lifted \cup {e}
        /\ late' = {one \in late : one[2][1] # e}
        /\ UNCHANGED <<events, owed, jobs, ledger, copies, writer, append, workerVars>>
        /\ UNCHANGED <<fpc, targets, doomed, plan, rpc, reach, forgets, replays, deaths>>
    BY <1>2 DEF Lift
  <2>2. QueueInv'
    BY <1>0, <1>1, <2>1, OthersKeepInv
  <2>3. ForgetTyped'
    BY <1>0, <1>2, <2>1 DEF ForgetTyped
  <2>4. WindowInv'
    BY <1>0, <2>1 DEF WindowInv, workerVars
  <2>5. Resolved' /\ Planned'
    BY <1>0, <2>1 DEF Resolved, Planned
  <2>6. QED
    BY <2>2, <2>3, <2>4, <2>5 DEF ForgetInv
<1>3. ASSUME UNCHANGED vars, UNCHANGED forgettingVars, rpc' \in {"idle", "filter", "act"},
             replays' \in 0..MaxReplays,
             plan' \subseteq [job : Jobs, how : {"enqueue", "reset", "rebuild"}],
             \A c \in plan' : c.job[1] \in events
      PROVE  ForgetInv'
  <2>1. UNCHANGED <<fpc, targets, doomed, lifted, late, reach, forgets, deaths>>
    BY <1>3 DEF forgettingVars
  <2>2. Planned'
    BY <1>3 DEF Planned, vars, storeVars
  <2>3. ForgetTyped'
    BY <1>0, <1>3, <2>1 DEF ForgetTyped, vars, storeVars
  <2>4. QED
    BY <1>3, <2>1, <2>2, <2>3, QueueRests DEF ForgetInv
<1>4. replays < MaxReplays => replays + 1 \in 0..MaxReplays
  BY <1>0 DEF ForgetTyped
<1>5. CASE Scan
  <2>1. /\ Candidates \subseteq [job : Jobs, how : {"enqueue", "reset", "rebuild"}]
        /\ \A c \in Candidates : c.job[1] \in events
    BY <1>1 DEF Candidates, Jobs
  <2>2. QED
    BY <1>3, <1>4, <1>5, <2>1 DEF Scan
<1>6. CASE FilterBuried
  BY <1>0, <1>3, <1>6 DEF FilterBuried, Planned, ForgetTyped
<1>7. CASE ReplayReturns
  BY <1>0, <1>3, <1>7 DEF ReplayReturns, Planned, ForgetTyped
<1>8. ASSUME NEW type \in Types, Rebuild(type) PROVE ForgetInv'
  <2>1. /\ plan' = [job : (events \ tombstones) \X ({type} \cap Replayable),
                    how : {"rebuild"}]
        /\ UNCHANGED vars /\ UNCHANGED forgettingVars /\ rpc' = "act"
        /\ replays' \in 0..MaxReplays
    BY <1>4, <1>8 DEF Rebuild
  <2>2. /\ plan' \subseteq [job : Jobs, how : {"enqueue", "reset", "rebuild"}]
        /\ \A c \in plan' : c.job[1] \in events
    BY <1>1, <2>1 DEF Jobs
  <2>3. QED
    BY <1>3, <2>1, <2>2
<1>9. ASSUME NEW c \in plan, Requeue(c) PROVE ForgetInv'
  <2>1. /\ plan' = plan \ {c} /\ jobs' = Requeued(c)
        /\ UNCHANGED <<events, owed, ledger, copies, tombstones, writer, append, workerVars>>
        /\ UNCHANGED <<fpc, targets, doomed, lifted, late, reach, forgets, deaths,
                       rpc, replays>>
    BY <1>9 DEF Requeue, forgettingVars
  <2>2. c.job \in Jobs /\ c.job[1] \in events
    BY <1>0 DEF Planned
  <2>3. Fresh \in Row /\ Fresh.status = "pending"
    BY RowTypes DEF Fresh
  <2>4. /\ jobs' \in [Jobs -> Row]
        /\ \A j \in Jobs : jobs'[j] # jobs[j] => jobs'[j] = Fresh /\ j[1] = c.job[1]
    <3>1. CASE c.how = "reset"
      BY <1>1, <2>1, <2>2, <2>3, <3>1 DEF Requeued
    <3>2. CASE c.how # "reset" /\ jobs' = jobs
      BY <1>1, <3>2
    <3>3. CASE c.how # "reset" /\ jobs' = Enqueued(c.job[1], {c.job[2]})
      BY <1>1, <2>3, <3>3 DEF Enqueued
    <3>4. QED
      BY <2>1, <3>1, <3>2, <3>3 DEF Requeued
  <2>5. QueueInv'
    <3>1. \A j \in Jobs : /\ jobs[j].status # "absent" => jobs'[j].status # "absent"
                          /\ jobs'[j].status # "absent" =>
                                jobs[j].status # "absent" \/ j[1] \in events
                          /\ jobs'[j].status = "completed" => jobs[j].status = "completed"
      BY <2>2, <2>3, <2>4
    <3>2. QED
      BY <1>0, <1>1, <2>1, <2>4, <3>1, OthersKeepInv
  <2>6. Resolved' /\ Planned' /\ ForgetTyped' /\ WindowInv'
    BY <1>0, <2>1 DEF Resolved, Planned, ForgetTyped, WindowInv, workerVars
  <2>7. QED
    BY <2>5, <2>6 DEF ForgetInv
<1>10. QED
  BY <1>2, <1>5, <1>6, <1>7, <1>8, <1>9

LEMMA ForgetStep == ForgetInv /\ [ForgetNext]_allVars => ForgetInv'
<1>1. UNCHANGED allVars => [Next]_vars /\ UNCHANGED forgetVars
  BY DEF allVars
<1>2. Queue => [Next]_vars /\ UNCHANGED forgetVars
  BY DEF Queue
<1>3. QED
  BY <1>1, <1>2, QueueForget, ForgettingStep, ReplayStep DEF ForgetNext

LEMMA ForgetInvariant == ForgetSpec => []ForgetInv
BY InitForget, ForgetStep, PTL DEF ForgetSpec

\* Deletion and replay keep every type, and in particular no target store is
\* left with fewer rows than none by a deletion of what was read earlier.
THEOREM DeletionTypeCorrect == ForgetSpec => []ForgetTypeOK
<1>1. ForgetInv => ForgetTypeOK
  BY DEF ForgetInv, QueueInv, DebtInv, TypeInv, Resolved, Planned, ForgetTyped, ForgetTypeOK
<1>2. QED
  BY <1>1, ForgetInvariant, PTL

\* A completed job keeps its ledger row, whatever is deleted, lifted, replayed
\* and rebuilt under the workers.
THEOREM DeletionKeepsTheLedger == ForgetSpec => [](LedgerBacked /\ ProjectionRecorded)
<1>1. ForgetInv => LedgerBacked /\ ProjectionRecorded
  BY DEF ForgetInv, QueueInv
<1>2. QED
  BY <1>1, ForgetInvariant, PTL

\* A replay or a rebuild owes nothing of an event that is not in the log, and
\* takes nothing back of what a committed event owes.
THEOREM DeletionKeepsTheDebt == ForgetSpec => []DebtRecorded
<1>1. ForgetInv => DebtRecorded
  BY DEF ForgetInv, QueueInv, DebtInv
<1>2. QED
  BY <1>1, ForgetInvariant, PTL

\* What OnlyLateWrites says of a step.
LateWrites ==
    \A j \in Jobs :
        /\ j[1] \in tombstones
        /\ j[1] \in tombstones'
        /\ copies'[j] > copies[j]
        => \E w \in Workers : <<w, j>> \in late /\ cur[w] = j /\ pc[w] = "commit"

LEMMA WindowStep == ForgetInv /\ [ForgetNext]_allVars => LateWrites
<1> SUFFICES ASSUME ForgetInv, [ForgetNext]_allVars,
                    NEW j \in Jobs, j[1] \in tombstones, copies'[j] > copies[j]
             PROVE  \E w \in Workers : <<w, j>> \in late /\ cur[w] = j /\ pc[w] = "commit"
  BY DEF LateWrites
<1>1. TypeInv /\ WindowInv /\ copies \in [Jobs -> Nat]
  BY DEF ForgetInv, QueueInv, DebtInv, TypeInv, TypeOK, StoreTypeOK
<1>2. copies'[j] # copies[j]
  <2>1. copies[j] \in Nat
    BY <1>1
  <2>2. QED
    BY <2>1
<1>3. CASE [Next]_vars
  <2>1. PICK w \in Workers : /\ cur[w] \in Jobs /\ pc[w] = "commit"
                             /\ copies' = Written(cur[w])
    BY <1>1, <1>2, <1>3, QueueLedger
  <2>2. j = cur[w]
    BY <1>1, <1>2, <2>1 DEF Written
  <2>3. QED
    BY <1>1, <2>1, <2>2 DEF WindowInv, PastTombstone
<1>4. CASE DeleteRows
  <2>1. copies'[j] \in Nat /\ copies[j] \in Nat /\ copies'[j] <= copies[j]
    BY <1>1, <1>4, DeletionShrinks
  <2>2. QED
    BY <2>1
<1>5. [Next]_vars \/ DeleteRows \/ UNCHANGED copies
  BY DEF ForgetNext, Queue, Forget, Resolve, ReadQueue, PlaceTombstones, ForgetDies,
         Lift, Scan, FilterBuried, Rebuild, Requeue, ReplayReturns, allVars, vars, storeVars
<1>6. QED
  BY <1>2, <1>3, <1>4, <1>5

\* The two checks of the tombstone leave one window and no other: for any
\* number of workers, events, replays and lifts, what is buried is written again
\* only by a worker that was past its check when the tombstone landed.
THEOREM OneWindow == ForgetSpec => OnlyLateWrites
<1>1. ForgetSpec => [][LateWrites]_allVars
  BY WindowStep, ForgetInvariant, PTL DEF ForgetSpec
<1>2. QED
  BY <1>1 DEF OnlyLateWrites, LateWrites

-----------------------------------------------------------------------------
(* Nothing is built twice beside a deletion.  A replay puts a job back by   *)
(* its id, on the word of a scan that is old by then; if a worker has taken *)
(* the job up meanwhile, a second one builds it too.  A repair does the     *)
(* same.  That is the only way: as long as no step but a worker's own       *)
(* touches what is in hand, leases keep their promise.                      *)

HandsSpared ==
    UNCHANGED workerVars => \A j \in Jobs : InHand(j) => jobs'[j] = jobs[j]

\* A write by somebody else, which leaves the hands alone.
LEMMA OthersLease ==
    ASSUME RowsInv, LeaseInv, UNCHANGED <<ledger, workerVars>>, HandsSpared,
           \A j \in Jobs : copies'[j] \in Nat /\ copies'[j] <= copies[j]
    PROVE  LeaseInv'
<1>1. UNCHANGED <<pc, cur, claimed>>
  BY DEF workerVars
<1>2. \A w \in Workers, j \in Jobs : HeldBy(w, j) => jobs'[j] = jobs[j]
  BY DEF HandsSpared, InHand, HeldBy
<1>3. \A j \in Jobs : copies[j] \in Nat
  BY DEF RowsInv, TypeInv, TypeOK, StoreTypeOK
<1>4. Separate' /\ HeldLive'
  BY <1>1, <1>2 DEF LeaseInv, Separate, HeldLive, HeldBy
<1>5. AtMostOnce'
  <2>1. ASSUME NEW j \in Jobs PROVE copies'[j] <= 1
    <3>1. copies[j] <= 1
      BY DEF LeaseInv, AtMostOnce
    <3>2. QED
      BY <1>3, <3>1
  <2>2. QED
    BY <2>1 DEF AtMostOnce
<1>6. HandsFresh'
  <2>1. ASSUME NEW w \in Workers, pc[w] \in {"late_write", "commit"}
        PROVE  copies'[cur[w]] = 0
    <3>1. cur[w] \in Jobs /\ copies[cur[w]] = 0
      BY <2>1 DEF RowsInv, TypeInv, HandOK, LeaseInv, HandsFresh
    <3>2. QED
      BY <1>3, <3>1
  <2>2. QED
    BY <1>1, <2>1 DEF LeaseInv, HandsFresh
<1>7. QED
  BY <1>4, <1>5, <1>6 DEF LeaseInv

LEMMA ForgetLease ==
    ASSUME LeaseOutlastsBatch, ForgetInv, LeaseInv, [ForgetNext]_allVars, [HandsSpared]_vars
    PROVE  LeaseInv'
<1>1. RowsInv
  BY DEF ForgetInv, QueueInv, DebtInv, RowsInv
<1>2. CASE [Next]_vars
  BY <1>1, <1>2, LeaseStep
<1>3. CASE ~[Next]_vars
  <2>1. HandsSpared
    BY <1>3
  <2>2. UNCHANGED <<ledger, workerVars>> /\ (UNCHANGED copies \/ DeleteRows)
    BY <1>3
    DEF ForgetNext, Queue, Forget, Resolve, ReadQueue, DeleteRows, PlaceTombstones,
        ForgetDies, Lift, Scan, FilterBuried, Rebuild, Requeue, ReplayReturns, allVars,
        vars, storeVars
  <2>3. \A j \in Jobs : copies'[j] \in Nat /\ copies'[j] <= copies[j]
    <3>1. \A j \in Jobs : copies[j] \in Nat
      BY <1>1 DEF RowsInv, TypeInv, TypeOK, StoreTypeOK
    <3>2. QED
      BY <2>2, <3>1, DeletionShrinks
  <2>4. QED
    BY <1>1, <2>1, <2>2, <2>3, OthersLease
<1>4. QED
  BY <1>2, <1>3

\* Forgets, lifts and rebuilds, and replays that put back no job a worker has
\* in hand, leave no memory stored twice while leases outlast the batch.
THEOREM DeletionStoresOnce ==
    ASSUME LeaseOutlastsBatch
    PROVE  ForgetSpec /\ [][HandsSpared]_vars => []AtMostOnce
<1>1. ForgetInit => LeaseInv
  BY InitLease DEF ForgetInit
<1>2. ForgetInv /\ LeaseInv /\ [ForgetNext]_allVars /\ [HandsSpared]_vars => LeaseInv'
  BY ForgetLease
<1>3. LeaseInv => AtMostOnce
  BY DEF LeaseInv
<1>4. QED
  BY <1>1, <1>2, <1>3, ForgetInvariant, PTL DEF ForgetSpec

\* The queue itself spares what is in hand: the clock waits for its lease, and
\* an append adds what was not there.
LEMMA QueueSparesHands ==
    ASSUME LeaseOutlastsBatch, RowsInv, LeaseInv, [Next]_vars
    PROVE  HandsSpared
<1> SUFFICES ASSUME UNCHANGED workerVars, NEW k \in Jobs, InHand(k)
             PROVE  jobs'[k] = jobs[k]
  BY DEF HandsSpared
<1>1. jobs[k].status = "in_progress" /\ jobs \in [Jobs -> Row] /\ pc \in [Workers -> PC]
  BY DEF InHand, LeaseInv, HeldLive, HeldBy, RowsInv, TypeInv, TypeOK, StoreTypeOK
<1>2. ASSUME NEW j \in Jobs, TimePasses(j) PROVE jobs'[k] = jobs[k]
  BY <1>1, <1>2 DEF TimePasses
<1>3. CASE Appending
  BY <1>1, <1>3 DEF Appending, BeginAppend, EnqueueDebt, CommitAppend, Enqueued
<1>4. ASSUME NEW w \in Workers, Claim(w) \/ CompleteJob(w) \/ SkipJob(w) \/ FailJob(w)
      PROVE  FALSE
  <2>1. UNCHANGED pc
    BY DEF workerVars
  <2>2. pc'[w] # pc[w]
    BY <1>1, <1>4
    DEF Claim, CompleteJob, SkipJob, FailJob, Settle, Finished, Goto
  <2>3. QED
    BY <2>1, <2>2
<1>5. \/ UNCHANGED jobs
      \/ \E w \in Workers : Claim(w) \/ CompleteJob(w) \/ SkipJob(w) \/ FailJob(w)
      \/ \E j \in Jobs : TimePasses(j)
      \/ Appending
  BY DEF Next, vars, storeVars, WorkerStep, TakeJob, CheckTombstone,
         CheckDependencies, InsertLedger, BuilderDeclines, BuilderMigrates,
         BuilderWrites, BuildRaises, PoisonKills, CommitBuild, DecideFailure,
         ReadOnly, CrashWorker, StopWorker, AppendDies, CrashAppend
<1>6. QED
  BY <1>2, <1>3, <1>4, <1>5

\* Where nobody replays, that is so of every step: forgets and lifts alone
\* leave no memory stored twice.
THEOREM ForgetsStoreOnce ==
    ASSUME LeaseOutlastsBatch, MaxReplays = 0
    PROVE  ForgetSpec => []AtMostOnce
<1> DEFINE Unplayed == rpc = "idle"
<1>1. ForgetInit => Unplayed /\ LeaseInv
  BY InitLease DEF ForgetInit
<1>2. ForgetInv /\ Unplayed /\ [ForgetNext]_allVars => Unplayed'
  BY DEF ForgetInv, ForgetTyped, ForgetNext, Queue, Forget, Resolve, ReadQueue, DeleteRows,
         PlaceTombstones, ForgetDies, Lift, Scan, FilterBuried, Rebuild, Requeue,
         ReplayReturns, allVars, forgetVars
<1>3. ForgetInv /\ LeaseInv /\ Unplayed /\ [ForgetNext]_allVars => LeaseInv'
  <2> SUFFICES ASSUME ForgetInv, LeaseInv, Unplayed, [ForgetNext]_allVars
               PROVE  LeaseInv'
    OBVIOUS
  <2>1. RowsInv
    BY DEF ForgetInv, QueueInv, DebtInv, RowsInv
  <2>2. [Next]_vars \/ UNCHANGED jobs
    BY DEF ForgetNext, Queue, Forget, Resolve, ReadQueue, DeleteRows, PlaceTombstones,
           ForgetDies, Lift, Scan, FilterBuried, Rebuild, Requeue, ReplayReturns,
           allVars, vars, storeVars
  <2>3. HandsSpared
    BY <2>1, <2>2, QueueSparesHands DEF HandsSpared
  <2>4. QED
    BY <2>3, ForgetLease
<1>4. LeaseInv => AtMostOnce
  BY DEF LeaseInv
<1>5. QED
  BY <1>1, <1>2, <1>3, <1>4, ForgetInvariant, PTL DEF ForgetSpec

-----------------------------------------------------------------------------
(* The doctor.  A repair acts on a finding that is old by then, by job id;  *)
(* what it may rely on is that a row once found is there for good.          *)

Found ==
    /\ dpc \in {"idle", "repair", "execute", "window", "save"}
    /\ actions \subseteq Finding /\ action \in Finding \cup {NoFinding}
    /\ \A f \in actions : Exists(f.job)
    /\ dpc = "execute" => action \in Finding /\ Exists(action.job)
    /\ mended \subseteq Jobs
    /\ scans \in 0..MaxScans

\* CoveredWasClean is not inductive: the ledger check is windowed by a position
\* of its own, and a row may pass that one only if it also passes the other.
CursorInv ==
    /\ {mark, covered} \subseteq Position
    /\ clean \in BOOLEAN /\ examined \subseteq Jobs
    /\ \A j \in mark.outbox : Exists(j)
    /\ mark.ledger \subseteq mark.outbox
    /\ covered.ledger \subseteq covered.outbox
    /\ dpc = "save" /\ clean => mark.outbox \subseteq examined
    /\ CoveredWasClean

DoctorInv == ForgetInv /\ Found /\ CursorInv

LEMMA InitDoctor == DoctorInit => DoctorInv
<1> SUFFICES ASSUME DoctorInit PROVE DoctorInv
  OBVIOUS
<1>1. ForgetInv
  BY InitForget DEF DoctorInit
<1>2. 0 \in 0..MaxScans
  BY DoctorAssumption
<1>3. Found
  BY <1>2 DEF DoctorInit, Found
<1>4. CursorInv
  <2>1. mark = Start /\ covered = Start /\ clean = FALSE /\ examined = {} /\ dpc = "idle"
    BY DEF DoctorInit
  <2>2. Start \in Position /\ Start.outbox = {} /\ Start.ledger = {}
    BY DEF Start, Position
  <2>3. QED
    BY <2>1, <2>2 DEF CursorInv, CoveredWasClean
<1>5. QED
  BY <1>1, <1>3, <1>4 DEF DoctorInv

\* No row of the outbox is ever deleted.
LEMMA RowsStayThere ==
    ASSUME ForgetInv, [ForgetNext]_allVars, NEW j \in Jobs, Exists(j)
    PROVE  Exists(j)'
<1>0. TypeInv /\ Planned /\ jobs \in [Jobs -> Row]
  BY DEF ForgetInv, QueueInv, DebtInv, TypeInv, TypeOK, StoreTypeOK
<1>1. CASE [Next]_vars
  BY <1>0, <1>1, QueueJob DEF Exists
<1>2. ASSUME NEW c \in plan, Requeue(c) PROVE jobs'[j].status # "absent"
  <2>1. c.job \in Jobs /\ jobs' = Requeued(c) /\ Fresh.status = "pending"
    BY <1>0, <1>2 DEF Planned, Requeue, Fresh
  <2>2. CASE c.how = "reset"
    BY <1>0, <2>1, <2>2 DEF Requeued, Exists
  <2>3. CASE c.how # "reset" /\ jobs' = jobs
    BY <2>3 DEF Exists
  <2>4. CASE c.how # "reset" /\ jobs' = Enqueued(c.job[1], {c.job[2]})
    BY <2>4 DEF Enqueued, Exists
  <2>5. QED
    BY <2>1, <2>2, <2>3, <2>4 DEF Requeued
<1>3. \/ [Next]_vars \/ UNCHANGED jobs \/ \E c \in plan : Requeue(c)
  BY DEF ForgetNext, Queue, Forget, Resolve, ReadQueue, DeleteRows, PlaceTombstones,
         ForgetDies, Lift, Scan, FilterBuried, Rebuild, ReplayReturns, allVars, vars, storeVars
<1>4. QED
  BY <1>1, <1>2, <1>3 DEF Exists

\* What a step has to show that is not the doctor's own.
LEMMA DoctorRests ==
    ASSUME DoctorInv, ForgetInv', \A j \in Jobs : Exists(j) => Exists(j)',
           UNCHANGED <<dpc, actions, action, mark, covered, clean, examined, scans>>,
           mended' \subseteq mended
    PROVE  DoctorInv'
<1>1. \A f \in Finding : f.job \in Jobs
  BY DEF Finding
<1>2. Found'
  BY <1>1 DEF DoctorInv, Found
<1>3. mark \in Position /\ mark.outbox \subseteq Jobs
  BY DEF DoctorInv, CursorInv, Position
<1>4. CursorInv'
  BY <1>3 DEF DoctorInv, CursorInv, CoveredWasClean
<1>5. QED
  BY <1>2, <1>4 DEF DoctorInv

LEMMA RepairedRowType ==
    ASSUME NEW r \in Row, NEW code
    PROVE  /\ RepairedRow(code, r) \in Row
           /\ RepairedRow(code, r).status \in {"pending", "dead_letter"}
<1>1. /\ Fresh \in Row /\ Fresh.status = "pending"
      /\ DeadRow(r) \in Row /\ DeadRow(r).status = "dead_letter"
  BY RowTypes DEF Fresh, DeadRow, Row
<1>2. /\ [r EXCEPT !.status = "pending", !.due = TRUE] \in Row
      /\ [r EXCEPT !.status = "pending", !.due = TRUE].status = "pending"
  BY DEF Row, Status
<1>3. RepairedRow(code, r) \in {[r EXCEPT !.status = "pending", !.due = TRUE], Fresh,
                                DeadRow(r)}
  BY DEF RepairedRow
<1>4. QED
  BY <1>1, <1>2, <1>3

\* A repair, from the scan to the write.
LEMMA RepairStep ==
    ASSUME DoctorInv,
           Diagnose \/ (\E f \in actions : CheckRepair(f)) \/ ExecuteRepair \/ RepairReturns
    PROVE  DoctorInv'
<1>0. /\ ForgetInv /\ Found /\ CursorInv /\ TypeInv /\ jobs \in [Jobs -> Row]
      /\ MaxScans \in Nat
  BY DoctorAssumption
  DEF DoctorInv, ForgetInv, QueueInv, DebtInv, TypeInv, TypeOK, StoreTypeOK
<1>1. ASSUME UNCHANGED allVars PROVE ForgetInv' /\ UNCHANGED jobs
  BY <1>0, <1>1, ForgetStep DEF allVars, vars, storeVars
<1>2. ASSUME UNCHANGED <<mark, covered, clean, examined>>, UNCHANGED jobs, dpc' # "save"
      PROVE  CursorInv'
  BY <1>0, <1>2 DEF CursorInv, Exists, CoveredWasClean
<1>3. CASE Diagnose
  <2>1. PICK stale \in SUBSET StaleLeases :
          actions' = {f \in Report(Start, stale) : f.code \in Repairable}
    BY <1>3 DEF Diagnose
  <2>2. ASSUME NEW f \in actions' PROVE f \in Finding /\ Exists(f.job)
    <3>1. f \in Report(Start, stale) /\ f.code \in Repairable
      BY <2>1
    <3>2. f.code \notin {"OUTBOX_DEAD_LETTER", "SKIPPED_WITH_LEDGER", "LEDGER_WITHOUT_PROJECTION"}
      BY <3>1 DEF Repairable
    <3>3. \/ f \in [code : {"JOB_STALE_LEASE"}, job : stale]
          \/ f \in [code : {"JOB_ATTEMPTS_EXCEEDED"}, job : AttemptsExceeded]
          \/ f \in [code : {"CHILD_PENDING_WITH_DEAD_PARENT"}, job : BlockedChildren]
          \/ f \in [code : {"COMPLETED_WITHOUT_PROJECTION"},
                    job : CompletedWithoutProjection(Start.outbox)]
      BY <3>1, <3>2 DEF Report
    <3>4. \A j \in StaleLeases \cup AttemptsExceeded \cup BlockedChildren
                   \cup CompletedWithoutProjection(Start.outbox) : j \in Jobs /\ Exists(j)
      BY DEF StaleLeases, Expired, AttemptsExceeded, BlockedChildren,
             CompletedWithoutProjection, Exists
    <3>5. QED
      BY <3>3, <3>4 DEF Finding, Repairable
  <2>3. /\ UNCHANGED allVars /\ UNCHANGED <<action, mark, covered, clean, mended, examined>>
        /\ dpc' = "repair" /\ scans' \in 0..MaxScans
    BY <1>0, <1>3 DEF Diagnose, Found
  <2>4. Found'
    BY <1>0, <1>1, <2>2, <2>3 DEF Found, Exists
  <2>5. QED
    BY <1>1, <1>2, <2>3, <2>4 DEF DoctorInv
<1>4. ASSUME NEW f \in actions, CheckRepair(f) PROVE DoctorInv'
  <2>1. /\ UNCHANGED allVars /\ UNCHANGED <<mark, covered, clean, mended, examined, scans>>
        /\ actions' = actions \ {f} /\ dpc = "repair"
        /\ \/ action' = f /\ dpc' = "execute"
           \/ UNCHANGED <<action, dpc>>
    BY <1>4 DEF CheckRepair
  <2>2. Found'
    BY <1>0, <1>1, <2>1 DEF Found, Exists
  <2>3. QED
    BY <1>1, <1>2, <2>1, <2>2 DEF DoctorInv
<1>5. CASE ExecuteRepair
  <2>1. /\ dpc = "execute" /\ dpc' = "repair" /\ action' = NoFinding
        /\ jobs' = [jobs EXCEPT ![action.job] = RepairedRow(action.code, jobs[action.job])]
        /\ UNCHANGED <<events, owed, ledger, copies, tombstones, writer, append>>
        /\ UNCHANGED <<workerVars, forgetVars, actions, mark, covered, clean, examined, scans>>
        /\ mended' \in {mended, mended \cup {action.job}}
    BY <1>5 DEF ExecuteRepair
  <2>2. action \in Finding /\ action.job \in Jobs /\ Exists(action.job)
    BY <1>0, <2>1 DEF Found, Finding
  <2>3. /\ jobs' \in [Jobs -> Row]
        /\ \A j \in Jobs : /\ jobs[j].status # "absent" => jobs'[j].status # "absent"
                           /\ jobs'[j].status # "absent" => jobs[j].status # "absent"
                           /\ jobs'[j].status = "completed" => jobs[j].status = "completed"
    <3>1. /\ RepairedRow(action.code, jobs[action.job]) \in Row
          /\ RepairedRow(action.code, jobs[action.job]).status \in {"pending", "dead_letter"}
      BY <1>0, <2>2, RepairedRowType
    <3>2. QED
      BY <1>0, <2>1, <2>2, <3>1 DEF Exists
  <2>4. QueueInv'
    <3>1. /\ copies \in [Jobs -> Nat] /\ tombstones \subseteq Events
          /\ \A j \in Jobs : copies[j] <= copies[j]
      BY <1>0 DEF TypeInv, TypeOK, StoreTypeOK
    <3>2. QED
      BY <1>0, <2>1, <2>3, <3>1, OthersKeepInv DEF ForgetInv
  <2>5. ForgetInv'
    BY <1>0, <2>1, <2>4
    DEF ForgetInv, Resolved, Planned, ForgetTyped, WindowInv, forgetVars, workerVars
  <2>6. Found'
    <3>1. \A j \in Jobs : Exists(j) => Exists(j)'
      BY <2>3 DEF Exists
    <3>2. \A f \in Finding : f.job \in Jobs
      BY DEF Finding
    <3>3. QED
      BY <1>0, <2>1, <2>2, <3>1, <3>2 DEF Found
  <2>7. CursorInv'
    BY <1>0, <2>1, <2>3 DEF CursorInv, Position, Exists, CoveredWasClean
  <2>8. QED
    BY <2>5, <2>6, <2>7 DEF DoctorInv
<1>6. CASE RepairReturns
  <2>1. /\ UNCHANGED allVars
        /\ UNCHANGED <<actions, action, mark, covered, clean, mended, examined, scans>>
        /\ dpc' = "idle"
    BY <1>6 DEF RepairReturns
  <2>2. Found'
    BY <1>0, <1>1, <2>1 DEF Found, Exists
  <2>3. QED
    BY <1>1, <1>2, <2>1, <2>2 DEF DoctorInv
<1>7. QED
  BY <1>3, <1>4, <1>5, <1>6

\* What a windowed scan leaves out has been looked at: if it blocks nothing, it
\* has examined everything the mark lies behind.
LEMMA WindowExamines ==
    ASSUME DoctorInv, ScanWindow, clean'
    PROVE  mark.outbox \subseteq examined'
<1> SUFFICES ASSUME NEW j \in mark.outbox, j \notin examined
             PROVE  /\ Exists(j) /\ j \in Jobs
                    /\ j \notin {f.job : f \in Blocking(Report(Start, {}))}
  BY DEF ScanWindow
<1>1. /\ j \in Jobs /\ Exists(j)
      /\ covered.outbox \subseteq examined /\ covered.ledger \subseteq covered.outbox
  BY DEF DoctorInv, CursorInv, CoveredWasClean, Position
<1>2. j \notin covered.outbox /\ j \notin covered.ledger
  BY <1>1
<1>3. Blocking(Report(covered, {})) = {}
  BY DEF ScanWindow
<1>4. ASSUME NEW f \in Blocking(Report(Start, {})), f.job = j PROVE FALSE
  <2>1. f \in Report(Start, {})
        /\ f.code \notin {"JOB_STALE_LEASE", "CHILD_PENDING_WITH_DEAD_PARENT"}
    BY <1>4 DEF Blocking
  <2>2. Start.outbox = {} /\ Start.ledger = {}
    BY DEF Start
  <2>3. f \in Report(covered, {})
    <3>1. \/ f \in [code : {"JOB_ATTEMPTS_EXCEEDED"}, job : AttemptsExceeded]
          \/ f \in [code : {"OUTBOX_DEAD_LETTER"}, job : DeadLetters]
          \/ f \in [code : {"COMPLETED_WITHOUT_PROJECTION"},
                    job : CompletedWithoutProjection(Start.outbox)]
          \/ f \in [code : {"SKIPPED_WITH_LEDGER"}, job : SkippedWithLedger(Start.outbox)]
          \/ f \in [code : {"LEDGER_WITHOUT_PROJECTION"},
                    job : LedgerWithoutProjection(Start.ledger)]
      BY <2>1 DEF Report
    <3>2. /\ j \in CompletedWithoutProjection(Start.outbox)
                => j \in CompletedWithoutProjection(covered.outbox)
          /\ j \in SkippedWithLedger(Start.outbox) => j \in SkippedWithLedger(covered.outbox)
          /\ j \in LedgerWithoutProjection(Start.ledger)
                => j \in LedgerWithoutProjection(covered.ledger)
      BY <1>2, <2>2
      DEF CompletedWithoutProjection, SkippedWithLedger, LedgerWithoutProjection
    <3>3. QED
      BY <1>4, <3>1, <3>2 DEF Report
  <2>4. QED
    BY <1>3, <2>1, <2>3 DEF Blocking
<1>5. QED
  BY <1>1, <1>4

\* An incremental scan, and the death of a doctor.
LEMMA CursorStep ==
    ASSUME DoctorInv, ReadMark \/ ScanWindow \/ SaveCursor
    PROVE  DoctorInv'
<1>0. /\ ForgetInv /\ Found /\ CursorInv /\ MaxScans \in Nat
      /\ ledger \subseteq Jobs /\ LedgerHasRows
  BY DoctorAssumption
  DEF DoctorInv, ForgetInv, QueueInv, DebtInv, TypeInv, TypeOK, StoreTypeOK
<1>1. UNCHANGED allVars /\ UNCHANGED <<actions, action, mended>>
  BY DEF ReadMark, ScanWindow, SaveCursor
<1>2. ForgetInv' /\ UNCHANGED <<jobs, ledger>>
  BY <1>0, <1>1, ForgetStep DEF allVars, vars, storeVars
<1>3. ASSUME dpc' \in {"idle", "window", "save"}, scans' \in 0..MaxScans PROVE Found'
  BY <1>0, <1>1, <1>2, <1>3 DEF Found, Exists
<1>4. CASE ReadMark
  <2>1. /\ mark' = HighWater /\ dpc' = "window"
        /\ UNCHANGED <<covered, clean, examined>> /\ scans' \in 0..MaxScans
    BY <1>0, <1>4 DEF ReadMark, Found
  <2>2. /\ HighWater \in Position
        /\ \A j \in HighWater.outbox : Exists(j)
        /\ HighWater.ledger \subseteq HighWater.outbox
    BY <1>0 DEF HighWater, Position, LedgerHasRows, Exists
  <2>3. CursorInv'
    BY <1>0, <1>2, <2>1, <2>2 DEF CursorInv, CoveredWasClean, Exists
  <2>4. QED
    BY <1>2, <1>3, <2>1, <2>3 DEF DoctorInv
<1>5. CASE ScanWindow
  <2>1. /\ UNCHANGED <<mark, covered, scans>> /\ dpc' = "save" /\ clean' \in BOOLEAN
        /\ examined \subseteq examined' /\ examined' \subseteq Jobs
    BY <1>0, <1>5 DEF ScanWindow, CursorInv
  <2>2. clean' => mark'.outbox \subseteq examined'
    BY <1>5, <2>1, WindowExamines
  <2>3. CursorInv'
    BY <1>0, <1>2, <2>1, <2>2 DEF CursorInv, CoveredWasClean, Exists
  <2>4. Found'
    BY <1>0, <1>3, <2>1 DEF Found
  <2>5. QED
    BY <1>2, <2>3, <2>4 DEF DoctorInv
<1>6. CASE SaveCursor
  <2>1. /\ UNCHANGED <<mark, examined, scans>> /\ dpc = "save" /\ dpc' = "idle"
        /\ clean' = FALSE /\ covered' = IF clean THEN mark ELSE covered
    BY <1>6 DEF SaveCursor
  <2>2. CursorInv'
    BY <1>0, <1>2, <2>1 DEF CursorInv, CoveredWasClean, Exists
  <2>3. Found'
    BY <1>0, <1>3, <2>1 DEF Found
  <2>4. QED
    BY <1>2, <2>2, <2>3 DEF DoctorInv
<1>7. QED
  BY <1>4, <1>5, <1>6

LEMMA DoctorDeath ==
    ASSUME DoctorInv, DoctorDies
    PROVE  DoctorInv'
<1>0. /\ ForgetInv /\ Found /\ CursorInv /\ MaxDeaths \in Nat /\ ForgetTyped
  BY ForgettingAssumption DEF DoctorInv, ForgetInv
<1>1. /\ UNCHANGED vars
      /\ UNCHANGED <<fpc, targets, doomed, plan, rpc, lifted, late, reach, forgets, replays>>
      /\ UNCHANGED <<mark, covered, mended, examined, scans>>
      /\ dpc' = "idle" /\ actions' = {} /\ action' = NoFinding /\ clean' = FALSE
      /\ deaths' \in 0..MaxDeaths
  BY <1>0 DEF DoctorDies, ForgetTyped
<1>2. UNCHANGED <<jobs, tombstones>>
  BY <1>1 DEF vars, storeVars
<1>3. ForgetTyped'
  BY <1>0, <1>1, <1>2 DEF ForgetTyped
<1>4. ForgetInv'
  BY <1>0, <1>1, <1>3, QueueRests DEF ForgetInv
<1>5. Found'
  BY <1>0, <1>1 DEF Found
<1>6. CursorInv'
  BY <1>0, <1>1, <1>2 DEF CursorInv, CoveredWasClean, Exists
<1>7. QED
  BY <1>4, <1>5, <1>6 DEF DoctorInv

LEMMA DoctorStep == DoctorInv /\ [DoctorNext]_doctorAllVars => DoctorInv'
<1> SUFFICES ASSUME DoctorInv, [DoctorNext]_doctorAllVars PROVE DoctorInv'
  OBVIOUS
<1>1. ASSUME [ForgetNext]_allVars,
             UNCHANGED <<dpc, actions, action, mark, covered, clean, examined, scans>>,
             mended' \subseteq mended
      PROVE  DoctorInv'
  <2>1. ForgetInv'
    BY <1>1, ForgetStep DEF DoctorInv
  <2>2. \A j \in Jobs : Exists(j) => Exists(j)'
    BY <1>1, RowsStayThere DEF DoctorInv
  <2>3. QED
    BY <1>1, <2>1, <2>2, DoctorRests
<1>2. CASE Meanwhile
  BY <1>1, <1>2 DEF Meanwhile
<1>3. CASE UNCHANGED doctorAllVars
  BY <1>1, <1>3 DEF doctorAllVars, doctorVars
<1>4. QED
  BY <1>2, <1>3, RepairStep, CursorStep, DoctorDeath DEF DoctorNext

LEMMA DoctorInvariant == DoctorSpec => []DoctorInv
BY InitDoctor, DoctorStep, PTL DEF DoctorSpec

\* Repairs are written by job id whatever has happened to the job since the
\* check; the queue, the deletion and the doctor keep their types all the same.
THEOREM DoctorTypeCorrect == DoctorSpec => []DoctorTypeOK
<1>1. ForgetInv => ForgetTypeOK
  BY DEF ForgetInv, QueueInv, DebtInv, TypeInv, Resolved, Planned, ForgetTyped, ForgetTypeOK
<1>2. DoctorInv => DoctorTypeOK
  BY <1>1 DEF DoctorInv, Found, CursorInv, DoctorTypeOK
<1>3. QED
  BY <1>2, DoctorInvariant, PTL

\* No repair completes a job or takes a row from the ledger: what is completed
\* is vouched for while the doctor repairs under the workers.
THEOREM RepairsKeepTheLedger == DoctorSpec => []LedgerBacked
<1>1. DoctorInv => LedgerBacked
  BY DEF DoctorInv, ForgetInv, QueueInv
<1>2. QED
  BY <1>1, DoctorInvariant, PTL

\* The doctor's cursor covers only rows that some scan has looked at and found
\* nothing blocking in, whatever is appended, repaired and deleted meanwhile.
THEOREM CursorCoversTheExamined == DoctorSpec => []CoveredWasClean
<1>1. DoctorInv => CoveredWasClean
  BY DEF DoctorInv, CursorInv
<1>2. QED
  BY <1>1, DoctorInvariant, PTL

\* The rest of what the workers and their clients may rely on, repairs and all:
\* what is owed is queued, and what is stored is recorded.
THEOREM RepairsKeepTheRecord == DoctorSpec => [](DebtRecorded /\ ProjectionRecorded)
<1>1. DoctorInv => DebtRecorded /\ ProjectionRecorded
  BY DEF DoctorInv, ForgetInv, QueueInv, DebtInv
<1>2. QED
  BY <1>1, DoctorInvariant, PTL

\* A step with the doctor there is a step of what was there before, or a write
\* of the doctor's that touches nothing but a job.
LEMMA DoctorWrites ==
    ASSUME [DoctorNext]_doctorAllVars
    PROVE  \/ [ForgetNext]_allVars
           \/ UNCHANGED <<ledger, copies, tombstones, workerVars>>
BY DEF DoctorNext, Meanwhile, Diagnose, CheckRepair, ExecuteRepair, RepairReturns, ReadMark,
       ScanWindow, SaveCursor, DoctorDies, doctorAllVars, allVars, vars, storeVars

\* A repair sends a buried memory back to the queue, and there it meets the
\* tombstone: the window of OneWindow stays the only one.
THEOREM OneWindowBesideRepairs == DoctorSpec => OnlyLateWrites
<1>1. DoctorInv /\ [DoctorNext]_doctorAllVars => LateWrites
  <2> SUFFICES ASSUME DoctorInv, [DoctorNext]_doctorAllVars PROVE LateWrites
    OBVIOUS
  <2>1. CASE [ForgetNext]_allVars
    BY <2>1, WindowStep DEF DoctorInv
  <2>2. CASE UNCHANGED copies
    <3>1. \A j \in Jobs : copies[j] \in Nat
      BY DEF DoctorInv, ForgetInv, QueueInv, DebtInv, TypeInv, TypeOK, StoreTypeOK
    <3>2. QED
      BY <2>2, <3>1 DEF LateWrites
  <2>3. QED
    BY <2>1, <2>2, DoctorWrites
<1>2. DoctorSpec => [][LateWrites]_allVars
  BY <1>1, DoctorInvariant, PTL DEF DoctorSpec
<1>3. QED
  BY <1>2 DEF OnlyLateWrites, LateWrites

\* Repairs that take back no job a worker has in hand leave no memory stored
\* twice either, whatever is deleted and replayed beside them.
THEOREM RepairsStoreOnce ==
    ASSUME LeaseOutlastsBatch
    PROVE  DoctorSpec /\ [][HandsSpared]_vars => []AtMostOnce
<1>1. DoctorInit => LeaseInv
  BY InitLease DEF DoctorInit, ForgetInit
<1>2. DoctorInv /\ LeaseInv /\ [DoctorNext]_doctorAllVars /\ [HandsSpared]_vars => LeaseInv'
  <2> SUFFICES ASSUME DoctorInv, LeaseInv, [DoctorNext]_doctorAllVars, [HandsSpared]_vars
               PROVE  LeaseInv'
    OBVIOUS
  <2>1. ForgetInv /\ RowsInv
    BY DEF DoctorInv, ForgetInv, QueueInv, DebtInv, RowsInv
  <2>2. CASE [ForgetNext]_allVars
    BY <2>1, <2>2, ForgetLease
  <2>3. CASE UNCHANGED vars
    BY <2>1, <2>3, LeaseStep
  <2>4. CASE HandsSpared /\ UNCHANGED <<ledger, copies, workerVars>>
    <3>1. \A j \in Jobs : copies'[j] \in Nat /\ copies'[j] <= copies[j]
      BY <2>1, <2>4 DEF RowsInv, TypeInv, TypeOK, StoreTypeOK
    <3>2. QED
      BY <2>1, <2>4, <3>1, OthersLease
  <2>5. QED
    BY <2>2, <2>3, <2>4, DoctorWrites
<1>3. LeaseInv => AtMostOnce
  BY DEF LeaseInv
<1>4. QED
  BY <1>1, <1>2, <1>3, DoctorInvariant, PTL DEF DoctorSpec
=============================================================================
