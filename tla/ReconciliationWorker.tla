------------------------ MODULE ReconciliationWorker ------------------------
(***************************************************************************)
(* The workers that drain the outbox (cognitive/reconciliation_worker.py), *)
(* composed with the client that appends events and with the passage of    *)
(* time.  process() is one step per statement another process can          *)
(* interleave with: what is read in one step is acted on in a later one.   *)
(* A worker may crash, or stop between two jobs, at any point.             *)
(***************************************************************************)
EXTENDS ProjectionStore, FiniteSets

CONSTANTS
    BatchSize,           \* run_once(batch_size)
    MaxCrashes,          \* bound: crashes and stops of workers
    MaxClientCrashes,    \* bound: crashes of an append
    LeaseOutlastsBatch,  \* no lease expires while its holder is still running
    Poison,              \* events whose build kills the worker process
    NoJob                \* no job in hand

ASSUME WorkerAssumption ==
    /\ BatchSize \in Nat \ {0}
    /\ MaxCrashes \in Nat
    /\ MaxClientCrashes \in Nat
    /\ LeaseOutlastsBatch \in BOOLEAN
    /\ Poison \subseteq Events
    /\ NoJob \notin Jobs

VARIABLES
    pc,        \* where each worker is in process()
    claimed,   \* jobs of the batch not yet taken up
    retries,   \* jobs of the batch claimed with attempts > 1
    cur,       \* the job in hand
    migrated,  \* types whose schema script this worker's builder has run
    crashes,   \* worker crashes and stops so far
    faults     \* append crashes so far

workerVars == <<pc, claimed, retries, cur, migrated, crashes, faults>>
vars == <<storeVars, workerVars>>

PC == {"idle", "next", "buried", "dependency", "build", "write", "late_write",
       "commit", "ack", "skip", "fail", "hold", "dead", "retry"}

TypeOK ==
    /\ StoreTypeOK
    /\ pc \in [Workers -> PC]
    /\ claimed \in [Workers -> SUBSET Jobs]
    /\ retries \in [Workers -> SUBSET Jobs]
    /\ cur \in [Workers -> Jobs \cup {NoJob}]
    /\ migrated \in [Workers -> SUBSET Migrating]
    /\ crashes \in 0..MaxCrashes
    /\ faults \in 0..MaxClientCrashes

Init ==
    /\ StoreInit
    /\ pc = [w \in Workers |-> "idle"]
    /\ claimed = [w \in Workers |-> {}]
    /\ retries = [w \in Workers |-> {}]
    /\ cur = [w \in Workers |-> NoJob]
    /\ migrated = [w \in Workers |-> {}]
    /\ crashes = 0
    /\ faults = 0

Goto(w, label) == pc' = [pc EXCEPT ![w] = label]

\* process() returns: the next job of the batch, or the end of run_once.
Finished(w) ==
    /\ Goto(w, IF claimed[w] = {} THEN "idle" ELSE "next")
    /\ cur' = [cur EXCEPT ![w] = NoJob]

\* What the worker keeps in memory between two statements.
memoryVars == <<claimed, retries, migrated, crashes, faults>>

\* An outbox write that leaves row r for the job in hand and ends process().
Settle(w, r) ==
    /\ writer = Nobody
    /\ jobs' = [jobs EXCEPT ![cur[w]] = r]
    /\ Finished(w)
    /\ UNCHANGED <<events, owed, ledger, copies, tombstones, writer, append>>
    /\ UNCHANGED memoryVars

\* A step that reads the store and only moves the worker on.
ReadOnly(w, label) ==
    /\ Goto(w, label)
    /\ UNCHANGED storeVars
    /\ UNCHANGED <<cur, memoryVars>>

-----------------------------------------------------------------------------
(* outbox.claim as run_once calls it. *)

Expired(j) == jobs[j].status = "in_progress" /\ jobs[j].due

\* Mutant: expired leases never give way.
NobodyYields == {}

\* Expired leases give way when, and only when, somebody is waiting.
Yielding ==
    IF \E j \in Jobs : jobs[j].status = "pending" /\ jobs[j].due
    THEN {j \in Jobs : Expired(j)}
    ELSE {}

Claim(w) ==
    LET eligible == {j \in Jobs : Claimable(j)} \ Yielding
    IN  /\ pc[w] = "idle"
        /\ writer = Nobody
        /\ eligible # {}
        /\ \E batch \in SUBSET eligible :
              /\ batch # {}
              /\ \/ Cardinality(batch) = BatchSize
                 \/ Cardinality(batch) < BatchSize /\ batch = eligible
              /\ jobs' = [j \in Jobs |->
                             CASE j \in batch    -> ClaimedRow(jobs[j])
                               [] j \in Yielding -> YieldedRow(jobs[j])
                               [] OTHER          -> jobs[j]]
              /\ claimed' = [claimed EXCEPT ![w] = batch]
              /\ retries' = [retries EXCEPT ![w] =
                                {j \in batch : jobs[j].attempts > 0}]
        /\ Goto(w, "next")
        /\ UNCHANGED <<events, owed, ledger, copies, tombstones, writer, append>>
        /\ UNCHANGED <<cur, migrated, crashes, faults>>

-----------------------------------------------------------------------------
(* process(job): the reads. *)

\* Mutant: no look at the ledger before building.
TakeJobUnchecked(w) ==
    /\ pc[w] = "next"
    /\ \E j \in claimed[w] :
          /\ cur' = [cur EXCEPT ![w] = j]
          /\ claimed' = [claimed EXCEPT ![w] = @ \ {j}]
          /\ Goto(w, "buried")
    /\ UNCHANGED storeVars
    /\ UNCHANGED <<retries, migrated, crashes, faults>>

\* Already built?  A ledger row sends the job straight to completion.
TakeJob(w) ==
    /\ pc[w] = "next"
    /\ \E j \in claimed[w] :
          /\ cur' = [cur EXCEPT ![w] = j]
          /\ claimed' = [claimed EXCEPT ![w] = @ \ {j}]
          /\ Goto(w, IF j \in ledger THEN "ack" ELSE "buried")
    /\ UNCHANGED storeVars
    /\ UNCHANGED <<retries, migrated, crashes, faults>>

\* Mutant: the tombstone is left to the enqueue to check.
CheckTombstoneSkipped(w) ==
    /\ pc[w] = "buried"
    /\ ReadOnly(w, "dependency")

CheckTombstone(w) ==
    /\ pc[w] = "buried"
    /\ ReadOnly(w, IF cur[w][1] \in tombstones THEN "skip" ELSE "dependency")

\* Dependencies, replayability, the event and the builder, in that order.
CheckDependencies(w) ==
    /\ pc[w] = "dependency"
    /\ ReadOnly(w,
          CASE Blocked(cur[w])                            -> "dead"
            [] ~Blocked(cur[w]) /\ ~Ready(cur[w])         -> "hold"
            [] /\ Ready(cur[w])
               /\ \/ cur[w][2] \notin Replayable /\ cur[w] \in retries[w]
                  \/ cur[w][1] \notin events
                  \/ cur[w][2] \notin Buildable           -> "dead"
            [] OTHER                                      -> "build")

-----------------------------------------------------------------------------
(* process(job): the transaction on the projection connection. *)

\* Mutant: the ledger row commits before the projection is built.
InsertLedgerCommits(w) ==
    /\ pc[w] = "build"
    /\ cur[w][1] \notin Poison
    /\ writer = Nobody
    /\ ledger' = ledger \cup {cur[w]}
    /\ Goto(w, "write")
    /\ UNCHANGED <<events, owed, jobs, copies, tombstones, writer, append>>
    /\ UNCHANGED <<cur, memoryVars>>

\* INSERT OR IGNORE of the ledger row, uncommitted: the transaction opens.
InsertLedger(w) ==
    /\ pc[w] = "build"
    /\ cur[w][1] \notin Poison
    /\ writer = Nobody
    /\ writer' = w
    /\ Goto(w, "write")
    /\ UNCHANGED <<events, owed, jobs, ledger, copies, tombstones, append>>
    /\ UNCHANGED <<cur, memoryVars>>

\* The builder declines an event without content; the transaction is undone.
BuilderDeclines(w) ==
    /\ pc[w] = "write"
    /\ cur[w][1] \in Blank
    /\ writer' = Nobody
    /\ Goto(w, "skip")
    /\ UNCHANGED <<events, owed, jobs, ledger, copies, tombstones, append>>
    /\ UNCHANGED <<cur, memoryVars>>

\* executescript() commits what is pending: the first label a worker builds
\* makes the ledger row durable before the label row is written.
BuilderMigrates(w) ==
    /\ pc[w] = "write"
    /\ cur[w][1] \notin Blank
    /\ cur[w][2] \in Migrating \ migrated[w]
    /\ ledger' = ledger \cup {cur[w]}
    /\ migrated' = [migrated EXCEPT ![w] = @ \cup {cur[w][2]}]
    /\ writer' = Nobody
    /\ Goto(w, "late_write")
    /\ UNCHANGED <<events, owed, jobs, copies, tombstones, append>>
    /\ UNCHANGED <<claimed, retries, cur, crashes, faults>>

\* Mutant: the builder commits what it wrote, on a connection of its own.
BuilderCommits(w) ==
    /\ \/ /\ pc[w] = "write"
          /\ cur[w][2] \notin Migrating \ migrated[w]
       \/ pc[w] = "late_write" /\ writer = Nobody
    /\ cur[w][1] \notin Blank
    /\ writer' = w
    /\ copies' = [copies EXCEPT ![cur[w]] = @ + 1]
    /\ Goto(w, "commit")
    /\ UNCHANGED <<events, owed, jobs, ledger, tombstones, append>>
    /\ UNCHANGED <<cur, memoryVars>>

\* builder.build(): the projection joins the open transaction.
BuilderWrites(w) ==
    /\ \/ /\ pc[w] = "write"
          /\ cur[w][2] \notin Migrating \ migrated[w]
       \/ pc[w] = "late_write" /\ writer = Nobody
    /\ cur[w][1] \notin Blank
    /\ writer' = w
    /\ Goto(w, "commit")
    /\ UNCHANGED <<events, owed, jobs, ledger, copies, tombstones, append>>
    /\ UNCHANGED <<cur, memoryVars>>

\* Mutant: the exception is swallowed and the job acknowledged.
BuildRaisesSilently(w) ==
    /\ pc[w] \in {"build", "write", "late_write"}
    /\ cur[w][1] \notin Poison
    /\ writer' = IF writer = w THEN Nobody ELSE writer
    /\ Goto(w, "ack")
    /\ UNCHANGED <<events, owed, jobs, ledger, copies, tombstones, append>>
    /\ UNCHANGED <<cur, memoryVars>>

\* Any exception of the build: rollback, then fail(max_attempts).
BuildRaises(w) ==
    /\ pc[w] \in {"build", "write", "late_write"}
    /\ cur[w][1] \notin Poison
    /\ writer' = IF writer = w THEN Nobody ELSE writer
    /\ Goto(w, "fail")
    /\ UNCHANGED <<events, owed, jobs, ledger, copies, tombstones, append>>
    /\ UNCHANGED <<cur, memoryVars>>

\* Rows of the target store after one more build of job j.
Written(j) ==
    IF j[2] \in Upserts THEN [copies EXCEPT ![j] = 1]
                        ELSE [copies EXCEPT ![j] = @ + 1]

\* The one commit: ledger row and projection together.
CommitBuild(w) ==
    /\ pc[w] = "commit"
    /\ ledger' = ledger \cup {cur[w]}
    /\ copies' = Written(cur[w])
    /\ writer' = Nobody
    /\ Goto(w, "ack")
    /\ UNCHANGED <<events, owed, jobs, tombstones, append>>
    /\ UNCHANGED <<cur, memoryVars>>

-----------------------------------------------------------------------------
(* process(job): the outbox write that ends it. *)

\* Verified against the ledger, then completed by job id alone.
CompleteJob(w) ==
    /\ pc[w] = "ack"
    /\ Settle(w, CompletedRow(jobs[cur[w]]))

SkipJob(w) ==
    /\ pc[w] = "skip"
    /\ Settle(w, SkippedRow(jobs[cur[w]]))

\* fail() reads the attempts in one statement and writes in the next.
DecideFailure(w) ==
    /\ pc[w] \in {"fail", "hold"}
    /\ LET limit == IF pc[w] = "fail" THEN MaxAttempts ELSE HoldLimit
       IN  ReadOnly(w, IF jobs[cur[w]].attempts >= limit THEN "dead"
                                                         ELSE "retry")

FailJob(w) ==
    \/ pc[w] = "dead" /\ Settle(w, DeadRow(jobs[cur[w]]))
    \/ pc[w] = "retry" /\ Settle(w, RetryRow(jobs[cur[w]]))

-----------------------------------------------------------------------------
(* The environment. *)

\* The process is gone, and a new one polls in its place.
Restarts(w) ==
    /\ Goto(w, "idle")
    /\ claimed' = [claimed EXCEPT ![w] = {}]
    /\ retries' = [retries EXCEPT ![w] = {}]
    /\ cur' = [cur EXCEPT ![w] = NoJob]
    /\ migrated' = [migrated EXCEPT ![w] = {}]

\* The build of a poisonous event takes the process with it, before fail().
PoisonKills(w) ==
    /\ pc[w] = "build"
    /\ cur[w][1] \in Poison
    /\ Restarts(w)
    /\ UNCHANGED storeVars
    /\ UNCHANGED <<crashes, faults>>

Halted(w) ==
    /\ crashes < MaxCrashes
    /\ crashes' = crashes + 1
    /\ Restarts(w)

\* The process dies; its open transaction is rolled back.
CrashWorker(w) ==
    /\ pc[w] # "idle"
    /\ Halted(w)
    /\ writer' = IF writer = w THEN Nobody ELSE writer
    /\ UNCHANGED <<events, owed, jobs, ledger, copies, tombstones, append>>
    /\ UNCHANGED faults

\* request_stop() between two jobs: the rest of the batch keeps its lease.
StopWorker(w) ==
    /\ pc[w] = "next"
    /\ Halted(w)
    /\ UNCHANGED storeVars
    /\ UNCHANGED faults

InHand(j) == \E w \in Workers : j = cur[w] \/ j \in claimed[w]

\* A backoff elapses, or a lease expires.
TimePasses(j) ==
    /\ Unsettled(j)
    /\ ~jobs[j].due
    /\ LeaseOutlastsBatch /\ jobs[j].status = "in_progress" => ~InHand(j)
    /\ jobs' = [jobs EXCEPT ![j].due = TRUE]
    /\ UNCHANGED <<events, owed, ledger, copies, tombstones, writer, append>>
    /\ UNCHANGED workerVars

Appending ==
    /\ \/ \E e \in Events, T \in Debts : BeginAppend(e, T)
       \/ \E t \in Types : EnqueueDebt(t)
       \/ CommitAppend
    /\ UNCHANGED workerVars

AppendDies ==
    /\ faults < MaxClientCrashes
    /\ faults' = faults + 1
    /\ CrashAppend
    /\ UNCHANGED <<pc, claimed, retries, cur, migrated, crashes>>

-----------------------------------------------------------------------------
WorkerStep(w) ==
    \/ Claim(w)
    \/ TakeJob(w)
    \/ CheckTombstone(w)
    \/ CheckDependencies(w)
    \/ InsertLedger(w)
    \/ BuilderDeclines(w)
    \/ BuilderMigrates(w)
    \/ BuilderWrites(w)
    \/ BuildRaises(w)
    \/ PoisonKills(w)
    \/ CommitBuild(w)
    \/ CompleteJob(w)
    \/ SkipJob(w)
    \/ DecideFailure(w)
    \/ FailJob(w)

Next ==
    \/ \E w \in Workers : WorkerStep(w) \/ CrashWorker(w) \/ StopWorker(w)
    \/ \E j \in Jobs : TimePasses(j)
    \/ Appending
    \/ AppendDies

Spec == Init /\ [][Next]_vars

\* run_forever polls until told to stop and a supervisor restarts it; time
\* passes; an append that has begun reaches its commit or dies.
Fairness ==
    /\ \A w \in Workers : WF_vars(WorkerStep(w))
    /\ \A j \in Jobs : WF_vars(TimePasses(j))
    /\ WF_vars(append.event # NoEvent /\ Appending)

FairSpec == Spec /\ Fairness

-----------------------------------------------------------------------------
(* Properties. *)

\* A job is completed only if the ledger vouches for its projection, whoever
\* completed it: the worker that built it, one that found it built after a
\* crash, or one that lost its lease and finished late.
LedgerBacked ==
    \A j \in Jobs : jobs[j].status = "completed" => j \in ledger

\* Ledger row and projection are durable together (module docstring of the
\* worker): no projection without its row, and no row without a projection.
LedgerPairsProjection ==
    \A j \in Jobs : j \in ledger <=> copies[j] > 0

\* The first half alone, which holds of every builder.
ProjectionRecorded ==
    \A j \in Jobs : copies[j] > 0 => j \in ledger

\* Exactly-once effect: retries, crashes between any two statements and
\* reclaimed leases never leave two projections of one key.
AtMostOnce ==
    \A j \in Jobs : copies[j] <= 1

\* Event and debt commit together: a committed event owes what it was
\* appended with, and no outbox row names an event that is not there.
DebtRecorded ==
    /\ \A e \in events : \A t \in owed[e] : jobs[<<e, t>>].status # "absent"
    /\ \A j \in Jobs : jobs[j].status # "absent" => j[1] \in events

\* A projection is never built before the ones it depends on, unless the
\* parent was declined for good.
ParentsFirst ==
    \A j \in Jobs : j \in ledger =>
        \A p \in Parents[j[2]] : <<j[1], p>> \in ledger \/ j[1] \in Blank

\* A dead letter is work that was not done: nothing was projected for it.
DeadLetterUnbuilt ==
    \A j \in Jobs : jobs[j].status = "dead_letter" => j \notin ledger

\* Healthy work settles, whatever else is in the queue: leases that expire
\* under running workers, crashes, and an event that kills every worker that
\* builds it (the first clause of the queue's fairness contract).
HealthySettles ==
    \A j \in (Events \ Poison) \X Types : Unsettled(j) ~> ~Unsettled(j)

-----------------------------------------------------------------------------
(* The abstract promise, read off the queue and the target stores. *)

DebtOf(s) ==
    CASE s = "absent"                     -> "none"
      [] s \in {"pending", "in_progress"} -> "owed"
      [] s = "completed"                  -> "done"
      [] s = "skipped"                    -> "declined"
      [] s = "dead_letter"                -> "parked"

Promise == INSTANCE OwedProjections WITH
              debt <- [j \in Jobs |-> DebtOf(jobs[j].status)],
              rows <- copies

\* Queue, workers and ledger do together what OwedProjections promises: a
\* debt is projected once, declined or parked, for good, and is settled in
\* the end.
ImplementsPromise == Promise!Spec

-----------------------------------------------------------------------------
(* The same queue as the outbox implements it statement by statement. *)

HandOf(w) == claimed[w] \cup ({cur[w]} \ {NoJob})

LeaseRuns(j) == jobs[j].status = "in_progress" /\ ~jobs[j].due

Leases == INSTANCE LeasedQueue WITH
             status <- [j \in Jobs |-> jobs[j].status],
             hands  <- [w \in Workers |-> HandOf(w)],
             leased <- {j \in Jobs : LeaseRuns(j)}

\* While leases outlast batches, workers with one bit of time ask of the queue
\* what LeasedQueue promises, and no more.
ImplementsLeases == Leases!Spec
=============================================================================
