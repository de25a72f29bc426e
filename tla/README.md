# Verification of the projection pipeline of Bio Memory AI

The program under study is the memory system in `src/bio_agent_os/`.  Its core
is event-sourced: what an agent observes is appended to a log that never
changes, and everything that is read back (memories, context blocks, labels) is
a *projection* some worker derives from the log later.  Between the two stands
a durable queue.  Around them run the services that keep the store usable
(repair, drain, checkpoints, the canary, sleep, label upgrades) and the records
that must not be wrong (claims, generations of the store, deletions, the cache
of compiled contexts).  This directory models these in TLA+, checks them with
TLC, and proves most of the safety properties, of the pipeline and of what runs
around it, with TLAPS.

Contents: [inventory](#inventory), [modules](#modules),
[runs](#runs), [proofs](#proofs), [disagreements](#disagreements),
[limits](#limits), [plan](#plan).


## Inventory

### The pipeline

| part | source (`cognitive/`) | state | operations |
|---|---|---|---|
| event log | `event_store.py` | `cognitive_events`, append-only by trigger | `append` (the event and one outbox row per owed type, one commit), `append_many` |
| outbox | `outbox.py` | `projection_outbox`: status, attempts, available_at, locked_by, locked_at; one row per (event, type, version) | `enqueue`, `claim` (which first lets expired leases yield), `complete`, `fail`, `skip` |
| registry | `projection_registry.py` | constant: types, versions, `depends_on`, `replayable` | topological order, cycle detection |
| worker | `reconciliation_worker.py` | `projection_ledger`: one row per projection key | `process`, `run_once`, `run_forever`, `request_stop` |
| builders | `reconciliation_worker.py`, `hippocampus_label.py` | the target stores | `build` into the worker's open transaction |
| tombstones | `tombstones.py` | `memory_tombstones`, lifted or not | `place`, `buried`, `buried_among`, `lift` |
| forgetting | `forgetting.py` | none of its own | `forget_projection`, `forget_derived`, `erase_history` |
| replay engine | `projection_engine.py` | none of its own | `scan`, `replay`, `rebuild_version` |
| doctor, repair | `diagnostics.py`, `reconciliation.py`, `doctor_*.py` | `doctor_cursor` | scan, plan, repair what still applies |
| control | `projection_control.py` | `projection_control`: paused per scope | `pause`, `resume`, `drain` |

They meet in one SQLite file and nowhere else: there are no messages and no
callbacks, only processes that read and write the same tables.  SQLite
serialises writers; a process holds the write lock from its first write to its
commit.  What it read before that may be stale by the time it writes, and most
of what is hard here comes from that:

- `claim` is five statements (read the expired leases, count who waits, yield,
  select, update), of which the yield and the update write, so two claims
  interleave.
- `process` reads the ledger, the tombstones, the dependencies and the event
  before its write transaction opens, and the queue is written after it has
  committed, on a connection of its own.
- a lease is a timestamp.  A worker that outruns it is not told, and
  `complete` and `fail` name the job, not the lease.
- a worker may be killed between any two statements, or stop between two jobs
  of a batch and leave the rest leased.
- a deletion runs against all this.  `forget_derived` reads the serving layer
  and the queue at different moments, and the script with which `place` creates
  its table commits the deletion before the tombstones are written.
- a replay acts on a scan that is old by the time it acts.

What makes each part correct:

- *event log and outbox*: event and debt are durable together or not at all.
- *outbox*: a lease has one holder; a claim never ends a live lease; a tenant's
  jobs are touched only by its workers; nobody is starved.
- *worker*: completion means the ledger vouches for the projection; ledger row
  and projection are paired; a key is projected at most once; parents first;
  what is parked was not built; every debt settles.
- *forgetting*: what is buried is not written again, a forget reaches what was
  stored or queued, buried jobs leave the queue, a lifted memory can be had
  again.
- *doctor*: what it repairs settles and stays recorded; its cursor hides nothing
  that was never found clean.
- *control*: a drain that reports zero left nothing behind; a pause brings the
  queue to rest.

### Around the pipeline

| part | source | state | operations | what is hard | correct when |
|---|---|---|---|---|---|
| doctor, repair | `diagnostics.py`, `reconciliation.py`, `doctor_*.py` | `doctor_cursor` | deep and incremental scan, plan, check again, execute | a repair acts by job id on a finding that is old | every repaired job settles; completed stays recorded |
| control | `projection_control.py` | the pause flag per scope | `pause`, `resume`, `drain` | the flag is read before the claim | the queue comes to rest; the outcome is true |
| WAL manager | `wal.py` | sizes, level, readers, cooldown | `note_reader`, `maybe_checkpoint`, `reading` | readers defer TRUNCATE, restarts in a campaign | the log comes back, and the throttle with it |
| canary | `scripts/canary_supervisor.py`, `staging_canary.py` | children, schedule, pause | sample, replace, recover, drain, report, roll back | children die and are replaced by four paths; a producer may outlive its join | one WAL manager; a reported drain was one, and stays one but for such producers |
| working memory and sleep | `l1_working.py`, `garbage_collector.py`, `hippocampus.py` | entries, nights, labels, marks | observe, prune, relabel, consolidate, dream | the model fails; pruning precedes labelling; request, mark and store are commits of their own, and a save is two | what is worth keeping is kept; once an entry is marked no night asks a human about it again |
| label upgrader | `label_upgrader.py` | `label_pending` | `upgrade_batch`, `drain` | the row changes while the model is asked | no good label is replaced; the backlog drains |
| claim lifecycle | `claim_lifecycle.py`, `lifecycle_runtime.py`, `relations.py` | windows, transition log, held view | observe, supersede, correct, reconfirm | three commits per transition, any order of arrival | windows say what the log says; nothing is forced |
| store generations | `store_generation.py` | files and their bundle | certify, install | file by file, beside open handles | no -wal beside another's file; no file lost |
| erasure | `forgetting.py` | trigger, payloads, `event_erasures` | `erase_history` | five commits, the log writable between two of them | the log is sealed again; what is reported clean stays gone |
| context cache | `context_fabric/` | packets by workspace | `compile_context`, `invalidate_scope` | a write and its invalidation are two commits, and a compile takes four | a packet is current in what its workspace sees |

Components without a protocol of their own (retrieval and ranking, the temporal
and epistemic operators, classification by patterns, the legacy runtime around
language-model calls, the interfaces in front of the facade) are listed in
`PROJECT.json` with the reason they are left out.


## Modules

```
ProjectionStore            tables, append transaction, rows each statement leaves
  ReconciliationWorker     process() statement by statement, time, crashes
    ReconciliationWorkerProofs
      ExactlyOnceProofs
    ProjectionControl      pause, resume, drain
      ControlProofs
    Forgetting             forget_derived, tombstones, replay engine
      Doctor               scans, repairs, the cursor
        DoctorProofs       of Forgetting too
ProjectionOutbox           claim() statement by statement on a clock
  ProjectionOutboxProofs
OwedProjections            what outbox, worker and ledger promise together
LeasedQueue                what the outbox promises the worker
WalManager  CanarySupervisor  SleepCycle  LabelUpgrade
  ServicesProofs           beside ProjectionControl (MCServices)
ClaimTimeline  StoreGeneration  ContextCache  Erasure
  ErasureProofs
  RecordsProofs            beside ReconciliationWorker (MCRecords)
MC...                      instances for TLC
```

ProjectionControl, Forgetting and Doctor run beside the workers of
ReconciliationWorker, on the same tables.  The modules after OwedProjections
share no state with the pipeline, or only what they say of it themselves
(Erasure has the queue and the tombstones as sets, the canary the queue as a
number).

`MCServices` and `MCRecords` put several such modules into one run.  A
variable `part`, chosen at the start, says whose behaviour it is; the other
parts rest.  The state space is the sum of the parts', an invariant or a
temporal formula of one part is checked in its behaviours and holds trivially in
the others, and fairness is stated per part (guarded by `part`).  Nothing is
composed that way, and nothing claims to be; `ServicesRunAsSpecified` and
`RecordsRunAsSpecified` prove that a behaviour of the run is one of each part's own
specification, so that what is proved of a part alone is also true there.

### ProjectionStore

The shared tables as variables: `events`, `jobs` (the outbox), `ledger`,
`copies` (how many rows the projection of a key has in its target store),
`tombstones`.  `writer` is the holder of the write lock across statements, so a
transaction that spans several statements is several steps, none of which
anyone else sees, and a crash discards them.  `owed` is a history variable.

Two abstractions: the version is fixed, so a key is an (event, type) pair; and
time is one bit per row, `due`: available_at has come, or the lease has expired.
`attempts` saturates above the largest number it is compared with.  `HoldFactor`
stands for the 100 of `max_attempts * 100`.

### ReconciliationWorker

`process(job)` as a program counter per worker.  Each label is a point at which
another process can run:

| label | the code between this label and the next |
|---|---|
| `next` | stop flag; ledger lookup (`TakeJob`) |
| `buried` | tombstone lookup (`CheckTombstone`) |
| `dependency` | dependency state, replayability, event, builder (`CheckDependencies`) |
| `build` | INSERT OR IGNORE of the ledger row; takes the write lock (`InsertLedger`) |
| `write` | `builder.build`: writes, declines, raises, or runs its schema script, which commits (`Builder...`, `BuildRaises`) |
| `late_write` | the write of a builder whose script has committed |
| `commit` | the one commit (`CommitBuild`) |
| `ack`, `skip` | `complete`, `skip` |
| `fail`, `hold` | `fail` reads the attempts (`DecideFailure`) |
| `dead`, `retry` | `fail` writes (`FailJob`) |

`Claim` is one step here, with the yield of expired leases in it;
ProjectionOutbox has it in five.  A batch is taken up in any order, where the
code goes by created_at.  `CrashWorker` kills a worker anywhere, `StopWorker`
is a stop between two jobs, `PoisonKills` an event whose build takes the process
with it every time.  `LeaseOutlastsBatch` says whether a lease may expire under
a worker that still runs.  Metrics, `after_commit` side effects, the checkpoint
and the pause flag are left out: none changes these tables.

### ProjectionOutbox

The same table with its clock and lock columns.  `t` is the clock as a claim, or
`fail`, read it; `seen` the rows its last SELECT returned; `hand` the jobs a
worker holds with the time of its grant.  `Yield` is the compare-and-set of
`_yield_expired_leases`; `Take` the guarded UPDATE, which repeats status, lease
and tenant but not available_at.  `Skip` leaves the lock columns alone, as the
code does.  `fail` takes its limit from a set, as its callers pass 0,
`max_attempts` and a multiple of it.  `LeaseOutlastsWork` makes the clock wait
for whoever holds, or is about to take, a lease.

### Forgetting

`forget_derived` as `Resolve`, `ReadQueue`, `DeleteRows` (with the commit that
`place` forces), `PlaceTombstones`; it may die between any two.  The replay
engine as `Scan`, `FilterBuried`, `Rebuild`, then one `Requeue` per candidate.
`scan` reads its rows in one step; what matters, that they are old when acted
on, is kept.  A replay is modelled at the registry's current version.  All of
it runs beside the workers of ReconciliationWorker.

### OwedProjections

No queue, no leases: a debt is owed, its row is written once, and it ends done
(with the row), declined or parked (without it), and it does end.
`Promise` in ReconciliationWorker reads it off `jobs` and `copies`.  `Safety` is
what is proved, `Settled` (everything owed ends) what TLC checks.

### LeasedQueue

The contract between the outbox and whoever works on it, with no clock, no lock
columns, no ledger and no tenants: a claim is one step that gives out what waits or
what a dead worker left behind, only the holder of a job says what becomes of it,
and no lease runs out under a holder.  Two modules implement it while leases last: ProjectionOutbox (`Leases`: the
holder is the live grant, and reading, yielding and selecting are stutters) and
ReconciliationWorker (`Leases`: the holder is whose hand the job is in).  So what
the worker model assumes of its one-step `Claim` is what the five statements
provide.

### ProjectionControl

`Poll` reads the flag and `PolledClaim` claims later, as `run_once` does, so a
pause may land between.  `drain()` is a worker built without the flag
(`StartDrain`, the steps of ReconciliationWorker, `FinishDrain`).

### Doctor

A deep scan is one step that lists findings; for each repair the precondition is
read again (`CheckRepair`) and the row written by job id (`ExecuteRepair`), with
the workers, a forget and a lift in between.  An incremental scan reads its
high-water mark first, scans the rows the cursor has not passed, and saves a
position only if nothing blocked.

### WalManager

Sizes in frames.  `maybe_checkpoint` is observe, look for readers, PASSIVE,
TRUNCATE; a registered reader defers the attempt, a hidden one makes TRUNCATE
busy.  SQLite's log is external, modelled as the manager relies on it.

### CanarySupervisor

One run: the loop with its deaths, replacements and five kinds of recovery, each
once; the finally block (join the producers, drain, stop the workers, report);
the rollback.  `join(timeout=120)` may return while a producer is still in an
observation (canary_supervisor.py:985), and nobody looks whether it did: any
subset of the producers may outlive it (`stragglers`), write behind the drain, and
leave when they next look at the stop event.  EndsClean says what holds then.

### SleepCycle

`sleep()` is prune, relabel, consolidate; `dream()` leaves out the first.  The
grade the write path guesses and the grade the model gives are constants that
disagree on every observation.  A consolidation is one turn per entry: compile
and put what needs approval before a human; then mark and store, if nothing is
promoted, or reconcile, store and mark, if a rule is.  Each is a commit of its own
that may raise, which ends the turn, and the process may die between any two.
`submit` returns an identical request that is still pending, so a turn asks
something new or not, as the other requests and their reviewers would have it.
`save()` is a DELETE and an INSERT in two commits (l1_working.py:515-528): what
ends between them empties the working memory, since every reader loads it anew.
`asked` counts the turns that put a new request since a turn was last cut short
before its mark; AskedOnce says it is never two.

### LabelUpgrade

Upgraders read a batch, the model answers in full, short or not at all, and the
guarded update writes; meanwhile rows are forgotten, reset and built again.

### ClaimTimeline

One slot.  A statement is a row valid from always to ever, related to the held
claim (`Relation`), and applied as up to two window updates and a log entry, a
commit each.  Statements arrive in any order of observation, the process may die
between two commits, and a forget may delete the claim that is held.

### StoreGeneration

Every file that was ever at the canonical path is a generation; a handle stays
with the one it opened.  An install moves the file, moves its sidecars, copies,
renames and verifies, and may be refused by the platform, run out of disk or die
anywhere.

### Erasure

`erase_history` with each commit a step: delete, bury, look for the trigger, drop
it, redact, restore it (also when the update raised), redact the stores, record,
verify.  Beside it a worker that may hold the text, replay, forget, lift, another
erase and a process that opens the store, which creates the trigger if it is
missing.  The key of a call is a memory id with or without a row, a subject or a
needle.

### ContextCache

`compile_context` as look up, recall, look up again, cache; a writer as put and
then invalidate, with a death in between, which is also how a writer looks that
never invalidates (`consolidation.py:248`, `MemoryStore.supersede`); deletions,
which invalidate nothing.  A request with a packet under its key is answered from
it (`Serve`).  `outlived` remembers the quotes of packets that stood when the
memory was deleted and that nothing has replaced or invalidated since.


## Runs

Passing runs:

| run | asks | bounds |
|---|---|---|
| `worker_leased` | invariants of the worker and the refinement of OwedProjections, while leases outlast batches | 2 workers, 1 event, a memory and the block that depends on it, owed together or the block alone; 2 worker crashes or stops, 1 append crash, 2 attempts |
| `worker_fair` | a fatal event starves neither a healthy one nor one without content, batches of one | 2 workers, the label builder, 3 events, leases may run out |
| `outbox_leased` | exclusive leases on the clock, and the refinement of LeasedQueue | 2 workers, 2 jobs and 1 of a foreign tenant, lease 2, clock to 3, 1 crash |
| `forget_race` | deletion against workers and replays | 2 workers, 1 event, 1 forget, lifts, 1 replay or rebuild, 1 crash of a worker and 1 of the forget, leases may run out |
| `repair` | the cursor and settling, with a doctor | 2 workers, 1 event, 2 scans and their repairs, a forget and its lift, 1 crash each of a worker, the forget or the doctor |
| `services` | what each service promises when it ends, and that it gets there | drain: 2 workers, 2 types, 2 pauses; WAL: limits 1, 2 and 3, 4 frames, a registered and a hidden reader, 1 restart; canary: 2 producers, 2 workers, a queue of 1, 2 deaths, two recoveries that may raise; sleep: 3 observations in a memory of 2, 1 model outage, or 1 failed write or death (`OneKindOfTrouble`); labels: 3 rows, 2 upgraders, batches of 2, 1 rebuild |
| `records` | labels, claims, generations, erasures, packets | labels: 2 workers, 3 events, one without content, leases that run out, 1 crash; claims: 3 statements of 2 values at 2 instants on 4 kinds of slot, 1 restart, 1 deletion; generations: 2 candidates, 2 handles, 5 files; erasure: 1 item, 2 erasers, 1 fault; packets: a memory of a workspace and one of none, 2 compiles |

Why these are enough to be of use: every hazard in `PROJECT.json` with a property
needs at most two workers on one job, one crash, and one parent and child or two
events; a lease of 2 with a clock to 3 lets a lease expire, be granted again,
and be live beside a claim that began before.  The event and the type of a job
never meet another's except through dependencies (same event) and the order of
the queue (`worker_fair`, three events).  For what is proved the bounds do not
matter.  In Erasure one item is enough for LogSealed and CleanStaysGone, which
speak of one log and of one text; `erase_overreach`, which asks what else a call
reaches, has two.  Two compiles are the least that can overwrite each other's packet.  The
canary's queue is only ever compared with empty.  A model outage and a failed
write have behaviours of their own: WorthSurvives and WorthIsKept suppose that no
write failed, and what AskedOnce counts no outage disturbs (it is proved without
the bound).  `services` has 170,000 states, `repair` 206,000, `forget_race` 460,000, `worker_fair`
440,000, `outbox_leased` 1.2 million, `records` 2 million; each takes two to four
minutes.

Deadlock is not checked: the runs bound the appends, crashes, forgets, scans,
statements and erasures, so a run may legitimately come to rest.

**Fairness.**  `FairSpec`: weak fairness of each worker's step, because
`run_forever` polls until it is stopped and a supervisor restarts what dies; of
the passage of time on each row; and of an append that has begun.  Nobody is
obliged to append, forget, lift or replay.  Crashes are bounded, so a worker is
eventually left alone, except by poison, which is not bounded: in `worker_fair`
it kills every worker that builds it, for ever.  That run has no other
crashes, on purpose: with batches of one, a machine failure under the healthy
job can leave both jobs leased and both expired with nobody pending, which is
the situation told as *starvation* under [disagreements](#disagreements).

The services: the checkpoint manager is called on its schedule and reads end
(`LogComesBack` is about what happens once writers pause); canary workers work, a
producer looks at its stop event before every observation (staging_canary.py:179
and 185), the supervisor goes on, and the deadline of a run comes however often other things
happen (strong fairness of `LoopEnds`, enabled only between samples); a sleep that
began goes on and somebody keeps calling `sleep()`; an upgrader is run again and
again and the model answers in full now and then (strong fairness of `Answer`,
since calls also fail); a paused or draining worker gets its turn, and whoever
appended finishes.  In `repair`, that of the workers, and the doctor returns from
what it began.

The refinement in `worker_leased` needs LeaseOutlastsBatch, and so do
AtMostOnce and DeadLetterUnbuilt: `worker_duplicate` is what happens without.

Each passing property has a mutant in the modules, an operator before the
definition it would replace, marked `Mutant:`, which breaks that property: a
dropped ledger check, a commit in the wrong place, an off-by-one lease, a
missing tenant clause, a forgotten skip.


## Proofs

For every value of the constants, under the assumptions named in the modules:
any number of workers, events, types, crashes, slots, rows, statements.  Where a
theorem has a hypothesis, a counterexample shows what happens without it:

| hypothesis | of | what it says of the code | without it |
|---|---|---|---|
| `LeaseOutlastsBatch` | `ExactlyOnce`, `DeadLettersUnbuilt`, `WorkersKeepThePromise`, `WorkersUseALeasedQueue`, `DrainTellsTheTruth`, `DeletionStoresOnce`, `ForgetsStoreOnce`, `RepairsStoreOnce` | a batch is done before its lease (300 s) runs out | `worker_duplicate` |
| `Migrating = {}` | `LedgerAndProjection`, `DeadLettersUnbuilt`, `WorkersKeepThePromise` | no builder commits the worker's transaction with a schema script | `worker_torn` |
| `LeaseOutlastsWork` | `GrantsAreRecorded`, `LeasesAreExclusive`, `OutboxIsALeasedQueue` | the same of the outbox alone, on its clock | ExclusiveLease, below |
| `[][HandsSpared]_vars` | `DeletionStoresOnce`, `RepairsStoreOnce` | no replay and no repair rewrites the row of a job a worker has in hand | AtMostOnce with a replay or a repair, below |
| `MaxReplays = 0` | `ForgetsStoreOnce` | no replay or rebuild runs | the same |
| `~OpenAnytime` | `NoStepLeavesAHybrid`, `NoGenerationIsLost` | nobody opens the store between the moves of an install | NoHybrid, below |
| `MaxInstalls = 1` | `NoGenerationIsLost` | a candidate is installed once | NoneOverwritten, below |
| `FirstSlot # LastSlot` | `OneWorkerManages` | more than one worker (three by default) | `kill_lease_holder` kills the manager |
| `MaxOutages < Ttl`, `MaxOutages < 4` | `WorthIsNotPruned` | the model fails on fewer nights than the TTL, and than the four that a high grade lasts past it | WorthSurvives, below |

### The worker and its queue

**ReconciliationWorkerProofs**: `TypeCorrect`, `CompletedIsRecorded`
(LedgerBacked), `ProjectionIsRecorded` (ProjectionRecorded), `DependencyOrder`
(ParentsFirst).  None assumes that leases outlast batches: they hold when
workers finish late, crash, or share a job.

Typing needs `HandOK`: a worker past the head of its batch has a job in hand,
otherwise the row it writes may be none.  LedgerBacked is not inductive either:
`CompleteJob` does not look at the ledger.  `LedgerInv` adds what a worker knows
at each label (`HandKnows`): about to acknowledge means in the ledger; past the
dependency check means every parent is in the ledger or the event is blank.
That last disjunct comes from `skip`: a parent counts as done when it is
skipped, and `SkippedBlank` says that, without tombstones, only an event without
content is.  A row may leave "completed" (a late `fail` does it), but the ledger
only grows, which makes these facts stable under the steps of others.

**ExactlyOnceProofs** goes on from there.

- `DebtIsDurable` (DebtRecorded).  `LockInv` says who has a transaction open and
  hence the write lock; `StagedInv` that the event of an open append is not in
  the log yet and its debt is what is written plus what is to be; `HeldExists`
  that a worker holds only rows that exist, or its late write would make one.
- `ExactlyOnce` (AtMostOnce).  The ledger check is not repeated at the write and
  INSERT OR IGNORE says nothing, so what excludes the second build is the lease.
  `Separate`: no job is in two workers' hands, nor twice in one's; `HeldLive`:
  what is held is in progress and its lease has not run out, so no claim takes
  it; `HandsFresh`: between the ledger check and the insert the key is not in
  the ledger, and at the commit not in the store.
- `LedgerAndProjection` (LedgerPairsProjection) needs no lease: both rows are
  discarded or kept by the one commit.
- `DeadLettersUnbuilt` (DeadLetterUnbuilt): the holder of a job that is not
  about to acknowledge it holds one that is not in the ledger (`Unbuilt`), so
  `fail` parks nothing that was built.
- `WorkersKeepThePromise`: `Spec => Promise!Safety`, the refinement of
  OwedProjections.  The commit of the append maps to owing all of the event's
  debts at once, the commit of a build to projecting, the last write of
  `process` to discharging; every other step, claims, crashes and expiring
  leases included, is a stutter.  It uses all the invariants above: a job whose
  projection exists is discharged as done, one that is parked or declined has
  none, and what was settled is not taken up again.

- `WorkersUseALeasedQueue`: `Spec => ImplementsLeases`, the refinement of
  LeasedQueue.  A claim maps to a claim, the last write of `process` to settling, a
  crash or a stop to abandoning what was in hand, time to leases that run out;
  everything else is a stutter.  That no lease runs out under its holder is
  `HeldLive`, that a settled job leaves no other hand is `Separate`.

**ControlProofs**: `ControlledWorkersAreWorkers` shows `ControlSpec => Spec`, so
that everything above holds under pauses and drains: a polled claim is a claim,
the flag only forbids.  `ControlTypeCorrect`, and `DrainTellsTheTruth`
(DrainedIsIdle): the drain counts rows, and `HeldLive` turns "no row is in
progress" into "no worker holds one"; `NextHolds` says a worker between two jobs
has one left to take.

**ProjectionOutboxProofs**: `ClaimsSpareLeases` and `ForeignUntouched` with no
assumption on leases; `GrantsAreRecorded` and `LeasesAreExclusive` when leases
outlast the work.  `Shape` is the typing they need; `Reading` is what a worker
remembers: the clock it read is not ahead, the leases it saw as expired had
expired by that clock, and what it read is its tenants'.  A claim can only
touch a lease that has the lock stamp it read, or one that had expired by its
own clock, and either is not live.  `Granted` then says that a running grant is
the row's: the only steps that could break it are claims, which spare live
leases, and writes by job id, which need a job in hand, and two hands on one
live job is what `Granted` excludes.  ExclusiveLease follows since a row has one
`lockedBy`.

`OutboxIsALeasedQueue` is the refinement of LeasedQueue: only the UPDATE of a
claim takes, only a write by job id of its holder settles or gives back, and the
yield touches rows that have no holder.  `OutboxTypeCorrect` (TypeOK) needs that
available_at is a number after any number of attempts, that is, that 2^n is: an
induction over a recursive function.  The induction theorems of the library
take an operator, which the provers cannot instantiate; `Induction` states the
principle for a *set* of numbers instead, from the well-foundedness of the
naturals, and `DoubledDef` and `DoubledType` follow from it.

### Deletion and repair

**DoctorProofs** is about the workers with a forget, lifts, replays, rebuilds and
a doctor beside them; only its theorems on AtMostOnce assume that leases outlast
batches.

- `DeletionTypeCorrect`; `DeletionKeepsTheLedger` (LedgerBacked and
  ProjectionRecorded); `DeletionKeepsTheDebt` (DebtRecorded).  A deletion takes
  rows from the stores and leaves the ledger, so the ledger still vouches for
  what was completed, and no row is left without it.  `Vouched` is what remains
  of `HandKnows` beside tombstones: who is about to acknowledge has the ledger
  row.  `Resolved` and `Planned` say what a forget and a replay remember of
  tables that have moved on: rows that only they delete, and events of the log.
  `LedgerHasRows` and `UpsertedOnce` complete `QueueInv`.
- `OneWindow` (OnlyLateWrites).  `WindowInv`: a worker past its look at the
  tombstones, with a buried event in hand, is one that was itself past it when the
  tombstone landed (`late` holds pairs of worker and job).  So the window between check and commit is the only one,
  which says that a second check inside the transaction would close it.
- `DoctorTypeCorrect`, `RepairsKeepTheLedger` (LedgerBacked): a repair writes by
  job id on a stale finding, whatever the row has become, but never "completed",
  and never a row that does not exist.  `RepairsKeepTheRecord` (DebtRecorded and
  ProjectionRecorded) and `OneWindowBesideRepairs` (OnlyLateWrites) are the same
  theorems with the doctor running.
- `ForgetsStoreOnce`, `DeletionStoresOnce`, `RepairsStoreOnce` (AtMostOnce).  A
  deletion opens no second build by itself: it takes rows from the store and
  leaves the ledger.  What does is a row that is rewritten under a live lease: the
  replay engine resets by event and type (projection_engine.py:333-351), a repair
  by job id, and neither asks who holds the job; a second worker claims it, finds
  the ledger as empty as the first did, and both build.  With MaxReplays = 0 there is no such step; `HandsSpared` names the
  condition under which there is none although replays and repairs run, as an
  action, so that it can be checked of an implementation.
- `CursorCoversTheExamined` (CoveredWasClean).  The outbox and the ledger are
  windowed by a position each.  `CursorInv` adds that the ledger position never
  passes a row the outbox position has not passed, for the mark and for what is
  saved, and that a clean scan on its way to save has examined all that its mark
  covers.

ParentsFirst is not claimed here, because it is false (see the table below):
`skip` also settles the parent of a buried event with content, and after a lift
its child is built without it.

**ErasureProofs**: `ErasureTypeCorrect`; `LogStaysSealed` (LogSealed):
`Responsible` names the call that has the trigger down, which is one that saw it
before dropping it (two erasers may both have seen it), and whoever drops is
responsible until it restores, dies or fails; `CleanIsFinal` (CleanStaysGone):
what was verified clean is in no worker's hand and in nobody's input
(`GoneInv`), so nothing is left that could bring it back.

### The records

**RecordsProofs**, three components in one module:

- claims: `ClaimTypeCorrect`; `TransitionsStayTrue` (TransitionsAreTrue),
  `NothingIsForced` (NothingForced).  The log is read through `Standing`, the
  state of the last entry about a claim; `LogInv` says that a claim has at most
  one closing entry, that it is behind the newest and not held, so that nobody
  writes its window again, and what that window is;
  `Underway` what is true between the window update and the log entry, where a
  restart may leave it for good; `Starts` that a row still begins where it did.
- generations: `GenerationTypeCorrect`, `NoStepLeavesAHybrid` (NoHybrid),
  `NoGenerationIsLost` (NoneOverwritten).  `InstallInv`: between the first move
  and the rename the canonical path is free, after the second the -wal is gone;
  `BundleInv`: what is in a bundle came from an install of that candidate.
- packets: `ContextTypeCorrect`, `PacketsStayCurrent` (PacketsAreCurrent).
  `CallsAreCurrent` says of every compile that has recalled what the property
  says of the packet it will write: what it found leaves out only what overtook
  it.  An answer from the cache changes neither.

### The services

**ServicesProofs**: `WalTypeCorrect` (SQLite's counters stay in order);
`GoodLabelsAreKept` (GoodLabelKept), by the guarded update;
`BacklogIsThePending` (UpgradeTypeOK): through every forget, rebuild and answer, in
part or in full, the backlog is the rows whose label is pending, each once, in
order, by induction along the backlog (`DroppingRows`); `CanaryTypeCorrect`,
`CanaryEndsClean` (EndsClean), with the reason of a pause in `CanaryInv` and
`Behind` for who may still produce when the drain begins: stragglers only;
`OneWorkerManages` (OneManager); `SleepTypeCorrect`; `NobodyIsAskedTwice`
(AskedOnce): `AskedInv` says that what is queued, or raw outside its turn, has
asked nothing since a turn was cut short, because a turn ends in the mark or is
cut short, so a repeated night finds a clean slate or an entry it does not take;
`WorthIsNotPruned` (WorthSurvives, where no write failed and nothing died).  For the last,
every night a label stays pending, and every night past its TTL an entry is not
stored, cost the model a call it missed (`PendingInv`, `QueuedInv`, `RawInv`).
With fewer outages than the TTL the placeholder is gone before the garbage
collector looks at it; and an entry labelled "high" is cut no earlier than four
nights past its TTL, by when, with fewer than four outages, it is stored.
`ServicesRunAsSpecified` and `ServicesTypeCorrect` put them side by side, with the
control, as the run `services` does; `RecordsRunAsSpecified` and
`RecordsTypeCorrect` in RecordsProofs do so for the run `records`.

### Only model-checked

- Liveness: HealthySettles, BuriedSettles, RepairedSettles, PauseQuiesces,
  LogComesBack, DrainsByItself, WorthIsKept, BacklogDrains, and the `Settled`
  half of ImplementsPromise.  ENABLED and fairness are beyond the prover.
- What a refinement says of progress, for the same reason.

Every invariant that a passing run checks is proved.  Induction over data is used
twice (the backoff of the outbox, the backlog of the upgrader), in the form told
under ProjectionOutboxProofs; RECURSIVE operators are avoided in favour of
recursive functions.


## Disagreements

Five runs end in a violation: a document, comment or test says one thing and the
code does another.  `PROJECT.json` quotes both sides.  The last three were also
seen by running the code.

| run | what happens |
|---|---|
| `worker_torn` | `ensure_schema` of the label builder runs `executescript()` inside the worker's transaction, which commits the ledger row alone.  A failure before the label is written leaves a job that completes with no label. |
| `worker_duplicate` | A build that outlasts its lease: two workers read an empty ledger, INSERT OR IGNORE hides the second row, the memory is stored twice.  The README promises exactly-once effect. |
| `erase_overreach` | `erase_history(needle=...)` for something that has no memory redacts the event of every standing tombstone: what others had forgotten reversibly is gone. |
| `erase_forgotten` | Forget by memory id, then erase by the same id: the id counts as a target although its row is gone, the tombstones are not consulted, nothing is redacted. |
| `context_forgotten` | Nothing in `forgetting.py` calls `invalidate_scope`; the packet and its blocks outlive an erase that reported `verified_clean`, and the next request is answered from them. |

Others are stated in the modules as properties TLC refutes when asked; no run is
kept on them.

| property | module | what happens |
|---|---|---|
| HealthySettles, with batches of two | ReconciliationWorker | *Starvation.*  Expired leases yield only if a job is *pending*.  A fatal event and a healthy one claimed in one batch expire together, nobody is pending, and they are claimed together again. |
| ExclusiveLease, with leases that run out | ProjectionOutbox | `fail()` by job id frees the lease of the worker that has the job by now. |
| BuriedStaysGone | Forgetting | The tombstone lands between the worker's check and its commit; the memory comes back.  OnlyLateWrites, which passes, says there is no other window. |
| ForgetReaches | Forgetting | The memory moves from the queue to the serving layer between the two reads of `forget_derived`, which finds nothing. |
| LiftedIsRestorable | Forgetting | After a lift, neither replay nor rebuild restores a memory whose outbox row is completed or skipped. |
| AtMostOnce, with a replay or a repair while leases outlast batches | Forgetting, Doctor | A replay, or a repair of a job it found stale, resets the row of a job that a worker has in hand; another claims it and both build. |
| ParentsFirst, with a parent and a child owed | Forgetting | A forget buries the event, the parent's job is skipped, a lift unburies it; the skipped parent counts as done and the child is built before any parent is in the ledger. |
| RepairsOnce | Doctor | The job of a projection that was deleted is reset, the surviving ledger row completes it without a build, and the doctor finds it again ("Running twice changes nothing the second time"). |
| RepairSparesWork | Doctor | The stale lease is checked again by status only: a job claimed anew since the scan loses a live lease (reconciliation.py:264). |
| WindowMissesNothing | Doctor | A projection behind the cursor is deleted or dead-lettered later; incremental scans stay clean. |
| OnlyFatalStopsRun | CanarySupervisor | The handler of a failing recovery calls `traceback.format_exc()` and the file never imports `traceback`: NameError ends the run, a pause may stay set. |
| ProducersGone | CanarySupervisor | "Producers are gone and the workers are deliberately still running" (canary_supervisor.py:988): a producer whose `join(timeout=120)` timed out is not gone, the drain is timed while it writes, and its observations may come after the zero that is reported. |
| LabelledBeforePruned and WorthSurvives, with `MaxOutages = 2` | SleepCycle | The garbage collector runs before the labels are resolved: a new observation whose label fails on every night up to its TTL is cut the night after by its placeholder, however high the model would have rated it. |
| OneCurrent | ClaimTimeline | `_held` is empty after a restart, whatever its comment says: the next change is compared with nothing and two values stay current. |
| NoHybrid, with OpenAnytime | StoreGeneration | A process that opens and writes between the two moves leaves its -wal beside the file that is renamed in. |
| NoneOverwritten, with two installs of one candidate | StoreGeneration | The bundle is named after the candidate's hash; the second install moves onto the first's. |
| SimulationsOnRequest | ContextCache | The key of a packet leaves out `include_simulations`: a packet compiled with them answers the request that did not ask (context_compiler.py:35; the same of `recall_limit`). |

Seen while reading, and not stated as properties: `consolidation.py:157` queries a
column that does not exist, so the list is always empty; the shadow worker writes
its ledger row under the production key, although `shadow.py` says the key spaces
are distinct; a reader registered with the WAL manager that overlaps the next one,
and so on, defers truncation for ever; `kill_lease_holder` in a run with one
worker leaves nobody to manage the WAL; `JOB_ATTEMPTS_EXCEEDED` parks jobs that
have completed; a crash of an erase between redaction and record leaves events
whose checksum fails and which no erasure explains.


## Limits

- One projection version; content is a set of events the subject matches.
- No read skew inside one SELECT, and reads of several tables that only feed one
  decision (`CheckDependencies`, `Scan`, the scan of the doctor, `Verify`) are one
  step.
- `Claim` of ReconciliationWorker is atomic.  So the stale `attempts` a claim
  hands its worker (outbox.py:441) is seen by ProjectionOutbox only.
- I/O errors other than a crash ("database is locked" past the busy timeout) are
  modelled in Erasure, where they leave the log open, in SleepCycle, where they cut
  a turn short, and nowhere else; `place` failing is reported by `forget_derived` and not retried.
- A stall of the replay engine between two steps stands for its crash.
- PacketsAreCurrent allows what overtook a compile: a compile that recalled before
  a write and caches after its invalidation leaves a stale packet until the next
  write of the scope, and a worker that dies before `after_commit` leaves one too.
- CleanStaysGone allows a worker that had the text in hand when the erase
  verified, as OnlyLateWrites does for a forget.  One text per item; memories that
  merge several are left out.
- WorthSurvives bounds the outages of the model; BacklogDrains assumes that rows
  nobody can label do not fill a batch; NoHybrid and NoneOverwritten hold for
  processes that respect an install and for one install per candidate.
- AskedOnce and WorthSurvives speak of a sleep in which nothing is cut short, or of
  the time since: a mark that fails after the request leaves the entry raw, and a
  later night asks again unless an identical request is still pending; a save that
  ends half way loses the working memory.
- `relabel_pending` takes at most 200 entries, which is not modelled.

**Not modelled**: `forget_projection`; shadow comparison and its SLO; `supersede`
of the memory store (the primary key refuses the second of two racing
successors); `ApprovalQueue.resolve`, which does not look again whether the
request is still pending (approval_queue.py:182-207); prefetch, tiering, shares
and checkpoints of the context fabric; the topological order of the registry; and
the components without a protocol named in the inventory, which make up most of
the lines of the repository: text analysis, ranking, language-model calls,
benchmarks and interfaces.


## Plan

1. **Done**: the pipeline (ProjectionStore, ReconciliationWorker, OwedProjections,
   ProjectionOutbox, Forgetting, ProjectionControl, Doctor); the services
   (WalManager, CanarySupervisor, SleepCycle, LabelUpgrade); the records
   (ClaimTimeline, StoreGeneration, Erasure, ContextCache); the proofs of every
   safety property the passing runs check; LeasedQueue, which ties the claim of
   ReconciliationWorker to the five statements of ProjectionOutbox.
2. **DrainedIsIdle beside the doctor**: a repair that resets a job while a drain
   counts.
3. **ApprovalQueue** with two reviewers; **Shadow**, the second builder and its
   comparison; the topological order of the registry against its definition.
