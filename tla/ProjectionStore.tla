-------------------------- MODULE ProjectionStore --------------------------
(***************************************************************************)
(* The SQLite tables the projection pipeline shares, and the statements    *)
(* that write them: the append-only event log, the projection_outbox, the  *)
(* projection_ledger, the projections themselves and the tombstones.       *)
(* Sources: cognitive/event_store.py, cognitive/outbox.py,                 *)
(* cognitive/tombstones.py, cognitive/projection_registry.py.              *)
(*                                                                         *)
(* A transaction that spans several statements is modelled statement by    *)
(* statement: `writer` is the holder of SQLite's single write lock, what   *)
(* is staged is visible to nobody else, and a crash discards it.  A        *)
(* statement that commits at once is one step and needs the lock free.     *)
(*                                                                         *)
(* Time is abstracted to the one bit the queue's predicates ask of it:     *)
(* `due` says of a pending job that available_at has come, and of a job in *)
(* progress that its lease has expired.  Module ProjectionOutbox has the   *)
(* clock itself, the lock columns and the statements a claim is made of.   *)
(***************************************************************************)
EXTENDS Integers

CONSTANTS
    Events,       \* event identifiers
    Types,        \* projection types of the registry
    Parents,      \* [Types -> SUBSET Types], the registry's depends_on
    Buildable,    \* types the worker has a builder for
    Replayable,   \* types the registry calls replayable
    Migrating,    \* types whose builder runs a schema script on its first build
    Upserts,      \* types whose builder upserts one row per projection key
    Blank,        \* events whose payload carries no content
    Debts,        \* the sets of types an append may be asked to owe
    MaxAttempts,  \* the worker's max_attempts
    HoldFactor,   \* multiple of max_attempts a held dependency is allowed
    Workers,      \* worker processes
    Client,       \* the process that appends events
    Nobody,       \* the write lock is free
    NoEvent       \* no append in progress

ASSUME StoreAssumption ==
    /\ Parents \in [Types -> SUBSET Types]
    /\ Buildable \subseteq Types
    /\ Replayable \subseteq Types
    /\ Migrating \subseteq Types
    /\ Upserts \subseteq Types
    /\ Blank \subseteq Events
    /\ Debts \subseteq SUBSET Types
    /\ MaxAttempts \in Nat \ {0}
    /\ HoldFactor \in Nat \ {0}
    /\ Client \notin Workers
    /\ Nobody \notin Workers \cup {Client}
    /\ NoEvent \notin Events

VARIABLES
    events,      \* committed rows of cognitive_events
    owed,        \* history: the types each event was appended with
    jobs,        \* projection_outbox, one row per (event, type)
    ledger,      \* projection_ledger, the keys it holds
    copies,      \* rows the projection of a key has in its target store
    tombstones,  \* events with a tombstone that is not lifted
    writer,      \* holder of the write lock across statements
    append       \* the client's open append transaction

storeVars == <<events, owed, jobs, ledger, copies, tombstones, writer, append>>

Jobs == Events \X Types

Status == {"absent", "pending", "in_progress", "completed", "dead_letter",
           "skipped"}

\* Attempts matter only through comparisons with 1, max_attempts and the hold
\* limit, so the count saturates at the largest of them.
HoldLimit == MaxAttempts * HoldFactor
AttemptCap == HoldLimit + 1
Bump(n) == IF n < AttemptCap THEN n + 1 ELSE n

Row == [status : Status, attempts : 0..AttemptCap, due : BOOLEAN]

Absent == [status |-> "absent", attempts |-> 0, due |-> FALSE]
Fresh == [status |-> "pending", attempts |-> 0, due |-> TRUE]

Unsettled(j) == jobs[j].status \in {"pending", "in_progress"}
\* Mutant: an expired lease is never offered again.
ClaimablePendingOnly(j) == jobs[j].status = "pending" /\ jobs[j].due

Claimable(j) == Unsettled(j) /\ jobs[j].due

NoAppend == [event |-> NoEvent, todo |-> {}, staged |-> {}]

StoreTypeOK ==
    /\ events \subseteq Events
    /\ owed \in [Events -> SUBSET Types]
    /\ jobs \in [Jobs -> Row]
    /\ ledger \subseteq Jobs
    /\ copies \in [Jobs -> Nat]
    /\ tombstones \subseteq Events
    /\ writer \in Workers \cup {Client, Nobody}
    /\ append \in [event : Events \cup {NoEvent}, todo : SUBSET Types,
                   staged : SUBSET Types]

StoreInit ==
    /\ events = {}
    /\ owed = [e \in Events |-> {}]
    /\ jobs = [j \in Jobs |-> Absent]
    /\ ledger = {}
    /\ copies = [j \in Jobs |-> 0]
    /\ tombstones = {}
    /\ writer = Nobody
    /\ append = NoAppend

-----------------------------------------------------------------------------
(* SQLiteEventStore.append: the event row and one outbox row per owed type, *)
(* one statement each, one commit.                                          *)

\* Rows an enqueue of the types T of event e leaves: ON CONFLICT DO NOTHING.
Enqueued(e, T) ==
    [j \in Jobs |-> IF /\ j[1] = e
                       /\ j[2] \in T
                       /\ jobs[j].status = "absent"
                    THEN Fresh
                    ELSE jobs[j]]

BeginAppend(e, T) ==
    /\ writer = Nobody
    /\ e \notin events
    /\ writer' = Client
    /\ append' = [event |-> e, todo |-> T, staged |-> {}]
    /\ owed' = [owed EXCEPT ![e] = T]
    /\ UNCHANGED <<events, jobs, ledger, copies, tombstones>>

\* Mutant: enqueue() commits, although append() asked it not to.
EnqueueDebtCommits(t) ==
    /\ t \in append.todo
    /\ append' = [append EXCEPT !.todo = @ \ {t}]
    /\ jobs' = Enqueued(append.event, {t})
    /\ UNCHANGED <<events, owed, ledger, copies, tombstones, writer>>

\* enqueue(job, commit=False): the row joins the open transaction.
EnqueueDebt(t) ==
    /\ t \in append.todo
    /\ append' = [append EXCEPT !.todo = @ \ {t}, !.staged = @ \cup {t}]
    /\ UNCHANGED <<events, owed, jobs, ledger, copies, tombstones, writer>>

CommitAppend ==
    /\ append.event # NoEvent
    /\ append.todo = {}
    /\ events' = events \cup {append.event}
    /\ jobs' = Enqueued(append.event, append.staged)
    /\ append' = NoAppend
    /\ writer' = Nobody
    /\ UNCHANGED <<owed, ledger, copies, tombstones>>

\* The process dies before the commit; SQLite rolls the transaction back.
CrashAppend ==
    /\ append.event # NoEvent
    /\ append' = NoAppend
    /\ writer' = Nobody
    /\ UNCHANGED <<events, owed, jobs, ledger, copies, tombstones>>

-----------------------------------------------------------------------------
(* The single-statement writes of ProjectionOutbox, as the row they leave. *)

ClaimedRow(r) ==
    [status |-> "in_progress", attempts |-> Bump(r.attempts), due |-> FALSE]

\* The lease of a claimed job has expired and its turn goes to those waiting.
YieldedRow(r) == [r EXCEPT !.status = "pending", !.due = FALSE]

CompletedRow(r) == [r EXCEPT !.status = "completed", !.due = FALSE]

\* Mutant: a status the queue does not know.
DeadRowFailed(r) == [r EXCEPT !.status = "failed", !.due = FALSE]

\* fail(): parked when the budget is spent, otherwise back off and retry.
DeadRow(r) == [r EXCEPT !.status = "dead_letter", !.due = FALSE]
RetryRow(r) == [r EXCEPT !.status = "pending", !.due = FALSE]

\* Mutant: the worker returns without telling the queue.
SkippedRowForgotten(r) == r

\* skip() touches only a job that is still unsettled.
SkippedRow(r) ==
    IF r.status \in {"pending", "in_progress"}
    THEN [r EXCEPT !.status = "skipped", !.due = FALSE]
    ELSE r

-----------------------------------------------------------------------------
(* The dependency state of a job, from the latest row of each parent. *)

ParentStatus(j) == {jobs[<<j[1], p>>].status : p \in Parents[j[2]]}

Blocked(j) == "dead_letter" \in ParentStatus(j)

\* Mutant: a parent that somebody is working on counts as done.
ReadyWhenClaimed(j) ==
    ParentStatus(j) \subseteq {"completed", "skipped", "in_progress"}

Ready(j) == ParentStatus(j) \subseteq {"completed", "skipped"}
=============================================================================
