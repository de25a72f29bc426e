-------------------------- MODULE ProjectionOutbox --------------------------
(***************************************************************************)
(* The leases of the projection_outbox on a clock: cognitive/outbox.py     *)
(* statement by statement, for several workers of several tenants.         *)
(*                                                                         *)
(* SQLite serialises writers, and a SELECT outside a write transaction     *)
(* sees what is committed when it runs.  A claim is five statements, each  *)
(* a step: read the expired leases, count who is waiting, yield, read the  *)
(* claimable rows, take them.  The clock is read once, when claim begins.  *)
(***************************************************************************)
EXTENDS Integers, FiniteSets, Functions

CONSTANTS
    Jobs,            \* job numbers, in the order of created_at
    Tenants,
    TenantOf,        \* [Jobs -> Tenants]
    Workers,
    Scope,           \* [Workers -> SUBSET Tenants]; all of them when unscoped
    Nobody,          \* locked_by IS NULL
    Limit,           \* claim(limit)
    Lease,           \* lease_seconds
    YieldBase,
    YieldCap,
    BackoffCap,
    FailLimits,      \* the values of max_attempts fail() is called with
    LeaseOutlastsWork,  \* the clock waits for whoever holds a lease
    MaxTime,         \* bound of the clock
    MaxCrashes       \* bound: worker crashes

\* validate_lease_seconds: a lease has a length.
ASSUME OutboxAssumption ==
    /\ Jobs \subseteq Nat
    /\ TenantOf \in [Jobs -> Tenants]
    /\ Scope \in [Workers -> SUBSET Tenants]
    /\ Nobody \notin Workers
    /\ Limit \in Nat \ {0}
    /\ Lease \in Nat \ {0}
    /\ {YieldBase, YieldCap, BackoffCap} \subseteq Nat \ {0}
    /\ FailLimits \subseteq Nat
    /\ LeaseOutlastsWork \in BOOLEAN
    /\ {MaxTime, MaxCrashes} \subseteq Nat

VARIABLES
    now,      \* the clock
    rows,     \* the table
    pc,       \* where each worker is
    t,        \* the clock as this claim, or this batch, read it
    seen,     \* rows the worker's last SELECT returned, as it returned them
    hand,     \* jobs the worker holds, with the time of its grant
    crashes

vars == <<now, rows, pc, t, seen, hand, crashes>>

Status == {"absent", "pending", "in_progress", "completed", "dead_letter",
           "skipped"}

Row == [status : Status, attempts : Nat, available : Nat,
        lockedBy : Workers \cup {Nobody}, lockedAt : Nat]

Empty == <<>>

TypeOK ==
    /\ now \in 0..MaxTime
    /\ rows \in [Jobs -> Row]
    /\ pc \in [Workers -> {"idle", "count", "yield", "select", "take", "work",
                           "failing"}]
    /\ t \in [Workers -> 0..MaxTime]
    /\ \A w \in Workers : \A j \in DOMAIN seen[w] : j \in Jobs /\ seen[w][j] \in Row
    /\ \A w \in Workers : \A j \in DOMAIN hand[w] : j \in Jobs /\ hand[w][j] \in Nat
    /\ crashes \in 0..MaxCrashes

Init ==
    /\ now = 0
    /\ rows = [j \in Jobs |-> [status |-> "absent", attempts |-> 0,
                               available |-> 0, lockedBy |-> Nobody,
                               lockedAt |-> 0]]
    /\ pc = [w \in Workers |-> "idle"]
    /\ t = [w \in Workers |-> 0]
    /\ seen = [w \in Workers |-> Empty]
    /\ hand = [w \in Workers |-> Empty]
    /\ crashes = 0

Goto(w, label) == pc' = [pc EXCEPT ![w] = label]

\* Row r, taken by worker w at time c.
Leased(r, w, c) ==
    [status |-> "in_progress", attempts |-> r.attempts + 1,
     available |-> r.available, lockedBy |-> w, lockedAt |-> c]

\* Row r, nobody's any more.
Freed(r, status, available) ==
    [status |-> status, attempts |-> r.attempts, available |-> available,
     lockedBy |-> Nobody, lockedAt |-> 0]

Earlier(a, b) == IF a < b THEN a ELSE b
Later(a, b) == IF a < b THEN b ELSE a

\* Mutant: a status claim() does not look for.
EnqueueQueued(j) ==
    /\ rows[j].status = "absent"
    /\ \A i \in Jobs : i < j => rows[i].status # "absent"
    /\ rows' = [rows EXCEPT ![j].status = "queued", ![j].available = now]
    /\ UNCHANGED <<now, pc, t, seen, hand, crashes>>

\* enqueue(): the row is claimable at once.
Enqueue(j) ==
    /\ rows[j].status = "absent"
    /\ \A i \in Jobs : i < j => rows[i].status # "absent"
    /\ rows' = [rows EXCEPT ![j].status = "pending", ![j].available = now]
    /\ UNCHANGED <<now, pc, t, seen, hand, crashes>>

-----------------------------------------------------------------------------
(* claim() *)

\* Mutant: the tenant clause is dropped.
MineUnscoped(w) == Jobs

Mine(w) == {j \in Jobs : TenantOf[j] \in Scope[w]}

\* Mutant: a lease expires one tick early.
ExpiredEarly(j, c) ==
    rows[j].status = "in_progress" /\ rows[j].lockedAt < c + 2 - Lease

\* locked_at <= now - lease_seconds, by the clock reading c.
ExpiredAt(j, c) ==
    rows[j].status = "in_progress" /\ rows[j].lockedAt <= c - Lease

ReadExpired(w) ==
    LET expired == {j \in Mine(w) : ExpiredAt(j, now)}
    IN  /\ pc[w] = "idle"
        /\ t' = [t EXCEPT ![w] = now]
        /\ seen' = [seen EXCEPT ![w] = Restrict(rows, expired)]
        /\ Goto(w, IF expired = {} THEN "select" ELSE "count")
        /\ UNCHANGED <<now, rows, hand, crashes>>

CountWaiting(w) ==
    LET waiting == {j \in Mine(w) : /\ rows[j].status = "pending"
                                    /\ rows[j].available <= t[w]}
    IN  /\ pc[w] = "count"
        /\ Goto(w, IF waiting = {} THEN "select" ELSE "yield")
        /\ UNCHANGED <<now, rows, t, seen, hand, crashes>>

\* Mutant: no compare, only set.
SameStatus(j, r) == rows[j].status = r.status

\* Compare-and-set: only a lease that is still the one that was read.
SameLease(j, r) ==
    /\ rows[j].status = "in_progress"
    /\ rows[j].lockedBy = r.lockedBy
    /\ rows[j].lockedAt = r.lockedAt

YieldWait(attempts) == Earlier(YieldBase * Later(1, attempts), YieldCap)

Yielded(w) == {j \in DOMAIN seen[w] : SameLease(j, seen[w][j])}

Yield(w) ==
    /\ pc[w] = "yield"
    /\ rows' = [j \in Jobs |->
                   IF j \in Yielded(w)
                   THEN Freed(rows[j], "pending",
                              t[w] + YieldWait(seen[w][j].attempts))
                   ELSE rows[j]]
    /\ Goto(w, "select")
    /\ UNCHANGED <<now, t, seen, hand, crashes>>

Claimable(w, j) ==
    /\ rows[j].available <= t[w]
    /\ rows[j].status = "pending" \/ ExpiredAt(j, t[w])

\* ORDER BY created_at LIMIT limit.
Oldest(S) == {j \in S : Cardinality({i \in S : i < j}) < Limit}

SelectClaimable(w) ==
    LET chosen == Oldest({j \in Mine(w) : Claimable(w, j)})
    IN  /\ pc[w] = "select"
        /\ seen' = [seen EXCEPT ![w] = Restrict(rows, chosen)]
        /\ Goto(w, IF chosen = {} THEN "idle" ELSE "take")
        /\ UNCHANGED <<now, rows, t, hand, crashes>>

\* Mutant: the UPDATE trusts the SELECT.
TakableAsSeen(w) == DOMAIN seen[w] \cap Mine(w)

\* The UPDATE repeats the status and the lease, not available_at.
Takable(w) ==
    {j \in DOMAIN seen[w] \cap Mine(w) :
        rows[j].status = "pending" \/ ExpiredAt(j, t[w])}

\* Mutant: the rowcount of the UPDATE is not looked at.
TakeUncounted(w) ==
    /\ pc[w] = "take"
    /\ rows' = [j \in Jobs |->
                   IF j \in Takable(w)
                   THEN Leased(rows[j], w, t[w])
                   ELSE rows[j]]
    /\ hand' = [hand EXCEPT ![w] = [j \in DOMAIN seen[w] |-> t[w]]]
    /\ seen' = [seen EXCEPT ![w] = Empty]
    /\ Goto(w, IF seen[w] = Empty THEN "idle" ELSE "work")
    /\ UNCHANGED <<now, t, crashes>>

Take(w) ==
    /\ pc[w] = "take"
    /\ rows' = [j \in Jobs |->
                   IF j \in Takable(w)
                   THEN Leased(rows[j], w, t[w])
                   ELSE rows[j]]
    /\ hand' = [hand EXCEPT ![w] = [j \in Takable(w) |-> t[w]]]
    /\ seen' = [seen EXCEPT ![w] = Empty]
    /\ Goto(w, IF Takable(w) = {} THEN "idle" ELSE "work")
    /\ UNCHANGED <<now, t, crashes>>

-----------------------------------------------------------------------------
(* complete(), skip(), fail(): by job id, whoever holds the row by now. *)

\* The job leaves the worker's hand; an empty hand ends the batch.
LetGo(w, j) ==
    /\ hand' = [hand EXCEPT ![w] = Restrict(@, DOMAIN @ \ {j})]
    /\ seen' = [seen EXCEPT ![w] = Empty]
    /\ Goto(w, IF DOMAIN hand[w] = {j} THEN "idle" ELSE "work")

Complete(w, j) ==
    /\ pc[w] = "work"
    /\ j \in DOMAIN hand[w]
    /\ rows' = [rows EXCEPT ![j] = Freed(@, "completed", @.available)]
    /\ LetGo(w, j)
    /\ UNCHANGED <<now, t, crashes>>

\* skip() spares a settled row, and leaves the lock columns as they are.
Skip(w, j) ==
    /\ pc[w] = "work"
    /\ j \in DOMAIN hand[w]
    /\ rows' = [rows EXCEPT ![j].status =
                   IF @ \in {"pending", "in_progress"} THEN "skipped" ELSE @]
    /\ LetGo(w, j)
    /\ UNCHANGED <<now, t, crashes>>

\* fail() reads the clock and the attempts, then writes.
ReadAttempts(w, j) ==
    /\ pc[w] = "work"
    /\ j \in DOMAIN hand[w]
    /\ t' = [t EXCEPT ![w] = now]
    /\ seen' = [seen EXCEPT ![w] = Restrict(rows, {j})]
    /\ Goto(w, "failing")
    /\ UNCHANGED <<now, rows, hand, crashes>>

Doubled[n \in Nat] == IF n = 0 THEN 2 ELSE 2 * Doubled[n - 1]

Backoff(attempts) == Earlier(Doubled[Later(0, attempts - 1)], BackoffCap)

\* The caller's limit decides: 0 parks the job at once.
WriteFailure(w, j, limit) ==
    LET spent == seen[w][j].attempts >= limit
        delay == IF spent THEN 0 ELSE Backoff(seen[w][j].attempts)
    IN  /\ pc[w] = "failing"
        /\ j \in DOMAIN seen[w]
        /\ rows' = [rows EXCEPT ![j] =
                       Freed(@, IF spent THEN "dead_letter" ELSE "pending",
                             t[w] + delay)]
        /\ LetGo(w, j)
        /\ UNCHANGED <<now, t, crashes>>

-----------------------------------------------------------------------------
Crash(w) ==
    /\ crashes < MaxCrashes
    /\ pc[w] # "idle"
    /\ crashes' = crashes + 1
    /\ hand' = [hand EXCEPT ![w] = Empty]
    /\ seen' = [seen EXCEPT ![w] = Empty]
    /\ Goto(w, "idle")
    /\ UNCHANGED <<now, rows, t>>

\* With LeaseOutlastsWork, no lease runs out on a worker that holds it or is
\* about to.
InTime(w) ==
    /\ \A j \in DOMAIN hand[w] : now + 1 < hand[w][j] + Lease
    /\ pc[w] \in {"count", "yield", "select", "take"} => now + 1 < t[w] + Lease

Tick ==
    /\ now < MaxTime
    /\ LeaseOutlastsWork => \A w \in Workers : InTime(w)
    /\ now' = now + 1
    /\ UNCHANGED <<rows, pc, t, seen, hand, crashes>>

Claiming(w) ==
    \/ ReadExpired(w)
    \/ CountWaiting(w)
    \/ Yield(w)
    \/ SelectClaimable(w)
    \/ Take(w)

Settling(w) ==
    \E j \in Jobs :
        \/ Complete(w, j)
        \/ Skip(w, j)
        \/ ReadAttempts(w, j)
        \/ \E limit \in FailLimits : WriteFailure(w, j, limit)

Next ==
    \/ \E j \in Jobs : Enqueue(j)
    \/ \E w \in Workers : Claiming(w) \/ Settling(w) \/ Crash(w)
    \/ Tick

Spec == Init /\ [][Next]_vars

-----------------------------------------------------------------------------
(* Properties. *)

Live(j) == rows[j].status = "in_progress" /\ now < rows[j].lockedAt + Lease

Holds(w, j) == j \in DOMAIN hand[w] /\ now < hand[w][j] + Lease

\* A lease is exclusive: two workers never both hold a job on grants that have
\* not run out, whatever the order in which their claims interleave.
ExclusiveLease ==
    \A j \in Jobs : \A v, w \in Workers : Holds(v, j) /\ Holds(w, j) => v = w

\* While a grant runs, the queue says so: the row names the worker that holds
\* it, so nobody else is offered the job.
GrantRecorded ==
    \A w \in Workers : \A j \in Jobs :
        Holds(w, j) => Live(j) /\ rows[j].lockedBy = w

\* No claim ends a live lease, however old the rows it read have become.
ClaimSparesLiveLeases ==
    [][\A w \in Workers : Claiming(w) =>
          \A j \in Jobs : Live(j) => rows'[j] = rows[j]]_vars

\* A job whose tenant no worker serves is left exactly as it was queued: no
\* lease, no attempt, no delay.
ForeignTenantUntouched ==
    [][\A j \in Jobs :
          /\ rows[j].status # "absent"
          /\ \A w \in Workers : TenantOf[j] \notin Scope[w]
          => rows'[j] = rows[j]]_vars

-----------------------------------------------------------------------------
(* The queue without a clock. *)

Leases == INSTANCE LeasedQueue WITH
             status <- [j \in Jobs |-> rows[j].status],
             hands  <- [w \in Workers |-> DOMAIN hand[w]],
             leased <- {j \in Jobs : Live(j)}

\* With leases that outlast the work, the five statements of a claim and the
\* writes by job id do what a queue does whose claim is one step and whose
\* jobs are settled by their holder alone.
ImplementsLeases == Leases!Spec
=============================================================================
