---------------------------- MODULE LeasedQueue ----------------------------
(***************************************************************************)
(* What the outbox promises the workers that drain it, as long as a lease  *)
(* outlasts the work: a claim is one step, it gives out only what waits or *)
(* what a dead worker left behind, and only the worker that has a job in   *)
(* hand says what becomes of it.  No clock, no rows, no tenants.           *)
(***************************************************************************)
CONSTANTS Jobs, Workers

VARIABLES
    status,  \* of each job
    hands,   \* the jobs each worker has
    leased   \* jobs whose lease has not run out

vars == <<status, hands, leased>>

Outcome == {"pending", "completed", "skipped", "dead_letter"}

With(s) == {j \in Jobs : status[j] = s}

\* In progress for nobody: the lease outlived its holder and then ran out.
Abandoned == With("in_progress") \ leased

Init ==
    /\ status = [j \in Jobs |-> "absent"]
    /\ hands = [w \in Workers |-> {}]
    /\ leased = {}

Enqueue ==
    /\ \E S \in SUBSET With("absent") :
          status' = [j \in Jobs |-> IF j \in S THEN "pending" ELSE status[j]]
    /\ UNCHANGED <<hands, leased>>

\* Some of what waits or was abandoned is given out, and some of what was
\* abandoned is put back with what waits; either may be nothing.
Claim(w) ==
    /\ hands[w] = {}
    /\ \E given \in SUBSET (With("pending") \cup Abandoned), back \in SUBSET Abandoned :
          /\ given \cap back = {}
          /\ status' = [j \in Jobs |-> IF j \in given THEN "in_progress"
                                       ELSE IF j \in back THEN "pending"
                                       ELSE status[j]]
          /\ hands' = [hands EXCEPT ![w] = given]
          /\ leased' = leased \cup given

Settle(w, j) ==
    /\ \E s \in Outcome : status' = [status EXCEPT ![j] = s]
    /\ hands' = [hands EXCEPT ![w] = @ \ {j}]
    /\ leased' = leased \ {j}

\* A worker dies or stops; its leases stand.
Abandon(w) ==
    /\ hands' = [hands EXCEPT ![w] = {}]
    /\ UNCHANGED <<status, leased>>

\* Leases run out, none of them under a worker that has the job.
Expire ==
    /\ \E S \in SUBSET leased :
          /\ \A w \in Workers : S \cap hands[w] = {}
          /\ leased' = leased \ S
    /\ UNCHANGED <<status, hands>>

Next ==
    \/ Enqueue
    \/ Expire
    \/ \E w \in Workers :
          \/ Claim(w)
          \/ \E j \in hands[w] : Settle(w, j)
          \/ Abandon(w)

Spec == Init /\ [][Next]_vars
=============================================================================
