--------------------------- MODULE OwedProjections ---------------------------
(***************************************************************************)
(* What the outbox, the worker and the ledger promise together: a debt     *)
(* recorded with its event is projected once, declined, or parked for a    *)
(* human, and none of the three is ever taken back.  No queue, no leases,  *)
(* no workers.                                                             *)
(***************************************************************************)
EXTENDS Integers

CONSTANTS Events, Types

VARIABLES
    debt,  \* the state of each (event, type)
    rows   \* projections each (event, type) has in its target store

Jobs == Events \X Types

Debt == {"none", "owed", "done", "declined", "parked"}

Init ==
    /\ debt = [j \in Jobs |-> "none"]
    /\ rows = [j \in Jobs |-> 0]

\* An event becomes durable with everything it owes.
Owe(e, T) ==
    /\ \A t \in T : debt[<<e, t>>] = "none"
    /\ debt' = [j \in Jobs |-> IF j[1] = e /\ j[2] \in T THEN "owed" ELSE debt[j]]
    /\ UNCHANGED rows

Project(j) ==
    /\ debt[j] = "owed"
    /\ rows[j] = 0
    /\ rows' = [rows EXCEPT ![j] = 1]
    /\ UNCHANGED debt

Discharge(j, verdict) ==
    /\ debt[j] = "owed"
    /\ (verdict = "done") <=> (rows[j] = 1)
    /\ debt' = [debt EXCEPT ![j] = verdict]
    /\ UNCHANGED rows

Next ==
    \/ \E e \in Events, T \in SUBSET Types : Owe(e, T)
    \/ \E j \in Jobs : Project(j)
    \/ \E j \in Jobs, v \in {"done", "declined", "parked"} : Discharge(j, v)

Settled == \A j \in Jobs : debt[j] = "owed" ~> debt[j] # "owed"

\* What is never done, and what is done in the end.
Safety == Init /\ [][Next]_<<debt, rows>>

Spec == Safety /\ Settled
=============================================================================
