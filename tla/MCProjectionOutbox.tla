------------------------- MODULE MCProjectionOutbox -------------------------
(* Instances of ProjectionOutbox for TLC. *)
EXTENDS ProjectionOutbox, TLC

CONSTANTS home, away  \* tenants

\* The third job belongs to a tenant nobody serves.
MCForeign == [j \in Jobs |-> IF j = 3 THEN away ELSE home]

MCScope == [w \in Workers |-> {home}]

WorkerSymmetry == Permutations(Workers)
=============================================================================
