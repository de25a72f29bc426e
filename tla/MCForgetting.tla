---------------------------- MODULE MCForgetting ----------------------------
(* Instances of Forgetting for TLC. *)
EXTENDS Forgetting, TLC

CONSTANTS memory, label  \* projection types of the registry

MCParents == [type \in Types |-> {}]

\* An event of an outbox store owes its memory; one of a legacy store nothing.
MCDebts == {{}, Types}

MCUpserts == {label} \cap Types

WorkerSymmetry == Permutations(Workers)
=============================================================================
