----------------------- MODULE MCReconciliationWorker -----------------------
(* Instances of ReconciliationWorker for TLC. *)
EXTENDS ReconciliationWorker, TLC

CONSTANTS memory, block, label  \* projection types of the registry

MCParents == [t \in Types |-> IF t = block THEN {memory} \cap Types ELSE {}]

MCDebts == {Types}

\* A memory and its child, owed together or apart.
FamilyDebts == {Types, {block}}

WorkerSymmetry == Permutations(Workers)

\* Events with content are alike as well.
ContentSymmetry == WorkerSymmetry \cup Permutations(Events \ Blank)
=============================================================================
