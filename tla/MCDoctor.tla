------------------------------- MODULE MCDoctor -------------------------------
(* Instances of Doctor for TLC. *)
EXTENDS Doctor

CONSTANTS memory, block, label  \* projection types of the registry

MCParents == [t \in Types |-> IF t = block THEN {memory} \cap Types ELSE {}]

MCDebts == {Types}
MCUpserts == {label} \cap Types
=============================================================================
