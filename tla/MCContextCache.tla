--------------------------- MODULE MCContextCache ---------------------------
(* Instances of ContextCache for TLC. *)
EXTENDS ContextCache

CONSTANTS narrow, wide  \* memories

\* Every memory but the wide one belongs to some workspace.
MCScopeOf ==
    [m \in Memories |-> IF m = wide THEN Whole ELSE CHOOSE w \in Workspaces : TRUE]
=============================================================================
