--------------------------- MODULE StoreGeneration ---------------------------
(***************************************************************************)
(* install_generation of cognitive/store_generation.py, beside processes   *)
(* that open the store.  Every file that was ever put at the canonical     *)
(* path is a generation of its own, numbered in the order they appear; a   *)
(* handle stays with the generation it opened, wherever it is moved.       *)
(* SQLite is external, as the module relies on it: a writer leaves a -wal  *)
(* beside the path, the last close folds it in and removes it.             *)
(***************************************************************************)
EXTENDS Integers, FiniteSets

CONSTANTS
    Candidates,      \* candidate files; the bundle is named after the hash
    Handles,         \* connections of other processes
    OpenAnytime,     \* processes open the store also during an install
    MaxInstalls,     \* bound: installs of one candidate
    MaxGenerations   \* bound: files created at the canonical path

ASSUME GenerationAssumption ==
    /\ OpenAnytime \in BOOLEAN
    /\ {MaxInstalls, MaxGenerations} \subseteq Nat \ {0}
    /\ Candidates \cap {"canonical", "overwritten"} = {}

None == 0
Generations == 1 .. MaxGenerations
Overwritten == "overwritten"

VARIABLES
    locks,      \* the platform refuses to move a file that is open
    place,      \* generation -> "canonical", a candidate's bundle or overwritten
    sidecar,    \* the generation whose -wal lies at the canonical path
    opened,     \* handle -> the generation it has open
    step,       \* where the installer is
    candidate,  \* what it installs
    installs    \* candidate -> installs begun

generationVars == <<locks, place, sidecar, opened, step, candidate, installs>>

Made == DOMAIN place
Canonical == {g \in Made : place[g] = "canonical"}
Idle == step = "idle"

GenerationTypeOK ==
    /\ locks \in BOOLEAN
    /\ Made = 1 .. Cardinality(Made) /\ Made \subseteq Generations
    /\ \A g \in Made : place[g] \in {"canonical", Overwritten} \cup Candidates
    /\ Cardinality(Canonical) <= 1
    /\ sidecar \in {None} \cup Made
    /\ opened \in [Handles -> {None} \cup Made]
    /\ step \in {"idle", "main", "sidecars", "copy", "replace", "verify"}
    /\ candidate \in Candidates
    /\ installs \in [Candidates -> 0 .. MaxInstalls]

GenerationInit ==
    /\ locks \in BOOLEAN
    /\ place = [g \in {1} |-> "canonical"] /\ sidecar = None
    /\ opened = [h \in Handles |-> None]
    /\ step = "idle" /\ candidate \in Candidates
    /\ installs = [c \in Candidates |-> 0]

-----------------------------------------------------------------------------
(* Processes that use the store. *)

NextGeneration == Cardinality(Made) + 1
With(g, where) == [x \in Made \cup {g} |-> IF x = g THEN where ELSE place[x]]

\* A path that holds no file is created, and a -wal beside it is dropped.
OpenStore(h) ==
    /\ opened[h] = None /\ (Idle \/ OpenAnytime)
    /\ IF Canonical # {}
       THEN /\ \E g \in Canonical : opened' = [opened EXCEPT ![h] = g]
            /\ UNCHANGED <<place, sidecar>>
       ELSE /\ NextGeneration \in Generations
            /\ place' = With(NextGeneration, "canonical") /\ sidecar' = None
            /\ opened' = [opened EXCEPT ![h] = NextGeneration]
    /\ UNCHANGED <<step, candidate, installs>>

WriteStore(h) ==
    /\ opened[h] \in Canonical /\ sidecar = None
    /\ sidecar' = opened[h]
    /\ UNCHANGED <<place, opened, step, candidate, installs>>

\* A close checkpoints; a process that dies leaves its -wal behind.
CloseStore(h) ==
    /\ opened[h] # None
    /\ opened' = [opened EXCEPT ![h] = None]
    /\ \/ UNCHANGED sidecar
       \/ /\ sidecar = opened[h] /\ sidecar' = None
          /\ \A other \in Handles \ {h} : opened[other] # opened[h]
    /\ UNCHANGED <<place, step, candidate, installs>>

-----------------------------------------------------------------------------
(* install_generation. *)

\* certify_candidate: a candidate that is not clean is refused here and
\* nothing is touched.
Certify(c) ==
    /\ Idle /\ installs[c] < MaxInstalls
    /\ installs' = [installs EXCEPT ![c] = @ + 1]
    /\ candidate' = c /\ step' = "main"
    /\ UNCHANGED <<place, sidecar, opened>>

Locked(gs) == locks /\ \E h \in Handles : opened[h] \in gs

\* Mutant: the candidate is copied over the canonical path in place.
ReplaceFirst ==
    /\ step = "main" /\ step' = "verify"
    /\ NextGeneration \in Generations
    /\ place' = [With(NextGeneration, "canonical") EXCEPT
                   ![CHOOSE g \in Canonical : TRUE] = Overwritten]
    /\ UNCHANGED <<sidecar, opened, candidate, installs>>

\* The generation that leaves the canonical path takes the place in the
\* bundle of whatever the bundle held.
MovedAside ==
    [g \in Made |-> IF place[g] = "canonical" THEN candidate
                    ELSE IF place[g] = candidate /\ Canonical # {} THEN Overwritten
                    ELSE place[g]]

\* A locked file fails closed: whatever was moved is put back.
MoveMain ==
    /\ step = "main"
    /\ IF Locked(Canonical)
       THEN step' = "idle" /\ UNCHANGED place
       ELSE step' = "sidecars" /\ place' = MovedAside
    /\ UNCHANGED <<sidecar, opened, candidate, installs>>

\* Mutant: only the main file is moved aside.
MoveSidecarsNot ==
    /\ step = "sidecars" /\ step' = "copy"
    /\ UNCHANGED <<place, sidecar, opened, candidate, installs>>

MoveSidecars ==
    /\ step = "sidecars" /\ step' = "copy"
    /\ sidecar' = None
    /\ UNCHANGED <<place, opened, candidate, installs>>

\* The copy goes to a temporary name; a full disk raises here, with the
\* canonical path empty and the old generation in its bundle.
CopyCandidate ==
    /\ step = "copy" /\ step' \in {"replace", "idle"}
    /\ UNCHANGED <<place, sidecar, opened, candidate, installs>>

\* The rename replaces whatever appeared at the path meanwhile.
ReplaceCanonical ==
    /\ step = "replace"
    /\ IF Locked(Canonical)
       THEN step' = "idle" /\ UNCHANGED place
       ELSE /\ step' = "verify" /\ NextGeneration \in Generations
            /\ place' = [g \in Made \cup {NextGeneration} |->
                           IF g = NextGeneration THEN "canonical"
                           ELSE IF place[g] = "canonical" THEN Overwritten
                           ELSE place[g]]
    /\ UNCHANGED <<sidecar, opened, candidate, installs>>

\* The hash and the integrity check; a failure raises and leaves everything
\* where it is.
VerifyInstalled ==
    /\ step = "verify" /\ step' = "idle"
    /\ UNCHANGED <<place, sidecar, opened, candidate, installs>>

\* The installing process dies.
InstallerDies ==
    /\ ~Idle /\ step' = "idle"
    /\ UNCHANGED <<place, sidecar, opened, candidate, installs>>

GenerationNext ==
    /\ UNCHANGED locks
    /\ \/ \E h \in Handles : OpenStore(h) \/ WriteStore(h) \/ CloseStore(h)
       \/ \E c \in Candidates : Certify(c)
       \/ MoveMain \/ MoveSidecars \/ CopyCandidate \/ ReplaceCanonical
       \/ VerifyInstalled \/ InstallerDies

GenerationSpec == GenerationInit /\ [][GenerationNext]_generationVars

-----------------------------------------------------------------------------
(* Properties *)

\* "No branch leaves canonical in a hybrid state": the -wal beside the
\* canonical file is its own, wherever an install stopped and whatever handles
\* outlived it; the frames of another lineage would be replayed into it.
NoHybrid == \A g \in Canonical : sidecar \in {None, g}

\* "The old bundle is still whole": no file that ever served is overwritten,
\* wherever an install stopped and however it was repeated.
NoneOverwritten == \A g \in Made : place[g] # Overwritten
=============================================================================
