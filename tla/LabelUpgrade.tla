---------------------------- MODULE LabelUpgrade ----------------------------
(***************************************************************************)
(* background_jobs/label_upgrader.py beside the write path.  The write     *)
(* path leaves a cheap label that is pending; an upgrader reads the oldest *)
(* of them, asks a model with no transaction open, and commits what came   *)
(* back.  Several upgraders may run, and rows go while the model is asked. *)
(***************************************************************************)
EXTENDS Integers, SequencesExt

CONSTANTS
    Labels,      \* rows of hippocampus_labels
    Upgraders,   \* processes that run drain()
    BatchLimit,  \* rows asked about in one call
    Unlabelable, \* rows whose label never passes the range check
    MaxRebuilds  \* bound: projections reset and built again

ASSUME UpgradeAssumption ==
    /\ Unlabelable \subseteq Labels
    /\ {"none", "cheap", "gone"} \cap Upgraders = {}
    /\ BatchLimit \in Nat /\ MaxRebuilds \in Nat
    /\ Cardinality(Unlabelable) < BatchLimit

VARIABLES
    label,     \* row -> "none", "cheap", "gone" or the upgrader that labelled it
    backlog,   \* rows with label_pending, by created_at
    batch,     \* upgrader -> the rows it has asked the model about
    rebuilds

upgradeVars == <<label, backlog, batch, rebuilds>>

UpgradeTypeOK ==
    /\ label \in [Labels -> {"none", "cheap", "gone"} \cup Upgraders]
    /\ backlog \in Seq(Labels)
    /\ ToSet(backlog) = {r \in Labels : label[r] = "cheap"}
    /\ Len(backlog) = Cardinality(ToSet(backlog))
    /\ batch \in [Upgraders -> Seq(Labels)]
    /\ \A u \in Upgraders : Len(batch[u]) <= BatchLimit
    /\ rebuilds \in 0 .. MaxRebuilds

UpgradeInit ==
    /\ label = [r \in Labels |-> "none"]
    /\ backlog = <<>>
    /\ batch = [u \in Upgraders |-> <<>>]
    /\ rebuilds = 0

-----------------------------------------------------------------------------
\* The rows of a queue that are not among some rows, in the order of the queue:
\* as far as its n-th row.
Dropping(line, rows) ==
    LET kept[n \in 0 .. Len(line)] ==
            IF n = 0 THEN <<>>
            ELSE IF line[n] \in rows THEN kept[n - 1]
            ELSE Append(kept[n - 1], line[n])
    IN  kept

Without(rows) == Dropping(backlog, rows)[Len(backlog)]

\* The write path, in the transaction of the projection.
LabelCheaply(r) ==
    /\ label[r] = "none"
    /\ label' = [label EXCEPT ![r] = "cheap"]
    /\ backlog' = Append(backlog, r)
    /\ UNCHANGED <<batch, rebuilds>>

\* A forget deletes the row.
ForgetLabel(r) ==
    /\ label[r] \notin {"none", "gone"}
    /\ label' = [label EXCEPT ![r] = "gone"]
    /\ backlog' = Without({r})
    /\ UNCHANGED <<batch, rebuilds>>

\* A rebuild deletes the projection and its label; the worker builds it again.
ResetLabel(r) ==
    /\ label[r] \notin {"none", "gone"} /\ rebuilds < MaxRebuilds
    /\ rebuilds' = rebuilds + 1
    /\ label' = [label EXCEPT ![r] = "none"]
    /\ backlog' = Without({r})
    /\ UNCHANGED batch

\* pending(limit): oldest first.
OldestPending == SubSeq(backlog, 1, IF Len(backlog) < BatchLimit THEN Len(backlog) ELSE BatchLimit)

AskModel(u) ==
    /\ batch[u] = <<>> /\ backlog # <<>>
    /\ batch' = [batch EXCEPT ![u] = OldestPending]
    /\ UNCHANGED <<label, backlog, rebuilds>>

\* Mutant: the update does not look at label_source.
UpgradableAny(u, n) ==
    {r \in ToSet(SubSeq(batch[u], 1, n)) \ Unlabelable : label[r] \notin {"none", "gone"}}

\* Mutant: one label out of range discards the batch.
UpgradableWhole(u, n) ==
    {r \in ToSet(SubSeq(batch[u], 1, n)) :
        label[r] = "cheap" /\ ToSet(batch[u]) \cap Unlabelable = {}}

\* The rows of a batch that the first n labels of the answer change.
Upgradable(u, n) ==
    {r \in ToSet(SubSeq(batch[u], 1, n)) \ Unlabelable : label[r] = "cheap"}

CommitLabels(u, n) ==
    /\ label' = [r \in Labels |-> IF r \in Upgradable(u, n) THEN u ELSE label[r]]
    /\ backlog' = Without(Upgradable(u, n))
    /\ batch' = [batch EXCEPT ![u] = <<>>]
    /\ UNCHANGED rebuilds

\* Paired by index: a short answer labels a prefix, and a long one is cut.
Answer(u) == batch[u] # <<>> /\ CommitLabels(u, Len(batch[u]))
AnswerShort(u) == \E n \in 1 .. Len(batch[u]) - 1 : CommitLabels(u, n)

\* A timeout or a dead backend: every row of the batch stays pending.  So it
\* is when the process dies.
NoAnswer(u) == batch[u] # <<>> /\ CommitLabels(u, 0)

UpgradeNext ==
    \/ \E r \in Labels : LabelCheaply(r) \/ ForgetLabel(r) \/ ResetLabel(r)
    \/ \E u \in Upgraders :
          AskModel(u) \/ Answer(u) \/ AnswerShort(u) \/ NoAnswer(u)

UpgradeSpec == UpgradeInit /\ [][UpgradeNext]_upgradeVars

\* drain() is run again and again, a call ends, and the model answers now and
\* then in full.
UpgradeFairness ==
    \A u \in Upgraders :
        /\ WF_upgradeVars(AskModel(u))
        /\ SF_upgradeVars(Answer(u))

-----------------------------------------------------------------------------
(* Properties *)

\* "Never overwrite a good label": once a model has labelled a row no answer
\* replaces the label, however many upgraders asked about the row.
GoodLabelKept ==
    [][\A r \in Labels :
         label[r] \in Upgraders =>
            label'[r] = label[r] \/ label'[r] \in {"gone", "none"}]_upgradeVars

\* "The backlog drains": a row that can be labelled is, although failed rows
\* stay at the head of the queue, as long as they do not fill a batch.
BacklogDrains == []<>(\A r \in Labels \ Unlabelable : label[r] # "cheap")
=============================================================================
