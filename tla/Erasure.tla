------------------------------- MODULE Erasure -------------------------------
(***************************************************************************)
(* erase_history: the deletion that is not to be undone.  It deletes the   *)
(* memory, buries its event, drops the trigger that makes the event log    *)
(* append-only, redacts the payload, puts the trigger back, redacts the    *)
(* stores that quote it and records what it did, each in a commit of its   *)
(* own, and then reads everything again to say whether it is gone.         *)
(*                                                                         *)
(* An item is something that was said once: an event, and the memory a     *)
(* worker makes of it, or an input that was refused.  Its text is in no    *)
(* other item, so a needle or a subject names one item.                    *)
(***************************************************************************)
EXTENDS Naturals, FiniteSets

CONSTANTS
    Items,
    Erasers,     \* processes that erase
    NoItem,
    MaxErases,   \* bound on calls
    MaxFaults    \* bound on deaths and on writes that find the database locked

ASSUME ErasureAssumption ==
    /\ NoItem \notin Items
    /\ MaxErases \in Nat
    /\ MaxFaults \in Nat

VARIABLES
    payload,     \* what the event of an item holds
    rows,        \* items with a row in cognitive_memories
    refused,     \* rejected_inputs, by the item that was refused
    buried,      \* items with an unlifted tombstone
    queue,       \* items whose projection is owed
    reading,     \* items whose text a worker has read and not yet written
    erasures,    \* items recorded in event_erasures
    sealed,      \* the append-only trigger is there
    calls,       \* the erase each process runs
    erases,      \* calls made
    mishaps,     \* faults so far
    known,       \* history: items that had a memory, whose id may be remembered
    named,       \* history: items some erase has named
    cleaned,     \* history: items reported verified_clean
    raced        \* history: of those, the ones a worker was reading then

logVars == <<payload, sealed, erasures>>
contentVars == <<rows, refused, buried>>
workVars == <<queue, reading>>
saidVars == <<known, named, cleaned, raced>>
erasureVars == <<logVars, contentVars, workVars, calls, erases, mishaps, saidVars>>

Steps == {"forget", "bury", "trigger", "drop", "redact", "restore", "stores",
          "record", "verify", "down", "idle"}
Ways == {"memory", "old_memory", "subject", "needle"}

Call == [at: Steps, item: Items \cup {NoItem}, by: Ways, needle: BOOLEAN,
         found: SUBSET Items, holding: SUBSET Items, doomed: SUBSET Items,
         probes: BOOLEAN, trigger: BOOLEAN, failed: BOOLEAN]

NoCall == [at |-> "idle", item |-> NoItem, by |-> "memory", needle |-> FALSE,
           found |-> {}, holding |-> {}, doomed |-> {}, probes |-> FALSE,
           trigger |-> FALSE, failed |-> FALSE]

ErasureTypeOK ==
    /\ payload \in [Items -> {"none", "text", "redacted"}]
    /\ refused \in [Items -> {"none", "pending", "discarded"}]
    /\ \A s \in {rows, buried, queue, reading, erasures, known, named,
              cleaned, raced} :
           s \subseteq Items
    /\ sealed \in BOOLEAN
    /\ calls \in [Erasers -> Call]
    /\ erases \in 0..MaxErases
    /\ mishaps \in 0..MaxFaults

ErasureInit ==
    /\ payload = [i \in Items |-> "none"]
    /\ refused = [i \in Items |-> "none"]
    /\ rows = {} /\ buried = {} /\ queue = {} /\ reading = {}
    /\ erasures = {}
    /\ sealed = TRUE
    /\ calls = [p \in Erasers |-> NoCall]
    /\ erases = 0 /\ mishaps = 0
    /\ known = {} /\ named = {} /\ cleaned = {} /\ raced = {}

-----------------------------------------------------------------------------
(* What others do to the same stores. *)

Unsaid(i) == payload[i] = "none" /\ refused[i] = "none" /\ i \notin named

\* The event is appended with the projection it owes.
Observe(i) ==
    /\ Unsaid(i)
    /\ payload' = [payload EXCEPT ![i] = "text"]
    /\ queue' = queue \cup {i}
    /\ UNCHANGED <<contentVars, reading, sealed, erasures, calls, erases,
                   mishaps, saidVars>>

\* A quarantined input: the store of rejections keeps it word for word, and
\* the event, which does not, is of no interest here.
Refuse(i) ==
    /\ Unsaid(i)
    /\ refused' = [refused EXCEPT ![i] = "pending"]
    /\ UNCHANGED <<logVars, rows, buried, workVars, calls, erases, mishaps,
                   saidVars>>

\* A worker past the tombstone check has the event in memory.  It skips what
\* is buried; of a redacted payload it makes a memory without the text.
WorkerReads(i) ==
    /\ i \in queue
    /\ queue' = queue \ {i}
    /\ reading' = IF i \notin buried /\ payload[i] = "text"
                  THEN reading \cup {i} ELSE reading
    /\ UNCHANGED <<logVars, contentVars, calls, erases, mishaps, saidVars>>

WorkerWrites(i) ==
    /\ i \in reading
    /\ reading' = reading \ {i}
    /\ rows' = rows \cup {i}
    /\ known' = known \cup {i}
    /\ UNCHANGED <<logVars, refused, buried, queue, calls, erases, mishaps,
                   named, cleaned, raced>>

\* Replay and rebuild queue what has no memory and no tombstone.
Requeued(i) ==
    /\ payload[i] # "none"
    /\ i \notin buried \cup rows \cup queue \cup reading
    /\ queue' = queue \cup {i}
    /\ UNCHANGED <<logVars, contentVars, reading, calls, erases, mishaps, saidVars>>

\* Somebody forgets the item, reversibly.
Forgotten(i) ==
    /\ i \in rows
    /\ rows' = rows \ {i}
    /\ buried' = buried \cup {i}
    /\ UNCHANGED <<logVars, refused, workVars, calls, erases, mishaps, saidVars>>

Lifted(i) ==
    /\ i \in buried
    /\ buried' = buried \ {i}
    /\ UNCHANGED <<logVars, rows, refused, workVars, calls, erases, mishaps,
                   saidVars>>

\* A process opens the store, whose schema script creates what is missing.
LogOpened ==
    /\ ~sealed
    /\ sealed' = TRUE
    /\ UNCHANGED <<payload, erasures, contentVars, workVars, calls, erases,
                   mishaps, saidVars>>

-----------------------------------------------------------------------------
(* One erase_history, step by step. *)

At(p, step) == calls[p].at = step

Continue(p, step) == calls' = [calls EXCEPT ![p].at = step]

\* The memories a call names that have a row: of an old id there is none.
Hit(c) == IF c.by \in {"memory", "subject"} THEN {c.item} \cap rows ELSE {}

\* An id that was given counts as found, whether or not it has a row.
Targeted(c) == c.by \in {"memory", "old_memory"} \/ Hit(c) # {}

\* What is searched for: the needle, or else what the rows say.
Probing(c) == c.needle \/ Hit(c) # {}

\* The events of a call without targets: the ones that hold the needle, and
\* what an earlier deletion buried.  Only a memory id would narrow the latter,
\* and a call with one has targets; a subject finds none of them.
Resolved(c) ==
    IF Targeted(c) THEN Hit(c)
    ELSE {i \in Items : c.needle /\ i = c.item /\ payload[i] = "text"}
         \cup (IF c.by = "subject" THEN {} ELSE buried)

Holding(c) == {i \in Items : Probing(c) /\ i = c.item /\ refused[i] = "pending"}

\* The call, up to the end of its resolution.  One that finds nothing says so
\* and changes nothing.
Erase(p, i) ==
    /\ At(p, "idle")
    /\ erases < MaxErases
    /\ \E by \in Ways, needle \in BOOLEAN :
          LET c == [NoCall EXCEPT !.item = i, !.by = by, !.needle = needle] IN
          /\ by = "needle" => needle
          /\ by = "memory" => i \in rows
          /\ by = "old_memory" => i \in known
          /\ Targeted(c) \/ Resolved(c) \cup Holding(c) # {}
          /\ calls' = [calls EXCEPT ![p] =
                [c EXCEPT !.at = IF Targeted(c) THEN "forget" ELSE "trigger",
                          !.found = Resolved(c), !.holding = Holding(c),
                          !.probes = Probing(c)]]
    /\ erases' = erases + 1
    /\ named' = named \cup {i}
    /\ UNCHANGED <<logVars, contentVars, workVars, mishaps, known, cleaned, raced>>

\* forget_derived, whose schema script commits the deletion before any
\* tombstone is written.  It looks by itself at the rows, and in the
\* queue for events whose payload still says what is searched for.
Doomed(c) ==
    Hit(c)
    \cup {i \in queue \cup reading :
            i = c.item /\ payload[i] = "text" /\ (c.by = "subject" \/ Probing(c))}

DeleteMemory(p) ==
    LET doomed == Doomed(calls[p]) IN
    /\ At(p, "forget")
    /\ rows' = rows \ Hit(calls[p])
    /\ calls' = [calls EXCEPT ![p].at = IF doomed = {} THEN "trigger" ELSE "bury",
                              ![p].doomed = doomed]
    /\ UNCHANGED <<logVars, refused, buried, workVars, erases, mishaps, saidVars>>

Bury(p) ==
    /\ At(p, "bury")
    /\ buried' = buried \cup calls[p].doomed
    /\ Continue(p, "trigger")
    /\ UNCHANGED <<logVars, rows, refused, workVars, erases, mishaps, saidVars>>

\* Is there a trigger to drop, and to restore afterwards?
ReadTrigger(p) ==
    /\ At(p, "trigger")
    /\ calls' = [calls EXCEPT
            ![p].at = IF calls[p].found = {} THEN "stores"
                      ELSE IF sealed THEN "drop" ELSE "redact",
            ![p].trigger = sealed]
    /\ UNCHANGED <<logVars, contentVars, workVars, erases, mishaps, saidVars>>

DropTrigger(p) ==
    /\ At(p, "drop")
    /\ sealed' = FALSE
    /\ Continue(p, "redact")
    /\ UNCHANGED <<payload, erasures, contentVars, workVars, erases, mishaps, saidVars>>

\* All payloads in one transaction.
Redact(p) ==
    /\ At(p, "redact")
    /\ ~sealed
    /\ payload' = [i \in Items |->
            IF i \in calls[p].found THEN "redacted" ELSE payload[i]]
    /\ Continue(p, "restore")
    /\ UNCHANGED <<sealed, erasures, contentVars, workVars, erases, mishaps, saidVars>>

\* The trigger is back, put there by another process, and refuses the update;
\* or the database stays locked.  The error is raised after the trigger has
\* been seen to.
RedactRaises(p) ==
    /\ At(p, "redact")
    /\ \/ sealed /\ UNCHANGED mishaps
       \/ ~sealed /\ mishaps < MaxFaults /\ mishaps' = mishaps + 1
    /\ calls' = [calls EXCEPT ![p].at = "restore", ![p].failed = TRUE]
    /\ UNCHANGED <<logVars, contentVars, workVars, erases, saidVars>>

\* Mutant: the trigger is restored after the update, and not in a finally.
Restored(c) == IF c.failed THEN sealed ELSE sealed \/ c.trigger

\* CREATE TRIGGER, which raises when the trigger is there already.
PutBack(c) == sealed \/ c.trigger

RestoreTrigger(p) ==
    LET c == calls[p] IN
    /\ At(p, "restore")
    /\ sealed' = PutBack(c)
    /\ IF c.failed \/ (sealed /\ c.trigger)
       THEN calls' = [calls EXCEPT ![p] = NoCall]
       ELSE Continue(p, "stores")
    /\ UNCHANGED <<payload, erasures, contentVars, workVars, erases, mishaps, saidVars>>

\* The database is locked now: the error leaves the log open, until the store
\* is opened again.
RestoreRaises(p) ==
    /\ At(p, "restore")
    /\ ~sealed
    /\ mishaps < MaxFaults
    /\ mishaps' = mishaps + 1
    /\ calls' = [calls EXCEPT ![p] = [NoCall EXCEPT !.at = "down"]]
    /\ UNCHANGED <<logVars, contentVars, workVars, erases, saidVars>>

\* The rejections found at the start; what is redacted can never be replayed
\* and is closed.
RedactStores(p) ==
    /\ At(p, "stores")
    /\ refused' = [i \in Items |->
            IF i \in calls[p].holding THEN "discarded" ELSE refused[i]]
    /\ Continue(p, "record")
    /\ UNCHANGED <<logVars, rows, buried, workVars, erases, mishaps, saidVars>>

RecordErasure(p) ==
    /\ At(p, "record")
    /\ erasures' = erasures \cup calls[p].found
    /\ Continue(p, "verify")
    /\ UNCHANGED <<payload, sealed, contentVars, workVars, erases, mishaps, saidVars>>

\* Mutant: the event log is not searched for what should be gone.
ResidueOfStores(i) == i \in rows \/ refused[i] = "pending"

\* Where the text of an item still is.
Residue(i) == i \in rows \/ refused[i] = "pending" \/ payload[i] = "text"

\* Clean is said only of what was searched for and not found.
Verify(p) ==
    LET c == calls[p]
        clean == c.probes /\ ~Residue(c.item) IN
    /\ At(p, "verify")
    /\ cleaned' = IF clean THEN cleaned \cup {c.item} ELSE cleaned
    /\ raced' = IF clean THEN raced \cup ({c.item} \cap reading) ELSE raced
    /\ calls' = [calls EXCEPT ![p] = NoCall]
    /\ UNCHANGED <<logVars, contentVars, workVars, erases, mishaps, known, named>>

\* The process dies, and opens the store when it comes back.
EraserDies(p) ==
    /\ calls[p].at \notin {"idle", "down"}
    /\ mishaps < MaxFaults
    /\ mishaps' = mishaps + 1
    /\ calls' = [calls EXCEPT ![p] = [NoCall EXCEPT !.at = "down"]]
    /\ UNCHANGED <<logVars, contentVars, workVars, erases, saidVars>>

EraserRestarts(p) ==
    /\ At(p, "down")
    /\ sealed' = TRUE
    /\ Continue(p, "idle")
    /\ UNCHANGED <<payload, erasures, contentVars, workVars, erases, mishaps, saidVars>>

EraserStep(p) ==
    \/ \E i \in Items : Erase(p, i)
    \/ DeleteMemory(p)
    \/ Bury(p)
    \/ ReadTrigger(p)
    \/ DropTrigger(p)
    \/ Redact(p)
    \/ RedactRaises(p)
    \/ RestoreTrigger(p)
    \/ RestoreRaises(p)
    \/ RedactStores(p)
    \/ RecordErasure(p)
    \/ Verify(p)
    \/ EraserDies(p)
    \/ EraserRestarts(p)

OtherStep(i) ==
    \/ Observe(i)
    \/ Refuse(i)
    \/ WorkerReads(i)
    \/ WorkerWrites(i)
    \/ Requeued(i)
    \/ Forgotten(i)
    \/ Lifted(i)

ErasureNext ==
    \/ \E p \in Erasers : EraserStep(p)
    \/ \E i \in Items : OtherStep(i)
    \/ LogOpened

ErasureSpec == ErasureInit /\ [][ErasureNext]_erasureVars

-----------------------------------------------------------------------------
\* The event log can be rewritten only while an erase has it open, or from the
\* death of one, or its failure to restore the trigger, until the store is
\* opened again; whatever raises, whoever else erases or opens the store ("a
\* crash mid-way that left the log writable would be a far worse outcome than a
\* failed erasure").
LogSealed ==
    sealed \/ \E p \in Erasers : calls[p].at \in {"redact", "restore", "down"}

\* What an erase has reported clean does not come back, from a replay, a lift
\* or another deletion, unless a worker had the text in hand at that moment.
CleanStaysGone == \A i \in cleaned \ raced : ~Residue(i)

\* An event is redacted only if some erase has named it.  The code breaks
\* this: a call that gives a needle only redacts all that is buried.
OnlyNamedRedacted == \A i \in Items : payload[i] = "redacted" => i \in named

\* An erase by the id of a memory that was forgotten before finds its event.
\* The code breaks this: an id counts as a target whether or not it has a row,
\* and the tombstones, which lead to the event, are looked at without one only.
ForgottenIsFound ==
    [][\A p \in Erasers : LET c == calls'[p] IN
          At(p, "idle") /\ c.by = "old_memory" /\ c.item \in buried
              => c.item \in c.found]_erasureVars
=============================================================================
