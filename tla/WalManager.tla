------------------------------ MODULE WalManager ------------------------------
(***************************************************************************)
(* The checkpoint policy of cognitive/wal.py: WALCheckpointManager beside  *)
(* writers and read snapshots.  Sizes are in frames.  SQLite is external,  *)
(* as the manager uses it: PASSIVE copies frames back and never shrinks    *)
(* the file, TRUNCATE empties it unless a snapshot is open, and a writer   *)
(* starts the log over once every frame is copied and nobody reads.        *)
(***************************************************************************)
EXTENDS Integers

CONSTANTS
    ResumeAt, Soft, Hard,  \* resume_threshold_bytes, soft_, hard_limit_bytes
    Readers,             \* read snapshots of this process or of others
    Hidden,              \* those nobody registers with note_reader
    MaxAppends,          \* bound: frames written
    MaxReads,            \* bound: snapshots opened
    MaxRestarts          \* bound: deaths of the process of the manager

ASSUME WalAssumption ==
    /\ {ResumeAt, Soft, Hard, MaxAppends, MaxReads, MaxRestarts} \subseteq Nat
    /\ 0 < ResumeAt /\ ResumeAt < Soft /\ Soft <= Hard
    /\ Hidden \subseteq Readers

VARIABLES
    logSize,     \* the -wal file, which only TRUNCATE shrinks
    frames,      \* frames of the log since it last started over
    backfilled,  \* those copied back into the database
    reading,     \* snapshots that are open
    registry,    \* the manager's _readers
    wstate,      \* WALState
    cooling,     \* a TRUNCATE was attempted within the cooldown
    mpc,         \* where maybe_checkpoint is
    appends, reads, restarts

walVars == <<logSize, frames, backfilled, reading, registry, wstate, cooling,
             mpc, appends, reads, restarts>>
logVars == <<logSize, frames, backfilled>>
policyVars == <<wstate, cooling, mpc>>

WalTypeOK ==
    /\ {logSize, frames, backfilled, appends} \subseteq 0..MaxAppends
    /\ backfilled <= frames /\ frames <= logSize
    /\ reading \subseteq Readers
    /\ registry \subseteq Readers \ Hidden
    /\ wstate \in {"normal", "pressure", "critical"}
    /\ cooling \in BOOLEAN
    /\ mpc \in {"idle", "passive", "readers", "truncate"}
    /\ reads \in 0..MaxReads
    /\ restarts \in 0..MaxRestarts

WalInit ==
    /\ logSize = 0 /\ frames = 0 /\ backfilled = 0
    /\ reading = {} /\ registry = {}
    /\ wstate = "normal"
    /\ cooling = FALSE
    /\ mpc = "idle"
    /\ appends = 0 /\ reads = 0 /\ restarts = 0

-----------------------------------------------------------------------------
(* SQLite: writers and snapshots. *)

AppendFrame ==
    /\ appends < MaxAppends
    /\ appends' = appends + 1
    /\ IF backfilled = frames /\ reading = {}
       THEN frames' = 1 /\ backfilled' = 0
       ELSE frames' = frames + 1 /\ backfilled' = backfilled
    /\ logSize' = IF frames' > logSize THEN frames' ELSE logSize
    /\ UNCHANGED <<reading, registry, policyVars, reads, restarts>>

\* reading(): registered before the snapshot opens.
NoteReader(r) ==
    /\ r \notin Hidden \cup registry
    /\ reads < MaxReads
    /\ reads' = reads + 1
    /\ registry' = registry \cup {r}
    /\ UNCHANGED <<logVars, reading, policyVars, appends, restarts>>

OpenSnapshot(r) ==
    /\ r \notin reading
    /\ \/ r \in registry /\ UNCHANGED reads
       \/ r \in Hidden /\ reads < MaxReads /\ reads' = reads + 1
    /\ reading' = reading \cup {r}
    /\ UNCHANGED <<logVars, registry, policyVars, appends, restarts>>

\* Mutant: the registration outlives a read that raises.
CloseSnapshotRaises(r) ==
    /\ r \in reading
    /\ reading' = reading \ {r}
    /\ UNCHANGED <<logVars, registry, policyVars, appends, reads, restarts>>

\* The read ends or raises; either way its registration goes with it.
CloseSnapshot(r) ==
    /\ r \in reading
    /\ reading' = reading \ {r}
    /\ registry' = registry \ {r}
    /\ UNCHANGED <<logVars, policyVars, appends, reads, restarts>>

-----------------------------------------------------------------------------
(* maybe_checkpoint(), on its schedule. *)

\* _advance_state: between resume and soft the state is held.
Advanced(size) ==
    IF size >= Hard THEN "critical"
    ELSE IF size < ResumeAt THEN "normal"
    ELSE IF wstate = "normal" /\ size >= Soft THEN "pressure"
    ELSE wstate

ObserveLog ==
    /\ mpc = "idle"
    /\ wstate' = Advanced(logSize)
    /\ mpc' = IF wstate' = "normal" \/ cooling THEN "passive" ELSE "readers"
    /\ UNCHANGED <<logVars, reading, registry, cooling, appends, reads, restarts>>

\* A registered reader defers the attempt, and starts no cooldown.
LookForReaders ==
    /\ mpc = "readers"
    /\ IF registry # {}
       THEN mpc' = "passive" /\ UNCHANGED cooling
       ELSE mpc' = "truncate" /\ cooling' = TRUE
    /\ UNCHANGED <<logVars, reading, registry, wstate, appends, reads, restarts>>

Passive ==
    /\ mpc = "passive"
    /\ mpc' = "idle"
    /\ \E n \in backfilled..frames :
          /\ reading = {} => n = frames
          /\ backfilled' = n
    /\ UNCHANGED <<logSize, frames, reading, registry, wstate, cooling,
                   appends, reads, restarts>>

\* Busy after its budget when a snapshot is open.
Truncate ==
    /\ mpc = "truncate"
    /\ mpc' = "idle"
    /\ IF reading = {}
       THEN logSize' = 0 /\ frames' = 0 /\ backfilled' = 0
       ELSE UNCHANGED logVars
    /\ UNCHANGED <<reading, registry, wstate, cooling, appends, reads, restarts>>

MaybeCheckpoint == ObserveLog \/ LookForReaders \/ Passive \/ Truncate

CoolsDown ==
    /\ cooling
    /\ cooling' = FALSE
    /\ UNCHANGED <<logVars, reading, registry, wstate, mpc, appends,
                   reads, restarts>>

\* The process of the manager dies, its registered readers with it, and a
\* new one begins from nothing but the file.
ManagerRestarts ==
    /\ restarts < MaxRestarts
    /\ restarts' = restarts + 1
    /\ wstate' = "normal" /\ cooling' = FALSE /\ mpc' = "idle"
    /\ reading' = reading \ registry
    /\ registry' = {}
    /\ UNCHANGED <<logVars, appends, reads>>

WalNext ==
    \/ AppendFrame
    \/ \E r \in Readers : NoteReader(r) \/ OpenSnapshot(r) \/ CloseSnapshot(r)
    \/ MaybeCheckpoint
    \/ CoolsDown
    \/ ManagerRestarts

WalSpec == WalInit /\ [][WalNext]_walVars

\* The schedule goes on and reads end; nobody is obliged to write.
WalFairness ==
    /\ WF_walVars(MaybeCheckpoint)
    /\ WF_walVars(CoolsDown)
    /\ \A r \in Readers : WF_walVars(r \in registry /\ OpenSnapshot(r))
    /\ \A r \in Readers : WF_walVars(CloseSnapshot(r))

-----------------------------------------------------------------------------
(* Properties. *)

\* Downward force: once writers pause, the file ends below the soft limit,
\* whatever readers came and went, however large it had grown, and also when
\* the manager was restarted in the middle of its campaign; and the campaign
\* ends: the state the harness throttles on does not stay raised over it.
LogComesBack == <>[](logSize < Soft /\ wstate = "normal")
=============================================================================
