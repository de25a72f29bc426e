------------------------------ MODULE Forgetting ------------------------------
(***************************************************************************)
(* Deletion against a running queue: forget_derived (cognitive/forgetting),*)
(* the tombstones it leaves and their lifting (cognitive/tombstones), and  *)
(* the replay engine that requeues what is owed (cognitive/                *)
(* projection_engine), composed with the workers that drain the outbox.    *)
(*                                                                         *)
(* forget_derived runs no transaction of its own: it reads the serving     *)
(* layer, then the queue, then deletes, and place() creates its table with *)
(* executescript(), which commits the deletion before the tombstones are   *)
(* written.  Each of these is a step.                                      *)
(***************************************************************************)
EXTENDS ReconciliationWorker

CONSTANTS
    Memory,      \* the type whose rows are cognitive_memories
    Subject,     \* events whose content a forget of the subject matches
    MaxForgets,  \* bound: calls of forget_derived
    MaxReplays,  \* bound: calls of replay() and rebuild_version()
    MaxDeaths    \* bound: crashes in the middle of a forget

ASSUME ForgettingAssumption ==
    /\ Memory \in Types
    /\ Subject \subseteq Events
    /\ {MaxForgets, MaxReplays, MaxDeaths} \subseteq Nat

VARIABLES
    fpc,      \* where forget_derived is
    targets,  \* memory rows it resolved, per event
    doomed,   \* event_ids: what it will bury
    plan,     \* candidates the replay engine has yet to act on
    rpc,      \* where the replay engine is
    lifted,   \* events whose tombstone was lifted, not buried since
    late,     \* history: <<worker, job>> past the check when the event was buried
    reach,    \* history: events this forget found stored or queued as it began
    forgets, replays, deaths

forgetVars == <<fpc, targets, doomed, plan, rpc, lifted, late, reach,
                forgets, replays, deaths>>

allVars == <<vars, forgetVars>>

ForgetTypeOK ==
    /\ TypeOK
    /\ fpc \in {"idle", "queue", "delete", "bury"}
    /\ targets \in [Events -> Nat]
    /\ doomed \subseteq Subject
    /\ plan \subseteq [job : Jobs, how : {"enqueue", "reset", "rebuild"}]
    /\ rpc \in {"idle", "filter", "act"}
    /\ lifted \subseteq Events \ tombstones
    /\ late \subseteq Workers \X Jobs
    /\ reach \subseteq Subject
    /\ forgets \in 0..MaxForgets
    /\ replays \in 0..MaxReplays
    /\ deaths \in 0..MaxDeaths

ForgetInit ==
    /\ Init
    /\ fpc = "idle"
    /\ targets = [e \in Events |-> 0]
    /\ doomed = {}
    /\ plan = {}
    /\ rpc = "idle"
    /\ lifted = {}
    /\ late = {}
    /\ reach = {}
    /\ forgets = 0
    /\ replays = 0
    /\ deaths = 0

-----------------------------------------------------------------------------
(* forget_derived(subject) *)

Rows(e) == copies[<<e, Memory>>]

\* A projection of this event has yet to be written.
InFlight(e) ==
    \E type \in Types :
        jobs[<<e, type>>].status \in {"pending", "in_progress", "dead_letter"}

\* _resolve: what the serving layer shows now.
Resolve ==
    /\ fpc = "idle"
    /\ forgets < MaxForgets
    /\ forgets' = forgets + 1
    /\ targets' = [e \in Events |-> IF e \in Subject THEN Rows(e) ELSE 0]
    /\ reach' = {e \in Subject : Rows(e) > 0 \/ InFlight(e)}
    /\ fpc' = "queue"
    /\ UNCHANGED <<vars, doomed, plan, rpc, lifted, late, replays, deaths>>

\* _events_awaiting_projection, and the events behind the resolved rows.
ReadQueue ==
    LET ids == {e \in Subject : targets[e] > 0 \/ InFlight(e)}
    IN  /\ fpc = "queue"
        /\ doomed' = ids
        /\ fpc' = IF ids = {} THEN "idle" ELSE "delete"
        /\ UNCHANGED <<vars, targets, plan, rpc, lifted, late, reach,
                       forgets, replays, deaths>>

\* The resolved rows go, and what is derived from the events with them.
Deleted(j) ==
    CASE j[1] \notin doomed                             -> copies[j]
      [] j[1] \in doomed /\ j[2] = Memory               -> copies[j] - targets[j[1]]
      [] j[1] \in doomed /\ j[2] \in Upserts \ {Memory} -> 0
      [] OTHER                                          -> copies[j]

DeleteRows ==
    /\ fpc = "delete"
    /\ writer = Nobody
    /\ copies' = [j \in Jobs |-> Deleted(j)]
    /\ fpc' = "bury"
    /\ UNCHANGED <<events, owed, jobs, ledger, tombstones, writer, append, workerVars>>
    /\ UNCHANGED <<targets, doomed, plan, rpc, lifted, late, reach,
                   forgets, replays, deaths>>

\* The workers past their tombstone check with a job of these events.
PastCheck(ids) ==
    {<<w, cur[w]>> : w \in {v \in Workers :
        /\ pc[v] \in {"dependency", "build", "write", "late_write", "commit"}
        /\ cur[v][1] \in ids}}

PlaceTombstones ==
    /\ fpc = "bury"
    /\ writer = Nobody
    /\ tombstones' = tombstones \cup doomed
    /\ lifted' = lifted \ doomed
    /\ late' = late \cup PastCheck(doomed)
    /\ fpc' = "idle"
    /\ UNCHANGED <<events, owed, jobs, ledger, copies, writer, append, workerVars>>
    /\ UNCHANGED <<targets, doomed, plan, rpc, reach, forgets, replays, deaths>>

ForgetDies ==
    /\ fpc # "idle"
    /\ deaths < MaxDeaths
    /\ deaths' = deaths + 1
    /\ fpc' = "idle"
    /\ UNCHANGED <<vars, targets, doomed, plan, rpc, lifted, late, reach,
                   forgets, replays>>

Lift(e) ==
    /\ e \in tombstones
    /\ writer = Nobody
    /\ tombstones' = tombstones \ {e}
    /\ lifted' = lifted \cup {e}
    /\ late' = {one \in late : one[2][1] # e}
    /\ UNCHANGED <<events, owed, jobs, ledger, copies, writer, append, workerVars>>
    /\ UNCHANGED <<fpc, targets, doomed, plan, rpc, reach, forgets, replays, deaths>>

-----------------------------------------------------------------------------
(* The replay engine.  A stall between any two of these steps is a crash. *)

\* scan(): why this job is owed, if it is.
Missing(j) == j[2] = Memory /\ jobs[j].status = "absent"
Owed(j) ==
    \/ jobs[j].status \in {"pending", "dead_letter"}
    \/ Expired(j)

\* One row per candidate that replay() may act on, tombstones aside.
Candidates ==
    LET actionable == {j \in events \X Replayable : Ready(j)}
    IN  [job : {j \in actionable : Missing(j)}, how : {"enqueue"}]
        \cup [job : {j \in actionable : Owed(j)}, how : {"reset"}]

forgettingVars == <<fpc, targets, doomed, lifted, late, reach, forgets, deaths>>

Scan ==
    /\ rpc = "idle"
    /\ replays < MaxReplays
    /\ replays' = replays + 1
    /\ plan' = Candidates
    /\ rpc' = "filter"
    /\ UNCHANGED <<vars, forgettingVars>>

\* buried_among: the tombstones are read once, after the scan.
FilterBuried ==
    /\ rpc = "filter"
    /\ plan' = {c \in plan : c.job[1] \notin tombstones}
    /\ rpc' = "act"
    /\ UNCHANGED <<vars, replays, forgettingVars>>

\* rebuild_version(type) reads them before it walks the log.
Rebuild(type) ==
    /\ rpc = "idle"
    /\ replays < MaxReplays
    /\ replays' = replays + 1
    /\ plan' = [job : (events \ tombstones) \X ({type} \cap Replayable),
                how : {"rebuild"}]
    /\ rpc' = "act"
    /\ UNCHANGED <<vars, forgettingVars>>

\* enqueue() leaves an existing row alone; _reset() resets it whatever it is;
\* a rebuild looks at the dependencies when it reaches the row.
Requeued(c) ==
    CASE c.how = "reset"                        -> [jobs EXCEPT ![c.job] = Fresh]
      [] c.how = "rebuild" /\ ~Ready(c.job)     -> jobs
      [] OTHER                                  -> Enqueued(c.job[1], {c.job[2]})

Requeue(c) ==
    /\ rpc = "act"
    /\ c \in plan
    /\ writer = Nobody
    /\ plan' = plan \ {c}
    /\ jobs' = Requeued(c)
    /\ UNCHANGED <<events, owed, ledger, copies, tombstones, writer, append>>
    /\ UNCHANGED <<workerVars, rpc, replays, forgettingVars>>

ReplayReturns ==
    /\ rpc = "act"
    /\ plan = {}
    /\ rpc' = "idle"
    /\ UNCHANGED <<vars, plan, replays, forgettingVars>>

-----------------------------------------------------------------------------
Queue == Next /\ UNCHANGED forgetVars

Forget ==
    \/ Resolve
    \/ ReadQueue
    \/ DeleteRows
    \/ PlaceTombstones

ForgetNext ==
    \/ Queue
    \/ Forget
    \/ ForgetDies
    \/ \E e \in Events : Lift(e)
    \/ Scan
    \/ FilterBuried
    \/ \E type \in Types : Rebuild(type)
    \/ \E c \in plan : Requeue(c)
    \/ ReplayReturns

ForgetSpec == ForgetInit /\ [][ForgetNext]_allVars

\* The workers, the clock and the client as in ReconciliationWorker.  Nobody
\* has to call forget_derived, lift() or replay().
ForgetFairSpec ==
    /\ ForgetSpec
    /\ \A w \in Workers : WF_allVars(WorkerStep(w) /\ UNCHANGED forgetVars)
    /\ \A j \in Jobs : WF_allVars(TimePasses(j) /\ UNCHANGED forgetVars)

-----------------------------------------------------------------------------
(* Properties. *)

\* The two checks of the tombstone (at enqueue and at apply) leave one window
\* and no other: what is buried is written again only by a worker that was
\* itself past its check when the tombstone landed.  A replay that planned
\* its requeue before the burial, a lease that expires, a crash and a retry
\* do not reopen it.
OnlyLateWrites ==
    [][\A j \in Jobs :
          /\ j[1] \in tombstones
          /\ j[1] \in tombstones'
          /\ copies'[j] > copies[j]
          => \E w \in Workers : <<w, j>> \in late /\ cur[w] = j /\ pc[w] = "commit"]_allVars

\* What is buried stays gone.
BuriedStaysGone ==
    [][\A e \in tombstones \cap tombstones' :
          copies'[<<e, Memory>>] <= copies[<<e, Memory>>]]_allVars

\* A forget that runs to its end buries every event of the subject that was
\* stored or queued when it began, although the memory may move from the
\* queue to the serving layer while it looks.
ForgetReaches ==
    [][fpc # "idle" /\ fpc' = "idle" /\ deaths' = deaths
          => reach \subseteq tombstones']_allVars

\* Once its tombstone is lifted, a memory that is gone can be had again: its
\* projection is queued, or a replay would queue it.
LiftedIsRestorable ==
    \A e \in lifted : LET j == <<e, Memory>> IN
        copies[j] = 0 => Unsettled(j) \/ Missing(j) \/ Owed(j)

\* A buried event leaves the queue: its jobs do not cycle through leases for
\* ever, so a drain can reach zero on a store that has deleted something.
BuriedSettles ==
    \A j \in Jobs :
        Unsettled(j) /\ j[1] \in tombstones ~>
            ~Unsettled(j) \/ j[1] \notin tombstones
=============================================================================
