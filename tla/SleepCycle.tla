----------------------------- MODULE SleepCycle -----------------------------
(***************************************************************************)
(* The sleep cycle of the runtime memory (background_jobs/hippocampus.py,  *)
(* background_jobs/garbage_collector.py and memory/l1_working.py).         *)
(*                                                                         *)
(* An observation enters working memory with a placeholder label that      *)
(* costs no model call.  Each night the garbage collector ages every entry *)
(* and cuts what is past its TTL and too light; then consolidation asks    *)
(* the model for the missing labels, compiles the entries past their TTL   *)
(* and stores what it compiled in semantic memory.  Every use of the model *)
(* is an await: new observations arrive there, and the call may fail.  The *)
(* request for a human's approval, the mark that an entry is consolidated  *)
(* and the store are commits of their own: each may fail, and the process  *)
(* may die between any two.                                                *)
(* One process and one thread, as the SDK and the CLI run it.              *)
(***************************************************************************)
EXTENDS Integers, FiniteSets, Functions

CONSTANTS
    Entries,        \* observations
    Worth,          \* the grade the model gives each of them when it answers
    Cheap,          \* the grade the write path guesses
    Ttl,            \* nights an entry is kept whatever its label
    MaxEntries,     \* capacity of working memory
    MaxOutages,     \* bound: model calls that fail or answer short
    MaxSetbacks     \* bound: writes that fail and deaths of the process

Grades == {"junk", "middling", "high"}

ASSUME SleepAssumption ==
    /\ IsFiniteSet(Entries)
    /\ Worth \in [Entries -> Grades] /\ Cheap \in [Entries -> Grades]
    /\ Ttl \in Nat /\ MaxEntries \in Nat \ {0}
    /\ MaxOutages \in Nat /\ MaxSetbacks \in Nat

VARIABLES
    l1,   \* entry -> [pending, nights, status]; a partial function
    fate,      \* entry -> "new", "held", "pruned" by the collector, or "lost"
    stored,    \* entries whose compiled memories are in semantic memory
    asked,     \* entry -> turns that put a new request before a human, since a
               \* turn was last cut short before the entry was marked
    sleeper,   \* [at, queue, entry] of the sleep in progress
    outages, setbacks

sleepVars == <<l1, fate, stored, asked, sleeper, outages, setbacks>>

Rows == [pending: BOOLEAN, nights: 0 .. Ttl + 5 + MaxSetbacks, status: {"raw", "encoded"}]
\* The turn of an entry: the gate and the request, then mark and store, where it
\* is not promoted; reconciling, then store and mark, where it is.
Turns == {"shelve", "keep", "reconcile", "mark"}
Unmarked == {"shelve", "reconcile", "mark"}
NoEntry == "none"
Awake == [at |-> "awake", queue |-> {}, entry |-> NoEntry]

SleepTypeOK ==
    /\ DOMAIN l1 \subseteq Entries
    /\ \A e \in DOMAIN l1 : l1[e] \in Rows
    /\ fate \in [Entries -> {"new", "held", "pruned", "lost"}]
    /\ \A e \in Entries : e \in DOMAIN l1 <=> fate[e] = "held"
    /\ Cardinality(DOMAIN l1) <= MaxEntries
    /\ stored \subseteq Entries
    /\ asked \in [Entries -> Nat]
    /\ sleeper \in [at: {"awake", "prune", "label", "compile"} \cup Turns,
                    queue: SUBSET Entries, entry: Entries \cup {NoEntry}]
    /\ outages \in 0 .. MaxOutages /\ setbacks \in 0 .. MaxSetbacks

SleepInit ==
    /\ l1 = [e \in {} |-> 0]
    /\ fate = [e \in Entries |-> "new"]
    /\ stored = {} /\ asked = [e \in Entries |-> 0]
    /\ sleeper = Awake
    /\ outages = 0 /\ setbacks = 0

-----------------------------------------------------------------------------
Grade(e) == IF l1[e].pending THEN Cheap[e] ELSE Worth[e]
Raw == {e \in DOMAIN l1 : l1[e].status = "raw"}
Pending == {e \in DOMAIN l1 : l1[e].pending}

\* Nights past the TTL during which importance * exp(-0.3 * nights) >= 3:
\* junk is cut at once, importance 5 lasts one night and importance 10 four.
Lasting(grade) ==
    CASE grade = "junk" -> 0 [] grade = "middling" -> 1 [] grade = "high" -> 4

\* Mutant: entries are cut as soon as their TTL is over.
ForgettableAtTtl(e) == l1[e].nights > Ttl
Forgettable(e) == l1[e].nights > Ttl + Lasting(Grade(e))

\* l1.get_survivors: raw and past the TTL.
Survivors == {e \in Raw : l1[e].nights > Ttl}

\* Mutant: nothing is dropped.
KeptAll(rows) == {DOMAIN rows}
\* What _trim_overflow may keep: raw entries are dropped before encoded ones,
\* and among the raw the choice is by attention, which is left open.
Kept(rows) ==
    IF Cardinality(DOMAIN rows) <= MaxEntries THEN {DOMAIN rows}
    ELSE {K \in SUBSET DOMAIN rows :
            /\ Cardinality(K) = MaxEntries
            /\ (\E e \in DOMAIN rows \ K : rows[e].status = "encoded")
                 => \A e \in K : rows[e].status = "encoded"}

\* The sleep awaits the model: to label what is pending, to compile an entry or
\* to relate its rule to another.
Awaiting ==
    \/ sleeper.at = "label" /\ sleeper.queue # {}
    \/ sleeper.at \in {"compile", "reconcile"}

\* label_and_store: a deferred label, then l1.add.  The event loop runs it
\* only while no sleep is under way or while the sleep awaits the model.
Observe(e) ==
    LET rows == [d \in DOMAIN l1 \cup {e} |->
                   IF d = e THEN [pending |-> TRUE, nights |-> 0, status |-> "raw"]
                   ELSE l1[d]]
    IN  /\ fate[e] = "new"
        /\ sleeper.at = "awake" \/ Awaiting
        /\ \E kept \in Kept(rows) :
             /\ l1' = Restrict(rows, kept)
             /\ fate' = [d \in Entries |->
                           IF d \in DOMAIN rows \ kept THEN "lost"
                           ELSE IF d = e THEN "held" ELSE fate[d]]
        /\ UNCHANGED <<stored, asked, sleeper, outages, setbacks>>

-----------------------------------------------------------------------------
\* sleep(): gc.run() first.  Every entry is a night older.
FallAsleep ==
    /\ sleeper.at = "awake"
    /\ sleeper' = [sleeper EXCEPT !.at = "prune"]
    /\ l1' = [e \in DOMAIN l1 |->
                     [l1[e] EXCEPT !.nights = @ + 1]]
    /\ UNCHANGED <<fate, stored, asked, outages, setbacks>>

\* dream() of the SDK consolidates without the garbage collector.
Dream ==
    /\ sleeper.at = "awake"
    /\ sleeper' = [sleeper EXCEPT !.at = "label", !.queue = Pending]
    /\ UNCHANGED <<l1, fate, stored, asked, outages, setbacks>>

\* prune_l1, with the label the entry has tonight.
Prune ==
    LET cut == {e \in DOMAIN l1 : Forgettable(e)}
    IN  /\ sleeper.at = "prune"
        /\ sleeper' = [sleeper EXCEPT !.at = "label", !.queue = Pending \ cut]
        /\ l1' = Restrict(l1, DOMAIN l1 \ cut)
        /\ fate' = [e \in Entries |-> IF e \in cut THEN "pruned" ELSE fate[e]]
        /\ UNCHANGED <<stored, asked, outages, setbacks>>

\* The sleep is done with an entry and takes the next one.
Onward(queue) ==
    IF queue = {} THEN Awake
    ELSE [at |-> "compile", queue |-> queue, entry |-> NoEntry]

\* relabel_pending and the choice of the survivors, in one turn of the event
\* loop once the model has answered.  A failed batch is skipped, a short
\* answer labels only the entries it covers.  Entries that arrived while the
\* model was asked wait for the next sleep.
Relabel ==
    /\ sleeper.at = "label"
    /\ \E answered \in SUBSET sleeper.queue :
         /\ IF answered = sleeper.queue THEN UNCHANGED outages
            ELSE outages < MaxOutages /\ outages' = outages + 1
         /\ l1' = [e \in DOMAIN l1 |->
                          IF e \in answered
                          THEN [l1[e] EXCEPT !.pending = FALSE]
                          ELSE l1[e]]
    /\ sleeper' = Onward(Survivors)
    /\ UNCHANGED <<fate, stored, asked, setbacks>>

Encoded(e) ==
    IF e \in DOMAIN l1
    THEN [l1 EXCEPT ![e].status = "encoded"] ELSE l1

\* The model could not compile the entry: it stays raw.
CompileFails(e) ==
    /\ sleeper.at = "compile" /\ e \in sleeper.queue
    /\ outages < MaxOutages /\ outages' = outages + 1
    /\ sleeper' = Onward(sleeper.queue \ {e})
    /\ UNCHANGED <<l1, fate, stored, asked, setbacks>>

\* An entry has its turn.  It asks a human nothing (0), be it that there is
\* nothing to ask or that submit finds an identical request pending; or puts
\* one or more new requests (1).  A rule that is refused, or that waits for
\* approval, is shelved; one that is promoted is reconciled with the others,
\* whose deprecation may need approval.
TakeTurn(e) ==
    /\ sleeper.at = "compile" /\ e \in sleeper.queue
    /\ \E n \in {0, 1} : asked' = [asked EXCEPT ![e] = @ + n]
    /\ \E path \in {"shelve", "reconcile"} :
          sleeper' = [at |-> path, queue |-> sleeper.queue \ {e}, entry |-> e]
    /\ UNCHANGED <<l1, fate, stored, outages, setbacks>>

\* Mutant: the mark is forgotten when the rule goes to a human.
MarkForgotten ==
    /\ sleeper.at = "shelve"
    /\ sleeper' = [sleeper EXCEPT !.at = "keep"]
    /\ UNCHANGED <<l1, fate, stored, asked, outages, setbacks>>
\* A shelved entry is marked first, and what was compiled is stored after.
MarkShelved ==
    /\ sleeper.at = "shelve"
    /\ l1' = Encoded(sleeper.entry)
    /\ sleeper' = [sleeper EXCEPT !.at = "keep"]
    /\ UNCHANGED <<fate, stored, asked, outages, setbacks>>

StoreShelved ==
    /\ sleeper.at = "keep"
    /\ stored' = stored \cup {sleeper.entry}
    /\ sleeper' = Onward(sleeper.queue)
    /\ UNCHANGED <<l1, fate, asked, outages, setbacks>>

\* A promoted one is stored first and marked after.
StorePromoted ==
    /\ sleeper.at = "reconcile"
    /\ stored' = stored \cup {sleeper.entry}
    /\ sleeper' = [sleeper EXCEPT !.at = "mark"]
    /\ UNCHANGED <<l1, fate, asked, outages, setbacks>>

MarkPromoted ==
    /\ sleeper.at = "mark"
    /\ l1' = Encoded(sleeper.entry)
    /\ sleeper' = Onward(sleeper.queue)
    /\ UNCHANGED <<fate, stored, asked, outages, setbacks>>

-----------------------------------------------------------------------------
(* What goes wrong.  A turn that ends before the mark leaves the entry raw,  *)
(* for the next night.                                                       *)

\* save() deletes every row and inserts them anew, two commits: what ends
\* between them leaves no working memory.
Wiped ==
    /\ l1' = [e \in {} |-> 0]
    /\ fate' = [e \in Entries |-> IF e \in DOMAIN l1 THEN "lost" ELSE fate[e]]

Setback ==
    /\ setbacks < MaxSetbacks /\ setbacks' = setbacks + 1
    /\ UNCHANGED <<stored, outages>>

\* What a turn asked that was cut short before the mark, a later one may ask again.
CutShort ==
    asked' = IF sleeper.at \in Unmarked
             THEN [asked EXCEPT ![sleeper.entry] = 0] ELSE asked

\* A write raises, and the handler goes on with the next entry: a request, a rule
\* or a store; or the save of a mark, in either half.
WriteFails ==
    /\ sleeper.at \in Turns
    /\ \/ UNCHANGED <<l1, fate>>
       \/ sleeper.at \in {"shelve", "mark"} /\ Wiped
    /\ sleeper' = Onward(sleeper.queue)
    /\ CutShort /\ Setback

\* The save of an observation, of a new night or of the garbage collector raises,
\* which nobody catches; a sleep that awaits the model goes on.
SaveFails ==
    /\ \/ (sleeper.at = "awake" \/ Awaiting) /\ UNCHANGED sleeper
       \/ sleeper.at = "prune" /\ sleeper' = Awake
    /\ Wiped
    /\ UNCHANGED asked /\ Setback

\* The process dies in its sleep; rows are kept, unless it died in a save.
Dies ==
    /\ sleeper.at # "awake"
    /\ \/ UNCHANGED <<l1, fate>>
       \/ (sleeper.at \in {"prune", "shelve", "mark"} \/ Awaiting) /\ Wiped
    /\ sleeper' = Awake
    /\ CutShort /\ Setback

SleepStep ==
    \/ Prune \/ Relabel
    \/ MarkShelved \/ StoreShelved \/ StorePromoted \/ MarkPromoted
    \/ \E e \in Entries : CompileFails(e) \/ TakeTurn(e)

SleepNext ==
    \/ FallAsleep \/ Dream \/ SleepStep
    \/ WriteFails \/ SaveFails \/ Dies
    \/ \E e \in Entries : Observe(e)

SleepSpec == SleepInit /\ [][SleepNext]_sleepVars

\* A sleep that began goes on, and somebody keeps calling sleep().
SleepFairness == WF_sleepVars(SleepStep) /\ SF_sleepVars(FallAsleep)

-----------------------------------------------------------------------------
(* Properties *)

\* A memory the model would rate high is not cut by the garbage collector
\* before it has been consolidated, as long as the model misses fewer calls
\* than an entry has nights under its TTL and nothing is cut short.
WorthSurvives ==
    \A e \in Entries :
        fate[e] = "pruned" /\ Worth[e] = "high" /\ setbacks = 0 => e \in stored

\* Between two turns that put a memory before a human lies one that a failed
\* write or a death ended between the request and the mark: whatever else goes
\* wrong, before or after, a mark keeps later nights from asking again.
AskedOnce == \A e \in Entries : asked[e] <= 1

\* A memory rated high ends in semantic memory, unless newer observations
\* pushed it out of a full working memory or something was cut short.
WorthIsKept ==
    []<>(\A e \in Entries :
            fate[e] \in {"held", "pruned"} /\ Worth[e] = "high"
            => e \in stored \/ setbacks > 0)

\* hippocampus.py: labels are resolved before survivors are selected and
\* compiled, because importance drives pruning, decay and promotion.
LabelledBeforePruned ==
    [][\A e \in Entries :
         fate[e] = "held" /\ fate'[e] = "pruned" => ~l1[e].pending]_sleepVars
=============================================================================
