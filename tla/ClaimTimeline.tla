---------------------------- MODULE ClaimTimeline ----------------------------
(***************************************************************************)
(* One slot of the claim lifecycle: a subject and a predicate, and what    *)
(* was said about it.  Every statement is first remembered as a memory row *)
(* of its own, valid from always to ever; cognitive/lifecycle_runtime.py   *)
(* then relates it to the claim it holds (relations.py) and applies the    *)
(* relation as writes to validity windows (claim_lifecycle.py), each of    *)
(* which commits by itself, with the transition log written last.          *)
(***************************************************************************)
EXTENDS Integers, Sequences, FiniteSetsExt

CONSTANTS
    Values,         \* what a statement may say
    Kinds,          \* shapes the predicate of the slot may have
    Horizon,        \* bound: the last observation time
    MaxStatements,  \* bound: statements made
    MaxReloads,    \* bound: deaths of the process
    MaxDeletions    \* bound: claims deleted by a forget

Marks == {"plain", "change", "correction", "rumour"}
Unset == 0                \* valid_from IS NULL
Never == Horizon + 1      \* valid_to IS NULL
Instants == 1 .. Horizon

ASSUME ClaimAssumption ==
    /\ Kinds \subseteq {"one", "many", "fixed", "undeclared"}
    /\ {Horizon, MaxStatements} \subseteq Nat \ {0}
    /\ {MaxReloads, MaxDeletions} \subseteq Nat

VARIABLES
    kind,       \* declared shape of the predicate
    claims,     \* rows in the order they were remembered
    deleted,    \* those a forget has removed
    log,        \* memory_lifecycle_transitions, in rowid order
    held,       \* the claim the runtime compares the next statement with
    doing,      \* the write that comes next
    reloads

claimVars == <<kind, claims, deleted, log, held, doing, reloads>>

ClaimRows == [value: Values, mark: Marks, at: Instants,
         from: Unset .. Horizon, to: 1 .. Never]

ClaimTypeOK ==
    /\ kind \in Kinds
    /\ claims \in Seq(ClaimRows) /\ Len(claims) <= MaxStatements
    /\ deleted \subseteq DOMAIN claims
    /\ \A n \in DOMAIN log :
          /\ log[n].claim \in DOMAIN claims
          /\ log[n].state \in {"active", "superseded", "corrected"}
    /\ held \in {0} \cup DOMAIN claims
    /\ doing \in {"nothing", "judge", "open", "log superseded", "log corrected"}
    /\ doing # "nothing" => claims # <<>>
    /\ reloads \in 0 .. MaxReloads

ClaimInit ==
    /\ kind \in Kinds
    /\ claims = <<>> /\ deleted = {} /\ log = <<>>
    /\ held = 0 /\ doing = "nothing" /\ reloads = 0

-----------------------------------------------------------------------------
Newest == Len(claims)
Wrote(c, state) == Append(log, [claim |-> c, state |-> state])

\* The transitions of a claim that are not restatements.
Said(c) == {n \in DOMAIN log : log[n].claim = c /\ log[n].state # "active"}

\* state_of: the last of them.
Standing(c) == IF Said(c) = {} THEN "active" ELSE log[Max(Said(c))].state

\* _valid_at, over a half-open window.
ValidAt(c, t) == c \notin deleted /\ claims[c].from <= t /\ t < claims[c].to
Current(c) == c \notin deleted /\ claims[c].to = Never

\* Mutant: any different value that is not retracted or a rumour is a change.
RelationForced(old, new) ==
    CASE old.value = new.value -> "repeat"
      [] new.mark = "correction" -> "correct"
      [] new.mark = "rumour" -> "conflict"
      [] OTHER -> "supersede"
\* Mutant: statements are not ordered by the time they were observed.
RelationUnordered(old, new) ==
    CASE old.value = new.value -> "repeat"
      [] new.mark = "correction" -> "correct"
      [] new.mark = "rumour" -> "conflict"
      [] kind = "one" /\ new.mark = "change" -> "supersede"
      [] OTHER -> "unknown"

\* classify_relation.
Relation(old, new) ==
    CASE old.value = new.value -> "repeat"
      [] old.value # new.value /\ new.mark = "correction" -> "correct"
      [] old.value # new.value /\ new.mark = "rumour" -> "conflict"
      [] old.value # new.value /\ new.mark \in {"plain", "change"} ->
           CASE kind = "undeclared" -> "unknown"
             [] kind = "fixed" -> "conflict"
             [] kind = "many" -> "coexist"
             [] kind = "one" /\ new.at <= old.at -> "conflict"
             [] kind = "one" /\ new.at > old.at ->
                  IF new.mark = "change" THEN "supersede" ELSE "unknown"

\* observe() and remember(): the statement becomes a row before it is judged.
Remember(value, mark, at) ==
    /\ doing = "nothing" /\ Newest < MaxStatements
    /\ claims' = Append(claims, [value |-> value, mark |-> mark, at |-> at,
                                 from |-> Unset, to |-> Never])
    /\ doing' = "judge"
    /\ UNCHANGED <<kind, deleted, log, held, reloads>>

\* The first statement of a slot, as far as the runtime knows, is held.
HoldFirst ==
    /\ doing = "judge" /\ held = 0
    /\ held' = Newest /\ doing' = "nothing"
    /\ UNCHANGED <<kind, claims, deleted, log, reloads>>

\* reconfirm: the restatement is logged under the held claim, whose window
\* does not move; neither does the window of the row just remembered.
Repeat ==
    /\ doing = "judge" /\ held # 0
    /\ Relation(claims[held], claims[Newest]) = "repeat"
    /\ log' = Wrote(held, "active") /\ doing' = "nothing"
    /\ UNCHANGED <<kind, claims, deleted, held, reloads>>

\* COEXIST moves on to the newer claim; CONFLICT and UNKNOWN change nothing.
Abstain ==
    /\ doing = "judge" /\ held # 0 /\ doing' = "nothing"
    /\ \/ Relation(claims[held], claims[Newest]) = "coexist" /\ held' = Newest
       \/ /\ Relation(claims[held], claims[Newest]) \in {"conflict", "unknown"}
          /\ UNCHANGED held
    /\ UNCHANGED <<kind, claims, deleted, log, reloads>>

\* supersede, first commit: the old window closes at the new observation.
CloseOld ==
    /\ doing = "judge" /\ held # 0
    /\ Relation(claims[held], claims[Newest]) = "supersede"
    /\ claims' = [claims EXCEPT ![held].to = claims[Newest].at]
    /\ doing' = "open"
    /\ UNCHANGED <<kind, deleted, log, held, reloads>>

\* Second commit: the new window opens at the same instant.
OpenNew ==
    /\ doing = "open" /\ doing' = "log superseded"
    /\ claims' = [claims EXCEPT ![Newest].from = claims[Newest].at]
    /\ UNCHANGED <<kind, deleted, log, held, reloads>>

\* Mutant: the window is emptied at a start that was never set.
EmptyUnset ==
    /\ doing = "judge" /\ held # 0
    /\ Relation(claims[held], claims[Newest]) = "correct"
    /\ claims' = [claims EXCEPT ![held].to = claims[held].from]
    /\ doing' = "log corrected"
    /\ UNCHANGED <<kind, deleted, log, held, reloads>>

\* correct: the window of the old claim becomes empty.  A claim that was
\* deleted meanwhile raises KeyError, and the new one is held all the same.
Empty ==
    LET start == IF claims[held].from = Unset THEN claims[held].at
                 ELSE claims[held].from
    IN  /\ doing = "judge" /\ held # 0
        /\ Relation(claims[held], claims[Newest]) = "correct"
        /\ IF held \in deleted
           THEN held' = Newest /\ doing' = "nothing" /\ UNCHANGED claims
           ELSE /\ claims' = [claims EXCEPT ![held].from = start, ![held].to = start]
                /\ doing' = "log corrected" /\ UNCHANGED held
        /\ UNCHANGED <<kind, deleted, log, reloads>>

\* The last commit of either is the log, and then the new claim is held.
LogTransition ==
    /\ \/ doing = "log superseded" /\ log' = Wrote(held, "superseded")
       \/ doing = "log corrected" /\ log' = Wrote(held, "corrected")
    /\ held' = Newest /\ doing' = "nothing"
    /\ UNCHANGED <<kind, claims, deleted, reloads>>

\* A forget removes a claim between two statements.
DeleteClaim(c) ==
    /\ c \notin deleted /\ Cardinality(deleted) < MaxDeletions
    /\ deleted' = deleted \cup {c}
    /\ UNCHANGED <<kind, claims, log, held, doing, reloads>>

\* The process dies between two commits; a new runtime holds nothing.
Reload ==
    /\ reloads < MaxReloads /\ reloads' = reloads + 1
    /\ held' = 0 /\ doing' = "nothing"
    /\ UNCHANGED <<kind, claims, deleted, log>>

ClaimNext ==
    \/ \E v \in Values, m \in Marks, t \in Instants : Remember(v, m, t)
    \/ HoldFirst \/ Repeat \/ Abstain \/ CloseOld \/ OpenNew \/ Empty
    \/ LogTransition \/ Reload
    \/ \E c \in DOMAIN claims : DeleteClaim(c)

ClaimSpec == ClaimInit /\ [][ClaimNext]_claimVars

-----------------------------------------------------------------------------
(* Properties *)

\* SUPERSEDE: the old value was true, and still answers questions about the
\* moment it was observed, in an interrupted supersession too.  CORRECT: it was
\* never true, and answers at no instant, whatever is said, deleted or
\* interrupted later.  And the log claims no change the windows do not show.
TransitionsAreTrue ==
    \A c \in DOMAIN claims :
        /\ Standing(c) = "superseded" \/ (doing = "open" /\ c = held) =>
              claims[c].from <= claims[c].at /\ claims[c].at < claims[c].to
        /\ Standing(c) = "corrected" => \A t \in Instants : ~ValidAt(c, t)
        /\ Standing(c) # "active" => claims[c].to # Never

\* silent_conflict_rate and forced_transition_rate are zero: a window closes
\* only against a later statement that says so in words, of another value.
NothingForced ==
    \A c \in DOMAIN claims :
        claims[c].to # Never =>
            \E d \in DOMAIN claims :
                /\ d > c /\ claims[d].value # claims[c].value
                /\ \/ claims[d].mark = "correction"
                   \/ claims[d].mark = "change" /\ kind = "one"

\* lifecycle_runtime.py: the held view "is rebuilt from the store on
\* construction, so a restart does not lose it".  So where every statement is
\* an explicit, later change, one value of the slot is current at a time.
OneCurrent ==
    doing = "nothing" /\ kind = "one" =>
        \A c, d \in DOMAIN claims :
            /\ c < d /\ claims[d].mark = "change" /\ claims[c].at < claims[d].at
            /\ Current(c) /\ Current(d)
            => claims[c].value = claims[d].value
=============================================================================
