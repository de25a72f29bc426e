---------------------------- MODULE RecordsProofs ----------------------------
(* What TLAPS proves of three kinds of record that are written in more     *)
(* than one commit: the validity windows of a claim slot (ClaimTimeline),  *)
(* the generations of a store (StoreGeneration) and the cached context     *)
(* packets (ContextCache); for any number of values, candidates, handles,  *)
(* memories and processes, and for behaviours of any length.  The last     *)
(* section puts them beside the worker and the erasure, as MCRecords does. *)
EXTENDS MCRecords, ReconciliationWorkerProofs, ErasureProofs,
        SequenceTheorems, FiniteSetTheorems

-----------------------------------------------------------------------------
(* Claims: types.  A statement being judged is newer than the one held, and *)
(* what is past the judgement has one to relate to.                         *)

Transition == [claim : Nat, state : {"active", "superseded", "corrected"}]

HeldBehind ==
    /\ doing # "nothing" => held < Newest
    /\ doing \notin {"nothing", "judge"} => held # 0

ClaimTypeInv ==
    /\ ClaimTypeOK
    /\ log \in Seq(Transition)
    /\ HeldBehind

LEMMA InitClaimType == ClaimInit => ClaimTypeInv
<1>1. <<>> \in Seq(ClaimRows) /\ <<>> \in Seq(Transition) /\ Len(<<>>) = 0
  BY EmptySeq
<1>2. QED
  BY <1>1, ClaimAssumption DEF ClaimInit, ClaimTypeInv, ClaimTypeOK, HeldBehind, Newest

\* A write to the window of one claim: the others, and what was said, stay.
LEMMA WindowWritten ==
    ASSUME ClaimTypeInv, NEW c \in DOMAIN claims, NEW r \in ClaimRows,
           r.value = claims[c].value, r.mark = claims[c].mark, r.at = claims[c].at,
           claims' = [claims EXCEPT ![c] = r]
    PROVE  /\ claims' \in Seq(ClaimRows)
           /\ Len(claims') = Len(claims)
           /\ DOMAIN claims' = DOMAIN claims
           /\ claims'[c] = r
           /\ \A d \in DOMAIN claims : d # c => claims'[d] = claims[d]
           /\ \A d \in DOMAIN claims : /\ claims'[d].value = claims[d].value
                                       /\ claims'[d].mark = claims[d].mark
                                       /\ claims'[d].at = claims[d].at
<1>1. claims \in Seq(ClaimRows) /\ DOMAIN claims = 1 .. Len(claims)
  BY LenProperties DEF ClaimTypeInv, ClaimTypeOK
<1>2. /\ claims' \in Seq(ClaimRows)
      /\ Len(claims') = Len(claims)
      /\ \A d \in 1 .. Len(claims) : claims'[d] = IF d = c THEN r ELSE claims[d]
  BY <1>1, ExceptSeq
<1>3. DOMAIN claims' = DOMAIN claims
  BY <1>1, <1>2, LenProperties
<1>4. QED
  BY <1>1, <1>2, <1>3

\* Appending to the claims, and to the log.
LEMMA Appended ==
    ASSUME NEW S, NEW s \in Seq(S), NEW x \in S
    PROVE  /\ Append(s, x) \in Seq(S)
           /\ Len(Append(s, x)) = Len(s) + 1
           /\ DOMAIN Append(s, x) = 1 .. Len(s) + 1
           /\ \A i \in 1 .. Len(s) : Append(s, x)[i] = s[i]
           /\ Append(s, x)[Len(s) + 1] = x
<1>1. Append(s, x) \in Seq(S) /\ Len(Append(s, x)) = Len(s) + 1
  OBVIOUS
<1>2. DOMAIN Append(s, x) = 1 .. Len(s) + 1
  BY <1>1, LenProperties
<1>3. QED
  BY <1>1, <1>2

\* The rows the transitions leave, and what they leave alone.
LEMMA Judged ==
    ASSUME ClaimTypeInv
    PROVE  /\ doing # "nothing" => Newest \in DOMAIN claims
           /\ held # 0 => held \in DOMAIN claims
           /\ \A c \in DOMAIN claims : claims[c] \in ClaimRows
<1>1. claims \in Seq(ClaimRows)
  BY DEF ClaimTypeInv, ClaimTypeOK
<1>2. DOMAIN claims = 1 .. Len(claims) /\ Len(claims) \in Nat
  BY <1>1, LenProperties
<1>3. doing # "nothing" => Len(claims) # 0
  BY <1>1, EmptySeq DEF ClaimTypeInv, ClaimTypeOK
<1>4. \A c \in DOMAIN claims : claims[c] \in ClaimRows
  BY <1>1, <1>2, ElementOfSeq
<1>5. doing # "nothing" => Newest \in DOMAIN claims
  BY <1>2, <1>3 DEF Newest
<1>6. held # 0 => held \in DOMAIN claims
  BY DEF ClaimTypeInv, ClaimTypeOK
<1>7. QED
  BY <1>4, <1>5, <1>6

\* A new statement, and a line of the log.
LEMMA RememberType ==
    ASSUME ClaimTypeInv, NEW v \in Values, NEW m \in Marks, NEW at \in Instants,
           Remember(v, m, at)
    PROVE  /\ ClaimTypeInv'
           /\ Newest' = Newest + 1
           /\ DOMAIN claims' = 1 .. Newest'
           /\ \A c \in DOMAIN claims : claims'[c] = claims[c]
           /\ claims'[Newest'].from = Unset
           /\ claims'[Newest'].to = Never
<1> DEFINE r == [value |-> v, mark |-> m, at |-> at, from |-> Unset, to |-> Never]
<1>1. r \in ClaimRows
  BY ClaimAssumption DEF ClaimRows, Unset, Never, Instants
<1>2. claims \in Seq(ClaimRows) /\ claims' = Append(claims, r)
  BY DEF Remember, ClaimTypeInv, ClaimTypeOK
<1>3. r.from = Unset /\ r.to = Never
  OBVIOUS
<1> HIDE DEF r
<1>4. DOMAIN claims = 1 .. Len(claims) /\ Len(claims) \in Nat
  BY <1>2, LenProperties
<1>5. /\ claims' \in Seq(ClaimRows) /\ Len(claims') = Len(claims) + 1
      /\ DOMAIN claims' = 1 .. Len(claims) + 1
      /\ \A i \in 1 .. Len(claims) : claims'[i] = claims[i]
      /\ claims'[Len(claims) + 1] = r
  BY <1>1, <1>2, Appended
<1>6. claims' # <<>>
  BY <1>4, <1>5
<1>7. /\ Len(claims) < MaxStatements
      /\ doing' = "judge"
      /\ UNCHANGED <<kind, deleted, log, held, reloads>>
  BY DEF Remember, Newest
<1>8. DOMAIN claims \subseteq DOMAIN claims'
  BY <1>4, <1>5
<1>9. ClaimTypeOK'
  <2>1. claims' \in Seq(ClaimRows) /\ Len(claims') <= MaxStatements
    BY <1>4, <1>5, <1>7, ClaimAssumption
  <2>2. deleted' \subseteq DOMAIN claims' /\ held' \in {0} \cup DOMAIN claims'
    BY <1>7, <1>8 DEF ClaimTypeInv, ClaimTypeOK
  <2>3. \A n \in DOMAIN log' :
          /\ log'[n].claim \in DOMAIN claims'
          /\ log'[n].state \in {"active", "superseded", "corrected"}
    BY <1>7, <1>8 DEF ClaimTypeInv, ClaimTypeOK
  <2>4. kind' \in Kinds /\ reloads' \in 0 .. MaxReloads
    BY <1>7 DEF ClaimTypeInv, ClaimTypeOK
  <2>5. QED
    BY <1>6, <1>7, <2>1, <2>2, <2>3, <2>4 DEF ClaimTypeOK
<1>10. HeldBehind'
  <2>1. held \in {0} \cup DOMAIN claims
    BY DEF ClaimTypeInv, ClaimTypeOK
  <2>2. QED
    BY <1>4, <1>5, <1>7, <2>1 DEF HeldBehind, Newest
<1>11. QED
  BY <1>3, <1>4, <1>5, <1>7, <1>9, <1>10 DEF ClaimTypeInv, Newest

LEMMA LogType ==
    ASSUME ClaimTypeInv, NEW c \in DOMAIN claims,
           NEW state \in {"active", "superseded", "corrected"}, log' = Wrote(c, state)
    PROVE  /\ log' \in Seq(Transition)
           /\ DOMAIN log' = 1 .. Len(log) + 1
           /\ DOMAIN log = 1 .. Len(log) /\ Len(log) \in Nat
           /\ \A n \in DOMAIN log : log'[n] = log[n]
           /\ log'[Len(log) + 1].claim = c
           /\ log'[Len(log) + 1].state = state
<1> DEFINE t == [claim |-> c, state |-> state]
<1>1. c \in Nat
  <2>1. claims \in Seq(ClaimRows)
    BY DEF ClaimTypeInv, ClaimTypeOK
  <2>2. QED
    BY <2>1, LenProperties
<1>2. t \in Transition /\ t.claim = c /\ t.state = state
  BY <1>1 DEF Transition
<1>3. log \in Seq(Transition) /\ log' = Append(log, t)
  BY DEF Wrote, ClaimTypeInv
<1> HIDE DEF t
<1>4. DOMAIN log = 1 .. Len(log) /\ Len(log) \in Nat
  BY <1>3, LenProperties
<1>5. QED
  BY <1>2, <1>3, <1>4, Appended

\* The writes to a window, between the judgement and the log.
LEMMA WindowType ==
    ASSUME ClaimTypeInv, NEW c \in DOMAIN claims, NEW r \in ClaimRows,
           r.value = claims[c].value, r.mark = claims[c].mark, r.at = claims[c].at,
           claims' = [claims EXCEPT ![c] = r],
           UNCHANGED <<kind, deleted, log, held, reloads>>,
           doing # "nothing", held # 0,
           doing' \in {"open", "log superseded", "log corrected"}
    PROVE  ClaimTypeInv'
<1>1. /\ claims' \in Seq(ClaimRows)
      /\ Len(claims') = Len(claims)
      /\ DOMAIN claims' = DOMAIN claims
  BY WindowWritten
<1>2. claims' # <<>>
  <2>1. claims # <<>> /\ claims \in Seq(ClaimRows)
    BY DEF ClaimTypeInv, ClaimTypeOK
  <2>2. Len(claims) # 0
    BY <2>1, EmptySeq
  <2>3. QED
    BY <1>1, <2>2, EmptySeq
<1>3. ClaimTypeOK'
  BY <1>1, <1>2 DEF ClaimTypeInv, ClaimTypeOK
<1>4. HeldBehind'
  BY <1>1 DEF ClaimTypeInv, HeldBehind, Newest
<1>5. QED
  BY <1>3, <1>4 DEF ClaimTypeInv

\* What each of them writes.
LEMMA WindowRows ==
    ASSUME ClaimTypeInv, CloseOld \/ OpenNew \/ (Empty /\ held \notin deleted)
    PROVE  \E c \in DOMAIN claims, r \in ClaimRows :
             /\ r.value = claims[c].value /\ r.mark = claims[c].mark
             /\ r.at = claims[c].at
             /\ claims' = [claims EXCEPT ![c] = r]
             /\ \/ /\ CloseOld /\ c = held
                   /\ r.from = claims[c].from /\ r.to = claims[Newest].at
                \/ /\ OpenNew /\ c = Newest
                   /\ r.from = claims[c].at /\ r.to = claims[c].to
                \/ /\ Empty /\ c = held /\ r.to = r.from
                   /\ r.from = IF claims[c].from = Unset THEN claims[c].at
                                                         ELSE claims[c].from
<1>1. \A c \in DOMAIN claims : claims[c] \in ClaimRows
  BY Judged
<1>2. \A c \in DOMAIN claims :
        /\ claims[c].from \in Unset .. Horizon /\ claims[c].to \in 1 .. Never
        /\ claims[c].at \in 1 .. Horizon
  BY <1>1 DEF ClaimRows, Instants
<1>3. Newest \in DOMAIN claims /\ (held # 0 => held \in DOMAIN claims)
  BY Judged DEF CloseOld, OpenNew, Empty
<1>4. CASE CloseOld
  <2> DEFINE r == [claims[held] EXCEPT !.from = claims[held].from,
                                       !.to = claims[Newest].at]
  <2>1. held \in DOMAIN claims /\ claims[Newest].at \in 1 .. Never
    BY <1>2, <1>3, <1>4, ClaimAssumption DEF CloseOld, Never
  <2>2. /\ r \in ClaimRows /\ r.from = claims[held].from /\ r.to = claims[Newest].at
        /\ r.value = claims[held].value /\ r.mark = claims[held].mark
        /\ r.at = claims[held].at
    BY <1>1, <1>2, <2>1 DEF ClaimRows
  <2>3. claims' = [claims EXCEPT ![held] = r]
    <3>1. claims[held] \in ClaimRows
      BY <1>1, <2>1
    <3>2. r = [claims[held] EXCEPT !.to = claims[Newest].at]
      BY <3>1 DEF ClaimRows
    <3>3. QED
      BY <1>4, <3>2 DEF CloseOld
  <2> HIDE DEF r
  <2>4. QED
    BY <1>4, <2>1, <2>2, <2>3
<1>5. CASE OpenNew
  <2> DEFINE r == [claims[Newest] EXCEPT !.from = claims[Newest].at,
                                         !.to = claims[Newest].to]
  <2>1. claims[Newest].at \in Unset .. Horizon
    BY <1>2, <1>3 DEF Unset
  <2>2. /\ r \in ClaimRows /\ r.from = claims[Newest].at /\ r.to = claims[Newest].to
        /\ r.value = claims[Newest].value /\ r.mark = claims[Newest].mark
        /\ r.at = claims[Newest].at
    BY <1>1, <1>2, <1>3, <2>1 DEF ClaimRows
  <2>3. claims' = [claims EXCEPT ![Newest] = r]
    <3>1. claims[Newest] \in ClaimRows
      BY <1>1, <1>3
    <3>2. r = [claims[Newest] EXCEPT !.from = claims[Newest].at]
      BY <3>1 DEF ClaimRows
    <3>3. QED
      BY <1>5, <3>2 DEF OpenNew
  <2> HIDE DEF r
  <2>4. QED
    BY <1>3, <1>5, <2>2, <2>3
<1>6. CASE Empty /\ held \notin deleted
  <2> DEFINE start == IF claims[held].from = Unset THEN claims[held].at
                                                   ELSE claims[held].from
             r == [claims[held] EXCEPT !.from = start, !.to = start]
  <2>1. held \in DOMAIN claims
    BY <1>3, <1>6 DEF Empty
  <2>2. start \in Unset .. Horizon /\ start \in 1 .. Never
    BY <1>2, <2>1, ClaimAssumption DEF Unset, Never
  <2>3. claims' = [claims EXCEPT ![held] = r]
    BY <1>6 DEF Empty
  <2>4. /\ r \in ClaimRows /\ r.from = start /\ r.to = start
        /\ r.value = claims[held].value /\ r.mark = claims[held].mark
        /\ r.at = claims[held].at
    <3> HIDE DEF start
    <3>1. QED
      BY <1>1, <2>1, <2>2 DEF ClaimRows
  <2> HIDE DEF r
  <2>5. QED
    BY <1>6, <2>1, <2>3, <2>4
<1>7. QED
  BY <1>4, <1>5, <1>6

LEMMA SpokenType ==
    ASSUME ClaimTypeInv, NEW c \in DOMAIN claims,
           NEW state \in {"active", "superseded", "corrected"}, log' = Wrote(c, state),
           UNCHANGED <<kind, claims, deleted, reloads>>,
           doing' = "nothing", held' \in {0} \cup DOMAIN claims
    PROVE  ClaimTypeInv'
<1>1. /\ log' \in Seq(Transition)
      /\ DOMAIN log' = 1 .. Len(log) + 1
      /\ DOMAIN log = 1 .. Len(log) /\ Len(log) \in Nat
      /\ \A n \in DOMAIN log : log'[n] = log[n]
      /\ log'[Len(log) + 1].claim = c
      /\ log'[Len(log) + 1].state = state
  BY LogType
<1>2. \A n \in DOMAIN log' :
        /\ log'[n].claim \in DOMAIN claims
        /\ log'[n].state \in {"active", "superseded", "corrected"}
  <2>1. TAKE n \in DOMAIN log'
  <2>2. CASE n \in DOMAIN log
    BY <1>1, <2>2 DEF ClaimTypeInv, ClaimTypeOK
  <2>3. CASE n = Len(log) + 1
    BY <1>1, <2>3
  <2>4. QED
    BY <1>1, <2>2, <2>3
<1>3. ClaimTypeOK'
  BY <1>2 DEF ClaimTypeInv, ClaimTypeOK
<1>4. QED
  BY <1>1, <1>3 DEF ClaimTypeInv, HeldBehind

LEMMA ClaimTypeStep == ClaimTypeInv /\ [ClaimNext]_claimVars => ClaimTypeInv'
<1> SUFFICES ASSUME ClaimTypeInv, [ClaimNext]_claimVars PROVE ClaimTypeInv'
  OBVIOUS
<1>1. Newest \in DOMAIN claims \/ doing = "nothing"
  BY Judged
<1>2. held \in {0} \cup DOMAIN claims
  BY DEF ClaimTypeInv, ClaimTypeOK
<1>3. ASSUME NEW v \in Values, NEW m \in Marks, NEW t \in Instants, Remember(v, m, t)
      PROVE  ClaimTypeInv'
  BY <1>3, RememberType
<1>4. CASE HoldFirst
  BY <1>1, <1>4 DEF HoldFirst, ClaimTypeInv, ClaimTypeOK, HeldBehind
<1>5. CASE Repeat
  <2>1. /\ held \in DOMAIN claims /\ log' = Wrote(held, "active") /\ doing' = "nothing"
        /\ UNCHANGED <<kind, claims, deleted, held, reloads>>
    BY <1>2, <1>5 DEF Repeat
  <2>2. held' \in {0} \cup DOMAIN claims
    BY <2>1
  <2>3. QED
    BY <2>1, <2>2, SpokenType
<1>6. CASE Abstain
  <2>1. held' \in {0} \cup DOMAIN claims
    BY <1>1, <1>2, <1>6 DEF Abstain
  <2>2. QED
    BY <1>6, <2>1 DEF Abstain, ClaimTypeInv, ClaimTypeOK, HeldBehind
<1>7. CASE CloseOld \/ OpenNew \/ (Empty /\ held \notin deleted)
  <2>1. /\ UNCHANGED <<kind, deleted, log, held, reloads>>
        /\ doing # "nothing" /\ held # 0
        /\ doing' \in {"open", "log superseded", "log corrected"}
    BY <1>7 DEF CloseOld, OpenNew, Empty, ClaimTypeInv, HeldBehind
  <2>2. PICK c \in DOMAIN claims, r \in ClaimRows :
          /\ r.value = claims[c].value /\ r.mark = claims[c].mark
          /\ r.at = claims[c].at
          /\ claims' = [claims EXCEPT ![c] = r]
    BY <1>7, WindowRows
  <2>3. QED
    BY <2>1, <2>2, WindowType
<1>8. CASE Empty /\ held \in deleted
  BY <1>1, <1>8 DEF Empty, ClaimTypeInv, ClaimTypeOK, HeldBehind
<1>9. CASE LogTransition
  <2>1. held \in DOMAIN claims /\ Newest \in DOMAIN claims
    BY <1>1, <1>2, <1>9 DEF LogTransition, ClaimTypeInv, HeldBehind
  <2>2. PICK state \in {"superseded", "corrected"} : log' = Wrote(held, state)
    BY <1>9 DEF LogTransition
  <2>3. /\ held' = Newest /\ doing' = "nothing"
        /\ UNCHANGED <<kind, claims, deleted, reloads>>
    BY <1>9 DEF LogTransition
  <2>4. QED
    BY <2>1, <2>2, <2>3, SpokenType
<1>10. CASE Reload
  <2>1. reloads' \in 0 .. MaxReloads
    <3>1. reloads \in 0 .. MaxReloads /\ MaxReloads \in Nat
      BY ClaimAssumption DEF ClaimTypeInv, ClaimTypeOK
    <3>2. reloads < MaxReloads /\ reloads' = reloads + 1
      BY <1>10 DEF Reload
    <3>3. QED
      BY <3>1, <3>2
  <2>2. /\ held' = 0 /\ doing' = "nothing"
        /\ UNCHANGED <<kind, claims, deleted, log>>
    BY <1>10 DEF Reload
  <2>3. QED
    BY <2>1, <2>2 DEF ClaimTypeInv, ClaimTypeOK, HeldBehind
<1>11. ASSUME NEW c \in DOMAIN claims, DeleteClaim(c) PROVE ClaimTypeInv'
  BY <1>11 DEF DeleteClaim, ClaimTypeInv, ClaimTypeOK, HeldBehind, Newest
<1>12. CASE UNCHANGED claimVars
  BY <1>12 DEF claimVars, ClaimTypeInv, ClaimTypeOK, HeldBehind, Newest
<1>13. QED
  BY <1>3, <1>4, <1>5, <1>6, <1>7, <1>8, <1>9, <1>10, <1>11, <1>12 DEF ClaimNext

\* The rows of a slot, its log and what the runtime holds of it stay in shape
\* through every statement, transition, deletion and restart.
THEOREM ClaimTypeCorrect == ClaimSpec => []ClaimTypeOK
<1>1. ClaimTypeInv => ClaimTypeOK
  BY DEF ClaimTypeInv
<1>2. QED
  BY <1>1, InitClaimType, ClaimTypeStep, PTL DEF ClaimSpec

-----------------------------------------------------------------------------
(* Claims: what the windows say.  A claim that the log says has changed is   *)
(* behind the newest and no longer held, so nothing writes its window again; *)
(* what the log is about to say of the held claim its window shows already.  *)

Logged(n) == log[n].state # "active"

Starts == \A c \in DOMAIN claims : claims[c].from \in {Unset, claims[c].at}

SupersededAt(c) == /\ claims[c].from <= claims[c].at /\ claims[c].at < claims[c].to
                   /\ claims[c].to # Never
CorrectedAt(c) == claims[c].from = claims[c].to /\ claims[c].to # Never

Underway ==
    /\ doing \in {"open", "log superseded"} => SupersededAt(held)
    /\ doing = "log corrected" => CorrectedAt(held)

LogInv ==
    \A n \in DOMAIN log : Logged(n) =>
        /\ log[n].claim # held /\ log[n].claim < Newest
        /\ log[n].state = "superseded" => SupersededAt(log[n].claim)
        /\ log[n].state = "corrected" => CorrectedAt(log[n].claim)
        /\ \A k \in DOMAIN log : Logged(k) /\ log[k].claim = log[n].claim => k = n

ClaimInv == ClaimTypeInv /\ Starts /\ Underway /\ LogInv /\ NothingForced

LEMMA InitClaimInv == ClaimInit => ClaimInv
<1> SUFFICES ASSUME ClaimInit PROVE ClaimInv
  OBVIOUS
<1>1. DOMAIN claims = {} /\ DOMAIN log = {}
  BY LenProperties, EmptySeq DEF ClaimInit
<1>2. QED
  BY <1>1, InitClaimType DEF ClaimInit, ClaimInv, Starts, Underway, LogInv, NothingForced

\* The relations that close a window are the explicit ones.
LEMMA Classified ==
    ASSUME NEW old \in ClaimRows, NEW new \in ClaimRows, kind \in Kinds
    PROVE  /\ Relation(old, new) = "supersede" =>
                  /\ new.value # old.value /\ new.mark = "change"
                  /\ kind = "one" /\ new.at > old.at
           /\ Relation(old, new) = "correct" =>
                  new.value # old.value /\ new.mark = "correction"
<1>1. CASE old.value = new.value
  BY <1>1 DEF Relation
<1>2. CASE old.value # new.value /\ new.mark = "correction"
  BY <1>2 DEF Relation
<1>3. CASE old.value # new.value /\ new.mark = "rumour"
  BY <1>3 DEF Relation
<1>4. CASE old.value # new.value /\ new.mark \in {"plain", "change"}
  <2>1. kind \in {"one", "many", "fixed", "undeclared"}
    BY ClaimAssumption
  <2>2. old.at \in Int /\ new.at \in Int
    BY DEF ClaimRows, Instants
  <2>3. CASE kind # "one"
    BY <1>4, <2>1, <2>3 DEF Relation
  <2>4. CASE kind = "one" /\ new.at <= old.at
    BY <1>4, <2>2, <2>4 DEF Relation
  <2>5. CASE kind = "one" /\ new.at > old.at
    BY <1>4, <2>2, <2>5 DEF Relation
  <2>6. QED
    BY <2>2, <2>3, <2>4, <2>5
<1>5. QED
  BY <1>1, <1>2, <1>3, <1>4 DEF ClaimRows, Marks

\* A write to a window: it is of the held claim or of the newest, and so of
\* none that the log names.
LEMMA WindowStep ==
    ASSUME ClaimInv, CloseOld \/ OpenNew \/ (Empty /\ held \notin deleted)
    PROVE  /\ Starts' /\ Underway' /\ LogInv' /\ NothingForced'
<1>0. ClaimTypeInv /\ Starts /\ Underway /\ LogInv /\ NothingForced
  BY DEF ClaimInv
<1>1. PICK c \in DOMAIN claims, r \in ClaimRows :
             /\ r.value = claims[c].value /\ r.mark = claims[c].mark
             /\ r.at = claims[c].at
             /\ claims' = [claims EXCEPT ![c] = r]
             /\ \/ /\ CloseOld /\ c = held
                   /\ r.from = claims[c].from /\ r.to = claims[Newest].at
                \/ /\ OpenNew /\ c = Newest
                   /\ r.from = claims[c].at /\ r.to = claims[c].to
                \/ /\ Empty /\ c = held /\ r.to = r.from
                   /\ r.from = IF claims[c].from = Unset THEN claims[c].at
                                                         ELSE claims[c].from
  BY <1>0, WindowRows
<1>2. /\ Len(claims') = Len(claims)
      /\ DOMAIN claims' = DOMAIN claims
      /\ claims'[c] = r
      /\ \A d \in DOMAIN claims : d # c => claims'[d] = claims[d]
      /\ \A d \in DOMAIN claims : /\ claims'[d].value = claims[d].value
                                  /\ claims'[d].mark = claims[d].mark
                                  /\ claims'[d].at = claims[d].at
  BY <1>0, <1>1, WindowWritten
<1>3. /\ UNCHANGED <<kind, deleted, log, held, reloads>> /\ Newest' = Newest
      /\ held # 0 /\ held < Newest /\ held \in DOMAIN claims
      /\ Newest \in DOMAIN claims
  BY <1>0, <1>2, Judged
  DEF CloseOld, OpenNew, Empty, ClaimTypeInv, HeldBehind, Newest
<1>4. /\ \A d \in DOMAIN claims :
          /\ claims[d].at \in 1 .. Horizon /\ claims[d].from \in 0 .. Horizon
          /\ claims[d].to \in 1 .. Never
      /\ Horizon \in Nat /\ Never = Horizon + 1 /\ Unset = 0
      /\ DOMAIN claims \subseteq Nat
  <2>1. Horizon \in Nat /\ Never = Horizon + 1 /\ Unset = 0
    BY ClaimAssumption DEF Never, Unset
  <2>2. claims \in Seq(ClaimRows)
    BY <1>0 DEF ClaimTypeInv, ClaimTypeOK
  <2>3. DOMAIN claims \subseteq Nat
    BY <2>2, LenProperties
  <2>4. \A d \in DOMAIN claims : claims[d] \in ClaimRows
    BY <1>0, Judged
  <2>5. QED
    BY <2>1, <2>3, <2>4 DEF ClaimRows, Instants
<1>5. Starts'
  BY <1>0, <1>1, <1>2, <1>4 DEF Starts
<1>6. ASSUME CloseOld, c = held, r.from = claims[c].from, r.to = claims[Newest].at
      PROVE  Underway' /\ NothingForced'
  <2>1. /\ kind = "one" /\ claims[Newest].at > claims[held].at
        /\ claims[Newest].mark = "change" /\ claims[Newest].value # claims[held].value
        /\ doing' = "open"
    <3>1. claims[held] \in ClaimRows /\ claims[Newest] \in ClaimRows /\ kind \in Kinds
      BY <1>0, <1>3, Judged DEF ClaimTypeInv, ClaimTypeOK
    <3>2. Relation(claims[held], claims[Newest]) = "supersede" /\ doing' = "open"
      BY <1>6 DEF CloseOld
    <3>3. QED
      BY <3>1, <3>2, Classified
  <2>2. SupersededAt(held)'
    BY <1>0, <1>2, <1>3, <1>4, <1>6, <2>1 DEF Starts, SupersededAt
  <2>3. Underway'
    BY <2>1, <2>2, <1>3 DEF Underway
  <2>4. NothingForced'
    BY <1>0, <1>1, <1>2, <1>3, <1>4, <1>6, <2>1 DEF NothingForced
  <2>5. QED
    BY <2>3, <2>4
<1>7. ASSUME OpenNew, c = Newest, r.from = claims[c].at, r.to = claims[c].to
      PROVE  Underway' /\ NothingForced'
  <2>1. SupersededAt(held) /\ doing' = "log superseded"
    BY <1>0, <1>7 DEF Underway, OpenNew
  <2>2. claims'[held] = claims[held]
    BY <1>2, <1>3, <1>4, <1>7
  <2>3. Underway'
    BY <1>3, <2>1, <2>2 DEF Underway, SupersededAt
  <2>4. NothingForced'
    BY <1>0, <1>1, <1>2, <1>3, <1>4, <1>7 DEF NothingForced
  <2>5. QED
    BY <2>3, <2>4
<1>8. ASSUME Empty, c = held, r.to = r.from,
             r.from = IF claims[c].from = Unset THEN claims[c].at
                                                ELSE claims[c].from
      PROVE  Underway' /\ NothingForced'
  <2>1. /\ claims[Newest].mark = "correction"
        /\ claims[Newest].value # claims[held].value
    <3>1. Relation(claims[held], claims[Newest]) = "correct"
      BY <1>8 DEF Empty
    <3>2. claims[held] \in ClaimRows /\ claims[Newest] \in ClaimRows /\ kind \in Kinds
      BY <1>0, <1>3, Judged DEF ClaimTypeInv, ClaimTypeOK
    <3>3. QED
      BY <3>1, <3>2, Classified
  <2>2. doing' = "log corrected" \/ doing' = "nothing"
    BY <1>8 DEF Empty
  <2>3. CorrectedAt(held)'
    BY <1>0, <1>2, <1>3, <1>4, <1>8 DEF CorrectedAt
  <2>4. Underway'
    BY <1>3, <2>2, <2>3 DEF Underway
  <2>5. NothingForced'
    <3>1. \A d \in DOMAIN claims : d # held => claims'[d].to = claims[d].to
      BY <1>2, <1>8
    <3>2. /\ claims'[Newest].mark = "correction"
          /\ claims'[Newest].value # claims'[held].value
          /\ Newest > held /\ kind' = kind
      BY <1>2, <1>3, <1>4, <2>1
    <3>3. QED
      BY <1>0, <1>2, <1>3, <3>1, <3>2 DEF NothingForced
  <2>6. QED
    BY <2>4, <2>5
<1>9. LogInv'
  <2> SUFFICES ASSUME NEW n \in DOMAIN log, Logged(n)
               PROVE  /\ log[n].claim # held /\ log[n].claim < Newest
                      /\ log[n].state = "superseded" => SupersededAt(log[n].claim)'
                      /\ log[n].state = "corrected" => CorrectedAt(log[n].claim)'
                      /\ \A k \in DOMAIN log :
                            Logged(k) /\ log[k].claim = log[n].claim => k = n
    BY <1>3 DEF LogInv, Logged
  <2>1. log[n].claim \in DOMAIN claims /\ log[n].claim # c
    <3>1. log[n].claim \in DOMAIN claims
      BY <1>0 DEF ClaimTypeInv, ClaimTypeOK
    <3>2. log[n].claim # held /\ log[n].claim < Newest
      BY <1>0 DEF LogInv
    <3>3. c \in {held, Newest}
      BY <1>1
    <3>4. QED
      BY <1>3, <1>4, <3>1, <3>2, <3>3
  <2>2. claims'[log[n].claim] = claims[log[n].claim]
    BY <1>2, <2>1
  <2>3. QED
    BY <1>0, <1>3, <2>2 DEF LogInv, SupersededAt, CorrectedAt
<1>10. QED
  BY <1>1, <1>5, <1>6, <1>7, <1>8, <1>9

\* A line of the log, and nothing else but what the runtime holds.
LEMMA SpokenStep ==
    ASSUME ClaimInv, LogTransition \/ Repeat
    PROVE  /\ Starts' /\ Underway' /\ LogInv' /\ NothingForced'
<1>0. ClaimTypeInv /\ Starts /\ Underway /\ LogInv /\ NothingForced
  BY DEF ClaimInv
<1>1. /\ UNCHANGED <<kind, claims, deleted>> /\ Newest' = Newest /\ doing' = "nothing"
      /\ held \in DOMAIN claims /\ held < Newest
  BY <1>0, Judged DEF LogTransition, Repeat, ClaimTypeInv, HeldBehind, Newest
<1>2. PICK state \in {"active", "superseded", "corrected"} :
        /\ log' = Wrote(held, state)
        /\ state = "active" => held' = held
        /\ state # "active" => held' = Newest
        /\ state = "superseded" => SupersededAt(held)
        /\ state = "corrected" => CorrectedAt(held)
  <2>1. CASE Repeat
    BY <2>1 DEF Repeat
  <2>2. CASE LogTransition /\ doing = "log superseded"
    BY <1>0, <2>2 DEF LogTransition, Underway
  <2>3. CASE LogTransition /\ doing = "log corrected"
    BY <1>0, <2>3 DEF LogTransition, Underway
  <2>4. QED
    BY <2>1, <2>2, <2>3 DEF LogTransition
<1>3. /\ DOMAIN log' = 1 .. Len(log) + 1
      /\ DOMAIN log = 1 .. Len(log) /\ Len(log) \in Nat
      /\ \A n \in DOMAIN log : log'[n] = log[n]
      /\ log'[Len(log) + 1].claim = held
      /\ log'[Len(log) + 1].state = state
  BY <1>0, <1>1, <1>2, LogType
<1>4. Starts' /\ Underway' /\ NothingForced'
  BY <1>0, <1>1 DEF Starts, Underway, NothingForced
<1>5. LogInv'
  <2>1. \A n \in DOMAIN log : Logged(n) => Logged(n)' /\ log[n].claim # held
    BY <1>0, <1>3 DEF LogInv, Logged
  <2> SUFFICES ASSUME NEW n \in DOMAIN log', Logged(n)'
               PROVE  /\ log'[n].claim # held' /\ log'[n].claim < Newest
                      /\ log'[n].state = "superseded" => SupersededAt(log'[n].claim)
                      /\ log'[n].state = "corrected" => CorrectedAt(log'[n].claim)
                      /\ \A k \in DOMAIN log' :
                            Logged(k)' /\ log'[k].claim = log'[n].claim => k = n
    BY <1>1 DEF LogInv, SupersededAt, CorrectedAt
  <2>2. Newest \in Nat /\ Newest \notin {log[k].claim : k \in {m \in DOMAIN log : Logged(m)}}
    <3>1. Newest \in Nat
      BY <1>0, LenProperties DEF ClaimTypeInv, ClaimTypeOK, Newest
    <3>2. QED
      BY <1>0, <3>1 DEF LogInv
  <2>3. CASE n \in DOMAIN log
    <3>1. Logged(n) /\ log'[n] = log[n]
      BY <1>3, <2>3 DEF Logged
    <3>2. log[n].claim # held' /\ log[n].claim # held
      BY <1>2, <2>1, <2>2, <2>3, <3>1
    <3>3. \A k \in DOMAIN log' : Logged(k)' /\ log'[k].claim = log'[n].claim => k = n
      <4>1. TAKE k \in DOMAIN log'
      <4>2. CASE k \in DOMAIN log
        BY <1>0, <1>3, <2>3, <3>1, <4>2 DEF LogInv, Logged
      <4>3. CASE k = Len(log) + 1
        BY <1>3, <3>1, <3>2, <4>3
      <4>4. QED
        BY <1>3, <4>2, <4>3
    <3>4. QED
      BY <1>0, <2>3, <3>1, <3>2, <3>3 DEF LogInv
  <2>4. CASE n = Len(log) + 1
    <3>1. log'[n].claim = held /\ log'[n].state = state /\ state # "active"
      BY <1>3, <2>4 DEF Logged
    <3>2. \A k \in DOMAIN log' : Logged(k)' /\ log'[k].claim = held => k = n
      <4>1. TAKE k \in DOMAIN log'
      <4>2. CASE k \in DOMAIN log
        BY <1>3, <2>1, <4>2 DEF Logged
      <4>3. QED
        BY <1>3, <2>4, <4>2
    <3>3. held # held' /\ held < Newest
      BY <1>1, <1>2, <2>2, <3>1
    <3>4. QED
      BY <1>2, <3>1, <3>2, <3>3
  <2>5. QED
    BY <1>3, <2>3, <2>4
<1>6. QED
  BY <1>4, <1>5

LEMMA ClaimStep == ClaimInv /\ [ClaimNext]_claimVars => ClaimInv'
<1> SUFFICES ASSUME ClaimInv, [ClaimNext]_claimVars PROVE ClaimInv'
  OBVIOUS
<1>0. ClaimTypeInv /\ Starts /\ Underway /\ LogInv /\ NothingForced
  BY DEF ClaimInv
<1>1. ClaimTypeInv'
  BY <1>0, ClaimTypeStep
<1>2. Newest \in Nat /\ DOMAIN claims = 1 .. Newest
  BY <1>0, LenProperties DEF ClaimTypeInv, ClaimTypeOK, Newest
<1>3. ASSUME NEW v \in Values, NEW m \in Marks, NEW t \in Instants, Remember(v, m, t)
      PROVE  Starts' /\ Underway' /\ LogInv' /\ NothingForced'
  <2>1. /\ Newest' = Newest + 1
        /\ DOMAIN claims' = 1 .. Newest'
        /\ \A c \in DOMAIN claims : claims'[c] = claims[c]
        /\ claims'[Newest'].from = Unset
        /\ claims'[Newest'].to = Never
    BY <1>0, <1>3, RememberType
  <2>2. /\ doing' = "judge" /\ UNCHANGED <<kind, deleted, log, held>>
    BY <1>3 DEF Remember
  <2>3. DOMAIN claims' = DOMAIN claims \cup {Newest'} /\ Newest' \notin DOMAIN claims
    BY <1>2, <2>1
  <2>4. Starts'
    BY <1>0, <2>1, <2>3 DEF Starts
  <2>5. Underway'
    BY <2>2 DEF Underway
  <2>6. NothingForced'
    <3> SUFFICES ASSUME NEW c \in DOMAIN claims', claims'[c].to # Never
                 PROVE  \E d \in DOMAIN claims' :
                          /\ d > c /\ claims'[d].value # claims'[c].value
                          /\ \/ claims'[d].mark = "correction"
                             \/ claims'[d].mark = "change" /\ kind' = "one"
      BY DEF NothingForced, Never
    <3>1. c \in DOMAIN claims /\ claims'[c] = claims[c]
      BY <2>1, <2>3
    <3>2. PICK d \in DOMAIN claims :
            /\ d > c /\ claims[d].value # claims[c].value
            /\ \/ claims[d].mark = "correction"
               \/ claims[d].mark = "change" /\ kind = "one"
      BY <1>0, <3>1 DEF NothingForced
    <3>3. QED
      BY <2>1, <2>2, <2>3, <3>1, <3>2
  <2>7. LogInv'
    <3> SUFFICES ASSUME NEW n \in DOMAIN log, Logged(n)
                 PROVE  /\ log[n].claim # held /\ log[n].claim < Newest'
                        /\ log[n].state = "superseded" => SupersededAt(log[n].claim)'
                        /\ log[n].state = "corrected" => CorrectedAt(log[n].claim)'
                        /\ \A k \in DOMAIN log :
                              Logged(k) /\ log[k].claim = log[n].claim => k = n
      BY <2>2 DEF LogInv, Logged
    <3>1. log[n].claim \in DOMAIN claims
      BY <1>0 DEF ClaimTypeInv, ClaimTypeOK
    <3>2. claims'[log[n].claim] = claims[log[n].claim]
      BY <2>1, <3>1
    <3>3. log[n].claim < Newest'
      BY <1>2, <2>1, <3>1
    <3>4. /\ SupersededAt(log[n].claim) => SupersededAt(log[n].claim)'
          /\ CorrectedAt(log[n].claim) => CorrectedAt(log[n].claim)'
      BY <2>2, <3>2 DEF SupersededAt, CorrectedAt, Never
    <3>5. QED
      BY <1>0, <3>3, <3>4 DEF LogInv
  <2>8. QED
    BY <2>4, <2>5, <2>6, <2>7
<1>4. ASSUME UNCHANGED <<kind, claims, log>>, doing' \in {"nothing", doing},
             held' \in {0, held, Newest}, held' # held => doing' = "nothing"
      PROVE  Starts' /\ Underway' /\ LogInv' /\ NothingForced'
  <2>1. Starts' /\ NothingForced'
    BY <1>0, <1>4 DEF Starts, NothingForced
  <2>2. Underway'
    BY <1>0, <1>4 DEF Underway, SupersededAt, CorrectedAt
  <2>3. \A n \in DOMAIN log : log[n].claim \in DOMAIN claims
    BY <1>0 DEF ClaimTypeInv, ClaimTypeOK
  <2>4. \A n \in DOMAIN log : Logged(n) => log[n].claim # held'
    BY <1>0, <1>2, <1>4, <2>3 DEF LogInv
  <2>5. LogInv'
    BY <1>0, <1>4, <2>4 DEF LogInv, Logged, SupersededAt, CorrectedAt, Newest
  <2>6. QED
    BY <2>1, <2>2, <2>5
<1>5. CASE \/ HoldFirst \/ Abstain \/ (Empty /\ held \in deleted) \/ Reload
           \/ \E c \in DOMAIN claims : DeleteClaim(c)
  <2>1. /\ UNCHANGED <<kind, claims, log>> /\ doing' \in {"nothing", doing}
        /\ held' \in {0, held, Newest} /\ (held' # held => doing' = "nothing")
    BY <1>5 DEF HoldFirst, Abstain, Empty, Reload, DeleteClaim, claimVars
  <2>2. QED
    BY <1>0, <1>1, <1>4, <2>1 DEF ClaimInv
<1>6. CASE CloseOld \/ OpenNew \/ (Empty /\ held \notin deleted)
  BY <1>1, <1>6, WindowStep DEF ClaimInv
<1>7. CASE LogTransition \/ Repeat
  BY <1>1, <1>7, SpokenStep DEF ClaimInv
<1>8. ASSUME NEW v \in Values, NEW m \in Marks, NEW t \in Instants, Remember(v, m, t)
      PROVE  ClaimInv'
  BY <1>1, <1>3, <1>8 DEF ClaimInv
<1>9. CASE Empty
  BY <1>5, <1>6, <1>9
<1>10. CASE \E c \in DOMAIN claims : DeleteClaim(c)
  BY <1>5, <1>10
<1>11. CASE HoldFirst \/ Abstain \/ Reload
  BY <1>5, <1>11
<1>12. CASE CloseOld \/ OpenNew
  BY <1>6, <1>12
<1>13. CASE UNCHANGED claimVars
  BY <1>0, <1>1, <1>4, <1>13 DEF claimVars, ClaimInv
<1>14. QED
  BY <1>7, <1>8, <1>9, <1>10, <1>11, <1>12, <1>13 DEF ClaimNext

\* What state_of says of a claim is one line of the log: no other line that
\* changes the claim is there for its scan to find.
LEMMA StandsAsLogged ==
    ASSUME LogInv, ClaimTypeInv, NEW c, Standing(c) # "active"
    PROVE  \E n \in DOMAIN log : /\ Logged(n) /\ log[n].claim = c
                                 /\ Standing(c) = log[n].state
<1>1. Said(c) # {}
  BY DEF Standing
<1>2. PICK n \in DOMAIN log : log[n].claim = c /\ log[n].state # "active"
  BY <1>1 DEF Said
<1>3. Said(c) = {n}
  BY <1>2 DEF Said, LogInv, Logged
<1>4. n \in Nat
  BY LenProperties DEF ClaimTypeInv
<1>5. Max({n}) = n
  BY <1>4 DEF Max
<1>6. QED
  BY <1>1, <1>2, <1>3, <1>5 DEF Standing, Logged

\* A superseded value still answers for the moment it was observed, a corrected
\* one for none, and the log claims no change the windows do not show: whatever
\* is said, deleted or interrupted between the commits of a transition.
THEOREM TransitionsStayTrue == ClaimSpec => []TransitionsAreTrue
<1>1. ClaimInv => TransitionsAreTrue
  <2> SUFFICES ASSUME ClaimInv, NEW c \in DOMAIN claims
               PROVE  /\ Standing(c) = "superseded" \/ (doing = "open" /\ c = held) =>
                            claims[c].from <= claims[c].at /\ claims[c].at < claims[c].to
                      /\ Standing(c) = "corrected" => \A t \in Instants : ~ValidAt(c, t)
                      /\ Standing(c) # "active" => claims[c].to # Never
    BY DEF TransitionsAreTrue
  <2>0. ClaimTypeInv /\ Underway /\ LogInv
    BY DEF ClaimInv
  <2>1. claims[c].from \in Int
    BY <2>0, Judged DEF ClaimRows, Unset
  <2>2. ASSUME Standing(c) # "active"
        PROVE  /\ Standing(c) = "superseded" => SupersededAt(c)
               /\ Standing(c) = "corrected" => CorrectedAt(c)
               /\ claims[c].to # Never
    <3>1. PICK n \in DOMAIN log : /\ Logged(n) /\ log[n].claim = c
                                  /\ Standing(c) = log[n].state
      BY <2>0, <2>2, StandsAsLogged
    <3>2. log[n].state \in {"superseded", "corrected"}
      BY <2>0, <3>1 DEF ClaimTypeInv, ClaimTypeOK, Logged
    <3>3. QED
      BY <2>0, <3>1, <3>2 DEF LogInv, SupersededAt, CorrectedAt
  <2>3. CorrectedAt(c) => \A t \in Instants : ~ValidAt(c, t)
    BY <2>1 DEF CorrectedAt, ValidAt, Instants
  <2>4. QED
    BY <2>0, <2>2, <2>3 DEF Underway, SupersededAt
<1>2. QED
  BY <1>1, InitClaimInv, ClaimStep, PTL DEF ClaimSpec

\* No window closes but against a later statement of another value that says
\* in words that it corrects or changes it.
THEOREM NothingIsForced == ClaimSpec => []NothingForced
<1>1. ClaimInv => NothingForced
  BY DEF ClaimInv
<1>2. QED
  BY <1>1, InitClaimInv, ClaimStep, PTL DEF ClaimSpec

-----------------------------------------------------------------------------
(* Generations.  At most one file lies at the canonical path.               *)

GenerationTypeInv ==
    /\ locks \in BOOLEAN
    /\ \E n \in Generations : Made = 1 .. n
    /\ place \in [Made -> {"canonical", Overwritten} \cup Candidates]
    /\ \A g, k \in Canonical : g = k
    /\ sidecar \in {None} \cup Made
    /\ opened \in [Handles -> {None} \cup Made]
    /\ step \in {"idle", "main", "sidecars", "copy", "replace", "verify"}
    /\ candidate \in Candidates
    /\ installs \in [Candidates -> 0 .. MaxInstalls]

LEMMA GenerationCount ==
    ASSUME NEW n \in Nat, Made = 1 .. n
    PROVE  Cardinality(Made) = n /\ NextGeneration = n + 1
<1>1. Cardinality(1 .. n) = n
  BY FS_Interval
<1>2. QED
  BY <1>1 DEF NextGeneration

LEMMA InitGenerationType == GenerationInit => GenerationTypeInv
<1> SUFFICES ASSUME GenerationInit PROVE GenerationTypeInv
  OBVIOUS
<1>1. MaxInstalls \in Nat /\ MaxGenerations \in Nat \ {0}
  BY GenerationAssumption
<1>2. Made = 1 .. 1 /\ 1 \in Generations
  BY <1>1 DEF GenerationInit, Made, Generations
<1>3. Canonical \subseteq {1}
  BY <1>2 DEF Canonical
<1>4. QED
  BY <1>1, <1>2, <1>3 DEF GenerationInit, GenerationTypeInv, Made

\* A file appears at the canonical path, and what lay there does no more.
LEMMA Appears ==
    ASSUME GenerationTypeInv, NextGeneration \in Generations,
           NEW f \in [Made -> {Overwritten} \cup Candidates],
           place' = [x \in Made \cup {NextGeneration} |->
                       IF x = NextGeneration THEN "canonical" ELSE f[x]]
    PROVE  /\ \E n \in Generations : Made' = 1 .. n
           /\ Made' = Made \cup {NextGeneration} /\ NextGeneration \notin Made
           /\ place' \in [Made' -> {"canonical", Overwritten} \cup Candidates]
           /\ Canonical' = {NextGeneration}
<1>1. PICK n \in Generations : Made = 1 .. n
  BY DEF GenerationTypeInv
<1>2. n \in Nat /\ NextGeneration = n + 1
  BY <1>1, GenerationCount, GenerationAssumption DEF Generations
<1>3. Made' = Made \cup {NextGeneration}
  BY DEF Made
<1>4. Made' = 1 .. n + 1 /\ NextGeneration \notin Made
  BY <1>1, <1>2, <1>3
<1>5. Canonical' = {NextGeneration}
  BY <1>3, <1>4, GenerationAssumption DEF Canonical, Overwritten
<1>6. QED
  BY <1>2, <1>3, <1>4, <1>5

LEMMA GenerationType ==
    GenerationTypeInv /\ [GenerationNext]_generationVars => GenerationTypeInv'
<1> SUFFICES ASSUME GenerationTypeInv, [GenerationNext]_generationVars
             PROVE  GenerationTypeInv'
  OBVIOUS
<1>1. UNCHANGED locks
  BY DEF GenerationNext, generationVars
<1>2. ASSUME UNCHANGED place, sidecar' \in {None} \cup Made,
             opened' \in [Handles -> {None} \cup Made],
             step' \in {"idle", "main", "sidecars", "copy", "replace", "verify"},
             candidate' \in Candidates, installs' \in [Candidates -> 0 .. MaxInstalls]
      PROVE  GenerationTypeInv'
  BY <1>1, <1>2 DEF GenerationTypeInv, Made, Canonical
<1>3. ASSUME NEW h \in Handles, OpenStore(h) PROVE GenerationTypeInv'
  <2>1. UNCHANGED <<step, candidate, installs>>
    BY <1>3 DEF OpenStore
  <2>2. CASE Canonical # {}
    <3>1. UNCHANGED <<place, sidecar>> /\ \E g \in Made : opened' = [opened EXCEPT ![h] = g]
      BY <1>3, <2>2 DEF OpenStore, Canonical
    <3>2. opened' \in [Handles -> {None} \cup Made]
      BY <3>1 DEF GenerationTypeInv
    <3>3. QED
      BY <1>2, <2>1, <3>1, <3>2 DEF GenerationTypeInv
  <2>3. CASE Canonical = {}
    <3>1. /\ NextGeneration \in Generations /\ place' = With(NextGeneration, "canonical")
          /\ sidecar' = None /\ opened' = [opened EXCEPT ![h] = NextGeneration]
      BY <1>3, <2>3 DEF OpenStore
    <3>2. place \in [Made -> {Overwritten} \cup Candidates]
      BY <2>3 DEF GenerationTypeInv, Canonical
    <3>3. /\ \E n \in Generations : Made' = 1 .. n
          /\ Made' = Made \cup {NextGeneration}
          /\ place' \in [Made' -> {"canonical", Overwritten} \cup Candidates]
          /\ Canonical' = {NextGeneration}
      BY <3>1, <3>2, Appears DEF With
    <3>4. opened' \in [Handles -> {None} \cup Made']
      BY <3>1, <3>3 DEF GenerationTypeInv
    <3>5. QED
      BY <1>1, <2>1, <3>1, <3>3, <3>4 DEF GenerationTypeInv
  <2>4. QED
    BY <2>2, <2>3
<1>4. ASSUME NEW h \in Handles, WriteStore(h) \/ CloseStore(h) PROVE GenerationTypeInv'
  <2>1. UNCHANGED <<place, step, candidate, installs>>
    BY <1>4 DEF WriteStore, CloseStore
  <2>2. sidecar' \in {None} \cup Made
    BY <1>4 DEF WriteStore, CloseStore, GenerationTypeInv, Canonical
  <2>3. opened' \in [Handles -> {None} \cup Made]
    BY <1>4 DEF WriteStore, CloseStore, GenerationTypeInv
  <2>4. QED
    BY <1>2, <2>1, <2>2, <2>3 DEF GenerationTypeInv
<1>5. ASSUME NEW c \in Candidates, Certify(c) PROVE GenerationTypeInv'
  <2>1. installs' \in [Candidates -> 0 .. MaxInstalls]
    BY <1>5, GenerationAssumption DEF Certify, GenerationTypeInv
  <2>2. QED
    BY <1>2, <1>5, <2>1 DEF Certify, GenerationTypeInv
<1>6. CASE MoveMain
  <2>1. UNCHANGED <<sidecar, opened, candidate, installs>>
    BY <1>6 DEF MoveMain
  <2>2. CASE UNCHANGED place
    BY <1>2, <1>6, <2>1, <2>2 DEF MoveMain, GenerationTypeInv
  <2>3. CASE place' = MovedAside /\ step' = "sidecars"
    <3>1. Made' = Made /\ place' \in [Made -> {Overwritten} \cup Candidates]
      BY <2>3 DEF MovedAside, Made, GenerationTypeInv
    <3>2. Canonical' = {}
      BY <3>1, GenerationAssumption DEF Canonical, Overwritten
    <3>3. QED
      BY <1>1, <2>1, <2>3, <3>1, <3>2 DEF GenerationTypeInv
  <2>4. QED
    BY <1>6, <2>2, <2>3 DEF MoveMain
<1>7. CASE ReplaceCanonical
  <2>1. UNCHANGED <<sidecar, opened, candidate, installs>>
    BY <1>7 DEF ReplaceCanonical
  <2>2. CASE UNCHANGED place
    BY <1>2, <1>7, <2>1, <2>2 DEF ReplaceCanonical, GenerationTypeInv
  <2>3. CASE ~Locked(Canonical)
    <3> DEFINE f == [g \in Made |-> IF place[g] = "canonical" THEN Overwritten
                                    ELSE place[g]]
    <3>1. f \in [Made -> {Overwritten} \cup Candidates]
      BY DEF GenerationTypeInv
    <3>2. /\ step' = "verify" /\ NextGeneration \in Generations
          /\ place' = [g \in Made \cup {NextGeneration} |->
                           IF g = NextGeneration THEN "canonical"
                           ELSE IF place[g] = "canonical" THEN Overwritten
                           ELSE place[g]]
      BY <1>7, <2>3 DEF ReplaceCanonical
    <3>3. place' = [g \in Made \cup {NextGeneration} |->
                      IF g = NextGeneration THEN "canonical" ELSE f[g]]
      BY <3>2
    <3> HIDE DEF f
    <3>4. /\ \E n \in Generations : Made' = 1 .. n
          /\ Made' = Made \cup {NextGeneration}
          /\ place' \in [Made' -> {"canonical", Overwritten} \cup Candidates]
          /\ Canonical' = {NextGeneration}
      BY <3>1, <3>2, <3>3, Appears
    <3>5. opened' \in [Handles -> {None} \cup Made'] /\ sidecar' \in {None} \cup Made'
      BY <2>1, <3>4 DEF GenerationTypeInv
    <3>6. QED
      BY <1>1, <2>1, <3>2, <3>4, <3>5 DEF GenerationTypeInv
  <2>4. QED
    BY <1>7, <2>2, <2>3 DEF ReplaceCanonical
<1>8. CASE MoveSidecars \/ CopyCandidate \/ VerifyInstalled \/ InstallerDies
  BY <1>2, <1>8
  DEF MoveSidecars, CopyCandidate, VerifyInstalled, InstallerDies, GenerationTypeInv
<1>9. CASE UNCHANGED generationVars
  BY <1>2, <1>9 DEF generationVars, GenerationTypeInv
<1>10. QED
  BY <1>3, <1>4, <1>5, <1>6, <1>7, <1>8, <1>9 DEF GenerationNext

\* At most one file is at the canonical path, and the files are numbered as they
\* appeared, whatever is opened, installed or interrupted.
THEOREM GenerationTypeCorrect == GenerationSpec => []GenerationTypeOK
<1>1. GenerationTypeInv => GenerationTypeOK
  <2> SUFFICES ASSUME GenerationTypeInv PROVE GenerationTypeOK
    OBVIOUS
  <2>1. PICK n \in Generations : Made = 1 .. n
    BY DEF GenerationTypeInv
  <2>2. n \in Nat /\ n <= MaxGenerations
    BY GenerationAssumption DEF Generations
  <2>3. Cardinality(Made) = n
    BY <2>1, <2>2, GenerationCount
  <2>4. Made \subseteq Generations
    BY <2>1, <2>2, GenerationAssumption DEF Generations
  <2>5. Cardinality(Canonical) <= 1
    <3>1. CASE Canonical = {}
      BY <3>1, FS_EmptySet
    <3>2. CASE Canonical # {}
      <4>1. PICK g : g \in Canonical
        BY <3>2
      <4>2. \A k \in Canonical : k = g
        BY <4>1 DEF GenerationTypeInv
      <4>3. Canonical = {g}
        BY <4>1, <4>2
      <4>4. QED
        BY <4>3, FS_Singleton
    <3>3. QED
      BY <3>1, <3>2
  <2>6. QED
    BY <2>1, <2>3, <2>4, <2>5 DEF GenerationTypeInv, GenerationTypeOK
<1>2. QED
  BY <1>1, InitGenerationType, GenerationType, PTL DEF GenerationSpec

-----------------------------------------------------------------------------
(* Generations: where an install is.  While nobody opens the store during    *)
(* one, nothing is at the canonical path between the first move and the      *)
(* rename, nor a -wal between the second and the rename.                     *)

InstallInv ==
    /\ step \in {"sidecars", "copy", "replace"} => Canonical = {}
    /\ step \in {"copy", "replace"} => sidecar = None

GenerationInv == GenerationTypeInv /\ InstallInv /\ NoHybrid

LEMMA GenerationStep ==
    ASSUME ~OpenAnytime
    PROVE  GenerationInv /\ [GenerationNext]_generationVars => GenerationInv'
<1> SUFFICES ASSUME GenerationInv, [GenerationNext]_generationVars PROVE GenerationInv'
  OBVIOUS
<1>0. GenerationTypeInv /\ InstallInv /\ NoHybrid
  BY DEF GenerationInv
<1>1. GenerationTypeInv'
  BY <1>0, GenerationType
<1>2. ASSUME UNCHANGED <<place, sidecar>>,
             step' \in {"sidecars", "copy", "replace"} =>
                 step' = step \/ (step = "copy" /\ step' = "replace")
      PROVE  GenerationInv'
  <2>1. Canonical' = Canonical
    BY <1>2 DEF Canonical, Made
  <2>2. QED
    BY <1>0, <1>1, <1>2, <2>1 DEF GenerationInv, InstallInv, NoHybrid
<1>3. ASSUME NEW h \in Handles, OpenStore(h) PROVE GenerationInv'
  <2>1. step = "idle" /\ step' = step
    BY <1>3 DEF OpenStore, Idle
  <2>2. CASE Canonical # {}
    BY <1>2, <1>3, <2>1, <2>2 DEF OpenStore
  <2>3. CASE Canonical = {}
    BY <1>1, <1>3, <2>1, <2>3 DEF OpenStore, GenerationInv, InstallInv, NoHybrid
  <2>4. QED
    BY <2>2, <2>3
<1>4. ASSUME NEW h \in Handles, WriteStore(h) \/ CloseStore(h) PROVE GenerationInv'
  <2>1. UNCHANGED <<place, step>> /\ Canonical' = Canonical
    BY <1>4 DEF WriteStore, CloseStore, Canonical, Made
  <2>2. sidecar' \in {sidecar, None} \/ (sidecar' \in Canonical)
    BY <1>4 DEF WriteStore, CloseStore
  <2>3. QED
    BY <1>0, <1>1, <2>1, <2>2 DEF GenerationInv, InstallInv, NoHybrid, GenerationTypeInv
<1>5. ASSUME NEW c \in Candidates, Certify(c) PROVE GenerationInv'
  BY <1>2, <1>5 DEF Certify
<1>6. CASE MoveMain
  <2>1. CASE Locked(Canonical)
    BY <1>2, <1>6, <2>1 DEF MoveMain
  <2>2. CASE ~Locked(Canonical)
    <3>1. step' = "sidecars" /\ place' = MovedAside
      BY <1>6, <2>2 DEF MoveMain
    <3>2. Made' = Made /\ \A g \in Made : place'[g] # "canonical"
      BY <1>0, <3>1, GenerationAssumption
      DEF MovedAside, Made, GenerationTypeInv, Overwritten
    <3>3. Canonical' = {}
      BY <3>2 DEF Canonical
    <3>4. QED
      BY <1>1, <3>1, <3>3 DEF GenerationInv, InstallInv, NoHybrid
  <2>3. QED
    BY <2>1, <2>2
<1>7. CASE MoveSidecars
  <2>1. Canonical' = Canonical /\ Canonical = {} /\ sidecar' = None
    BY <1>0, <1>7 DEF MoveSidecars, Canonical, Made, InstallInv
  <2>2. QED
    BY <1>1, <2>1 DEF GenerationInv, InstallInv, NoHybrid
<1>8. CASE ReplaceCanonical
  <2>1. sidecar' = None /\ step' \notin {"sidecars", "copy", "replace"}
    BY <1>0, <1>8 DEF ReplaceCanonical, InstallInv
  <2>2. QED
    BY <1>1, <2>1 DEF GenerationInv, InstallInv, NoHybrid
<1>9. CASE CopyCandidate \/ VerifyInstalled \/ InstallerDies
  BY <1>2, <1>9 DEF CopyCandidate, VerifyInstalled, InstallerDies
<1>10. CASE UNCHANGED generationVars
  BY <1>2, <1>10 DEF generationVars
<1>11. QED
  BY <1>3, <1>4, <1>5, <1>6, <1>7, <1>8, <1>9, <1>10 DEF GenerationNext

LEMMA InitGeneration == GenerationInit => GenerationInv
<1>1. GenerationInit => InstallInv /\ NoHybrid
  BY DEF GenerationInit, InstallInv, NoHybrid
<1>2. QED
  BY <1>1, InitGenerationType DEF GenerationInv

\* While no other process opens the store during an install, the -wal beside the
\* canonical file is its own, wherever an install stopped or was interrupted.
THEOREM NoStepLeavesAHybrid ==
    ASSUME ~OpenAnytime
    PROVE  GenerationSpec => []NoHybrid
<1>1. GenerationInv => NoHybrid
  BY DEF GenerationInv
<1>2. GenerationInv /\ [GenerationNext]_generationVars => GenerationInv'
  BY GenerationStep
<1>3. QED
  BY <1>1, <1>2, InitGeneration, PTL DEF GenerationSpec

(* Generations: the bundle of a candidate is used once.  What lies in a      *)
(* bundle was moved there by an install of that candidate, so the first      *)
(* finds it free; and the rename finds the canonical path free.              *)

BundleInv ==
    /\ \A g \in Made : place[g] \in Candidates => installs[place[g]] > 0
    /\ step # "idle" => installs[candidate] > 0
    /\ step = "main" => \A g \in Made : place[g] # candidate

WholeInv == GenerationInv /\ BundleInv /\ NoneOverwritten

LEMMA WholeStep ==
    ASSUME ~OpenAnytime, MaxInstalls = 1
    PROVE  WholeInv /\ [GenerationNext]_generationVars => WholeInv'
<1> SUFFICES ASSUME WholeInv, [GenerationNext]_generationVars PROVE WholeInv'
  OBVIOUS
<1>0. GenerationInv /\ GenerationTypeInv /\ InstallInv /\ BundleInv /\ NoneOverwritten
  BY DEF WholeInv, GenerationInv
<1>1. GenerationInv'
  BY <1>0, GenerationStep
<1>2. \A c \in Candidates : installs[c] \in 0 .. 1
  BY <1>0 DEF GenerationTypeInv
<1>3. ASSUME UNCHANGED <<place, candidate, installs>>,
             step' \in {step, "idle"} \/ (step # "idle" /\ step' # "main")
      PROVE  WholeInv'
  <2>1. BundleInv' /\ NoneOverwritten'
    BY <1>0, <1>3 DEF BundleInv, NoneOverwritten, Made
  <2>2. QED
    BY <1>1, <2>1 DEF WholeInv
<1>4. ASSUME NEW h \in Handles, OpenStore(h) PROVE WholeInv'
  <2>1. step = "idle" /\ UNCHANGED <<step, candidate, installs>>
    BY <1>4 DEF OpenStore, Idle
  <2>2. CASE Canonical # {}
    BY <1>3, <1>4, <2>1, <2>2 DEF OpenStore
  <2>3. CASE Canonical = {}
    <3>1. /\ NextGeneration \in Generations
          /\ place' = [x \in Made \cup {NextGeneration} |->
                        IF x = NextGeneration THEN "canonical" ELSE place[x]]
      BY <1>4, <2>3 DEF OpenStore, With
    <3>2. place \in [Made -> {Overwritten} \cup Candidates]
      BY <1>0, <2>3 DEF GenerationTypeInv, Canonical
    <3>3. Made' = Made \cup {NextGeneration} /\ NextGeneration \notin Made
      BY <1>0, <3>1, <3>2, Appears
    <3>4. /\ place'[NextGeneration] = "canonical"
          /\ \A g \in Made : place'[g] = place[g]
      BY <3>1, <3>3
    <3>5. BundleInv' /\ NoneOverwritten'
      BY <1>0, <2>1, <3>3, <3>4, GenerationAssumption
      DEF BundleInv, NoneOverwritten, Overwritten
    <3>6. QED
      BY <1>1, <3>5 DEF WholeInv
  <2>4. QED
    BY <2>2, <2>3
<1>5. ASSUME NEW h \in Handles, WriteStore(h) \/ CloseStore(h) PROVE WholeInv'
  BY <1>3, <1>5 DEF WriteStore, CloseStore
<1>6. ASSUME NEW c \in Candidates, Certify(c) PROVE WholeInv'
  <2>1. /\ installs[c] = 0 /\ installs' = [installs EXCEPT ![c] = @ + 1]
        /\ UNCHANGED place /\ candidate' = c /\ step' = "main"
    BY <1>2, <1>6 DEF Certify
  <2>2. \A d \in Candidates : installs'[d] >= installs[d]
    BY <1>0, <1>2, <2>1 DEF GenerationTypeInv
  <2>3. installs'[c] > 0
    BY <1>0, <2>1 DEF GenerationTypeInv
  <2>4. \A g \in Made : place[g] # c
    BY <1>0, <2>1 DEF BundleInv
  <2>5. Made' = Made /\ NoneOverwritten'
    BY <1>0, <2>1 DEF Made, NoneOverwritten
  <2>6. \A g \in Made : place[g] \in Candidates => installs'[place[g]] > 0
    <3>1. TAKE g \in Made
    <3>2. HAVE place[g] \in Candidates
    <3>3. installs[place[g]] > 0 /\ installs'[place[g]] >= installs[place[g]]
      BY <1>0, <2>2, <3>2 DEF BundleInv
    <3>4. installs'[place[g]] \in Int /\ installs[place[g]] \in Int
      BY <1>1, <1>0, <3>2 DEF GenerationInv, GenerationTypeInv
    <3>5. QED
      BY <3>3, <3>4
  <2>7. BundleInv'
    BY <2>1, <2>3, <2>4, <2>5, <2>6 DEF BundleInv
  <2>8. QED
    BY <1>1, <2>5, <2>7 DEF WholeInv
<1>7. CASE MoveMain
  <2>1. UNCHANGED <<candidate, installs>> /\ step = "main"
    BY <1>7 DEF MoveMain
  <2>2. CASE Locked(Canonical)
    BY <1>3, <1>7, <2>1, <2>2 DEF MoveMain
  <2>3. CASE ~Locked(Canonical)
    <3>1. step' = "sidecars" /\ place' = MovedAside
      BY <1>7, <2>3 DEF MoveMain
    <3>2. /\ Made' = Made
          /\ \A g \in Made : place'[g] = IF place[g] = "canonical" THEN candidate
                                         ELSE place[g]
      BY <1>0, <2>1, <3>1 DEF MovedAside, Made, BundleInv
    <3>3. candidate # Overwritten /\ installs[candidate] > 0
      BY <1>0, <2>1, GenerationAssumption DEF BundleInv, GenerationTypeInv, Overwritten
    <3>4. BundleInv' /\ NoneOverwritten'
      BY <1>0, <2>1, <3>1, <3>2, <3>3 DEF BundleInv, NoneOverwritten
    <3>5. QED
      BY <1>1, <3>4 DEF WholeInv
  <2>4. QED
    BY <2>2, <2>3
<1>8. CASE ReplaceCanonical
  <2>1. UNCHANGED <<candidate, installs>> /\ step = "replace" /\ Canonical = {}
    BY <1>0, <1>8 DEF ReplaceCanonical, InstallInv
  <2>2. CASE Locked(Canonical)
    BY <1>3, <1>8, <2>1, <2>2 DEF ReplaceCanonical
  <2>3. CASE ~Locked(Canonical)
    <3>1. place \in [Made -> {Overwritten} \cup Candidates]
      BY <1>0, <2>1 DEF GenerationTypeInv, Canonical
    <3>2. /\ step' = "verify" /\ NextGeneration \in Generations
          /\ place' = [g \in Made \cup {NextGeneration} |->
                           IF g = NextGeneration THEN "canonical"
                           ELSE IF place[g] = "canonical" THEN Overwritten
                           ELSE place[g]]
      BY <1>8, <2>3 DEF ReplaceCanonical
    <3>3. \A g \in Made : place[g] # "canonical"
      BY <2>1 DEF Canonical
    <3>4. place' = [x \in Made \cup {NextGeneration} |->
                      IF x = NextGeneration THEN "canonical" ELSE place[x]]
      BY <3>2, <3>3
    <3>5. Made' = Made \cup {NextGeneration} /\ NextGeneration \notin Made
      BY <1>0, <3>1, <3>2, <3>4, Appears
    <3>6. /\ place'[NextGeneration] = "canonical"
          /\ \A g \in Made : place'[g] = place[g]
      BY <3>4, <3>5
    <3>7. BundleInv' /\ NoneOverwritten'
      BY <1>0, <2>1, <3>2, <3>5, <3>6, GenerationAssumption
      DEF BundleInv, NoneOverwritten, Overwritten
    <3>8. QED
      BY <1>1, <3>7 DEF WholeInv
  <2>4. QED
    BY <2>2, <2>3
<1>9. CASE MoveSidecars \/ CopyCandidate \/ VerifyInstalled \/ InstallerDies
  BY <1>3, <1>9
  DEF MoveSidecars, CopyCandidate, VerifyInstalled, InstallerDies, Idle
<1>10. CASE UNCHANGED generationVars
  BY <1>3, <1>10 DEF generationVars
<1>11. QED
  BY <1>4, <1>5, <1>6, <1>7, <1>8, <1>9, <1>10 DEF GenerationNext

\* Where each candidate is installed at most once and nobody opens the store
\* during an install, every file that ever served still lies where it was moved.
THEOREM NoGenerationIsLost ==
    ASSUME ~OpenAnytime, MaxInstalls = 1
    PROVE  GenerationSpec => []NoneOverwritten
<1>1. WholeInv => NoneOverwritten
  BY DEF WholeInv
<1>2. WholeInv /\ [GenerationNext]_generationVars => WholeInv'
  BY WholeStep
<1>3. GenerationInit => WholeInv
  <2>1. GenerationInit => BundleInv /\ NoneOverwritten
    BY GenerationAssumption DEF GenerationInit, BundleInv, NoneOverwritten, Made, Overwritten
  <2>2. QED
    BY <2>1, InitGeneration DEF WholeInv
<1>4. QED
  BY <1>1, <1>2, <1>3, PTL DEF GenerationSpec

-----------------------------------------------------------------------------
(* Packets.                                                                 *)

LEMMA InitContextType == ContextInit => ContextTypeOK
<1> SUFFICES ASSUME ContextInit PROVE ContextTypeOK
  OBVIOUS
<1>1. NoCompile \in Compile
  BY DEF NoCompile, Compile, Places
<1>2. QED
  BY <1>1, ContextAssumption DEF ContextInit, ContextTypeOK

\* What a packet or a call of a place must hold, or be excused for.
Due == (active \ Simulated) \ (unannounced \cup unheard)
HoldsOf(due, excused, place0, found) ==
    \A m \in due : Sees(place0, m) => m \in found \/ <<place0, m>> \in excused
Holds(place0, found) == HoldsOf(Due, overtaken, place0, found)

\* A call that has recalled holds what its packet will have to.
CallsAreCurrent ==
    \A c \in Compilers : compiles[c].at \in {"look_again", "cache"} =>
        Holds(compiles[c].place, compiles[c].found)

ContextInv == ContextTypeOK /\ CallsAreCurrent /\ PacketsAreCurrent

LEMMA PacketsHold ==
    PacketsAreCurrent <=> \A w \in Places : packets[w] # NoPacket => Holds(w, packets[w])
  BY DEF PacketsAreCurrent, Holds, HoldsOf, Due

LEMMA PacketsHoldNext ==
    ASSUME \A w \in Places : packets'[w] # NoPacket =>
               HoldsOf(Due', overtaken', w, packets'[w])
    PROVE  PacketsAreCurrent'
  BY DEF PacketsAreCurrent, HoldsOf, Due

LEMMA ContextStep == ContextInv /\ [ContextNext]_cacheVars => ContextInv'
<1> SUFFICES ASSUME ContextInv, [ContextNext]_cacheVars PROVE ContextInv'
  OBVIOUS
<1>0. /\ ContextTypeOK /\ CallsAreCurrent
      /\ \A w \in Places : packets[w] # NoPacket => Holds(w, packets[w])
  BY PacketsHold DEF ContextInv
<1> DEFINE Kept == \A w \in Places, f \in SUBSET Memories :
                      Holds(w, f) => HoldsOf(Due', overtaken', w, f)
<1>1. \A c \in Compilers : compiles[c] \in Compile /\ compiles[c].place \in Places
                           /\ compiles[c].found \in SUBSET Memories
  BY <1>0 DEF ContextTypeOK, Compile
<1>2. \A w \in Places : packets[w] # NoPacket => packets[w] \in SUBSET Memories
  BY <1>0 DEF ContextTypeOK
\* Steps of writers that invalidate nothing.
<1>3. ASSUME Kept, UNCHANGED <<packets, compiles, compiled, overtaken>>,
             (active \cup unannounced \cup unheard \cup gone)' \subseteq Memories,
             outlived' \subseteq Places \X Memories
      PROVE  ContextInv'
  <2>1. ContextTypeOK'
    BY <1>0, <1>3 DEF ContextTypeOK
  <2>2. CallsAreCurrent'
    BY <1>0, <1>1, <1>3 DEF CallsAreCurrent, Holds
  <2>3. \A w \in Places : packets'[w] # NoPacket => HoldsOf(Due', overtaken', w, packets'[w])
    BY <1>0, <1>2, <1>3
  <2>4. QED
    BY <2>1, <2>2, <2>3, PacketsHoldNext DEF ContextInv
<1>4. ASSUME NEW m \in Memories, Remembered(m) \/ WriterDies(m) \/ Delete(m)
      PROVE  ContextInv'
  <2>1. Kept
    BY <1>4 DEF Remembered, WriterDies, Delete, Holds, HoldsOf, Due
  <2>2. /\ UNCHANGED <<packets, compiles, compiled, overtaken>>
        /\ (active \cup unannounced \cup unheard \cup gone)' \subseteq Memories
    BY <1>0, <1>4 DEF Remembered, WriterDies, Delete, ContextTypeOK
  <2>3. outlived' \subseteq Places \X Memories
    <3>1. outlived \subseteq Places \X Memories /\ Quoting(m) \subseteq Places
      BY <1>0 DEF ContextTypeOK, Quoting
    <3>2. outlived' = outlived \/ outlived' = outlived \cup (Quoting(m) \X {m})
      BY <1>4 DEF Remembered, WriterDies, Delete
    <3>3. QED
      BY <3>1, <3>2
  <2>4. QED
    BY <1>3, <2>1, <2>2, <2>3
<1>5. ASSUME NEW m \in Memories, InvalidateScope(m) PROVE ContextInv'
  <2> DEFINE late == {c \in Compilers : /\ compiles[c].at \in {"look_again", "cache"}
                                        /\ m \notin compiles[c].found}
  <2>1. /\ unannounced' = unannounced \ {m}
        /\ packets' = [w \in Places |-> IF Stale(m, w) THEN NoPacket ELSE packets[w]]
        /\ overtaken' = overtaken \cup {<<compiles[c].place, m>> : c \in late}
        /\ outlived' \subseteq outlived
        /\ UNCHANGED <<active, compiles, compiled, unheard, gone>>
    BY <1>5 DEF InvalidateScope
  <2>2. overtaken' \subseteq Places \X Memories
    BY <1>0, <1>1, <2>1 DEF ContextTypeOK
  <2>3. packets' \in [Places -> (SUBSET Memories) \cup {NoPacket}]
    BY <1>0, <2>1 DEF ContextTypeOK
  <2>4. ContextTypeOK'
    BY <1>0, <2>1, <2>2, <2>3 DEF ContextTypeOK
  <2>5. ASSUME NEW w \in Places, NEW f \in SUBSET Memories, Holds(w, f),
               Sees(w, m) => m \in f \/ <<w, m>> \in overtaken'
        PROVE  HoldsOf(Due', overtaken', w, f)
    <3> HIDE DEF late
    <3>1. QED
      BY <2>1, <2>5 DEF Holds, HoldsOf, Due
  <2>6. CallsAreCurrent'
    <3> SUFFICES ASSUME NEW c \in Compilers, compiles[c].at \in {"look_again", "cache"}
                 PROVE  HoldsOf(Due', overtaken', compiles[c].place, compiles[c].found)
      BY <2>1 DEF CallsAreCurrent, Holds
    <3>1. m \in compiles[c].found \/ <<compiles[c].place, m>> \in overtaken'
      BY <2>1
    <3>2. Holds(compiles[c].place, compiles[c].found)
      BY <1>0 DEF CallsAreCurrent, Holds
    <3>3. compiles' = compiles
      BY <2>1
    <3> HIDE DEF late
    <3>4. QED
      BY <1>1, <2>5, <3>1, <3>2, <3>3
  <2>7. \A w \in Places : packets'[w] # NoPacket => HoldsOf(Due', overtaken', w, packets'[w])
    <3> SUFFICES ASSUME NEW w \in Places, packets'[w] # NoPacket
                 PROVE  HoldsOf(Due', overtaken', w, packets'[w])
      OBVIOUS
    <3>1. ~Stale(m, w) /\ packets'[w] = packets[w]
      BY <2>1
    <3>2. ~Sees(w, m)
      BY <3>1 DEF Sees, Stale
    <3>3. Holds(w, packets[w]) /\ packets[w] \in SUBSET Memories
      BY <1>0, <1>2, <3>1
    <3>4. QED
      BY <2>5, <3>1, <3>2, <3>3
  <2>8. QED
    BY <2>4, <2>6, <2>7, PacketsHoldNext DEF ContextInv
\* Steps of a compiler.
<1>6. ASSUME NEW c \in Compilers, NEW call \in Compile,
             UNCHANGED <<active, unannounced, unheard, gone, overtaken>>,
             outlived' \subseteq outlived,
             compiles' = [compiles EXCEPT ![c] = call], compiled' \in 0 .. MaxCompiles,
             call.at \in {"look_again", "cache"} => Holds(call.place, call.found),
             packets' \in [Places -> (SUBSET Memories) \cup {NoPacket}],
             \A w \in Places : packets'[w] # packets[w] => Holds(w, packets'[w])
      PROVE  ContextInv'
  <2>1. ContextTypeOK'
    BY <1>0, <1>6 DEF ContextTypeOK
  <2>2. CallsAreCurrent'
    <3> SUFFICES ASSUME NEW d \in Compilers, compiles'[d].at \in {"look_again", "cache"}
                 PROVE  HoldsOf(Due', overtaken', compiles'[d].place, compiles'[d].found)
      BY DEF CallsAreCurrent, Holds
    <3>1. Holds(compiles'[d].place, compiles'[d].found)
      BY <1>0, <1>6 DEF CallsAreCurrent, ContextTypeOK
    <3>2. QED
      BY <1>6, <3>1 DEF Holds, Due
  <2>3. \A w \in Places : packets'[w] # NoPacket => HoldsOf(Due', overtaken', w, packets'[w])
    <3> SUFFICES ASSUME NEW w \in Places, packets'[w] # NoPacket
                 PROVE  HoldsOf(Due', overtaken', w, packets'[w])
      OBVIOUS
    <3>1. Holds(w, packets'[w])
      BY <1>0, <1>6
    <3>2. QED
      BY <1>6, <3>1 DEF Holds, Due
  <2>4. QED
    BY <2>1, <2>2, <2>3, PacketsHoldNext DEF ContextInv
<1>7. ASSUME NEW c \in Compilers, NEW p \in Places, NEW sim \in BOOLEAN, Ask(c, p, sim)
      PROVE  ContextInv'
  <2> DEFINE call == [NoCompile EXCEPT !.at = "recall", !.place = p, !.simulations = sim]
  <2>1. call \in Compile /\ call.at = "recall"
    BY DEF NoCompile, Compile, Places
  <2>2. /\ compiles' = [compiles EXCEPT ![c] = call]
        /\ UNCHANGED <<active, unannounced, packets, unheard, gone, outlived, overtaken>>
    BY <1>7 DEF Ask, Advance
  <2>3. compiled' \in 0 .. MaxCompiles
    BY <1>0, <1>7, ContextAssumption DEF Ask, ContextTypeOK
  <2>4. packets' \in [Places -> (SUBSET Memories) \cup {NoPacket}]
    BY <1>0, <2>2 DEF ContextTypeOK
  <2> HIDE DEF call
  <2>5. QED
    BY <1>6, <2>1, <2>2, <2>3, <2>4
<1>8. ASSUME NEW c \in Compilers, Recall(c) PROVE ContextInv'
  <2> DEFINE found == {m \in active : /\ Sees(compiles[c].place, m)
                                      /\ m \in Simulated => compiles[c].simulations}
             call == [compiles[c] EXCEPT !.at = "look_again", !.found = found]
  <2>1. found \in SUBSET Memories
    BY <1>0 DEF ContextTypeOK
  <2>2. Holds(compiles[c].place, found)
    BY DEF Holds, HoldsOf, Due
  <2>3. /\ compiles' = [compiles EXCEPT ![c] = call]
        /\ UNCHANGED <<active, unannounced, packets, compiled, unheard, gone, outlived, overtaken>>
    <3>1. compiles' = [compiles EXCEPT ![c] = call]
      BY <1>8 DEF Recall, Advance
    <3>2. UNCHANGED <<active, unannounced, packets, compiled, unheard, gone, outlived, overtaken>>
      BY <1>8 DEF Recall
    <3>3. QED
      BY <3>1, <3>2
  <2> HIDE DEF found
  <2>4. call \in Compile /\ call.place = compiles[c].place /\ call.found = found
    BY <1>1, <2>1 DEF Compile
  <2> HIDE DEF call
  <2>5. Holds(call.place, call.found)
    BY <2>2, <2>4
  <2>6. /\ packets' \in [Places -> (SUBSET Memories) \cup {NoPacket}]
        /\ compiled' \in 0 .. MaxCompiles
    BY <1>0, <2>3 DEF ContextTypeOK
  <2>7. QED
    BY <1>6, <2>3, <2>4, <2>5, <2>6
<1>9. ASSUME NEW c \in Compilers, LookAgain(c) PROVE ContextInv'
  <2> DEFINE call == IF packets[compiles[c].place] # NoPacket THEN NoCompile
                     ELSE [compiles[c] EXCEPT !.at = "cache"]
  <2>1. /\ compiles[c].at = "look_again"
        /\ compiles' = [compiles EXCEPT ![c] = call]
        /\ UNCHANGED <<active, unannounced, packets, compiled, unheard, gone, outlived, overtaken>>
    BY <1>9 DEF LookAgain, Advance
  <2>2. Holds(compiles[c].place, compiles[c].found)
    BY <1>0, <2>1 DEF CallsAreCurrent, Holds
  <2>3. /\ call \in Compile
        /\ call.at = "idle" \/ (call.place = compiles[c].place /\ call.found = compiles[c].found)
    BY <1>1 DEF Compile, NoCompile, Places
  <2> HIDE DEF call
  <2>4. call.at \in {"look_again", "cache"} => Holds(call.place, call.found)
    BY <2>2, <2>3
  <2>5. /\ packets' \in [Places -> (SUBSET Memories) \cup {NoPacket}]
        /\ compiled' \in 0 .. MaxCompiles
    BY <1>0, <2>1 DEF ContextTypeOK
  <2>6. QED
    BY <1>6, <2>1, <2>3, <2>4, <2>5
<1>10. ASSUME NEW c \in Compilers, CachePacket(c) PROVE ContextInv'
  <2>1. /\ compiles[c].at = "cache"
        /\ packets' = [packets EXCEPT ![compiles[c].place] = compiles[c].found]
        /\ compiles' = [compiles EXCEPT ![c] = NoCompile]
        /\ outlived' \subseteq outlived
        /\ UNCHANGED <<active, unannounced, compiled, unheard, gone, overtaken>>
    BY <1>10 DEF CachePacket, Advance
  <2>2. Holds(compiles[c].place, compiles[c].found)
    BY <1>0, <2>1 DEF CallsAreCurrent, Holds
  <2>3. NoCompile \in Compile /\ NoCompile.at = "idle"
    BY DEF NoCompile, Compile, Places
  <2>4. packets' \in [Places -> (SUBSET Memories) \cup {NoPacket}]
    BY <1>0, <1>1, <2>1 DEF ContextTypeOK
  <2>5. \A w \in Places : packets'[w] # packets[w] => Holds(w, packets'[w])
    <3>1. \A w \in Places : packets'[w] = IF w = compiles[c].place
                                          THEN compiles[c].found ELSE packets[w]
      BY <1>0, <1>1, <2>1 DEF ContextTypeOK
    <3>2. QED
      BY <2>2, <3>1
  <2>6. compiled' \in 0 .. MaxCompiles
    BY <1>0, <2>1 DEF ContextTypeOK
  <2>7. QED
    BY <1>6, <2>1, <2>3, <2>4, <2>5, <2>6
<1>11. CASE UNCHANGED cacheVars
  <2>1. Kept
    BY <1>11 DEF cacheVars, Holds, HoldsOf, Due
  <2>2. QED
    BY <1>0, <1>3, <1>11, <2>1 DEF cacheVars, ContextTypeOK
<1>12. ASSUME NEW p \in Places, Serve(p) PROVE ContextInv'
  <2>1. UNCHANGED <<active, unannounced, packets, compiles, unheard, gone, outlived,
                    overtaken>>
    BY <1>12 DEF Serve
  <2>2. compiled' \in 0 .. MaxCompiles
    BY <1>0, <1>12, ContextAssumption DEF Serve, ContextTypeOK
  <2>3. ContextTypeOK'
    BY <1>0, <2>1, <2>2 DEF ContextTypeOK
  <2>4. CallsAreCurrent' /\ PacketsAreCurrent'
    BY <2>1 DEF ContextInv, CallsAreCurrent, PacketsAreCurrent, Holds, HoldsOf, Due
  <2>5. QED
    BY <2>3, <2>4 DEF ContextInv
<1>13. QED
  BY <1>4, <1>5, <1>7, <1>8, <1>9, <1>10, <1>11, <1>12 DEF ContextNext

LEMMA InitContext == ContextInit => ContextInv
<1>1. ContextInit => CallsAreCurrent /\ PacketsAreCurrent
  BY DEF ContextInit, CallsAreCurrent, PacketsAreCurrent, NoCompile
<1>2. QED
  BY <1>1, InitContextType DEF ContextInv

\* Packets, calls and what is known of the memories stay in shape.
THEOREM ContextTypeCorrect == ContextSpec => []ContextTypeOK
<1>1. ContextInv => ContextTypeOK
  BY DEF ContextInv
<1>2. QED
  BY <1>1, InitContext, ContextStep, PTL DEF ContextSpec

\* Whoever compiles, writes or deletes meanwhile, a cached packet leaves out
\* nothing its workspace sees whose writer has returned, except what overtook the
\* compile that made it.
THEOREM PacketsStayCurrent == ContextSpec => []PacketsAreCurrent
<1>1. ContextInv => PacketsAreCurrent
  BY DEF ContextInv
<1>2. QED
  BY <1>1, InitContext, ContextStep, PTL DEF ContextSpec

-----------------------------------------------------------------------------
(* The records side by side.                                                *)

\* A step of one part while the others rest is a step of each.
LEMMA RecordsStep ==
    [RecordsNext]_recordsVars =>
        /\ [Next]_vars
        /\ [ClaimNext]_claimVars
        /\ [GenerationNext]_generationVars
        /\ [ErasureNext]_erasureVars
        /\ [ContextNext]_cacheVars
  BY Zenon DEF RecordsNext, recordsVars, AtRest

\* Whatever is proved of a part alone holds of it among the others.
THEOREM RecordsRunAsSpecified ==
    RecordsSpec => Spec /\ ClaimSpec /\ GenerationSpec /\ ErasureSpec /\ ContextSpec
<1>1. RecordsInit => Init /\ ClaimInit /\ GenerationInit /\ ErasureInit /\ ContextInit
  BY DEF RecordsInit
<1>2. QED
  BY <1>1, RecordsStep, PTL
  DEF RecordsSpec, Spec, ClaimSpec, GenerationSpec, ErasureSpec, ContextSpec

\* Every variable of the part that moves keeps its type.
THEOREM RecordsTypeCorrect == RecordsSpec => []RecordsTypeOK
<1>1. TypeOK /\ ClaimTypeOK /\ GenerationTypeOK /\ ErasureTypeOK /\ ContextTypeOK
      => RecordsTypeOK
  BY DEF RecordsTypeOK
<1>2. QED
  BY <1>1, RecordsRunAsSpecified, TypeCorrect, ClaimTypeCorrect, GenerationTypeCorrect,
     ErasureTypeCorrect, ContextTypeCorrect, PTL
=============================================================================
