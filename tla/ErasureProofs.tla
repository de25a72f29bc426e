---------------------------- MODULE ErasureProofs ----------------------------
(* What TLAPS proves of Erasure, for any number of items, erasers, calls   *)
(* and faults: the event log is not left open behind anybody's back, and   *)
(* what was reported clean stays gone.                                     *)
EXTENDS Erasure, TLAPS

-----------------------------------------------------------------------------
(* Type correctness.  A call that is past its resolution names an item.     *)

NamesItem == \A p \in Erasers :
    calls[p].at \notin {"idle", "down"} => calls[p].item \in named

ErasureTypeInv == ErasureTypeOK /\ NamesItem

LEMMA InitErasureType == ErasureInit => ErasureTypeInv
BY ErasureAssumption
   DEF ErasureInit, ErasureTypeInv, ErasureTypeOK, NamesItem, NoCall, Call, Steps, Ways

\* A call stays a call, wherever it goes on to.
LEMMA NextCall ==
    ASSUME NEW c \in Call, NEW step \in Steps
    PROVE  [c EXCEPT !.at = step] \in Call /\ [c EXCEPT !.at = step].item = c.item
BY DEF Call

LEMMA NoCallType == NoCall \in Call /\ [NoCall EXCEPT !.at = "down"] \in Call
BY DEF NoCall, Call, Steps, Ways

\* The resolution of a call finds items.
LEMMA Resolutions ==
    ASSUME ErasureTypeOK, NEW c \in Call, c.item \in Items
    PROVE  /\ Hit(c) \subseteq Items
           /\ Resolved(c) \subseteq Items
           /\ Holding(c) \subseteq Items
           /\ Doomed(c) \subseteq Items
           /\ Probing(c) \in BOOLEAN
<1>1. Hit(c) \subseteq Items /\ Holding(c) \subseteq Items /\ Probing(c) \in BOOLEAN
  BY DEF ErasureTypeOK, Hit, Holding, Probing, Call
<1>2. Resolved(c) \subseteq Items /\ Doomed(c) \subseteq Items
  BY <1>1 DEF ErasureTypeOK, Resolved, Doomed
<1>3. QED
  BY <1>1, <1>2

\* The others.
LEMMA OtherType ==
    ASSUME ErasureTypeInv, LogOpened \/ \E i \in Items : OtherStep(i)
    PROVE  ErasureTypeInv'
<1>1. UNCHANGED <<calls, erases, mishaps, named, cleaned, raced>>
  BY DEF LogOpened, OtherStep, Observe, Refuse, WorkerReads, WorkerWrites, Requeued,
         Forgotten, Lifted, contentVars, workVars, saidVars, logVars
<1>2. /\ payload' \in [Items -> {"none", "text", "redacted"}]
      /\ refused' \in [Items -> {"none", "pending", "discarded"}]
      /\ sealed' \in BOOLEAN
  BY DEF LogOpened, OtherStep, Observe, Refuse, WorkerReads, WorkerWrites, Requeued,
         Forgotten, Lifted, contentVars, workVars, saidVars, logVars, ErasureTypeInv,
         ErasureTypeOK
<1>3. /\ rows' \subseteq Items /\ buried' \subseteq Items /\ queue' \subseteq Items
      /\ reading' \subseteq Items /\ erasures' \subseteq Items /\ known' \subseteq Items
  BY DEF LogOpened, OtherStep, Observe, Refuse, WorkerReads, WorkerWrites, Requeued,
         Forgotten, Lifted, contentVars, workVars, saidVars, logVars, ErasureTypeInv,
         ErasureTypeOK
<1>4. QED
  BY <1>1, <1>2, <1>3 DEF ErasureTypeInv, ErasureTypeOK, NamesItem

\* An eraser moves its own call, and leaves the sets of the types sets.
LEMMA EraserType ==
    ASSUME ErasureTypeInv, NEW p \in Erasers, EraserStep(p)
    PROVE  ErasureTypeInv'
<1> USE DEF ErasureTypeInv
<1>1. calls[p] \in Call
  BY DEF ErasureTypeOK
<1>2. ASSUME NEW i \in Items, Erase(p, i)
      PROVE  ErasureTypeInv'
  <2>1. PICK by \in Ways, needle \in BOOLEAN :
          LET c == [NoCall EXCEPT !.item = i, !.by = by, !.needle = needle] IN
          calls' = [calls EXCEPT ![p] =
                [c EXCEPT !.at = IF Targeted(c) THEN "forget" ELSE "trigger",
                          !.found = Resolved(c), !.holding = Holding(c),
                          !.probes = Probing(c)]]
    BY <1>2 DEF Erase
  <2> DEFINE c == [NoCall EXCEPT !.item = i, !.by = by, !.needle = needle]
             d == [c EXCEPT !.at = IF Targeted(c) THEN "forget" ELSE "trigger",
                            !.found = Resolved(c), !.holding = Holding(c),
                            !.probes = Probing(c)]
  <2>2. c \in Call /\ c.item = i
    BY NoCallType DEF Call, NoCall
  <2>3. d \in Call /\ d.item = i
    <3>1. Resolved(c) \subseteq Items /\ Holding(c) \subseteq Items /\ Probing(c) \in BOOLEAN
      BY <2>2, Resolutions
    <3> HIDE DEF c
    <3>2. QED
      BY <2>2, <3>1 DEF Call, Steps
  <2>4. calls' = [calls EXCEPT ![p] = d]
    BY <2>1
  <2> HIDE DEF d
  <2>5. calls' \in [Erasers -> Call] /\ erases' \in 0..MaxErases
    BY <1>2, <2>3, <2>4, ErasureAssumption DEF Erase, ErasureTypeOK
  <2>6. NamesItem'
    BY <1>2, <2>3, <2>4 DEF Erase, NamesItem, ErasureTypeOK
  <2>7. QED
    BY <1>2, <2>5, <2>6 DEF Erase, ErasureTypeOK, logVars, contentVars, workVars
<1>3. ASSUME NEW c \in Call,
             calls' = [calls EXCEPT ![p] = c],
             c.at \notin {"idle", "down"} =>
                c.item = calls[p].item /\ calls[p].at \notin {"idle", "down"}
      PROVE  calls' \in [Erasers -> Call] /\ (named' = named => NamesItem')
  BY <1>3 DEF ErasureTypeOK, NamesItem
<1>4. calls[p].at \notin {"idle", "down"} => calls[p].item \in Items
  BY DEF NamesItem, ErasureTypeOK
<1>5. ASSUME NEW step \in Steps, Continue(p, step), calls[p].at \notin {"idle", "down"}
      PROVE  calls' \in [Erasers -> Call] /\ (named' = named => NamesItem')
  <2>1. [calls[p] EXCEPT !.at = step] \in Call
    BY <1>1, NextCall
  <2>2. [calls[p] EXCEPT !.at = step].item = calls[p].item
    BY <1>1, NextCall
  <2>3. QED
    BY <1>3, <1>5, <2>1, <2>2 DEF Continue
<1>6. ASSUME calls' = [calls EXCEPT ![p] = NoCall]
             \/ calls' = [calls EXCEPT ![p] = [NoCall EXCEPT !.at = "down"]]
      PROVE  calls' \in [Erasers -> Call] /\ (named' = named => NamesItem')
  <2>1. NoCall.at = "idle" /\ [NoCall EXCEPT !.at = "down"].at = "down"
    BY DEF NoCall
  <2>2. QED
    BY <1>3, <1>6, <2>1, NoCallType
<1> USE DEF At, logVars, contentVars, workVars, saidVars, Steps
<1>7. CASE DeleteMemory(p)
  <2> DEFINE D == Doomed(calls[p])
             step == IF D = {} THEN "trigger" ELSE "bury"
             c == [calls[p] EXCEPT !.at = step, !.doomed = D]
  <2>1. D \subseteq Items
    BY <1>1, <1>4, <1>7, Resolutions DEF DeleteMemory
  <2>2. c \in Call /\ c.item = calls[p].item
    BY <1>1, <2>1 DEF Call
  <2>3. calls' = [calls EXCEPT ![p] = c]
    BY <1>7 DEF DeleteMemory, ErasureTypeOK
  <2>4. calls' \in [Erasers -> Call] /\ (named' = named => NamesItem')
    <3> HIDE DEF c
    <3>1. QED
      BY <1>3, <1>7, <2>2, <2>3 DEF DeleteMemory
  <2>5. QED
    BY <1>7, <2>4 DEF DeleteMemory, ErasureTypeOK
<1>8. CASE Bury(p)
  <2>1. calls[p].doomed \subseteq Items
    BY <1>1 DEF Call
  <2>2. calls' \in [Erasers -> Call] /\ (named' = named => NamesItem')
    BY <1>5, <1>8 DEF Bury
  <2>3. QED
    BY <1>8, <2>1, <2>2 DEF Bury, ErasureTypeOK
<1>9. CASE ReadTrigger(p)
  <2> DEFINE step == IF calls[p].found = {} THEN "stores"
                     ELSE IF sealed THEN "drop" ELSE "redact"
             c == [calls[p] EXCEPT !.at = step, !.trigger = sealed]
  <2>1. c \in Call /\ c.item = calls[p].item
    BY <1>1 DEF Call, ErasureTypeOK
  <2>2. calls' = [calls EXCEPT ![p] = c]
    BY <1>9 DEF ReadTrigger, ErasureTypeOK
  <2>3. calls' \in [Erasers -> Call] /\ (named' = named => NamesItem')
    <3> HIDE DEF c
    <3>1. QED
      BY <1>3, <1>9, <2>1, <2>2 DEF ReadTrigger
  <2>4. QED
    BY <1>9, <2>3 DEF ReadTrigger, ErasureTypeOK
<1>10. CASE DropTrigger(p) \/ Redact(p)
  <2>1. calls' \in [Erasers -> Call] /\ (named' = named => NamesItem')
    BY <1>5, <1>10 DEF DropTrigger, Redact
  <2>2. QED
    BY <1>10, <2>1 DEF DropTrigger, Redact, ErasureTypeOK
<1>11. CASE RedactRaises(p)
  <2> DEFINE c == [calls[p] EXCEPT !.at = "restore", !.failed = TRUE]
  <2>1. c \in Call /\ c.item = calls[p].item
    BY <1>1 DEF Call
  <2>2. calls' = [calls EXCEPT ![p] = c]
    BY <1>11 DEF RedactRaises, ErasureTypeOK
  <2>3. calls' \in [Erasers -> Call] /\ (named' = named => NamesItem')
    <3> HIDE DEF c
    <3>1. QED
      BY <1>3, <1>11, <2>1, <2>2 DEF RedactRaises
  <2>4. mishaps' \in 0..MaxFaults
    BY <1>11, ErasureAssumption DEF RedactRaises, ErasureTypeOK
  <2>5. QED
    BY <1>11, <2>3, <2>4 DEF RedactRaises, ErasureTypeOK
<1>12. CASE RestoreTrigger(p)
  <2>1. PutBack(calls[p]) \in BOOLEAN
    BY <1>1 DEF PutBack, ErasureTypeOK, Call
  <2>2. calls' \in [Erasers -> Call] /\ (named' = named => NamesItem')
    BY <1>5, <1>6, <1>12 DEF RestoreTrigger
  <2>3. QED
    BY <1>12, <2>1, <2>2 DEF RestoreTrigger, ErasureTypeOK
<1>13. CASE RestoreRaises(p) \/ EraserDies(p)
  <2>1. calls' \in [Erasers -> Call] /\ (named' = named => NamesItem')
    BY <1>6, <1>13 DEF RestoreRaises, EraserDies
  <2>2. mishaps' \in 0..MaxFaults
    BY <1>13, ErasureAssumption DEF RestoreRaises, EraserDies, ErasureTypeOK
  <2>3. QED
    BY <1>13, <2>1, <2>2 DEF RestoreRaises, EraserDies, ErasureTypeOK
<1>14. CASE RedactStores(p) \/ RecordErasure(p)
  <2>1. calls[p].found \subseteq Items
    BY <1>1 DEF Call
  <2>2. calls' \in [Erasers -> Call] /\ (named' = named => NamesItem')
    BY <1>5, <1>14 DEF RedactStores, RecordErasure
  <2>3. QED
    BY <1>14, <2>1, <2>2 DEF RedactStores, RecordErasure, ErasureTypeOK
<1>15. CASE Verify(p)
  <2>1. cleaned' \subseteq Items /\ raced' \subseteq Items
    BY <1>4, <1>15 DEF Verify, ErasureTypeOK
  <2>2. calls' \in [Erasers -> Call] /\ (named' = named => NamesItem')
    BY <1>6, <1>15 DEF Verify
  <2>3. QED
    BY <1>15, <2>1, <2>2 DEF Verify, ErasureTypeOK
<1>16. CASE EraserRestarts(p)
  <2> DEFINE c == [calls[p] EXCEPT !.at = "idle"]
  <2>1. c \in Call /\ c.at = "idle"
    BY <1>1 DEF Call
  <2>2. calls' = [calls EXCEPT ![p] = c]
    BY <1>16 DEF EraserRestarts, Continue, ErasureTypeOK
  <2>3. calls' \in [Erasers -> Call] /\ (named' = named => NamesItem')
    <3> HIDE DEF c
    <3>1. QED
      BY <1>3, <1>16, <2>1, <2>2 DEF EraserRestarts
  <2>4. QED
    BY <1>16, <2>3 DEF EraserRestarts, ErasureTypeOK
<1>17. QED
  BY <1>2, <1>7, <1>8, <1>9, <1>10, <1>11, <1>12, <1>13, <1>14, <1>15, <1>16
     DEF EraserStep

LEMMA ErasureTypeStep == ErasureTypeInv /\ [ErasureNext]_erasureVars => ErasureTypeInv'
<1>1. ASSUME ErasureTypeInv, UNCHANGED erasureVars
      PROVE  ErasureTypeInv'
  BY <1>1 DEF erasureVars, logVars, contentVars, workVars, saidVars, ErasureTypeInv,
              ErasureTypeOK, NamesItem
<1>2. QED
  BY <1>1, OtherType, EraserType DEF ErasureNext

LEMMA ErasureTypeInvariant == ErasureSpec => []ErasureTypeInv
BY InitErasureType, ErasureTypeStep, PTL DEF ErasureSpec

\* Whoever erases, dies or is locked out: the stores and the calls keep their
\* types, and no count leaves its range.
THEOREM ErasureTypeCorrect == ErasureSpec => []ErasureTypeOK
<1>1. ErasureTypeInv => ErasureTypeOK
  BY DEF ErasureTypeInv
<1>2. QED
  BY <1>1, ErasureTypeInvariant, PTL

-----------------------------------------------------------------------------
(* The trigger.  LogSealed is not inductive: a call that found the log open *)
(* already restores nothing when it ends, so that some call is at "redact"  *)
(* does not say that the log will be closed.  Responsible does: it is a     *)
(* call that saw the trigger there, and hence dropped it, or a dead one     *)
(* whose restart opens the store.                                           *)

Responsible(p) ==
    \/ calls[p].at \in {"redact", "restore"} /\ calls[p].trigger
    \/ calls[p].at = "down"

SealInv ==
    /\ \A p \in Erasers : calls[p].at = "drop" => calls[p].trigger
    /\ sealed \/ \E p \in Erasers : Responsible(p)

LEMMA InitSeal == ErasureInit => SealInv
BY DEF ErasureInit, SealInv, NoCall

\* A step that does not unseal the log, of a call that takes no responsibility
\* away.
LEMMA KeepSeal ==
    ASSUME ErasureTypeInv, SealInv, NEW p \in Erasers, NEW c,
           calls' = [calls EXCEPT ![p] = c],
           c.at = "drop" => c.trigger,
           \/ sealed'
           \/ sealed' = sealed /\ (Responsible(p) => Responsible(p)')
    PROVE  SealInv'
<1>1. \A q \in Erasers : calls'[q] = IF q = p THEN c ELSE calls[q]
  BY DEF ErasureTypeInv, ErasureTypeOK
<1>2. \A q \in Erasers : calls'[q].at = "drop" => calls'[q].trigger
  BY <1>1 DEF SealInv
<1>3. sealed' \/ \E q \in Erasers : Responsible(q)'
  BY <1>1 DEF SealInv, Responsible
<1>4. QED
  BY <1>2, <1>3 DEF SealInv

LEMMA EraserSeal ==
    ASSUME ErasureTypeInv, SealInv, NEW p \in Erasers, EraserStep(p)
    PROVE  SealInv'
<1>1. calls[p] \in Call /\ calls \in [Erasers -> Call] /\ sealed \in BOOLEAN
  BY DEF ErasureTypeInv, ErasureTypeOK
<1> USE DEF At, Continue, Responsible
<1>2. CASE \E i \in Items : Erase(p, i)
  <2>1. PICK c : calls' = [calls EXCEPT ![p] = c] /\ c.at \in {"forget", "trigger"}
    <3>0. PICK i \in Items : Erase(p, i)
      BY <1>2
    <3>1. PICK by \in Ways, needle \in BOOLEAN :
            LET c == [NoCall EXCEPT !.item = i, !.by = by, !.needle = needle] IN
            calls' = [calls EXCEPT ![p] =
                  [c EXCEPT !.at = IF Targeted(c) THEN "forget" ELSE "trigger",
                            !.found = Resolved(c), !.holding = Holding(c),
                            !.probes = Probing(c)]]
      BY <3>0 DEF Erase
    <3> DEFINE c == [NoCall EXCEPT !.item = i, !.by = by, !.needle = needle]
               d == [c EXCEPT !.at = IF Targeted(c) THEN "forget" ELSE "trigger",
                              !.found = Resolved(c), !.holding = Holding(c),
                              !.probes = Probing(c)]
    <3>2. d.at \in {"forget", "trigger"}
      BY DEF NoCall
    <3>3. calls' = [calls EXCEPT ![p] = d]
      BY <3>1
    <3> HIDE DEF d
    <3>4. QED
      BY <3>2, <3>3
  <2>2. sealed' = sealed /\ calls[p].at = "idle"
    BY <1>2 DEF Erase, logVars
  <2>3. QED
    BY <2>1, <2>2, KeepSeal
<1>3. ASSUME UNCHANGED sealed, NEW step \in Steps \ {"drop"},
             calls[p].at \notin {"drop", "redact", "restore", "down"},
             Continue(p, step)
      PROVE  SealInv'
  <2>1. [calls[p] EXCEPT !.at = step].at = step
    BY <1>1 DEF Call
  <2>2. calls' = [calls EXCEPT ![p] = [calls[p] EXCEPT !.at = step]]
    BY <1>3
  <2>3. QED
    BY <1>3, <2>1, <2>2, KeepSeal
<1>4. CASE DeleteMemory(p)
  <2>1. PICK c : calls' = [calls EXCEPT ![p] = c] /\ c.at \in {"trigger", "bury"}
    <3> DEFINE D == Doomed(calls[p])
               step == IF D = {} THEN "trigger" ELSE "bury"
               c == [calls[p] EXCEPT !.at = step, !.doomed = D]
    <3>1. c.at \in {"trigger", "bury"}
      BY <1>1 DEF Call
    <3>2. calls' = [calls EXCEPT ![p] = c]
      BY <1>1, <1>4 DEF DeleteMemory
    <3> HIDE DEF c
    <3>3. QED
      BY <3>1, <3>2
  <2>2. sealed' = sealed /\ calls[p].at = "forget"
    BY <1>4 DEF DeleteMemory, logVars
  <2>3. QED
    BY <2>1, <2>2, KeepSeal
<1>5. CASE Bury(p) \/ RedactStores(p) \/ RecordErasure(p)
  BY <1>3, <1>5 DEF Bury, RedactStores, RecordErasure, logVars, Steps
<1>6. CASE ReadTrigger(p)
  <2>1. PICK c : calls' = [calls EXCEPT ![p] = c] /\ (c.at = "drop" => c.trigger)
    <3> DEFINE step == IF calls[p].found = {} THEN "stores"
                       ELSE IF sealed THEN "drop" ELSE "redact"
               c == [calls[p] EXCEPT !.at = step, !.trigger = sealed]
    <3>1. c.at = "drop" => c.trigger
      BY <1>1 DEF Call
    <3>2. calls' = [calls EXCEPT ![p] = c]
      BY <1>1, <1>6 DEF ReadTrigger
    <3> HIDE DEF c
    <3>3. QED
      BY <3>1, <3>2
  <2>2. sealed' = sealed /\ calls[p].at = "trigger"
    BY <1>6 DEF ReadTrigger, logVars
  <2>3. QED
    BY <2>1, <2>2, KeepSeal
<1>7. CASE DropTrigger(p)
  <2> DEFINE c == [calls[p] EXCEPT !.at = "redact"]
  <2>1. c.at = "redact" /\ c.trigger
    BY <1>1, <1>7 DEF DropTrigger, Call, SealInv
  <2>2. calls' = [calls EXCEPT ![p] = c]
    BY <1>7 DEF DropTrigger
  <2> HIDE DEF c
  <2>3. \A q \in Erasers : calls'[q] = IF q = p THEN c ELSE calls[q]
    BY <1>1, <2>2
  <2>4. QED
    BY <2>1, <2>3 DEF SealInv
<1>8. CASE Redact(p) \/ RedactRaises(p)
  <2>1. PICK c : /\ calls' = [calls EXCEPT ![p] = c]
                 /\ c.at = "restore" /\ c.trigger = calls[p].trigger
    BY <1>1, <1>8 DEF Redact, RedactRaises, Call
  <2>2. sealed' = sealed /\ calls[p].at = "redact" /\ calls'[p] = c
    BY <1>1, <1>8, <2>1 DEF Redact, RedactRaises, logVars
  <2>3. QED
    BY <2>1, <2>2, KeepSeal
<1>9. CASE RestoreTrigger(p)
  <2>1. PICK c : calls' = [calls EXCEPT ![p] = c] /\ c.at \in {"idle", "stores"}
    BY <1>1, <1>9 DEF RestoreTrigger, NoCall, Call
  <2>2. calls[p].trigger => sealed'
    BY <1>9 DEF RestoreTrigger, PutBack
  <2>3. ~calls[p].trigger => sealed' = sealed /\ ~Responsible(p)
    BY <1>1, <1>9 DEF RestoreTrigger, PutBack, Call
  <2>4. QED
    BY <2>1, <2>2, <2>3, KeepSeal
<1>10. CASE RestoreRaises(p) \/ EraserDies(p)
  <2> DEFINE c == [NoCall EXCEPT !.at = "down"]
  <2>1. c.at = "down" /\ calls' = [calls EXCEPT ![p] = c] /\ UNCHANGED sealed
    BY <1>10 DEF RestoreRaises, EraserDies, NoCall, logVars
  <2> HIDE DEF c
  <2>2. calls'[p] = c
    BY <1>1, <2>1
  <2>3. QED
    BY <2>1, <2>2, KeepSeal
<1>11. CASE Verify(p)
  <2>1. NoCall.at = "idle"
    BY DEF NoCall
  <2>2. sealed' = sealed /\ calls[p].at = "verify" /\ calls' = [calls EXCEPT ![p] = NoCall]
    BY <1>11 DEF Verify, logVars
  <2>3. QED
    BY <2>1, <2>2, KeepSeal
<1>12. CASE EraserRestarts(p)
  <2>1. [calls[p] EXCEPT !.at = "idle"].at = "idle"
    BY <1>1 DEF Call
  <2>2. sealed' /\ calls' = [calls EXCEPT ![p] = [calls[p] EXCEPT !.at = "idle"]]
    BY <1>12 DEF EraserRestarts
  <2>3. QED
    BY <2>1, <2>2, KeepSeal
<1>13. QED
  BY <1>2, <1>4, <1>5, <1>6, <1>7, <1>8, <1>9, <1>10, <1>11, <1>12 DEF EraserStep

LEMMA SealStep ==
    ErasureTypeInv /\ SealInv /\ [ErasureNext]_erasureVars => SealInv'
<1>1. ASSUME ErasureTypeInv, SealInv, UNCHANGED calls, sealed' \in {sealed, TRUE}
      PROVE  SealInv'
  BY <1>1 DEF SealInv, Responsible
<1>2. (\E i \in Items : OtherStep(i)) \/ LogOpened \/ UNCHANGED erasureVars
        => UNCHANGED calls /\ sealed' \in {sealed, TRUE}
  BY DEF OtherStep, Observe, Refuse, WorkerReads, WorkerWrites, Requeued, Forgotten,
         Lifted, LogOpened, erasureVars, logVars
<1>3. QED
  BY <1>1, <1>2, EraserSeal DEF ErasureNext

\* The log is open only in the hands of a call that is redacting, or from the
\* death of one until its process opens the store: two erases that overlap,
\* raise and die do not leave it open between them.
THEOREM LogStaysSealed == ErasureSpec => []LogSealed
<1>1. SealInv => LogSealed
  BY DEF SealInv, Responsible, LogSealed
<1>2. ErasureSpec => []SealInv
  BY InitSeal, SealStep, ErasureTypeInvariant, PTL DEF ErasureSpec
<1>3. QED
  BY <1>1, <1>2, PTL

-----------------------------------------------------------------------------
(* What is gone.  CleanStaysGone is inductive only together with where the  *)
(* text could come back from: no worker has it in hand, and the item was    *)
(* named, so that it is not said or refused again.                          *)

GoneInv ==
    \A i \in cleaned \ raced : ~Residue(i) /\ i \notin reading /\ i \in named

LEMMA GoneStep ==
    ErasureTypeInv /\ GoneInv /\ [ErasureNext]_erasureVars => GoneInv'
<1> SUFFICES ASSUME ErasureTypeInv, GoneInv, [ErasureNext]_erasureVars
             PROVE  GoneInv'
  OBVIOUS
<1> USE DEF logVars, contentVars, workVars, saidVars
<1>1. ASSUME NEW p \in Erasers, Verify(p)
      PROVE  GoneInv'
  <2>1. UNCHANGED <<payload, rows, refused, reading, named>>
    BY <1>1 DEF Verify
  <2>2. calls[p].item \in named
    BY <1>1 DEF Verify, At, ErasureTypeInv, NamesItem
  <2>3. \A i \in cleaned' \ raced' :
          \/ i \in cleaned \ raced
          \/ i = calls[p].item /\ ~Residue(i) /\ i \notin reading
    BY <1>1 DEF Verify
  <2>4. QED
    BY <2>1, <2>2, <2>3 DEF GoneInv, Residue
<1>2. ASSUME UNCHANGED <<cleaned, raced>>, named \subseteq named',
             \A i \in Items : i \in named =>
                /\ payload'[i] = "text" => payload[i] = "text"
                /\ refused'[i] = "pending" => refused[i] = "pending"
                /\ i \in rows' => i \in rows \cup reading
                /\ i \in reading' => i \in reading \/ payload[i] = "text"
      PROVE  GoneInv'
  BY <1>2 DEF GoneInv, Residue, ErasureTypeInv, ErasureTypeOK
<1>3. ASSUME NEW k \in Items, OtherStep(k)
      PROVE  GoneInv'
  <2>1. UNCHANGED <<cleaned, raced, named>>
    BY <1>3 DEF OtherStep, Observe, Refuse, WorkerReads, WorkerWrites, Requeued,
                Forgotten, Lifted
  <2>2. ASSUME NEW i \in Items, i \in named
        PROVE  /\ payload'[i] = "text" => payload[i] = "text"
               /\ refused'[i] = "pending" => refused[i] = "pending"
               /\ i \in rows' => i \in rows \cup reading
               /\ i \in reading' => i \in reading \/ payload[i] = "text"
    BY <1>3, <2>2 DEF OtherStep, Observe, Refuse, WorkerReads, WorkerWrites, Requeued,
                      Forgotten, Lifted, Unsaid, ErasureTypeInv, ErasureTypeOK
  <2>3. QED
    BY <1>2, <2>1, <2>2
<1>4. ASSUME NEW p \in Erasers, EraserStep(p), ~Verify(p)
      PROVE  GoneInv'
  <2>1. UNCHANGED <<cleaned, raced, reading>> /\ named \subseteq named'
    BY <1>4 DEF EraserStep, Erase, DeleteMemory, Bury, ReadTrigger, DropTrigger, Redact,
                RedactRaises, RestoreTrigger, RestoreRaises, RedactStores,
                RecordErasure, EraserDies, EraserRestarts
  <2>2. rows' \subseteq rows
    BY <1>4 DEF EraserStep, Erase, DeleteMemory, Bury, ReadTrigger, DropTrigger, Redact,
                RedactRaises, RestoreTrigger, RestoreRaises, RedactStores,
                RecordErasure, EraserDies, EraserRestarts
  <2>3. \A i \in Items : /\ payload'[i] = "text" => payload[i] = "text"
                         /\ refused'[i] = "pending" => refused[i] = "pending"
    BY <1>4 DEF EraserStep, Erase, DeleteMemory, Bury, ReadTrigger, DropTrigger, Redact,
                RedactRaises, RestoreTrigger, RestoreRaises, RedactStores,
                RecordErasure, EraserDies, EraserRestarts
  <2>4. QED
    BY <1>2, <2>1, <2>2, <2>3
<1>5. CASE LogOpened \/ UNCHANGED erasureVars
  BY <1>2, <1>5 DEF LogOpened, erasureVars
<1>6. QED
  BY <1>1, <1>3, <1>4, <1>5 DEF ErasureNext

\* "Verified clean" is final: no replay, lift, deletion or other erase brings
\* an item back that was reported clean while no worker had its text in hand.
THEOREM CleanIsFinal == ErasureSpec => []CleanStaysGone
<1>1. ErasureInit => GoneInv
  BY DEF ErasureInit, GoneInv
<1>2. GoneInv => CleanStaysGone
  BY DEF GoneInv, CleanStaysGone
<1>3. QED
  BY <1>1, <1>2, GoneStep, ErasureTypeInvariant, PTL DEF ErasureSpec
=============================================================================
