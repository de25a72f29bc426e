---------------------------- MODULE ServicesProofs ----------------------------
(* What TLAPS proves of the services that run beside the projection queue:  *)
(* the sleep cycle, the canary supervisor, the label upgrader and the WAL   *)
(* manager; for any number of observations, slots, rows and readers.  The   *)
(* last section puts them side by side with the control, as MCServices does. *)
EXTENDS MCServices, ControlProofs, SequenceTheorems, FiniteSetTheorems,
        WellFoundedInduction

-----------------------------------------------------------------------------
(* The WAL.  The log file is never longer than what was written to it.      *)

WalInv == WalTypeOK /\ logSize <= appends

\* SQLite's counters stay in order: what is copied back is in the log, and the
\* log in the file, through every checkpoint and every death of the manager.
THEOREM WalTypeCorrect == WalSpec => []WalTypeOK
<1>1. WalInit => WalInv
  <2> SUFFICES ASSUME WalInit PROVE WalInv
    OBVIOUS
  <2>1. MaxAppends \in Nat /\ MaxReads \in Nat /\ MaxRestarts \in Nat
    BY WalAssumption
  <2>2. {logSize, frames, backfilled, appends} \subseteq 0..MaxAppends
    BY <2>1 DEF WalInit
  <2>3. /\ reads \in 0..MaxReads /\ restarts \in 0..MaxRestarts
        /\ backfilled <= frames /\ frames <= logSize /\ logSize <= appends
    BY <2>1 DEF WalInit
  <2>4. cooling \in BOOLEAN
    BY DEF WalInit
  <2>5. QED
    BY <2>2, <2>3, <2>4 DEF WalInit, WalInv, WalTypeOK
<1>2. WalInv /\ [WalNext]_walVars => WalInv'
  <2> SUFFICES ASSUME WalInv, [WalNext]_walVars PROVE WalInv'
    OBVIOUS
  <2>0. /\ MaxAppends \in Nat /\ MaxReads \in Nat /\ MaxRestarts \in Nat
        /\ logSize \in Nat /\ frames \in Nat /\ backfilled \in Nat /\ appends \in Nat
    BY WalAssumption DEF WalInv, WalTypeOK
  <2>1. CASE AppendFrame
    BY <2>0, <2>1 DEF AppendFrame, WalInv, WalTypeOK, policyVars
  <2>2. ASSUME NEW r \in Readers, NoteReader(r) \/ OpenSnapshot(r) \/ CloseSnapshot(r)
        PROVE  WalInv'
    BY <2>0, <2>2
    DEF NoteReader, OpenSnapshot, CloseSnapshot, WalInv, WalTypeOK, policyVars, logVars
  <2>3. CASE ObserveLog \/ LookForReaders
    BY <2>0, <2>3
    DEF ObserveLog, Advanced, LookForReaders, WalInv, WalTypeOK, logVars
  <2>4. CASE Passive \/ Truncate
    BY <2>0, <2>4 DEF Passive, Truncate, WalInv, WalTypeOK, logVars
  <2>5. CASE CoolsDown
    BY <2>5 DEF CoolsDown, WalInv, WalTypeOK, logVars
  <2>6. CASE ManagerRestarts
    <3>1. restarts' \in 0 .. MaxRestarts
      BY <2>0, <2>6 DEF ManagerRestarts, WalInv, WalTypeOK
    <3>2. QED
      BY <2>6, <3>1 DEF ManagerRestarts, WalInv, WalTypeOK, logVars
  <2>7. CASE UNCHANGED walVars
    BY <2>7 DEF walVars, WalInv, WalTypeOK
  <2>8. QED
    BY <2>1, <2>2, <2>3, <2>4, <2>5, <2>6, <2>7 DEF WalNext, MaybeCheckpoint
<1>3. WalInv => WalTypeOK
  BY DEF WalInv
<1>4. QED
  BY <1>1, <1>2, <1>3, PTL DEF WalSpec

-----------------------------------------------------------------------------
(* Labels.                                                                  *)

LabelTyped == label \in [Labels -> {"none", "cheap", "gone"} \cup Upgraders]

\* A label that a model gave is replaced by no answer: whoever asked about the row
\* meanwhile, in whatever order the answers come.
THEOREM GoodLabelsAreKept == UpgradeSpec => GoodLabelKept
<1> DEFINE Keeps == \A r \in Labels :
                       label[r] \in Upgraders =>
                          label'[r] = label[r] \/ label'[r] \in {"gone", "none"}
<1>1. UpgradeInit => LabelTyped
  BY DEF UpgradeInit, LabelTyped
<1>2. LabelTyped /\ [UpgradeNext]_upgradeVars => LabelTyped' /\ Keeps
  <2> SUFFICES ASSUME LabelTyped, [UpgradeNext]_upgradeVars PROVE LabelTyped' /\ Keeps
    OBVIOUS
  <2>1. ASSUME NEW r \in Labels, LabelCheaply(r) \/ ForgetLabel(r) \/ ResetLabel(r)
        PROVE  LabelTyped' /\ Keeps
    BY <2>1, UpgradeAssumption DEF LabelCheaply, ForgetLabel, ResetLabel, LabelTyped
  <2>2. ASSUME NEW u \in Upgraders, NEW n, CommitLabels(u, n)
        PROVE  LabelTyped' /\ Keeps
    <3>1. label' = [r \in Labels |-> IF r \in Upgradable(u, n) THEN u ELSE label[r]]
      BY <2>2 DEF CommitLabels
    <3>2. \A r \in Upgradable(u, n) : label[r] = "cheap"
      BY DEF Upgradable
    <3>3. QED
      BY <3>1, <3>2, UpgradeAssumption DEF LabelTyped
  <2>3. ASSUME NEW u \in Upgraders, Answer(u) \/ AnswerShort(u) \/ NoAnswer(u)
        PROVE  LabelTyped' /\ Keeps
    <3>1. \E n : CommitLabels(u, n)
      BY <2>3 DEF Answer, AnswerShort, NoAnswer
    <3>2. QED
      BY <2>2, <3>1
  <2>4. ASSUME UNCHANGED label PROVE LabelTyped' /\ Keeps
    BY <2>4 DEF LabelTyped
  <2>5. QED
    BY <2>1, <2>3, <2>4 DEF UpgradeNext, AskModel, upgradeVars
<1>3. QED
  BY <1>1, <1>2, PTL DEF UpgradeSpec, GoodLabelKept

-----------------------------------------------------------------------------
(* The backlog.  What is left of it when rows are taken out is defined row  *)
(* by row, so what it holds is an induction along it.                       *)

\* A set of numbers has a least one.
LEMMA Leasts ==
    ASSUME NEW T \in SUBSET Nat, T # {}
    PROVE  \E n \in T : \A m \in T : n <= m
<1> DEFINE Less == {p \in Nat \X Nat : p[1] < p[2]}
<1>1. IsWellFoundedOn(Less, Nat)
  BY NatLessThanWellFounded DEF OpToRel
<1> HIDE DEF Less
<1>2. PICK n \in T : \A m \in T : ~(<<m, n>> \in Less)
  BY <1>1, WFMin
<1>3. \A m \in T : ~(m < n)
  BY <1>2 DEF Less
<1>4. QED
  BY <1>3

\* Induction, for sets: what the library states for operators.
LEMMA Induction ==
    ASSUME NEW T \in SUBSET Nat, 0 \in T, \A n \in T : n + 1 \in T
    PROVE  T = Nat
<1> SUFFICES ASSUME Nat \ T # {} PROVE FALSE
  OBVIOUS
<1> DEFINE R == Nat \ T
<1>1. PICK n \in R : \A m \in R : n <= m
  <2>1. R \in SUBSET Nat /\ R # {}
    OBVIOUS
  <2> HIDE DEF R
  <2>2. QED
    BY <2>1, Leasts
<1>2. n \in Nat /\ n # 0 /\ n \notin T
  BY <1>1
<1>3. n - 1 \in T
  BY <1>1, <1>2
<1>4. n - 1 + 1 \in T
  BY <1>3
<1>5. QED
  BY <1>2, <1>4

\* k is what is kept of a queue, as far as its first n rows.
Drops(k, line, rows, n) ==
    /\ k \in [0 .. n -> Seq(Labels)]
    /\ k[0] = <<>>
    /\ \A i \in 1 .. n : k[i] = IF line[i] \in rows THEN k[i - 1]
                                ELSE Append(k[i - 1], line[i])

\* There is such a k for the whole line.
LEMMA DropsExist ==
    ASSUME NEW line \in Seq(Labels), NEW rows
    PROVE  \E k : Drops(k, line, rows, Len(line))
<1> DEFINE T == {n \in Nat : n <= Len(line) => \E k : Drops(k, line, rows, n)}
<1>1. 0 \in T
  <2>1. Drops([i \in 0 .. 0 |-> <<>>], line, rows, 0)
    BY DEF Drops
  <2>2. QED
    BY <2>1
<1>2. ASSUME NEW n \in T PROVE n + 1 \in T
  <2>1. SUFFICES ASSUME n + 1 <= Len(line)
                 PROVE  \E k : Drops(k, line, rows, n + 1)
    OBVIOUS
  <2>2. PICK k : Drops(k, line, rows, n)
    BY <1>2, <2>1
  <2>3. n \in Nat /\ line[n + 1] \in Labels
    BY <2>1
  <2> DEFINE l == IF line[n + 1] \in rows THEN k[n] ELSE Append(k[n], line[n + 1])
             g == [i \in 0 .. (n + 1) |-> IF i = n + 1 THEN l ELSE k[i]]
  <2>4. k[n] \in Seq(Labels)
    BY <2>2, <2>3 DEF Drops
  <2>5. l \in Seq(Labels)
    BY <2>3, <2>4
  <2>6. Drops(g, line, rows, n + 1)
    <3>1. g \in [0 .. (n + 1) -> Seq(Labels)]
      <4> HIDE DEF l
      <4>1. QED
        BY <2>2, <2>3, <2>5 DEF Drops
    <3>2. g[0] = <<>>
      BY <2>2, <2>3 DEF Drops
    <3>3. ASSUME NEW i \in 1 .. (n + 1)
          PROVE  g[i] = IF line[i] \in rows THEN g[i - 1] ELSE Append(g[i - 1], line[i])
      <4>1. CASE i = n + 1
        BY <4>1, <2>3
      <4>2. CASE i # n + 1
        <5>1. i \in 1 .. n /\ i - 1 \in 0 .. n /\ i - 1 # n + 1
          BY <4>2, <2>3
        <5>2. g[i] = k[i] /\ g[i - 1] = k[i - 1]
          BY <5>1, <2>3
        <5>3. QED
          BY <5>1, <5>2, <2>2 DEF Drops
      <4>3. QED
        BY <4>1, <4>2
    <3>4. QED
      BY <3>1, <3>2, <3>3 DEF Drops
  <2>7. QED
    BY <2>6
<1>3. T \in SUBSET Nat
  OBVIOUS
<1> HIDE DEF T
<1>4. T = Nat
  BY <1>1, <1>2, <1>3, Induction
<1>5. Len(line) \in T
  BY <1>4
<1>6. QED
  BY <1>5 DEF T

\* Dropping is what its definition says.
LEMMA DroppingDef ==
    ASSUME NEW line \in Seq(Labels), NEW rows
    PROVE  Dropping(line, rows) =
             [n \in 0 .. Len(line) |->
                IF n = 0 THEN <<>>
                ELSE IF line[n] \in rows THEN Dropping(line, rows)[n - 1]
                ELSE Append(Dropping(line, rows)[n - 1], line[n])]
<1>1. PICK k : Drops(k, line, rows, Len(line))
  BY DropsExist
<1>2. k = [n \in 0 .. Len(line) |->
             IF n = 0 THEN <<>>
             ELSE IF line[n] \in rows THEN k[n - 1]
             ELSE Append(k[n - 1], line[n])]
  <2>1. Len(line) \in Nat
    OBVIOUS
  <2>2. \A n \in 0 .. Len(line) : n # 0 => n \in 1 .. Len(line)
    BY <2>1
  <2>3. k = [n \in 0 .. Len(line) |-> k[n]]
    BY <1>1 DEF Drops
  <2>4. \A n \in 0 .. Len(line) :
          k[n] = IF n = 0 THEN <<>>
                 ELSE IF line[n] \in rows THEN k[n - 1]
                 ELSE Append(k[n - 1], line[n])
    BY <1>1, <2>1, <2>2 DEF Drops
  <2>5. QED
    BY <2>3, <2>4, Zenon
<1>3. QED
  BY <1>2 DEF Dropping

\* A row at the end of a queue that does not hold it.
LEMMA AppendRow ==
    ASSUME NEW line \in Seq(Labels), NEW r \in Labels, r \notin ToSet(line),
           IsInjective(line)
    PROVE  /\ Append(line, r) \in Seq(Labels)
           /\ ToSet(Append(line, r)) = ToSet(line) \cup {r}
           /\ IsInjective(Append(line, r))
<1>1. /\ DOMAIN Append(line, r) = 1 .. (Len(line) + 1)
      /\ \A i \in 1 .. Len(line) : Append(line, r)[i] = line[i]
      /\ Append(line, r)[Len(line) + 1] = r
      /\ DOMAIN line = 1 .. Len(line) /\ Len(line) \in Nat
  OBVIOUS
<1>2. ToSet(Append(line, r)) = ToSet(line) \cup {r}
  BY <1>1 DEF ToSet
<1>3. IsInjective(Append(line, r))
  BY <1>1 DEF ToSet, IsInjective
<1>4. QED
  BY <1>2, <1>3

\* What stays of a queue is a queue: of the rows it is asked for, each once.
LEMMA DroppingRows ==
    ASSUME NEW line \in Seq(Labels), NEW rows, IsInjective(line)
    PROVE  LET kept == Dropping(line, rows)[Len(line)] IN
             /\ kept \in Seq(Labels)
             /\ ToSet(kept) = ToSet(line) \ rows
             /\ IsInjective(kept)
<1> DEFINE K == Dropping(line, rows)
           Good(n) == /\ K[n] \in Seq(Labels)
                      /\ ToSet(K[n]) = {line[i] : i \in 1 .. n} \ rows
                      /\ IsInjective(K[n])
           T == {n \in Nat : n <= Len(line) => Good(n)}
<1>0. Len(line) \in Nat
  OBVIOUS
<1>a. K[0] = <<>>
  BY <1>0, DroppingDef
<1>b. ASSUME NEW n \in Nat, n + 1 <= Len(line)
      PROVE  K[n + 1] = IF line[n + 1] \in rows THEN K[n] ELSE Append(K[n], line[n + 1])
  <2>1. n + 1 \in 0 .. Len(line) /\ n + 1 # 0 /\ n + 1 - 1 = n
    BY <1>0, <1>b
  <2> HIDE DEF K
  <2>2. K = [i \in 0 .. Len(line) |->
              IF i = 0 THEN <<>>
              ELSE IF line[i] \in rows THEN K[i - 1]
              ELSE Append(K[i - 1], line[i])]
    BY DroppingDef DEF K
  <2>3. \A i \in 0 .. Len(line) : i # 0 =>
          K[i] = IF line[i] \in rows THEN K[i - 1] ELSE Append(K[i - 1], line[i])
    BY <2>2, Zenon
  <2>4. PICK m \in 0 .. Len(line) : m = n + 1 /\ m # 0 /\ m - 1 = n
    BY <2>1
  <2>5. K[m] = IF line[m] \in rows THEN K[m - 1] ELSE Append(K[m - 1], line[m])
    BY <2>3, <2>4, Zenon
  <2>6. K[m] = IF line[m] \in rows THEN K[n] ELSE Append(K[n], line[m])
    BY <2>4, <2>5, Zenon
  <2>7. QED
    BY <2>4, <2>6, Zenon
<1> HIDE DEF K
<1>1. 0 \in T
  <2>1. ToSet(<<>>) = {} /\ IsInjective(<<>>) /\ <<>> \in Seq(Labels)
    BY DEF ToSet, IsInjective
  <2>2. {line[i] : i \in 1 .. 0} = {}
    OBVIOUS
  <2>3. QED
    BY <1>a, <2>1, <2>2
<1>2. ASSUME NEW n \in T PROVE n + 1 \in T
  <2>1. SUFFICES ASSUME n + 1 <= Len(line) PROVE Good(n + 1)
    OBVIOUS
  <2>2. n \in Nat /\ Good(n) /\ line[n + 1] \in Labels
    BY <1>0, <2>1
  <2>3. {line[i] : i \in 1 .. (n + 1)} = {line[i] : i \in 1 .. n} \cup {line[n + 1]}
    <3>1. 1 .. (n + 1) = (1 .. n) \cup {n + 1}
      BY <2>2
    <3>2. QED
      BY <3>1, Zenon
  <2>4. CASE line[n + 1] \in rows
    BY <1>b, <2>1, <2>2, <2>3, <2>4
  <2>5. CASE line[n + 1] \notin rows
    <3>1. K[n + 1] = Append(K[n], line[n + 1])
      BY <1>b, <2>1, <2>2, <2>5
    <3>2. line[n + 1] \notin ToSet(K[n])
      <4>1. \A i \in 1 .. n : line[i] # line[n + 1]
        BY <1>0, <2>1, <2>2 DEF IsInjective
      <4>2. QED
        BY <4>1, <2>2
    <3>3. /\ K[n + 1] \in Seq(Labels)
          /\ ToSet(K[n + 1]) = ToSet(K[n]) \cup {line[n + 1]}
          /\ IsInjective(K[n + 1])
      BY <2>2, <3>1, <3>2, AppendRow
    <3>4. QED
      BY <3>3, <2>2, <2>3, <2>5
  <2>6. QED
    BY <2>4, <2>5
<1>3. T \in SUBSET Nat
  OBVIOUS
<1>4. T = Nat
  <2> HIDE DEF T
  <2>1. QED
    BY <1>1, <1>2, <1>3, Induction
<1>5. Good(Len(line))
  <2>1. Len(line) \in T
    BY <1>0, <1>4
  <2>2. QED
    BY <2>1, <1>0
<1>6. ToSet(line) = {line[i] : i \in 1 .. Len(line)}
  BY DEF ToSet
<1>7. QED
  BY <1>5, <1>6 DEF K

\* A queue without repetitions is as long as it has rows.
LEMMA DistinctLength ==
    ASSUME NEW S, NEW line \in Seq(S), IsInjective(line)
    PROVE  Len(line) = Cardinality(ToSet(line))
<1>1. Len(line) \in Nat /\ DOMAIN line = 1 .. Len(line)
  OBVIOUS
<1>2. line \in Bijection(1 .. Len(line), ToSet(line))
  <2>1. line \in [1 .. Len(line) -> ToSet(line)]
    BY <1>1 DEF ToSet
  <2>2. \A x \in ToSet(line) : \E i \in 1 .. Len(line) : line[i] = x
    BY <1>1 DEF ToSet
  <2>3. \A i, j \in 1 .. Len(line) : line[i] = line[j] => i = j
    BY <1>1 DEF IsInjective
  <2>4. QED
    BY <2>1, <2>2, <2>3, <1>1, Zenon DEF Bijection, Injection, Surjection, IsInjective
<1>3. IsFiniteSet(1 .. Len(line)) /\ Cardinality(1 .. Len(line)) = Len(line)
  BY <1>1, FS_Interval
<1>4. ExistsBijection(1 .. Len(line), ToSet(line))
  BY <1>2 DEF ExistsBijection
<1>5. QED
  BY <1>3, <1>4, FS_Bijection

\* TLC's form counts the rows; the form that is inductive says each is there once.
UpgradeInv == UpgradeTypeOK /\ IsInjective(backlog)

\* What a removal leaves is the pending rows that were not removed.
LEMMA WithoutRows ==
    ASSUME UpgradeInv, NEW rows
    PROVE  /\ Without(rows) \in Seq(Labels)
           /\ ToSet(Without(rows)) = {r \in Labels : label[r] = "cheap"} \ rows
           /\ IsInjective(Without(rows))
           /\ Len(Without(rows)) = Cardinality(ToSet(Without(rows)))
<1>1. /\ Without(rows) \in Seq(Labels)
      /\ ToSet(Without(rows)) = ToSet(backlog) \ rows
      /\ IsInjective(Without(rows))
  BY DroppingRows DEF UpgradeInv, UpgradeTypeOK, Without
<1>2. Len(Without(rows)) = Cardinality(ToSet(Without(rows)))
  BY <1>1, DistinctLength
<1>3. QED
  BY <1>1, <1>2 DEF UpgradeInv, UpgradeTypeOK

\* A new row goes to the end of the backlog.
LEMMA LabelCheaplyType ==
    ASSUME UpgradeInv, NEW r \in Labels, LabelCheaply(r)
    PROVE  UpgradeInv'
<1> USE DEF UpgradeInv, UpgradeTypeOK
<1>1. /\ backlog \in Seq(Labels) /\ r \notin ToSet(backlog)
      /\ IsInjective(backlog)
  BY DEF LabelCheaply
<1>2. backlog' = Append(backlog, r)
  BY DEF LabelCheaply
<1>3. /\ backlog' \in Seq(Labels)
      /\ ToSet(backlog') = ToSet(backlog) \cup {r}
      /\ IsInjective(backlog')
  BY <1>1, <1>2, AppendRow
<1>4. Len(backlog') = Cardinality(ToSet(backlog'))
  BY <1>3, DistinctLength
<1>5. {q \in Labels : label'[q] = "cheap"} = {q \in Labels : label[q] = "cheap"} \cup {r}
  BY DEF LabelCheaply
<1>6. QED
  BY <1>3, <1>4, <1>5, UpgradeAssumption DEF LabelCheaply

\* A forgotten row, or one that is built again, is pending no longer.
LEMMA RowGoneType ==
    ASSUME UpgradeInv, NEW r \in Labels, ForgetLabel(r) \/ ResetLabel(r)
    PROVE  UpgradeInv'
<1> USE DEF UpgradeInv, UpgradeTypeOK
<1>1. backlog' = Without({r}) /\ batch' = batch
  BY DEF ForgetLabel, ResetLabel
<1>2. /\ label' \in [Labels -> {"none", "cheap", "gone"} \cup Upgraders]
      /\ {q \in Labels : label'[q] = "cheap"} = {q \in Labels : label[q] = "cheap"} \ {r}
  BY DEF ForgetLabel, ResetLabel
<1>3. rebuilds' \in 0 .. MaxRebuilds
  BY UpgradeAssumption DEF ForgetLabel, ResetLabel
<1>4. QED
  BY <1>1, <1>2, <1>3, WithoutRows

\* A batch is no longer than the limit.
LEMMA AskModelType ==
    ASSUME UpgradeInv, NEW u \in Upgraders, AskModel(u)
    PROVE  UpgradeInv'
<1> USE DEF UpgradeInv, UpgradeTypeOK
<1> DEFINE n == IF Len(backlog) < BatchLimit THEN Len(backlog) ELSE BatchLimit
<1>1. n \in 0 .. Len(backlog) /\ n \in 0 .. BatchLimit
  BY UpgradeAssumption
<1> HIDE DEF n
<1>2. OldestPending = SubSeq(backlog, 1, n)
  BY DEF OldestPending, n
<1>3. SubSeq(backlog, 1, n) \in Seq(Labels) /\ Len(SubSeq(backlog, 1, n)) = n
  <2>1. \A i \in 1 .. n : backlog[i] \in Labels
    BY <1>1
  <2>2. n \in Int /\ 1 \in Int /\ (1 <= n => n - 1 + 1 = n) /\ (~(1 <= n) => n = 0)
    BY <1>1
  <2>3. QED
    BY <2>1, <2>2, SubSeqProperties
<1>4. OldestPending \in Seq(Labels) /\ Len(OldestPending) <= BatchLimit
  BY <1>1, <1>2, <1>3, UpgradeAssumption
<1>5. batch' = [batch EXCEPT ![u] = OldestPending] /\ UNCHANGED <<label, backlog, rebuilds>>
  BY DEF AskModel
<1>6. QED
  BY <1>4, <1>5

\* An answer labels rows that were pending, and only those.
LEMMA CommitLabelsType ==
    ASSUME UpgradeInv, NEW u \in Upgraders, NEW n, CommitLabels(u, n)
    PROVE  UpgradeInv'
<1> USE DEF UpgradeInv, UpgradeTypeOK
<1> DEFINE some == Upgradable(u, n)
<1>1. u # "cheap"
  BY UpgradeAssumption
<1>2. \A r \in some : label[r] = "cheap"
  BY DEF Upgradable
<1>3. /\ label' = [r \in Labels |-> IF r \in some THEN u ELSE label[r]]
      /\ backlog' = Without(some)
      /\ batch' = [batch EXCEPT ![u] = <<>>]
      /\ rebuilds' = rebuilds
  BY DEF CommitLabels
<1> HIDE DEF some
<1>4. /\ label' \in [Labels -> {"none", "cheap", "gone"} \cup Upgraders]
      /\ {q \in Labels : label'[q] = "cheap"} = {q \in Labels : label[q] = "cheap"} \ some
  BY <1>1, <1>3
<1>5. \A v \in Upgraders : batch'[v] \in Seq(Labels) /\ Len(batch'[v]) <= BatchLimit
  BY <1>3, UpgradeAssumption
<1>6. QED
  BY <1>3, <1>4, <1>5, WithoutRows

\* Every step of the upgraders, the write path and the deletions.
LEMMA UpgradeTypeStep == UpgradeInv /\ [UpgradeNext]_upgradeVars => UpgradeInv'
<1> SUFFICES ASSUME UpgradeInv, [UpgradeNext]_upgradeVars PROVE UpgradeInv'
  OBVIOUS
<1>1. ASSUME NEW r \in Labels, LabelCheaply(r) PROVE UpgradeInv'
  BY <1>1, LabelCheaplyType
<1>2. ASSUME NEW r \in Labels, ForgetLabel(r) \/ ResetLabel(r) PROVE UpgradeInv'
  BY <1>2, RowGoneType
<1>3. ASSUME NEW u \in Upgraders, AskModel(u) PROVE UpgradeInv'
  BY <1>3, AskModelType
<1>4. ASSUME NEW u \in Upgraders, Answer(u) \/ AnswerShort(u) \/ NoAnswer(u)
      PROVE  UpgradeInv'
  <2>1. PICK n : CommitLabels(u, n)
    BY <1>4 DEF Answer, AnswerShort, NoAnswer
  <2>2. QED
    BY <2>1, CommitLabelsType
<1>5. CASE UNCHANGED upgradeVars
  BY <1>5 DEF UpgradeInv, UpgradeTypeOK, upgradeVars
<1>6. QED
  BY <1>1, <1>2, <1>3, <1>4, <1>5 DEF UpgradeNext

\* The label upgrader: the backlog is the rows whose label is pending, each
\* once, through every forget, rebuild and answer, in part or in full.
THEOREM BacklogIsThePending == UpgradeSpec => []UpgradeTypeOK
<1>1. UpgradeInit => UpgradeInv
  <2> SUFFICES ASSUME UpgradeInit PROVE UpgradeInv
    OBVIOUS
  <2>1. backlog = <<>> /\ ToSet(<<>>) = {} /\ IsInjective(<<>>) /\ <<>> \in Seq(Labels) /\ Len(<<>>) = 0
    BY DEF UpgradeInit, ToSet, IsInjective
  <2>2. Len(<<>>) = Cardinality({})
    BY FS_EmptySet
  <2>3. {r \in Labels : label[r] = "cheap"} = {}
    BY DEF UpgradeInit
  <2>4. /\ batch \in [Upgraders -> Seq(Labels)]
        /\ \A u \in Upgraders : batch[u] = <<>>
        /\ label \in [Labels -> {"none", "cheap", "gone"} \cup Upgraders]
        /\ rebuilds \in 0 .. MaxRebuilds
    BY <2>1, UpgradeAssumption DEF UpgradeInit
  <2>5. \A u \in Upgraders : Len(batch[u]) <= BatchLimit
    BY <2>1, <2>4, UpgradeAssumption
  <2>6. /\ backlog \in Seq(Labels) /\ IsInjective(backlog)
        /\ ToSet(backlog) = {r \in Labels : label[r] = "cheap"}
        /\ Len(backlog) = Cardinality(ToSet(backlog))
    BY <2>1, <2>2, <2>3
  <2>7. QED
    BY <2>4, <2>5, <2>6 DEF UpgradeInv, UpgradeTypeOK
<1>2. UpgradeInv => UpgradeTypeOK
  BY DEF UpgradeInv
<1>3. QED
  BY <1>1, <1>2, UpgradeTypeStep, PTL DEF UpgradeSpec

-----------------------------------------------------------------------------
(* The canary.  Behind the join only stragglers are left, and a drain that   *)
(* was reported outlasts whatever the others do; and what paused the         *)
(* projections is a recovery under way, one that raised, or the rollback.    *)

Behind == {"draining", "report", "done", "raised"}

CanaryInv ==
    /\ CanaryTypeOK
    /\ spc \in {"boot", "loop", "fire", "recover"} => reason = "none"
    /\ spc \in Behind => producing \subseteq stragglers
    /\ drained => spc \in Behind /\ (queue = 0 \/ stragglers # {})
    /\ halted => \/ spc = "recover" /\ recovery = "pause_and_drain"
                 \/ reason = "exception"
                 \/ spc = "done" /\ reason = "fatal"

LEMMA InitCanary == CanaryInit => CanaryInv
<1> SUFFICES ASSUME CanaryInit PROVE CanaryInv
  OBVIOUS
<1>1. MaxQueue \in Nat /\ MaxDeaths \in Nat
  BY CanaryAssumption
<1>2. {halted, drained, rolledBack} \subseteq BOOLEAN
  BY DEF CanaryInit
<1>3. QED
  BY <1>1, <1>2 DEF CanaryInit, CanaryInv, CanaryTypeOK, Behind

LEMMA CanaryStep == CanaryInv /\ [CanaryNext]_canaryVars => CanaryInv'
<1> SUFFICES ASSUME CanaryInv, [CanaryNext]_canaryVars PROVE CanaryInv'
  OBVIOUS
<1>0. /\ MaxQueue \in Nat /\ MaxDeaths \in Nat
      /\ FirstSlot \in Slots /\ LastSlot \in Slots
  BY CanaryAssumption
<1> USE DEF CanaryInv, CanaryTypeOK, Behind, children, ending
<1>1. CASE Produce
  BY <1>0, <1>1 DEF Produce
<1>2. CASE Project
  BY <1>0, <1>2 DEF Project
<1>3. CASE ChildDies
  BY <1>0, <1>3 DEF ChildDies
<1>15. CASE ProducerLeaves
  BY <1>0, <1>15 DEF ProducerLeaves
<1>4. CASE Boot
  BY <1>0, <1>4 DEF Boot
<1>5. CASE Sample \/ LoopEnds \/ NothingDue
  BY <1>5 DEF Sample, LoopEnds, NothingDue
<1>6. ASSUME NEW what \in Recoveries, Fire(what) PROVE CanaryInv'
  <2>1. /\ spc = "fire" /\ spc' = "recover" /\ recovery' = what
        /\ fired' = fired \cup {what}
        /\ UNCHANGED <<managing, queue, stragglers, reason, drained, rolledBack, childDeaths>>
    BY <1>6 DEF Fire
  <2>2. CASE what = "worker_restart"
    BY <1>6, <2>1, <2>2 DEF Fire
  <2>3. CASE what = "kill_lease_holder"
    BY <1>6, <2>1, <2>3 DEF Fire
  <2>4. CASE what = "pause_and_drain"
    BY <1>6, <2>1, <2>4 DEF Fire
  <2>5. CASE what = "full_runtime_restart"
    BY <1>6, <2>1, <2>5 DEF Fire
  <2>6. CASE what = "probe"
    BY <1>6, <2>1, <2>6 DEF Fire
  <2>7. QED
    BY <2>2, <2>3, <2>4, <2>5, <2>6 DEF Recoveries
<1>7. CASE RecoveryEnds
  <2>1. /\ spc = "recover" /\ spc' = "fire" /\ recovery' = "none" /\ ~halted'
        /\ halted' \in BOOLEAN
        /\ UNCHANGED <<fired, queue, stragglers, reason, drained, rolledBack, childDeaths>>
    BY <1>7 DEF RecoveryEnds, Lifted
  <2>2. working' \subseteq Slots /\ managing' \subseteq Slots /\ producing' \subseteq Producers
    <3>1. CASE recovery = "worker_restart"
      BY <1>0, <1>7, <3>1 DEF RecoveryEnds, Respawned
    <3>2. CASE recovery = "kill_lease_holder"
      BY <1>0, <1>7, <3>2 DEF RecoveryEnds, Respawned
    <3>3. CASE recovery = "full_runtime_restart"
      BY <1>0, <1>7, <3>3 DEF RecoveryEnds
    <3>4. CASE recovery \notin {"worker_restart", "kill_lease_holder", "full_runtime_restart"}
      BY <1>7, <3>4 DEF RecoveryEnds
    <3>5. QED
      BY <3>1, <3>2, <3>3, <3>4
  <2>3. QED
    BY <2>1, <2>2
<1>8. CASE RecoveryRaises
  BY <1>8 DEF RecoveryRaises
<1>9. CASE JoinProducers
  BY <1>9 DEF JoinProducers
<1>10. CASE ConcludeDrain
  BY <1>10 DEF ConcludeDrain
<1>11. CASE ReportRaises
  BY <1>11 DEF ReportRaises
<1>12. CASE Conclude
  BY <1>12 DEF Conclude
<1>13. CASE UNCHANGED canaryVars
  BY <1>13 DEF canaryVars
<1>14. QED
  BY <1>1, <1>2, <1>3, <1>4, <1>5, <1>6, <1>7, <1>8, <1>9, <1>10, <1>11, <1>12, <1>13,
     <1>15
  DEF CanaryNext, Supervise

\* The supervisor's state stays in shape, whoever dies and whatever raises.
THEOREM CanaryTypeCorrect == CanarySpec => []CanaryTypeOK
<1>1. CanaryInv => CanaryTypeOK
  BY DEF CanaryInv
<1>2. QED
  BY <1>1, InitCanary, CanaryStep, PTL DEF CanarySpec

\* A drain that is reported stays drained whoever dies, except for producers that
\* outlived their join; and only a rollback or a recovery that raised leaves the
\* projections paused.
THEOREM CanaryEndsClean == CanarySpec => []EndsClean
<1>1. CanaryInv => EndsClean
  BY DEF CanaryInv, EndsClean, Behind
<1>2. QED
  BY <1>1, InitCanary, CanaryStep, PTL DEF CanarySpec

\* One worker manages the WAL, by whichever of the four paths workers were
\* spawned, if there are two or more: with `--workers 1` the worker that
\* kill_lease_holder replaces is the manager, and its replacement is not.
THEOREM OneWorkerManages ==
    ASSUME FirstSlot # LastSlot
    PROVE  CanarySpec => []OneManager
<1>1. CanaryInit => OneManager
  BY DEF CanaryInit, OneManager
<1>2. OneManager /\ [CanaryNext]_canaryVars => OneManager'
  <2> SUFFICES ASSUME OneManager, [CanaryNext]_canaryVars PROVE OneManager'
    OBVIOUS
  <2>1. ASSUME UNCHANGED managing, spc = "boot" <=> spc' = "boot" PROVE OneManager'
    BY <2>1 DEF OneManager
  <2>2. CASE Boot
    BY <2>2 DEF Boot, OneManager
  <2>3. CASE RecoveryEnds
    <3>1. spc = "recover" /\ managing = {FirstSlot}
      BY <2>3 DEF RecoveryEnds, OneManager
    <3>2. CASE recovery = "worker_restart"
      BY <2>3, <3>1, <3>2 DEF RecoveryEnds, Respawned, OneManager
    <3>3. CASE recovery = "kill_lease_holder"
      BY <2>3, <3>1, <3>3 DEF RecoveryEnds, Respawned, OneManager
    <3>4. CASE recovery = "full_runtime_restart"
      BY <2>3, <3>1, <3>4 DEF RecoveryEnds, OneManager
    <3>5. CASE recovery \notin {"worker_restart", "kill_lease_holder", "full_runtime_restart"}
      BY <2>3, <3>1, <3>5 DEF RecoveryEnds, OneManager
    <3>6. QED
      BY <3>2, <3>3, <3>4, <3>5
  <2>4. CASE Produce \/ Project \/ ProducerLeaves \/ ChildDies
    BY <2>1, <2>4 DEF Produce, Project, ProducerLeaves, ChildDies
  <2>5. CASE Sample \/ LoopEnds \/ NothingDue \/ RecoveryRaises
    BY <2>1, <2>5 DEF Sample, LoopEnds, NothingDue, RecoveryRaises, children
  <2>6. ASSUME NEW what \in Recoveries, Fire(what) PROVE OneManager'
    BY <2>1, <2>6 DEF Fire
  <2>7. CASE JoinProducers \/ ConcludeDrain \/ ReportRaises \/ Conclude
    BY <2>1, <2>7 DEF JoinProducers, ConcludeDrain, ReportRaises, Conclude, children
  <2>8. CASE UNCHANGED canaryVars
    BY <2>1, <2>8 DEF canaryVars
  <2>9. QED
    BY <2>2, <2>3, <2>4, <2>5, <2>6, <2>7, <2>8 DEF CanaryNext, Supervise
<1>3. QED
  BY <1>1, <1>2, PTL DEF CanarySpec

-----------------------------------------------------------------------------
(* Sleep: types.  What the garbage collector leaves is young enough to be a   *)
(* night older; an entry is in working memory exactly while its fate says so. *)

\* A night older than the garbage collector leaves them, while it has not looked;
\* and another for every night that was cut short before it did.
Aged == \A e \in DOMAIN l1 :
           l1[e].nights <= Ttl + setbacks + (IF sleeper.at = "prune" THEN 5 ELSE 4)

Places == {"awake", "prune", "label", "compile", "shelve", "keep", "reconcile", "mark"}

SleepTypeInv ==
    /\ l1 \in [DOMAIN l1 -> Rows] /\ DOMAIN l1 \subseteq Entries
    /\ fate \in [Entries -> {"new", "held", "pruned", "lost"}]
    /\ \A e \in Entries : e \in DOMAIN l1 <=> fate[e] = "held"
    /\ Cardinality(DOMAIN l1) <= MaxEntries
    /\ stored \subseteq Entries
    /\ asked \in [Entries -> {0, 1}]
    /\ sleeper.at \in Places
    /\ sleeper \in [at: Places,
                    queue: SUBSET Entries, entry: Entries \cup {NoEntry}]
    /\ outages \in 0 .. MaxOutages /\ setbacks \in 0 .. MaxSetbacks
    /\ Aged

\* Nobody is asked twice: an entry that is raw, new or waiting for its turn has not
\* been put before a human since a turn about it was cut short; the entry whose
\* turn it is may be raw and have been.
Turn(e) == sleeper.at \in Unmarked /\ sleeper.entry = e

AskedInv ==
    /\ \A e \in DOMAIN l1 : l1[e].status = "raw" /\ ~Turn(e) => asked[e] = 0
    /\ \A e \in Entries : fate[e] = "new" => asked[e] = 0
    /\ sleeper.at \in Turns \cup {"compile"} =>
          \A e \in sleeper.queue : asked[e] = 0 /\ fate[e] # "new"
    /\ sleeper.at \in Turns => /\ sleeper.entry \in Entries
                               /\ sleeper.entry \notin sleeper.queue
                               /\ fate[sleeper.entry] # "new"

SleepInv == SleepTypeInv /\ AskedInv

LEMMA SleepConstants ==
    /\ IsFiniteSet(Entries)
    /\ Ttl \in Nat /\ MaxEntries \in Nat \ {0} /\ MaxOutages \in Nat
    /\ MaxSetbacks \in Nat
    /\ Worth \in [Entries -> Grades] /\ Cheap \in [Entries -> Grades]
  BY SleepAssumption

LEMMA InitSleep == SleepInit => SleepInv
<1> SUFFICES ASSUME SleepInit PROVE SleepInv
  OBVIOUS
<1>1. DOMAIN l1 = {} /\ Cardinality({}) = 0
  BY FS_EmptySet DEF SleepInit
<1>2. l1 \in [DOMAIN l1 -> Rows]
  BY <1>1 DEF SleepInit
<1>3. SleepTypeInv
  BY <1>1, <1>2, SleepConstants DEF SleepInit, SleepTypeInv, Aged, Awake, Places
<1>4. AskedInv
  BY <1>1 DEF SleepInit, AskedInv, Awake, Turns
<1>5. QED
  BY <1>3, <1>4 DEF SleepInv

\* Grades and how long they last.
LEMMA GradeLasts ==
    ASSUME NEW e \in Entries
    PROVE  /\ Grade(e) \in Grades
           /\ Lasting(Grade(e)) \in 0 .. 4
           /\ Lasting("high") = 4
<1>1. Grade(e) \in Grades
  BY SleepConstants DEF Grade
<1>2. Lasting("junk") = 0 /\ Lasting("middling") = 1 /\ Lasting("high") = 4
  BY DEF Lasting
<1>3. QED
  BY <1>1, <1>2 DEF Grades

\* Where a sleep goes when it is done with an entry.
LEMMA OnwardTypes ==
    ASSUME NEW q \in SUBSET Entries
    PROVE  /\ Onward(q) \in [at: Places,
                             queue: SUBSET Entries, entry: Entries \cup {NoEntry}]
           /\ Onward(q).queue = q
           /\ Onward(q).at = IF q = {} THEN "awake" ELSE "compile"
  BY DEF Onward, Awake, Places

\* A step that neither adds to working memory nor takes from it.
LEMMA RowsStay ==
    ASSUME SleepTypeInv, DOMAIN l1' = DOMAIN l1, l1' \in [DOMAIN l1 -> Rows],
           UNCHANGED fate, stored' \subseteq Entries, asked' \in [Entries -> {0, 1}],
           sleeper' \in [at: Places,
                         queue: SUBSET Entries, entry: Entries \cup {NoEntry}],
           outages' \in 0 .. MaxOutages, setbacks' \in 0 .. MaxSetbacks, Aged'
    PROVE  SleepTypeInv'
<1>1. sleeper'.at \in Places
  OBVIOUS
<1>2. QED
  BY <1>1 DEF SleepTypeInv

LEMMA ObserveType ==
    ASSUME SleepInv, NEW e \in Entries, Observe(e)
    PROVE  /\ SleepTypeInv'
           /\ UNCHANGED <<stored, asked, sleeper, outages, setbacks>>
           /\ sleeper.at \in {"awake", "label", "compile", "reconcile"}
           /\ e \notin DOMAIN l1
           /\ fate[e] = "new" /\ fate'[e] # "new"
           /\ \A d \in DOMAIN l1' :
                 \/ d = e /\ l1'[d] = [pending |-> TRUE, nights |-> 0, status |-> "raw"]
                 \/ d \in DOMAIN l1 /\ l1'[d] = l1[d]
           /\ \A d \in Entries : /\ fate'[d] = "new" => fate[d] = "new"
                                 /\ fate'[d] = "pruned" <=> fate[d] = "pruned"
<1> DEFINE new == [pending |-> TRUE, nights |-> 0, status |-> "raw"]
           rows == [d \in DOMAIN l1 \cup {e} |-> IF d = e THEN new ELSE l1[d]]
<1>0. SleepTypeInv /\ new \in Rows /\ new.nights = 0
  BY SleepConstants DEF SleepInv, Rows
<1>1. PICK kept \in Kept(rows) :
        /\ l1' = Restrict(rows, kept)
        /\ fate' = [d \in Entries |-> IF d \in DOMAIN rows \ kept THEN "lost"
                                      ELSE IF d = e THEN "held" ELSE fate[d]]
  BY DEF Observe
<1>2. /\ fate[e] = "new" /\ sleeper.at \in {"awake", "label", "compile", "reconcile"}
      /\ UNCHANGED <<stored, asked, sleeper, outages, setbacks>>
  BY DEF Observe, Awaiting
<1>3. DOMAIN rows = DOMAIN l1 \cup {e} /\ e \notin DOMAIN l1
  BY <1>0, <1>2 DEF SleepTypeInv
<1>4. kept \subseteq DOMAIN rows /\ Cardinality(kept) <= MaxEntries
  <2>1. CASE Cardinality(DOMAIN rows) <= MaxEntries
    BY <2>1 DEF Kept
  <2>2. CASE ~(Cardinality(DOMAIN rows) <= MaxEntries)
    <3>1. kept \in SUBSET DOMAIN rows /\ Cardinality(kept) = MaxEntries
      BY <2>2 DEF Kept
    <3>2. QED
      BY <3>1, SleepConstants
  <2>3. QED
    BY <2>1, <2>2
<1>5. DOMAIN l1' = kept /\ \A d \in kept : l1'[d] = IF d = e THEN new ELSE l1[d]
  BY <1>1, <1>4 DEF Restrict
<1>6. l1' \in [DOMAIN l1' -> Rows]
  <2>1. l1' = [d \in DOMAIN l1' |-> l1'[d]]
    BY <1>1, <1>5 DEF Restrict
  <2>2. \A d \in DOMAIN l1' : l1'[d] \in Rows
    BY <1>0, <1>3, <1>4, <1>5 DEF SleepTypeInv
  <2>3. QED
    BY <2>1, <2>2
<1>7. fate' \in [Entries -> {"new", "held", "pruned", "lost"}]
  BY <1>0, <1>1 DEF SleepTypeInv
<1>8. \A d \in Entries : d \in DOMAIN l1' <=> fate'[d] = "held"
  BY <1>0, <1>1, <1>3, <1>4, <1>5 DEF SleepTypeInv
<1>9. Aged'
  <2>1. sleeper.at # "prune" /\ setbacks \in Nat
    BY <1>0, <1>2, SleepConstants DEF SleepTypeInv
  <2> HIDE DEF new
  <2>2. QED
    BY <1>0, <1>2, <1>3, <1>4, <1>5, <2>1, SleepConstants DEF SleepTypeInv, Aged
<1>10. SleepTypeInv'
  BY <1>0, <1>2, <1>3, <1>4, <1>5, <1>6, <1>7, <1>8, <1>9 DEF SleepTypeInv
<1>11. \A d \in Entries : /\ fate'[d] = "new" => fate[d] = "new"
                          /\ fate'[d] = "pruned" <=> fate[d] = "pruned"
  BY <1>0, <1>1, <1>2, <1>3 DEF SleepTypeInv
<1>12. fate'[e] # "new"
  BY <1>1
<1>13. \A d \in DOMAIN l1' : \/ d = e /\ l1'[d] = new
                             \/ d \in DOMAIN l1 /\ l1'[d] = l1[d]
  <2> HIDE DEF new
  <2>1. QED
    BY <1>3, <1>4, <1>5
<1> HIDE DEF rows
<1>14. QED
  BY <1>2, <1>3, <1>10, <1>11, <1>12, <1>13

\* Compiling one entry: marking it, or not.
LEMMA MarkType ==
    ASSUME SleepTypeInv, NEW e, l1' = Encoded(e) \/ UNCHANGED l1
    PROVE  /\ DOMAIN l1' = DOMAIN l1 /\ l1' \in [DOMAIN l1 -> Rows]
           /\ \A d \in DOMAIN l1 : /\ l1'[d].nights = l1[d].nights
                                   /\ l1'[d].pending = l1[d].pending
                                   /\ l1'[d].status \in {l1[d].status, "encoded"}
                                   /\ d # e => l1'[d] = l1[d]
           /\ l1' = Encoded(e) /\ e \in DOMAIN l1 => l1'[e].status = "encoded"
<1>1. l1 \in [DOMAIN l1 -> Rows]
  BY DEF SleepTypeInv
<1>2. \A d \in DOMAIN l1 : l1[d] \in Rows
  BY <1>1
<1>3. CASE UNCHANGED l1 /\ l1' # Encoded(e)
  BY <1>1, <1>3
<1>4. CASE l1' = Encoded(e) /\ e \notin DOMAIN l1
  BY <1>1, <1>4 DEF Encoded
<1>5. CASE l1' = Encoded(e) /\ e \in DOMAIN l1
  <2> DEFINE r == [l1[e] EXCEPT !.status = "encoded"]
  <2>1. /\ r \in Rows /\ r.nights = l1[e].nights /\ r.pending = l1[e].pending
        /\ r.status = "encoded"
    BY <1>2, <1>5 DEF Rows
  <2>2. l1' = [l1 EXCEPT ![e] = r]
    BY <1>5 DEF Encoded
  <2> HIDE DEF r
  <2>3. QED
    BY <1>1, <1>5, <2>1, <2>2
<1>6. QED
  BY <1>3, <1>4, <1>5

\* Every step of a sleep keeps the types, and what the requests rest on.
LEMMA SleepStays == SleepInv /\ [SleepNext]_sleepVars => SleepInv'
<1> SUFFICES ASSUME SleepInv, [SleepNext]_sleepVars PROVE SleepInv'
  OBVIOUS
<1>0. /\ SleepTypeInv /\ AskedInv /\ Aged
      /\ setbacks \in Nat /\ MaxSetbacks \in Nat /\ Ttl \in Nat
  BY SleepConstants DEF SleepInv, SleepTypeInv
<1>1. /\ l1 \in [DOMAIN l1 -> Rows] /\ \A e \in DOMAIN l1 : l1[e] \in Rows
      /\ DOMAIN l1 \subseteq Entries /\ sleeper.queue \subseteq Entries
  BY <1>0 DEF SleepTypeInv
<1>2. ASSUME NEW e \in Entries, Observe(e) PROVE SleepInv'
  <2>1. /\ SleepTypeInv'
        /\ UNCHANGED <<stored, asked, sleeper, outages, setbacks>>
        /\ e \notin DOMAIN l1 /\ fate[e] = "new" /\ fate'[e] # "new"
        /\ \A d \in DOMAIN l1' : d = e \/ (d \in DOMAIN l1 /\ l1'[d] = l1[d])
        /\ \A d \in Entries : fate'[d] = "new" => fate[d] = "new"
    BY <1>2, ObserveType
  <2>2. asked[e] = 0
    BY <1>0, <2>1 DEF AskedInv
  <2>3. AskedInv'
    BY <1>0, <1>1, <2>1, <2>2 DEF AskedInv, Turn
  <2>4. QED
    BY <2>1, <2>3 DEF SleepInv
<1>3. CASE FallAsleep
  <2>1. /\ sleeper.at = "awake" /\ sleeper' = [sleeper EXCEPT !.at = "prune"]
        /\ l1' = [e \in DOMAIN l1 |-> [l1[e] EXCEPT !.nights = @ + 1]]
        /\ UNCHANGED <<fate, stored, asked, outages, setbacks>>
    BY <1>3 DEF FallAsleep
  <2>2. ASSUME NEW e \in DOMAIN l1
        PROVE  /\ [l1[e] EXCEPT !.nights = @ + 1] \in Rows
               /\ [l1[e] EXCEPT !.nights = @ + 1].status = l1[e].status
    <3>1. l1[e].nights \in 0 .. Ttl + 4 + MaxSetbacks
      BY <1>0, <1>1, <2>1 DEF SleepTypeInv, Aged, Rows
    <3>2. QED
      BY <1>0, <1>1, <3>1 DEF Rows
  <2>3. sleeper'.at = "prune" /\ sleeper' \in
           [at: Places,
            queue: SUBSET Entries, entry: Entries \cup {NoEntry}]
    BY <1>0, <2>1 DEF SleepTypeInv, Places
  <2>4. DOMAIN l1' = DOMAIN l1 /\ l1' \in [DOMAIN l1 -> Rows]
    BY <2>1, <2>2
  <2>8. Aged'
    <3>1. \A e \in DOMAIN l1 : l1[e].nights \in Nat /\ l1'[e].nights = l1[e].nights + 1
      BY <1>1, <2>1 DEF Rows
    <3>2. QED
      BY <1>0, <2>1, <2>3, <2>4, <3>1 DEF Aged
  <2>5. SleepTypeInv'
    BY <1>0, <2>1, <2>3, <2>4, <2>8, RowsStay DEF SleepTypeInv
  <2>6. AskedInv'
    BY <1>0, <2>1, <2>2, <2>3, <2>4 DEF AskedInv, Turn, Turns, Unmarked
  <2>7. QED
    BY <2>5, <2>6 DEF SleepInv
<1>4. CASE Dream
  <2>1. /\ sleeper' = [sleeper EXCEPT !.at = "label", !.queue = Pending]
        /\ sleeper.at = "awake"
        /\ UNCHANGED <<l1, fate, stored, asked, outages, setbacks>>
    BY <1>4 DEF Dream
  <2>2. Pending \subseteq Entries
    BY <1>1 DEF Pending
  <2>3. sleeper'.at = "label" /\ sleeper' \in
           [at: Places,
            queue: SUBSET Entries, entry: Entries \cup {NoEntry}]
    BY <1>0, <2>1, <2>2 DEF SleepTypeInv, Places
  <2>4. SleepTypeInv'
    BY <1>0, <2>1, <2>3 DEF SleepTypeInv, Aged
  <2>5. AskedInv'
    BY <1>0, <2>1, <2>3 DEF AskedInv, Turn, Turns, Unmarked
  <2>6. QED
    BY <2>4, <2>5 DEF SleepInv
<1>5. CASE Prune
  <2> DEFINE cut == {e \in DOMAIN l1 : Forgettable(e)}
             left == DOMAIN l1 \ cut
  <2>1. /\ sleeper' = [sleeper EXCEPT !.at = "label", !.queue = Pending \ cut]
        /\ l1' = Restrict(l1, left)
        /\ fate' = [e \in Entries |-> IF e \in cut THEN "pruned" ELSE fate[e]]
        /\ UNCHANGED <<stored, asked, outages, setbacks>>
    BY <1>5 DEF Prune
  <2>2. cut \subseteq DOMAIN l1 /\ \A e \in DOMAIN l1 : e \in cut <=> Forgettable(e)
    OBVIOUS
  <2> HIDE DEF cut
  <2>3. Pending \ cut \subseteq Entries
    BY <1>1 DEF Pending
  <2>4. sleeper'.at = "label" /\ sleeper' \in
           [at: Places,
            queue: SUBSET Entries, entry: Entries \cup {NoEntry}]
    BY <1>0, <2>1, <2>3 DEF SleepTypeInv, Places
  <2>5. DOMAIN l1' = left /\ \A e \in left : l1'[e] = l1[e]
    BY <2>1 DEF Restrict
  <2>6. l1' \in [left -> Rows]
    BY <1>1, <2>1 DEF Restrict
  <2>7. Cardinality(left) <= MaxEntries
    <3>1. IsFiniteSet(DOMAIN l1)
      BY <1>1, SleepConstants, FS_Subset
    <3>2. Cardinality(left) <= Cardinality(DOMAIN l1) /\ IsFiniteSet(left)
      BY <3>1, FS_Subset
    <3>3. Cardinality(left) \in Nat /\ Cardinality(DOMAIN l1) \in Nat
      BY <3>1, <3>2, FS_CardinalityType
    <3>4. QED
      BY <1>0, <3>2, <3>3, SleepConstants DEF SleepTypeInv
  <2>8. \A e \in left : l1[e].nights <= Ttl + 4
    <3> SUFFICES ASSUME NEW e \in left PROVE l1[e].nights <= Ttl + 4
      OBVIOUS
    <3>1. ~(l1[e].nights > Ttl + Lasting(Grade(e)))
      BY <2>2 DEF Forgettable
    <3>2. Lasting(Grade(e)) \in 0 .. 4 /\ l1[e].nights \in Nat
      BY <1>1, GradeLasts DEF Rows
    <3>3. QED
      BY <3>1, <3>2, SleepConstants
  <2>14. Aged'
    <3>1. setbacks' = setbacks /\ setbacks \in Nat
      BY <1>0, <2>1, SleepConstants DEF SleepTypeInv
    <3>2. \A e \in DOMAIN l1' : l1'[e].nights <= Ttl + 4
      BY <2>5, <2>8
    <3>3. \A e \in DOMAIN l1' : l1'[e].nights \in Nat
      BY <1>1, <2>5 DEF Rows
    <3> QED
      BY <2>4, <3>1, <3>2, <3>3, SleepConstants DEF Aged
  <2>9. fate' \in [Entries -> {"new", "held", "pruned", "lost"}]
    BY <1>0, <2>1 DEF SleepTypeInv
  <2>10. \A e \in Entries : e \in DOMAIN l1' <=> fate'[e] = "held"
    BY <1>0, <2>1, <2>2, <2>5 DEF SleepTypeInv
  <2>11. SleepTypeInv'
    BY <1>0, <1>1, <2>1, <2>4, <2>5, <2>6, <2>7, <2>9, <2>10, <2>14
    DEF SleepTypeInv
  <2>15. sleeper.at = "prune" /\ \A e \in Entries : ~Turn(e) /\ ~Turn(e)'
    BY <1>5, <2>4 DEF Prune, Turn, Unmarked
  <2>12. AskedInv'
    BY <1>0, <1>1, <2>1, <2>4, <2>5, <2>15 DEF AskedInv, SleepTypeInv, Turns
  <2>13. QED
    BY <2>11, <2>12 DEF SleepInv
<1>6. CASE Relabel
  <2>1. PICK answered \in SUBSET sleeper.queue :
          /\ IF answered = sleeper.queue THEN UNCHANGED outages
             ELSE outages < MaxOutages /\ outages' = outages + 1
          /\ l1' = [e \in DOMAIN l1 |-> IF e \in answered
                                       THEN [l1[e] EXCEPT !.pending = FALSE]
                                       ELSE l1[e]]
    BY <1>6 DEF Relabel
  <2>2. sleeper.at = "label" /\ sleeper' = Onward(Survivors)
        /\ UNCHANGED <<fate, stored, asked, setbacks>>
    BY <1>6 DEF Relabel
  <2>3. Survivors \subseteq Raw /\ Raw \subseteq DOMAIN l1
    BY DEF Survivors, Raw
  <2>4. outages' \in 0 .. MaxOutages
    BY <1>0, <2>1, SleepConstants DEF SleepTypeInv
  <2>5. ASSUME NEW e \in DOMAIN l1
        PROVE  /\ [l1[e] EXCEPT !.pending = FALSE] \in Rows
               /\ [l1[e] EXCEPT !.pending = FALSE].status = l1[e].status
               /\ [l1[e] EXCEPT !.pending = FALSE].nights = l1[e].nights
    BY <1>1 DEF Rows
  <2>6. /\ DOMAIN l1' = DOMAIN l1 /\ l1' \in [DOMAIN l1 -> Rows]
        /\ \A e \in DOMAIN l1 : l1'[e].nights = l1[e].nights /\ l1'[e].status = l1[e].status
    BY <1>1, <2>1, <2>5
  <2>7. Survivors \in SUBSET Entries
    BY <1>1, <2>3
  <2>8. sleeper' \in [at: Places,
                      queue: SUBSET Entries, entry: Entries \cup {NoEntry}]
        /\ sleeper'.queue = Survivors /\ sleeper'.at \in {"awake", "compile"}
    BY <2>2, <2>7, OnwardTypes
  <2>13. Aged'
    BY <1>0, <2>2, <2>6, <2>8 DEF Aged
  <2>9. SleepTypeInv'
    BY <1>0, <2>2, <2>4, <2>6, <2>8, <2>13, RowsStay DEF SleepTypeInv
  <2>14. \A e \in Entries : ~Turn(e) /\ ~Turn(e)'
    BY <2>2, <2>8 DEF Turn, Unmarked
  <2>10. \A e \in Survivors : asked[e] = 0 /\ fate[e] # "new"
    BY <1>0, <1>1, <2>3, <2>14 DEF AskedInv, Raw, Survivors, SleepTypeInv
  <2>11. AskedInv'
    BY <1>0, <1>1, <2>2, <2>6, <2>8, <2>10, <2>14 DEF AskedInv, Turns
  <2>12. QED
    BY <2>9, <2>11 DEF SleepInv
\* Work on one entry: it is marked, or its turn goes on, or nothing was asked.
<1>7. ASSUME NEW e \in Entries, l1' = Encoded(e) \/ UNCHANGED l1,
             UNCHANGED fate, stored' \subseteq Entries,
             outages' \in 0 .. MaxOutages, UNCHANGED setbacks,
             sleeper.at \in Turns \cup {"compile"},
             sleeper' \in [at: Places, queue: SUBSET Entries, entry: Entries \cup {NoEntry}],
             sleeper'.queue \subseteq sleeper.queue,
             sleeper'.at \in Turns \cup {"compile", "awake"},
             sleeper'.at \in Turns =>
                 sleeper'.entry = e /\ e \notin sleeper'.queue /\ fate[e] # "new",
             \A d \in DOMAIN l1 : Turn(d) => Turn(d)' \/ l1' = Encoded(d),
             asked' \in [Entries -> {0, 1}],
             asked' # asked => /\ \A d \in Entries : d # e => asked'[d] = asked[d]
                              /\ Turn(e)' /\ fate[e] # "new" /\ e \notin sleeper'.queue
      PROVE  SleepInv'
  <2>1. /\ DOMAIN l1' = DOMAIN l1 /\ l1' \in [DOMAIN l1 -> Rows]
        /\ \A d \in DOMAIN l1 : /\ l1'[d].nights = l1[d].nights
                                /\ l1'[d].status \in {l1[d].status, "encoded"}
    BY <1>0, <1>7, MarkType
  <2>2. \A d \in DOMAIN l1 : l1' = Encoded(d) => l1'[d].status = "encoded"
    BY <1>0, MarkType
  <2>3. Aged'
    BY <1>0, <1>7, <2>1 DEF Aged, Turns
  <2>4. SleepTypeInv'
    BY <1>0, <1>7, <2>1, <2>3, RowsStay DEF SleepTypeInv
  <2>5. \A d \in sleeper'.queue : asked'[d] = 0 /\ fate'[d] # "new"
    BY <1>0, <1>1, <1>7 DEF AskedInv
  <2>6. ASSUME NEW d \in DOMAIN l1, l1'[d].status = "raw", ~Turn(d)'
        PROVE  asked'[d] = 0
    <3>1. ~Turn(d) /\ l1[d].status = "raw"
      BY <1>7, <2>1, <2>2, <2>6
    <3>2. asked[d] = 0 /\ d \in Entries
      BY <1>0, <1>1, <3>1 DEF AskedInv
    <3>3. QED
      BY <1>7, <2>6, <3>2
  <2>7. \A d \in Entries : fate'[d] = "new" => asked'[d] = 0
    BY <1>0, <1>7 DEF AskedInv
  <2>8. AskedInv'
    BY <1>7, <2>1, <2>5, <2>6, <2>7 DEF AskedInv
  <2>9. QED
    BY <2>4, <2>8 DEF SleepInv
<1>8. /\ asked \in [Entries -> {0, 1}] /\ stored \subseteq Entries
      /\ outages \in 0 .. MaxOutages /\ setbacks \in 0 .. MaxSetbacks
      /\ sleeper \in [at: Places, queue: SUBSET Entries, entry: Entries \cup {NoEntry}]
  BY <1>0 DEF SleepTypeInv
<1>16. ASSUME NEW q \in SUBSET sleeper.queue, sleeper' = Onward(q)
       PROVE  /\ sleeper' \in [at: Places, queue: SUBSET Entries,
                               entry: Entries \cup {NoEntry}]
              /\ sleeper'.queue = q /\ sleeper'.at \in {"compile", "awake"}
              /\ sleeper'.at \notin Turns /\ \A d : ~Turn(d)'
  <2>1. q \in SUBSET Entries
    BY <1>1, <1>16
  <2>2. QED
    BY <1>16, <2>1, OnwardTypes DEF Turn, Turns, Unmarked
<1>17. ASSUME sleeper.at \in Turns
       PROVE  /\ sleeper.entry \in Entries /\ sleeper.entry \notin sleeper.queue
              /\ fate[sleeper.entry] # "new"
  BY <1>0, <1>17 DEF AskedInv
<1>9. ASSUME NEW e \in Entries, CompileFails(e) PROVE SleepInv'
  <2>1. outages' \in 0 .. MaxOutages
    BY <1>8, <1>9, SleepConstants DEF CompileFails
  <2>2. sleeper.queue \ {e} \in SUBSET sleeper.queue
    OBVIOUS
  <2>3. /\ sleeper.at = "compile" /\ sleeper' = Onward(sleeper.queue \ {e})
        /\ UNCHANGED <<l1, fate, stored, asked, setbacks>>
    BY <1>9 DEF CompileFails
  <2>4. \A d : ~Turn(d)
    BY <2>3 DEF Turn, Unmarked
  <2>5. QED
    BY <1>7, <1>8, <1>16, <2>1, <2>2, <2>3, <2>4
<1>10. ASSUME NEW e \in Entries, TakeTurn(e) PROVE SleepInv'
  <2>1. /\ sleeper.at = "compile" /\ e \in sleeper.queue
        /\ UNCHANGED <<l1, fate, stored, outages, setbacks>>
    BY <1>10 DEF TakeTurn
  <2>2. PICK n \in {0, 1} : asked' = [asked EXCEPT ![e] = @ + n]
    BY <1>10 DEF TakeTurn
  <2>3. PICK path \in {"shelve", "reconcile"} :
           sleeper' = [at |-> path, queue |-> sleeper.queue \ {e}, entry |-> e]
    BY <1>10 DEF TakeTurn
  <2>4. asked[e] = 0 /\ fate[e] # "new"
    BY <1>0, <2>1 DEF AskedInv
  <2>5. asked' \in [Entries -> {0, 1}] /\ \A d \in Entries : d # e => asked'[d] = asked[d]
    BY <1>8, <2>2, <2>4
  <2>6. /\ sleeper' \in [at: Places, queue: SUBSET Entries, entry: Entries \cup {NoEntry}]
        /\ sleeper'.queue \subseteq sleeper.queue /\ e \notin sleeper'.queue
        /\ sleeper'.at \in Turns /\ sleeper'.entry = e /\ Turn(e)'
    BY <1>1, <2>3 DEF Places, Turns, Turn, Unmarked
  <2>7. \A d : ~Turn(d)
    BY <2>1 DEF Turn, Unmarked
  <2>8. QED
    BY <1>7, <1>8, <2>1, <2>4, <2>5, <2>6, <2>7
<1>11. CASE MarkShelved
  <2>1. /\ sleeper.at = "shelve" /\ sleeper' = [sleeper EXCEPT !.at = "keep"]
        /\ l1' = Encoded(sleeper.entry)
        /\ UNCHANGED <<fate, stored, asked, outages, setbacks>>
    BY <1>11 DEF MarkShelved
  <2>2. /\ sleeper.entry \in Entries /\ sleeper.entry \notin sleeper.queue
        /\ fate[sleeper.entry] # "new" /\ sleeper.at \in Turns
    BY <1>17, <2>1 DEF Turns
  <2>3. /\ sleeper' \in [at: Places, queue: SUBSET Entries, entry: Entries \cup {NoEntry}]
        /\ sleeper'.queue = sleeper.queue /\ sleeper'.entry = sleeper.entry
        /\ sleeper'.at \in Turns
    BY <1>8, <2>1 DEF Places, Turns
  <2>4. \A d : Turn(d) => d = sleeper.entry
    BY DEF Turn
  <2>5. QED
    BY <1>7, <1>8, <2>1, <2>2, <2>3, <2>4
<1>12. CASE StorePromoted
  <2>1. /\ sleeper.at = "reconcile" /\ sleeper' = [sleeper EXCEPT !.at = "mark"]
        /\ stored' = stored \cup {sleeper.entry}
        /\ UNCHANGED <<l1, fate, asked, outages, setbacks>>
    BY <1>12 DEF StorePromoted
  <2>2. /\ sleeper.entry \in Entries /\ sleeper.entry \notin sleeper.queue
        /\ fate[sleeper.entry] # "new" /\ sleeper.at \in Turns
    BY <1>17, <2>1 DEF Turns
  <2>3. /\ sleeper' \in [at: Places, queue: SUBSET Entries, entry: Entries \cup {NoEntry}]
        /\ sleeper'.queue = sleeper.queue /\ sleeper'.entry = sleeper.entry
        /\ sleeper'.at \in Turns
        /\ \A d : Turn(d) => Turn(d)'
    BY <1>8, <2>1 DEF Places, Turns, Turn, Unmarked
  <2>4. stored' \subseteq Entries
    BY <1>8, <2>1, <2>2
  <2>5. QED
    BY <1>7, <1>8, <2>1, <2>2, <2>3, <2>4
<1>13. CASE StoreShelved \/ MarkPromoted
  <2>1. /\ sleeper.at \in {"keep", "mark"} /\ sleeper' = Onward(sleeper.queue)
        /\ UNCHANGED <<fate, asked, outages, setbacks>>
        /\ stored' \subseteq stored \cup {sleeper.entry}
        /\ l1' = Encoded(sleeper.entry) \/ UNCHANGED l1
        /\ sleeper.at = "mark" => l1' = Encoded(sleeper.entry)
    BY <1>13 DEF StoreShelved, MarkPromoted
  <2>2. sleeper.entry \in Entries /\ sleeper.at \in Turns
    BY <1>17, <2>1 DEF Turns
  <2>3. stored' \subseteq Entries
    BY <1>8, <2>1, <2>2
  <2>4. \A d : Turn(d) => l1' = Encoded(d)
    BY <2>1 DEF Turn, Unmarked
  <2>5. QED
    BY <1>7, <1>8, <1>16, <2>1, <2>2, <2>3, <2>4
\* Something goes wrong: the sleep ends, the next entry has its turn, or it goes on.
<1>18. ASSUME Wiped \/ UNCHANGED <<l1, fate>>, Setback, asked' \in [Entries -> {0, 1}],
              sleeper' \in [at: Places, queue: SUBSET Entries, entry: Entries \cup {NoEntry}],
              sleeper'.at # "prune" \/ Wiped
       PROVE  SleepTypeInv' /\ \A d \in Entries : fate'[d] = "new" => fate[d] = "new"
  <2>1. /\ setbacks' = setbacks + 1 /\ setbacks' \in 0 .. MaxSetbacks
        /\ UNCHANGED <<stored, outages>>
    BY <1>0, <1>8, <1>18 DEF Setback
  <2>2. CASE UNCHANGED <<l1, fate>> /\ sleeper'.at # "prune"
    <3>1. Aged'
      BY <1>0, <1>1, <2>1, <2>2 DEF Aged, Rows
    <3>2. QED
      BY <1>0, <1>8, <1>18, <2>1, <2>2, <3>1, RowsStay DEF SleepTypeInv
  <2>3. CASE Wiped
    <3>1. /\ DOMAIN l1' = {} /\ l1' \in [DOMAIN l1' -> Rows] /\ Cardinality({}) = 0
      BY <2>3, FS_EmptySet DEF Wiped
    <3>2. /\ fate' \in [Entries -> {"new", "held", "pruned", "lost"}]
          /\ \A d \in Entries : fate'[d] # "held" /\ (fate'[d] = "new" => fate[d] = "new")
      BY <1>0, <2>3 DEF Wiped, SleepTypeInv
    <3>3. Aged'
      BY <3>1 DEF Aged
    <3>4. Cardinality(DOMAIN l1') <= MaxEntries
      BY <3>1, SleepConstants
    <3>5. QED
      BY <1>8, <1>18, <2>1, <3>1, <3>2, <3>3, <3>4 DEF SleepTypeInv
  <2>4. QED
    BY <1>18, <2>2, <2>3
<1>19. ASSUME Wiped \/ UNCHANGED <<l1, fate>>, Setback, CutShort,
              NEW q \in SUBSET sleeper.queue, sleeper' = Onward(q),
              sleeper.at \in Turns \/ q = {}
       PROVE  SleepInv'
  <2>1. /\ sleeper' \in [at: Places, queue: SUBSET Entries, entry: Entries \cup {NoEntry}]
        /\ sleeper'.queue = q /\ sleeper'.at \notin Turns /\ sleeper'.at # "prune"
    BY <1>16, <1>19
  <2>2. /\ asked' \in [Entries -> {0, 1}]
        /\ \A d \in Entries : asked'[d] \in {asked[d], 0}
        /\ \A d \in Entries : Turn(d) => asked'[d] = 0
    <3>1. CASE sleeper.at \in Unmarked
      <4>1. asked' = [asked EXCEPT ![sleeper.entry] = 0]
        BY <1>19, <3>1 DEF CutShort
      <4>2. QED
        BY <1>8, <4>1 DEF Turn
    <3>2. CASE sleeper.at \notin Unmarked
      <4>1. asked' = asked
        BY <1>19, <3>2 DEF CutShort
      <4>2. QED
        BY <1>8, <3>2, <4>1 DEF Turn
    <3>3. QED
      BY <3>1, <3>2
  <2>3. SleepTypeInv' /\ \A d \in Entries : fate'[d] = "new" => fate[d] = "new"
    BY <1>18, <1>19, <2>1, <2>2
  <2>4. \A d \in q : asked'[d] = 0 /\ fate'[d] # "new"
    <3>1. CASE q = {}
      BY <3>1
    <3>2. CASE sleeper.at \in Turns
      BY <1>0, <1>1, <1>19, <2>2, <2>3, <3>2 DEF AskedInv
    <3>3. QED
      BY <1>19, <3>1, <3>2
  <2>5. ASSUME NEW d \in DOMAIN l1', l1'[d].status = "raw" PROVE asked'[d] = 0
    <3>1. UNCHANGED l1
      BY <1>19, <2>5 DEF Wiped
    <3>2. d \in Entries /\ (Turn(d) \/ asked[d] = 0)
      BY <1>0, <1>1, <2>5, <3>1 DEF AskedInv
    <3>3. QED
      BY <2>2, <3>2
  <2>6. \A d \in Entries : fate'[d] = "new" => asked'[d] = 0
    BY <1>0, <2>2, <2>3 DEF AskedInv
  <2>7. AskedInv'
    BY <2>1, <2>4, <2>5, <2>6 DEF AskedInv
  <2>8. QED
    BY <2>3, <2>7 DEF SleepInv
<1>20. CASE WriteFails
  <2>1. /\ sleeper.at \in Turns
        /\ Wiped \/ UNCHANGED <<l1, fate>>
        /\ sleeper' = Onward(sleeper.queue) /\ CutShort /\ Setback
    BY <1>20 DEF WriteFails
  <2>2. sleeper.queue \in SUBSET sleeper.queue
    OBVIOUS
  <2>3. QED
    BY <1>19, <2>1, <2>2
<1>21. CASE Dies
  <2>1. /\ Wiped \/ UNCHANGED <<l1, fate>>
        /\ sleeper' = Onward({}) /\ CutShort /\ Setback
    BY <1>21 DEF Dies, Onward
  <2>2. {} \in SUBSET sleeper.queue
    OBVIOUS
  <2>3. QED
    BY <1>19, <2>1, <2>2
<1>22. CASE SaveFails
  <2>1. Wiped /\ UNCHANGED asked /\ Setback
    BY <1>22 DEF SaveFails
  <2>2. CASE sleeper.at = "prune" /\ sleeper' = Awake
    <3>1. CutShort
      BY <2>1, <2>2 DEF CutShort, Unmarked
    <3>2. sleeper' = Onward({}) /\ {} \in SUBSET sleeper.queue
      BY <2>2 DEF Onward
    <3>3. QED
      BY <1>19, <2>1, <3>1, <3>2
  <2>3. CASE UNCHANGED sleeper
    <3>1. SleepTypeInv' /\ \A d \in Entries : fate'[d] = "new" => fate[d] = "new"
      BY <1>8, <1>18, <2>1, <2>3
    <3>2. DOMAIN l1' = {}
      BY <2>1 DEF Wiped
    <3>3. AskedInv'
      BY <1>0, <1>1, <2>1, <2>3, <3>1, <3>2 DEF AskedInv
    <3>4. QED
      BY <3>1, <3>3 DEF SleepInv
  <2>4. QED
    BY <1>22, <2>2, <2>3 DEF SaveFails
<1>14. CASE UNCHANGED sleepVars
  BY <1>0, <1>14 DEF sleepVars, SleepInv, SleepTypeInv, Aged, AskedInv, Turn
<1>15. QED
  BY <1>2, <1>3, <1>4, <1>5, <1>6, <1>9, <1>10, <1>11, <1>12, <1>13, <1>14, <1>20,
     <1>21, <1>22
  DEF SleepNext, SleepStep

\* Working memory holds no more than its capacity, of entries that are neither
\* pruned nor lost and not older than a grade and the nights cut short can make
\* them.
THEOREM SleepTypeCorrect == SleepSpec => []SleepTypeOK
<1>1. SleepInv => SleepTypeOK
  BY SleepConstants DEF SleepInv, SleepTypeInv, SleepTypeOK, Places, Turns
<1>2. QED
  BY <1>1, InitSleep, SleepStays, PTL DEF SleepSpec

\* Nobody is asked twice about one memory, however often it sleeps and whatever
\* fails or dies, unless a turn was cut short between the request and the mark.
THEOREM NobodyIsAskedTwice == SleepSpec => []AskedOnce
<1>1. SleepInv => AskedOnce
  BY DEF SleepInv, SleepTypeInv, AskedOnce
<1>2. QED
  BY <1>1, InitSleep, SleepStays, PTL DEF SleepSpec

-----------------------------------------------------------------------------
(* Sleep: what is worth keeping.  Every night a label stays pending, and every *)
(* night past its TTL an entry is not stored, has cost the model a call it      *)
(* missed; the night under way is counted once its sleep has got to the entry.  *)

Early == IF sleeper.at \in {"prune", "label"} THEN 1 ELSE 0
Awaited(e) == \/ sleeper.at \in {"prune", "label"}
              \/ sleeper.at \in Turns \cup {"compile"} /\ e \in sleeper.queue
              \/ sleeper.at \in {"shelve", "reconcile"} /\ sleeper.entry = e
Slack(e) == IF Awaited(e) THEN 1 ELSE 0

PendingInv == \A e \in DOMAIN l1 : l1[e].pending => l1[e].nights - Early <= outages
QueuedInv == sleeper.at = "label" =>
                \A e \in DOMAIN l1 : l1[e].pending /\ l1[e].nights > 0 => e \in sleeper.queue
RawInv == \A e \in DOMAIN l1 :
             l1[e].status = "raw" /\ e \notin stored =>
                l1[e].nights - Ttl - Slack(e) <= outages
EncodedInv == \A e \in DOMAIN l1 :
                 l1[e].status = "encoded" =>
                    e \in stored \/ (sleeper.at = "keep" /\ sleeper.entry = e)
MarkInv == sleeper.at = "mark" => sleeper.entry \in stored

\* What holds as long as nothing was cut short.
QuietInv ==
    PendingInv /\ QueuedInv /\ RawInv /\ EncodedInv /\ MarkInv /\ WorthSurvives

WorthInv == SleepInv /\ (setbacks = 0 => QuietInv)

LEMMA SleepNumbers ==
    ASSUME SleepInv
    PROVE  /\ Ttl \in Nat /\ outages \in Nat /\ outages <= MaxOutages /\ MaxOutages \in Nat
           /\ \A e \in DOMAIN l1 : /\ l1[e].nights \in Nat /\ l1[e].pending \in BOOLEAN
                                   /\ l1[e].status \in {"raw", "encoded"}
           /\ DOMAIN l1 \subseteq Entries
<1>1. \A e \in DOMAIN l1 : l1[e] \in Rows
  BY DEF SleepInv, SleepTypeInv
<1>2. QED
  BY <1>1, SleepConstants DEF SleepInv, SleepTypeInv, Rows

\* Work on one entry e.  An entry that the sleep is done with is stored, marked or
\* has cost a call.
LEMMA WorkKeepsWorth ==
    ASSUME SleepInv, QuietInv, SleepInv', NEW e, l1' = Encoded(e) \/ UNCHANGED l1,
           UNCHANGED fate, stored \subseteq stored', outages <= outages', setbacks = 0,
           sleeper.at \in Turns \cup {"compile"},
           sleeper'.at \in Turns \cup {"compile", "awake"},
           \A d \in DOMAIN l1 : Awaited(d) /\ ~Awaited(d)' =>
              outages < outages' \/ d \in stored' \/ l1' = Encoded(d),
           \A d \in DOMAIN l1 : l1'[d].status = "encoded" =>
              d \in stored' \/ (sleeper'.at = "keep" /\ sleeper'.entry = d),
           sleeper'.at = "mark" => sleeper'.entry \in stored'
    PROVE  QuietInv'
<1>0. /\ PendingInv /\ RawInv /\ WorthSurvives /\ SleepTypeInv
  BY DEF QuietInv, SleepInv
<1>1. /\ DOMAIN l1' = DOMAIN l1
      /\ \A d \in DOMAIN l1 : /\ l1'[d].nights = l1[d].nights
                              /\ l1'[d].pending = l1[d].pending
                              /\ l1'[d].status \in {l1[d].status, "encoded"}
      /\ \A d \in DOMAIN l1 : l1' = Encoded(d) => l1'[d].status = "encoded"
  <2>1. \A d \in DOMAIN l1 : l1' = Encoded(d) => l1'[d].status = "encoded"
    BY <1>0, MarkType
  <2>2. QED
    BY <1>0, <2>1, MarkType
<1>2. /\ Ttl \in Nat /\ outages \in Nat /\ outages' \in Nat
      /\ \A d \in DOMAIN l1 : /\ l1[d].nights \in Nat
                              /\ l1[d].status \in {"raw", "encoded"}
  <2>1. outages' \in Nat
    BY SleepConstants DEF SleepInv, SleepTypeInv
  <2>2. QED
    BY <2>1, SleepNumbers
<1>3. PendingInv'
  <2>1. Early = 0 /\ Early' = 0
    BY DEF Early, Turns
  <2>2. QED
    BY <1>0, <1>1, <1>2, <2>1 DEF PendingInv
<1>4. QueuedInv'
  BY DEF QueuedInv, Turns
<1>5. RawInv'
  <2> SUFFICES ASSUME NEW d \in DOMAIN l1, l1'[d].status = "raw", d \notin stored'
               PROVE  l1[d].nights - Ttl - Slack(d)' <= outages'
    BY <1>1 DEF RawInv
  <2>1. l1[d].status = "raw" /\ d \notin stored
    BY <1>1, <1>2
  <2>2. l1[d].nights - Ttl - Slack(d) <= outages
    BY <1>0, <2>1 DEF RawInv
  <2>3. Awaited(d) /\ ~Awaited(d)' => outages < outages'
    BY <1>1
  <2>4. \/ Slack(d) = 0 /\ Slack(d)' \in {0, 1}
        \/ Slack(d) = 1 /\ Slack(d)' = 1
        \/ Slack(d) = 1 /\ Slack(d)' = 0 /\ outages < outages'
    BY <2>3 DEF Slack
  <2>5. QED
    BY <1>2, <2>2, <2>4
<1>6. EncodedInv' /\ MarkInv'
  BY <1>1 DEF EncodedInv, MarkInv
<1>7. WorthSurvives'
  BY <1>0 DEF WorthSurvives
<1>8. QED
  BY <1>3, <1>4, <1>5, <1>6, <1>7 DEF QuietInv

LEMMA WorthStep ==
    ASSUME MaxOutages < Ttl, MaxOutages < 4
    PROVE  WorthInv /\ [SleepNext]_sleepVars => WorthInv'
<1>a. SUFFICES ASSUME SleepInv, setbacks = 0 => QuietInv, [SleepNext]_sleepVars,
                      setbacks' = 0
               PROVE  QuietInv'
  BY SleepStays DEF WorthInv
<1>b. ~Setback
  <2>1. setbacks \in Nat
    BY <1>a, SleepConstants DEF SleepInv, SleepTypeInv
  <2>2. QED
    BY <1>a, <2>1 DEF Setback
<1>c. setbacks = 0
  BY <1>a, <1>b
  DEF SleepNext, SleepStep, Observe, FallAsleep, Dream, Prune, Relabel, MarkShelved,
      StoreShelved, StorePromoted, MarkPromoted, CompileFails, TakeTurn, WriteFails,
      SaveFails, Dies, sleepVars
<1>0. /\ SleepInv /\ PendingInv /\ QueuedInv /\ RawInv /\ EncodedInv /\ MarkInv
      /\ WorthSurvives /\ SleepTypeInv /\ AskedInv /\ QuietInv
  BY <1>a, <1>c DEF QuietInv, SleepInv
<1>1. SleepInv' /\ SleepTypeInv'
  BY <1>a, SleepStays DEF SleepInv
<1>2. /\ Ttl \in Nat /\ outages \in Nat /\ outages <= MaxOutages /\ MaxOutages \in Nat
      /\ \A e \in DOMAIN l1 : /\ l1[e].nights \in Nat /\ l1[e].pending \in BOOLEAN
                              /\ l1[e].status \in {"raw", "encoded"}
      /\ DOMAIN l1 \subseteq Entries
  BY <1>0, SleepNumbers
<1>3. ASSUME NEW e \in Entries, Observe(e) PROVE QuietInv'
  <2> DEFINE new == [pending |-> TRUE, nights |-> 0, status |-> "raw"]
  <2>1. /\ UNCHANGED <<stored, asked, sleeper, outages, setbacks>>
        /\ \A d \in DOMAIN l1' : \/ d = e /\ l1'[d] = new
                                 \/ d \in DOMAIN l1 /\ l1'[d] = l1[d]
        /\ \A d \in Entries : fate'[d] = "pruned" <=> fate[d] = "pruned"
    BY <1>0, <1>3, ObserveType
  <2>2. new.pending = TRUE /\ new.nights = 0 /\ new.status = "raw"
    OBVIOUS
  <2> HIDE DEF new
  <2>3. PendingInv' /\ QueuedInv' /\ EncodedInv' /\ MarkInv'
    BY <1>0, <1>2, <2>1, <2>2 DEF PendingInv, QueuedInv, EncodedInv, MarkInv, Early
  <2>4. RawInv'
    BY <1>0, <1>2, <2>1, <2>2 DEF RawInv, Slack, Awaited, Turns
  <2>5. WorthSurvives'
    BY <1>0, <2>1 DEF WorthSurvives
  <2>6. QED
    BY <1>1, <2>3, <2>4, <2>5 DEF QuietInv
<1>4. CASE FallAsleep
  <2>1. /\ sleeper.at = "awake" /\ sleeper' = [sleeper EXCEPT !.at = "prune"]
        /\ l1' = [e \in DOMAIN l1 |-> [l1[e] EXCEPT !.nights = @ + 1]]
        /\ UNCHANGED <<fate, stored, asked, outages, setbacks>>
    BY <1>4 DEF FallAsleep
  <2>2. sleeper'.at = "prune"
    BY <1>0, <2>1 DEF SleepTypeInv
  <2>3. /\ DOMAIN l1' = DOMAIN l1
        /\ \A e \in DOMAIN l1 : /\ l1'[e].nights = l1[e].nights + 1
                                /\ l1'[e].pending = l1[e].pending
                                /\ l1'[e].status = l1[e].status
    <3>1. \A e \in DOMAIN l1 : l1[e] \in Rows
      BY <1>0 DEF SleepTypeInv
    <3>2. QED
      BY <2>1, <3>1 DEF Rows
  <2>4. PendingInv'
    BY <1>0, <1>2, <2>1, <2>2, <2>3 DEF PendingInv, Early
  <2>8. QueuedInv' /\ MarkInv'
    BY <2>2 DEF QueuedInv, MarkInv
  <2>9. EncodedInv'
    BY <1>0, <2>1, <2>3 DEF EncodedInv
  <2>5. RawInv'
    BY <1>0, <1>2, <2>1, <2>2, <2>3 DEF RawInv, Slack, Awaited, Turns
  <2>6. WorthSurvives'
    BY <1>0, <2>1 DEF WorthSurvives
  <2>7. QED
    BY <1>1, <2>4, <2>5, <2>6, <2>8, <2>9 DEF QuietInv
<1>5. CASE Dream
  <2>1. /\ sleeper' = [sleeper EXCEPT !.at = "label", !.queue = Pending]
        /\ sleeper.at = "awake"
        /\ UNCHANGED <<l1, fate, stored, asked, outages, setbacks>>
    BY <1>5 DEF Dream
  <2>2. sleeper'.at = "label" /\ sleeper'.queue = Pending
    BY <1>0, <2>1 DEF SleepTypeInv
  <2>3. PendingInv' /\ QueuedInv' /\ EncodedInv' /\ MarkInv'
    BY <1>0, <1>2, <2>1, <2>2
    DEF PendingInv, QueuedInv, EncodedInv, MarkInv, Early, Pending
  <2>4. RawInv'
    BY <1>0, <1>2, <2>1, <2>2 DEF RawInv, Slack, Awaited, Turns
  <2>5. WorthSurvives'
    BY <1>0, <2>1 DEF WorthSurvives
  <2>6. QED
    BY <1>1, <2>3, <2>4, <2>5 DEF QuietInv
<1>6. CASE Prune
  <2> DEFINE cut == {e \in DOMAIN l1 : Forgettable(e)}
  <2>1. /\ sleeper' = [sleeper EXCEPT !.at = "label", !.queue = Pending \ cut]
        /\ sleeper.at = "prune"
        /\ l1' = Restrict(l1, DOMAIN l1 \ cut)
        /\ fate' = [e \in Entries |-> IF e \in cut THEN "pruned" ELSE fate[e]]
        /\ UNCHANGED <<stored, asked, outages, setbacks>>
    BY <1>6 DEF Prune
  <2>2. cut \subseteq DOMAIN l1 /\ \A e \in cut : Forgettable(e)
    OBVIOUS
  <2> HIDE DEF cut
  <2>3. sleeper'.at = "label" /\ sleeper'.queue = Pending \ cut
    BY <1>0, <2>1 DEF SleepTypeInv
  <2>4. DOMAIN l1' = DOMAIN l1 \ cut /\ \A e \in DOMAIN l1' : l1'[e] = l1[e]
    BY <2>1 DEF Restrict
  <2>5. PendingInv' /\ QueuedInv' /\ EncodedInv' /\ MarkInv'
    BY <1>0, <1>2, <2>1, <2>3, <2>4
    DEF PendingInv, QueuedInv, EncodedInv, MarkInv, Early, Pending
  <2>6. RawInv'
    BY <1>0, <1>2, <2>1, <2>3, <2>4 DEF RawInv, Slack, Awaited, Turns
  <2>7. ASSUME NEW e \in cut, Worth[e] = "high" PROVE e \in stored
    <3>1. /\ e \in DOMAIN l1 /\ e \in Entries
          /\ l1[e].nights > Ttl + Lasting(Grade(e))
          /\ Lasting(Grade(e)) \in 0 .. 4 /\ Lasting("high") = 4
      BY <1>2, <2>2, GradeLasts DEF Forgettable
    <3>2. ~l1[e].pending
      BY <1>0, <1>2, <2>1, <3>1 DEF PendingInv, Early
    <3>3. l1[e].nights > Ttl + 4
      BY <2>7, <3>1, <3>2 DEF Grade
    <3>4. l1[e].status = "raw" => e \in stored
      BY <1>0, <1>2, <2>1, <2>7, <3>1, <3>3 DEF RawInv, Slack, Awaited, Turns
    <3>5. l1[e].status = "encoded" => e \in stored
      BY <1>0, <2>1, <2>7, <3>1 DEF EncodedInv
    <3>6. QED
      BY <1>2, <3>1, <3>4, <3>5
  <2>8. WorthSurvives'
    BY <1>0, <2>1, <2>7 DEF WorthSurvives
  <2>9. QED
    BY <1>1, <2>5, <2>6, <2>8 DEF QuietInv
<1>7. CASE Relabel
  <2>1. PICK answered \in SUBSET sleeper.queue :
          /\ IF answered = sleeper.queue THEN UNCHANGED outages
             ELSE outages < MaxOutages /\ outages' = outages + 1
          /\ l1' = [e \in DOMAIN l1 |-> IF e \in answered
                                       THEN [l1[e] EXCEPT !.pending = FALSE]
                                       ELSE l1[e]]
    BY <1>7 DEF Relabel
  <2>2. sleeper.at = "label" /\ sleeper' = Onward(Survivors)
        /\ UNCHANGED <<fate, stored, asked, setbacks>>
    BY <1>7 DEF Relabel
  <2>3. /\ DOMAIN l1' = DOMAIN l1
        /\ \A e \in DOMAIN l1 : /\ l1'[e].nights = l1[e].nights
                                /\ l1'[e].status = l1[e].status
                                /\ l1'[e].pending => l1[e].pending /\ e \notin answered
    <3>1. \A e \in DOMAIN l1 : l1[e] \in Rows
      BY <1>0 DEF SleepTypeInv
    <3>2. QED
      BY <2>1, <3>1 DEF Rows
  <2>4. Survivors \in SUBSET Entries
    BY <1>2 DEF Survivors, Raw
  <2>5. /\ sleeper'.queue = Survivors
        /\ sleeper'.at = IF Survivors = {} THEN "awake" ELSE "compile"
    BY <2>2, <2>4, OnwardTypes
  <2>6. outages <= outages' /\ (answered # sleeper.queue => outages' = outages + 1)
        /\ outages' \in Nat
    BY <1>2, <2>1
  <2>7. PendingInv'
    <3> SUFFICES ASSUME NEW e \in DOMAIN l1, l1'[e].pending
                 PROVE  l1[e].nights <= outages'
      BY <1>2, <2>3, <2>5 DEF PendingInv, Early
    <3>1. l1[e].pending /\ e \notin answered /\ l1[e].nights - 1 <= outages
      BY <1>0, <2>2, <2>3 DEF PendingInv, Early
    <3>2. CASE l1[e].nights > 0
      <4>1. e \in sleeper.queue
        BY <1>0, <2>2, <3>1, <3>2 DEF QueuedInv
      <4>2. outages' = outages + 1
        BY <2>6, <3>1, <4>1
      <4>3. QED
        BY <1>2, <3>1, <4>2
    <3>3. QED
      BY <1>2, <2>6, <3>2
  <2>8. RawInv'
    <3> SUFFICES ASSUME NEW e \in DOMAIN l1, l1[e].status = "raw", e \notin stored
                 PROVE  l1[e].nights - Ttl - Slack(e)' <= outages'
      BY <2>2, <2>3 DEF RawInv
    <3>1. l1[e].nights - Ttl - 1 <= outages
      BY <1>0, <2>2 DEF RawInv, Slack, Awaited, Turns
    <3>2. CASE l1[e].nights > Ttl
      <4>1. e \in Survivors
        BY <3>2 DEF Survivors, Raw
      <4>2. Slack(e)' = 1
        BY <2>5, <4>1 DEF Slack, Awaited
      <4>3. QED
        BY <1>2, <2>6, <3>1, <4>2
    <3>3. CASE ~(l1[e].nights > Ttl)
      <4>1. Slack(e)' \in {0, 1}
        BY DEF Slack
      <4>2. QED
        BY <1>2, <2>6, <3>3, <4>1
    <3>4. QED
      BY <3>2, <3>3
  <2>9. QueuedInv' /\ EncodedInv' /\ MarkInv' /\ WorthSurvives'
    BY <1>0, <2>2, <2>3, <2>5 DEF QueuedInv, EncodedInv, MarkInv, WorthSurvives
  <2>10. QED
    BY <1>1, <2>7, <2>8, <2>9 DEF QuietInv
<1>8. ASSUME NEW q \in SUBSET Entries, sleeper' = Onward(q)
      PROVE  /\ sleeper'.queue = q
             /\ sleeper'.at = IF q = {} THEN "awake" ELSE "compile"
             /\ sleeper'.at \in {"compile", "awake"}
             /\ \A d : Awaited(d)' <=> d \in q
  BY <1>8, OnwardTypes DEF Awaited, Turns
<1>9. sleeper.queue \in SUBSET Entries
  BY <1>0 DEF SleepTypeInv
<1>10. ASSUME NEW e \in Entries, CompileFails(e) PROVE QuietInv'
  <2>1. /\ sleeper.at = "compile" /\ sleeper' = Onward(sleeper.queue \ {e})
        /\ outages' = outages + 1 /\ UNCHANGED <<l1, fate, stored, asked, setbacks>>
    BY <1>10 DEF CompileFails
  <2>2. sleeper.queue \ {e} \in SUBSET Entries
    BY <1>9
  <2>3. sleeper'.at \in {"compile", "awake"}
    BY <1>8, <2>1, <2>2
  <2>4. \A d \in DOMAIN l1 : l1[d].status = "encoded" => d \in stored
    BY <1>0, <2>1 DEF EncodedInv
  <2>5. outages < outages' /\ outages <= outages'
    BY <1>2, <2>1
  <2>6. QED
    BY <1>0, <1>1, <1>c, <2>1, <2>3, <2>4, <2>5, WorkKeepsWorth
<1>11. ASSUME NEW e \in Entries, TakeTurn(e) PROVE QuietInv'
  <2>1. sleeper.at = "compile" /\ UNCHANGED <<l1, fate, stored, outages, setbacks>>
    BY <1>11 DEF TakeTurn
  <2>2. PICK path \in {"shelve", "reconcile"} :
           sleeper' = [at |-> path, queue |-> sleeper.queue \ {e}, entry |-> e]
    BY <1>11 DEF TakeTurn
  <2>3. sleeper'.at \in Turns /\ sleeper'.at # "mark"
        /\ \A d : Awaited(d) => Awaited(d)'
    BY <2>1, <2>2 DEF Awaited, Turns
  <2>4. \A d \in DOMAIN l1 : l1[d].status = "encoded" => d \in stored
    BY <1>0, <2>1 DEF EncodedInv
  <2>5. outages <= outages'
    BY <1>2, <2>1
  <2>6. QED
    BY <1>0, <1>1, <1>c, <2>1, <2>3, <2>4, <2>5, WorkKeepsWorth
<1>12. CASE MarkShelved
  <2>1. /\ sleeper.at = "shelve" /\ sleeper' = [sleeper EXCEPT !.at = "keep"]
        /\ l1' = Encoded(sleeper.entry)
        /\ UNCHANGED <<fate, stored, asked, outages, setbacks>>
    BY <1>12 DEF MarkShelved
  <2>2. /\ sleeper'.at = "keep" /\ sleeper'.queue = sleeper.queue
        /\ sleeper'.entry = sleeper.entry
    BY <1>0, <2>1 DEF SleepTypeInv
  <2>3. \A d : Awaited(d) /\ ~Awaited(d)' => d = sleeper.entry
    BY <2>1, <2>2 DEF Awaited, Turns
  <2>4. \A d \in DOMAIN l1 : d # sleeper.entry => l1'[d] = l1[d]
    BY <1>0, <2>1, MarkType
  <2>5. \A d \in DOMAIN l1 : l1'[d].status = "encoded" => d \in stored \/ d = sleeper.entry
    BY <1>0, <2>1, <2>4 DEF EncodedInv
  <2>6. outages <= outages' /\ sleeper.at \in Turns /\ sleeper'.at \in Turns
    BY <1>2, <2>1, <2>2 DEF Turns
  <2>7. QED
    BY <1>0, <1>1, <1>c, <2>1, <2>2, <2>3, <2>5, <2>6, WorkKeepsWorth
<1>13. CASE StoreShelved
  <2>1. /\ sleeper.at = "keep" /\ sleeper' = Onward(sleeper.queue)
        /\ stored' = stored \cup {sleeper.entry}
        /\ UNCHANGED <<l1, fate, asked, outages, setbacks>>
    BY <1>13 DEF StoreShelved
  <2>2. sleeper'.at \in {"compile", "awake"} /\ \A d : Awaited(d) => Awaited(d)'
    BY <1>8, <1>9, <2>1 DEF Awaited
  <2>3. \A d \in DOMAIN l1 : l1[d].status = "encoded" => d \in stored'
    BY <1>0, <2>1 DEF EncodedInv
  <2>4. outages <= outages' /\ sleeper.at \in Turns
    BY <1>2, <2>1 DEF Turns
  <2>5. QED
    BY <1>0, <1>1, <1>c, <2>1, <2>2, <2>3, <2>4, WorkKeepsWorth
<1>14. CASE StorePromoted
  <2>1. /\ sleeper.at = "reconcile" /\ sleeper' = [sleeper EXCEPT !.at = "mark"]
        /\ stored' = stored \cup {sleeper.entry}
        /\ UNCHANGED <<l1, fate, asked, outages, setbacks>>
    BY <1>14 DEF StorePromoted
  <2>2. /\ sleeper'.at = "mark" /\ sleeper'.queue = sleeper.queue
        /\ sleeper'.entry = sleeper.entry
    BY <1>0, <2>1 DEF SleepTypeInv
  <2>3. \A d : Awaited(d) /\ ~Awaited(d)' => d = sleeper.entry
    BY <2>1, <2>2 DEF Awaited, Turns
  <2>4. \A d \in DOMAIN l1 : l1[d].status = "encoded" => d \in stored'
    BY <1>0, <2>1 DEF EncodedInv
  <2>5. outages <= outages' /\ sleeper.at \in Turns /\ sleeper'.at \in Turns
    BY <1>2, <2>1, <2>2 DEF Turns
  <2>6. QED
    BY <1>0, <1>1, <1>c, <2>1, <2>2, <2>3, <2>4, <2>5, WorkKeepsWorth
<1>17. CASE MarkPromoted
  <2>1. /\ sleeper.at = "mark" /\ sleeper' = Onward(sleeper.queue)
        /\ l1' = Encoded(sleeper.entry)
        /\ UNCHANGED <<fate, stored, asked, outages, setbacks>>
        /\ sleeper.entry \in stored
    BY <1>0, <1>17 DEF MarkPromoted, MarkInv
  <2>2. sleeper'.at \in {"compile", "awake"} /\ \A d : Awaited(d) => Awaited(d)'
    BY <1>8, <1>9, <2>1 DEF Awaited
  <2>3. \A d \in DOMAIN l1 : d # sleeper.entry => l1'[d] = l1[d]
    BY <1>0, <2>1, MarkType
  <2>4. \A d \in DOMAIN l1 : l1'[d].status = "encoded" => d \in stored
    BY <1>0, <2>1, <2>3 DEF EncodedInv
  <2>5. outages <= outages' /\ sleeper.at \in Turns
    BY <1>2, <2>1 DEF Turns
  <2>6. QED
    BY <1>0, <1>1, <1>c, <2>1, <2>2, <2>4, <2>5, WorkKeepsWorth
<1>15. CASE UNCHANGED sleepVars
  BY <1>0, <1>1, <1>15
  DEF sleepVars, QuietInv, PendingInv, QueuedInv, RawInv, EncodedInv, MarkInv, WorthSurvives,
      Early, Slack, Awaited
<1>16. QED
  BY <1>a, <1>b, <1>3, <1>4, <1>5, <1>6, <1>7, <1>10, <1>11, <1>12, <1>13, <1>14, <1>15,
     <1>17
  DEF SleepNext, SleepStep, WriteFails, SaveFails, Dies

\* As long as the model misses fewer calls than an entry has nights under its TTL,
\* and fewer than the four a high grade lasts past it, no entry it would rate high
\* is cut before it is in semantic memory, unless something was cut short.
THEOREM WorthIsNotPruned ==
    ASSUME MaxOutages < Ttl, MaxOutages < 4
    PROVE  SleepSpec => []WorthSurvives
<1>1. WorthInv => WorthSurvives
  BY DEF WorthInv, QuietInv, WorthSurvives
<1>2. WorthInv /\ [SleepNext]_sleepVars => WorthInv'
  BY WorthStep
<1>3. SleepInit => WorthInv
  <2> SUFFICES ASSUME SleepInit PROVE WorthInv
    OBVIOUS
  <2>1. SleepInv
    BY InitSleep
  <2>2. DOMAIN l1 = {} /\ sleeper.at = "awake" /\ \A e \in Entries : fate[e] # "pruned"
    BY DEF SleepInit, Awake
  <2>3. QED
    BY <2>1, <2>2
    DEF WorthInv, QuietInv, PendingInv, QueuedInv, RawInv, EncodedInv, MarkInv, WorthSurvives
<1>4. QED
  BY <1>1, <1>2, <1>3, PTL DEF SleepSpec

-----------------------------------------------------------------------------
(* The services side by side.                                               *)

\* A step of one service while the others rest is a step of each.
LEMMA ServicesStep ==
    [ServicesNext]_servicesVars =>
        /\ [ControlNext]_controlAllVars
        /\ [WalNext]_walVars
        /\ [CanaryNext]_canaryVars
        /\ [SleepNext]_sleepVars
        /\ [UpgradeNext]_upgradeVars
  BY Zenon DEF ServicesNext, servicesVars, Rest

\* Whatever is proved of a service alone holds of it among the others.
THEOREM ServicesRunAsSpecified ==
    ServicesSpec => ControlSpec /\ WalSpec /\ CanarySpec /\ SleepSpec /\ UpgradeSpec
<1>1. ServicesInit => ControlInit /\ WalInit /\ CanaryInit /\ SleepInit /\ UpgradeInit
  BY DEF ServicesInit
<1>2. QED
  BY <1>1, ServicesStep, PTL
  DEF ServicesSpec, ControlSpec, WalSpec, CanarySpec, SleepSpec, UpgradeSpec

\* Every variable of the five services keeps its type.
THEOREM ServicesTypeCorrect == ServicesSpec => []ServicesTypeOK
<1>1. /\ ControlTypeOK /\ WalTypeOK /\ CanaryTypeOK /\ SleepTypeOK /\ UpgradeTypeOK
      => ServicesTypeOK
  BY DEF ServicesTypeOK
<1>2. QED
  BY <1>1, ServicesRunAsSpecified, ControlTypeCorrect, WalTypeCorrect, CanaryTypeCorrect,
     SleepTypeCorrect, BacklogIsThePending, PTL
=============================================================================
