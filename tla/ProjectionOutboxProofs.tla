----------------------- MODULE ProjectionOutboxProofs -----------------------
(***************************************************************************)
(* What the leases of ProjectionOutbox guarantee for any number of jobs,   *)
(* workers and tenants, and any length of lease: a claim never ends a live *)
(* lease, and a tenant nobody serves is left alone, whatever happens; and  *)
(* as long as leases outlast the work, a job has one holder and the queue  *)
(* is the one of LeasedQueue.                                              *)
(***************************************************************************)
EXTENDS ProjectionOutbox, WellFoundedInduction, TLAPS

Shape ==
    /\ now \in Nat
    /\ rows \in [Jobs -> Row]
    /\ DOMAIN pc = Workers
    /\ t \in [Workers -> Nat]
    /\ DOMAIN seen = Workers
    /\ DOMAIN hand = Workers
    /\ \A w \in Workers : \A j \in DOMAIN seen[w] : j \in Jobs /\ seen[w][j] \in Row
    /\ \A w \in Workers : \A j \in DOMAIN hand[w] : j \in Jobs /\ hand[w][j] \in Nat

\* What a worker remembers of the rows it read, and whose they are.
ReadingOf(w) ==
    /\ t[w] <= now
    /\ pc[w] \in {"count", "yield"} =>
          \A j \in DOMAIN seen[w] : seen[w][j].lockedAt <= t[w] - Lease
    /\ DOMAIN seen[w] \subseteq Mine(w)
    /\ DOMAIN hand[w] \subseteq Mine(w)
    /\ pc[w] = "failing" => DOMAIN seen[w] \subseteq DOMAIN hand[w]

Reading == \A w \in Workers : ReadingOf(w)

-----------------------------------------------------------------------------
(* The backoff is a recursive function: that there is one as defined, and   *)
(* that its values are numbers, is by induction over the attempts.          *)

\* A set of naturals has a least member.
LEMMA Leasts ==
    ASSUME NEW T \in SUBSET Nat, T # {}
    PROVE  \E n \in T : \A m \in T : n <= m
  <1> DEFINE Less == {p \in Nat \X Nat : p[1] < p[2]}
  <1>1. IsWellFoundedOn(Less, Nat)
    BY NatLessThanWellFounded DEF OpToRel
  <1> HIDE DEF Less
  <1>2. PICK n \in T : \A m \in T : ~(<<m, n>> \in Less)
    BY <1>1, WFMin
  <1>3. \A m \in T : ~(m < n)
    BY <1>2 DEF Less
  <1>4. QED
    BY <1>3

\* Induction, for sets: what the library states for operators.
LEMMA Induction ==
    ASSUME NEW T \in SUBSET Nat, 0 \in T, \A n \in T : n + 1 \in T
    PROVE  T = Nat
  <1> SUFFICES ASSUME Nat \ T # {} PROVE FALSE
    OBVIOUS
  <1> DEFINE R == Nat \ T
  <1>1. PICK n \in R : \A m \in R : n <= m
    <2>1. R \in SUBSET Nat /\ R # {}
      OBVIOUS
    <2> HIDE DEF R
    <2>2. QED
      BY <2>1, Leasts
  <1>2. n \in Nat /\ n # 0 /\ n \notin T
    BY <1>1
  <1>3. n - 1 \in T
    BY <1>1, <1>2
  <1>4. n - 1 + 1 \in T
    BY <1>3
  <1>5. QED
    BY <1>2, <1>4

\* f doubles as far as n.
Doubles(f, n) ==
    /\ f \in [0..n -> Nat]
    /\ f[0] = 2
    /\ \A i \in 1..n : f[i] = 2 * f[i - 1]

LEMMA DoublesExist == \A n \in Nat : \E f : Doubles(f, n)
  <1> DEFINE T == {n \in Nat : \E f : Doubles(f, n)}
  <1>1. 0 \in T
    <2>1. Doubles([i \in 0..0 |-> 2], 0)
      BY DEF Doubles
    <2>2. QED
      BY <2>1
  <1>2. ASSUME NEW n \in T PROVE n + 1 \in T
    <2>1. PICK f : Doubles(f, n)
      BY <1>2
    <2> DEFINE g == [i \in 0..(n + 1) |-> IF i = n + 1 THEN 2 * f[n] ELSE f[i]]
    <2>2. Doubles(g, n + 1)
      BY <2>1 DEF Doubles
    <2>3. QED
      BY <2>2
  <1>3. T \in SUBSET Nat
    OBVIOUS
  <1> HIDE DEF T
  <1>4. T = Nat
    BY <1>1, <1>2, <1>3, Induction
  <1>5. QED
    BY <1>4 DEF T

LEMMA DoublesAgree ==
    ASSUME NEW n \in Nat, NEW m \in Nat, NEW f, NEW g, Doubles(f, n), Doubles(g, m), n <= m
    PROVE  \A i \in 0..n : f[i] = g[i]
  <1> DEFINE T == {i \in Nat : i <= n => f[i] = g[i]}
  <1>1. 0 \in T
    BY DEF Doubles
  <1>2. ASSUME NEW i \in T PROVE i + 1 \in T
    <2>1. i + 1 <= n => f[i + 1] = 2 * f[i] /\ g[i + 1] = 2 * g[i]
      BY <1>2 DEF Doubles
    <2>2. QED
      BY <1>2, <2>1
  <1>3. T \in SUBSET Nat
    OBVIOUS
  <1> HIDE DEF T
  <1>4. T = Nat
    BY <1>1, <1>2, <1>3, Induction
  <1>5. QED
    BY <1>4 DEF T

\* Doubled is what its definition says.
LEMMA DoubledDef == Doubled = [n \in Nat |-> IF n = 0 THEN 2 ELSE 2 * Doubled[n - 1]]
  <1> DEFINE F(n) == CHOOSE f : Doubles(f, n)
             d == [n \in Nat |-> F(n)[n]]
  <1>1. \A n \in Nat : Doubles(F(n), n)
    BY DoublesExist
  <1> HIDE DEF F
  <1>2. ASSUME NEW n \in Nat, n # 0
        PROVE  F(n)[n] = 2 * F(n - 1)[n - 1]
    <2>1. Doubles(F(n), n) /\ Doubles(F(n - 1), n - 1)
      BY <1>1, <1>2
    <2>2. F(n - 1)[n - 1] = F(n)[n - 1]
      BY <1>2, <2>1, DoublesAgree
    <2>3. QED
      BY <1>2, <2>1, <2>2 DEF Doubles
  <1>3. F(0)[0] = 2
    BY <1>1 DEF Doubles
  <1>4. d = [n \in Nat |-> IF n = 0 THEN 2 ELSE 2 * d[n - 1]]
    BY <1>2, <1>3
  <1> HIDE DEF d
  <1>5. QED
    BY <1>4 DEF Doubled

LEMMA DoubledType == Doubled \in [Nat -> Nat]
  <1> DEFINE T == {n \in Nat : Doubled[n] \in Nat}
  <1>1. 0 \in T
    BY DoubledDef
  <1>2. ASSUME NEW n \in T PROVE n + 1 \in T
    <2>1. Doubled[n + 1] = 2 * Doubled[n]
      BY DoubledDef
    <2>2. QED
      BY <2>1
  <1>3. T \in SUBSET Nat
    OBVIOUS
  <1> HIDE DEF T
  <1>4. T = Nat
    BY <1>1, <1>2, <1>3, Induction
  <1>5. QED
    BY <1>4, DoubledDef DEF T

-----------------------------------------------------------------------------
(* Rows *)

\* The rows the statements of the outbox leave are rows.
LEMMA FreedRow ==
    ASSUME NEW r \in Row, NEW s \in Status, NEW a \in Nat
    PROVE  Freed(r, s, a) \in Row
  BY DEF Row, Freed

LEMMA LeasedRow ==
    ASSUME NEW r \in Row, NEW w \in Workers, NEW c \in Nat
    PROVE  /\ Leased(r, w, c) \in Row
           /\ Leased(r, w, c).status = "in_progress"
           /\ Leased(r, w, c).lockedBy = w
           /\ Leased(r, w, c).lockedAt = c
  <1>1. "in_progress" \in Status
    BY DEF Status
  <1> DEFINE n == r.attempts + 1
  <1>2. n \in Nat /\ r.available \in Nat
    BY DEF Row
  <1>3. Leased(r, w, c) = [status |-> "in_progress", attempts |-> n,
                           available |-> r.available, lockedBy |-> w,
                           lockedAt |-> c]
    BY DEF Leased
  <1> HIDE DEF n
  <1> QED
    BY <1>1, <1>2, <1>3 DEF Row

LEMMA MarkedRow ==
    ASSUME NEW r \in Row, NEW s \in Status, NEW a \in Nat
    PROVE  /\ [r EXCEPT !.status = s] \in Row
           /\ [r EXCEPT !.status = s, !.available = a] \in Row
  BY DEF Row

\* The times fail() and claim() write into available_at.
LEMMA Moments ==
    ASSUME NEW c \in Nat, NEW n \in Nat
    PROVE  /\ c + YieldWait(n) \in Nat
           /\ c + Backoff(n) \in Nat
  <1>1. YieldWait(n) \in Nat
    BY OutboxAssumption DEF YieldWait, Earlier, Later
  <1>2. Later(0, n - 1) \in Nat
    BY DEF Later
  <1>3. Backoff(n) \in Nat
    BY <1>2, DoubledType, OutboxAssumption DEF Backoff, Earlier
  <1> QED
    BY <1>1, <1>3

-----------------------------------------------------------------------------
(* Shape *)

LEMMA ShapeInit == Init => Shape
BY DEF Init, Shape, Row, Status, Empty

\* A job leaves a hand.
LEMMA LetGoShape ==
    ASSUME Shape, NEW w \in Workers, NEW j \in Jobs, LetGo(w, j)
    PROVE  /\ DOMAIN pc' = Workers
           /\ DOMAIN seen' = Workers
           /\ DOMAIN hand' = Workers
           /\ \A v \in Workers \ {w} :
                 pc'[v] = pc[v] /\ seen'[v] = seen[v] /\ hand'[v] = hand[v]
           /\ pc'[w] \in {"idle", "work"}
           /\ seen'[w] = Empty
           /\ DOMAIN hand'[w] = DOMAIN hand[w] \ {j}
           /\ \A i \in DOMAIN hand'[w] : hand'[w][i] = hand[w][i]
  BY DEF LetGo, Goto, Shape, Restrict

LEMMA LetGoMemory ==
    ASSUME Shape, NEW w \in Workers, NEW j \in Jobs, LetGo(w, j)
    PROVE  /\ \A v \in Workers : \A i \in DOMAIN seen'[v] :
                 i \in Jobs /\ seen'[v][i] \in Row
           /\ \A v \in Workers : \A i \in DOMAIN hand'[v] :
                 i \in Jobs /\ hand'[v][i] \in Nat
  <1>1. \A v \in Workers : \A i \in DOMAIN seen'[v] :
            i \in Jobs /\ seen'[v][i] \in Row
    <2>1. DOMAIN seen'[w] = {}
      BY LetGoShape DEF Empty
    <2> QED
      BY <2>1, LetGoShape DEF Shape
  <1>2. \A v \in Workers : \A i \in DOMAIN hand'[v] :
            i \in Jobs /\ hand'[v][i] \in Nat
    BY LetGoShape DEF Shape
  <1> QED
    BY <1>1, <1>2

LEMMA ClaimingShape ==
    ASSUME Shape, NEW w \in Workers, Claiming(w)
    PROVE  Shape'
  <1>1. CASE ReadExpired(w)
    BY <1>1 DEF ReadExpired, Shape, Goto, Restrict, Mine
  <1>2. CASE CountWaiting(w)
    BY <1>2 DEF CountWaiting, Shape, Goto
  <1>3. CASE Yield(w)
    <2>1. \A j \in Jobs : rows'[j] \in Row
      <3> SUFFICES ASSUME NEW j \in Jobs PROVE rows'[j] \in Row
        OBVIOUS
      <3>1. CASE j \in Yielded(w)
        <4>1. t[w] + YieldWait(seen[w][j].attempts) \in Nat
          BY <3>1, Moments DEF Shape, Yielded, Row
        <4>2. rows'[j] = Freed(rows[j], "pending",
                               t[w] + YieldWait(seen[w][j].attempts))
          BY <1>3, <3>1 DEF Yield
        <4> QED
          BY <4>1, <4>2, FreedRow DEF Shape, Status
      <3>2. CASE j \notin Yielded(w)
        BY <1>3, <3>2 DEF Yield, Shape
      <3> QED
        BY <3>1, <3>2
    <2>2. rows' \in [Jobs -> Row]
      BY <1>3, <2>1 DEF Yield
    <2> QED
      BY <1>3, <2>2 DEF Yield, Shape, Goto
  <1>4. CASE SelectClaimable(w)
    BY <1>4 DEF SelectClaimable, Shape, Goto, Restrict, Mine, Oldest
  <1>5. CASE Take(w)
    <2>1. \A j \in Jobs : rows'[j] \in Row
      <3> SUFFICES ASSUME NEW j \in Jobs PROVE rows'[j] \in Row
        OBVIOUS
      <3>1. CASE j \in Takable(w)
        <4>1. rows'[j] = Leased(rows[j], w, t[w])
          BY <1>5, <3>1 DEF Take
        <4> QED
          BY <4>1, LeasedRow DEF Shape
      <3>2. CASE j \notin Takable(w)
        BY <1>5, <3>2 DEF Take, Shape
      <3> QED
        BY <3>1, <3>2
    <2>2. rows' \in [Jobs -> Row]
      BY <1>5, <2>1 DEF Take
    <2>3. Takable(w) \subseteq Jobs
      BY DEF Takable, Mine
    <2> QED
      BY <1>5, <2>2, <2>3 DEF Take, Shape, Goto, Empty
  <1> QED
    BY <1>1, <1>2, <1>3, <1>4, <1>5 DEF Claiming

LEMMA SettlingShape ==
    ASSUME Shape, NEW w \in Workers, Settling(w)
    PROVE  Shape'
  <1> PICK j \in Jobs : \/ Complete(w, j)
                        \/ Skip(w, j)
                        \/ ReadAttempts(w, j)
                        \/ \E limit \in FailLimits : WriteFailure(w, j, limit)
    BY DEF Settling
  <1>0. rows[j] \in Row /\ rows[j].available \in Nat
    BY DEF Shape, Row
  <1>1. CASE Complete(w, j)
    <2>1. Freed(rows[j], "completed", rows[j].available) \in Row
      BY <1>0, FreedRow DEF Status
    <2>2. rows' \in [Jobs -> Row]
      BY <1>1, <2>1 DEF Complete, Shape
    <2> QED
      <3>1. LetGo(w, j) /\ UNCHANGED <<now, t>>
        BY <1>1 DEF Complete
      <3> QED
        BY <2>2, <3>1, LetGoShape, LetGoMemory DEF Shape
  <1>2. CASE Skip(w, j)
    <2> DEFINE s == IF rows[j].status \in {"pending", "in_progress"}
                    THEN "skipped" ELSE rows[j].status
    <2>1. s \in Status
      BY <1>0 DEF Row, Status
    <2>2. rows' = [rows EXCEPT ![j] = [rows[j] EXCEPT !.status = s]]
      BY <1>2 DEF Skip
    <2>3. [rows[j] EXCEPT !.status = s] \in Row
      BY <1>0, <2>1, MarkedRow
    <2>4. rows' \in [Jobs -> Row]
      BY <2>2, <2>3 DEF Shape
    <2> QED
      <3>1. LetGo(w, j) /\ UNCHANGED <<now, t>>
        BY <1>2 DEF Skip
      <3> QED
        BY <2>4, <3>1, LetGoShape, LetGoMemory DEF Shape
  <1>3. CASE ReadAttempts(w, j)
    BY <1>3 DEF ReadAttempts, Shape, Goto, Restrict
  <1>4. CASE \E limit \in FailLimits : WriteFailure(w, j, limit)
    <2> PICK limit \in FailLimits : WriteFailure(w, j, limit)
      BY <1>4
    <2> DEFINE spent == seen[w][j].attempts >= limit
               s == IF spent THEN "dead_letter" ELSE "pending"
               a == t[w] + (IF spent THEN 0 ELSE Backoff(seen[w][j].attempts))
    <2>1. s \in Status
      BY DEF Status
    <2>2. seen[w][j].attempts \in Nat /\ t[w] \in Nat
      BY DEF WriteFailure, Shape, Row
    <2>3. a \in Nat
      <3>1. a = t[w] + 0 \/ a = t[w] + Backoff(seen[w][j].attempts)
        OBVIOUS
      <3> HIDE DEF a
      <3>2. t[w] + Backoff(seen[w][j].attempts) \in Nat
        BY <2>2, Moments
      <3>3. t[w] + 0 \in Nat
        BY <2>2
      <3> QED
        BY <3>1, <3>2, <3>3
    <2>4. Freed(rows[j], s, a) \in Row
      BY <1>0, <2>1, <2>3, FreedRow
    <2>5. rows' = [rows EXCEPT ![j] = Freed(rows[j], s, a)]
      BY DEF WriteFailure
    <2>6. rows' \in [Jobs -> Row]
      BY <2>4, <2>5 DEF Shape
    <2> QED
      <3>1. LetGo(w, j) /\ UNCHANGED <<now, t>>
        BY DEF WriteFailure
      <3> QED
        BY <2>6, <3>1, LetGoShape, LetGoMemory DEF Shape
  <1> QED
    BY <1>1, <1>2, <1>3, <1>4

LEMMA ShapeStep == Shape /\ [Next]_vars => Shape'
  <1> SUFFICES ASSUME Shape, [Next]_vars PROVE Shape'
    OBVIOUS
  <1>1. CASE \E j \in Jobs : Enqueue(j)
    <2> PICK j \in Jobs : Enqueue(j)
      BY <1>1
    <2>1. now \in Nat /\ rows[j] \in Row /\ "pending" \in Status
      BY DEF Shape, Status
    <2>2. [rows[j] EXCEPT !.status = "pending", !.available = now] \in Row
      BY <2>1, MarkedRow
    <2>3. rows' = [rows EXCEPT ![j] = [rows[j] EXCEPT !.status = "pending",
                                                      !.available = now]]
      BY DEF Enqueue, Shape, Row
    <2>4. rows' \in [Jobs -> Row]
      BY <2>2, <2>3 DEF Shape
    <2> QED
      BY <2>4 DEF Enqueue, Shape
  <1>2. CASE \E w \in Workers : Claiming(w)
    BY <1>2, ClaimingShape
  <1>3. CASE \E w \in Workers : Settling(w)
    BY <1>3, SettlingShape
  <1>4. CASE \E w \in Workers : Crash(w)
    BY <1>4 DEF Crash, Shape, Goto, Empty
  <1>5. CASE Tick
    BY <1>5 DEF Tick, Shape
  <1>6. CASE UNCHANGED vars
    BY <1>6 DEF vars, Shape
  <1> QED
    BY <1>1, <1>2, <1>3, <1>4, <1>5, <1>6 DEF Next

-----------------------------------------------------------------------------
(* Reading *)

LEMMA ReadingInit == Init => Reading
  BY DEF Init, Reading, ReadingOf, Empty

\* A step that leaves a worker's memory alone leaves what it knows true.
LEMMA ReadingKept ==
    ASSUME NEW v \in Workers, ReadingOf(v), now \in Nat, now' \in Nat, now <= now',
           t \in [Workers -> Nat],
           t'[v] = t[v], pc'[v] = pc[v], seen'[v] = seen[v], hand'[v] = hand[v]
    PROVE  ReadingOf(v)'
  BY DEF ReadingOf, Mine

LEMMA ClaimingReading ==
    ASSUME Shape, Reading, NEW w \in Workers, Claiming(w)
    PROVE  Reading'
  <1>1. \A v \in Workers \ {w} : ReadingOf(v)'
    <2>1. \A v \in Workers \ {w} : /\ t'[v] = t[v] /\ pc'[v] = pc[v]
                                   /\ seen'[v] = seen[v] /\ hand'[v] = hand[v]
      BY DEF Claiming, ReadExpired, CountWaiting, Yield, SelectClaimable, Take,
             Goto, Shape
    <2>2. now' = now
      BY DEF Claiming, ReadExpired, CountWaiting, Yield, SelectClaimable, Take
    <2> QED
      BY <2>1, <2>2, ReadingKept DEF Reading, Shape
  <1>2. ReadingOf(w)'
    <2>1. CASE ReadExpired(w)
      <3> DEFINE expired == {j \in Mine(w) : ExpiredAt(j, now)}
      <3>1. /\ t'[w] = now /\ now' = now
            /\ seen'[w] = [j \in expired |-> rows[j]]
            /\ hand'[w] = hand[w]
            /\ pc'[w] \in {"select", "count"}
        BY <2>1 DEF ReadExpired, Shape, Goto, Restrict
      <3>2. \A j \in DOMAIN seen'[w] : seen'[w][j].lockedAt <= now - Lease
        BY <3>1 DEF ExpiredAt
      <3>3. DOMAIN hand[w] \subseteq Mine(w)
        BY DEF Reading, ReadingOf
      <3> QED
        BY <3>1, <3>2, <3>3 DEF ReadingOf, Mine, Shape
    <2>2. CASE CountWaiting(w)
      BY <2>2 DEF CountWaiting, Reading, ReadingOf, Shape, Goto, Mine
    <2>3. CASE Yield(w)
      BY <2>3 DEF Yield, Reading, ReadingOf, Shape, Goto, Mine
    <2>4. CASE SelectClaimable(w)
      <3> DEFINE chosen == Oldest({j \in Mine(w) : Claimable(w, j)})
      <3>1. /\ t' = t /\ now' = now
            /\ seen'[w] = [j \in chosen |-> rows[j]]
            /\ hand'[w] = hand[w]
            /\ pc'[w] \in {"idle", "take"}
        BY <2>4 DEF SelectClaimable, Shape, Goto, Restrict
      <3>2. chosen \subseteq Mine(w)
        BY DEF Oldest
      <3> QED
        BY <3>1, <3>2 DEF Reading, ReadingOf, Mine
    <2>5. CASE Take(w)
      <3>1. /\ t' = t /\ now' = now
            /\ seen'[w] = Empty
            /\ hand'[w] = [j \in Takable(w) |-> t[w]]
            /\ pc'[w] \in {"idle", "work"}
        BY <2>5 DEF Take, Shape, Goto
      <3>2. Takable(w) \subseteq Mine(w)
        BY DEF Takable
      <3>3. DOMAIN seen'[w] = {}
        BY <3>1 DEF Empty
      <3> QED
        BY <3>1, <3>2, <3>3 DEF Reading, ReadingOf, Mine
    <2> QED
      BY <2>1, <2>2, <2>3, <2>4, <2>5 DEF Claiming
  <1> QED
    BY <1>1, <1>2 DEF Reading

LEMMA LetGoReading ==
    ASSUME Shape, Reading, NEW w \in Workers, NEW j \in Jobs, LetGo(w, j),
           now' = now, t' = t
    PROVE  Reading'
  <1>1. \A v \in Workers \ {w} : ReadingOf(v)'
    BY LetGoShape, ReadingKept DEF Reading, Shape
  <1>2. DOMAIN seen'[w] = {}
    BY LetGoShape DEF Empty
  <1>3. ReadingOf(w)'
    BY <1>2, LetGoShape DEF Reading, ReadingOf, Mine
  <1> QED
    BY <1>1, <1>3 DEF Reading

LEMMA ReadingStep == Shape /\ Reading /\ [Next]_vars => Reading'
  <1> SUFFICES ASSUME Shape, Reading, [Next]_vars PROVE Reading'
    OBVIOUS
  <1>1. CASE \E j \in Jobs : Enqueue(j)
    BY <1>1, ReadingKept DEF Enqueue, Reading, Shape
  <1>2. CASE \E w \in Workers : Claiming(w)
    BY <1>2, ClaimingReading
  <1>3. CASE \E w \in Workers : Settling(w)
    <2> PICK w \in Workers, j \in Jobs :
            \/ Complete(w, j) \/ Skip(w, j) \/ ReadAttempts(w, j)
            \/ \E limit \in FailLimits : WriteFailure(w, j, limit)
      BY <1>3 DEF Settling
    <2>1. CASE \/ Complete(w, j) \/ Skip(w, j)
             \/ \E limit \in FailLimits : WriteFailure(w, j, limit)
      BY <2>1, LetGoReading DEF Complete, Skip, WriteFailure
    <2>2. CASE ReadAttempts(w, j)
      <3>1. \A v \in Workers \ {w} : ReadingOf(v)'
        BY <2>2, ReadingKept DEF ReadAttempts, Reading, Shape, Goto
      <3>2. /\ t'[w] = now /\ now' = now
            /\ DOMAIN seen'[w] = {j}
            /\ hand'[w] = hand[w]
            /\ pc'[w] = "failing"
            /\ j \in DOMAIN hand[w]
        BY <2>2 DEF ReadAttempts, Shape, Goto, Restrict
      <3>3. ReadingOf(w)'
        BY <3>2 DEF Reading, ReadingOf, Mine, Shape
      <3> QED
        BY <3>1, <3>3 DEF Reading
    <2> QED
      BY <2>1, <2>2
  <1>4. CASE \E w \in Workers : Crash(w)
    <2> PICK w \in Workers : Crash(w)
      BY <1>4
    <2>1. \A v \in Workers \ {w} : ReadingOf(v)'
      BY ReadingKept DEF Crash, Reading, Shape, Goto
    <2>2. /\ DOMAIN seen'[w] = {} /\ DOMAIN hand'[w] = {}
          /\ pc'[w] = "idle" /\ t' = t /\ now' = now
      BY DEF Crash, Shape, Goto, Empty
    <2>3. ReadingOf(w)'
      BY <2>2 DEF Reading, ReadingOf
    <2> QED
      BY <2>1, <2>3 DEF Reading
  <1>5. CASE Tick
    BY <1>5, ReadingKept DEF Tick, Reading, Shape
  <1>6. CASE UNCHANGED vars
    BY <1>6, ReadingKept DEF vars, Reading, Shape
  <1> QED
    BY <1>1, <1>2, <1>3, <1>4, <1>5, <1>6 DEF Next

LEMMA Known == Spec => [](Shape /\ Reading)
  <1>1. Init => Shape /\ Reading
    BY ShapeInit, ReadingInit
  <1>2. Shape /\ Reading /\ [Next]_vars => (Shape /\ Reading)'
    BY ShapeStep, ReadingStep
  <1> QED
    BY <1>1, <1>2, PTL DEF Spec

\* The rest of what the types bound: where a worker is, the clock, the crashes.
Bounded ==
    /\ now <= MaxTime
    /\ pc \in [Workers -> {"idle", "count", "yield", "select", "take", "work",
                           "failing"}]
    /\ crashes \in 0..MaxCrashes

LEMMA BoundedStep == Shape /\ Bounded /\ [Next]_vars => Bounded'
  <1> SUFFICES ASSUME Shape, Bounded, [Next]_vars
               PROVE  Bounded'
    OBVIOUS
  <1>1. /\ now \in Nat /\ MaxTime \in Nat /\ MaxCrashes \in Nat
    BY OutboxAssumption DEF Shape
  <1>2. ASSUME NEW w \in Workers, Claiming(w) \/ Settling(w)
        PROVE  Bounded'
    BY <1>2
    DEF Claiming, ReadExpired, CountWaiting, Yield, SelectClaimable, Take, Settling,
        Complete, Skip, ReadAttempts, WriteFailure, LetGo, Goto, Bounded
  <1>3. ASSUME NEW w \in Workers, Crash(w)
        PROVE  Bounded'
    BY <1>1, <1>3 DEF Crash, Goto, Bounded
  <1>4. CASE (\E j \in Jobs : Enqueue(j)) \/ UNCHANGED vars
    BY <1>4 DEF Enqueue, vars, Bounded
  <1>5. CASE Tick
    <2>1. now < MaxTime /\ now' = now + 1 /\ UNCHANGED <<pc, crashes>>
      BY <1>5 DEF Tick
    <2> QED
      BY <1>1, <2>1 DEF Bounded
  <1> QED
    BY <1>2, <1>3, <1>4, <1>5 DEF Next

\* Every variable keeps its type: whatever limit fail() is called with and
\* however often a job fails, available_at is a time.
THEOREM OutboxTypeCorrect == Spec => []TypeOK
  <1>1. Init => Bounded
    BY OutboxAssumption DEF Init, Bounded
  <1>2. Shape /\ Reading /\ Bounded => TypeOK
    BY OutboxAssumption DEF Shape, Reading, ReadingOf, Bounded, TypeOK
  <1> QED
    BY <1>1, <1>2, BoundedStep, Known, PTL DEF Spec

-----------------------------------------------------------------------------
(* Claims *)

LEMMA ClaimSpares ==
    ASSUME Shape, Reading, NEW w \in Workers, Claiming(w), NEW j \in Jobs, Live(j)
    PROVE  rows'[j] = rows[j]
  <1>0. /\ now \in Nat /\ t[w] \in Nat /\ t[w] <= now
        /\ rows[j].status = "in_progress" /\ rows[j].lockedAt \in Nat
        /\ Lease \in Nat /\ now < rows[j].lockedAt + Lease
    BY OutboxAssumption DEF Shape, Reading, ReadingOf, Live, Row
  <1>1. ~(rows[j].lockedAt <= t[w] - Lease)
    BY <1>0
  <1>2. CASE Yield(w)
    <2>1. j \notin Yielded(w)
      <3> SUFFICES ASSUME j \in Yielded(w) PROVE FALSE
        OBVIOUS
      <3>1. /\ j \in DOMAIN seen[w] /\ pc[w] = "yield"
            /\ rows[j].lockedAt = seen[w][j].lockedAt
        BY <1>2 DEF Yielded, SameLease, Yield
      <3>2. seen[w][j].lockedAt <= t[w] - Lease
        BY <3>1 DEF Reading, ReadingOf
      <3> QED
        BY <1>1, <3>1, <3>2
    <2> QED
      BY <1>2, <2>1 DEF Yield
  <1>3. CASE Take(w)
    <2>1. j \notin Takable(w)
      BY <1>0, <1>1 DEF Takable, ExpiredAt
    <2> QED
      BY <1>3, <2>1 DEF Take
  <1>4. CASE ReadExpired(w) \/ CountWaiting(w) \/ SelectClaimable(w)
    BY <1>4 DEF ReadExpired, CountWaiting, SelectClaimable
  <1> QED
    BY <1>2, <1>3, <1>4 DEF Claiming

\* No claim of any worker ends a lease that still runs, however old the rows
\* are that it acts on: the compare-and-set of the yield and the guard of the
\* final UPDATE are enough, with or without leases that outlast the work.
THEOREM ClaimsSpareLeases == Spec => ClaimSparesLiveLeases
  <1>1. Shape /\ Reading /\ [Next]_vars =>
            [\A w \in Workers : Claiming(w) =>
                \A j \in Jobs : Live(j) => rows'[j] = rows[j]]_vars
    BY ClaimSpares
  <1> QED
    BY <1>1, Known, PTL DEF Spec, ClaimSparesLiveLeases

-----------------------------------------------------------------------------
(* Tenants *)

LEMMA ForeignRow ==
    ASSUME Shape, Reading, Next, NEW j \in Jobs, rows[j].status # "absent",
           \A w \in Workers : TenantOf[j] \notin Scope[w]
    PROVE  rows'[j] = rows[j]
  <1>0. \A w \in Workers : j \notin DOMAIN seen[w] /\ j \notin DOMAIN hand[w]
    BY DEF Reading, ReadingOf, Mine
  <1>1. CASE \E i \in Jobs : Enqueue(i)
    BY <1>1 DEF Enqueue, Shape
  <1>2. CASE \E w \in Workers : Claiming(w)
    BY <1>0, <1>2 DEF Claiming, ReadExpired, CountWaiting, Yield, Yielded,
                      SelectClaimable, Take, Takable
  <1>3. CASE \E w \in Workers : Settling(w)
    <2> PICK w \in Workers, i \in Jobs :
            \/ Complete(w, i) \/ Skip(w, i) \/ ReadAttempts(w, i)
            \/ \E limit \in FailLimits : WriteFailure(w, i, limit)
      BY <1>3 DEF Settling
    <2>1. i # j \/ rows' = rows
      BY <1>0 DEF Complete, Skip, WriteFailure, ReadAttempts
    <2>2. \A k \in Jobs \ {i} : rows'[k] = rows[k]
      BY DEF Complete, Skip, WriteFailure, ReadAttempts, Shape
    <2> QED
      BY <2>1, <2>2
  <1>4. CASE (\E w \in Workers : Crash(w)) \/ Tick
    BY <1>4 DEF Crash, Tick
  <1> QED
    BY <1>1, <1>2, <1>3, <1>4 DEF Next

\* A tenant no worker serves: its jobs are not leased, not delayed by a yield,
\* not charged an attempt, by any worker of any other tenant.
THEOREM ForeignUntouched == Spec => ForeignTenantUntouched
  <1>1. Shape /\ Reading /\ [Next]_vars =>
            [\A j \in Jobs :
                /\ rows[j].status # "absent"
                /\ \A w \in Workers : TenantOf[j] \notin Scope[w]
                => rows'[j] = rows[j]]_vars
    BY ForeignRow
  <1> QED
    BY <1>1, Known, PTL DEF Spec, ForeignTenantUntouched

-----------------------------------------------------------------------------
(* Grants, while leases outlast the work *)

\* The row of a job in a worker's hand is the grant that put it there, and the
\* grant has not run out; nor will the one a claim in progress is about to make.
GrantOf(w) ==
    /\ \A j \in DOMAIN hand[w] :
          /\ rows[j].status = "in_progress"
          /\ rows[j].lockedBy = w
          /\ rows[j].lockedAt = hand[w][j]
          /\ now < hand[w][j] + Lease
    /\ pc[w] \in {"count", "yield", "select", "take"} => now < t[w] + Lease

Granted == \A w \in Workers : GrantOf(w)

LEMMA GrantKept ==
    ASSUME NEW v \in Workers, GrantOf(v), now' = now,
           t'[v] = t[v], pc'[v] = pc[v], hand'[v] = hand[v],
           \A j \in DOMAIN hand[v] : rows'[j] = rows[j]
    PROVE  GrantOf(v)'
  BY DEF GrantOf

LEMMA ClaimingGrants ==
    ASSUME Shape, Reading, Granted, NEW w \in Workers, Claiming(w)
    PROVE  Granted'
  <1>0. \A v \in Workers : \A j \in DOMAIN hand[v] : rows'[j] = rows[j]
    <2> SUFFICES ASSUME NEW v \in Workers, NEW j \in DOMAIN hand[v]
                 PROVE  rows'[j] = rows[j]
      OBVIOUS
    <2>1. j \in Jobs /\ Live(j)
      BY DEF Granted, GrantOf, Live, Shape
    <2> QED
      BY <2>1, ClaimSpares
  <1>1. \A v \in Workers \ {w} : GrantOf(v)'
    <2>1. \A v \in Workers \ {w} : /\ t'[v] = t[v] /\ pc'[v] = pc[v]
                                   /\ hand'[v] = hand[v]
      BY DEF Claiming, ReadExpired, CountWaiting, Yield, SelectClaimable, Take,
             Goto, Shape
    <2>2. now' = now
      BY DEF Claiming, ReadExpired, CountWaiting, Yield, SelectClaimable, Take
    <2> QED
      BY <1>0, <2>1, <2>2, GrantKept DEF Granted
  <1>2. GrantOf(w)'
    <2>1. CASE ReadExpired(w)
      <3>1. t'[w] = now /\ now' = now /\ hand' = hand
        BY <2>1 DEF ReadExpired, Shape
      <3>2. now < now + Lease
        BY OutboxAssumption DEF Shape
      <3> QED
        BY <1>0, <3>1, <3>2 DEF Granted, GrantOf
    <2>2. CASE CountWaiting(w) \/ Yield(w) \/ SelectClaimable(w)
      <3>1. /\ t' = t /\ now' = now /\ hand' = hand
            /\ pc[w] \in {"count", "yield", "select", "take"}
        BY <2>2 DEF CountWaiting, Yield, SelectClaimable
      <3> QED
        BY <1>0, <3>1 DEF Granted, GrantOf
    <2>3. CASE Take(w)
      <3>1. /\ t' = t /\ now' = now
            /\ hand'[w] = [j \in Takable(w) |-> t[w]]
            /\ pc'[w] \in {"idle", "work"}
            /\ now < t[w] + Lease
        BY <2>3 DEF Take, Shape, Goto, Granted, GrantOf
      <3>2. \A j \in Takable(w) : rows'[j] = Leased(rows[j], w, t[w])
        BY <2>3 DEF Take, Takable, Mine
      <3>3. \A j \in Takable(w) : /\ rows'[j].status = "in_progress"
                                  /\ rows'[j].lockedBy = w
                                  /\ rows'[j].lockedAt = t[w]
        BY <3>2, LeasedRow DEF Takable, Mine, Shape
      <3> QED
        BY <3>1, <3>3 DEF GrantOf
    <2> QED
      BY <2>1, <2>2, <2>3 DEF Claiming
  <1> QED
    BY <1>1, <1>2 DEF Granted

LEMMA SettlingGrants ==
    ASSUME Shape, Reading, Granted, NEW w \in Workers, Settling(w)
    PROVE  Granted'
  <1> PICK j \in Jobs : \/ Complete(w, j) \/ Skip(w, j) \/ ReadAttempts(w, j)
                        \/ \E limit \in FailLimits : WriteFailure(w, j, limit)
    BY DEF Settling
  <1>1. CASE \/ Complete(w, j) \/ Skip(w, j)
             \/ \E limit \in FailLimits : WriteFailure(w, j, limit)
    <2>1. LetGo(w, j) /\ t' = t /\ now' = now
      BY <1>1 DEF Complete, Skip, WriteFailure
    <2>2. j \in DOMAIN hand[w]
      BY <1>1 DEF Complete, Skip, WriteFailure, Reading, ReadingOf
    <2>3. \A i \in Jobs \ {j} : rows'[i] = rows[i]
      BY <1>1 DEF Complete, Skip, WriteFailure, Shape
    <2>4. \A v \in Workers \ {w} : j \notin DOMAIN hand[v]
      BY <2>2 DEF Granted, GrantOf
    <2>5. \A v \in Workers \ {w} : GrantOf(v)'
      BY <2>1, <2>3, <2>4, LetGoShape, GrantKept DEF Granted, Shape
    <2>6. GrantOf(w)'
      BY <2>1, <2>3, LetGoShape DEF Granted, GrantOf, Shape
    <2> QED
      BY <2>5, <2>6 DEF Granted
  <1>2. CASE ReadAttempts(w, j)
    <2>1. \A v \in Workers \ {w} : GrantOf(v)'
      BY <1>2, GrantKept DEF ReadAttempts, Goto, Granted, Shape
    <2>2. GrantOf(w)'
      BY <1>2 DEF ReadAttempts, Goto, Granted, GrantOf, Shape
    <2> QED
      BY <2>1, <2>2 DEF Granted
  <1> QED
    BY <1>1, <1>2

LEMMA GrantStep ==
    ASSUME LeaseOutlastsWork
    PROVE  Shape /\ Reading /\ Granted /\ [Next]_vars => Granted'
  <1> SUFFICES ASSUME Shape, Reading, Granted, [Next]_vars PROVE Granted'
    OBVIOUS
  <1>1. CASE \E j \in Jobs : Enqueue(j)
    BY <1>1, GrantKept DEF Enqueue, Granted, GrantOf, Shape
  <1>2. CASE \E w \in Workers : Claiming(w)
    BY <1>2, ClaimingGrants
  <1>3. CASE \E w \in Workers : Settling(w)
    BY <1>3, SettlingGrants
  <1>4. CASE \E w \in Workers : Crash(w)
    <2> PICK w \in Workers : Crash(w)
      BY <1>4
    <2>1. \A v \in Workers \ {w} : GrantOf(v)'
      BY GrantKept DEF Crash, Granted, Shape, Goto
    <2>2. GrantOf(w)'
      BY DEF Crash, GrantOf, Shape, Goto, Empty
    <2> QED
      BY <2>1, <2>2 DEF Granted
  <1>5. CASE Tick
    BY <1>5 DEF Tick, InTime, Granted, GrantOf
  <1>6. CASE UNCHANGED vars
    BY <1>6, GrantKept DEF vars, Granted
  <1> QED
    BY <1>1, <1>2, <1>3, <1>4, <1>5, <1>6 DEF Next

LEMMA GrantInvariant ==
    ASSUME LeaseOutlastsWork PROVE Spec => []Granted
  <1>1. Init => Granted
    BY DEF Init, Granted, GrantOf, Empty
  <1>2. Shape /\ Reading /\ Granted /\ [Next]_vars => Granted'
    BY GrantStep
  <1> QED
    BY <1>1, <1>2, Known, PTL DEF Spec

\* While a grant runs the row names its holder, so nobody else is offered the
\* job: what a worker believes of its lease, the queue believes too.
THEOREM GrantsAreRecorded ==
    ASSUME LeaseOutlastsWork PROVE Spec => []GrantRecorded
  <1>1. Granted => GrantRecorded
    BY DEF Granted, GrantOf, GrantRecorded, Holds, Live
  <1> QED
    BY <1>1, GrantInvariant, PTL

\* Leases that outlast the work are exclusive, for any number of workers whose
\* claims interleave statement by statement.
THEOREM LeasesAreExclusive ==
    ASSUME LeaseOutlastsWork PROVE Spec => []ExclusiveLease
  <1>1. Granted => ExclusiveLease
    BY DEF Granted, GrantOf, ExclusiveLease, Holds
  <1> QED
    BY <1>1, GrantInvariant, PTL

-----------------------------------------------------------------------------
(* The queue without a clock.  Who is not at work has nothing in hand, and   *)
(* with that every statement of the outbox is a step of LeasedQueue or none: *)
(* the yield and the UPDATE of a claim each a claim of its own, the ones     *)
(* between them nothing, and a tick the end of leases nobody holds.          *)

EmptyHanded ==
    \A w \in Workers : pc[w] \notin {"work", "failing"} => DOMAIN hand[w] = {}

LEMMA EmptyHandedStep == Shape /\ EmptyHanded /\ [Next]_vars => EmptyHanded'
  <1> SUFFICES ASSUME Shape, EmptyHanded, [Next]_vars PROVE EmptyHanded'
    OBVIOUS
  <1>1. CASE \E w \in Workers : Claiming(w)
    <2> PICK w \in Workers : Claiming(w)
      BY <1>1
    <2>1. CASE Take(w)
      BY <2>1 DEF Take, Goto, Shape, EmptyHanded
    <2>2. CASE ReadExpired(w) \/ CountWaiting(w) \/ Yield(w) \/ SelectClaimable(w)
      BY <2>2 DEF ReadExpired, CountWaiting, Yield, SelectClaimable, Goto, Shape,
                  EmptyHanded
    <2> QED
      BY <2>1, <2>2 DEF Claiming
  <1>2. CASE \E w \in Workers : Settling(w)
    <2> PICK w \in Workers, j \in Jobs :
            \/ Complete(w, j) \/ Skip(w, j) \/ ReadAttempts(w, j)
            \/ \E limit \in FailLimits : WriteFailure(w, j, limit)
      BY <1>2 DEF Settling
    <2>1. CASE ReadAttempts(w, j)
      BY <2>1 DEF ReadAttempts, Goto, Shape, EmptyHanded
    <2>2. CASE LetGo(w, j)
      <3>1. pc'[w] = IF DOMAIN hand[w] = {j} THEN "idle" ELSE "work"
        BY <2>2 DEF LetGo, Goto, Shape
      <3> QED
        BY <2>2, <3>1, LetGoShape DEF EmptyHanded
    <2> QED
      BY <2>1, <2>2 DEF Complete, Skip, WriteFailure
  <1>3. CASE \E w \in Workers : Crash(w)
    BY <1>3 DEF Crash, Goto, Empty, Shape, EmptyHanded
  <1>4. CASE (\E j \in Jobs : Enqueue(j)) \/ Tick \/ UNCHANGED vars
    BY <1>4 DEF Enqueue, Tick, vars, EmptyHanded
  <1> QED
    BY <1>1, <1>2, <1>3, <1>4 DEF Next

\* A step that leaves statuses, hands and running leases as they are.
LEMMA LeaseStutter ==
    ASSUME \A j \in Jobs : rows'[j].status = rows[j].status,
           \A j \in Jobs : Live(j)' <=> Live(j),
           \A w \in Workers : DOMAIN hand'[w] = DOMAIN hand[w]
    PROVE  [Leases!Next]_(Leases!vars)
  BY DEF Leases!vars

\* What a claim has to do to be a claim of the abstract queue.
LEMMA LeaseClaim ==
    ASSUME Shape, NEW w \in Workers, DOMAIN hand[w] = {},
           NEW given \in SUBSET Jobs, NEW back \in SUBSET Jobs, given \cap back = {},
           \A j \in given : rows[j].status \in {"pending", "in_progress"} /\ ~Live(j),
           \A j \in back : rows[j].status = "in_progress" /\ ~Live(j),
           \A j \in Jobs : rows'[j].status = IF j \in given THEN "in_progress"
                                             ELSE IF j \in back THEN "pending"
                                             ELSE rows[j].status,
           \A j \in Jobs : Live(j)' <=> Live(j) \/ j \in given,
           \A v \in Workers : DOMAIN hand'[v] = IF v = w THEN given ELSE DOMAIN hand[v]
    PROVE  Leases!Next
  <1> DEFINE hands == [v \in Workers |-> DOMAIN hand[v]]
  <1>1. hands[w] = {}
    OBVIOUS
  <1>2. /\ given \in SUBSET (Leases!With("pending") \cup Leases!Abandoned)
        /\ back \in SUBSET Leases!Abandoned
    BY DEF Leases!With, Leases!Abandoned
  <1>3. [j \in Jobs |-> rows[j].status]' =
            [j \in Jobs |-> IF j \in given THEN "in_progress"
                            ELSE IF j \in back THEN "pending"
                            ELSE [i \in Jobs |-> rows[i].status][j]]
    OBVIOUS
  <1>4. hands' = [hands EXCEPT ![w] = given]
    OBVIOUS
  <1>5. {j \in Jobs : Live(j)}' = {j \in Jobs : Live(j)} \cup given
    OBVIOUS
  <1>6. Leases!Claim(w)
    BY <1>1, <1>2, <1>3, <1>4, <1>5 DEF Leases!Claim
  <1> QED
    BY <1>6 DEF Leases!Next

LEMMA ClaimingLeases ==
    ASSUME Shape, Reading, Granted, EmptyHanded, NEW w \in Workers, Claiming(w)
    PROVE  [Leases!Next]_(Leases!vars)
  <1>1. CASE ReadExpired(w) \/ CountWaiting(w) \/ SelectClaimable(w)
    BY <1>1, LeaseStutter DEF ReadExpired, CountWaiting, SelectClaimable, Live
  <1>2. CASE Yield(w)
    <2>1. /\ \A j \in Yielded(w) : rows[j].status = "in_progress"
          /\ \A j \in Jobs : rows'[j] = IF j \in Yielded(w)
                                THEN Freed(rows[j], "pending",
                                           t[w] + YieldWait(seen[w][j].attempts))
                                ELSE rows[j]
          /\ DOMAIN hand[w] = {} /\ hand' = hand /\ now' = now
      BY <1>2 DEF Yield, Yielded, SameLease, EmptyHanded
    <2>2. \A j \in Jobs : rows'[j].status = IF j \in Yielded(w) THEN "pending"
                                                           ELSE rows[j].status
      <3>1. \A r, a : Freed(r, "pending", a).status = "pending"
        BY DEF Freed
      <3> QED
        BY <2>1, <3>1
    <2>3. \A j \in Jobs \cap Yielded(w) : ~Live(j)
      BY <2>1, <2>2, ClaimSpares
    <2>4. \A j \in Jobs : Live(j)' <=> Live(j)
      BY <2>1, <2>2, <2>3 DEF Live
    <2>5. Yielded(w) \subseteq Jobs
      BY DEF Yielded, Shape
    <2> DEFINE none == {}
               back == Yielded(w)
    <2>6. \A v \in Workers : DOMAIN hand'[v] = IF v = w THEN none ELSE DOMAIN hand[v]
      BY <2>1
    <2>7. \A j \in Jobs : rows'[j].status = IF j \in none THEN "in_progress"
                                            ELSE IF j \in back THEN "pending"
                                            ELSE rows[j].status
      BY <2>2
    <2>8. \A j \in Jobs : Live(j)' <=> Live(j) \/ j \in none
      BY <2>4
    <2>9. /\ none \in SUBSET Jobs /\ back \in SUBSET Jobs /\ none \cap back = {}
          /\ \A j \in none : rows[j].status \in {"pending", "in_progress"} /\ ~Live(j)
          /\ \A j \in back : rows[j].status = "in_progress" /\ ~Live(j)
          /\ DOMAIN hand[w] = {}
      BY <2>1, <2>3, <2>5
    <2> HIDE DEF none, back
    <2> QED
      BY <2>6, <2>7, <2>8, <2>9, LeaseClaim
  <1>3. CASE Take(w)
    <2>1. /\ \A j \in Takable(w) : rows[j].status \in {"pending", "in_progress"}
          /\ Takable(w) \subseteq Jobs
          /\ \A j \in Jobs : rows'[j] = IF j \in Takable(w)
                                THEN Leased(rows[j], w, t[w]) ELSE rows[j]
          /\ \A v \in Workers : DOMAIN hand'[v] =
                IF v = w THEN Takable(w) ELSE DOMAIN hand[v]
          /\ DOMAIN hand[w] = {} /\ now' = now /\ now < t[w] + Lease
      BY <1>3 DEF Take, Takable, Mine, ExpiredAt, Shape, EmptyHanded, Granted, GrantOf
    <2>2. \A j \in Takable(w) : /\ rows'[j].status = "in_progress"
                                /\ rows'[j].lockedAt = t[w]
      BY <2>1, LeasedRow DEF Shape
    <2>3. \A j \in Takable(w) : ~Live(j)
      <3> SUFFICES ASSUME NEW j \in Takable(w), Live(j) PROVE FALSE
        OBVIOUS
      <3>1. ExpiredAt(j, t[w])
        BY DEF Takable, Live
      <3>2. /\ rows[j].lockedAt <= t[w] - Lease /\ now < rows[j].lockedAt + Lease
            /\ t[w] <= now
        BY <3>1 DEF ExpiredAt, Live, Reading, ReadingOf
      <3>3. rows[j].lockedAt \in Nat /\ t[w] \in Nat /\ now \in Nat /\ Lease \in Nat
        BY <2>1, OutboxAssumption DEF Shape, Row
      <3> QED
        BY <3>2, <3>3
    <2>4. \A j \in Jobs : Live(j)' <=> Live(j) \/ j \in Takable(w)
      BY <2>1, <2>2 DEF Live
    <2> QED
      BY <2>1, <2>2, <2>3, <2>4, LeaseClaim
  <1> QED
    BY <1>1, <1>2, <1>3 DEF Claiming

LEMMA SettlingLeases ==
    ASSUME Shape, Reading, Granted, NEW w \in Workers, Settling(w)
    PROVE  [Leases!Next]_(Leases!vars)
  <1> PICK j \in Jobs : \/ Complete(w, j) \/ Skip(w, j) \/ ReadAttempts(w, j)
                        \/ \E limit \in FailLimits : WriteFailure(w, j, limit)
    BY DEF Settling
  <1>1. CASE ReadAttempts(w, j)
    BY <1>1, LeaseStutter DEF ReadAttempts, Live
  <1>2. CASE \/ Complete(w, j) \/ Skip(w, j)
             \/ \E limit \in FailLimits : WriteFailure(w, j, limit)
    <2>1. /\ j \in DOMAIN hand[w] /\ rows[j].status = "in_progress" /\ rows[j] \in Row
          /\ LetGo(w, j) /\ now' = now
      BY <1>2 DEF Complete, Skip, WriteFailure, Reading, ReadingOf, Granted, GrantOf,
                  Shape
    <2>2. PICK s \in Leases!Outcome : /\ rows'[j].status = s
                                      /\ \A i \in Jobs \ {j} : rows'[i] = rows[i]
      BY <1>2, <2>1
         DEF Complete, Skip, WriteFailure, Freed, Shape, Row, Leases!Outcome
    <2>3. s # "in_progress"
      BY DEF Leases!Outcome
    <2>4. [i \in Jobs |-> rows[i].status]' =
              [[i \in Jobs |-> rows[i].status] EXCEPT ![j] = s]
      BY <2>2
    <2>5. \A v \in Workers : DOMAIN hand'[v] =
              IF v = w THEN DOMAIN hand[w] \ {j} ELSE DOMAIN hand[v]
      BY <2>1, LetGoShape
    <2>6. [v \in Workers |-> DOMAIN hand[v]]' =
              [[v \in Workers |-> DOMAIN hand[v]] EXCEPT ![w] = @ \ {j}]
      BY <2>5
    <2>7. {i \in Jobs : Live(i)}' = {i \in Jobs : Live(i)} \ {j}
      BY <2>1, <2>2, <2>3 DEF Live
    <2>8. Leases!Settle(w, j)
      BY <2>4, <2>6, <2>7 DEF Leases!Settle
    <2> QED
      BY <2>1, <2>8 DEF Leases!Next
  <1> QED
    BY <1>1, <1>2

LEMMA LeasesStep ==
    ASSUME LeaseOutlastsWork
    PROVE  Shape /\ Reading /\ Granted /\ EmptyHanded /\ [Next]_vars
              => [Leases!Next]_(Leases!vars)
  <1> SUFFICES ASSUME Shape, Reading, Granted, EmptyHanded, [Next]_vars
               PROVE  [Leases!Next]_(Leases!vars)
    OBVIOUS
  <1>1. CASE \E j \in Jobs : Enqueue(j)
    <2> PICK j \in Jobs : Enqueue(j)
      BY <1>1
    <2>1. /\ rows[j].status = "absent" /\ rows'[j].status = "pending"
          /\ \A i \in Jobs \ {j} : rows'[i] = rows[i]
          /\ hand' = hand /\ now' = now
      BY DEF Enqueue, Shape, Row
    <2>2. {j} \in SUBSET Leases!With("absent")
      BY <2>1 DEF Leases!With
    <2>3. [i \in Jobs |-> rows[i].status]' =
              [i \in Jobs |-> IF i \in {j} THEN "pending"
                              ELSE [k \in Jobs |-> rows[k].status][i]]
      BY <2>1
    <2>4. {i \in Jobs : Live(i)}' = {i \in Jobs : Live(i)}
      BY <2>1 DEF Live
    <2>5. Leases!Enqueue
      BY <2>1, <2>2, <2>3, <2>4 DEF Leases!Enqueue
    <2> QED
      BY <2>5 DEF Leases!Next
  <1>2. CASE \E w \in Workers : Claiming(w)
    BY <1>2, ClaimingLeases
  <1>3. CASE \E w \in Workers : Settling(w)
    BY <1>3, SettlingLeases
  <1>4. CASE \E w \in Workers : Crash(w)
    <2> PICK w \in Workers : Crash(w)
      BY <1>4
    <2>1. /\ rows' = rows /\ now' = now
          /\ \A v \in Workers : DOMAIN hand'[v] = IF v = w THEN {} ELSE DOMAIN hand[v]
      BY DEF Crash, Empty, Shape
    <2>2. [v \in Workers |-> DOMAIN hand[v]]' =
              [[v \in Workers |-> DOMAIN hand[v]] EXCEPT ![w] = {}]
      BY <2>1
    <2>3. Leases!Abandon(w)
      BY <2>1, <2>2 DEF Leases!Abandon, Live
    <2> QED
      BY <2>3 DEF Leases!Next
  <1>5. CASE Tick
    <2> DEFINE S == {j \in Jobs : Live(j) /\ ~(now + 1 < rows[j].lockedAt + Lease)}
    <2>1. /\ rows' = rows /\ hand' = hand /\ now' = now + 1 /\ now \in Nat
          /\ \A w \in Workers : \A j \in DOMAIN hand[w] :
                now + 1 < rows[j].lockedAt + Lease
      BY <1>5 DEF Tick, InTime, Shape, Granted, GrantOf
    <2>2. {j \in Jobs : Live(j)}' = {j \in Jobs : Live(j)} \ S
      <3>1. Lease \in Nat /\ \A j \in Jobs : rows[j].lockedAt \in Nat
        BY OutboxAssumption DEF Shape, Row
      <3>2. \A j \in Jobs : Live(j)' <=> Live(j) /\ j \notin S
        BY <2>1, <3>1 DEF Live
      <3> QED
        BY <3>2
    <2>3. S \in SUBSET {j \in Jobs : Live(j)}
      OBVIOUS
    <2>4. \A w \in Workers : S \cap [v \in Workers |-> DOMAIN hand[v]][w] = {}
      BY <2>1
    <2>5. Leases!Expire
      BY <2>1, <2>2, <2>3, <2>4 DEF Leases!Expire
    <2> QED
      BY <2>5 DEF Leases!Next
  <1>6. CASE UNCHANGED vars
    BY <1>6, LeaseStutter DEF vars, Live
  <1> QED
    BY <1>1, <1>2, <1>3, <1>4, <1>5, <1>6 DEF Next

\* What interleaved claims, compare-and-set yields and writes by job id amount
\* to, as long as leases outlast the work: one-step claims, and jobs that only
\* their holder settles.
THEOREM OutboxIsALeasedQueue ==
    ASSUME LeaseOutlastsWork PROVE Spec => ImplementsLeases
  <1>1. Init => EmptyHanded
    BY DEF Init, EmptyHanded, Empty
  <1>2. Init => Leases!Init
    BY DEF Init, Leases!Init, Empty, Live
  <1>3. Spec => [](Shape /\ EmptyHanded)
    BY <1>1, EmptyHandedStep, Known, PTL DEF Spec
  <1> QED
    BY <1>2, <1>3, Known, GrantInvariant, LeasesStep, PTL
       DEF Spec, ImplementsLeases, Leases!Spec
=============================================================================
