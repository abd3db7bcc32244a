---------------------------- MODULE SdkHealthProofs ----------------------------
(***************************************************************************)
(* Proofs about SdkHealth, for any number of threads, any measurements and  *)
(* any thresholds, multipliers and limits the configuration allows.         *)
(***************************************************************************)
EXTENDS SdkHealth, FiniteSetTheorems, WellFoundedInduction, TLAPS

-------------------------------------------------------------------------------
(* The median.                                                                *)

LEMMA HasLeast ==
  ASSUME NEW S \in SUBSET Nat, S # {}
  PROVE  \E x \in S : \A y \in S : x <= y
<1>1. PICK R : R = {pair \in Nat \X Nat : pair[1] < pair[2]}
  OBVIOUS
<1>2. IsWellFoundedOn(R, Nat)
  BY <1>1, NatLessThanWellFounded DEF OpToRel
<1>3. PICK x \in S : \A y \in S : ~(<<y, x>> \in R)
  BY <1>2, WFMin
<1>4. \A y \in S : ~(y < x)
  BY <1>1, <1>3
<1>. QED  BY <1>4

LEMMA HasGreatest ==
  ASSUME NEW n \in Nat, NEW S \in SUBSET (0..n), S # {}
  PROVE  \E x \in S : \A y \in S : y <= x
<1>1. PICK T : T = {n - x : x \in S}
  OBVIOUS
<1>2. T \in SUBSET Nat /\ T # {}
  <2>1. \A x \in S : n - x \in Nat
    OBVIOUS
  <2>. QED  BY <1>1, <2>1
<1>3. PICK t \in T : \A u \in T : t <= u
  BY <1>2, HasLeast
<1>4. PICK x \in S : t = n - x
  BY <1>1, <1>3
<1>5. \A y \in S : n - x <= n - y
  BY <1>1, <1>3, <1>4
<1>. QED  BY <1>5

LEMMA WithinFacts ==
  ASSUME NEW s \in Seq(Nat), NEW x \in Nat
  PROVE  /\ IsFiniteSet(Measured(s)) /\ Cardinality(Measured(s)) \in 0..Len(s)
         /\ Within(s, x) \subseteq Measured(s)
         /\ IsFiniteSet(Within(s, x)) /\ Cardinality(Within(s, x)) \in Nat
         /\ Cardinality(Within(s, x)) <= Cardinality(Measured(s))
         /\ \A n \in Measured(s) : s[n] \in Nat
<1>1. Len(s) \in Nat /\ DOMAIN s = 1..Len(s)
  OBVIOUS
<1>2. Measured(s) \in SUBSET (1..Len(s)) /\ Within(s, x) \in SUBSET Measured(s)
  BY <1>1 DEF Measured, Within
<1>3. IsFiniteSet(1..Len(s)) /\ Cardinality(1..Len(s)) = Len(s)
  BY <1>1, FS_Interval
<1>4. IsFiniteSet(Measured(s)) /\ Cardinality(Measured(s)) <= Len(s)
  BY <1>2, <1>3, FS_Subset
<1>5. IsFiniteSet(Within(s, x)) /\ Cardinality(Within(s, x)) <= Cardinality(Measured(s))
  BY <1>2, <1>4, FS_Subset
<1>6. \A n \in Measured(s) : s[n] \in Nat
  BY <1>1, <1>2
<1>. QED  BY <1>1, <1>2, <1>4, <1>5, <1>6, FS_CardinalityType

(* All that counts is within some value: the one that most of it is within.    *)
LEMMA WithinAll ==
  ASSUME NEW s \in Seq(Nat), Measured(s) # {}
  PROVE  \E m \in Measured(s) : Within(s, s[m]) = Measured(s)
<1>1. PICK c : c = Cardinality(Measured(s))
  OBVIOUS
<1>2. PICK C : C = {Cardinality(Within(s, s[m])) : m \in Measured(s)}
  OBVIOUS
<1>3. c \in Nat /\ C \in SUBSET (0..c) /\ C # {}
  <2>1. c \in Nat
    BY <1>1, WithinFacts, 0 \in Nat
  <2>2. \A m \in Measured(s) : Cardinality(Within(s, s[m])) \in 0..c
    <3>1. ASSUME NEW m \in Measured(s) PROVE Cardinality(Within(s, s[m])) \in 0..c
      <4>1. s[m] \in Nat
        BY WithinFacts, 0 \in Nat
      <4>2. /\ Cardinality(Within(s, s[m])) \in Nat
            /\ Cardinality(Within(s, s[m])) <= c
        BY <1>1, <4>1, WithinFacts
      <4>. QED  BY <2>1, <4>2
    <3>. QED  BY <3>1
  <2>. QED  BY <1>2, <2>1, <2>2
<1>4. PICK m \in Measured(s) : \A d \in C : d <= Cardinality(Within(s, s[m]))
  <2>1. PICK g \in C : \A d \in C : d <= g
    BY <1>3, HasGreatest
  <2>. QED  BY <1>2, <2>1
<1>5. ASSUME NEW n \in Measured(s), n \notin Within(s, s[m])
      PROVE  FALSE
  <2>1. s[m] \in Nat /\ s[n] \in Nat /\ s[m] < s[n]
    <3>1. s[m] \in Nat /\ s[n] \in Nat
      BY WithinFacts, 0 \in Nat
    <3>2. ~(s[n] <= s[m])
      BY <1>5 DEF Within
    <3>. QED  BY <3>1, <3>2
  <2>2. PICK A, B : A = Within(s, s[m]) /\ B = Within(s, s[n])
    OBVIOUS
  <2>3. A \in SUBSET B /\ n \in B /\ n \notin A
    <3>1. ASSUME NEW i \in Measured(s), s[i] <= s[m] PROVE s[i] <= s[n]
      <4>1. s[i] \in Nat
        BY WithinFacts, 0 \in Nat
      <4>. QED  BY <2>1, <3>1, <4>1
    <3>. QED  BY <1>5, <2>1, <2>2, <3>1 DEF Within
  <2>4. IsFiniteSet(B) /\ Cardinality(A) \in Nat /\ Cardinality(B) \in Nat
    BY <2>1, <2>2, WithinFacts
  <2>5. Cardinality(A) <= Cardinality(B) /\ (Cardinality(A) = Cardinality(B) => A = B)
    BY <2>3, <2>4, FS_Subset
  <2>6. Cardinality(B) <= Cardinality(A)
    BY <1>2, <1>4, <2>2
  <2>. QED  BY <2>3, <2>4, <2>5, <2>6
<1>. QED  BY <1>4, <1>5 DEF Within

(* The kth value in order is within any value that k of them are within.       *)
LEMMA NthFacts ==
  ASSUME NEW s \in Seq(Nat), NEW k \in Nat \ {0}, k <= Cardinality(Measured(s))
  PROVE  /\ Nth(s, k) \in Nat
         /\ \A x \in Nat : k <= Cardinality(Within(s, x)) => Nth(s, k) <= x
<1>1. PICK N, T : /\ N = {m \in Measured(s) : Cardinality(Within(s, s[m])) >= k}
                  /\ T = {s[n] : n \in N}
  OBVIOUS
<1>2. \A n \in Measured(s) : s[n] \in Nat
  BY WithinFacts, 0 \in Nat
<1>3. T \in SUBSET Nat
  BY <1>1, <1>2
<1>4. T # {}
  <2>1. Measured(s) # {}
    <3>1. Cardinality({}) = 0 /\ ~(k <= 0)
      BY FS_EmptySet
    <3>. QED  BY <3>1
  <2>2. PICK m \in Measured(s) : Within(s, s[m]) = Measured(s)
    BY <2>1, WithinAll
  <2>. QED  BY <1>1, <2>2
<1>5. Nth(s, k) = Min(T)
  BY <1>1 DEF Nth
<1>6. Min(T) \in T /\ \A t \in T : Min(T) <= t
  BY <1>3, <1>4, HasLeast DEF Min
<1>7. ASSUME NEW x \in Nat, k <= Cardinality(Within(s, x))
      PROVE  Min(T) <= x
  <2>1. PICK V : V = {s[n] : n \in Within(s, x)}
    OBVIOUS
  <2>2. V \in SUBSET (0..x)
    <3>1. \A n \in Within(s, x) : s[n] \in Nat /\ s[n] <= x
      BY <1>2 DEF Within
    <3>. QED  BY <2>1, <3>1
  <2>3. V # {}
    <3>1. Within(s, x) # {}
      <4>1. Cardinality({}) = 0 /\ ~(k <= 0)
        BY FS_EmptySet
      <4>. QED  BY <1>7, <4>1
    <3>. QED  BY <2>1, <3>1
  <2>4. PICK m \in Within(s, x) : \A n \in Within(s, x) : s[n] <= s[m]
    <3>1. PICK v \in V : \A u \in V : u <= v
      BY <2>2, <2>3, HasGreatest
    <3>. QED  BY <2>1, <3>1
  <2>5. m \in Measured(s) /\ s[m] \in Nat /\ s[m] <= x
    BY <1>2 DEF Within
  <2>6. Within(s, x) \in SUBSET Within(s, s[m])
    BY <2>4 DEF Within
  <2>7. Cardinality(Within(s, x)) <= Cardinality(Within(s, s[m]))
    BY <2>5, <2>6, WithinFacts, FS_Subset
  <2>8. k <= Cardinality(Within(s, s[m]))
    <3>1. Cardinality(Within(s, x)) \in Nat /\ Cardinality(Within(s, s[m])) \in Nat
      BY <2>5, WithinFacts
    <3>. QED  BY <1>7, <2>7, <3>1
  <2>9. s[m] \in T
    BY <1>1, <2>5, <2>8
  <2>10. Min(T) \in Nat /\ Min(T) <= s[m]
    BY <1>3, <1>6, <2>9
  <2>. QED  BY <2>5, <2>10
<1>. QED  BY <1>3, <1>5, <1>6, <1>7

(* The median does not exceed what most of the values do not exceed.           *)
LEMMA MedianFacts ==
  ASSUME NEW s \in Seq(Nat), Measured(s) # {}
  PROVE  /\ Median(s) \in Nat
         /\ \A x \in Nat : 2 * Cardinality(Exceed(s, x)) < Cardinality(Measured(s))
                             => Median(s) <= x
<1>1. PICK c, h : c = Cardinality(Measured(s)) /\ h = c \div 2
  OBVIOUS
<1>2. c \in Nat /\ c # 0
  <2>1. IsFiniteSet(Measured(s)) /\ c \in Nat
    BY <1>1, WithinFacts, 0 \in Nat
  <2>. QED  BY <1>1, <2>1, FS_EmptySet
<1>3. /\ h \in Nat
      /\ c % 2 = 1 => c = 2 * h + 1
      /\ c % 2 # 1 => c = 2 * h /\ h # 0
  BY <1>1, <1>2
<1>4. h + 1 \in Nat \ {0} /\ (c % 2 = 1 => h + 1 <= c) /\ (c % 2 # 1 => h + 1 <= c /\ h <= c)
  BY <1>2, <1>3
<1>5. /\ Nth(s, h + 1) \in Nat
      /\ \A x \in Nat : h + 1 <= Cardinality(Within(s, x)) => Nth(s, h + 1) <= x
  <2>1. h + 1 \in Nat \ {0} /\ h + 1 <= Cardinality(Measured(s))
    BY <1>1, <1>4
  <2>. QED  BY <2>1, NthFacts
<1>6. c % 2 # 1 => /\ Nth(s, h) \in Nat
                   /\ \A x \in Nat : h <= Cardinality(Within(s, x)) => Nth(s, h) <= x
  BY <1>1, <1>3, <1>4, NthFacts
<1>7. ASSUME NEW x \in Nat, 2 * Cardinality(Exceed(s, x)) < Cardinality(Measured(s))
      PROVE  h + 1 <= Cardinality(Within(s, x)) /\ h <= Cardinality(Within(s, x))
  <2>1. PICK w, e : w = Cardinality(Within(s, x)) /\ e = Cardinality(Exceed(s, x))
    OBVIOUS
  <2>2. Measured(s) \cap Within(s, x) = Within(s, x)
    BY DEF Within
  <2>3. Cardinality(Measured(s) \ Within(s, x))
          = Cardinality(Measured(s)) - Cardinality(Measured(s) \cap Within(s, x))
    BY WithinFacts, FS_Difference
  <2>4. e = c - w /\ w \in Nat
    BY <1>1, <2>1, <2>2, <2>3, WithinFacts DEF Exceed
  <2>5. 2 * e < c /\ (c = 2 * h + 1 \/ c = 2 * h)
    BY <1>1, <1>3, <1>7, <2>1
  <2>6. h + 1 <= w /\ h <= w
    BY <1>2, <1>3, <2>4, <2>5
  <2>. QED  BY <2>1, <2>6
<1>8. CASE c % 2 = 1
  BY <1>1, <1>5, <1>7, <1>8 DEF Median
<1>9. CASE c % 2 # 1
  <2>1. PICK a, b : a = Nth(s, h) /\ b = Nth(s, h + 1)
    OBVIOUS
  <2>2. a \in Nat /\ b \in Nat
    BY <1>5, <1>6, <1>9, <2>1
  <2>3. \A x \in Nat : a <= x /\ b <= x => (a + b) \div 2 <= x
    BY <2>2
  <2>4. (a + b) \div 2 \in Nat
    BY <2>2
  <2>5. Median(s) = (a + b) \div 2
    BY <1>1, <1>9, <2>1 DEF Median
  <2>. QED  BY <1>5, <1>6, <1>7, <1>9, <2>1, <2>3, <2>4, <2>5
<1>. QED  BY <1>8, <1>9

-------------------------------------------------------------------------------
(* Types.                                                                     *)

Levels == {"ok", "warning", "critical"}
Tasks == [at : {"idle", "judge", "announce"}, kind : {"get", "post"},
          seen : Windows \cup {NoData}, status : Levels]

LEMMA ConstantFacts ==
  /\ Windows \subseteq [p95 : Nat, errors : 0..100, anomaly : Nat]
  /\ NoData \in [p95 : Nat, errors : 0..100, anomaly : Nat]
  /\ Warn \in Nat /\ WarnX \in Nat /\ WarnPct \in Nat
  /\ MaxSnapshots \in Nat /\ QueueSize \in Nat /\ QueueSize > 0 /\ RateLimit \in Nat
BY HealthAssumption DEF NoData

LEMMA WindowType ==
  ASSUME NEW w \in Windows \cup {NoData}
  PROVE  w.p95 \in Nat /\ w.errors \in 0..100 /\ w.anomaly \in Nat
BY ConstantFacts

LEMMA LevelType ==
  ASSUME NEW w, NEW p, NEW l
  PROVE  Level(w, p, l) \in Levels
BY DEF Level, Worst, Levels

LEMMA IdleFacts == Idle \in Tasks /\ NoPrev \in [p95 : Nat, errors : 0..100]
BY DEF Idle, Tasks, Levels, NoPrev

LEMMA InitType == Init => TypeOK
<1>. SUFFICES ASSUME Init PROVE TypeOK
  OBVIOUS
<1>1. /\ <<>> \in Seq(Nat) /\ <<>> \in Seq(Levels) /\ Len(<<>>) = 0
      /\ 0 <= MaxSnapshots /\ 0 <= QueueSize /\ 0 \in 0..RateLimit
  BY ConstantFacts
<1>2. Untaught \in [median : Nat, from : 0..MaxSnapshots]
  BY ConstantFacts DEF Untaught
<1>. QED  BY <1>1, <1>2, IdleFacts DEF Init, TypeOK, Tasks, Levels

LEMMA ThreadMoves ==
  ASSUME TypeOK, NEW h \in Threads, NEW r \in Tasks, thread' = [thread EXCEPT ![h] = r]
  PROVE  thread' \in [Threads -> Tasks]
BY DEF TypeOK, Tasks, Levels

(* At the front of a queue, or behind it.                                      *)
LEMMA QueueFacts ==
  ASSUME NEW S, NEW q \in Seq(S)
  PROVE  /\ \A v \in S : Append(q, v) \in Seq(S) /\ Len(Append(q, v)) = Len(q) + 1
         /\ q # <<>> => /\ Head(q) \in S /\ Tail(q) \in Seq(S)
                        /\ Len(Tail(q)) = Len(q) - 1
         /\ Len(q) \in Nat
OBVIOUS

LEMMA NextType == TypeOK /\ [Next]_vars => TypeOK'
<1>. SUFFICES ASSUME TypeOK, [Next]_vars PROVE TypeOK'
  OBVIOUS
<1>0. /\ window \in Windows \cup {NoData}
      /\ prev \in [p95 : Nat, errors : 0..100]
      /\ snapshots \in Seq(Nat) /\ Len(snapshots) <= MaxSnapshots
      /\ learned \in [median : Nat, from : 0..MaxSnapshots]
      /\ thread \in [Threads -> Tasks]
      /\ alerts \in Seq(Levels) /\ Len(alerts) <= QueueSize
      /\ wait \in 0..RateLimit
      /\ told \in Levels
  BY DEF TypeOK, Tasks, Levels
<1>1. ASSUME NEW w \in Windows \cup {NoData}, Traffic(w)
      PROVE  TypeOK'
  BY <1>0, <1>1 DEF Traffic, TypeOK, Tasks, Levels
<1>2. ASSUME NEW h \in Threads, NEW kind \in {"get", "post"}, Fetch(h, kind)
      PROVE  TypeOK'
  <2>1. PICK r : r = [at |-> "judge", kind |-> kind, seen |-> window, status |-> "ok"]
    OBVIOUS
  <2>2. r \in Tasks
    BY <1>0, <2>1 DEF Tasks, Levels
  <2>3. thread' \in [Threads -> Tasks]
    BY <1>2, <2>1, <2>2, ThreadMoves DEF Fetch
  <2>. QED  BY <1>0, <1>2, <2>3 DEF Fetch, TypeOK, Tasks, Levels
<1>3. ASSUME NEW h \in Threads, Judge(h)
      PROVE  TypeOK'
  <2>1. PICK e, s, r : /\ e = thread[h] /\ s = Level(e.seen, prev, learned)
                       /\ r = IF e.kind = "post"
                              THEN [Idle EXCEPT !.at = "announce", !.status = s] ELSE Idle
    OBVIOUS
  <2>2. s \in Levels /\ e.seen \in Windows \cup {NoData}
    BY <1>0, <2>1, LevelType DEF Tasks
  <2>3. r \in Tasks
    BY <2>1, <2>2, IdleFacts DEF Tasks, Idle
  <2>4. thread' \in [Threads -> Tasks]
    BY <1>3, <2>1, <2>3, ThreadMoves DEF Judge
  <2>5. prev' \in [p95 : Nat, errors : 0..100]
    BY <1>0, <1>3, <2>1, <2>2, WindowType DEF Judge
  <2>. QED  BY <1>0, <1>3, <2>4, <2>5 DEF Judge, TypeOK, Tasks, Levels
<1>4. ASSUME NEW h \in Threads, Announce(h)
      PROVE  TypeOK'
  <2>1. thread' \in [Threads -> Tasks]
    BY <1>4, IdleFacts, ThreadMoves DEF Announce
  <2>2. thread[h].status \in Levels
    BY <1>0 DEF Tasks
  <2>3. alerts' \in Seq(Levels) /\ Len(alerts') <= QueueSize
    BY <1>0, <1>4, <2>2, QueueFacts, ConstantFacts DEF Announce
  <2>. QED  BY <1>0, <1>4, <2>1, <2>3 DEF Announce, TypeOK, Tasks, Levels
<1>5. CASE Snapshot
  <2>1. PICK all : all = Append(snapshots, window.p95)
    OBVIOUS
  <2>2. window.p95 \in Nat
    BY <1>0, WindowType
  <2>3. all \in Seq(Nat) /\ Len(all) = Len(snapshots) + 1 /\ Len(snapshots) \in Nat
    BY <1>0, <2>1, <2>2, QueueFacts
  <2>4. all # <<>> /\ Tail(all) \in Seq(Nat) /\ Len(Tail(all)) = Len(all) - 1
    BY <2>3, QueueFacts
  <2>5. snapshots' = IF Len(all) > MaxSnapshots THEN Tail(all) ELSE all
    BY <1>5, <2>1 DEF Snapshot
  <2>6. snapshots' \in Seq(Nat) /\ Len(snapshots') <= MaxSnapshots
    BY <1>0, <2>3, <2>4, <2>5, ConstantFacts
  <2>. QED  BY <1>0, <1>5, <2>6 DEF Snapshot, TypeOK, Tasks, Levels
<1>6. CASE Recalibrate
  <2>1. PICK m, c : m = Median(snapshots) /\ c = Cardinality(Measured(snapshots))
    OBVIOUS
  <2>2. m \in Nat
    BY <1>0, <1>6, <2>1, MedianFacts DEF Recalibrate
  <2>3. c \in 0..MaxSnapshots
    <3>1. c \in 0..Len(snapshots)
      BY <1>0, <2>1, WithinFacts, 0 \in Nat
    <3>. QED  BY <1>0, <3>1, ConstantFacts
  <2>4. learned' = [median |-> m, from |-> c]
    BY <1>6, <2>1 DEF Recalibrate
  <2>. QED  BY <1>0, <1>6, <2>2, <2>3, <2>4 DEF Recalibrate, TypeOK, Tasks, Levels
<1>7. CASE Drop
  <2>1. alerts' \in Seq(Levels) /\ Len(alerts') <= QueueSize
    BY <1>0, <1>7, QueueFacts, ConstantFacts DEF Drop
  <2>. QED  BY <1>0, <1>7, <2>1 DEF Drop, TypeOK, Tasks, Levels
<1>8. ASSUME NEW taken \in BOOLEAN, Post(taken)
      PROVE  TypeOK'
  <2>1. alerts' \in Seq(Levels) /\ Len(alerts') <= QueueSize /\ Head(alerts) \in Levels
    BY <1>0, <1>8, QueueFacts, ConstantFacts DEF Post
  <2>2. told' \in Levels /\ wait' \in 0..RateLimit
    BY <1>0, <1>8, <2>1, ConstantFacts DEF Post
  <2>. QED  BY <1>0, <1>8, <2>1, <2>2 DEF Post, TypeOK, Tasks, Levels
<1>9. CASE Tick
  <2>1. wait' \in 0..RateLimit
    BY <1>0, <1>9, ConstantFacts DEF Tick
  <2>. QED  BY <1>0, <1>9, <2>1 DEF Tick, TypeOK, Tasks, Levels
<1>10. CASE UNCHANGED vars
  BY <1>10 DEF vars, TypeOK
<1>. QED  BY <1>1, <1>2, <1>3, <1>4, <1>5, <1>6, <1>7, <1>8, <1>9, <1>10 DEF Next

(* What the threads, the event loop and Slack keep stays within its limits and *)
(* types, and a calibrated median is a latency.                               *)
THEOREM HealthTypeCorrect == Spec => []TypeOK
BY InitType, NextType, PTL DEF Spec

-------------------------------------------------------------------------------
(* The two judgements of an evaluation, and what the thresholds learn.        *)

(* If no threshold is passed, the score is far in the healthy range.           *)
LEMMA QuietScore ==
  ASSUME NEW w \in Windows, NEW l \in [median : Nat, from : Nat], Level(w, NoPrev, l) = "ok"
  PROVE  Composite(w, l) \in Nat /\ Composite(w, l) >= 96
<1>1. w.p95 \in Nat /\ w.errors \in Nat /\ w.anomaly \in Nat
  BY WindowType
<1>2. PICK t : t = Thresholds(l)
  OBVIOUS
<1>3. t.warn \in Nat
  BY <1>2, ConstantFacts DEF Thresholds
<1>4. ~(w.p95 > t.warn) /\ ~(w.anomaly > 10) /\ ~(w.errors > WarnPct)
  BY <1>2 DEF Level, Worst
<1>5. ScoreLatency(w.p95, t.warn, t.crit) = 100
  BY <1>1, <1>3, <1>4 DEF ScoreLatency, Falling
<1>6. ScoreErrors(w.errors) = 100
  BY <1>1, <1>4, ConstantFacts DEF ScoreErrors, Falling
<1>7. PICK a, s : a = w.anomaly /\ s = ScoreAnomaly(a)
  OBVIOUS
<1>8. a \in Nat /\ a <= 10
  BY <1>1, <1>4, <1>7
<1>9. s \in 84..100
  <2>1. CASE a < 5
    BY <1>7, <1>8, <2>1 DEF ScoreAnomaly
  <2>2. CASE ~(a < 5)
    <3>1. PICK q : q = (50 * (a - 5)) \div 15
      OBVIOUS
    <3>2. q \in 0..16
      BY <1>8, <2>2, <3>1
    <3>3. ~(a >= 40) /\ 5 <= a /\ a < 20
      BY <1>8, <2>2
    <3>4. s = 100 - q
      <4>1. q = Points(a - 5, 15)
        BY <3>1 DEF Points
      <4>2. ~(20 <= a)
        BY <1>8
      <4>3. ScoreAnomaly(a) = 100 - Points(a - 5, 15)
        BY <2>2, <3>3, <4>2 DEF ScoreAnomaly
      <4>. QED  BY <1>7, <4>1, <4>3
    <3>. QED  BY <3>2, <3>4
  <2>. QED  BY <2>1, <2>2
<1>10. Composite(w, l) = (50 * 100 + 30 * 100 + 20 * s) \div 100
  BY <1>2, <1>5, <1>6, <1>7 DEF Composite, Weighted
<1>. QED  BY <1>9, <1>10

(* If no threshold is passed, learned or not, the score the orchestrator polls *)
(* is "healthy" and no action is suggested.                                   *)
THEOREM QuietIsHealthyCorrect == Spec => []QuietIsHealthy
<1>1. TypeOK => QuietIsHealthy
  <2>. SUFFICES ASSUME TypeOK, NEW w \in Windows, Level(w, NoPrev, learned) = "ok"
                PROVE  /\ Health(w, learned) = "healthy"
                       /\ Suggested(Composite(w, learned)) = {}
    BY DEF QuietIsHealthy
  <2>1. learned \in [median : Nat, from : Nat]
    BY ConstantFacts DEF TypeOK
  <2>2. PICK score : score = Composite(w, learned)
    OBVIOUS
  <2>3. score \in Nat /\ score >= 96
    BY <2>1, <2>2, QuietScore
  <2>4. Health(w, learned) = "healthy"
    <3>1. score >= 70 /\ ~(score < 70) /\ ~(score < 40)
      BY <2>3
    <3>. QED  BY <2>2, <3>1 DEF Health
  <2>5. Suggested(score) = {}
    <3>1. ~(score < 25) /\ ~(score < 40) /\ ~(score < 60)
      BY <2>3
    <3>. QED  BY <3>1 DEF Suggested
  <2>. QED  BY <2>2, <2>4, <2>5
<1>. QED  BY <1>1, HealthTypeCorrect, PTL

(* Whatever latency most of the snapshots that count stayed within, a         *)
(* calibration does not learn a higher one.                                   *)
THEOREM LearnsTheUsualCorrect == Spec => LearnsTheUsual
<1>1. ASSUME TypeOK, [Next]_vars, learned' # learned, NEW w \in Windows,
             2 * Cardinality(Exceed(snapshots, w.p95)) < Cardinality(Measured(snapshots))
      PROVE  learned'.median <= w.p95
  <2>1. Recalibrate
    BY <1>1 DEF Next, vars, Traffic, Fetch, Judge, Announce, Snapshot, Drop, Post, Tick
  <2>2. snapshots \in Seq(Nat) /\ w.p95 \in Nat
    BY <1>1, WindowType DEF TypeOK
  <2>3. Median(snapshots) <= w.p95
    BY <1>1, <2>1, <2>2, MedianFacts DEF Recalibrate
  <2>. QED  BY <2>1, <2>3 DEF Recalibrate
<1>2. TypeOK /\ [Next]_vars
        => [learned' # learned =>
              \A w \in Windows :
                2 * Cardinality(Exceed(snapshots, w.p95)) < Cardinality(Measured(snapshots))
                  => learned'.median <= w.p95]_vars
  BY <1>1
<1>. QED  BY <1>2, HealthTypeCorrect, PTL DEF Spec, LearnsTheUsual

=============================================================================
