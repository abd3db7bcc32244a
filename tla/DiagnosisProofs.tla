---------------------------- MODULE DiagnosisProofs ----------------------------
(***************************************************************************)
(* Proofs about Diagnosis, for any number of processes, latencies,           *)
(* categories and confidences, any limits and any number of polls and       *)
(* pushes.                                                                  *)
(***************************************************************************)
EXTENDS Diagnosis, FiniteSetTheorems, WellFoundedInduction, TLAPS

-------------------------------------------------------------------------------
(* Numbers, and the oldest of a set of them.                                  *)

LEMMA HasLeast ==
  ASSUME NEW S \in SUBSET Nat, S # {}
  PROVE  \E x \in S : \A y \in S : x <= y
<1>1. PICK R : R = {ss \in Nat \X Nat : ss[1] < ss[2]}
  OBVIOUS
<1>2. IsWellFoundedOn(R, Nat)
  BY <1>1, NatLessThanWellFounded DEF OpToRel
<1>3. PICK x \in S : \A y \in S : ~(<<y, x>> \in R)
  BY <1>2, WFMin
<1>4. \A y \in S : ~(y < x)
  BY <1>1, <1>3
<1>. QED  BY <1>4

LEMMA HasGreatest ==
  ASSUME NEW n \in Nat, NEW S \in SUBSET (0..n), S # {}
  PROVE  \E x \in S : \A y \in S : y <= x
<1>1. PICK T : T = {n - x : x \in S}
  OBVIOUS
<1>2. T \in SUBSET Nat /\ T # {}
  <2>1. \A x \in S : n - x \in Nat
    OBVIOUS
  <2>. QED  BY <1>1, <2>1
<1>3. PICK t \in T : \A u \in T : t <= u
  BY <1>2, HasLeast
<1>4. PICK x \in S : t = n - x
  BY <1>1, <1>3
<1>5. \A y \in S : n - y \in T
  BY <1>1
<1>6. \A y \in S : n - x <= n - y
  BY <1>3, <1>4, <1>5
<1>. QED  BY <1>6

LEMMA OlderFacts ==
  ASSUME NEW S \in SUBSET Nat, IsFiniteSet(S), NEW c
  PROVE  /\ IsFiniteSet({d \in S : d < c})
         /\ Older(S, c) \in Nat /\ Older(S, c) <= Cardinality(S)
         /\ Cardinality(S) \in Nat
<1>1. {d \in S : d < c} \in SUBSET S
  OBVIOUS
<1>2. /\ IsFiniteSet({d \in S : d < c})
      /\ Cardinality({d \in S : d < c}) <= Cardinality(S)
  BY <1>1, FS_Subset
<1>. QED  BY <1>2, FS_CardinalityType DEF Older

(* Of two commits the later one has more before it.                           *)
LEMMA OlderGrows ==
  ASSUME NEW S \in SUBSET Nat, IsFiniteSet(S), NEW c \in S, NEW d \in S, c < d
  PROVE  Older(S, c) < Older(S, d)
<1>1. PICK A, B : A = {e \in S : e < c} /\ B = {e \in S : e < d}
  OBVIOUS
<1>2. IsFiniteSet(B) /\ A \in SUBSET B /\ A # B
  <2>1. IsFiniteSet(B)
    BY <1>1, OlderFacts
  <2>2. \A e \in S : e \in Nat
    OBVIOUS
  <2>3. A \in SUBSET B
    <3>1. ASSUME NEW e \in S, e < c PROVE e < d
      <4>1. e \in Nat /\ c \in Nat /\ d \in Nat
        BY <2>2
      <4>. QED  BY <3>1, <4>1
    <3>. QED  BY <1>1, <3>1
  <2>4. c \in B /\ c \notin A
    BY <1>1, <2>2
  <2>. QED  BY <2>1, <2>3, <2>4
<1>3. Cardinality(A) <= Cardinality(B) /\ Cardinality(A) # Cardinality(B)
  BY <1>2, FS_Subset
<1>4. Cardinality(A) \in Nat /\ Cardinality(B) \in Nat
  BY <1>2, FS_Subset, FS_CardinalityType
<1>5. Older(S, c) = Cardinality(A) /\ Older(S, d) = Cardinality(B)
  BY <1>1 DEF Older
<1>. QED  BY <1>3, <1>4, <1>5

(* ZREMRANGEBYRANK removes as many as it was told, at most.                    *)
LEMMA OldestSize ==
  ASSUME NEW S \in SUBSET Nat, IsFiniteSet(S), NEW n \in Nat
  PROVE  /\ IsFiniteSet(Oldest(S, n)) /\ Oldest(S, n) \subseteq S
         /\ Cardinality(Oldest(S, n)) <= n
<1>1. PICK O, f : O = Oldest(S, n) /\ f = [c \in O |-> Older(S, c)]
  OBVIOUS
<1>2. \A c \in O : c \in S /\ c \in Nat /\ Older(S, c) \in 0..(n - 1)
  <2>. SUFFICES ASSUME NEW c \in O
                PROVE  c \in S /\ c \in Nat /\ Older(S, c) \in 0..(n - 1)
    OBVIOUS
  <2>1. c \in S /\ Older(S, c) < n
    BY <1>1 DEF Oldest
  <2>2. c \in Nat /\ Older(S, c) \in Nat
    BY <2>1, OlderFacts
  <2>. QED  BY <2>1, <2>2
<1>3. \A c, d \in O : f[c] = f[d] => c = d
  <2>. SUFFICES ASSUME NEW c \in O, NEW d \in O, Older(S, c) = Older(S, d)
                PROVE  c = d
    BY <1>1
  <2>1. ~(c < d) /\ ~(d < c)
    <3>1. ASSUME c < d PROVE FALSE
      BY <1>2, <3>1, OlderGrows, OlderFacts
    <3>2. ASSUME d < c PROVE FALSE
      BY <1>2, <3>2, OlderGrows, OlderFacts
    <3>. QED  BY <3>1, <3>2
  <2>. QED  BY <1>2, <2>1
<1>4. f \in Injection(O, 0..(n - 1))
  <2>1. f \in [O -> 0..(n - 1)]
    BY <1>1, <1>2
  <2>. QED  BY <1>3, <2>1 DEF Injection, IsInjective
<1>5. IsFiniteSet(0..(n - 1)) /\ Cardinality(0..(n - 1)) = n
  BY FS_Interval
<1>6. IsFiniteSet(O) /\ Cardinality(O) <= n
  BY <1>4, <1>5, FS_Injection
<1>. QED  BY <1>1, <1>2, <1>6

LEMMA LeastIsOldest ==
  ASSUME NEW S \in SUBSET Nat, IsFiniteSet(S), NEW n \in Nat \ {0},
         NEW x \in S, \A y \in S : x <= y
  PROVE  x \in Oldest(S, n)
<1>0. \A d \in S : d \in Nat
  OBVIOUS
<1>1. {d \in S : d < x} = {}
  <2>1. ASSUME NEW d \in S PROVE ~(d < x)
    <3>1. d \in Nat /\ x \in Nat /\ x <= d
      BY <1>0
    <3>. QED  BY <3>1
  <2>. QED  BY <2>1
<1>2. Older(S, x) = 0
  BY <1>1, FS_EmptySet DEF Older
<1>. QED  BY <1>2 DEF Oldest

LEMMA GreatestStays ==
  ASSUME NEW S \in SUBSET Nat, IsFiniteSet(S), NEW n \in Int, n < Cardinality(S),
         NEW x \in S, \A y \in S : y <= x
  PROVE  x \notin Oldest(S, n)
<1>0. \A d \in S : d \in Nat
  OBVIOUS
<1>1. {d \in S : d < x} = S \ {x}
  <2>1. ASSUME NEW d \in S PROVE d < x <=> d # x
    <3>1. d \in Nat /\ x \in Nat /\ d <= x
      BY <1>0
    <3>. QED  BY <3>1
  <2>. QED  BY <2>1
<1>2. Older(S, x) = Cardinality(S) - 1
  BY <1>1, FS_RemoveElement DEF Older
<1>3. Cardinality(S) \in Nat
  BY FS_CardinalityType
<1>. QED  BY <1>2, <1>3 DEF Oldest

-------------------------------------------------------------------------------
(* Types.                                                                     *)

Points == {"idle", "average", "store", "ask", "attempt", "push", "trim", "decided",
           "count", "cut"}
Samples == [p95 : Nat, n : Nat]
Tasks == [at : Points, p95 : Nat, base : Samples, tries : 0..Retries, a : Answers,
          b : Answers, verdict : Verdicts, count : Nat]

TypeInv ==
  /\ council \in BOOLEAN
  /\ ops \in 0..MaxOps
  /\ baseline \in Samples
  /\ history \in Seq(Nat)
  /\ turns \in Nat
  /\ commits \subseteq known /\ known \subseteq 1..(MaxCommits + MaxOps)
  /\ peak \in 1..Cardinality(Workers) \cup {1} /\ failed \in Nat
  /\ task \in [Workers -> Tasks]
  /\ \A w \in Workers : task[w].at = "attempt" => task[w].tries < Retries

LEMMA ConstantFacts ==
  /\ IsFiniteSet(Workers) /\ Latencies \subseteq Nat /\ Confidences \subseteq 0..10
  /\ Retries \in Nat /\ Retries > 0 /\ MaxHistory \in Nat /\ MaxHistory > 0
  /\ MaxCommits \in Nat /\ MaxCommits > 0 /\ Shown \in Nat /\ Shown > 0
  /\ Window \in Nat /\ Slack \in Nat /\ MaxOps \in Nat
BY DiagnosisAssumption

LEMMA IdleFacts ==
  /\ Silence \in Verdicts /\ Blank \in Samples /\ Blank.n = 0 /\ Idle \in Tasks
  /\ Idle.at = "idle" /\ Idle.tries = 0
<1>1. Silence \in Verdicts
  BY DEF Silence, Verdicts, Actions
<1>2. Blank \in Samples /\ Blank.n = 0
  BY DEF Blank, Samples
<1>3. None \in Answers /\ 0 \in 0..Retries
  BY ConstantFacts DEF Answers
<1>4. Idle \in Tasks
  BY <1>1, <1>2, <1>3 DEF Idle, Tasks, Points, Blank
<1>. QED  BY <1>1, <1>2, <1>4 DEF Idle

(* Whatever the models answer, the council has a verdict.                     *)
LEMMA VerdictType ==
  ASSUME NEW a \in Answers, NEW b \in Answers
  PROVE  Verdict(a, b) \in Verdicts
<1>1. ASSUME NEW c \in Diagnoses, NEW d \in Diagnoses
      PROVE  Both(c, d) \in Verdicts
  <2>1. c.confidence \in 0..10 /\ d.confidence \in 0..10
    BY ConstantFacts DEF Diagnoses
  <2>2. Lower(c, d) \in 0..10 /\ Upper(c, d) \in 0..10
    BY <2>1 DEF Lower, Upper
  <2>3. \A n \in 0..10 : Agreed(n) \in Verdicts
    BY DEF Agreed, Verdicts, Actions
  <2>. QED  BY <2>2, <2>3 DEF Both, Consensus, Verdicts, Actions
<1>2. Silence \in Verdicts
  BY IdleFacts
<1>. QED  BY <1>1, <1>2 DEF Verdict, Answers

(* The council's verdict is heeded: it validates exactly if one is sure.       *)
LEMMA VerdictHeeds ==
  ASSUME NEW a \in Answers, NEW b \in Answers
  PROVE  Verdict(a, b).action = "validate" <=> Sure(a) \/ Sure(b)
<1>1. ASSUME NEW c \in Diagnoses, NEW d \in Diagnoses
      PROVE  Both(c, d).action = "validate" <=> c.confidence >= 6 \/ d.confidence >= 6
  <2>1. c.confidence \in 0..10 /\ d.confidence \in 0..10
    BY ConstantFacts DEF Diagnoses
  <2>2. Upper(c, d) >= 6 <=> c.confidence >= 6 \/ d.confidence >= 6
    BY <2>1 DEF Upper
  <2>3. Upper(c, d) \in 0..10
    BY <2>1 DEF Upper
  <2>4. Consensus(c, d).action = "validate" <=> Upper(c, d) >= 6
    BY <2>3 DEF Consensus, Agreed
  <2>5. CASE Diverge(c, d)
    BY <2>1, <2>5 DEF Both, Diverge
  <2>6. CASE ~Diverge(c, d)
    BY <2>2, <2>4, <2>6 DEF Both
  <2>. QED  BY <2>5, <2>6
<1>2. Silence.action # "validate"
  BY DEF Silence
<1>3. CASE a = None /\ b = None
  BY <1>2, <1>3 DEF Verdict, Sure
<1>4. CASE a = None /\ b # None
  BY <1>1, <1>4 DEF Verdict, Sure, Answers
<1>5. CASE a # None /\ b = None
  BY <1>1, <1>5 DEF Verdict, Sure, Answers
<1>6. CASE a # None /\ b # None
  BY <1>1, <1>6 DEF Verdict, Sure, Answers
<1>. QED  BY <1>3, <1>4, <1>5, <1>6

-------------------------------------------------------------------------------
(* The steps keep the types.                                                  *)

LEMMA TaskFacts ==
  ASSUME TypeInv, NEW w \in Workers
  PROVE  /\ task[w] \in Tasks /\ task \in [Workers -> Tasks]
         /\ \A v \in Workers : task[v].at = "attempt" => task[v].tries < Retries
         /\ council \in BOOLEAN /\ ops \in Nat /\ ops <= MaxOps
         /\ baseline \in Samples /\ history \in Seq(Nat) /\ turns \in Nat
BY ConstantFacts DEF TypeInv

LEMMA CommitFacts ==
  ASSUME TypeInv
  PROVE  /\ commits \in SUBSET Nat /\ known \in SUBSET (0..(MaxCommits + MaxOps))
         /\ commits \subseteq known
         /\ IsFiniteSet(commits) /\ IsFiniteSet(known) /\ Cardinality(commits) \in Nat
<1>1. commits \subseteq known /\ known \subseteq 1..(MaxCommits + MaxOps)
  BY DEF TypeInv
<1>2. IsFiniteSet(1..(MaxCommits + MaxOps))
  BY ConstantFacts, FS_Interval
<1>3. known \in SUBSET (1..(MaxCommits + MaxOps)) /\ commits \in SUBSET known
  BY <1>1
<1>4. IsFiniteSet(known)
  BY <1>2, <1>3, FS_Subset
<1>5. IsFiniteSet(commits)
  BY <1>3, <1>4, FS_Subset
<1>6. known \in SUBSET (0..(MaxCommits + MaxOps)) /\ commits \in SUBSET Nat
  BY <1>1, ConstantFacts
<1>. QED  BY <1>1, <1>4, <1>5, <1>6, FS_CardinalityType

LEMMA TaskMoves ==
  ASSUME TypeInv, NEW w \in Workers, NEW x \in Tasks, task' = [task EXCEPT ![w] = x],
         x.at = "attempt" => x.tries < Retries
  PROVE  /\ task' \in [Workers -> Tasks] /\ task'[w] = x
         /\ \A v \in Workers : v # w => task'[v] = task[v]
         /\ \A v \in Workers : task'[v].at = "attempt" => task'[v].tries < Retries
BY DEF TypeInv

LEMMA AveragedType ==
  ASSUME NEW base \in Samples, NEW p95 \in Nat
  PROVE  Averaged(base, p95) \in Samples /\ Averaged(base, p95).n = base.n + 1
<1>1. base.p95 \in Nat /\ base.n \in Nat
  BY DEF Samples
<1>2. (7 * base.p95 + 3 * p95) \div 10 \in Nat
  BY <1>1
<1>. QED  BY <1>1, <1>2 DEF Averaged, Samples

LEMMA LeastOfTwo ==
  ASSUME NEW m \in Int, NEW n \in Int
  PROVE  Min({m, n}) = IF m <= n THEN m ELSE n
<1>1. \E x \in {m, n} : \A y \in {m, n} : x <= y
  OBVIOUS
<1>2. Min({m, n}) \in {m, n} /\ \A y \in {m, n} : Min({m, n}) <= y
  BY <1>1 DEF Min
<1>. QED  BY <1>2

(* LTRIM keeps the newest of a list.                                          *)
LEMMA TrimmedFacts ==
  ASSUME NEW list \in Seq(Nat), NEW n \in Nat \ {0}
  PROVE  /\ Trimmed(list, n) \in Seq(Nat)
         /\ Len(Trimmed(list, n)) <= Len(list)
         /\ \A i \in 1..Len(Trimmed(list, n)) : Trimmed(list, n)[i] = list[i]
<1>1. PICK m : m = Min({n, Len(list)})
  OBVIOUS
<1>2. Len(list) \in Nat
  OBVIOUS
<1>3. m \in 0..Len(list)
  BY <1>1, <1>2, LeastOfTwo
<1>4. Trimmed(list, n) = SubSeq(list, 1, m)
  BY <1>1 DEF Trimmed
<1>5. \A i \in 1..m : list[i] \in Nat
  BY <1>2, <1>3
<1>6. SubSeq(list, 1, m) \in Seq(Nat) /\ Len(SubSeq(list, 1, m)) = m
      /\ \A i \in 1..m : SubSeq(list, 1, m)[i] = list[i]
  BY <1>2, <1>3, <1>5
<1>. QED  BY <1>2, <1>3, <1>4, <1>6

(* LPUSH puts the new turn before the others.                                 *)
LEMMA PushedFacts ==
  ASSUME NEW list \in Seq(Nat), NEW t \in Nat
  PROVE  /\ <<t>> \o list \in Seq(Nat)
         /\ Len(<<t>> \o list) = Len(list) + 1
         /\ (<<t>> \o list)[1] = t
         /\ \A i \in 1..Len(list) : (<<t>> \o list)[i + 1] = list[i]
OBVIOUS

(* The task of w goes on as x: what each step does to the task and the keys.  *)
Keys == <<baseline, history, turns, commitVars>>
Healthy(r, x) ==    \* PollHealthy, ReadBaseline
  /\ UNCHANGED Keys
  /\ \/ r.at = "idle" /\ ops' = ops + 1 /\ x.at = "average" /\ x.p95 \in Latencies
     \/ /\ r.at = "average" /\ ops' = ops /\ x.at = "store" /\ x.p95 = r.p95
        /\ x.base \in {baseline, Blank}
Stores(r, x) ==    \* WriteBaseline
  /\ r.at = "store" /\ x.at = "idle" /\ ops' = ops
  /\ baseline' \in {baseline, Averaged(r.base, r.p95)}
  /\ UNCHANGED <<history, turns, commitVars>>
Decides(r, x) ==    \* PollIncident, Gather, Attempt, Decided
  /\ UNCHANGED Keys
  /\ \/ r.at = "idle" /\ ops' = ops + 1 /\ x.at = IF council THEN "ask" ELSE "attempt"
     \/ /\ r.at = "ask" /\ ops' = ops /\ x.at = "decided"
        /\ x.verdict = Verdict(x.a, x.b)
     \/ r.at = "attempt" /\ ops' = ops /\ x.at \in {"attempt", "push", "decided"}
     \/ r.at = "decided" /\ ops' = ops /\ x.at = "idle"
Remembers(r, x) ==    \* PushTurn, TrimTurns
  /\ UNCHANGED <<ops, baseline, commitVars>>
  /\ \/ r.at = "push" /\ x.at = "trim" /\ turns' = turns + 1 /\ history' = <<turns + 1>> \o history
     \/ r.at = "push" /\ x.at = "decided" /\ UNCHANGED <<turns, history>>
     \/ /\ r.at = "trim" /\ x.at = "decided" /\ turns' = turns
        /\ history' \in {history, Trimmed(history, MaxHistory)}
Commits(r, x) ==    \* StoreCommit, CountCommits, CutCommits, FailPush
  /\ UNCHANGED <<baseline, history, turns>>
  /\ \/ /\ r.at = "idle" /\ ops' = ops + 1 /\ x.at = "count"
        /\ \E c \in 1..(MaxCommits + MaxOps) :
             c \notin known /\ commits' = commits \cup {c} /\ known' = known \cup {c}
        /\ peak' = Max({peak, Cardinality(Pushing) + 1}) /\ failed' = failed
     \/ /\ r.at = "count" /\ UNCHANGED <<ops, commitVars>>
        /\ IF Cardinality(commits) > MaxCommits
           THEN x.at = "cut" /\ x.count = Cardinality(commits)
           ELSE x.at = "idle"
     \/ /\ r.at = "cut" /\ x.at = "idle" /\ UNCHANGED <<ops, known, peak, failed>>
        /\ commits' = commits \ Oldest(commits, Excess(r.count))
     \/ /\ r.at \in {"count", "cut"} /\ x.at = "idle" /\ UNCHANGED <<ops, commits, known, peak>>
        /\ failed' = failed + 1

Goes(w, x) ==
  /\ x \in Tasks /\ (x.at = "attempt" => x.tries < Retries)
  /\ task' = [task EXCEPT ![w] = x]
  /\ council' = council /\ ops' <= MaxOps
  /\ \/ Healthy(task[w], x) \/ Stores(task[w], x) \/ Decides(task[w], x)
     \/ Remembers(task[w], x) \/ Commits(task[w], x)

(* What StoreCommit makes of the peak.                                        *)
LEMMA MaxOfTwo ==
  ASSUME NEW a \in Nat, NEW b \in Nat
  PROVE  Max({a, b}) \in {a, b} /\ a <= Max({a, b}) /\ b <= Max({a, b})
<1>1. \E x \in {a, b} : \A y \in {a, b} : x >= y
  OBVIOUS
<1>. QED  BY <1>1 DEF Max

LEMMA PeakGrows ==
  ASSUME TypeInv, NEW w \in Workers, task[w].at = "idle"
  PROVE  Max({peak, Cardinality(Pushing) + 1}) \in 1..Cardinality(Workers) \cup {1}
<1>1. Pushing \in SUBSET (Workers \ {w})
  BY DEF Pushing
<1>2. IsFiniteSet(Workers \ {w}) /\ Cardinality(Workers \ {w}) = Cardinality(Workers) - 1
  BY ConstantFacts, FS_RemoveElement
<1>3. IsFiniteSet(Pushing) /\ Cardinality(Pushing) <= Cardinality(Workers) - 1
  BY <1>1, <1>2, FS_Subset
<1>4. Cardinality(Pushing) \in Nat /\ Cardinality(Workers) \in Nat
  BY <1>3, ConstantFacts, FS_CardinalityType
<1>5. peak \in Nat /\ peak \in 1..Cardinality(Workers) \cup {1}
  BY <1>4 DEF TypeInv
<1>6. Cardinality(Pushing) + 1 \in 1..Cardinality(Workers)
  BY <1>3, <1>4
<1>7. Max({peak, Cardinality(Pushing) + 1}) \in {peak, Cardinality(Pushing) + 1}
  BY <1>4, <1>5, MaxOfTwo
<1>. QED  BY <1>5, <1>6, <1>7

(* Every field of a task that is changed keeps its type.                      *)
LEMMA TaskEdits ==
  ASSUME NEW r \in Tasks, NEW at \in Points
  PROVE  /\ [r EXCEPT !.at = at] \in Tasks
         /\ [r EXCEPT !.at = at].at = at
         /\ [r EXCEPT !.at = at].p95 = r.p95
         /\ [r EXCEPT !.at = at].tries = r.tries
BY DEF Tasks

LEMMA PollGoes ==
  ASSUME TypeInv, NEW w \in Workers,
         (\E p95 \in Latencies : PollHealthy(w, p95)) \/ PollIncident(w)
  PROVE  \E x : Goes(w, x)
<1>0. task[w].at = "idle" /\ ops' = ops + 1 /\ ops' <= MaxOps
  <2>1. task[w].at = "idle" /\ ops' = ops + 1 /\ ops < MaxOps
    BY DEF PollHealthy, PollIncident, Begin, At
  <2>. QED  BY <2>1, TaskFacts, ConstantFacts
<1>1. ASSUME NEW p95 \in Latencies, PollHealthy(w, p95)
      PROVE  \E x : Goes(w, x)
  <2>1. PICK x : x = [Idle EXCEPT !.at = "average", !.p95 = p95]
    OBVIOUS
  <2>2. x \in Tasks /\ x.at = "average" /\ x.p95 = p95
    BY <2>1, IdleFacts, ConstantFacts DEF Tasks, Points
  <2>. QED  BY <1>0, <1>1, <2>1, <2>2 DEF PollHealthy, Begin, Goes, Healthy, Keys
<1>2. ASSUME PollIncident(w)
      PROVE  \E x : Goes(w, x)
  <2>1. PICK at : at = IF council THEN "ask" ELSE "attempt"
    OBVIOUS
  <2>2. PICK x : x = [Idle EXCEPT !.at = at]
    OBVIOUS
  <2>3. x \in Tasks /\ x.at = at /\ x.tries = 0
    <3>1. at \in Points
      BY <2>1 DEF Points
    <3>. QED  BY <2>2, <3>1, IdleFacts, TaskEdits
  <2>. QED
    BY <1>0, <1>2, <2>1, <2>2, <2>3, ConstantFacts DEF PollIncident, Begin, Goes, Decides, Keys
<1>. QED  BY <1>1, <1>2

LEMMA BaselineGoes ==
  ASSUME TypeInv, NEW w \in Workers, ReadBaseline(w) \/ WriteBaseline(w)
  PROVE  \E x : Goes(w, x)
<1>1. CASE ReadBaseline(w)
  <2>1. PICK read \in {baseline, Blank} :
          task' = [task EXCEPT ![w] = [task[w] EXCEPT !.at = "store", !.base = read]]
    BY <1>1, TaskFacts DEF ReadBaseline
  <2>2. PICK r, x : r = task[w] /\ x = [r EXCEPT !.at = "store", !.base = read]
    OBVIOUS
  <2>3. r \in Tasks /\ read \in Samples
    BY <2>2, TaskFacts, IdleFacts
  <2>4. x \in Tasks /\ x.at = "store" /\ x.p95 = r.p95 /\ x.base = read
    BY <2>2, <2>3 DEF Tasks, Points
  <2>9. Goes(w, x)
    BY <1>1, <2>1, <2>2, <2>4, TaskFacts DEF ReadBaseline, At, Goes, Healthy, Keys
  <2>. QED  BY <2>9
<1>2. CASE WriteBaseline(w)
  <2>1. Goes(w, Idle)
    BY <1>2, TaskFacts, IdleFacts DEF WriteBaseline, At, Done, Goes, Stores
  <2>. QED  BY <2>1
<1>. QED  BY <1>1, <1>2

LEMMA DecideGoes ==
  ASSUME TypeInv, NEW w \in Workers,
         \/ \E a, b \in Answers : Gather(w, a, b)
         \/ \E action \in Actions \cup {None} : Attempt(w, action)
         \/ Decided(w)
  PROVE  \E x : Goes(w, x)
<1>0. PICK r : r = task[w]
  OBVIOUS
<1>1. ASSUME NEW a \in Answers, NEW b \in Answers, Gather(w, a, b)
      PROVE  \E x : Goes(w, x)
  <2>1. PICK v, x : v = Verdict(a, b)
                    /\ x = [r EXCEPT !.at = "decided", !.a = a, !.b = b, !.verdict = v]
    OBVIOUS
  <2>2. r \in Tasks /\ v \in Verdicts
    BY <1>0, <2>1, TaskFacts, VerdictType
  <2>3. x \in Tasks /\ x.at = "decided" /\ x.a = a /\ x.b = b /\ x.verdict = v
    BY <2>1, <2>2 DEF Tasks, Points
  <2>4. task' = [task EXCEPT ![w] = x]
    BY <1>0, <1>1, <2>1, TaskFacts DEF Gather
  <2>9. Goes(w, x)
    BY <1>0, <1>1, <2>1, <2>3, <2>4, TaskFacts, ConstantFacts DEF Gather, At, Goes, Decides, Keys
  <2>. QED  BY <2>9
<1>2. ASSUME NEW action \in Actions \cup {None}, Attempt(w, action)
      PROVE  \E x : Goes(w, x)
  <2>1. PICK t, v : /\ t = r.tries + 1
                    /\ v = [mode |-> "fallback", action |-> action, confidence |-> 10]
    OBVIOUS
  <2>2. PICK x : x = IF action # None
                     THEN [r EXCEPT !.at = "push", !.tries = t, !.verdict = v]
                     ELSE IF t < Retries THEN [r EXCEPT !.tries = t]
                     ELSE [Idle EXCEPT !.at = "decided"]
    OBVIOUS
  <2>3. task' = [task EXCEPT ![w] = x] /\ r.at = "attempt"
    BY <1>0, <1>2, <2>1, <2>2, TaskFacts DEF Attempt, At
  <2>4. r \in Tasks /\ r.tries < Retries /\ t \in 0..Retries
    <3>1. r \in Tasks /\ r.tries < Retries
      BY <1>0, <2>3, TaskFacts
    <3>2. r.tries \in 0..Retries
      BY <3>1 DEF Tasks
    <3>. QED  BY <2>1, <3>1, <3>2, ConstantFacts
  <2>5. x \in Tasks /\ x.at \in {"attempt", "push", "decided"} /\ (x.at = "attempt" => x.tries < Retries)
    <3>1. CASE action # None
      <4>1. v \in Verdicts
        BY <2>1, <3>1 DEF Verdicts
      <4>2. x = [r EXCEPT !.at = "push", !.tries = t, !.verdict = v]
        BY <2>2, <3>1
      <4>. QED  BY <2>4, <4>1, <4>2 DEF Tasks, Points
    <3>2. CASE action = None /\ t < Retries
      <4>1. x = [r EXCEPT !.tries = t]
        BY <2>2, <3>2
      <4>. QED  BY <2>3, <2>4, <3>2, <4>1 DEF Tasks
    <3>3. CASE action = None /\ ~(t < Retries)
      <4>1. x = [Idle EXCEPT !.at = "decided"]
        BY <2>2, <3>3
      <4>. QED  BY <4>1, IdleFacts, TaskEdits DEF Points
    <3>. QED  BY <3>1, <3>2, <3>3
  <2>9. Goes(w, x)
    BY <1>0, <1>2, <2>3, <2>5, TaskFacts, ConstantFacts DEF Attempt, Goes, Decides, Keys
  <2>. QED  BY <2>9
<1>3. ASSUME Decided(w)
      PROVE  \E x : Goes(w, x)
  <2>1. Goes(w, Idle)
    BY <1>3, TaskFacts, IdleFacts DEF Decided, At, Done, Goes, Decides, Keys
  <2>. QED  BY <2>1
<1>. QED  BY <1>1, <1>2, <1>3

LEMMA TurnGoes ==
  ASSUME TypeInv, NEW w \in Workers, PushTurn(w) \/ TrimTurns(w)
  PROVE  \E x : Goes(w, x)
<1>1. PICK r, t, d : /\ r = task[w]
                     /\ t = [r EXCEPT !.at = "trim"]
                     /\ d = [r EXCEPT !.at = "decided"]
  OBVIOUS
<1>2. r \in Tasks
  BY <1>1, TaskFacts
<1>3. t \in Tasks /\ t.at = "trim" /\ d \in Tasks /\ d.at = "decided"
  BY <1>1, <1>2, TaskEdits DEF Points
<1>4. CASE PushTurn(w)
  <2>1. \/ /\ turns' = turns + 1 /\ history' = <<turns + 1>> \o history
           /\ task' = [task EXCEPT ![w] = t]
        \/ task' = [task EXCEPT ![w] = d] /\ UNCHANGED <<turns, history>>
    BY <1>1, <1>4, TaskFacts DEF PushTurn, Goto
  <2>2. Goes(w, t) \/ Goes(w, d)
    BY <1>1, <1>3, <1>4, <2>1, TaskFacts DEF PushTurn, At, Goes, Remembers
  <2>. QED  BY <2>2
<1>5. CASE TrimTurns(w)
  <2>1. task' = [task EXCEPT ![w] = d]
    BY <1>1, <1>5, TaskFacts DEF TrimTurns, Goto
  <2>2. Goes(w, d)
    BY <1>1, <1>3, <1>5, <2>1, TaskFacts DEF TrimTurns, At, Goes, Remembers
  <2>. QED  BY <2>2
<1>. QED  BY <1>4, <1>5

LEMMA PushGoes ==
  ASSUME TypeInv, NEW w \in Workers,
         \/ \E c \in 1..(MaxCommits + MaxOps) : StoreCommit(w, c)
         \/ CountCommits(w) \/ CutCommits(w) \/ FailPush(w)
  PROVE  \E x : Goes(w, x)
<1>0. PICK r, n, i : r = task[w] /\ n = Cardinality(commits) /\ i = Idle
  OBVIOUS
<1>1. r \in Tasks /\ n \in Nat /\ i \in Tasks /\ i.at = "idle"
  BY <1>0, TaskFacts, CommitFacts, IdleFacts
<1>2. ASSUME NEW c \in 1..(MaxCommits + MaxOps), StoreCommit(w, c)
      PROVE  \E x : Goes(w, x)
  <2>1. PICK x : x = [Idle EXCEPT !.at = "count"]
    OBVIOUS
  <2>2. x \in Tasks /\ x.at = "count"
    BY <2>1, IdleFacts, TaskEdits DEF Points
  <2>3. task[w].at = "idle" /\ ops < MaxOps /\ ops' = ops + 1 /\ task' = [task EXCEPT ![w] = x]
    BY <1>2, <2>1 DEF StoreCommit, Begin, At
  <2>4. ops' <= MaxOps
    BY <2>3, TaskFacts, ConstantFacts
  <2>5. Commits(task[w], x)
    BY <1>2, <2>2, <2>3 DEF StoreCommit, Commits
  <2>6. council' = council
    BY <1>2 DEF StoreCommit
  <2>7. Goes(w, x)
    BY <2>2, <2>3, <2>4, <2>5, <2>6 DEF Goes
  <2>. QED  BY <2>7
<1>3. CASE CountCommits(w)
  <2>1. PICK x : x = IF n > MaxCommits THEN [r EXCEPT !.at = "cut", !.count = n] ELSE i
    OBVIOUS
  <2>2. /\ x \in Tasks
        /\ IF n > MaxCommits THEN x.at = "cut" /\ x.count = n ELSE x.at = "idle"
    BY <1>1, <2>1 DEF Tasks, Points
  <2>3. task' = [task EXCEPT ![w] = x] /\ task[w].at = "count"
        /\ UNCHANGED <<council, ops, baseline, history, turns, commitVars>>
    BY <1>0, <1>3, <2>1, TaskFacts DEF CountCommits, At
  <2>4. Commits(task[w], x)
    BY <1>0, <2>2, <2>3 DEF Commits
  <2>5. Goes(w, x)
    BY <2>2, <2>3, <2>4, TaskFacts DEF Goes
  <2>. QED  BY <2>5
<1>4. CASE CutCommits(w)
  <2>1. Goes(w, Idle)
    BY <1>4, TaskFacts, IdleFacts DEF CutCommits, At, Done, Goes, Commits
  <2>. QED  BY <2>1
<1>5. CASE FailPush(w)
  <2>1. task[w].at \in {"count", "cut"}
    BY <1>5 DEF FailPush, Pushing
  <2>2. Goes(w, Idle)
    BY <1>5, <2>1, TaskFacts, IdleFacts DEF FailPush, Done, Goes, Commits
  <2>. QED  BY <2>2
<1>. QED  BY <1>2, <1>3, <1>4, <1>5

LEMMA StepCases ==
  ASSUME TypeInv, [Next]_vars
  PROVE  \/ \E w \in Workers : \E x : Goes(w, x)
         \/ Expire
         \/ UNCHANGED vars
<1>1. ASSUME NEW w \in Workers,
             \/ \E p95 \in Latencies : PollHealthy(w, p95)
             \/ PollIncident(w)
             \/ \E c \in 1..(MaxCommits + MaxOps) : StoreCommit(w, c)
             \/ Work(w)
      PROVE  \E x : Goes(w, x)
  BY <1>1, PollGoes, BaselineGoes, DecideGoes, TurnGoes, PushGoes DEF Work
<1>. QED  BY <1>1 DEF Next

LEMMA InitTypeInv == Init => TypeInv
<1>. SUFFICES ASSUME Init PROVE TypeInv
  OBVIOUS
<1>1. PICK n \in 0..MaxCommits : known = 1..n
  BY DEF Init
<1>2. known \subseteq 1..(MaxCommits + MaxOps)
  BY <1>1, ConstantFacts
<1>3. task \in [Workers -> Tasks] /\ \A w \in Workers : task[w].at # "attempt"
  BY IdleFacts DEF Init
<1>. QED  BY <1>2, <1>3, IdleFacts, ConstantFacts DEF Init, TypeInv

LEMMA NextTypeInv ==
  ASSUME TypeInv, [Next]_vars
  PROVE  TypeInv'
<1>1. ASSUME NEW w \in Workers, NEW x, Goes(w, x)
      PROVE  TypeInv'
  <2>1. PICK r : r = task[w]
    OBVIOUS
  <2>2. /\ r \in Tasks /\ x \in Tasks
        /\ task' \in [Workers -> Tasks]
        /\ \A v \in Workers : task'[v].at = "attempt" => task'[v].tries < Retries
    BY <1>1, <2>1, TaskFacts, TaskMoves DEF Goes
  <2>3. council' \in BOOLEAN /\ ops' \in 0..MaxOps
    BY <1>1, TaskFacts, ConstantFacts DEF Goes, Healthy, Stores, Decides, Remembers, Commits
  <2>4. baseline' \in Samples
    <3>1. r.base \in Samples /\ r.p95 \in Nat
      BY <2>2 DEF Tasks
    <3>2. Averaged(r.base, r.p95) \in Samples
      BY <3>1, AveragedType
    <3>. QED  BY <1>1, <2>1, <3>2, TaskFacts
              DEF Goes, Healthy, Stores, Decides, Remembers, Commits, Keys
  <2>5. history' \in Seq(Nat) /\ turns' \in Nat
    <3>1. <<turns + 1>> \o history \in Seq(Nat) /\ turns + 1 \in Nat
      BY TaskFacts, PushedFacts
    <3>2. Trimmed(history, MaxHistory) \in Seq(Nat)
      BY TaskFacts, ConstantFacts, TrimmedFacts
    <3>. QED  BY <1>1, <3>1, <3>2, TaskFacts
              DEF Goes, Healthy, Stores, Decides, Remembers, Commits, Keys
  <2>6. /\ commits' \subseteq known' /\ known' \subseteq 1..(MaxCommits + MaxOps)
        /\ peak' \in 1..Cardinality(Workers) \cup {1} /\ failed' \in Nat
    <3>1. /\ commits \subseteq known /\ known \subseteq 1..(MaxCommits + MaxOps)
          /\ peak \in 1..Cardinality(Workers) \cup {1} /\ failed \in Nat
      BY DEF TypeInv
    <3>2. \/ UNCHANGED commitVars
          \/ Commits(task[w], x)
      BY <1>1 DEF Goes, Healthy, Stores, Decides, Remembers, Keys
    <3>3. task[w].at = "idle" => Max({peak, Cardinality(Pushing) + 1}) \in 1..Cardinality(Workers) \cup {1}
      BY <3>1, PeakGrows
    <3>. QED  BY <3>1, <3>2, <3>3 DEF Commits, commitVars
  <2>. QED  BY <2>2, <2>3, <2>4, <2>5, <2>6 DEF TypeInv
<1>2. CASE Expire
  <2>1. <<>> \in Seq(Nat) /\ {} \subseteq {} /\ {} \subseteq 1..(MaxCommits + MaxOps)
    OBVIOUS
  <2>2. /\ baseline' \in {baseline, Blank}
        /\ \/ UNCHANGED <<history, turns>>
           \/ history' = <<>> /\ turns' = 0
        /\ \/ UNCHANGED commitVars
           \/ commits' = {} /\ known' = {} /\ peak' = 1 /\ failed' = 0
        /\ UNCHANGED <<council, ops, task>>
    BY <1>2 DEF Expire
  <2>3. baseline' \in Samples /\ history' \in Seq(Nat) /\ turns' \in Nat
    BY <2>1, <2>2, IdleFacts, 0 \in Nat DEF TypeInv
  <2>4. /\ commits' \subseteq known' /\ known' \subseteq 1..(MaxCommits + MaxOps)
        /\ peak' \in 1..Cardinality(Workers) \cup {1} /\ failed' \in Nat
    <3>1. CASE UNCHANGED commitVars
      BY <3>1 DEF TypeInv, commitVars
    <3>2. CASE commits' = {} /\ known' = {} /\ peak' = 1 /\ failed' = 0
      BY <3>2
    <3>. QED  BY <2>2, <3>1, <3>2
  <2>. QED  BY <2>2, <2>3, <2>4 DEF TypeInv
<1>3. CASE UNCHANGED vars
  BY <1>3 DEF TypeInv, vars
<1>. QED  BY <1>1, <1>2, <1>3, StepCases

LEMMA TypeInvAlways == Spec => []TypeInv
BY InitTypeInv, NextTypeInv, PTL DEF Spec

-------------------------------------------------------------------------------
(* How many tasks are at some points.                                         *)

In(P) == {v \in Workers : task[v].at \in P}

LEMMA InFacts ==
  ASSUME TypeInv, NEW P
  PROVE  /\ IsFiniteSet(In(P)) /\ In(P) \subseteq Workers
         /\ Cardinality(In(P)) \in Nat /\ Cardinality(In(P)) <= Cardinality(Workers)
         /\ Cardinality(Workers) \in Nat
<1>1. In(P) \in SUBSET Workers
  BY DEF In
<1>2. IsFiniteSet(In(P)) /\ Cardinality(In(P)) <= Cardinality(Workers)
  BY <1>1, ConstantFacts, FS_Subset
<1>. QED  BY <1>1, <1>2, ConstantFacts, FS_CardinalityType

(* A task that moves changes the number by one at most.                       *)
LEMMA InMoves ==
  ASSUME TypeInv, NEW w \in Workers, NEW x, Goes(w, x), NEW P
  PROVE  /\ x.at \in P /\ task[w].at \in P => In(P)' = In(P)
         /\ x.at \notin P /\ task[w].at \notin P => In(P)' = In(P)
         /\ x.at \in P /\ task[w].at \notin P
              => Cardinality(In(P)') = Cardinality(In(P)) + 1
         /\ x.at \notin P /\ task[w].at \in P
              => Cardinality(In(P)') = Cardinality(In(P)) - 1
         /\ Cardinality(In(P)') \in Nat
<1>1. task'[w] = x /\ \A v \in Workers : v # w => task'[v] = task[v]
  BY TaskMoves DEF Goes
<1>2. x.at \in P /\ task[w].at \in P => In(P)' = In(P)
  BY <1>1 DEF In
<1>3. x.at \notin P /\ task[w].at \notin P => In(P)' = In(P)
  BY <1>1 DEF In
<1>4. ASSUME x.at \in P, task[w].at \notin P
      PROVE  Cardinality(In(P)') = Cardinality(In(P)) + 1
  <2>1. In(P)' = In(P) \cup {w} /\ w \notin In(P)
    BY <1>1, <1>4 DEF In
  <2>. QED  BY <2>1, InFacts, FS_AddElement
<1>5. ASSUME x.at \notin P, task[w].at \in P
      PROVE  Cardinality(In(P)') = Cardinality(In(P)) - 1
  <2>1. In(P)' = In(P) \ {w} /\ w \in In(P)
    BY <1>1, <1>5 DEF In
  <2>. QED  BY <2>1, InFacts, FS_RemoveElement
<1>6. In(P)' \in SUBSET Workers
  BY DEF In
<1>7. IsFiniteSet(In(P)')
  BY <1>6, ConstantFacts, FS_Subset
<1>. QED  BY <1>2, <1>3, <1>4, <1>5, <1>7, FS_CardinalityType

-------------------------------------------------------------------------------
(* The council.                                                               *)

(* With the council, the one model is never asked, and a decision is the      *)
(* verdict on what the two models answered.                                   *)
CouncilInv ==
  council => \A w \in Workers :
    /\ task[w].at \notin {"attempt", "push", "trim"}
    /\ task[w].at = "decided" => task[w].verdict = Verdict(task[w].a, task[w].b)

LEMMA NextCouncil ==
  ASSUME TypeInv, CouncilInv, [Next]_vars
  PROVE  CouncilInv'
<1>1. ASSUME NEW w \in Workers, NEW x, Goes(w, x)
      PROVE  CouncilInv'
  <2>. SUFFICES ASSUME council, NEW v \in Workers
                PROVE  /\ task'[v].at \notin {"attempt", "push", "trim"}
                       /\ task'[v].at = "decided" => task'[v].verdict = Verdict(task'[v].a, task'[v].b)
    BY <1>1 DEF CouncilInv, Goes, Verdict, Both, Diverge, Consensus, Agreed, Lower, Upper, Silence
  <2>1. task'[w] = x /\ \A u \in Workers : u # w => task'[u] = task[u]
    BY <1>1, TaskMoves DEF Goes
  <2>2. /\ \A u \in Workers : task[u].at \notin {"attempt", "push", "trim"}
        /\ \A u \in Workers : task[u].at = "decided" => task[u].verdict = Verdict(task[u].a, task[u].b)
    BY DEF CouncilInv
  <2>3. x.at \notin {"attempt", "push", "trim"}
        /\ (x.at = "decided" => x.verdict = Verdict(x.a, x.b))
    BY <1>1, <2>2 DEF Goes, Healthy, Stores, Decides, Remembers, Commits
  <2>4. CASE v = w
    BY <2>1, <2>3, <2>4
  <2>5. CASE v # w
    BY <2>1, <2>2, <2>5
  <2>. QED  BY <2>4, <2>5
<1>2. CASE Expire \/ UNCHANGED vars
  <2>1. UNCHANGED <<council, task>>
    BY <1>2 DEF Expire, vars
  <2>. QED
    BY <2>1 DEF CouncilInv, Verdict, Both, Diverge, Consensus, Agreed, Lower, Upper, Silence
<1>. QED  BY <1>1, <1>2, StepCases

(* The council speaks up exactly when one of its models is sure enough, in    *)
(* every process, whichever model fails, doubts or disagrees.                 *)
THEOREM CouncilHeedsCorrect == Spec => []CouncilHeeds
<1>1. Init => CouncilInv
  BY IdleFacts DEF Init, CouncilInv
<1>2. TypeInv /\ CouncilInv => CouncilHeeds
  <2>. SUFFICES ASSUME TypeInv, CouncilInv, NEW w \in Workers, council, At(w, "decided")
                PROVE  task[w].verdict.action = "validate" <=> Sure(task[w].a) \/ Sure(task[w].b)
    BY DEF CouncilHeeds
  <2>1. task[w].verdict = Verdict(task[w].a, task[w].b)
    BY DEF CouncilInv, At
  <2>2. task[w].a \in Answers /\ task[w].b \in Answers
    BY TaskFacts DEF Tasks
  <2>. QED  BY <2>1, <2>2, VerdictHeeds
<1>. QED  BY <1>1, <1>2, NextCouncil, TypeInvAlways, PTL DEF Spec

-------------------------------------------------------------------------------
(* The baseline and the memory of a model.                                    *)

LEMMA AveragedSpan ==
  ASSUME NEW base \in Samples, NEW p95 \in Latencies, base.n > 0 => base.p95 \in Span
  PROVE  Averaged(base, p95).p95 \in Span
<1>1. base.p95 \in Nat /\ base.n \in Nat /\ p95 \in Nat
  BY ConstantFacts DEF Samples
<1>2. CASE base.n = 0
  BY <1>1, <1>2 DEF Averaged, Span
<1>3. CASE base.n # 0
  <2>1. PICK low \in Latencies, high \in Latencies : low <= base.p95 /\ base.p95 <= high
    BY <1>1, <1>3 DEF Span
  <2>2. low \in Nat /\ high \in Nat
    BY ConstantFacts
  <2>3. PICK b, v : b = base.p95 /\ v = (7 * b + 3 * p95) \div 10
    OBVIOUS
  <2>4. v \in Nat /\ (v >= low \/ v >= p95) /\ (v <= high \/ v <= p95)
    BY <1>1, <2>1, <2>2, <2>3
  <2>5. \E l, h \in Latencies : l <= v /\ v <= h
    BY <2>4
  <2>6. Averaged(base, p95).p95 = v
    BY <1>3, <2>3 DEF Averaged
  <2>. QED  BY <2>4, <2>5, <2>6 DEF Span
<1>. QED  BY <1>2, <1>3

Averaging == {"average", "store"}
Asking == {"attempt", "push"}

(* A sample is of as many polls as were begun, less those that did not write   *)
(* theirs yet, and a copy of it that a task holds is too.                     *)
Sampled(sample) == /\ sample.n + Cardinality(In(Averaging)) <= ops
                   /\ sample.n > 0 => sample.p95 \in Span

SampleInv ==
  /\ Sampled(baseline)
  /\ \A w \in Workers : /\ task[w].at \in Averaging => task[w].p95 \in Latencies
                        /\ task[w].at = "store" => Sampled(task[w].base)

LEMMA NextSamples ==
  ASSUME TypeInv, SampleInv, [Next]_vars
  PROVE  SampleInv'
<1>0. PICK k : k = Cardinality(In(Averaging))
  OBVIOUS
<1>1. /\ k \in Nat /\ ops \in Nat
      /\ baseline \in Samples
      /\ baseline.n + k <= ops /\ (baseline.n > 0 => baseline.p95 \in Span)
      /\ \A w \in Workers : task[w].at \in Averaging => task[w].p95 \in Latencies
      /\ \A w \in Workers : task[w].at = "store"
           => task[w].base.n + k <= ops /\ (task[w].base.n > 0 => task[w].base.p95 \in Span)
  <2>1. ops \in Nat /\ baseline \in Samples
    BY ConstantFacts DEF TypeInv
  <2>. QED  BY <1>0, <2>1, InFacts DEF SampleInv, Sampled
<1>2. ASSUME NEW w \in Workers, NEW x, Goes(w, x)
      PROVE  SampleInv'
  <2>1. PICK j, r : j = Cardinality(In(Averaging)') /\ r = task[w]
    OBVIOUS
  <2>2. /\ r \in Tasks /\ x \in Tasks /\ task'[w] = x /\ j \in Nat
        /\ \A v \in Workers : v # w => task'[v] = task[v]
        /\ \A v \in Workers : task[v].base.n \in Nat
    <3>1. \A v \in Workers : task[v].base.n \in Nat
      BY TaskFacts DEF Tasks, Samples
    <3>. QED  BY <1>2, <2>1, <3>1, TaskFacts, TaskMoves, InMoves DEF Goes
  <2>3. /\ x.at \in Averaging /\ r.at \in Averaging => j = k
        /\ x.at \notin Averaging /\ r.at \notin Averaging => j = k
        /\ x.at \in Averaging /\ r.at \notin Averaging => j = k + 1
        /\ x.at \notin Averaging /\ r.at \in Averaging => j = k - 1
    BY <1>0, <1>2, <2>1, InMoves
  <2>4. /\ j - k <= ops' - ops /\ ops' \in Nat
        /\ r.at = "store" /\ x.at = "idle" => j = k - 1
    BY <1>1, <1>2, <2>1, <2>3
       DEF Goes, Healthy, Stores, Decides, Remembers, Commits, Averaging
  <2>4a. \A b \in Nat : b + k <= ops => b + j <= ops'
    <3>1. /\ j \in Nat /\ k \in Nat /\ ops \in Nat /\ ops' \in Nat
          /\ j - k <= ops' - ops
      BY <1>1, <2>2, <2>4
    <3>2. PICK o, q : o = ops /\ q = ops'
      OBVIOUS
    <3>3. ASSUME NEW b \in Nat, b + k <= o PROVE b + j <= q
      <4>1. j - k <= q - o /\ {j, k, o, q} \subseteq Nat
        BY <3>1, <3>2
      <4>. QED  BY <3>3, <4>1
    <3>. QED  BY <3>2, <3>3
  <2>5. Blank.n = 0
    BY IdleFacts
  <2>6. x.at \in Averaging => x.p95 \in Latencies
    BY <1>1, <1>2, <2>1 DEF Goes, Healthy, Stores, Decides, Remembers, Commits, Averaging
  <2>7. x.at = "store" => x.base \in {baseline, Blank} /\ r.at = "average" /\ ops' = ops
    BY <1>2, <2>1 DEF Goes, Healthy, Stores, Decides, Remembers, Commits
  <2>8. \/ baseline' = baseline
        \/ r.at = "store" /\ x.at = "idle" /\ baseline' = Averaged(r.base, r.p95)
    BY <1>2, <2>1 DEF Goes, Healthy, Stores, Decides, Remembers, Commits, Keys
  <2>9. baseline'.n + j <= ops' /\ (baseline'.n > 0 => baseline'.p95 \in Span)
    <3>0. baseline.n \in Nat
      BY <1>1 DEF Samples
    <3>1. CASE baseline' = baseline
      BY <1>1, <2>4a, <3>0, <3>1
    <3>2. CASE r.at = "store" /\ x.at = "idle" /\ baseline' = Averaged(r.base, r.p95)
      <4>1. r.base \in Samples /\ r.p95 \in Latencies /\ r.base.n + k <= ops
            /\ (r.base.n > 0 => r.base.p95 \in Span) /\ r.p95 \in Nat /\ r.base.n \in Nat
        BY <1>1, <2>1, <2>2, <3>2, ConstantFacts DEF Tasks, Averaging
      <4>2. baseline'.p95 \in Span /\ baseline'.n = r.base.n + 1
        BY <3>2, <4>1, AveragedSpan, AveragedType
      <4>3. ops' = ops /\ j = k - 1
        BY <1>2, <2>1, <2>4, <3>2 DEF Goes, Healthy, Stores, Decides, Remembers, Commits
      <4>. QED  BY <1>1, <4>1, <4>2, <4>3
    <3>. QED  BY <2>8, <3>1, <3>2
  <2>10. ASSUME NEW v \in Workers
         PROVE  /\ task'[v].at \in Averaging => task'[v].p95 \in Latencies
                /\ task'[v].at = "store" => /\ task'[v].base.n + j <= ops'
                                            /\ task'[v].base.n > 0 => task'[v].base.p95 \in Span
    <3>1. CASE v # w
      BY <1>1, <2>2, <2>4a, <3>1
    <3>2. CASE v = w
      <4>1. x.at = "store" => j = k
        BY <2>3, <2>7 DEF Averaging
      <4>2. baseline.n \in Nat
        BY <1>1 DEF Samples
      <4>. QED  BY <1>1, <2>2, <2>5, <2>6, <2>7, <3>2, <4>1, <4>2
    <3>. QED  BY <3>1, <3>2
  <2>11. Sampled(baseline)'
    BY <2>1, <2>9 DEF Sampled, Span
  <2>12. \A v \in Workers : task'[v].at = "store" => Sampled(task[v].base)'
    BY <2>1, <2>10 DEF Sampled, Span
  <2>. QED  BY <2>10, <2>11, <2>12 DEF SampleInv
<1>3. CASE Expire \/ UNCHANGED vars
  <2>1. UNCHANGED <<ops, task>> /\ baseline' \in {baseline, Blank}
    BY <1>3 DEF Expire, vars
  <2>2. In(Averaging)' = In(Averaging)
    BY <2>1 DEF In
  <2>3. Blank.n = 0 /\ baseline.n \in Nat
    BY <1>1, IdleFacts DEF Samples
  <2>4. baseline'.n + k <= ops /\ (baseline'.n > 0 => baseline'.p95 \in Span)
    BY <1>1, <2>1, <2>3
  <2>. QED  BY <1>0, <1>1, <2>1, <2>2, <2>4 DEF SampleInv, Sampled, Span
<1>. QED  BY <1>2, <1>3, StepCases

(* The list of turns is the latest ones without a gap, and no more turns were  *)
(* recorded than polls are over with asking.                                  *)
TurnInv ==
  /\ turns + Cardinality(In(Asking)) <= ops
  /\ Len(history) <= turns
  /\ \A n \in 1..Len(history) : history[n] = turns - n + 1

LEMMA NextTurns ==
  ASSUME TypeInv, TurnInv, [Next]_vars
  PROVE  TurnInv'
<1>0. PICK k : k = Cardinality(In(Asking))
  OBVIOUS
<1>1. /\ k \in Nat /\ ops \in Nat /\ turns \in Nat /\ history \in Seq(Nat)
      /\ turns + k <= ops /\ Len(history) <= turns /\ Len(history) \in Nat
      /\ \A n \in 1..Len(history) : history[n] = turns - n + 1
  <2>1. ops \in Nat /\ turns \in Nat /\ history \in Seq(Nat)
    BY ConstantFacts DEF TypeInv
  <2>. QED  BY <1>0, <2>1, InFacts DEF TurnInv
<1>2. ASSUME NEW w \in Workers, NEW x, Goes(w, x)
      PROVE  TurnInv'
  <2>1. PICK j, r, o : j = Cardinality(In(Asking)') /\ r = task[w] /\ o = ops'
    OBVIOUS
  <2>2. j \in Nat /\ o \in Nat
    <3>1. o \in {ops, ops + 1}
      BY <1>2, <2>1 DEF Goes, Healthy, Stores, Decides, Remembers, Commits
    <3>. QED  BY <1>1, <1>2, <2>1, <3>1, InMoves
  <2>3. /\ x.at \in Asking /\ r.at \in Asking => j = k
        /\ x.at \notin Asking /\ r.at \notin Asking => j = k
        /\ x.at \in Asking /\ r.at \notin Asking => j = k + 1
        /\ x.at \notin Asking /\ r.at \in Asking => j = k - 1
    BY <1>0, <1>2, <2>1, InMoves
  <2>4. CASE Remembers(r, x)
    <3>1. o = ops
      BY <2>1, <2>4 DEF Remembers
    <3>2. CASE /\ r.at = "push" /\ x.at = "trim" /\ turns' = turns + 1
               /\ history' = <<turns + 1>> \o history
      <4>1. j = k - 1
        BY <2>3, <3>2 DEF Asking
      <4>2. PICK h : h = <<turns + 1>> \o history
        OBVIOUS
      <4>3. /\ Len(h) = Len(history) + 1 /\ h[1] = turns + 1
            /\ \A i \in 1..Len(history) : h[i + 1] = history[i]
        BY <1>1, <4>2, PushedFacts
      <4>4. ASSUME NEW n \in 1..Len(h)
            PROVE  h[n] = turns + 1 - n + 1
        <5>1. CASE n = 1
          BY <1>1, <4>3, <5>1
        <5>2. CASE n # 1
          <6>1. PICK i : i = n - 1
            OBVIOUS
          <6>2. i \in 1..Len(history) /\ n = i + 1
            BY <1>1, <4>3, <5>2, <6>1
          <6>3. h[n] = history[i] /\ history[i] = turns - i + 1
            BY <1>1, <4>3, <6>2
          <6>. QED  BY <1>1, <6>2, <6>3
        <5>. QED  BY <5>1, <5>2
      <4>5. turns + 1 + j <= ops
        BY <1>1, <2>2, <4>1
      <4>6. Len(h) <= turns + 1
        BY <1>1, <4>3
      <4>7. PICK t : t = turns + 1
        OBVIOUS
      <4>8. t + j <= o /\ Len(h) <= t /\ \A n \in 1..Len(h) : h[n] = t - n + 1
        BY <1>1, <2>2, <3>1, <4>4, <4>5, <4>6, <4>7
      <4>. QED  BY <2>1, <3>2, <4>2, <4>7, <4>8 DEF TurnInv
    <3>3. CASE r.at = "push" /\ x.at = "decided" /\ UNCHANGED <<turns, history>>
      <4>1. j = k - 1
        BY <2>3, <3>3 DEF Asking
      <4>2. turns + j <= ops
        BY <1>1, <2>2, <4>1
      <4>. QED  BY <1>1, <2>1, <3>1, <3>3, <4>2 DEF TurnInv
    <3>4. CASE /\ r.at = "trim" /\ x.at = "decided" /\ turns' = turns
               /\ history' \in {history, Trimmed(history, MaxHistory)}
      <4>1. j = k
        BY <2>3, <3>4 DEF Asking
      <4>2. PICK h : h = Trimmed(history, MaxHistory)
        OBVIOUS
      <4>3. /\ h \in Seq(Nat) /\ Len(h) <= Len(history)
            /\ \A i \in 1..Len(h) : h[i] = history[i]
        BY <1>1, <4>2, ConstantFacts, TrimmedFacts
      <4>4. Len(h) <= turns /\ \A i \in 1..Len(h) : h[i] = turns - i + 1
        BY <1>1, <4>3
      <4>. QED  BY <1>1, <2>1, <3>1, <3>4, <4>1, <4>2, <4>4 DEF TurnInv
    <3>. QED  BY <2>4, <3>2, <3>3, <3>4 DEF Remembers
  <2>5. CASE ~Remembers(r, x)
    <3>1. UNCHANGED <<turns, history>>
      BY <1>2, <2>1, <2>5 DEF Goes, Healthy, Stores, Decides, Commits, Keys
    <3>2. \/ o = ops /\ (x.at \in Asking => r.at \in Asking)
          \/ o = ops + 1
      BY <1>2, <2>1, <2>5 DEF Goes, Healthy, Stores, Decides, Commits, Asking
    <3>3. turns + j <= o
      BY <1>1, <2>2, <2>3, <3>2
    <3>. QED  BY <1>1, <2>1, <3>1, <3>3 DEF TurnInv
  <2>. QED  BY <2>4, <2>5
<1>3. CASE Expire \/ UNCHANGED vars
  <2>1. /\ UNCHANGED <<ops, task>>
        /\ \/ UNCHANGED <<turns, history>>
           \/ turns' = 0 /\ history' = <<>>
    BY <1>3 DEF Expire, vars
  <2>2. In(Asking)' = In(Asking)
    BY <2>1 DEF In
  <2>3. CASE UNCHANGED <<turns, history>>
    BY <1>0, <1>1, <2>1, <2>2, <2>3 DEF TurnInv
  <2>4. CASE turns' = 0 /\ history' = <<>>
    <3>1. 0 + k <= ops /\ Len(<<>>) = 0 /\ 1..0 = {}
      BY <1>1
    <3>. QED  BY <1>0, <2>1, <2>2, <2>4, <3>1 DEF TurnInv
  <2>. QED  BY <2>1, <2>3, <2>4
<1>. QED  BY <1>2, <1>3, StepCases

LEMMA InitCounts == Init => SampleInv /\ TurnInv
<1>. SUFFICES ASSUME Init PROVE SampleInv /\ TurnInv
  OBVIOUS
<1>1. \A w \in Workers : task[w].at = "idle"
  BY IdleFacts DEF Init
<1>2. In(Averaging) = {} /\ In(Asking) = {}
  BY <1>1 DEF In, Averaging, Asking
<1>3. Cardinality(In(Averaging)) = 0 /\ Cardinality(In(Asking)) = 0
  BY <1>2, FS_EmptySet
<1>4. ops = 0 /\ turns = 0 /\ history = <<>> /\ baseline.n = 0
  BY IdleFacts DEF Init
<1>5. Len(<<>>) = 0 /\ 1..0 = {}
  OBVIOUS
<1>6. SampleInv
  BY <1>1, <1>3, <1>4 DEF SampleInv, Sampled, Averaging
<1>7. TurnInv
  BY <1>3, <1>4, <1>5 DEF TurnInv
<1>. QED  BY <1>6, <1>7

(* The keys and the tasks keep their types; a baseline, which several          *)
(* processes read and write back, stays within the latencies it was made of   *)
(* and counts no more samples than there were polls.                          *)
THEOREM DiagnosisTypeCorrect == Spec => []TypeOK
<1>1. TypeInv /\ SampleInv /\ TurnInv => TypeOK
  <2>. SUFFICES ASSUME TypeInv, SampleInv, TurnInv PROVE TypeOK
    OBVIOUS
  <2>1. /\ council \in BOOLEAN /\ ops \in 0..MaxOps /\ baseline \in Samples
        /\ history \in Seq(Nat) /\ turns \in Nat
        /\ commits \subseteq known /\ known \subseteq 1..(MaxCommits + MaxOps)
        /\ peak \in 1..Cardinality(Workers) \cup {1} /\ failed \in Nat
        /\ ops \in Nat
    BY ConstantFacts DEF TypeInv
  <2>2. baseline.n \in 0..ops /\ (baseline.n > 0 => baseline.p95 \in Span)
    <3>1. baseline.n \in Nat /\ Cardinality(In(Averaging)) \in Nat
      BY <2>1, InFacts DEF Samples
    <3>. QED  BY <2>1, <3>1 DEF SampleInv, Sampled
  <2>3. turns \in 0..ops
    <3>1. Cardinality(In(Asking)) \in Nat
      BY InFacts
    <3>. QED  BY <2>1, <3>1 DEF TurnInv
  <2>4. history \in Seq(1..turns)
    <3>1. Len(history) \in Nat /\ Len(history) <= turns
          /\ \A n \in 1..Len(history) : history[n] = turns - n + 1
      BY <2>1 DEF TurnInv
    <3>2. \A n \in 1..Len(history) : history[n] \in 1..turns
      BY <2>1, <3>1
    <3>. QED  BY <2>1, <3>2
  <2>5. \A w \in Workers : /\ task[w].tries \in 0..Retries
                           /\ {task[w].a, task[w].b} \subseteq Answers
                           /\ task[w].verdict \in Verdicts
    BY TaskFacts DEF Tasks
  <2>. QED  BY <2>1, <2>2, <2>3, <2>4, <2>5 DEF TypeOK
<1>. QED  BY <1>1, InitCounts, NextSamples, NextTurns, TypeInvAlways, PTL DEF Spec

-------------------------------------------------------------------------------
(* The commits, while processes push and trim at once.  A process that is to  *)
(* cut has counted; each commit it is to remove is a pair of Pairs.           *)

Busy == {"count", "cut"}
Reach == peak + failed    \* the most that one process cuts
Pairs == {o \in Workers \X (1..MaxOps) :
            task[o[1]].at = "cut" /\ o[2] <= Excess(task[o[1]].count)}

Newer(S, c) == {d \in S : c < d}

(* The list exceeds its limit by those that have still to count or to cut and *)
(* by those that failed.  What is to be removed exceeds what is too many by   *)
(* CutTwice at most, and so many may be missing of the latest commits.        *)
CountsInv ==
  /\ Cardinality(In(Busy)) <= peak
  /\ Cardinality(commits) <= MaxCommits + Cardinality(In(Busy)) + failed
  /\ \A w \in Workers : task[w].at = "cut"
       => /\ task[w].count > MaxCommits
          /\ task[w].count <= MaxCommits + Reach /\ task[w].count <= MaxCommits + MaxOps
  /\ In({"cut"}) # {}
       => Cardinality(Pairs) + MaxCommits <= Cardinality(commits) + CutTwice
  /\ \A c \in known \ commits :
       MaxCommits <= Cardinality(Newer(commits, c)) + CutTwice

LEMMA ProductGrows ==
  ASSUME NEW a \in Nat, NEW b \in Nat, NEW c \in Nat, NEW d \in Nat, a <= b, c <= d
  PROVE  a * c \in Nat /\ a * c <= b * d
<1>1. PICK i \in Nat, j \in Nat : b = a + i /\ d = c + j
  <2>1. b - a \in Nat /\ d - c \in Nat /\ b = a + (b - a) /\ d = c + (d - c)
    OBVIOUS
  <2>. QED  BY <2>1
<1>2. (a + i) * (c + j) = a * c + a * j + i * c + i * j
  OBVIOUS
<1>3. a * c \in Nat /\ a * j \in Nat /\ i * c \in Nat /\ i * j \in Nat
  OBVIOUS
<1>. QED  BY <1>1, <1>2, <1>3

LEMMA PeakFacts ==
  ASSUME TypeInv
  PROVE  /\ peak \in Nat /\ peak > 0 /\ failed \in Nat
         /\ peak - 1 \in Nat /\ Reach \in Nat /\ CutTwice \in Nat
<1>1. Cardinality(Workers) \in Nat
  BY ConstantFacts, FS_CardinalityType
<1>2. peak \in Nat /\ peak > 0 /\ failed \in Nat
  BY <1>1 DEF TypeInv
<1>3. peak - 1 \in Nat /\ Reach \in Nat /\ peak - 1 <= peak - 1 /\ Reach <= Reach
  BY <1>2 DEF Reach
<1>4. (peak - 1) * Reach \in Nat
  BY <1>3, ProductGrows
<1>. QED  BY <1>2, <1>3, <1>4 DEF Reach, CutTwice

(* More pushes at once and more that fail allow for more to be cut.           *)
LEMMA CutTwiceGrows ==
  ASSUME TypeInv, TypeInv', peak <= peak', failed <= failed'
  PROVE  CutTwice <= CutTwice' /\ CutTwice' \in Nat /\ Reach <= Reach' /\ Reach' \in Nat
<1>1. PICK a, b, c, d : a = peak /\ b = peak' /\ c = failed /\ d = failed'
  OBVIOUS
<1>2. /\ a \in Nat /\ b \in Nat /\ c \in Nat /\ d \in Nat
      /\ a > 0 /\ b > 0 /\ a <= b /\ c <= d
  <2>1. Cardinality(Workers) \in Nat
    BY ConstantFacts, FS_CardinalityType
  <2>. QED  BY <1>1, <2>1 DEF TypeInv
<1>3. /\ a - 1 \in Nat /\ b - 1 \in Nat /\ a - 1 <= b - 1
      /\ a + c \in Nat /\ b + d \in Nat /\ a + c <= b + d
  BY <1>2
<1>4. (a - 1) * (a + c) <= (b - 1) * (b + d) /\ b + d <= b + d /\ b - 1 <= b - 1
  BY <1>3, ProductGrows
<1>5. (b - 1) * (b + d) \in Nat
  BY <1>3, <1>4, ProductGrows
<1>. QED  BY <1>1, <1>3, <1>4, <1>5 DEF CutTwice, Reach

LEMMA PairsFacts ==
  /\ IsFiniteSet(Workers \X (1..MaxOps))
  /\ IsFiniteSet(Pairs) /\ Cardinality(Pairs) \in Nat
<1>1. IsFiniteSet(1..MaxOps)
  BY ConstantFacts, FS_Interval
<1>2. IsFiniteSet(Workers \X (1..MaxOps))
  BY <1>1, ConstantFacts, FS_Product
<1>3. Pairs \in SUBSET (Workers \X (1..MaxOps))
  BY DEF Pairs
<1>4. IsFiniteSet(Pairs)
  BY <1>2, <1>3, FS_Subset
<1>. QED  BY <1>2, <1>4, FS_CardinalityType

LEMMA ColumnFacts ==
  ASSUME NEW w, NEW n \in Nat
  PROVE  /\ IsFiniteSet({w} \X (1..n)) /\ Cardinality({w} \X (1..n)) = n
<1>1. IsFiniteSet({w}) /\ Cardinality({w}) = 1
  BY FS_Singleton
<1>2. IsFiniteSet(1..n) /\ Cardinality(1..n) = n
  BY FS_Interval
<1>3. /\ IsFiniteSet({w} \X (1..n))
      /\ Cardinality({w} \X (1..n)) = Cardinality({w}) * Cardinality(1..n)
  BY <1>1, <1>2, FS_Product
<1>4. 1 * n = n
  OBVIOUS
<1>. QED  BY <1>1, <1>2, <1>3, <1>4

(* Who counts now finds what the others are to remove.                        *)
LEMMA OthersPairs ==
  ASSUME TypeInv, CountsInv, NEW w \in Workers, task[w].at = "count"
  PROVE  Cardinality(Pairs) <= CutTwice
<1>1. PICK B, k : B = In(Busy) \ {w} /\ k = Cardinality(B)
  OBVIOUS
<1>2. /\ IsFiniteSet(B) /\ k \in Nat /\ k <= peak - 1
  <2>1. w \in In(Busy) /\ IsFiniteSet(In(Busy)) /\ Cardinality(In(Busy)) \in Nat
    BY InFacts DEF In, Busy
  <2>2. k = Cardinality(In(Busy)) - 1 /\ IsFiniteSet(B)
    BY <1>1, <2>1, FS_RemoveElement
  <2>3. k \in Nat
    BY <1>1, <2>2, FS_CardinalityType
  <2>. QED  BY <2>1, <2>2, <2>3, PeakFacts DEF CountsInv
<1>3. ASSUME NEW o \in Pairs
      PROVE  o \in B \X (1..Reach)
  <2>1. o \in Workers \X (1..MaxOps) /\ task[o[1]].at = "cut" /\ o[2] <= Excess(task[o[1]].count)
    BY DEF Pairs
  <2>2. o[1] \in B
    BY <1>1, <2>1 DEF In, Busy
  <2>3. task[o[1]].count \in Nat /\ task[o[1]].count <= MaxCommits + Reach
    BY <2>1, TaskFacts DEF CountsInv, Tasks
  <2>4. o[2] \in 1..Reach
    BY <2>1, <2>3, PeakFacts, ConstantFacts DEF Excess
  <2>. QED  BY <2>1, <2>2, <2>4
<1>4. IsFiniteSet(1..Reach) /\ Cardinality(1..Reach) = Reach
  BY PeakFacts, FS_Interval
<1>5. IsFiniteSet(B \X (1..Reach)) /\ Cardinality(B \X (1..Reach)) = k * Reach
  BY <1>1, <1>2, <1>4, FS_Product
<1>6. Pairs \in SUBSET (B \X (1..Reach))
  BY <1>3
<1>7. Cardinality(Pairs) <= k * Reach
  BY <1>5, <1>6, FS_Subset
<1>8. k * Reach \in Nat /\ k * Reach <= (peak - 1) * Reach
  <2>1. Reach <= Reach
    BY PeakFacts
  <2>. QED  BY <1>2, <2>1, PeakFacts, ProductGrows
<1>9. (peak - 1) * Reach = CutTwice
  BY DEF Reach, CutTwice
<1>10. Cardinality(Pairs) \in Nat
  BY PairsFacts
<1>. QED  BY <1>7, <1>8, <1>9, <1>10, PeakFacts

LEMMA PairsMove ==
  ASSUME TypeInv, NEW w \in Workers, NEW x, Goes(w, x)
  PROVE  /\ task[w].at # "cut" /\ x.at # "cut" => Pairs' = Pairs
         /\ task[w].at # "cut" /\ x.at = "cut"
              => Pairs' \subseteq Pairs \cup ({w} \X (1..Excess(x.count)))
         /\ task[w].at = "cut" /\ x.at # "cut"
              => Pairs' = Pairs \ ({w} \X (1..Excess(task[w].count)))
<1>1. /\ task'[w] = x /\ \A v \in Workers : v # w => task'[v] = task[v]
      /\ x \in Tasks /\ task[w] \in Tasks
  BY TaskMoves, TaskFacts DEF Goes
<1>2. Excess(x.count) \in Int /\ Excess(task[w].count) \in Int
  BY <1>1, ConstantFacts DEF Excess, Tasks
<1>3. Pairs' = {o \in Workers \X (1..MaxOps) :
                  task'[o[1]].at = "cut" /\ o[2] <= Excess(task'[o[1]].count)}
  BY DEF Pairs, Excess
<1>4. ASSUME NEW v \in Workers, NEW k \in 1..MaxOps
      PROVE  /\ <<v, k>> \in Pairs <=> task[v].at = "cut" /\ k <= Excess(task[v].count)
             /\ <<v, k>> \in Pairs' <=> task'[v].at = "cut" /\ k <= Excess(task'[v].count)
  BY <1>3 DEF Pairs
<1>5. \A o \in Pairs \cup Pairs' : \E v \in Workers, k \in 1..MaxOps : o = <<v, k>>
  BY <1>3 DEF Pairs
<1>6. ASSUME task[w].at # "cut", x.at # "cut"
      PROVE  Pairs' = Pairs
  <2>1. ASSUME NEW v \in Workers, NEW k \in 1..MaxOps
        PROVE  <<v, k>> \in Pairs' <=> <<v, k>> \in Pairs
    BY <1>1, <1>4, <1>6
  <2>. QED  BY <1>5, <2>1
<1>7. ASSUME task[w].at # "cut", x.at = "cut"
      PROVE  Pairs' \subseteq Pairs \cup ({w} \X (1..Excess(x.count)))
  <2>1. ASSUME NEW v \in Workers, NEW k \in 1..MaxOps, <<v, k>> \in Pairs'
        PROVE  <<v, k>> \in Pairs \cup ({w} \X (1..Excess(x.count)))
    <3>1. CASE v = w
      <4>1. k <= Excess(x.count)
        BY <1>1, <1>4, <2>1, <3>1
      <4>2. k \in 1..Excess(x.count)
        BY <1>2, <4>1, ConstantFacts
      <4>. QED  BY <3>1, <4>2
    <3>2. CASE v # w
      BY <1>1, <1>4, <2>1, <3>2
    <3>. QED  BY <3>1, <3>2
  <2>. QED  BY <1>5, <2>1
<1>8. ASSUME task[w].at = "cut", x.at # "cut"
      PROVE  Pairs' = Pairs \ ({w} \X (1..Excess(task[w].count)))
  <2>1. ASSUME NEW v \in Workers, NEW k \in 1..MaxOps
        PROVE  <<v, k>> \in Pairs'
                 <=> <<v, k>> \in Pairs /\ <<v, k>> \notin {w} \X (1..Excess(task[w].count))
    <3>1. CASE v = w
      <4>1. k <= Excess(task[w].count) => k \in 1..Excess(task[w].count)
        BY <1>2, ConstantFacts
      <4>. QED  BY <1>1, <1>4, <1>8, <3>1, <4>1
    <3>2. CASE v # w
      BY <1>1, <1>4, <3>2
    <3>. QED  BY <3>1, <3>2
  <2>. QED  BY <1>5, <2>1
<1>. QED  BY <1>6, <1>7, <1>8

(* What a process that cuts takes off Pairs.                                  *)
LEMMA CutFacts ==
  ASSUME TypeInv, CountsInv, NEW w \in Workers, task[w].at = "cut",
         NEW e, e = Excess(task[w].count)
  PROVE  /\ e \in Nat \ {0} /\ e <= Cardinality(Pairs)
         /\ {w} \X (1..e) \subseteq Pairs
<1>1. e \in Nat \ {0} /\ e <= MaxOps
  <2>1. /\ task[w].count \in Nat
        /\ task[w].count > MaxCommits /\ task[w].count <= MaxCommits + MaxOps
    BY TaskFacts DEF Tasks, CountsInv
  <2>. QED  BY <2>1, ConstantFacts DEF Excess
<1>2. {w} \X (1..e) \subseteq Pairs
  <2>. SUFFICES ASSUME NEW k \in 1..e
                PROVE  <<w, k>> \in Pairs
    OBVIOUS
  <2>1. k \in 1..MaxOps /\ k <= Excess(task[w].count)
    BY <1>1, ConstantFacts
  <2>. QED  BY <2>1 DEF Pairs
<1>3. {w} \X (1..e) \in SUBSET Pairs /\ Cardinality({w} \X (1..e)) = e
  BY <1>1, <1>2, ColumnFacts
<1>4. Cardinality({w} \X (1..e)) <= Cardinality(Pairs)
  BY <1>3, PairsFacts, FS_Subset
<1>. QED  BY <1>1, <1>2, <1>3, <1>4

(* What a cut leaves: at least one less, and all that is left is newer than   *)
(* all that was cut.                                                          *)
LEMMA CutLeaves ==
  ASSUME NEW S \in SUBSET Nat, IsFiniteSet(S), NEW e \in Nat \ {0}
  PROVE  /\ Cardinality(S \ Oldest(S, e)) = 0
              \/ Cardinality(S \ Oldest(S, e)) <= Cardinality(S) - 1
         /\ Cardinality(S) - e <= Cardinality(S \ Oldest(S, e))
         /\ Cardinality(S \ Oldest(S, e)) \in Nat
         /\ \A c \in Oldest(S, e), d \in S \ Oldest(S, e) : c < d
<1>1. PICK O, n : O = Oldest(S, e) /\ n = Cardinality(S)
  OBVIOUS
<1>2. IsFiniteSet(O) /\ O \subseteq S /\ Cardinality(O) <= e
  BY <1>1, OldestSize
<1>3. n \in Nat /\ Cardinality(O) \in Nat
  BY <1>1, <1>2, FS_CardinalityType
<1>4. Cardinality(S \ O) = n - Cardinality(O)
  <2>1. S \cap O = O
    BY <1>2
  <2>2. Cardinality(S \ O) = Cardinality(S) - Cardinality(S \cap O)
    BY FS_Difference
  <2>. QED  BY <1>1, <2>1, <2>2
<1>5. S # {} => Cardinality(O) # 0
  <2>. SUFFICES ASSUME S # {} PROVE Cardinality(O) # 0
    OBVIOUS
  <2>1. PICK x \in S : \A y \in S : x <= y
    BY HasLeast
  <2>2. x \in O
    BY <1>1, <2>1, LeastIsOldest
  <2>. QED  BY <1>2, <2>2, FS_EmptySet
<1>6. IsFiniteSet(S \ O) /\ Cardinality(S \ O) \in Nat
  BY FS_Difference, FS_CardinalityType
<1>7. n - e <= n - Cardinality(O)
  BY <1>2, <1>3
<1>8. S = {} => Cardinality(S \ O) = 0
  BY FS_EmptySet
<1>9. S # {} => n - Cardinality(O) <= n - 1
  BY <1>3, <1>5
<1>10. ASSUME NEW c \in O, NEW d \in S \ O
       PROVE  c < d
  <2>1. c \in S /\ Older(S, c) < e /\ ~(Older(S, d) < e)
    BY <1>1 DEF Oldest
  <2>2. /\ Older(S, c) \in Nat /\ Older(S, d) \in Nat /\ c # d
        /\ c \in Nat /\ d \in Nat
    BY <2>1, OlderFacts
  <2>3. ASSUME d < c PROVE FALSE
    <3>1. Older(S, d) < Older(S, c)
      BY <2>1, <2>3, OlderGrows
    <3>. QED  BY <2>1, <2>2, <3>1
  <2>. QED  BY <2>2, <2>3
<1>. QED  BY <1>1, <1>4, <1>6, <1>7, <1>8, <1>9, <1>10

LEMMA NewerFacts ==
  ASSUME NEW S \in SUBSET Nat, IsFiniteSet(S), NEW c
  PROVE  /\ IsFiniteSet(Newer(S, c)) /\ Newer(S, c) \in SUBSET S
         /\ Cardinality(Newer(S, c)) \in Nat
         /\ Cardinality(Newer(S, c)) <= Cardinality(S)
<1>1. Newer(S, c) \in SUBSET S
  BY DEF Newer
<1>. QED  BY <1>1, FS_Subset, FS_CardinalityType

(* A cut takes the newer ones of a missing commit only when enough others are *)
(* left, and leaves enough for those it takes.                                *)
LEMMA CutNewer ==
  ASSUME NEW S \in SUBSET Nat, IsFiniteSet(S), NEW e \in Nat \ {0}, NEW m \in Int,
         m <= Cardinality(S) - e, NEW c \in Nat,
         c \in Oldest(S, e) \/ m <= Cardinality(Newer(S, c))
  PROVE  m <= Cardinality(Newer(S \ Oldest(S, e), c))
<1>1. PICK L, O : O = Oldest(S, e) /\ L = S \ O
  OBVIOUS
<1>2. /\ L \in SUBSET Nat /\ IsFiniteSet(L) /\ \A d \in O, x \in L : d < x
      /\ Cardinality(S) - e <= Cardinality(L) /\ Cardinality(L) \in Nat
      /\ Cardinality(S) \in Nat /\ O \subseteq S
  <2>1. L \in SUBSET S
    BY <1>1
  <2>2. IsFiniteSet(L) /\ Cardinality(S) \in Nat
    BY <2>1, FS_Subset, FS_CardinalityType
  <2>3. O \subseteq S
    BY <1>1, OldestSize
  <2>. QED  BY <1>1, <2>1, <2>2, <2>3, CutLeaves
<1>3. ASSUME L \subseteq Newer(L, c)
      PROVE  m <= Cardinality(Newer(L, c))
  <2>1. Newer(L, c) = L
    BY <1>3 DEF Newer
  <2>. QED  BY <1>2, <2>1
<1>4. CASE c \in O
  <2>1. L \subseteq Newer(L, c)
    BY <1>2, <1>4 DEF Newer
  <2>. QED  BY <1>1, <1>3, <2>1
<1>5. CASE m <= Cardinality(Newer(S, c)) /\ Newer(S, c) \cap O = {}
  <2>1. Newer(L, c) = Newer(S, c)
    BY <1>1, <1>5 DEF Newer
  <2>. QED  BY <1>1, <1>5, <2>1
<1>6. CASE Newer(S, c) \cap O # {}
  <2>1. PICK d \in O : c < d
    BY <1>6 DEF Newer
  <2>2. d \in Nat
    BY <1>2
  <2>3. ASSUME NEW x \in L PROVE c < x
    BY <1>2, <2>1, <2>2
  <2>4. L \subseteq Newer(L, c)
    BY <2>3 DEF Newer
  <2>. QED  BY <1>1, <1>3, <2>4
<1>. QED  BY <1>1, <1>4, <1>5, <1>6

(* Every step keeps the counts.                                               *)
LEMMA NextCounts ==
  ASSUME TypeInv, TypeInv', CountsInv, [Next]_vars
  PROVE  CountsInv'
<1>1. ASSUME NEW w \in Workers, NEW x, Goes(w, x)
      PROVE  CountsInv'
  <2>0. PICK r, n, k, p, s, n2, k2, p2, s2 :
          /\ r = task[w] /\ n = Cardinality(commits) /\ k = Cardinality(In(Busy))
          /\ p = Cardinality(Pairs) /\ s = CutTwice
          /\ n2 = Cardinality(commits)' /\ k2 = Cardinality(In(Busy)')
          /\ p2 = Cardinality(Pairs') /\ s2 = CutTwice'
    OBVIOUS
  <2>1. /\ task'[w] = x /\ \A v \in Workers : v # w => task'[v] = task[v]
        /\ \A v \in Workers : task[v].count \in Nat
    <3>1. task'[w] = x /\ \A v \in Workers : v # w => task'[v] = task[v]
      BY <1>1, TaskMoves DEF Goes
    <3>2. \A v \in Workers : task[v].count \in Nat
      BY TaskFacts DEF Tasks
    <3>. QED  BY <3>1, <3>2
  <2>2. /\ k <= peak /\ n <= MaxCommits + k + failed
        /\ \A v \in Workers : task[v].at = "cut"
             => /\ task[v].count > MaxCommits
                /\ task[v].count <= MaxCommits + Reach /\ task[v].count <= MaxCommits + MaxOps
        /\ In({"cut"}) # {} => p + MaxCommits <= n + s
        /\ \A c \in known \ commits : MaxCommits <= Cardinality(Newer(commits, c)) + s
    BY <2>0 DEF CountsInv
  <2>3. /\ {n, k, p, s, peak, failed, Reach, MaxCommits, MaxOps, n2, k2, p2} \subseteq Nat
        /\ peak' \in Nat /\ failed' \in Nat /\ s2 \in Nat /\ Reach' \in Nat
    <3>1. {n, k, p, s, peak, failed, Reach, MaxCommits, MaxOps} \subseteq Nat
      BY <2>0, CommitFacts, InFacts, PairsFacts, PeakFacts, ConstantFacts
    <3>2. k2 \in Nat
      BY <1>1, <2>0, InMoves
    <3>3. n2 \in Nat
      <4>1. commits' \subseteq 1..(MaxCommits + MaxOps)
        BY DEF TypeInv
      <4>2. IsFiniteSet(1..(MaxCommits + MaxOps)) /\ commits' \in SUBSET (1..(MaxCommits + MaxOps))
        BY <4>1, ConstantFacts, FS_Interval
      <4>. QED  BY <2>0, <4>2, FS_Subset, FS_CardinalityType
    <3>4. p2 \in Nat
      <4>1. Pairs' \in SUBSET (Workers \X (1..MaxOps))
        BY DEF Pairs
      <4>2. IsFiniteSet(Pairs')
        BY <4>1, PairsFacts, FS_Subset
      <4>. QED  BY <2>0, <4>2, FS_CardinalityType
    <3>5. peak' \in Nat /\ failed' \in Nat
      <4>1. Cardinality(Workers) \in Nat
        BY ConstantFacts, FS_CardinalityType
      <4>. QED  BY <4>1 DEF TypeInv
    <3>6. peak <= peak' /\ failed <= failed'
      <4>1. peak <= Max({peak, Cardinality(Pushing) + 1})
        <5>1. Pushing = In(Busy)
          BY DEF Pushing, In, Busy
        <5>2. Cardinality(Pushing) + 1 \in Nat
          BY <5>1, InFacts
        <5>. QED  BY <3>1, <5>2, MaxOfTwo
      <4>2. failed <= failed + 1 /\ peak <= peak /\ failed <= failed
        BY <3>1
      <4>. QED  BY <1>1, <4>1, <4>2
                DEF Goes, Healthy, Stores, Decides, Remembers, Commits, Keys, commitVars
    <3>7. CutTwice' \in Nat /\ Reach' \in Nat
      BY <3>6, CutTwiceGrows
    <3>. QED  BY <2>0, <3>1, <3>2, <3>3, <3>4, <3>5, <3>7
  <2>4. SUFFICES
          /\ k2 <= peak' /\ n2 <= MaxCommits + k2 + failed'
          /\ \A v \in Workers : task'[v].at = "cut"
               => /\ task'[v].count > MaxCommits
                  /\ task'[v].count <= MaxCommits + Reach'
                  /\ task'[v].count <= MaxCommits + MaxOps
          /\ In({"cut"})' # {} => p2 + MaxCommits <= n2 + s2
          /\ \A c \in known' \ commits' : MaxCommits <= Cardinality(Newer(commits', c)) + s2
    BY <2>0 DEF CountsInv, Newer
  <2>5. ASSUME UNCHANGED <<peak, failed>>
        PROVE  s2 = s /\ Reach' = Reach /\ peak' = peak /\ failed' = failed
    BY <2>0, <2>5 DEF CutTwice, Reach
  <2>6. CASE ~Commits(r, x)
    <3>1. /\ UNCHANGED <<commits, known, peak, failed>>
          /\ x.at \notin Busy /\ r.at \notin Busy
      BY <1>1, <2>0, <2>6
         DEF Goes, Healthy, Stores, Decides, Remembers, Keys, commitVars, Busy
    <3>2. In(Busy)' = In(Busy) /\ In({"cut"})' = In({"cut"}) /\ Pairs' = Pairs
      BY <1>1, <2>0, <3>1, InMoves, PairsMove DEF Busy
    <3>3. \A v \in Workers : task'[v].at = "cut" => task'[v] = task[v]
      BY <2>1, <3>1 DEF Busy
    <3>. QED  BY <2>0, <2>2, <2>5, <3>1, <3>2, <3>3
  <2>7. CASE /\ r.at = "idle" /\ x.at = "count"
             /\ \E c \in 1..(MaxCommits + MaxOps) :
                  c \notin known /\ commits' = commits \cup {c} /\ known' = known \cup {c}
             /\ peak' = Max({peak, Cardinality(Pushing) + 1}) /\ failed' = failed
    <3>1. PICK c \in 1..(MaxCommits + MaxOps) :
            c \notin known /\ commits' = commits \cup {c} /\ known' = known \cup {c}
      BY <2>7
    <3>2. n2 = n + 1
      BY <2>0, <3>1, CommitFacts, FS_AddElement
    <3>3. k2 = k + 1 /\ peak <= peak' /\ k + 1 <= peak'
      <4>1. k2 = k + 1
        BY <1>1, <2>0, <2>7, InMoves DEF Busy
      <4>2. Pushing = In(Busy)
        BY DEF Pushing, In, Busy
      <4>3. k + 1 \in Nat /\ peak' = Max({peak, k + 1})
        BY <2>0, <2>3, <2>7, <4>2
      <4>. QED  BY <2>3, <4>1, <4>3, MaxOfTwo
    <3>4. In({"cut"})' = In({"cut"}) /\ Pairs' = Pairs
      BY <1>1, <2>0, <2>7, InMoves, PairsMove
    <3>5. \A v \in Workers : task'[v].at = "cut" => task'[v] = task[v]
      BY <2>1, <2>7
    <3>6. s <= s2 /\ Reach <= Reach'
      <4>1. failed <= failed'
        BY <2>3, <2>7
      <4>. QED  BY <2>0, <3>3, <4>1, CutTwiceGrows
    <3>7. ASSUME NEW d \in known' \ commits'
          PROVE  MaxCommits <= Cardinality(Newer(commits', d)) + s2
      <4>1. d \in known \ commits
        BY <3>1, <3>7
      <4>2. commits' \in SUBSET Nat /\ IsFiniteSet(commits')
        BY <3>1, CommitFacts, FS_AddElement, ConstantFacts
      <4>3. IsFiniteSet(Newer(commits', d)) /\ Cardinality(Newer(commits', d)) \in Nat
        BY <4>2, NewerFacts
      <4>4. Newer(commits, d) \in SUBSET Newer(commits', d)
        BY <3>1 DEF Newer
      <4>5. Cardinality(Newer(commits, d)) <= Cardinality(Newer(commits', d))
        BY <4>3, <4>4, FS_Subset
      <4>6. Cardinality(Newer(commits, d)) \in Nat
        BY CommitFacts, NewerFacts
      <4>7. MaxCommits <= Cardinality(Newer(commits, d)) + s
        BY <2>2, <4>1
      <4>. QED  BY <2>3, <3>6, <4>3, <4>5, <4>6, <4>7
    <3>8. n + 1 <= MaxCommits + (k + 1) + failed'
      BY <2>2, <2>3, <2>7
    <3>9. p + MaxCommits <= n + s => p + MaxCommits <= n + 1 + s2
      BY <2>3, <3>6
    <3>10. ASSUME NEW v \in Workers, task'[v].at = "cut"
           PROVE  /\ task'[v].count > MaxCommits
                  /\ task'[v].count <= MaxCommits + Reach'
                  /\ task'[v].count <= MaxCommits + MaxOps
      BY <2>1, <2>2, <2>3, <3>5, <3>6, <3>10
    <3>. QED  BY <2>0, <2>2, <3>2, <3>3, <3>4, <3>7, <3>8, <3>9, <3>10
  <2>8. CASE /\ r.at = "count" /\ UNCHANGED <<ops, commits, known, peak, failed>>
             /\ n > MaxCommits /\ x.at = "cut" /\ x.count = n
    <3>1. In(Busy)' = In(Busy)
      BY <1>1, <2>0, <2>8, InMoves DEF Busy
    <3>2. PICK e : e = n - MaxCommits
      OBVIOUS
    <3>3. e \in Nat /\ p <= s
      BY <2>0, <2>3, <2>8, <3>2, OthersPairs
    <3>4. p2 <= p + e
      <4>1. PICK C : C = {w} \X (1..e)
        OBVIOUS
      <4>2. IsFiniteSet(C) /\ Cardinality(C) = e
        BY <3>3, <4>1, ColumnFacts
      <4>3. Pairs' \in SUBSET (Pairs \cup C)
        BY <1>1, <2>0, <2>8, <3>2, <4>1, PairsMove DEF Excess
      <4>4. /\ IsFiniteSet(Pairs \cup C) /\ IsFiniteSet(Pairs \cap C)
            /\ Cardinality(Pairs \cup C) = p + e - Cardinality(Pairs \cap C)
        <5>1. IsFiniteSet(Pairs \cap C)
          BY <4>2, FS_Intersection
        <5>. QED  BY <2>0, <4>2, <5>1, PairsFacts, FS_Union
      <4>5. p2 <= Cardinality(Pairs \cup C)
        BY <2>0, <4>3, <4>4, FS_Subset
      <4>6. PICK u, i : u = Cardinality(Pairs \cup C) /\ i = Cardinality(Pairs \cap C)
        OBVIOUS
      <4>7. i \in Nat /\ u = p + e - i /\ p2 <= u
        BY <4>4, <4>5, <4>6, FS_CardinalityType
      <4>. QED  BY <2>3, <3>3, <4>7
    <3>5. p2 + MaxCommits <= n + s
      BY <2>3, <2>8, <3>2, <3>3, <3>4
    <3>6. n <= MaxCommits + Reach /\ n <= MaxCommits + MaxOps
      <4>1. Reach = peak + failed
        BY DEF Reach
      <4>2. n <= MaxCommits + Reach
        BY <2>2, <2>3, <4>1
      <4>3. commits \in SUBSET (1..(MaxCommits + MaxOps))
        BY DEF TypeInv
      <4>4. /\ IsFiniteSet(1..(MaxCommits + MaxOps))
            /\ Cardinality(1..(MaxCommits + MaxOps)) = MaxCommits + MaxOps
        BY ConstantFacts, FS_Interval
      <4>5. n <= MaxCommits + MaxOps
        BY <2>0, <4>3, <4>4, FS_Subset
      <4>. QED  BY <4>2, <4>5
    <3>7. \A v \in Workers : task'[v].at = "cut"
            => /\ task'[v].count > MaxCommits
               /\ task'[v].count <= MaxCommits + Reach
               /\ task'[v].count <= MaxCommits + MaxOps
      BY <2>1, <2>2, <2>8, <3>6
    <3>. QED  BY <2>0, <2>2, <2>5, <2>8, <3>1, <3>5, <3>7
  <2>9. CASE /\ r.at = "count" /\ UNCHANGED <<ops, commits, known, peak, failed>>
             /\ ~(n > MaxCommits) /\ x.at = "idle"
    <3>1. k2 = k - 1 /\ In({"cut"})' = In({"cut"}) /\ Pairs' = Pairs
      BY <1>1, <2>0, <2>9, InMoves, PairsMove DEF Busy
    <3>2. \A v \in Workers : task'[v].at = "cut" => task'[v] = task[v]
      BY <2>1, <2>9
    <3>3. n <= MaxCommits + k2 + failed /\ k2 <= peak
      BY <2>2, <2>3, <2>9, <3>1
    <3>. QED  BY <2>0, <2>2, <2>5, <2>9, <3>1, <3>2, <3>3
  <2>10. CASE /\ r.at = "cut" /\ x.at = "idle" /\ UNCHANGED <<ops, known, peak, failed>>
              /\ commits' = commits \ Oldest(commits, Excess(r.count))
    <3>1. PICK e : e = Excess(r.count)
      OBVIOUS
    <3>2. e \in Nat \ {0} /\ e <= p /\ {w} \X (1..e) \subseteq Pairs
      BY <2>0, <2>10, <3>1, CutFacts
    <3>3. (n2 = 0 \/ n2 <= n - 1) /\ n - e <= n2
      BY <2>0, <2>10, <3>1, <3>2, CommitFacts, CutLeaves
    <3>4. k2 = k - 1
      BY <1>1, <2>0, <2>10, InMoves DEF Busy
    <3>5. p2 = p - e
      <4>1. PICK C : C = {w} \X (1..e)
        OBVIOUS
      <4>2. Pairs' = Pairs \ C
        BY <1>1, <2>0, <2>10, <3>1, <4>1, PairsMove
      <4>3. Pairs \cap C = C /\ Cardinality(C) = e
        BY <3>2, <4>1, ColumnFacts
      <4>4. Cardinality(Pairs \ C) = Cardinality(Pairs) - Cardinality(Pairs \cap C)
        BY PairsFacts, FS_Difference
      <4>. QED  BY <2>0, <4>2, <4>3, <4>4
    <3>6. p + MaxCommits <= n + s
      <4>1. In({"cut"}) # {}
        BY <2>0, <2>10 DEF In
      <4>. QED  BY <2>2, <4>1
    <3>7. n2 <= MaxCommits + k2 + failed /\ p2 + MaxCommits <= n2 + s /\ k2 <= peak
      BY <2>2, <2>3, <3>2, <3>3, <3>4, <3>5, <3>6
    <3>8. \A v \in Workers : task'[v].at = "cut" => task'[v] = task[v]
      BY <2>1, <2>10
    <3>9. ASSUME NEW c \in known' \ commits'
          PROVE  MaxCommits <= Cardinality(Newer(commits', c)) + s
      <4>1. PICK m : m = MaxCommits - s
        OBVIOUS
      <4>2. m \in Int /\ m <= n - e
        BY <2>3, <3>2, <3>6, <4>1
      <4>3. c \in Nat
        BY <2>10, <3>9, CommitFacts, ConstantFacts
      <4>4. c \in Oldest(commits, e) \/ m <= Cardinality(Newer(commits, c))
        <5>1. CASE c \in commits
          BY <2>10, <3>1, <3>9, <5>1
        <5>2. CASE c \notin commits
          <6>1. MaxCommits <= Cardinality(Newer(commits, c)) + s
            BY <2>2, <2>10, <3>9, <5>2
          <6>2. Cardinality(Newer(commits, c)) \in Nat
            BY CommitFacts, NewerFacts
          <6>. QED  BY <2>3, <4>1, <6>1, <6>2
        <5>. QED  BY <5>1, <5>2
      <4>5. m <= Cardinality(Newer(commits', c))
        BY <2>0, <2>10, <3>1, <3>2, <4>2, <4>3, <4>4, CommitFacts, CutNewer
      <4>6. Cardinality(Newer(commits', c)) \in Nat
        <5>1. commits' \in SUBSET commits
          BY <2>10
        <5>2. commits' \in SUBSET Nat /\ IsFiniteSet(commits')
          BY <5>1, CommitFacts, FS_Subset
        <5>. QED  BY <5>2, NewerFacts
      <4>. QED  BY <2>3, <4>1, <4>5, <4>6
    <3>. QED  BY <2>0, <2>2, <2>5, <2>10, <3>7, <3>8, <3>9
  <2>11. CASE /\ r.at \in Busy /\ x.at = "idle" /\ UNCHANGED <<ops, commits, known, peak>>
              /\ failed' = failed + 1
    <3>1. k2 = k - 1
      BY <1>1, <2>0, <2>11, InMoves DEF Busy
    <3>2. s <= s2 /\ Reach <= Reach' /\ n2 = n
      <4>1. peak <= peak' /\ failed <= failed'
        BY <2>3, <2>11
      <4>. QED  BY <2>0, <2>11, <4>1, CutTwiceGrows
    <3>3. p2 <= p
      <4>1. Pairs' \in SUBSET Pairs
        BY <1>1, <2>0, <2>11, PairsMove DEF Busy
      <4>. QED  BY <2>0, <4>1, PairsFacts, FS_Subset
    <3>4. In({"cut"})' # {} => In({"cut"}) # {}
      BY <2>1, <2>11 DEF In
    <3>5. ASSUME NEW v \in Workers, task'[v].at = "cut"
          PROVE  /\ task'[v].count > MaxCommits
                 /\ task'[v].count <= MaxCommits + Reach'
                 /\ task'[v].count <= MaxCommits + MaxOps
      <4>1. task'[v] = task[v] /\ task[v].at = "cut"
        BY <2>1, <2>11, <3>5
      <4>. QED  BY <2>1, <2>2, <2>3, <3>2, <4>1
    <3>6. n <= MaxCommits + k2 + failed' /\ k2 <= peak'
      BY <2>2, <2>3, <2>11, <3>1
    <3>7. p + MaxCommits <= n + s => p2 + MaxCommits <= n2 + s2
      BY <2>3, <3>2, <3>3
    <3>8. ASSUME NEW c \in known \ commits
          PROVE  MaxCommits <= Cardinality(Newer(commits, c)) + s2
      <4>1. Cardinality(Newer(commits, c)) \in Nat
        BY CommitFacts, NewerFacts
      <4>. QED  BY <2>2, <2>3, <3>2, <3>8, <4>1
    <3>. QED  BY <2>2, <2>11, <3>2, <3>4, <3>5, <3>6, <3>7, <3>8
  <2>. QED  BY <1>1, <2>0, <2>6, <2>7, <2>8, <2>9, <2>10, <2>11 DEF Commits, commitVars, Busy
<1>2. CASE Expire
  <2>1. CASE UNCHANGED commitVars
    <3>1. UNCHANGED task
      BY <1>2 DEF Expire
    <3>2. In(Busy)' = In(Busy) /\ In({"cut"})' = In({"cut"}) /\ Pairs' = Pairs
      BY <3>1 DEF In, Pairs, Excess
    <3>. QED  BY <2>1, <3>1, <3>2 DEF CountsInv, CutTwice, Reach, commitVars, Newer
  <2>2. CASE /\ Pushing = {} /\ commits' = {} /\ known' = {} /\ peak' = 1 /\ failed' = 0
             /\ UNCHANGED task
    <3>1. \A w \in Workers : task'[w].at \notin Busy
      BY <2>2 DEF Pushing, Busy
    <3>2. In(Busy)' = {} /\ In({"cut"})' = {}
      BY <3>1 DEF In, Busy
    <3>3. Cardinality(commits)' = 0 /\ Cardinality(In(Busy)') = 0
      BY <2>2, <3>2, FS_EmptySet
    <3>4. 0 <= MaxCommits + 0 + 0 /\ 0 <= 1
      BY ConstantFacts
    <3>. QED  BY <2>2, <3>1, <3>2, <3>3, <3>4 DEF CountsInv, Busy
  <2>. QED  BY <1>2, <2>1, <2>2 DEF Expire
<1>3. CASE UNCHANGED vars
  <2>1. In(Busy)' = In(Busy) /\ In({"cut"})' = In({"cut"}) /\ Pairs' = Pairs
    BY <1>3 DEF In, Pairs, Excess, vars
  <2>. QED  BY <1>3, <2>1 DEF CountsInv, CutTwice, Reach, Newer, vars
<1>. QED  BY <1>1, <1>2, <1>3, StepCases

LEMMA InitCommits == Init => CountsInv
<1>. SUFFICES ASSUME Init PROVE CountsInv
  OBVIOUS
<1>1. PICK n \in 0..MaxCommits : known = 1..n /\ commits = 1..n
  BY DEF Init
<1>2. \A w \in Workers : task[w].at = "idle"
  BY IdleFacts DEF Init
<1>3. In(Busy) = {} /\ In({"cut"}) = {}
  BY <1>2 DEF In, Busy
<1>4. Cardinality(In(Busy)) = 0 /\ Cardinality(commits) = n /\ peak = 1 /\ failed = 0
  BY <1>1, <1>3, FS_EmptySet, FS_Interval DEF Init
<1>5. Cardinality(commits) <= MaxCommits + Cardinality(In(Busy)) + failed
  BY <1>4, ConstantFacts
<1>. QED  BY <1>1, <1>2, <1>3, <1>4, <1>5 DEF CountsInv

-------------------------------------------------------------------------------
(* L is the latest of S, as many as the list may hold.                        *)
Kept(L, S) ==
  /\ L \subseteq S
  /\ \A x \in L, y \in S \ L : y < x
  /\ Cardinality(L) <= MaxCommits
  /\ Cardinality(L) = MaxCommits \/ L = S

LEMMA KeptIsLatest ==
  ASSUME NEW S \in SUBSET Nat, IsFiniteSet(S), NEW L, Kept(L, S)
  PROVE  L = S \ Oldest(S, Cardinality(S) - MaxCommits)
<1>0. PICK D, n, O : /\ D = S \ L /\ n = Cardinality(S) - MaxCommits
                     /\ O = Oldest(S, n)
  OBVIOUS
<1>1. /\ L \in SUBSET S /\ \A x \in L, y \in D : y < x
      /\ Cardinality(L) <= MaxCommits
      /\ Cardinality(L) = MaxCommits \/ L = S
      /\ \A d \in S : d \in Nat
  BY <1>0 DEF Kept
<1>2. /\ IsFiniteSet(D) /\ Cardinality(D) \in Nat /\ Cardinality(S) \in Nat
      /\ Cardinality(D) = Cardinality(S) - Cardinality(L)
      /\ IsFiniteSet(L) /\ Cardinality(L) \in Nat
  <2>1. IsFiniteSet(L)
    BY <1>1, FS_Subset
  <2>2. S \cap L = L
    BY <1>1
  <2>3. IsFiniteSet(S \ L) /\ Cardinality(S \ L) = Cardinality(S) - Cardinality(S \cap L)
    BY FS_Difference
  <2>. QED  BY <1>0, <2>1, <2>2, <2>3, FS_CardinalityType
<1>3. CASE L = S
  <2>1. n \in Int /\ n <= 0
    BY <1>0, <1>1, <1>2, <1>3, ConstantFacts
  <2>2. \A c \in S : Older(S, c) \in Nat
    BY OlderFacts
  <2>3. O = {}
    <3>1. ASSUME NEW c \in S PROVE ~(Older(S, c) < n)
      BY <2>1, <2>2
    <3>. QED  BY <1>0, <3>1 DEF Oldest
  <2>. QED  BY <1>0, <1>3, <2>3
<1>4. CASE Cardinality(L) = MaxCommits
  <2>1. n = Cardinality(D)
    BY <1>0, <1>2, <1>4
  <2>2. ASSUME NEW c \in D
        PROVE  Older(S, c) < n
    <3>1. PICK B : B = {d \in S : d < c}
      OBVIOUS
    <3>2. ASSUME NEW d \in B
          PROVE  d \in D \ {c}
      <4>1. d \in S /\ d < c /\ c \in S /\ d \in Nat /\ c \in Nat
        BY <1>0, <1>1, <3>1
      <4>2. d \notin L
        BY <1>1, <4>1
      <4>. QED  BY <1>0, <4>1, <4>2
    <3>3. IsFiniteSet(D \ {c}) /\ Cardinality(D \ {c}) = n - 1
      BY <1>2, <2>1, FS_RemoveElement
    <3>4. B \in SUBSET (D \ {c})
      BY <3>2
    <3>5. Cardinality(B) <= n - 1 /\ IsFiniteSet(B)
      BY <3>3, <3>4, FS_Subset
    <3>6. Cardinality(B) \in Nat
      BY <3>5, FS_CardinalityType
    <3>7. Older(S, c) = Cardinality(B)
      BY <3>1 DEF Older
    <3>. QED  BY <1>2, <2>1, <3>5, <3>6, <3>7
  <2>3. ASSUME NEW c \in L
        PROVE  ~(Older(S, c) < n)
    <3>1. PICK B : B = {d \in S : d < c}
      OBVIOUS
    <3>2. D \in SUBSET B
      BY <1>0, <1>1, <3>1
    <3>3. IsFiniteSet(B) /\ Older(S, c) = Cardinality(B) /\ Older(S, c) \in Nat
      BY <3>1, OlderFacts DEF Older
    <3>4. n <= Cardinality(B)
      BY <2>1, <3>2, <3>3, FS_Subset
    <3>. QED  BY <1>2, <2>1, <3>3, <3>4
  <2>4. \A c \in S : c \in O <=> c \in D
    BY <1>0, <2>2, <2>3 DEF Oldest
  <2>. QED  BY <1>0, <1>1, <2>4
<1>. QED  BY <1>1, <1>3, <1>4

(* What a prompt tells of the past is the latest there is: the turns without  *)
(* a gap; a commit is missing only for as many newer ones, less what pushes   *)
(* at once cut for each other; the latest commit while that leaves one; and   *)
(* all of the latest ones if no push met another or failed.                   *)
THEOREM LatestKeptCorrect == Spec => []LatestKept
<1>1. ASSUME TypeInv, TurnInv, CountsInv
      PROVE  LatestKept
  <2>1. \A n \in DOMAIN history : history[n] = turns - n + 1
    <3>1. DOMAIN history = 1..Len(history)
      BY <1>1, TaskFacts DEF TypeInv
    <3>. QED  BY <1>1, <3>1 DEF TurnInv
  <2>2. \A c \in known \ commits : MaxCommits <= Cardinality(Newer(commits, c)) + CutTwice
    BY <1>1 DEF CountsInv
  <2>3. ASSUME known # {}, CutTwice < MaxCommits
        PROVE  Max(known) \in Recent(Max(known))
    <3>0. /\ \A d \in known : d \in Nat
          /\ known \in SUBSET (0..(MaxCommits + MaxOps)) /\ MaxCommits + MaxOps \in Nat
      BY <1>1, CommitFacts, ConstantFacts
    <3>1. PICK c \in known : \A d \in known : d <= c
      BY <2>3, <3>0, HasGreatest
    <3>2. Max(known) = c
      <4>1. \E m \in known : \A d \in known : m >= d
        BY <3>0, <3>1
      <4>2. Max(known) \in known /\ \A d \in known : Max(known) >= d
        BY <4>1 DEF Max
      <4>3. c \in Nat /\ Max(known) \in Nat /\ c <= Max(known) /\ Max(known) <= c
        BY <3>0, <3>1, <4>2
      <4>. QED  BY <4>3
    <3>3. c \in commits
      <4>. SUFFICES ASSUME c \notin commits PROVE FALSE
        OBVIOUS
      <4>1. Newer(commits, c) = {}
        <5>1. ASSUME NEW d \in commits PROVE ~(c < d)
          BY <1>1, <3>0, <3>1, CommitFacts
        <5>. QED  BY <5>1 DEF Newer
      <4>2. Cardinality(Newer(commits, c)) = 0
        BY <4>1, FS_EmptySet
      <4>3. MaxCommits <= 0 + CutTwice
        BY <2>2, <4>2
      <4>. QED  BY <1>1, <2>3, <4>3, PeakFacts, ConstantFacts
    <3>4. PICK seen : seen = {d \in commits : c - Window <= d /\ d <= c + Slack}
      OBVIOUS
    <3>5. /\ seen \in SUBSET Nat /\ IsFiniteSet(seen) /\ c \in seen
          /\ \A d \in seen : d <= c
      <4>1. seen \in SUBSET commits
        BY <3>4
      <4>2. seen \in SUBSET Nat /\ IsFiniteSet(seen)
        BY <1>1, <4>1, CommitFacts, FS_Subset
      <4>3. c - Window <= c /\ c <= c + Slack
        BY <3>0, ConstantFacts
      <4>4. \A d \in seen : d \in known
        BY <1>1, <4>1, CommitFacts
      <4>. QED  BY <3>1, <3>3, <3>4, <4>2, <4>3, <4>4
    <3>6. PICK n : n = Cardinality(seen) - Shown
      OBVIOUS
    <3>7. n \in Int /\ n < Cardinality(seen)
      BY <3>5, <3>6, FS_CardinalityType, ConstantFacts
    <3>8. c \notin Oldest(seen, n)
      BY <3>5, <3>7, GreatestStays
    <3>9. Recent(c) = seen \ Oldest(seen, n)
      BY <3>4, <3>6 DEF Recent
    <3>. QED  BY <3>2, <3>5, <3>8, <3>9
  <2>4. ASSUME peak = 1, failed = 0, Pushing = {}
        PROVE  commits = known \ Oldest(known, Cardinality(known) - MaxCommits)
    <3>1. Cardinality(In(Busy)) = 0
      <4>1. In(Busy) = {}
        BY <2>4 DEF Pushing, In, Busy
      <4>. QED  BY <4>1, FS_EmptySet
    <3>2. CutTwice = 0 /\ Cardinality(commits) <= MaxCommits
      <4>1. CutTwice = 0
        BY <2>4 DEF CutTwice
      <4>2. MaxCommits + 0 + 0 = MaxCommits
        BY ConstantFacts
      <4>. QED  BY <1>1, <2>4, <3>1, <4>1, <4>2 DEF CountsInv
    <3>3. ASSUME NEW y \in known \ commits
          PROVE  Cardinality(commits) = MaxCommits /\ \A x \in commits : y < x
      <4>1. MaxCommits <= Cardinality(Newer(commits, y)) + 0
        BY <2>2, <3>2, <3>3
      <4>2. /\ Newer(commits, y) \in SUBSET commits
            /\ Cardinality(Newer(commits, y)) \in Nat
            /\ Cardinality(Newer(commits, y)) <= Cardinality(commits)
            /\ IsFiniteSet(commits) /\ Cardinality(commits) \in Nat
        BY <1>1, CommitFacts, NewerFacts
      <4>3. /\ Cardinality(commits) = MaxCommits
            /\ Cardinality(Newer(commits, y)) = Cardinality(commits)
        BY <3>2, <4>1, <4>2, ConstantFacts
      <4>4. Newer(commits, y) = commits
        BY <4>2, <4>3, FS_Subset
      <4>. QED  BY <4>3, <4>4 DEF Newer
    <3>4. commits \subseteq known
      BY <1>1, CommitFacts
    <3>5. Kept(commits, known)
      BY <3>2, <3>3, <3>4 DEF Kept
    <3>6. known \in SUBSET Nat
      <4>1. \A d \in known : d \in Nat
        BY <1>1, CommitFacts
      <4>. QED  BY <4>1
    <3>. QED  BY <1>1, <3>5, <3>6, CommitFacts, KeptIsLatest
  <2>. QED  BY <2>1, <2>2, <2>3, <2>4 DEF LatestKept, Newer
<1>2. TypeInv /\ TypeInv' /\ CountsInv /\ [Next]_vars => CountsInv'
  BY NextCounts
<1>. QED  BY <1>1, <1>2, InitCounts, InitCommits, NextTurns, TypeInvAlways, PTL DEF Spec

=============================================================================
