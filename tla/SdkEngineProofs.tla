---------------------------- MODULE SdkEngineProofs ----------------------------
(***************************************************************************)
(* Proofs about SdkEngine, for any number of instances, endpoints, requests  *)
(* and runs and any limits.                                                 *)
(***************************************************************************)
EXTENDS SdkEngine, FiniteSetTheorems, WellFoundedInduction, TLAPS

-------------------------------------------------------------------------------
(* Numbers, sets and sequences.                                               *)

LEMMA ConstantFacts ==
  /\ Bucket \in Nat \ {0} /\ QueueSize \in Nat \ {0} /\ BatchSize \in Nat \ {0}
  /\ MaxKeys \in Nat \ {0} /\ CbThreshold \in Nat \ {0} /\ MaxRuns \in Nat \ {0}
  /\ BufferSize \in Nat /\ MaxTime \in Nat /\ MaxMetrics \in Nat
  /\ IsFiniteSet(Instances)
BY EngineAssumption

LEMMA LeastOfTwo ==
  ASSUME NEW m \in Int, NEW n \in Int
  PROVE  Min({m, n}) = IF m <= n THEN m ELSE n
<1>1. \E x \in {m, n} : \A y \in {m, n} : x <= y
  OBVIOUS
<1>2. Min({m, n}) \in {m, n} /\ \A y \in {m, n} : Min({m, n}) <= y
  BY <1>1 DEF Min
<1>. QED  BY <1>2

LEMMA HasLeast ==
  ASSUME NEW S \in SUBSET Nat, S # {}
  PROVE  \E x \in S : \A y \in S : x <= y
<1>1. PICK R : R = {ss \in Nat \X Nat : ss[1] < ss[2]}
  OBVIOUS
<1>2. IsWellFoundedOn(R, Nat)
  BY <1>1, NatLessThanWellFounded DEF OpToRel
<1>3. PICK x \in S : \A y \in S : ~(<<y, x>> \in R)
  BY <1>2, WFMin
<1>4. \A y \in S : ~(y < x)
  BY <1>1, <1>3
<1>. QED  BY <1>4

(* The minute of a later time is not an earlier one.                          *)
LEMMA MinuteGrows ==
  ASSUME NEW s \in Nat, NEW t \in Nat, s <= t
  PROVE  s \div Bucket \in Nat /\ t \div Bucket \in Nat /\ s \div Bucket <= t \div Bucket
BY ConstantFacts

-------------------------------------------------------------------------------
(* The metrics of a batch, and the fields that find room in memory.           *)

LEMMA OfFacts ==
  ASSUME NEW batch \in Seq(Fields), NEW f
  PROVE  /\ Of(batch, f) \in SUBSET Nat
         /\ IsFiniteSet(Of(batch, f))
         /\ Cardinality(Of(batch, f)) \in 0..Len(batch)
         /\ Cardinality(Of(batch, f)) = 0 <=> Of(batch, f) = {}
         /\ Of(batch, f) = {} <=> f \notin Range(batch)
<1>1. DOMAIN batch = 1..Len(batch) /\ Len(batch) \in Nat
  OBVIOUS
<1>2. Of(batch, f) \in SUBSET (1..Len(batch))
  BY <1>1 DEF Of
<1>3. IsFiniteSet(1..Len(batch)) /\ Cardinality(1..Len(batch)) = Len(batch)
  BY <1>1, FS_Interval
<1>4. IsFiniteSet(Of(batch, f)) /\ Cardinality(Of(batch, f)) <= Len(batch)
  BY <1>2, <1>3, FS_Subset
<1>5. Cardinality(Of(batch, f)) \in Nat
  BY <1>4, FS_CardinalityType
<1>6. Cardinality(Of(batch, f)) = 0 <=> Of(batch, f) = {}
  BY <1>4, FS_EmptySet
<1>7. Of(batch, f) = {} <=> f \notin Range(batch)
  BY DEF Of, Range
<1>. QED  BY <1>1, <1>2, <1>4, <1>5, <1>6, <1>7

(* The fields of a batch come in a total order.                               *)
LEMMA SoonerFacts ==
  ASSUME NEW batch \in Seq(Fields), NEW f, NEW g, NEW h
  PROVE  /\ ~Sooner(batch, f, f)
         /\ Sooner(batch, h, g) /\ Sooner(batch, g, f) => Sooner(batch, h, f)
         /\ f \in Range(batch) /\ g \in Range(batch) /\ f # g
              => Sooner(batch, f, g) \/ Sooner(batch, g, f)
<1>0. \A x : \A j \in Of(batch, x) : j \in Nat
  BY OfFacts
<1>1. ~Sooner(batch, f, f)
  BY <1>0 DEF Sooner
<1>2. ASSUME Sooner(batch, h, g), Sooner(batch, g, f)
      PROVE  Sooner(batch, h, f)
  <2>1. PICK j \in Of(batch, h) : \A m \in Of(batch, g) : j < m
    BY <1>2 DEF Sooner
  <2>2. PICK l \in Of(batch, g) : \A m \in Of(batch, f) : l < m
    BY <1>2 DEF Sooner
  <2>3. \A m \in Of(batch, f) : j < m
    <3>1. ASSUME NEW m \in Of(batch, f) PROVE j < m
      <4>1. j < l /\ l < m /\ j \in Nat /\ l \in Nat /\ m \in Nat
        BY <1>0, <2>1, <2>2
      <4>. QED  BY <4>1
    <3>. QED  BY <3>1
  <2>. QED  BY <2>3 DEF Sooner
<1>3. ASSUME f \in Range(batch), g \in Range(batch), f # g
      PROVE  Sooner(batch, f, g) \/ Sooner(batch, g, f)
  <2>1. PICK j \in Of(batch, f) : \A m \in Of(batch, f) : j <= m
    BY <1>3, OfFacts, HasLeast
  <2>2. PICK l \in Of(batch, g) : \A m \in Of(batch, g) : l <= m
    BY <1>3, OfFacts, HasLeast
  <2>3. j # l
    BY <1>3 DEF Of
  <2>4. j \in Nat /\ l \in Nat
    BY <1>0
  <2>5. CASE j < l
    <3>1. ASSUME NEW m \in Of(batch, g) PROVE j < m
      <4>1. m \in Nat /\ l <= m
        BY <1>0, <2>2
      <4>. QED  BY <2>4, <2>5, <4>1
    <3>. QED  BY <3>1 DEF Sooner
  <2>6. CASE l < j
    <3>1. ASSUME NEW m \in Of(batch, f) PROVE l < m
      <4>1. m \in Nat /\ j <= m
        BY <1>0, <2>1
      <4>. QED  BY <2>4, <2>6, <4>1
    <3>. QED  BY <3>1 DEF Sooner
  <2>. QED  BY <2>3, <2>4, <2>5, <2>6
<1>. QED  BY <1>1, <1>2, <1>3

LEMMA NewFacts ==
  ASSUME NEW counts, NEW batch \in Seq(Fields)
  PROVE  /\ NewFields(counts, batch) \subseteq Range(batch)
         /\ NewFields(counts, batch) \subseteq Fields
         /\ IsFiniteSet(NewFields(counts, batch))
         /\ Admitted(counts, batch) \subseteq NewFields(counts, batch)
<1>1. batch \in [1..Len(batch) -> Fields] /\ Len(batch) \in Nat
  OBVIOUS
<1>2. batch \in Surjection(1..Len(batch), Range(batch))
  BY <1>1 DEF Surjection, Range
<1>3. IsFiniteSet(1..Len(batch))
  BY <1>1, FS_Interval
<1>4. IsFiniteSet(Range(batch))
  BY <1>2, <1>3, FS_Surjection
<1>5. NewFields(counts, batch) \in SUBSET Range(batch)
  BY DEF NewFields
<1>6. IsFiniteSet(NewFields(counts, batch))
  BY <1>4, <1>5, FS_Subset
<1>7. Range(batch) \subseteq Fields
  BY <1>1 DEF Range
<1>. QED  BY <1>5, <1>6, <1>7 DEF Admitted

(* Of the fields that are new, each that is let in has found room, and they   *)
(* take a place each.                                                        *)
LEMMA AdmittedSize ==
  ASSUME NEW counts, NEW batch \in Seq(Fields), IsFiniteSet(DOMAIN counts),
         Cardinality(DOMAIN counts) <= MaxKeys
  PROVE  /\ IsFiniteSet(Admitted(counts, batch))
         /\ Cardinality(Admitted(counts, batch)) \in Nat
         /\ Cardinality(DOMAIN counts) + Cardinality(Admitted(counts, batch)) <= MaxKeys
<1>1. PICK new, d, A : /\ new = NewFields(counts, batch)
                       /\ d = Cardinality(DOMAIN counts)
                       /\ A = Admitted(counts, batch)
  OBVIOUS
<1>2. PICK before : before = [f \in new |-> {g \in new : Sooner(batch, g, f)}]
  OBVIOUS
<1>3. IsFiniteSet(new) /\ A \subseteq new /\ new \subseteq Range(batch)
  BY <1>1, NewFacts
<1>4. d \in Nat /\ MaxKeys - d \in Nat
  BY <1>1, FS_CardinalityType, ConstantFacts
<1>5. ASSUME NEW f \in new
      PROVE  /\ IsFiniteSet(before[f]) /\ Cardinality(before[f]) \in Nat
             /\ f \in A <=> Cardinality(before[f]) < MaxKeys - d
  <2>1. before[f] \in SUBSET new
    BY <1>2
  <2>2. IsFiniteSet(before[f])
    BY <1>3, <2>1, FS_Subset
  <2>3. Cardinality(before[f]) \in Nat
    BY <2>2, FS_CardinalityType
  <2>4. f \in A <=> d + Cardinality(before[f]) < MaxKeys
    BY <1>1, <1>2 DEF Admitted
  <2>. QED  BY <1>4, <2>2, <2>3, <2>4, ConstantFacts
<1>6. ASSUME NEW f \in new, NEW g \in new, Sooner(batch, g, f)
      PROVE  Cardinality(before[g]) # Cardinality(before[f])
  <2>1. before[g] \in SUBSET before[f]
    BY <1>2, <1>6, SoonerFacts
  <2>2. g \in before[f] /\ g \notin before[g]
    BY <1>2, <1>6, SoonerFacts
  <2>. QED  BY <1>5, <2>1, <2>2, FS_Subset
<1>7. PICK rank : rank = [f \in A |-> Cardinality(before[f])]
  OBVIOUS
<1>8. rank \in [A -> 0..(MaxKeys - d - 1)]
  <2>1. ASSUME NEW f \in A PROVE Cardinality(before[f]) \in 0..(MaxKeys - d - 1)
    BY <1>3, <1>4, <1>5
  <2>. QED  BY <1>7, <2>1
<1>9. \A f, g \in A : rank[f] = rank[g] => f = g
  <2>1. ASSUME NEW f \in A, NEW g \in A, f # g PROVE rank[f] # rank[g]
    <3>1. f \in new /\ g \in new /\ f \in Range(batch) /\ g \in Range(batch)
      BY <1>3
    <3>2. Sooner(batch, f, g) \/ Sooner(batch, g, f)
      BY <2>1, <3>1, SoonerFacts
    <3>. QED  BY <1>6, <1>7, <3>1, <3>2
  <2>. QED  BY <2>1
<1>10. rank \in Injection(A, 0..(MaxKeys - d - 1))
  BY <1>8, <1>9 DEF Injection, IsInjective
<1>11. IsFiniteSet(0..(MaxKeys - d - 1)) /\ Cardinality(0..(MaxKeys - d - 1)) = MaxKeys - d
  <2>1. PICK r \in Nat : r = MaxKeys - d
    BY <1>4
  <2>2. IsFiniteSet(0..(r - 1)) /\ Cardinality(0..(r - 1)) = r
    BY FS_Interval
  <2>. QED  BY <2>1, <2>2
<1>12. IsFiniteSet(A) /\ Cardinality(A) <= MaxKeys - d
  BY <1>10, <1>11, FS_Injection
<1>13. Cardinality(A) \in Nat
  BY <1>12, FS_CardinalityType
<1>. QED  BY <1>1, <1>4, <1>12, <1>13, ConstantFacts

(* Counts of the metrics of one instance: some, of at most MaxKeys keys.      *)
Counts(counts) ==
  /\ DOMAIN counts \subseteq Keys
  /\ IsFiniteSet(DOMAIN counts) /\ Cardinality(DOMAIN counts) <= MaxKeys
  /\ \A k \in DOMAIN counts : counts[k] \in Nat \ {0}

LEMMA WithoutFacts ==
  ASSUME NEW counts, Counts(counts), NEW keys
  PROVE  /\ Counts(Without(counts, keys))
         /\ DOMAIN Without(counts, keys) = DOMAIN counts \ keys
         /\ \A k \in DOMAIN counts \ keys : Without(counts, keys)[k] = counts[k]
<1>1. PICK c : c = Without(counts, keys)
  OBVIOUS
<1>2. DOMAIN c = DOMAIN counts \ keys /\ \A k \in DOMAIN counts \ keys : c[k] = counts[k]
  BY <1>1 DEF Without
<1>3. DOMAIN c \in SUBSET DOMAIN counts
  BY <1>2
<1>4. IsFiniteSet(DOMAIN c) /\ Cardinality(DOMAIN c) <= Cardinality(DOMAIN counts)
  BY <1>3, FS_Subset DEF Counts
<1>5. Cardinality(DOMAIN c) \in Nat /\ Cardinality(DOMAIN counts) \in Nat
  BY <1>4, FS_CardinalityType DEF Counts
<1>6. Cardinality(DOMAIN c) <= MaxKeys
  BY <1>4, <1>5, ConstantFacts DEF Counts
<1>. QED  BY <1>1, <1>2, <1>3, <1>4, <1>6 DEF Counts

(* c is counts with the metrics of batch.                                     *)
AddsUp(counts, batch, c) ==
  /\ DOMAIN c = DOMAIN counts \cup ({Minute} \X Admitted(counts, batch))
  /\ \A k \in DOMAIN c :
       c[k] = (IF k \in DOMAIN counts THEN counts[k] ELSE 0)
                + IF k[1] = Minute THEN Cardinality(Of(batch, k[2])) ELSE 0

LEMMA AggregatedFacts ==
  ASSUME NEW counts, Counts(counts), NEW batch \in Seq(Fields),
         Minute \in 0..(MaxTime \div Bucket)
  PROVE  /\ Counts(Aggregated(counts, batch))
         /\ AddsUp(counts, batch, Aggregated(counts, batch))
<1>1. PICK A, c : A = Admitted(counts, batch) /\ c = Aggregated(counts, batch)
  OBVIOUS
<1>2. /\ DOMAIN c = DOMAIN counts \cup ({Minute} \X A)
      /\ \A k \in DOMAIN c :
           c[k] = (IF k \in DOMAIN counts THEN counts[k] ELSE 0)
                    + IF k[1] = Minute THEN Cardinality(Of(batch, k[2])) ELSE 0
  BY <1>1 DEF Aggregated
<1>3. A \subseteq Fields /\ A \subseteq Range(batch)
  BY <1>1, NewFacts
<1>4. DOMAIN c \subseteq Keys
  BY <1>2, <1>3 DEF Counts, Keys
<1>5. /\ IsFiniteSet(A) /\ Cardinality(A) \in Nat
      /\ Cardinality(DOMAIN counts) + Cardinality(A) <= MaxKeys
  BY <1>1, AdmittedSize DEF Counts
<1>6. IsFiniteSet({Minute}) /\ Cardinality({Minute}) = 1
  BY FS_Singleton
<1>7. /\ IsFiniteSet({Minute} \X A)
      /\ Cardinality({Minute} \X A) = 1 * Cardinality(A)
  BY <1>5, <1>6, FS_Product
<1>8. Cardinality({Minute} \X A) = Cardinality(A)
  BY <1>5, <1>7
<1>9. /\ IsFiniteSet(DOMAIN c)
      /\ Cardinality(DOMAIN c)
           = Cardinality(DOMAIN counts) + Cardinality({Minute} \X A)
               - Cardinality((DOMAIN counts) \cap ({Minute} \X A))
  <2>1. IsFiniteSet(DOMAIN counts)
    BY DEF Counts
  <2>. QED  BY <1>2, <1>7, <2>1, FS_Union
<1>10. (DOMAIN counts) \cap ({Minute} \X A) \in SUBSET (DOMAIN counts)
  OBVIOUS
<1>11. IsFiniteSet((DOMAIN counts) \cap ({Minute} \X A))
  BY <1>10, FS_Subset DEF Counts
<1>12. /\ Cardinality((DOMAIN counts) \cap ({Minute} \X A)) \in Nat
       /\ Cardinality(DOMAIN counts) \in Nat
  BY <1>11, FS_CardinalityType DEF Counts
<1>13. Cardinality(DOMAIN c) <= MaxKeys
  BY <1>5, <1>8, <1>9, <1>12, ConstantFacts
<1>14. ASSUME NEW k \in DOMAIN c PROVE c[k] \in Nat \ {0}
  <2>1. PICK m \in Nat : m = Cardinality(Of(batch, k[2]))
    BY OfFacts
  <2>2. CASE k \in DOMAIN counts
    <3>1. counts[k] \in Nat \ {0}
      BY <2>2 DEF Counts
    <3>. QED  BY <1>2, <2>1, <2>2, <3>1
  <2>3. CASE k \notin DOMAIN counts
    <3>1. k \in {Minute} \X A
      BY <1>2, <2>3
    <3>2. k[1] = Minute /\ k[2] \in Range(batch)
      BY <1>3, <3>1
    <3>3. m # 0
      BY <2>1, <3>2, OfFacts
    <3>. QED  BY <1>2, <2>1, <2>3, <3>2, <3>3
  <2>. QED  BY <2>2, <2>3
<1>. QED  BY <1>1, <1>2, <1>4, <1>9, <1>13, <1>14 DEF Counts, AddsUp

-------------------------------------------------------------------------------
(* The breaker of the writes and its buffer.                                  *)

Breaker(b) ==
  /\ b \in [state : {"closed", "open", "half_open"}, failures : Nat,
            buffer : Seq(Fields), dropped : Nat]
  /\ Len(b.buffer) <= BufferSize

LEMMA ClosedFacts == Breaker(Closed)
<1>1. <<>> \in Seq(Fields) /\ Len(<<>>) = 0
  OBVIOUS
<1>. QED  BY <1>1, ConstantFacts DEF Breaker, Closed

(* What does not fit the buffer is dropped.                                   *)
LEMMA KeptFacts ==
  ASSUME NEW b, Breaker(b), NEW batch \in Seq(Fields)
  PROVE  Breaker(Kept(b, batch))
<1>1. PICK room, kept : /\ room = BufferSize - Len(b.buffer)
                        /\ kept = IF room < Len(batch) THEN room ELSE Len(batch)
  OBVIOUS
<1>2. /\ b.buffer \in Seq(Fields) /\ b.dropped \in Nat
      /\ b.state \in {"closed", "open", "half_open"} /\ b.failures \in Nat
      /\ Len(b.buffer) <= BufferSize
  BY DEF Breaker
<1>3. Len(b.buffer) \in Nat /\ Len(batch) \in Nat
  BY <1>2
<1>4. kept \in 0..Len(batch) /\ Len(b.buffer) + kept <= BufferSize
  <2>1. PICK m \in Nat, n \in Nat : m = Len(b.buffer) /\ n = Len(batch)
    BY <1>3
  <2>2. kept = IF BufferSize - m < n THEN BufferSize - m ELSE n
    BY <1>1, <2>1
  <2>3. kept \in 0..n /\ m + kept <= BufferSize
    <3>1. m <= BufferSize /\ BufferSize \in Nat
      BY <1>2, <2>1, ConstantFacts
    <3>2. CASE BufferSize - m < n
      BY <2>2, <3>1, <3>2
    <3>3. CASE ~(BufferSize - m < n)
      BY <2>2, <3>1, <3>3
    <3>. QED  BY <3>2, <3>3
  <2>. QED  BY <2>1, <2>3
<1>5. PICK s : s = SubSeq(batch, 1, kept)
  OBVIOUS
<1>6. s \in Seq(Fields) /\ Len(s) = kept
  BY <1>4, <1>5
<1>7. b.buffer \o s \in Seq(Fields) /\ Len(b.buffer \o s) = Len(b.buffer) + kept
  BY <1>2, <1>6
<1>8. b.dropped + Len(batch) - kept \in Nat
  BY <1>2, <1>3, <1>4
<1>9. Kept(b, batch) = [b EXCEPT !.buffer = b.buffer \o s,
                                 !.dropped = b.dropped + Len(batch) - kept]
  BY <1>1, <1>5 DEF Kept
<1>10. b = [state |-> b.state, failures |-> b.failures, buffer |-> b.buffer,
            dropped |-> b.dropped]
  BY DEF Breaker
<1>11. Kept(b, batch) = [state |-> b.state, failures |-> b.failures,
                         buffer |-> b.buffer \o s,
                         dropped |-> b.dropped + Len(batch) - kept]
  BY <1>9, <1>10
<1>. QED  BY <1>2, <1>4, <1>7, <1>8, <1>11 DEF Breaker

LEMMA SafeWritesFacts ==
  ASSUME NEW b, Breaker(b), NEW batch \in Seq(Fields),
         NEW result \in SafeWrites(b, batch)
  PROVE  Breaker(result.cb)
<1>1. /\ b.state \in {"closed", "open", "half_open"} /\ b.failures \in Nat
      /\ b.buffer \in Seq(Fields) /\ b.dropped \in Nat
  BY DEF Breaker
<1>2. Breaker(Succeeded(Probed(b)))
  <2>1. Probed(b).dropped = b.dropped /\ Probed(b).buffer = b.buffer
    BY DEF Probed, Breaker
  <2>2. PICK left : left = IF Probed(b).state = "closed" THEN Probed(b).buffer ELSE <<>>
    OBVIOUS
  <2>3. Succeeded(Probed(b)) = [state |-> "closed", failures |-> 0, buffer |-> left,
                                dropped |-> b.dropped]
    <3>1. Succeeded(Probed(b)) = [Closed EXCEPT !.buffer = left, !.dropped = b.dropped]
      BY <2>1, <2>2 DEF Succeeded
    <3>. QED  BY <3>1 DEF Closed
  <2>4. <<>> \in Seq(Fields) /\ Len(<<>>) = 0 /\ Len(b.buffer) <= BufferSize
    BY DEF Breaker
  <2>5. left \in Seq(Fields) /\ Len(left) <= BufferSize
    BY <1>1, <2>1, <2>2, <2>4, ConstantFacts
  <2>. QED  BY <1>1, <2>3, <2>5 DEF Breaker
<1>3. CASE result = Skip(b, batch)
  BY <1>3, KeptFacts DEF Skip
<1>4. CASE \E outcome \in WriteOutcomes : result = Write(Probed(b), batch, outcome)
  <2>1. PICK outcome \in WriteOutcomes : result = Write(Probed(b), batch, outcome)
    BY <1>4
  <2>2. result.cb = Succeeded(Probed(b))
    <3>1. CASE outcome = "written"
      BY <2>1, <3>1 DEF Write
    <3>2. CASE outcome = "swallowed"
      BY <2>1, <3>2 DEF Write
    <3>. QED  BY <3>1, <3>2 DEF WriteOutcomes
  <2>. QED  BY <1>2, <2>2
<1>. QED  BY <1>3, <1>4 DEF SafeWrites

-------------------------------------------------------------------------------
(* The types.  The counts of one instance stay below MaxMetrics because they  *)
(* and the metrics it has yet to count were all served.                       *)

(* The queue and the counts of instance i.                                    *)
Holds(i) ==
  /\ queue[i] \in Seq(Fields) /\ Len(queue[i]) <= QueueSize
  /\ Len(queue[i]) <= served
  /\ Counts(agg[i])
  /\ \A k \in DOMAIN agg[i] : agg[i][k] + Len(queue[i]) <= served
  /\ Breaker(cb[i])

TypeInv ==
  /\ now \in 0..MaxTime
  /\ run \in [Instances -> 0..MaxRuns]
  /\ mode \in [Instances -> {"down", "redis", "memory"}]
  /\ stopping \subseteq Instances
  /\ DOMAIN queue = Instances /\ DOMAIN agg = Instances /\ DOMAIN cb = Instances
  /\ flushed \in [Instances -> 0..MaxTime]
  /\ served \in 0..MaxMetrics
  /\ hash \in [Keys -> 0..MaxMetrics]
  /\ seen \in [Keys -> Nat]
  /\ writers \in [Keys -> SUBSET (Instances \X (0..MaxRuns))]
  /\ failed \subseteq 0..(MaxTime \div Bucket)
  /\ \A i \in Instances : Holds(i)

LEMMA MinuteFacts ==
  ASSUME now \in 0..MaxTime
  PROVE  Minute \in 0..(MaxTime \div Bucket) /\ MaxTime \div Bucket \in Nat
BY MinuteGrows, ConstantFacts DEF Minute

LEMMA EmptyFacts == /\ <<>> \in Seq(Fields) /\ Len(<<>>) = 0
                    /\ Counts(Nothing) /\ DOMAIN Nothing = {}
<1>1. DOMAIN Nothing = {}
  BY DEF Nothing
<1>2. IsFiniteSet({}) /\ Cardinality({}) <= MaxKeys
  BY FS_EmptySet, ConstantFacts
<1>. QED  BY <1>1, <1>2 DEF Counts

LEMMA InitType == Init => TypeInv
<1>. SUFFICES ASSUME Init PROVE TypeInv
  OBVIOUS
<1>1. \A i \in Instances : queue[i] = <<>> /\ agg[i] = Nothing /\ cb[i] = Closed
  BY DEF Init
<1>2. served = 0
  BY DEF Init
<1>3. ASSUME NEW i \in Instances PROVE Holds(i)
  <2>1. queue[i] = <<>> /\ agg[i] = Nothing /\ cb[i] = Closed /\ served = 0
    BY <1>1, <1>2
  <2>2. /\ queue[i] \in Seq(Fields) /\ Len(queue[i]) <= QueueSize
        /\ Len(queue[i]) <= served
    BY <2>1, EmptyFacts, ConstantFacts
  <2>3. Counts(agg[i]) /\ DOMAIN agg[i] = {}
    BY <2>1, EmptyFacts
  <2>4. Breaker(cb[i])
    BY <2>1, ClosedFacts
  <2>. QED  BY <2>2, <2>3, <2>4 DEF Holds
<1>. QED  BY <1>3, ConstantFacts DEF Init, TypeInv

(* What publishing some of the counts leaves in Redis.                        *)
LEMMA PublishType ==
  ASSUME TypeInv, NEW i \in Instances, NEW counts, Counts(counts),
         NEW keys \in SUBSET DOMAIN counts, NEW lost \in SUBSET (0..(MaxTime \div Bucket)),
         \A k \in DOMAIN counts : counts[k] <= served,
         Publish(i, counts, keys, lost)
  PROVE  /\ hash' \in [Keys -> 0..MaxMetrics]
         /\ writers' \in [Keys -> SUBSET (Instances \X (0..MaxRuns))]
         /\ failed' \subseteq 0..(MaxTime \div Bucket)
<1>1. PICK part \in SUBSET keys :
        /\ hash' = [k \in Keys |-> IF k \in part THEN counts[k] ELSE hash[k]]
        /\ writers' = [k \in Keys |-> IF k \in part THEN writers[k] \cup {<<i, run[i]>>}
                                      ELSE writers[k]]
        /\ failed' = failed \cup lost \cup IF part = keys THEN {} ELSE {k[1] : k \in keys}
  BY DEF Publish
<1>2. \A k \in DOMAIN counts : counts[k] \in 0..MaxMetrics
  BY ConstantFacts DEF Counts, TypeInv
<1>3. hash' \in [Keys -> 0..MaxMetrics]
  BY <1>1, <1>2 DEF TypeInv
<1>4. writers' \in [Keys -> SUBSET (Instances \X (0..MaxRuns))]
  <2>1. <<i, run[i]>> \in Instances \X (0..MaxRuns)
    BY DEF TypeInv
  <2>. QED  BY <1>1, <2>1 DEF TypeInv
<1>5. {k[1] : k \in keys} \subseteq 0..(MaxTime \div Bucket)
  <2>1. \A k \in Keys : k[1] \in 0..(MaxTime \div Bucket)
    BY DEF Keys
  <2>. QED  BY <2>1 DEF Counts
<1>. QED  BY <1>1, <1>3, <1>4, <1>5 DEF TypeInv

(* A pass of drain(): the metrics it takes, and what it does with them.       *)
Passes(i, n, batch, counts, keys, lost) ==
  /\ n \in Nat /\ batch \in Seq(Fields) /\ Len(batch) = n /\ n <= Len(queue[i])
  /\ counts = Aggregated(agg[i], batch)
  /\ keys = IF Due(i) THEN PastMinutes(counts) ELSE {}
  /\ lost = IF Admitted(agg[i], batch) = NewFields(agg[i], batch) THEN {} ELSE {Minute}
  /\ queue'[i] \in Seq(Fields) /\ Len(queue'[i]) = Len(queue[i]) - n
  /\ \A j \in Instances \ {i} : queue'[j] = queue[j]
  /\ agg'[i] = Without(counts, keys)
  /\ \A j \in Instances \ {i} : agg'[j] = agg[j]
  /\ seen' = [k \in Keys |-> IF k[1] = Minute THEN seen[k] + Cardinality(Of(batch, k[2]))
                             ELSE seen[k]]
  /\ DOMAIN cb' = Instances
  /\ \A j \in Instances : Breaker(cb'[j])
  /\ Publish(i, counts, keys, lost)

LEMMA DrainPasses ==
  ASSUME TypeInv, NEW i \in Instances, Drain(i)
  PROVE  \E n, batch, counts, keys, lost : Passes(i, n, batch, counts, keys, lost)
<1>1. PICK q : q = queue[i]
  OBVIOUS
<1>2. PICK n, batch, counts, keys, lost :
        /\ n = Min({BatchSize, Len(q)})
        /\ batch = SubSeq(q, 1, n)
        /\ counts = Aggregated(agg[i], batch)
        /\ keys = IF Due(i) THEN PastMinutes(counts) ELSE {}
        /\ lost = IF Admitted(agg[i], batch) = NewFields(agg[i], batch) THEN {} ELSE {Minute}
  OBVIOUS
<1>3. q \in Seq(Fields) /\ Len(q) \in Nat
  BY <1>1 DEF TypeInv, Holds
<1>4. n \in Nat /\ n <= Len(q)
  <2>1. n = IF BatchSize <= Len(q) THEN BatchSize ELSE Len(q)
    BY <1>2, <1>3, LeastOfTwo, ConstantFacts
  <2>. QED  BY <1>3, <2>1, ConstantFacts
<1>5. batch \in Seq(Fields) /\ Len(batch) = n
  <2>1. SubSeq(q, 1, n) \in Seq(Fields) /\ Len(SubSeq(q, 1, n)) = n
    BY <1>3, <1>4
  <2>. QED  BY <1>2, <2>1
<1>6. /\ SubSeq(q, n + 1, Len(q)) \in Seq(Fields)
      /\ Len(SubSeq(q, n + 1, Len(q))) = Len(q) - n
  BY <1>3, <1>4
<1>7. /\ queue' = [queue EXCEPT ![i] = SubSeq(@, n + 1, Len(@))]
      /\ agg' = [agg EXCEPT ![i] = Without(counts, keys)]
      /\ seen' = [k \in Keys |-> IF k[1] = Minute THEN seen[k] + Cardinality(Of(batch, k[2]))
                                 ELSE seen[k]]
      /\ IF mode[i] = "memory" \/ n = 0 THEN UNCHANGED <<cb, stream>>
         ELSE \E result \in SafeWrites(cb[i], batch) :
                /\ cb' = [cb EXCEPT ![i] = result.cb]
                /\ stream' = stream + result.wrote
      /\ Publish(i, counts, keys, lost)
  BY <1>1, <1>2 DEF Drain
<1>8. /\ queue'[i] = SubSeq(q, n + 1, Len(q)) /\ \A j \in Instances \ {i} : queue'[j] = queue[j]
      /\ agg'[i] = Without(counts, keys) /\ \A j \in Instances \ {i} : agg'[j] = agg[j]
  BY <1>1, <1>7 DEF TypeInv
<1>9. DOMAIN cb' = Instances /\ \A j \in Instances : Breaker(cb'[j])
  <2>1. DOMAIN cb = Instances /\ \A j \in Instances : Breaker(cb[j])
    BY DEF TypeInv, Holds
  <2>2. CASE mode[i] = "memory" \/ n = 0
    BY <1>7, <2>1, <2>2
  <2>3. CASE ~(mode[i] = "memory" \/ n = 0)
    <3>1. PICK result \in SafeWrites(cb[i], batch) : cb' = [cb EXCEPT ![i] = result.cb]
      BY <1>7, <2>3
    <3>2. Breaker(result.cb)
      BY <1>5, <2>1, SafeWritesFacts
    <3>. QED  BY <2>1, <3>1, <3>2
  <2>. QED  BY <2>2, <2>3
<1>10. Passes(i, n, batch, counts, keys, lost)
  BY <1>1, <1>2, <1>4, <1>5, <1>6, <1>7, <1>8, <1>9 DEF Passes
<1>. QED  BY <1>10

LEMMA PassCounts ==
  ASSUME TypeInv, NEW i \in Instances, NEW n, NEW batch, NEW counts, NEW keys, NEW lost,
         Passes(i, n, batch, counts, keys, lost)
  PROVE  /\ Counts(counts) /\ keys \in SUBSET DOMAIN counts
         /\ \A k \in DOMAIN counts : counts[k] + Len(queue[i]) - n <= served
         /\ \A k \in DOMAIN counts : counts[k] <= served
         /\ lost \in SUBSET (0..(MaxTime \div Bucket))
         /\ Len(queue[i]) \in Nat
<1>1. Counts(agg[i]) /\ Minute \in 0..(MaxTime \div Bucket) /\ batch \in Seq(Fields)
  BY MinuteFacts DEF TypeInv, Holds, Passes
<1>2. /\ Counts(counts)
      /\ \A k \in DOMAIN counts :
           counts[k] = (IF k \in DOMAIN agg[i] THEN agg[i][k] ELSE 0)
                         + IF k[1] = Minute THEN Cardinality(Of(batch, k[2])) ELSE 0
  <2>1. Counts(Aggregated(agg[i], batch)) /\ AddsUp(agg[i], batch, Aggregated(agg[i], batch))
    BY <1>1, AggregatedFacts
  <2>. QED  BY <2>1 DEF AddsUp, Passes
<1>3. PICK len \in Nat : len = Len(queue[i])
  BY DEF TypeInv, Holds
<1>4. n \in Nat /\ n <= len /\ len <= served /\ served \in Nat
  BY <1>3 DEF Passes, TypeInv, Holds
<1>5. ASSUME NEW k \in DOMAIN counts
      PROVE  counts[k] + len - n <= served /\ counts[k] <= served
  <2>1. PICK d : d = IF k[1] = Minute THEN Cardinality(Of(batch, k[2])) ELSE 0
    OBVIOUS
  <2>2. d \in 0..n
    <3>1. Cardinality(Of(batch, k[2])) \in 0..n
      BY OfFacts DEF Passes
    <3>. QED  BY <1>4, <2>1, <3>1
  <2>3. PICK a : a = IF k \in DOMAIN agg[i] THEN agg[i][k] ELSE 0
    OBVIOUS
  <2>4. a \in Nat /\ a + len <= served
    <3>1. CASE k \in DOMAIN agg[i]
      BY <1>1, <1>3, <2>3, <3>1 DEF Counts, TypeInv, Holds
    <3>2. CASE k \notin DOMAIN agg[i]
      BY <1>4, <2>3, <3>2
    <3>. QED  BY <3>1, <3>2
  <2>5. counts[k] = a + d
    BY <1>2, <2>1, <2>3
  <2>. QED  BY <1>4, <2>2, <2>4, <2>5
<1>6. keys \in SUBSET DOMAIN counts
  BY DEF Passes, PastMinutes
<1>7. lost \in SUBSET (0..(MaxTime \div Bucket))
  BY <1>1 DEF Passes
<1>. QED  BY <1>2, <1>3, <1>5, <1>6, <1>7

LEMMA DrainType ==
  ASSUME TypeInv, NEW i \in Instances, Drain(i)
  PROVE  TypeInv'
<1>1. PICK n, batch, counts, keys, lost : Passes(i, n, batch, counts, keys, lost)
  BY DrainPasses
<1>2. /\ Counts(counts) /\ keys \in SUBSET DOMAIN counts
      /\ \A k \in DOMAIN counts : counts[k] + Len(queue[i]) - n <= served
      /\ \A k \in DOMAIN counts : counts[k] <= served
      /\ lost \in SUBSET (0..(MaxTime \div Bucket))
      /\ Len(queue[i]) \in Nat
  BY <1>1, PassCounts
<1>3. /\ hash' \in [Keys -> 0..MaxMetrics]
      /\ writers' \in [Keys -> SUBSET (Instances \X (0..MaxRuns))]
      /\ failed' \subseteq 0..(MaxTime \div Bucket)
  BY <1>1, <1>2, PublishType DEF Passes
<1>4. /\ UNCHANGED <<now, run, mode, stopping, served>>
      /\ DOMAIN queue' = Instances /\ DOMAIN agg' = Instances
      /\ flushed' \in [Instances -> 0..MaxTime]
  <2>1. /\ flushed' = [flushed EXCEPT ![i] = now] /\ now \in 0..MaxTime
        /\ flushed \in [Instances -> 0..MaxTime]
    BY DEF Drain, TypeInv
  <2>2. flushed' \in [Instances -> 0..MaxTime]
    BY <2>1
  <2>. QED  BY <2>2 DEF Drain, TypeInv
<1>5. seen' \in [Keys -> Nat]
  <2>1. ASSUME NEW k \in Keys PROVE seen[k] \in Nat /\ Cardinality(Of(batch, k[2])) \in Nat
    BY <1>1, OfFacts DEF Passes, TypeInv
  <2>2. seen' = [k \in Keys |-> IF k[1] = Minute THEN seen[k] + Cardinality(Of(batch, k[2]))
                                ELSE seen[k]]
    BY <1>1 DEF Passes
  <2>. QED  BY <2>1, <2>2
<1>6. Holds(i)'
  <2>1. PICK len \in Nat : len = Len(queue[i])
    BY <1>2
  <2>2. /\ n \in Nat /\ n <= len /\ len <= QueueSize /\ len <= served
        /\ served' = served /\ served \in Nat
    BY <1>1, <1>4, <2>1 DEF Passes, TypeInv, Holds
  <2>3. queue'[i] \in Seq(Fields) /\ Len(queue'[i]) = len - n
    BY <1>1, <2>1 DEF Passes
  <2>4. Len(queue'[i]) <= QueueSize /\ Len(queue'[i]) <= served'
    BY <2>2, <2>3, ConstantFacts
  <2>5. /\ agg'[i] = Without(counts, keys) /\ Counts(agg'[i])
        /\ DOMAIN agg'[i] = DOMAIN counts \ keys
        /\ \A k \in DOMAIN agg'[i] : agg'[i][k] = counts[k]
    <3>1. agg'[i] = Without(counts, keys)
      BY <1>1 DEF Passes
    <3>2. Counts(counts)
      BY <1>2
    <3>3. /\ Counts(Without(counts, keys))
          /\ DOMAIN Without(counts, keys) = DOMAIN counts \ keys
          /\ \A k \in DOMAIN counts \ keys : Without(counts, keys)[k] = counts[k]
      BY <3>2, WithoutFacts
    <3>. QED  BY <3>1, <3>3
  <2>6. \A k \in DOMAIN agg'[i] : agg'[i][k] + Len(queue'[i]) <= served'
    <3>1. ASSUME NEW k \in DOMAIN agg'[i] PROVE agg'[i][k] + Len(queue'[i]) <= served'
      <4>1. k \in DOMAIN counts /\ agg'[i][k] = counts[k]
        BY <2>5
      <4>2. counts[k] + len - n <= served /\ counts[k] \in Nat
        BY <1>2, <2>1, <4>1 DEF Counts
      <4>. QED  BY <2>2, <2>3, <4>1, <4>2
    <3>. QED  BY <3>1
  <2>7. Breaker(cb'[i])
    BY <1>1 DEF Passes
  <2>8. Counts(agg[i])' <=> Counts(agg'[i])
    BY DEF Counts, Keys
  <2>9. Breaker(cb[i])' <=> Breaker(cb'[i])
    BY DEF Breaker
  <2>. QED  BY <2>3, <2>4, <2>5, <2>6, <2>7, <2>8, <2>9 DEF Holds
<1>7. ASSUME NEW j \in Instances, j # i PROVE Holds(j)'
  <2>1. queue'[j] = queue[j] /\ agg'[j] = agg[j] /\ served' = served /\ Breaker(cb'[j])
    BY <1>1, <1>4, <1>7 DEF Passes
  <2>2. Holds(j)
    BY DEF TypeInv
  <2>. QED  BY <2>1, <2>2 DEF Holds, Counts, Breaker, Keys
<1>8. \A j \in Instances : Holds(j)'
  BY <1>6, <1>7
<1>9. DOMAIN cb' = Instances
  BY <1>1 DEF Passes
<1>. QED  BY <1>3, <1>4, <1>5, <1>8, <1>9 DEF TypeInv, Keys

(* What stays of an instance that nothing happens to.                         *)
LEMMA HoldsStays ==
  ASSUME TypeInv, NEW j \in Instances, queue'[j] = queue[j], agg'[j] = agg[j],
         cb'[j] = cb[j], served' \in Nat, served <= served'
  PROVE  Holds(j)'
<1>1. Holds(j) /\ served \in Nat
  BY DEF TypeInv
<1>2. queue'[j] \in Seq(Fields) /\ Len(queue'[j]) <= QueueSize /\ Len(queue'[j]) <= served'
  <2>1. Len(queue[j]) \in Nat /\ Len(queue[j]) <= served
    BY <1>1 DEF Holds
  <2>. QED  BY <1>1, <2>1 DEF Holds
<1>3. Counts(agg[j])'
  BY <1>1 DEF Holds, Counts, Keys
<1>4. ASSUME NEW k \in DOMAIN agg'[j] PROVE agg'[j][k] + Len(queue'[j]) <= served'
  <2>1. agg[j][k] \in Nat /\ Len(queue[j]) \in Nat /\ agg[j][k] + Len(queue[j]) <= served
    BY <1>1, <1>4 DEF Holds, Counts
  <2>. QED  BY <1>1, <2>1
<1>5. Breaker(cb[j])'
  BY <1>1 DEF Holds, Breaker
<1>. QED  BY <1>2, <1>3, <1>4, <1>5 DEF Holds

(* An instance that is down holds nothing.                                    *)
LEMMA DownHolds ==
  ASSUME TypeInv, NEW j \in Instances, queue'[j] = <<>>, agg'[j] = Nothing,
         cb'[j] = Closed, served' = served
  PROVE  Holds(j)'
<1>1. /\ queue'[j] \in Seq(Fields) /\ Len(queue'[j]) <= QueueSize
      /\ Len(queue'[j]) <= served'
  BY EmptyFacts, ConstantFacts DEF TypeInv
<1>2. Counts(agg[j])' /\ DOMAIN agg'[j] = {}
  BY EmptyFacts DEF Counts, Keys
<1>3. Breaker(cb[j])'
  BY ClosedFacts DEF Breaker
<1>. QED  BY <1>1, <1>2, <1>3 DEF Holds

LEMMA ServeType ==
  ASSUME TypeInv, NEW i \in Instances, NEW f \in Fields, Serve(i, f)
  PROVE  TypeInv'
<1>1. /\ served' = served + 1 /\ served < MaxMetrics /\ served \in Nat
      /\ queue' = [queue EXCEPT ![i] = Queued(queue[i], f)]
      /\ UNCHANGED <<now, run, mode, stopping, agg, flushed, cb, redisVars, history>>
  BY DEF Serve, TypeInv
<1>2. DOMAIN queue' = Instances /\ served' \in 0..MaxMetrics
  BY <1>1, ConstantFacts DEF TypeInv
<1>3. ASSUME NEW j \in Instances, j # i PROVE Holds(j)'
  <2>1. queue'[j] = queue[j] /\ agg'[j] = agg[j] /\ cb'[j] = cb[j]
    BY <1>1, <1>3 DEF TypeInv
  <2>. QED  BY <1>1, <2>1, HoldsStays
<1>4. Holds(i)'
  <2>1. PICK q, r : q = queue[i] /\ r = queue'[i]
    OBVIOUS
  <2>2. /\ q \in Seq(Fields) /\ Len(q) \in Nat /\ Len(q) <= QueueSize /\ Len(q) <= served
        /\ r = Queued(q, f)
    BY <1>1, <2>1 DEF TypeInv, Holds
  <2>3. r \in Seq(Fields) /\ Len(r) \in Nat /\ Len(r) <= QueueSize /\ Len(r) <= Len(q) + 1
    <3>1. CASE Len(q) < QueueSize
      <4>1. Append(q, f) \in Seq(Fields) /\ Len(Append(q, f)) = Len(q) + 1
        BY <2>2
      <4>. QED  BY <2>2, <3>1, <4>1, ConstantFacts DEF Queued
    <3>2. CASE ~(Len(q) < QueueSize)
      BY <2>2, <3>2 DEF Queued
    <3>. QED  BY <3>1, <3>2
  <2>4. agg' = agg /\ cb' = cb
    BY <1>1
  <2>5. Len(r) <= served'
    BY <1>1, <2>2, <2>3
  <2>6. ASSUME NEW k \in DOMAIN agg'[i] PROVE agg'[i][k] + Len(r) <= served'
    <3>1. agg[i][k] \in Nat /\ agg[i][k] + Len(q) <= served
      BY <2>1, <2>4, <2>6 DEF TypeInv, Holds, Counts
    <3>. QED  BY <1>1, <2>2, <2>3, <2>4, <3>1
  <2>7. Counts(agg[i])' /\ Breaker(cb[i])'
    BY <2>4 DEF TypeInv, Holds, Counts, Keys, Breaker
  <2>. QED  BY <2>1, <2>3, <2>5, <2>6, <2>7 DEF Holds
<1>5. \A j \in Instances : Holds(j)'
  BY <1>3, <1>4
<1>. QED  BY <1>1, <1>2, <1>5 DEF TypeInv, Keys, redisVars, history

LEMMA StartType ==
  ASSUME TypeInv, NEW i \in Instances, Start(i)
  PROVE  TypeInv'
<1>1. /\ run' = [run EXCEPT ![i] = run[i] + 1] /\ run[i] < MaxRuns
      /\ \E m \in {"redis", "memory"} : mode' = [mode EXCEPT ![i] = m]
      /\ flushed' = [flushed EXCEPT ![i] = 0]
      /\ cb' = [cb EXCEPT ![i] = Closed]
      /\ UNCHANGED <<now, stopping, queue, agg, redisVars, served, history>>
  BY DEF Start
<1>2. /\ run' \in [Instances -> 0..MaxRuns]
      /\ mode' \in [Instances -> {"down", "redis", "memory"}]
      /\ flushed' \in [Instances -> 0..MaxTime]
      /\ DOMAIN cb' = Instances
  <2>1. run[i] + 1 \in 0..MaxRuns
    BY <1>1, ConstantFacts DEF TypeInv
  <2>2. 0 \in 0..MaxTime
    BY ConstantFacts
  <2>. QED  BY <1>1, <2>1, <2>2 DEF TypeInv
<1>3. ASSUME NEW j \in Instances PROVE Holds(j)'
  <2>1. Breaker(cb[j]) /\ Breaker(Closed)
    BY ClosedFacts DEF TypeInv, Holds
  <2>2. cb'[j] = cb[j] \/ cb'[j] = Closed
    BY <1>1 DEF TypeInv
  <2>3. Breaker(cb[j])'
    BY <2>1, <2>2 DEF Breaker
  <2>4. Holds(j) /\ queue' = queue /\ agg' = agg /\ served' = served
    BY <1>1 DEF TypeInv
  <2>. QED  BY <2>3, <2>4 DEF Holds, Counts, Keys
<1>. QED  BY <1>1, <1>2, <1>3 DEF TypeInv, Keys, redisVars, history

LEMMA StopType ==
  ASSUME TypeInv, NEW i \in Instances, Stop(i) \/ Kill(i)
  PROVE  TypeInv'
<1>1. /\ agg' = [agg EXCEPT ![i] = Nothing]
      /\ DOMAIN queue' = Instances /\ DOMAIN cb' = Instances
      /\ \A j \in Instances \ {i} : queue'[j] = queue[j] /\ cb'[j] = cb[j]
      /\ Stop(i) => queue'[i] = queue[i] /\ cb'[i] = cb[i]
      /\ ~Stop(i) => queue'[i] = <<>> /\ cb'[i] = Closed
      /\ UNCHANGED <<now, flushed, served, seen>>
  <2>1. CASE Stop(i)
    BY <2>1 DEF Stop, TypeInv
  <2>2. CASE ~Stop(i)
    BY <2>2 DEF Kill, redisVars, TypeInv
  <2>. QED  BY <2>1, <2>2
<1>2. /\ mode' \in [Instances -> {"down", "redis", "memory"}]
      /\ run' \in [Instances -> 0..MaxRuns]
      /\ stopping' \subseteq Instances
      /\ DOMAIN queue' = Instances /\ DOMAIN agg' = Instances /\ DOMAIN cb' = Instances
  <2>1. CASE Stop(i)
    <3>1. run' = [run EXCEPT ![i] = run[i] + 1] /\ run[i] + 1 \in 0..MaxRuns
      BY <2>1, ConstantFacts DEF Stop, TypeInv
    <3>. QED  BY <1>1, <2>1, <3>1 DEF Stop, TypeInv
  <2>2. CASE Kill(i)
    BY <1>1, <2>2 DEF Kill, TypeInv
  <2>. QED  BY <2>1, <2>2
<1>3. Counts(agg[i]) /\ \A k \in DOMAIN agg[i] : agg[i][k] <= served
  <2>1. Holds(i) /\ served \in Nat
    BY DEF TypeInv
  <2>2. ASSUME NEW k \in DOMAIN agg[i] PROVE agg[i][k] <= served
    <3>1. agg[i][k] \in Nat /\ Len(queue[i]) \in Nat /\ agg[i][k] + Len(queue[i]) <= served
      BY <2>1 DEF Holds, Counts
    <3>. QED  BY <2>1, <3>1
  <2>. QED  BY <2>1, <2>2 DEF Holds
<1>4. /\ hash' \in [Keys -> 0..MaxMetrics]
      /\ writers' \in [Keys -> SUBSET (Instances \X (0..MaxRuns))]
      /\ failed' \subseteq 0..(MaxTime \div Bucket)
  <2>1. CASE Stop(i)
    <3>1. Publish(i, agg[i], DOMAIN agg[i], {})
      BY <2>1 DEF Stop
    <3>2. DOMAIN agg[i] \in SUBSET DOMAIN agg[i] /\ {} \in SUBSET (0..(MaxTime \div Bucket))
      OBVIOUS
    <3>. QED  BY <1>3, <3>1, <3>2, PublishType
  <2>2. CASE Kill(i)
    <3>1. hash' = hash /\ writers' = writers /\ failed' = failed \cup {k[1] : k \in DOMAIN agg[i]}
      BY <2>2 DEF Kill, redisVars
    <3>2. \A k \in Keys : k[1] \in 0..(MaxTime \div Bucket)
      BY DEF Keys
    <3>. QED  BY <1>3, <3>1, <3>2 DEF TypeInv, Counts
  <2>. QED  BY <2>1, <2>2
<1>5. ASSUME NEW j \in Instances PROVE Holds(j)'
  <2>1. CASE j = i
    <3>1. agg'[j] = Nothing /\ served' = served
      BY <1>1, <2>1 DEF TypeInv
    <3>2. CASE Stop(i)
      <4>1. queue'[j] = queue[j] /\ cb'[j] = cb[j] /\ Holds(j)
        BY <1>1, <2>1, <3>2 DEF TypeInv
      <4>. QED  BY <3>1, <4>1, EmptyFacts DEF Holds, Counts, Keys, Breaker
    <3>3. CASE ~Stop(i)
      <4>1. queue'[j] = <<>> /\ cb'[j] = Closed
        BY <1>1, <2>1, <3>3 DEF TypeInv
      <4>. QED  BY <3>1, <4>1, DownHolds
    <3>. QED  BY <3>2, <3>3
  <2>2. CASE j # i
    <3>1. queue'[j] = queue[j] /\ agg'[j] = agg[j] /\ cb'[j] = cb[j] /\ served' = served
      BY <1>1, <2>2 DEF TypeInv
    <3>2. served' \in Nat /\ served <= served'
      BY <3>1 DEF TypeInv
    <3>. QED  BY <3>1, <3>2, HoldsStays
  <2>. QED  BY <2>1, <2>2
<1>. QED  BY <1>1, <1>2, <1>4, <1>5 DEF TypeInv, Keys

LEMMA NextType == TypeInv /\ [Next]_vars => TypeInv'
<1>. SUFFICES ASSUME TypeInv, [Next]_vars PROVE TypeInv'
  OBVIOUS
<1>1. CASE \E i \in Instances : Start(i)
  BY <1>1, StartType
<1>2. CASE \E i \in Instances : Drain(i)
  BY <1>2, DrainType
<1>3. CASE \E i \in Instances : Stop(i) \/ Kill(i)
  BY <1>3, StopType
<1>4. CASE \E i \in Instances, f \in Fields : Serve(i, f)
  BY <1>4, ServeType
<1>5. ASSUME UNCHANGED <<run, mode, stopping, queue, agg, flushed, cb, redisVars, served,
                          history>>,
             now' \in 0..MaxTime
      PROVE  TypeInv'
  <2>1. \A j \in Instances : Holds(j)'
    <3>1. served' \in Nat /\ served <= served'
      BY <1>5 DEF TypeInv
    <3>. QED  BY <1>5, <3>1, HoldsStays
  <2>. QED  BY <1>5, <2>1 DEF TypeInv, Keys, redisVars, history
<1>6. CASE Tick
  <2>1. now' \in 0..MaxTime
    BY <1>6, ConstantFacts DEF Tick, TypeInv
  <2>. QED  BY <1>5, <1>6, <2>1 DEF Tick
<1>7. CASE UNCHANGED vars
  BY <1>5, <1>7 DEF vars, redisVars, history, TypeInv
<1>. QED  BY <1>1, <1>2, <1>3, <1>4, <1>6, <1>7 DEF Next

LEMMA TypeInvAlways == Spec => []TypeInv
BY InitType, NextType, PTL DEF Spec

(* The queue and the memory of every instance keep their limits, no count is  *)
(* higher than the metrics served, and what was published and lost is typed.  *)
THEOREM EngineTypeCorrect == Spec => []TypeOK
<1>1. TypeInv => TypeOK
  <2>. SUFFICES ASSUME TypeInv PROVE TypeOK
    OBVIOUS
  <2>1. ASSUME NEW i \in Instances
        PROVE  /\ queue[i] \in Seq(Fields) /\ Len(queue[i]) <= QueueSize
               /\ DOMAIN agg[i] \subseteq Keys /\ Cardinality(DOMAIN agg[i]) <= MaxKeys
               /\ \A k \in DOMAIN agg[i] : agg[i][k] \in 1..MaxMetrics
               /\ Len(cb[i].buffer) <= BufferSize
               /\ cb[i].state \in {"closed", "open", "half_open"}
    <3>1. Holds(i) /\ served \in 0..MaxMetrics
      BY DEF TypeInv
    <3>2. ASSUME NEW k \in DOMAIN agg[i] PROVE agg[i][k] \in 1..MaxMetrics
      <4>1. /\ agg[i][k] \in Nat \ {0} /\ Len(queue[i]) \in Nat
            /\ agg[i][k] + Len(queue[i]) <= served
        BY <3>1 DEF Holds, Counts
      <4>. QED  BY <3>1, <4>1, ConstantFacts
    <3>. QED  BY <3>1, <3>2 DEF Holds, Counts, Breaker
  <2>. QED  BY <2>1 DEF TypeInv, TypeOK
<1>. QED  BY <1>1, TypeInvAlways, PTL

-------------------------------------------------------------------------------
(* The metrics in memory: what one instance does changes its own share.       *)

MemoryOf(a, k) == {o \in Instances \X (1..MaxMetrics) :
                     k \in DOMAIN a[o[1]] /\ o[2] <= a[o[1]][k]}
Share(a, i, k) == IF k \in DOMAIN a[i] THEN a[i][k] ELSE 0

LEMMA ShareFacts ==
  ASSUME NEW a, NEW k, NEW i \in Instances, Share(a, i, k) \in 0..MaxMetrics
  PROVE  /\ IsFiniteSet(MemoryOf(a, k)) /\ Cardinality(MemoryOf(a, k)) \in Nat
         /\ IsFiniteSet({o \in MemoryOf(a, k) : o[1] # i})
         /\ Cardinality({o \in MemoryOf(a, k) : o[1] # i}) \in Nat
         /\ Cardinality(MemoryOf(a, k))
              = Cardinality({o \in MemoryOf(a, k) : o[1] # i}) + Share(a, i, k)
<1>1. PICK M, R, n : /\ M = MemoryOf(a, k)
                     /\ R = {o \in M : o[1] # i}
                     /\ n = Share(a, i, k)
  OBVIOUS
<1>2. n \in Nat /\ n <= MaxMetrics
  BY <1>1, ConstantFacts
<1>3. IsFiniteSet(1..MaxMetrics)
  BY FS_Interval, ConstantFacts
<1>4. IsFiniteSet(Instances \X (1..MaxMetrics))
  BY <1>3, FS_Product, ConstantFacts
<1>5. M \in SUBSET (Instances \X (1..MaxMetrics)) /\ R \in SUBSET M
  BY <1>1 DEF MemoryOf
<1>6. IsFiniteSet(M)
  BY <1>4, <1>5, FS_Subset
<1>7. IsFiniteSet(R)
  BY <1>5, <1>6, FS_Subset
<1>8. IsFiniteSet({i}) /\ Cardinality({i}) = 1
  BY FS_Singleton
<1>9. IsFiniteSet(1..n) /\ Cardinality(1..n) = n
  BY <1>2, FS_Interval
<1>10. IsFiniteSet({i} \X (1..n)) /\ Cardinality({i} \X (1..n)) = 1 * n
  BY <1>8, <1>9, FS_Product
<1>11. M = R \cup ({i} \X (1..n))
  <2>1. ASSUME NEW o \in Instances \X (1..MaxMetrics)
        PROVE  o \in M <=> o \in R \cup ({i} \X (1..n))
    <3>1. CASE o[1] # i
      BY <1>1, <3>1
    <3>2. CASE o[1] = i
      <4>1. o \in M <=> k \in DOMAIN a[i] /\ o[2] <= a[i][k]
        BY <1>1, <3>2 DEF MemoryOf
      <4>2. o \notin R
        BY <1>1, <3>2
      <4>3. o[2] \in 1..MaxMetrics
        BY <2>1
      <4>4. o[2] \in 1..n <=> k \in DOMAIN a[i] /\ o[2] <= a[i][k]
        BY <1>1, <1>2, <4>3, ConstantFacts DEF Share
      <4>5. o \in {i} \X (1..n) <=> o[2] \in 1..n
        BY <2>1, <3>2
      <4>. QED  BY <4>1, <4>2, <4>4, <4>5
    <3>. QED  BY <3>1, <3>2
  <2>2. {i} \X (1..n) \subseteq Instances \X (1..MaxMetrics)
    <3>1. 1..n \subseteq 1..MaxMetrics
      BY <1>2, ConstantFacts
    <3>. QED  BY <3>1
  <2>. QED  BY <1>5, <2>1, <2>2
<1>12. R \cap ({i} \X (1..n)) = {}
  BY <1>1
<1>13. Cardinality(M) = Cardinality(R) + Cardinality({i} \X (1..n)) - Cardinality({})
  BY <1>7, <1>10, <1>11, <1>12, FS_Union
<1>14. Cardinality(M) \in Nat /\ Cardinality(R) \in Nat /\ Cardinality({}) = 0
  BY <1>6, <1>7, FS_CardinalityType, FS_EmptySet
<1>15. Cardinality(M) = Cardinality(R) + n
  BY <1>2, <1>10, <1>13, <1>14
<1>. QED  BY <1>1, <1>6, <1>7, <1>14, <1>15

LEMMA MemoryMoves ==
  ASSUME NEW a, NEW b, NEW k, NEW i \in Instances,
         \A j \in Instances \ {i} : a[j] = b[j],
         Share(a, i, k) \in 0..MaxMetrics, Share(b, i, k) \in 0..MaxMetrics
  PROVE  /\ Cardinality(MemoryOf(a, k)) \in Nat /\ Cardinality(MemoryOf(b, k)) \in Nat
         /\ Cardinality(MemoryOf(b, k)) + Share(a, i, k)
              = Cardinality(MemoryOf(a, k)) + Share(b, i, k)
<1>1. PICK A, B : /\ A = {o \in MemoryOf(a, k) : o[1] # i}
                  /\ B = {o \in MemoryOf(b, k) : o[1] # i}
  OBVIOUS
<1>2. /\ Cardinality(MemoryOf(a, k)) \in Nat /\ Cardinality(A) \in Nat
      /\ Cardinality(MemoryOf(a, k)) = Cardinality(A) + Share(a, i, k)
  BY <1>1, ShareFacts
<1>3. /\ Cardinality(MemoryOf(b, k)) \in Nat
      /\ Cardinality(MemoryOf(b, k)) = Cardinality(B) + Share(b, i, k)
  BY <1>1, ShareFacts
<1>4. A = B
  <2>1. ASSUME NEW o \in Instances \X (1..MaxMetrics) PROVE o \in A <=> o \in B
    <3>1. o[1] # i => a[o[1]] = b[o[1]]
      BY <2>1
    <3>. QED  BY <1>1, <3>1 DEF MemoryOf
  <2>. QED  BY <1>1, <2>1 DEF MemoryOf
<1>5. Share(a, i, k) \in Nat /\ Share(b, i, k) \in Nat
  BY ConstantFacts
<1>. QED  BY <1>2, <1>3, <1>4, <1>5

(* If nobody has it in memory, it holds no metric; if only i has, what i has. *)
LEMMA MemoryAlone ==
  ASSUME NEW a, NEW k, NEW i \in Instances, Share(a, i, k) \in 0..MaxMetrics,
         \A j \in Instances \ {i} : k \notin DOMAIN a[j]
  PROVE  Cardinality(MemoryOf(a, k)) = Share(a, i, k)
<1>1. {o \in MemoryOf(a, k) : o[1] # i} = {}
  BY DEF MemoryOf
<1>2. Cardinality(MemoryOf(a, k)) = 0 + Share(a, i, k)
  BY <1>1, ShareFacts, FS_EmptySet
<1>. QED  BY <1>2, ConstantFacts

LEMMA MemoryEmpty ==
  ASSUME NEW k, Counting(k) = {}
  PROVE  Cardinality(InMemory(k)) = 0
<1>1. InMemory(k) = {}
  BY DEF InMemory, Counting
<1>. QED  BY <1>1, FS_EmptySet

LEMMA InMemoryIs ==
  ASSUME NEW k
  PROVE  InMemory(k) = MemoryOf(agg, k) /\ InMemory(k)' = MemoryOf(agg', k)
BY DEF InMemory, MemoryOf

LEMMA ShareType ==
  ASSUME TypeInv, NEW i \in Instances, NEW k
  PROVE  Share(agg, i, k) \in 0..MaxMetrics
<1>1. Holds(i) /\ served \in 0..MaxMetrics
  BY DEF TypeInv
<1>2. CASE k \in DOMAIN agg[i]
  <2>1. agg[i][k] \in Nat /\ Len(queue[i]) \in Nat /\ agg[i][k] + Len(queue[i]) <= served
    BY <1>1, <1>2 DEF Holds, Counts
  <2>. QED  BY <1>1, <1>2, <2>1, ConstantFacts DEF Share
<1>3. CASE k \notin DOMAIN agg[i]
  BY <1>3, ConstantFacts DEF Share
<1>. QED  BY <1>2, <1>3

-------------------------------------------------------------------------------
(* What was published and what is in memory.                                  *)

(* A run that has published something of a minute has it no longer and cannot *)
(* count for it again: the minute is over, or the run is.                     *)
PublishedOnce ==
  \A k \in Keys : \A o \in writers[k] :
    /\ o[2] <= run[o[1]]
    /\ o[2] = run[o[1]] /\ mode[o[1]] # "down" => k[1] < Minute /\ k \notin DOMAIN agg[o[1]]

(* Nobody has published the minute and all of it is in memory; or one run has *)
(* published it, and if it is in nobody's memory, that was all of it.         *)
Exact(k) ==
  /\ writers[k] = {} => hash[k] = 0 /\ Cardinality(InMemory(k)) = seen[k]
  /\ Counting(k) = {} /\ Cardinality(writers[k]) = 1 => hash[k] = seen[k]

ExactInv == \A k \in Keys : k[1] \notin failed => Exact(k)

LEMMA InitExact == Init => PublishedOnce /\ ExactInv
<1>. SUFFICES ASSUME Init PROVE PublishedOnce /\ ExactInv
  OBVIOUS
<1>1. ASSUME NEW k \in Keys PROVE writers[k] = {} /\ hash[k] = 0 /\ seen[k] = 0
  BY <1>1 DEF Init
<1>2. PublishedOnce
  BY <1>1 DEF PublishedOnce
<1>3. ASSUME NEW k \in Keys PROVE Exact(k)
  <2>1. Counting(k) = {}
    BY EmptyFacts DEF Counting, Init
  <2>. QED  BY <1>1, <2>1, MemoryEmpty DEF Exact
<1>. QED  BY <1>2, <1>3 DEF ExactInv

(* Instance i has counted d more metrics of k, and publishes nothing of it.    *)
LEMMA ExactGrows ==
  ASSUME TypeInv, NEW k \in Keys, Exact(k), NEW i \in Instances,
         \A j \in Instances \ {i} : agg'[j] = agg[j],
         NEW d \in Nat, Share(agg', i, k) = Share(agg, i, k) + d,
         Share(agg', i, k) \in 0..MaxMetrics,
         k \in DOMAIN agg[i] => k \in DOMAIN agg'[i],
         d # 0 => k \in DOMAIN agg'[i],
         hash'[k] = hash[k], writers'[k] = writers[k], seen'[k] = seen[k] + d
  PROVE  Exact(k)'
<1>1. Share(agg, i, k) \in 0..MaxMetrics /\ seen[k] \in Nat
  BY ShareType DEF TypeInv
<1>2. PICK a, b : a = agg /\ b = agg'
  OBVIOUS
<1>3. /\ Cardinality(MemoryOf(a, k)) \in Nat /\ Cardinality(MemoryOf(b, k)) \in Nat
      /\ Cardinality(MemoryOf(b, k)) + Share(a, i, k)
           = Cardinality(MemoryOf(a, k)) + Share(b, i, k)
  BY <1>1, <1>2, MemoryMoves
<1>4. Cardinality(MemoryOf(b, k)) = Cardinality(MemoryOf(a, k)) + d
  BY <1>1, <1>2, <1>3, ConstantFacts
<1>5. Cardinality(InMemory(k))' = Cardinality(InMemory(k)) + d
  BY <1>2, <1>4, InMemoryIs
<1>6. ASSUME Counting(k)' = {} PROVE Counting(k) = {} /\ d = 0
  <2>1. \A j \in Instances : k \notin DOMAIN agg'[j]
    BY <1>6 DEF Counting
  <2>2. \A j \in Instances : k \notin DOMAIN agg[j]
    BY <2>1
  <2>. QED  BY <2>1, <2>2 DEF Counting
<1>7. ASSUME writers'[k] = {} PROVE hash'[k] = 0 /\ Cardinality(InMemory(k))' = seen'[k]
  BY <1>5, <1>7 DEF Exact
<1>8. ASSUME Counting(k)' = {}, Cardinality(writers'[k]) = 1 PROVE hash'[k] = seen'[k]
  <2>1. Counting(k) = {} /\ d = 0 /\ Cardinality(writers[k]) = 1
    BY <1>6, <1>8
  <2>. QED  BY <1>1, <2>1 DEF Exact
<1>. QED  BY <1>7, <1>8 DEF Exact

(* Instance i publishes what it has of k.                                      *)
LEMMA ExactPublished ==
  ASSUME TypeInv, PublishedOnce, NEW k \in Keys, Exact(k), NEW i \in Instances,
         mode[i] # "down", k \in DOMAIN agg[i], k \notin DOMAIN agg'[i],
         \A j \in Instances \ {i} : agg'[j] = agg[j],
         hash'[k] = agg[i][k], writers'[k] = writers[k] \cup {<<i, run[i]>>},
         seen'[k] = seen[k]
  PROVE  Exact(k)'
<1>1. writers'[k] # {}
  OBVIOUS
<1>2. <<i, run[i]>> \notin writers[k]
  <2>1. ASSUME <<i, run[i]>> \in writers[k] PROVE FALSE
    <3>1. PICK o \in writers[k] : o[1] = i /\ o[2] = run[i]
      BY <2>1
    <3>2. k \notin DOMAIN agg[o[1]]
      BY <3>1 DEF PublishedOnce
    <3>. QED  BY <3>1, <3>2
  <2>. QED  BY <2>1
<1>3. ASSUME Counting(k)' = {}, Cardinality(writers'[k]) = 1
      PROVE  hash'[k] = seen'[k]
  <2>1. IsFiniteSet(0..MaxRuns) /\ IsFiniteSet(Instances)
    BY FS_Interval, ConstantFacts
  <2>2. IsFiniteSet(Instances \X (0..MaxRuns))
    BY <2>1, FS_Product
  <2>3. writers[k] \in SUBSET (Instances \X (0..MaxRuns))
    BY DEF TypeInv
  <2>4. IsFiniteSet(writers[k])
    BY <2>2, <2>3, FS_Subset
  <2>5. Cardinality(writers'[k]) = Cardinality(writers[k]) + 1
    BY <1>2, <2>4, FS_AddElement
  <2>6. Cardinality(writers[k]) = 0
    BY <1>3, <2>4, <2>5, FS_CardinalityType
  <2>7. writers[k] = {}
    BY <2>4, <2>6, FS_EmptySet
  <2>8. Cardinality(InMemory(k)) = seen[k]
    BY <2>7 DEF Exact
  <2>9. \A j \in Instances \ {i} : k \notin DOMAIN agg[j]
    BY <1>3 DEF Counting
  <2>10. PICK a : a = agg
    OBVIOUS
  <2>11. Cardinality(MemoryOf(a, k)) = Share(a, i, k)
    BY <2>9, <2>10, ShareType, MemoryAlone
  <2>12. Cardinality(InMemory(k)) = agg[i][k]
    BY <2>10, <2>11, InMemoryIs DEF Share
  <2>. QED  BY <2>8, <2>12
<1>. QED  BY <1>1, <1>3 DEF Exact

ExactStep == TypeInv /\ PublishedOnce /\ ExactInv

LEMMA DrainExact ==
  ASSUME ExactStep, NEW i \in Instances, Drain(i)
  PROVE  PublishedOnce' /\ ExactInv'
<1>1. PICK n, batch, counts, keys, lost : Passes(i, n, batch, counts, keys, lost)
  BY DrainPasses DEF ExactStep
<1>2. PICK part \in SUBSET keys :
        /\ part # {} => mode[i] = "redis"
        /\ hash' = [k \in Keys |-> IF k \in part THEN counts[k] ELSE hash[k]]
        /\ writers' = [k \in Keys |-> IF k \in part THEN writers[k] \cup {<<i, run[i]>>}
                                      ELSE writers[k]]
        /\ failed' = failed \cup lost \cup IF part = keys THEN {} ELSE {k[1] : k \in keys}
  BY <1>1 DEF Passes, Publish
<1>3. /\ TypeInv /\ mode[i] # "down" /\ UNCHANGED <<now, run, mode>> /\ Minute' = Minute
      /\ seen' = [k \in Keys |-> IF k[1] = Minute THEN seen[k] + Cardinality(Of(batch, k[2]))
                                 ELSE seen[k]]
  BY <1>1 DEF ExactStep, Drain, Minute, Passes
<1>4. /\ Counts(agg[i]) /\ Minute \in 0..(MaxTime \div Bucket) /\ Minute \in Nat
      /\ batch \in Seq(Fields)
  BY <1>1, <1>3, MinuteFacts DEF TypeInv, Holds, Passes
<1>5. /\ Counts(counts)
      /\ DOMAIN counts = DOMAIN agg[i] \cup ({Minute} \X Admitted(agg[i], batch))
      /\ \A k \in DOMAIN counts :
           counts[k] = (IF k \in DOMAIN agg[i] THEN agg[i][k] ELSE 0)
                         + IF k[1] = Minute THEN Cardinality(Of(batch, k[2])) ELSE 0
  <2>1. Counts(Aggregated(agg[i], batch)) /\ AddsUp(agg[i], batch, Aggregated(agg[i], batch))
    BY <1>4, AggregatedFacts
  <2>. QED  BY <1>1, <2>1 DEF AddsUp, Passes
<1>6. ASSUME NEW k \in keys
      PROVE  /\ k \in DOMAIN counts /\ k \in Keys /\ k[1] < Minute /\ k[1] # Minute
             /\ k \in DOMAIN agg[i] /\ counts[k] = agg[i][k]
  <2>1. k \in DOMAIN counts /\ k[1] < Minute
    BY <1>1, <1>6 DEF Passes, PastMinutes
  <2>2. k \in Keys /\ k[1] \in Nat
    BY <1>5, <2>1 DEF Counts, Keys
  <2>3. k[1] # Minute
    BY <1>4, <2>1, <2>2
  <2>4. k \in DOMAIN agg[i]
    BY <1>5, <2>1, <2>3
  <2>5. agg[i][k] \in Nat
    BY <1>4, <2>4 DEF Counts
  <2>. QED  BY <1>5, <2>1, <2>2, <2>3, <2>4, <2>5
<1>7. /\ agg'[i] = Without(counts, keys)
      /\ DOMAIN agg'[i] = DOMAIN counts \ keys
      /\ \A k \in DOMAIN counts \ keys : agg'[i][k] = counts[k]
      /\ \A j \in Instances \ {i} : agg'[j] = agg[j]
  <2>1. /\ DOMAIN Without(counts, keys) = DOMAIN counts \ keys
        /\ \A k \in DOMAIN counts \ keys : Without(counts, keys)[k] = counts[k]
    BY <1>5, WithoutFacts
  <2>2. agg'[i] = Without(counts, keys) /\ \A j \in Instances \ {i} : agg'[j] = agg[j]
    BY <1>1 DEF Passes
  <2>. QED  BY <2>1, <2>2
<1>8. PublishedOnce'
  <2>1. ASSUME NEW k \in Keys, NEW o \in writers'[k]
        PROVE  /\ o[2] <= run[o[1]]
               /\ o[2] = run[o[1]] /\ mode[o[1]] # "down"
                    => k[1] < Minute /\ k \notin DOMAIN agg'[o[1]]
    <3>1. CASE o \in writers[k]
      <4>1. /\ o[2] <= run[o[1]]
            /\ o[2] = run[o[1]] /\ mode[o[1]] # "down"
                 => k[1] < Minute /\ k \notin DOMAIN agg[o[1]]
        BY <3>1 DEF ExactStep, PublishedOnce
      <4>2. o[1] \in Instances /\ k[1] \in Nat
        BY <3>1 DEF ExactStep, TypeInv, Keys
      <4>3. k[1] < Minute /\ k \notin DOMAIN agg[o[1]] => k \notin DOMAIN agg'[o[1]]
        <5>1. CASE o[1] = i
          <6>1. k[1] < Minute => k[1] # Minute
            BY <1>4, <4>2
          <6>. QED  BY <1>5, <1>7, <5>1, <6>1
        <5>2. CASE o[1] # i
          BY <1>7, <4>2, <5>2
        <5>. QED  BY <5>1, <5>2
      <4>. QED  BY <4>1, <4>3
    <3>2. CASE o \notin writers[k]
      <4>1. k \in part /\ o = <<i, run[i]>>
        BY <1>2, <2>1, <3>2
      <4>2. k[1] < Minute /\ k \notin DOMAIN agg'[i]
        BY <1>6, <1>7, <4>1
      <4>3. run[i] <= run[i]
        BY <1>3 DEF TypeInv
      <4>. QED  BY <4>1, <4>2, <4>3
    <3>. QED  BY <3>1, <3>2
  <2>. QED  BY <1>3, <2>1 DEF PublishedOnce, Keys
<1>9. ASSUME NEW k \in Keys, k[1] \notin failed' PROVE Exact(k)'
  <2>1. Exact(k) /\ k[1] \notin lost /\ (k \in keys => part = keys)
    BY <1>2, <1>9 DEF ExactStep, ExactInv
  <2>2. CASE k \in keys
    <3>1. k \in part
      BY <2>1, <2>2
    <3>2. /\ k \in DOMAIN agg[i] /\ k \notin DOMAIN agg'[i] /\ counts[k] = agg[i][k]
          /\ k[1] # Minute
      BY <1>6, <1>7, <2>2
    <3>3. hash'[k] = agg[i][k] /\ writers'[k] = writers[k] \cup {<<i, run[i]>>}
          /\ seen'[k] = seen[k]
      BY <1>2, <1>3, <3>1, <3>2
    <3>. QED  BY <1>3, <1>7, <2>1, <3>2, <3>3, ExactPublished DEF ExactStep
  <2>3. CASE k \notin keys
    <3>1. PICK d : d = IF k[1] = Minute THEN Cardinality(Of(batch, k[2])) ELSE 0
      OBVIOUS
    <3>2. d \in Nat /\ seen[k] \in Nat
      <4>1. Cardinality(Of(batch, k[2])) \in Nat
        BY <1>4, OfFacts
      <4>. QED  BY <1>3, <3>1, <4>1 DEF TypeInv
    <3>3. seen'[k] = seen[k] + d
      BY <1>3, <3>1, <3>2
    <3>4. hash'[k] = hash[k] /\ writers'[k] = writers[k]
      BY <1>2, <2>3
    <3>5. k \in DOMAIN agg'[i] <=> k \in DOMAIN counts
      BY <1>7, <2>3
    <3>6. k \in DOMAIN agg[i] => k \in DOMAIN counts
      BY <1>5
    <3>7. d # 0 => k \in DOMAIN counts
      <4>1. ASSUME d # 0, k \notin DOMAIN counts PROVE FALSE
        <5>1. k[1] = Minute /\ Cardinality(Of(batch, k[2])) # 0
          BY <3>1, <4>1
        <5>2. k[2] \in Range(batch)
          BY <1>4, <5>1, OfFacts
        <5>3. k = <<Minute, k[2]>>
          BY <5>1 DEF Keys
        <5>4. k[2] \in NewFields(agg[i], batch)
          BY <3>6, <4>1, <5>2, <5>3 DEF NewFields
        <5>5. Admitted(agg[i], batch) = NewFields(agg[i], batch)
          BY <1>1, <2>1, <5>1 DEF Passes
        <5>6. k \in {Minute} \X Admitted(agg[i], batch)
          BY <5>3, <5>4, <5>5
        <5>. QED  BY <1>5, <4>1, <5>6
      <4>. QED  BY <4>1
    <3>8. Share(agg', i, k) = Share(agg, i, k) + d
      <4>1. CASE k \in DOMAIN counts
        BY <1>5, <1>7, <2>3, <3>1, <3>5, <4>1 DEF Share
      <4>2. CASE k \notin DOMAIN counts
        BY <3>5, <3>6, <3>7, <4>2 DEF Share
      <4>. QED  BY <4>1, <4>2
    <3>9. Share(agg', i, k) \in 0..MaxMetrics
      <4>1. CASE k \in DOMAIN counts
        <5>1. counts[k] \in Nat \ {0} /\ counts[k] <= served /\ served \in 0..MaxMetrics
          BY <1>1, <1>3, <4>1, PassCounts DEF Counts, TypeInv
        <5>2. Share(agg', i, k) = counts[k]
          BY <1>7, <2>3, <3>5, <4>1 DEF Share
        <5>. QED  BY <5>1, <5>2, ConstantFacts
      <4>2. CASE k \notin DOMAIN counts
        BY <3>5, <4>2, ConstantFacts DEF Share
      <4>. QED  BY <4>1, <4>2
    <3>. QED  BY <1>3, <1>7, <2>1, <3>2, <3>3, <3>4, <3>5, <3>6, <3>7, <3>8, <3>9, ExactGrows
  <2>. QED  BY <2>2, <2>3
<1>10. Keys' = Keys
  BY DEF Keys
<1>. QED  BY <1>8, <1>9, <1>10 DEF ExactInv

LEMMA StopExact ==
  ASSUME ExactStep, NEW i \in Instances, Stop(i) \/ Kill(i)
  PROVE  PublishedOnce' /\ ExactInv'
<1>1. /\ TypeInv /\ mode[i] # "down"
      /\ agg' = [agg EXCEPT ![i] = Nothing]
      /\ UNCHANGED <<now, served, seen>>
  BY DEF ExactStep, Stop, Kill, redisVars
<1>2. /\ DOMAIN agg'[i] = {} /\ \A j \in Instances \ {i} : agg'[j] = agg[j]
      /\ \A j \in Instances \ {i} : mode'[j] = mode[j] /\ run'[j] = run[j]
      /\ run[i] \in Nat
      /\ \/ run'[i] = run[i] /\ mode'[i] = "down"
         \/ run'[i] = run[i] + 1
  <2>1. /\ DOMAIN agg'[i] = {} /\ \A j \in Instances \ {i} : agg'[j] = agg[j]
        /\ run[i] \in Nat
    BY <1>1, EmptyFacts DEF TypeInv
  <2>2. CASE Stop(i)
    BY <1>1, <2>1, <2>2 DEF Stop, TypeInv
  <2>3. CASE Kill(i)
    BY <1>1, <2>1, <2>3 DEF Kill, TypeInv
  <2>. QED  BY <2>2, <2>3
<1>3. PICK part \in SUBSET DOMAIN agg[i] :
        /\ hash' = [k \in Keys |-> IF k \in part THEN agg[i][k] ELSE hash[k]]
        /\ writers' = [k \in Keys |-> IF k \in part THEN writers[k] \cup {<<i, run[i]>>}
                                      ELSE writers[k]]
        /\ failed' = failed \cup IF part = DOMAIN agg[i] THEN {} ELSE {k[1] : k \in DOMAIN agg[i]}
  <2>1. CASE Stop(i)
    <3>1. Publish(i, agg[i], DOMAIN agg[i], {})
      BY <2>1 DEF Stop
    <3>. QED  BY <3>1 DEF Publish
  <2>2. CASE Kill(i)
    <3>1. /\ hash' = hash /\ writers' = writers
          /\ failed' = failed \cup {k[1] : k \in DOMAIN agg[i]}
      BY <2>2 DEF Kill, redisVars
    <3>2. /\ hash' = [k \in Keys |-> hash[k]]
          /\ writers' = [k \in Keys |-> writers[k]]
      BY <1>1, <3>1 DEF TypeInv
    <3>3. PICK part \in SUBSET DOMAIN agg[i] : part = {}
      OBVIOUS
    <3>4. failed' = failed \cup IF part = DOMAIN agg[i] THEN {}
                                ELSE {k[1] : k \in DOMAIN agg[i]}
      BY <3>1, <3>3
    <3>5. /\ hash' = [k \in Keys |-> IF k \in part THEN agg[i][k] ELSE hash[k]]
          /\ writers' = [k \in Keys |-> IF k \in part THEN writers[k] \cup {<<i, run[i]>>}
                                        ELSE writers[k]]
      BY <3>2, <3>3
    <3>. QED  BY <3>4, <3>5
  <2>. QED  BY <2>1, <2>2
<1>4. PublishedOnce'
  <2>1. ASSUME NEW k \in Keys, NEW o \in writers'[k]
        PROVE  /\ o[2] <= run'[o[1]]
               /\ o[2] = run'[o[1]] /\ mode'[o[1]] # "down"
                    => k[1] < Minute /\ k \notin DOMAIN agg'[o[1]]
    <3>1. CASE o \in writers[k]
      <4>1. /\ o[2] <= run[o[1]]
            /\ o[2] = run[o[1]] /\ mode[o[1]] # "down"
                 => k[1] < Minute /\ k \notin DOMAIN agg[o[1]]
        BY <3>1 DEF ExactStep, PublishedOnce
      <4>2. o[1] \in Instances /\ o[2] \in Nat
        BY <1>1, <3>1 DEF TypeInv
      <4>3. CASE o[1] = i
        BY <1>2, <4>1, <4>2, <4>3
      <4>4. CASE o[1] # i
        BY <1>2, <4>1, <4>2, <4>4
      <4>. QED  BY <4>3, <4>4
    <3>2. CASE o \notin writers[k]
      <4>1. o = <<i, run[i]>>
        BY <1>3, <2>1, <3>2
      <4>. QED  BY <1>2, <4>1
    <3>. QED  BY <3>1, <3>2
  <2>. QED  BY <1>1, <2>1 DEF PublishedOnce, Keys, Minute
<1>5. ASSUME NEW k \in Keys, k[1] \notin failed' PROVE Exact(k)'
  <2>1. Exact(k) /\ (k \in DOMAIN agg[i] => part = DOMAIN agg[i])
    BY <1>3, <1>5 DEF ExactStep, ExactInv
  <2>2. CASE k \in DOMAIN agg[i]
    <3>1. /\ hash'[k] = agg[i][k] /\ writers'[k] = writers[k] \cup {<<i, run[i]>>}
          /\ seen'[k] = seen[k] /\ k \notin DOMAIN agg'[i]
      BY <1>1, <1>2, <1>3, <2>1, <2>2
    <3>. QED  BY <1>1, <1>2, <2>1, <2>2, <3>1, ExactPublished DEF ExactStep
  <2>3. CASE k \notin DOMAIN agg[i]
    <3>1. hash'[k] = hash[k] /\ writers'[k] = writers[k] /\ seen'[k] = seen[k] + 0
      BY <1>1, <1>3, <2>3 DEF TypeInv
    <3>2. Share(agg', i, k) = Share(agg, i, k) + 0 /\ Share(agg', i, k) \in 0..MaxMetrics
      BY <1>2, <2>3, ConstantFacts DEF Share
    <3>3. 0 \in Nat
      OBVIOUS
    <3>. QED  BY <1>1, <1>2, <2>1, <2>3, <3>1, <3>2, <3>3, ExactGrows
  <2>. QED  BY <2>2, <2>3
<1>. QED  BY <1>4, <1>5 DEF ExactInv, Keys

(* The steps that neither count nor publish.                                  *)
LEMMA OtherExact ==
  ASSUME ExactStep, TypeInv', UNCHANGED <<agg, hash, history>>, now <= now',
         \A j \in Instances : (run'[j] = run[j] /\ mode'[j] = mode[j]) \/ run[j] < run'[j]
  PROVE  PublishedOnce' /\ ExactInv'
<1>1. TypeInv /\ PublishedOnce /\ ExactInv
  BY DEF ExactStep
<1>2. ASSUME NEW k \in Keys, NEW o \in writers[k]
      PROVE  /\ o[2] <= run'[o[1]]
             /\ o[2] = run'[o[1]] /\ mode'[o[1]] # "down"
                  => k[1] < Minute' /\ k \notin DOMAIN agg[o[1]]
  <2>1. /\ o[2] <= run[o[1]]
        /\ o[2] = run[o[1]] /\ mode[o[1]] # "down"
             => k[1] < Minute /\ k \notin DOMAIN agg[o[1]]
    BY <1>1 DEF PublishedOnce
  <2>2. /\ o[1] \in Instances /\ o[2] \in Nat /\ run[o[1]] \in Nat /\ run'[o[1]] \in Nat
        /\ k[1] \in Nat
    BY <1>1 DEF TypeInv, Keys
  <2>3. Minute \in Nat /\ Minute' \in Nat /\ Minute <= Minute'
    BY <1>1, MinuteGrows DEF TypeInv, Minute
  <2>4. CASE run'[o[1]] = run[o[1]] /\ mode'[o[1]] = mode[o[1]]
    BY <2>1, <2>2, <2>3, <2>4
  <2>5. CASE run[o[1]] < run'[o[1]]
    BY <2>1, <2>2, <2>5
  <2>. QED  BY <2>2, <2>4, <2>5
<1>3. PublishedOnce'
  BY <1>2 DEF PublishedOnce, Keys, history
<1>4. ExactInv'
  BY <1>1 DEF ExactInv, Exact, Counting, InMemory, Keys, history
<1>. QED  BY <1>3, <1>4

LEMMA NextExact == ExactStep /\ TypeInv' /\ [Next]_vars => PublishedOnce' /\ ExactInv'
<1>. SUFFICES ASSUME ExactStep, TypeInv', [Next]_vars PROVE PublishedOnce' /\ ExactInv'
  OBVIOUS
<1>0. TypeInv /\ now \in Nat
  BY DEF ExactStep, TypeInv
<1>1. ASSUME NEW i \in Instances, Start(i) PROVE PublishedOnce' /\ ExactInv'
  <2>1. /\ UNCHANGED <<now, agg, hash, history>>
        /\ run' = [run EXCEPT ![i] = run[i] + 1] /\ run \in [Instances -> 0..MaxRuns]
        /\ mode \in [Instances -> {"down", "redis", "memory"}]
        /\ \E m \in {"redis", "memory"} : mode' = [mode EXCEPT ![i] = m]
    BY <1>0, <1>1 DEF Start, redisVars, TypeInv
  <2>2. run[i] < run'[i]
    BY <2>1
  <2>3. \A j \in Instances \ {i} : run'[j] = run[j] /\ mode'[j] = mode[j]
    BY <2>1
  <2>4. now <= now'
    BY <1>0, <2>1
  <2>. QED  BY <2>1, <2>2, <2>3, <2>4, OtherExact
<1>2. CASE \E i \in Instances : Drain(i)
  BY <1>2, DrainExact
<1>3. CASE \E i \in Instances : Stop(i) \/ Kill(i)
  BY <1>3, StopExact
<1>4. CASE \E i \in Instances, f \in Fields : Serve(i, f)
  <2>1. UNCHANGED <<now, run, mode, agg, hash, history>>
    BY <1>4 DEF Serve, redisVars
  <2>. QED  BY <1>0, <2>1, OtherExact
<1>5. CASE Tick
  <2>1. UNCHANGED <<run, mode, agg, hash, history>> /\ now' = now + 1
    BY <1>5 DEF Tick, redisVars
  <2>. QED  BY <1>0, <2>1, OtherExact
<1>6. CASE UNCHANGED vars
  <2>1. UNCHANGED <<now, run, mode, agg, hash, history>>
    BY <1>6 DEF vars, redisVars, history
  <2>. QED  BY <1>0, <2>1, OtherExact
<1>. QED  BY <1>1, <1>2, <1>3, <1>4, <1>5, <1>6 DEF Next

(* The published count of an endpoint's minute and the counts still in memory *)
(* are together every metric aggregated for it, as long as one run of one     *)
(* instance has it to itself, there was room for it and Redis took what was   *)
(* published.                                                                 *)
THEOREM MinutesExactCorrect == Spec => []MinutesExact
<1>1. TypeInv /\ ExactInv => MinutesExact
  <2>. SUFFICES ASSUME TypeInv, ExactInv, NEW k \in Keys, k[1] \notin failed,
                       Counting(k) # {} => writers[k] = {},
                       Cardinality(writers[k]) <= 1
                PROVE  hash[k] + Cardinality(InMemory(k)) = seen[k]
    BY DEF MinutesExact
  <2>1. Exact(k) /\ hash[k] \in Nat /\ seen[k] \in Nat
    BY DEF ExactInv, TypeInv
  <2>2. CASE writers[k] = {}
    BY <2>1, <2>2 DEF Exact
  <2>3. CASE writers[k] # {}
    <3>1. Counting(k) = {}
      BY <2>3
    <3>2. IsFiniteSet(writers[k])
      <4>1. IsFiniteSet(0..MaxRuns) /\ IsFiniteSet(Instances)
        BY FS_Interval, ConstantFacts
      <4>2. IsFiniteSet(Instances \X (0..MaxRuns))
        BY <4>1, FS_Product
      <4>3. writers[k] \in SUBSET (Instances \X (0..MaxRuns))
        BY DEF TypeInv
      <4>. QED  BY <4>2, <4>3, FS_Subset
    <3>3. Cardinality(writers[k]) = 1
      <4>1. Cardinality(writers[k]) \in Nat /\ Cardinality(writers[k]) # 0
        BY <2>3, <3>2, FS_CardinalityType, FS_EmptySet
      <4>. QED  BY <4>1
    <3>4. Cardinality(InMemory(k)) = 0
      BY <3>1, MemoryEmpty
    <3>. QED  BY <2>1, <3>1, <3>3, <3>4 DEF Exact
  <2>. QED  BY <2>2, <2>3
<1>2. Spec => [](PublishedOnce /\ ExactInv)
  <2>1. TypeInv /\ TypeInv' /\ PublishedOnce /\ ExactInv /\ [Next]_vars
          => PublishedOnce' /\ ExactInv'
    BY NextExact DEF ExactStep
  <2>. QED  BY <2>1, InitExact, TypeInvAlways, PTL DEF Spec
<1>. QED  BY <1>1, <1>2, TypeInvAlways, PTL

=============================================================================
