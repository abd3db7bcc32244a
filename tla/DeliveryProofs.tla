---------------------------- MODULE DeliveryProofs ----------------------------
(***************************************************************************)
(* Proofs about Delivery, for any number of tasks and recipients, any       *)
(* threshold and cooldown and any channels.                                 *)
(***************************************************************************)
EXTENDS Delivery, FiniteSetTheorems, TLAPS

-------------------------------------------------------------------------------
(* Types, and how far a message is when a task is where it is.                *)

Proper(r) ==
  /\ r \in WorkerStates
  /\ r.at \in {"gate", "door"} => r.to = Recipients /\ r.result = "none"
  /\ r.at = "sending" /\ r.kind = "dispatch" => r.to # 0
  /\ r.at \in {"door", "tally", "slack"} => r.kind = "dispatch"
  /\ r.pending = "reset" => r.at \in {"gate", "door"}

TypeInv == TypeOK /\ \A w \in Workers : Proper(worker[w])

(* The same message, as far; only pending and guilty may differ.              *)
SameTask(a, b) == a.at = b.at /\ a.kind = b.kind /\ a.to = b.to /\ a.result = b.result

LEMMA ConstantFacts == /\ Threshold \in Nat /\ Threshold > 0
                       /\ Cooldown \in Nat /\ Cooldown > 0
                       /\ Recipients \in Nat
BY DeliveryAssumption

LEMMA IdleFacts ==
  /\ Proper(Idle)
  /\ Idle.at = "idle" /\ Idle.kind = "dispatch" /\ Idle.result = "none" /\ ~Idle.guilty
  /\ Absent \in Breakers /\ Absent.count = 0 /\ 0 \in 0..Threshold
BY DeliveryAssumption DEF Proper, Idle, WorkerStates, Points, Kinds, Routes, Results,
   Absent, Breakers, Unset

(* Where a task goes from a check.                                            *)
LEMMA AfterCheckFacts ==
  ASSUME NEW w \in Workers, Proper(worker[w]), worker[w].at \in {"gate", "door"},
         NEW open \in BOOLEAN, NEW y, y = AfterCheck(w, open)
  PROVE  /\ y \in WorkerStates
         /\ y.kind = worker[w].kind /\ y.to = worker[w].to
         /\ y.pending = worker[w].pending /\ y.guilty = worker[w].guilty
         /\ \/ y.at \in {"slack", "door"} /\ y.result = worker[w].result /\ y.kind = "dispatch"
            \/ y.at = "fallback" /\ y.result = worker[w].result /\ y.kind = "direct"
            \/ y.at = "tally" /\ y.result = "failed" /\ y.kind = "dispatch"
            \/ y.at = "outcome" /\ y.result = "failed" /\ y.kind # "dispatch"
            \/ y.at = "sending" /\ y.result = worker[w].result /\ Recipients # 0
<1>1. PICK r : r = worker[w]
  OBVIOUS
<1>2. /\ r \in WorkerStates
      /\ r.at = "door" => r.kind = "dispatch"
      /\ r.at \in {"gate", "door"}
  BY <1>1 DEF Proper
<1>3. \/ y = [r EXCEPT !.at = "slack"] /\ r.kind = "dispatch"
      \/ y = [r EXCEPT !.at = "fallback"] /\ r.kind = "direct"
      \/ y = [r EXCEPT !.at = "door"] /\ r.kind = "dispatch"
      \/ y = [r EXCEPT !.at = "tally", !.result = "failed"] /\ r.kind = "dispatch"
      \/ y = [r EXCEPT !.at = "sending"] /\ Ready
      \/ y = [r EXCEPT !.at = "outcome", !.result = "failed"] /\ r.kind # "dispatch"
  BY <1>1, <1>2 DEF AfterCheck
<1>4. Ready => Recipients # 0
  BY DeliveryAssumption DEF Ready
<1>. QED
  BY <1>1, <1>2, <1>3, <1>4 DEF WorkerStates, Points, Results

(* A record with another pending command, or another culprit.                 *)
LEMMA ProperEdit ==
  ASSUME NEW r, Proper(r), NEW pending \in {"none", "open"}, NEW guilty \in BOOLEAN
  PROVE  /\ Proper([r EXCEPT !.guilty = guilty, !.pending = pending])
         /\ Proper([r EXCEPT !.guilty = guilty])
         /\ Proper([r EXCEPT !.pending = pending])
BY DEF Proper, WorkerStates

(* What recording a result does: no task but w gets further, and the breaker   *)
(* and the culprits keep their types.                                         *)
LEMMA ScoreFacts ==
  ASSUME TypeInv, NEW w \in Workers, NEW ok \in BOOLEAN, NEW x, Proper(x),
         Score(w, ok, x)
  PROVE  /\ breaker' \in Breakers /\ culprits' \in 0..Threshold
         /\ worker' \in [Workers -> WorkerStates]
         /\ \A v \in Workers : Proper(worker'[v])
         /\ SameTask(worker'[w], x)
         /\ \A v \in Workers \ {w} : SameTask(worker'[v], worker[v])
<1>0. /\ x \in WorkerStates /\ worker \in [Workers -> WorkerStates]
      /\ breaker \in Breakers /\ culprits \in 0..Threshold
      /\ \A v \in Workers : Proper(worker[v])
  BY DEF Proper, TypeInv, TypeOK
<1>1. CASE ok /\ Forget([worker EXCEPT ![w] = x])
  <2>1. PICK others : others = [worker EXCEPT ![w] = x]
    OBVIOUS
  <2>2. /\ others \in [Workers -> WorkerStates] /\ others[w] = x
        /\ \A v \in Workers \ {w} : others[v] = worker[v]
        /\ \A v \in Workers : Proper(others[v])
    BY <1>0, <2>1
  <2>3. worker' = [v \in Workers |-> [others[v] EXCEPT !.guilty = FALSE]]
    BY <1>1, <2>1 DEF Forget
  <2>4. \A v \in Workers : Proper(worker'[v]) /\ SameTask(worker'[v], others[v])
    <3>. SUFFICES ASSUME NEW v \in Workers
                  PROVE  Proper(worker'[v]) /\ SameTask(worker'[v], others[v])
      OBVIOUS
    <3>1. PICK r : r = others[v]
      OBVIOUS
    <3>2. worker'[v] = [r EXCEPT !.guilty = FALSE] /\ Proper(r)
      BY <2>2, <2>3, <3>1
    <3>3. Proper([r EXCEPT !.guilty = FALSE])
      BY <3>2, ProperEdit
    <3>4. SameTask([r EXCEPT !.guilty = FALSE], r)
      BY <3>2 DEF SameTask, Proper, WorkerStates
    <3>. QED  BY <3>1, <3>2, <3>3, <3>4
  <2>5. breaker' \in Breakers /\ culprits' \in 0..Threshold
    BY <1>1, IdleFacts DEF Forget
  <2>6. worker' \in [Workers -> WorkerStates]
    BY <2>3, <2>4 DEF Proper
  <2>. QED  BY <2>2, <2>4, <2>5, <2>6
<1>2. CASE ~ok /\ Blame(w, x)
  <2>1. PICK n : n = IF Tripped THEN Threshold ELSE breaker.count + 1
    OBVIOUS
  <2>2. n \in 0..Threshold
    <3>1. breaker.count \in Nat /\ breaker.count <= Threshold
      BY <1>0, ConstantFacts DEF Breakers
    <3>. QED  BY <2>1, <3>1, ConstantFacts DEF Tripped
  <2>3. breaker' \in Breakers
    BY <1>0, <1>2, <2>1, <2>2 DEF Blame, Breakers
  <2>4. culprits' \in 0..Threshold
    BY <1>0, <1>2, ConstantFacts DEF Blame
  <2>5. PICK pending \in {"none", "open"} :
          worker' = [worker EXCEPT ![w] = [x EXCEPT !.guilty = TRUE, !.pending = pending]]
    BY <1>2 DEF Blame
  <2>6. PICK y : y = [x EXCEPT !.guilty = TRUE, !.pending = pending]
    OBVIOUS
  <2>7. Proper(y) /\ SameTask(y, x)
    BY <1>0, <2>6, ProperEdit DEF SameTask, WorkerStates
  <2>. QED  BY <1>0, <2>3, <2>4, <2>5, <2>6, <2>7 DEF Proper, SameTask
<1>3. CASE worker' = [worker EXCEPT ![w] = x] /\ UNCHANGED <<breaker, culprits>>
  BY <1>0, <1>3 DEF SameTask
<1>. QED  BY <1>1, <1>2, <1>3 DEF Score

-------------------------------------------------------------------------------
(* What a step of a task does.                                                *)

(* How often the message may still be counted as a failure.                   *)
Remaining(r) ==
  CASE r.at \in {"gate", "door"}                  -> CountsPerMessage
    [] r.at = "sending" /\ r.kind = "dispatch"    -> IF each THEN r.to + 1 ELSE 2
    [] r.at = "sending" /\ r.kind # "dispatch"    -> 1
    [] r.at \in {"tally", "outcome"}              -> 1
    [] OTHER                                      -> 0

(* A dispatched message that was taken and is not in the ledger yet.          *)
Carries(r) == r.kind = "dispatch" /\ r.result = "ok" /\ r.at \in {"sending", "tally"}

Taken(r) == r.kind = "dispatch" /\ r.result = "ok"

(* A dispatched message that has yet to enter something in the ledger.        *)
Enters(r) == /\ r.kind = "dispatch"
             /\ \/ r.at \in {"gate", "door", "sending", "tally"}
                \/ r.at \in {"slack", "fallback"} /\ r.result # "ok"

(* What reached says, and whether dispatch was told of a message taken.       *)
Reaches == {"none", "beside", "told"}
Took == reached = "told"

(* The task of w goes on as x.                                                *)
Goes(w, x) ==
  LET r == worker[w]
  IN
  /\ Proper(x)
  /\ UNCHANGED <<each, up>>
  /\ \/ /\ worker' = [worker EXCEPT ![w] = x]
        /\ x.guilty => r.guilty /\ Remaining(x) <= Remaining(r)
        /\ UNCHANGED culprits
        /\ breaker' \in Breakers /\ breaker'.count = breaker.count
     \/ /\ \E ok \in BOOLEAN : Score(w, ok, x)
        /\ x.pending = "none" /\ x.guilty = r.guilty
        /\ Remaining(x) < Remaining(r)
     \/ Forget([worker EXCEPT ![w] = x])
  /\ asked' \in BOOLEAN /\ (asked' => asked \/ Enters(x))
  /\ ~lost' /\ Enters(r) => ledger' # {} \/ Enters(x)
  /\ reached' \in Reaches /\ (Took => Took')
  /\ ledger' \subseteq BOOLEAN /\ ledger \subseteq ledger'
  /\ lost' \in BOOLEAN /\ (lost => lost')
  /\ Taken(x) => Taken(r) \/ Took'
  /\ TRUE \in ledger' => TRUE \in ledger \/ Taken(r) \/ Took'
  /\ ~lost' => /\ Took' => Took \/ TRUE \in ledger' \/ Carries(x)
               /\ Carries(r) => TRUE \in ledger' \/ Carries(x)

LEMMA CountsFacts == /\ each \in BOOLEAN => CountsPerMessage \in Nat /\ CountsPerMessage >= 1
                     /\ CountsPerMessage = IF each THEN Recipients + 1 ELSE 2
BY ConstantFacts DEF CountsPerMessage

(* What is known of the task of w.                                            *)
LEMMA TaskFacts ==
  ASSUME TypeInv, NEW w \in Workers
  PROVE  /\ Proper(worker[w]) /\ worker[w] \in WorkerStates
         /\ worker \in [Workers -> WorkerStates]
         /\ each \in BOOLEAN /\ up \in BOOLEAN /\ asked \in BOOLEAN /\ reached \in Reaches
         /\ lost \in BOOLEAN
         /\ ledger \subseteq BOOLEAN
         /\ breaker \in Breakers /\ culprits \in 0..Threshold
         /\ Remaining(worker[w]) \in 0..CountsPerMessage
<1>1. /\ Proper(worker[w]) /\ worker[w] \in WorkerStates
      /\ worker \in [Workers -> WorkerStates]
      /\ each \in BOOLEAN /\ up \in BOOLEAN /\ asked \in BOOLEAN /\ reached \in Reaches
         /\ lost \in BOOLEAN
      /\ ledger \subseteq BOOLEAN
      /\ breaker \in Breakers /\ culprits \in 0..Threshold
  BY DEF TypeInv, TypeOK, Proper, Reaches
<1>2. PICK r, m : r = worker[w] /\ m = CountsPerMessage
  OBVIOUS
<1>3. m \in Nat /\ m >= 1 /\ m = IF each THEN Recipients + 1 ELSE 2
  BY <1>1, <1>2, CountsFacts
<1>4. r.to \in 0..Recipients
  BY <1>1, <1>2 DEF WorkerStates
<1>5. Remaining(r) \in 0..m
  BY <1>2, <1>3, <1>4, ConstantFacts DEF Remaining
<1>. QED  BY <1>1, <1>2, <1>5

(* A step that enters nothing in the ledger and tells dispatch of nothing.    *)
LEMMA GoesQuietly ==
  ASSUME TypeInv, NEW w \in Workers, NEW x, Proper(x),
         worker' = [worker EXCEPT ![w] = x],
         UNCHANGED <<each, up, ledger, culprits, lost>>,
         UNCHANGED asked \/ (asked' = TRUE /\ Enters(x)),
         UNCHANGED reached \/ \E ok \in BOOLEAN : Beside(ok),
         breaker' \in Breakers, breaker'.count = breaker.count,
         x.guilty => worker[w].guilty /\ Remaining(x) <= Remaining(worker[w]),
         Taken(x) => Taken(worker[w]),
         Carries(worker[w]) => Carries(x),
         Enters(worker[w]) => Enters(x)
  PROVE  Goes(w, x)
<1>1. reached' \in Reaches /\ (Took' <=> Took)
  BY TaskFacts DEF Beside, Took, Reaches
<1>2. asked' \in BOOLEAN /\ (asked' => asked \/ Enters(x))
  <2>1. CASE UNCHANGED asked
    BY <2>1, TaskFacts
  <2>2. CASE asked' = TRUE /\ Enters(x)
    BY <2>2
  <2>. QED  BY <2>1, <2>2
<1>. QED  BY <1>1, <1>2, TaskFacts DEF Goes

LEMMA BeginGoes ==
  ASSUME TypeInv, NEW w \in Workers, NEW kind \in Kinds, Begin(w, kind)
  PROVE  \E x : Goes(w, x)
<1>1. PICK x : x = IF kind \in {"dispatch", "direct"}
                   THEN [Idle EXCEPT !.at = "gate", !.kind = kind, !.to = Recipients]
                   ELSE [Idle EXCEPT !.at = "sending", !.kind = kind]
  OBVIOUS
<1>2. Proper(x) /\ ~x.guilty /\ x.result = "none" /\ (kind = "dispatch" => Enters(x))
  <2>1. Idle \in WorkerStates
    BY IdleFacts DEF Proper
  <2>2. CASE kind \in {"dispatch", "direct"}
    <3>1. x = [Idle EXCEPT !.at = "gate", !.kind = kind, !.to = Recipients]
      BY <1>1, <2>2
    <3>2. /\ x.at = "gate" /\ x.kind = kind /\ x.to = Recipients
          /\ x.pending = "none" /\ x.result = "none" /\ ~x.guilty
      BY <3>1 DEF Idle
    <3>3. Recipients \in 0..Recipients
      BY ConstantFacts
    <3>4. x \in WorkerStates
      BY <2>1, <3>1, <3>3 DEF WorkerStates, Points
    <3>. QED  BY <3>2, <3>4 DEF Proper, Enters
  <2>3. CASE kind \notin {"dispatch", "direct"}
    <3>1. x = [Idle EXCEPT !.at = "sending", !.kind = kind]
      BY <1>1, <2>3
    <3>2. /\ x.at = "sending" /\ x.kind = kind
          /\ x.pending = "none" /\ x.result = "none" /\ ~x.guilty
      BY <3>1 DEF Idle
    <3>3. x \in WorkerStates
      BY <2>1, <3>1 DEF WorkerStates, Points
    <3>. QED  BY <2>3, <3>2, <3>3 DEF Proper
  <2>. QED  BY <2>2, <2>3
<1>3. /\ worker' = [worker EXCEPT ![w] = x] /\ worker[w].at = "idle"
      /\ UNCHANGED <<each, up, breaker, ledger, reached, culprits, lost>>
      /\ asked' = (asked \/ kind = "dispatch")
  BY <1>1 DEF Begin, At
<1>4. UNCHANGED asked \/ (asked' = TRUE /\ Enters(x))
  BY <1>2, <1>3, TaskFacts
<1>. QED  BY <1>2, <1>3, <1>4, TaskFacts, GoesQuietly DEF Taken, Carries, Enters

(* Going on from a check, the message may be counted no more often.           *)
LEMMA AfterCheckGoes ==
  ASSUME TypeInv, NEW w \in Workers, worker[w].at \in {"gate", "door"},
         NEW open \in BOOLEAN, NEW x, x = [AfterCheck(w, open) EXCEPT !.pending = "none"]
  PROVE  /\ Proper(x)
         /\ x.guilty => worker[w].guilty /\ Remaining(x) <= Remaining(worker[w])
         /\ Taken(x) => Taken(worker[w])
         /\ ~Carries(worker[w])
         /\ Enters(worker[w]) => Enters(x)
<1>1. PICK y, r : y = AfterCheck(w, open) /\ r = worker[w]
  OBVIOUS
<1>2. /\ r \in WorkerStates /\ r.at \in {"gate", "door"} /\ r.to = Recipients
      /\ r.result = "none"
      /\ each \in BOOLEAN
  BY <1>1, TaskFacts DEF Proper
<1>3. /\ y \in WorkerStates
      /\ y.kind = r.kind /\ y.to = r.to
      /\ y.pending = r.pending /\ y.guilty = r.guilty
      /\ \/ y.at \in {"slack", "door"} /\ y.result = r.result /\ y.kind = "dispatch"
         \/ y.at = "fallback" /\ y.result = r.result /\ y.kind = "direct"
         \/ y.at = "tally" /\ y.result = "failed" /\ y.kind = "dispatch"
         \/ y.at = "outcome" /\ y.result = "failed" /\ y.kind # "dispatch"
         \/ y.at = "sending" /\ y.result = r.result /\ Recipients # 0
  BY <1>1, TaskFacts, AfterCheckFacts
<1>4. /\ x \in WorkerStates /\ x.pending = "none"
      /\ x.at = y.at /\ x.kind = y.kind /\ x.to = y.to /\ x.result = y.result
      /\ x.guilty = y.guilty
  BY <1>1, <1>3 DEF WorkerStates
<1>5. Proper(x)
  BY <1>2, <1>3, <1>4 DEF Proper
<1>6. Remaining(x) <= Remaining(r)
  <2>1. PICK m : m = CountsPerMessage
    OBVIOUS
  <2>2. m \in Nat /\ m >= 1 /\ m = IF each THEN Recipients + 1 ELSE 2
    BY <1>2, <2>1, CountsFacts
  <2>3. Remaining(r) = m
    BY <1>2, <2>1 DEF Remaining
  <2>4. Remaining(x) <= m
    BY <1>2, <1>3, <1>4, <2>1, <2>2, ConstantFacts DEF Remaining
  <2>. QED  BY <2>3, <2>4
<1>7. (Taken(x) => Taken(r)) /\ ~Carries(r) /\ (Enters(r) => Enters(x))
  BY <1>2, <1>3, <1>4 DEF Taken, Carries, Enters
<1>. QED  BY <1>1, <1>3, <1>4, <1>5, <1>6, <1>7

LEMMA CheckGoes ==
  ASSUME TypeInv, NEW w \in Workers, Check(w)
  PROVE  \E x : Goes(w, x)
<1>1. /\ worker[w].at \in {"gate", "door"} /\ worker[w].pending = "none"
      /\ UNCHANGED <<each, up, breaker, ledger, asked, reached, culprits, lost>>
  BY DEF Check, At
<1>2. \/ worker' = [worker EXCEPT ![w] = [worker[w] EXCEPT !.pending = "reset"]]
      \/ \E open \in BOOLEAN : worker' = [worker EXCEPT ![w] = AfterCheck(w, open)]
  <2>1. Open \in BOOLEAN
    BY DEF Open, Tripped, Cooling
  <2>. QED  BY <2>1, TaskFacts DEF Check
<1>3. CASE worker' = [worker EXCEPT ![w] = [worker[w] EXCEPT !.pending = "reset"]]
  <2>1. PICK r, x : r = worker[w] /\ x = [r EXCEPT !.pending = "reset"]
    OBVIOUS
  <2>2. r \in WorkerStates /\ Proper(r)
    BY <2>1, TaskFacts
  <2>3. Proper(x) /\ SameTask(x, r) /\ x.guilty = r.guilty
    BY <1>1, <2>1, <2>2 DEF Proper, WorkerStates, SameTask
  <2>4. Remaining(x) = Remaining(r) /\ Remaining(r) <= Remaining(r)
    BY <2>1, <2>3, TaskFacts, CountsFacts DEF SameTask, Remaining
  <2>. QED  BY <1>1, <1>3, <2>1, <2>3, <2>4, TaskFacts, GoesQuietly DEF SameTask, Taken, Carries, Enters
<1>4. ASSUME NEW open \in BOOLEAN, worker' = [worker EXCEPT ![w] = AfterCheck(w, open)]
      PROVE  \E x : Goes(w, x)
  <2>1. PICK y, x : y = AfterCheck(w, open) /\ x = [AfterCheck(w, open) EXCEPT !.pending = "none"]
    OBVIOUS
  <2>2. y \in WorkerStates /\ y.pending = "none"
    BY <1>1, <2>1, TaskFacts, AfterCheckFacts
  <2>3. x = y
    BY <2>1, <2>2 DEF WorkerStates
  <2>4. /\ Proper(x)
        /\ x.guilty => worker[w].guilty /\ Remaining(x) <= Remaining(worker[w])
        /\ Taken(x) => Taken(worker[w])
        /\ ~Carries(worker[w])
        /\ Enters(worker[w]) => Enters(x)
    BY <1>1, <2>1, AfterCheckGoes
  <2>. QED  BY <1>1, <1>4, <2>1, <2>3, <2>4, TaskFacts, GoesQuietly
<1>. QED  BY <1>2, <1>3, <1>4

LEMMA ResetGoes ==
  ASSUME TypeInv, NEW w \in Workers, Reset(w)
  PROVE  \E x : Goes(w, x)
<1>1. PICK x : x = [AfterCheck(w, FALSE) EXCEPT !.pending = "none"]
  OBVIOUS
<1>2. worker[w].at \in {"gate", "door"} /\ UNCHANGED <<each, up, ledger, asked, reached, lost>>
  BY TaskFacts DEF Reset, Proper
<1>3. /\ Proper(x)
      /\ x.guilty => worker[w].guilty /\ Remaining(x) <= Remaining(worker[w])
      /\ Taken(x) => Taken(worker[w])
      /\ ~Carries(worker[w])
      /\ Enters(worker[w]) => Enters(x)
  BY <1>1, <1>2, AfterCheckGoes
<1>4. CASE Forget([worker EXCEPT ![w] = x])
  BY <1>2, <1>3, <1>4, TaskFacts DEF Goes, Took
<1>5. CASE worker' = [worker EXCEPT ![w] = x] /\ UNCHANGED <<breaker, culprits>>
  BY <1>2, <1>3, <1>5, TaskFacts, GoesQuietly
<1>. QED  BY <1>1, <1>4, <1>5 DEF Reset

LEMMA TripGoes ==
  ASSUME TypeInv, NEW w \in Workers, Trip(w)
  PROVE  \E x : Goes(w, x)
<1>1. PICK r, x : r = worker[w] /\ x = [r EXCEPT !.pending = "none"]
  OBVIOUS
<1>2. r \in WorkerStates /\ Proper(r)
  BY <1>1, TaskFacts
<1>3. Proper(x) /\ SameTask(x, r) /\ x.guilty = r.guilty
  BY <1>1, <1>2 DEF Proper, WorkerStates, SameTask
<1>4. Remaining(x) = Remaining(r) /\ Remaining(r) <= Remaining(r)
  BY <1>1, <1>3, TaskFacts, CountsFacts DEF SameTask, Remaining
<1>5. breaker' \in Breakers /\ breaker'.count = breaker.count
  <2>1. Cooldown \in 0..Unset
    BY ConstantFacts DEF Unset
  <2>. QED  BY <2>1, TaskFacts DEF Trip, Breakers
<1>6. worker' = [worker EXCEPT ![w] = x] /\ UNCHANGED <<each, up, ledger, asked, reached, culprits, lost>>
  BY <1>1 DEF Trip
<1>. QED  BY <1>1, <1>3, <1>4, <1>5, <1>6, GoesQuietly DEF SameTask, Taken, Carries, Enters

LEMMA SendGoes ==
  ASSUME TypeInv, NEW w \in Workers, SendEach(w) \/ SendWhole(w)
  PROVE  \E x : Goes(w, x)
<1>1. PICK r, left : r = worker[w] /\ left = IF each THEN r.to - 1 ELSE 0
  OBVIOUS
<1>2. PICK ok \in {TRUE} \cup {up} :
        /\ SendTo(w, left, ok)
        /\ Told(ok) \/ (~ok /\ Beside(TRUE))
  BY <1>1, TaskFacts DEF SendEach, SendWhole
<1>3. /\ r \in WorkerStates /\ r.to # 0 /\ r.at = "sending" /\ r.kind = "dispatch"
      /\ r.pending = "none" /\ each \in BOOLEAN /\ ok \in BOOLEAN
      /\ UNCHANGED <<each, up, ledger, asked, lost>>
  BY <1>1, <1>2, TaskFacts DEF Proper, SendTo, At
<1>4. r.to \in Nat /\ left \in 0..Recipients
  BY <1>1, <1>3, ConstantFacts DEF WorkerStates
<1>5. PICK x : x = [r EXCEPT !.to = left,
                             !.result = IF ok \/ r.result = "ok" THEN "ok" ELSE "failed",
                             !.at = IF left = 0 THEN "tally" ELSE "sending"]
  OBVIOUS
<1>6. Score(w, ok, x)
  BY <1>1, <1>2, <1>5 DEF SendTo
<1>7. /\ x \in WorkerStates /\ x.to = left /\ x.kind = "dispatch" /\ x.pending = "none"
      /\ x.at = IF left = 0 THEN "tally" ELSE "sending"
      /\ x.result = IF ok \/ r.result = "ok" THEN "ok" ELSE "failed"
      /\ x.guilty = r.guilty
  BY <1>3, <1>4, <1>5 DEF WorkerStates, Points, Results
<1>8. Proper(x) /\ Enters(x)
  BY <1>7 DEF Proper, Enters
<1>9. Remaining(x) < Remaining(r)
  <2>1. Remaining(r) = IF each THEN r.to + 1 ELSE 2
    BY <1>3 DEF Remaining
  <2>2. Remaining(x) = IF left = 0 THEN 1 ELSE IF each THEN left + 1 ELSE 2
    BY <1>7 DEF Remaining
  <2>. QED  BY <1>1, <1>3, <1>4, <2>1, <2>2
<1>10. reached' \in Reaches /\ Took' = (Took \/ ok)
  BY <1>2, <1>3, TaskFacts DEF Told, Beside, Took, Reaches
<1>11. Taken(x) => Taken(r) \/ Took'
  BY <1>3, <1>7, <1>10 DEF Taken
<1>12. (Took' => Took \/ Carries(x)) /\ (Carries(r) => Carries(x))
  BY <1>3, <1>7, <1>10 DEF Carries
<1>. QED  BY <1>1, <1>3, <1>6, <1>7, <1>8, <1>9, <1>10, <1>11, <1>12, TaskFacts DEF Goes

LEMMA SendDirectGoes ==
  ASSUME TypeInv, NEW w \in Workers, SendDirect(w)
  PROVE  \E x : Goes(w, x)
<1>0. PICK ok \in {TRUE} \cup {up} :
        worker' = [worker EXCEPT ![w] =
          [worker[w] EXCEPT !.at = "outcome", !.result = IF ok THEN "ok" ELSE "failed"]]
  BY TaskFacts DEF SendDirect
<1>1. PICK r, x :
        /\ r = worker[w]
        /\ x = [r EXCEPT !.at = "outcome", !.result = IF ok THEN "ok" ELSE "failed"]
        /\ worker' = [worker EXCEPT ![w] = x]
  BY <1>0
<1>2. /\ r \in WorkerStates /\ r.at = "sending" /\ r.kind = "direct" /\ r.pending = "none"
      /\ UNCHANGED <<each, up, breaker, ledger, asked, culprits, lost>>
      /\ \E okay \in BOOLEAN : Beside(okay)
  BY <1>1, TaskFacts DEF SendDirect, At
<1>3. /\ x \in WorkerStates /\ x.at = "outcome" /\ x.kind = "direct" /\ x.pending = "none"
      /\ x.guilty = r.guilty
  BY <1>1, <1>2 DEF WorkerStates, Points, Results
<1>4. Proper(x) /\ ~Taken(x) /\ ~Carries(r) /\ ~Enters(r)
  BY <1>2, <1>3 DEF Proper, Taken, Carries, Enters
<1>5. Remaining(x) <= Remaining(r)
  BY <1>2, <1>3 DEF Remaining
<1>. QED  BY <1>1, <1>2, <1>3, <1>4, <1>5, TaskFacts, GoesQuietly

(* A message that is over, without an entry in the ledger.                     *)
LEMMA IdleGoes ==
  ASSUME TypeInv, NEW w \in Workers, worker[w].kind # "dispatch",
         worker' = [worker EXCEPT ![w] = Idle],
         UNCHANGED <<each, up, breaker, ledger, asked, culprits, lost>>,
         UNCHANGED reached \/ \E ok \in BOOLEAN : Beside(ok)
  PROVE  \E x : Goes(w, x)
BY IdleFacts, TaskFacts, GoesQuietly DEF Taken, Carries, Enters

LEMMA SendElseGoes ==
  ASSUME TypeInv, NEW w \in Workers,
         SendTelegram(w) \/ SendVoice(w) \/ SendSecondary(w) \/ SendFallback(w)
  PROVE  \E x : Goes(w, x)
<1>1. PICK r, x : r = worker[w] /\ x = [r EXCEPT !.at = "fallback"]
  OBVIOUS
<1>2. /\ r \in WorkerStates /\ r.pending = "none" /\ r.kind # "dispatch"
      /\ r.at \in {"sending", "fallback"}
      /\ UNCHANGED <<each, up, breaker, ledger, asked, culprits, lost>>
      /\ UNCHANGED reached \/ \E ok \in BOOLEAN : Beside(ok)
  BY <1>1, TaskFacts, DeliveryAssumption DEF SendTelegram, SendVoice, SendBare, SendSecondary, SendFallback, At
<1>3. CASE worker' = [worker EXCEPT ![w] = Idle]
  BY <1>1, <1>2, <1>3, IdleGoes
<1>4. CASE worker' = [worker EXCEPT ![w] = x] /\ SendSecondary(w)
  <2>1. /\ x \in WorkerStates /\ x.at = "fallback" /\ x.kind = r.kind /\ x.pending = "none"
        /\ x.guilty = r.guilty /\ r.at = "sending"
    BY <1>1, <1>2, <1>4 DEF WorkerStates, Points, SendSecondary, At
  <2>2. Proper(x) /\ ~Taken(x) /\ ~Carries(r) /\ ~Enters(r)
    BY <1>2, <2>1 DEF Proper, Taken, Carries, Enters
  <2>3. Remaining(x) <= Remaining(r)
    BY <1>2, <2>1 DEF Remaining
  <2>. QED  BY <1>1, <1>2, <1>4, <2>1, <2>2, <2>3, TaskFacts, GoesQuietly
<1>5. worker' = [worker EXCEPT ![w] = Idle]
      \/ (worker' = [worker EXCEPT ![w] = x] /\ SendSecondary(w))
  <2>1. ASSUME SendSecondary(w) PROVE worker' = [worker EXCEPT ![w] = Idle]
                                      \/ worker' = [worker EXCEPT ![w] = x]
    BY <1>1, <2>1, TaskFacts DEF SendSecondary
  <2>. QED  BY <2>1 DEF SendTelegram, SendVoice, SendBare, SendFallback
<1>. QED  BY <1>3, <1>4, <1>5

LEMMA TallyGoes ==
  ASSUME TypeInv, NEW w \in Workers, Tally(w)
  PROVE  \E x : Goes(w, x)
<1>1. PICK r, x, ok : /\ r = worker[w] /\ x = [r EXCEPT !.at = "outcome"]
                      /\ ok = (r.result = "ok")
  OBVIOUS
<1>2. /\ r \in WorkerStates /\ r.at = "tally" /\ r.kind = "dispatch" /\ r.pending = "none"
      /\ Enter(ok)
      /\ worker' = [worker EXCEPT ![w] = x]
      /\ UNCHANGED <<each, up, breaker, asked, reached, culprits>>
  BY <1>1, TaskFacts DEF Tally, At, Proper
<1>3. /\ x \in WorkerStates /\ x.at = "outcome" /\ x.kind = "dispatch" /\ x.pending = "none"
      /\ x.result = r.result /\ x.guilty = r.guilty
  BY <1>1, <1>2 DEF WorkerStates, Points
<1>4. Proper(x) /\ (Taken(x) => Taken(r)) /\ (ok => Taken(r)) /\ (Carries(r) => ok)
  BY <1>1, <1>2, <1>3 DEF Proper, Taken, Carries
<1>5. Remaining(x) = 1 /\ Remaining(r) = 1
  BY <1>2, <1>3 DEF Remaining
<1>6. \/ ledger' = ledger \cup {ok} /\ lost' = lost
      \/ ledger' = ledger /\ lost' = TRUE
  BY <1>2 DEF Enter
<1>7. /\ ledger' \subseteq BOOLEAN /\ ledger \subseteq ledger'
      /\ lost' \in BOOLEAN /\ (lost => lost')
      /\ (TRUE \in ledger' => TRUE \in ledger \/ ok)
      /\ ~lost' => ok \in ledger'
  <2>1. ok \in BOOLEAN
    BY <1>1
  <2>2. lost \in BOOLEAN /\ ledger \subseteq BOOLEAN
    BY TaskFacts
  <2>3. CASE ledger' = ledger \cup {ok} /\ lost' = lost
    BY <2>1, <2>2, <2>3
  <2>4. CASE ledger' = ledger /\ lost' = TRUE
    BY <2>2, <2>4
  <2>. QED  BY <1>6, <2>3, <2>4
<1>8. x.guilty => r.guilty /\ Remaining(x) <= Remaining(r)
  BY <1>3, <1>5
<1>9. Took' = Took
  BY <1>2 DEF Took
<1>10. ~lost' => ledger' # {} /\ (Carries(r) => TRUE \in ledger')
  BY <1>4, <1>7
<1>. QED  BY <1>1, <1>2, <1>4, <1>7, <1>8, <1>9, <1>10, TaskFacts DEF Goes

LEMMA OutcomeGoes ==
  ASSUME TypeInv, NEW w \in Workers, Outcome(w)
  PROVE  \E x : Goes(w, x)
<1>1. PICK r, x : /\ r = worker[w]
                  /\ x = CASE r.kind = "dispatch" -> [r EXCEPT !.at = "slack"]
                           [] r.result = "ok"     -> Idle
                           [] OTHER               -> [r EXCEPT !.at = "fallback"]
  OBVIOUS
<1>2. /\ r \in WorkerStates /\ r.at = "outcome" /\ r.pending = "none"
      /\ Score(w, r.result = "ok", x)
      /\ UNCHANGED <<each, up, ledger, asked, reached, lost>>
  BY <1>1, TaskFacts DEF Outcome, At
<1>3. \/ x = Idle /\ r.result = "ok"
      \/ /\ x \in WorkerStates /\ x.pending = "none" /\ x.guilty = r.guilty
         /\ x.kind = r.kind /\ x.result = r.result
         /\ \/ x.at = "slack" /\ x.kind = "dispatch"
            \/ x.at = "fallback"
  BY <1>1, <1>2 DEF WorkerStates, Points
<1>4. Proper(x) /\ (Taken(x) => Taken(r)) /\ ~Carries(r) /\ ~Enters(r)
  BY <1>2, <1>3, IdleFacts DEF Proper, Taken, Carries, Enters
<1>4a. Took' = Took
  BY <1>2 DEF Took
<1>5. Remaining(x) = 0 /\ Remaining(r) = 1
  BY <1>2, <1>3, IdleFacts DEF Remaining
<1>6. CASE x = Idle /\ r.result = "ok"
  <2>1. \/ Forget([worker EXCEPT ![w] = x])
        \/ worker' = [worker EXCEPT ![w] = x] /\ UNCHANGED <<breaker, culprits>>
    BY <1>2, <1>6 DEF Score
  <2>2. CASE Forget([worker EXCEPT ![w] = x])
    BY <1>1, <1>2, <1>4, <1>4a, <2>2, TaskFacts DEF Goes
  <2>3. CASE worker' = [worker EXCEPT ![w] = x] /\ UNCHANGED <<breaker, culprits>>
    BY <1>1, <1>2, <1>4, <1>6, <2>3, IdleFacts, TaskFacts, GoesQuietly
  <2>. QED  BY <2>1, <2>2, <2>3
<1>7. CASE x.pending = "none" /\ x.guilty = r.guilty
  <2>1. \E ok \in BOOLEAN : Score(w, ok, x)
    <3>1. PICK ok : ok = (r.result = "ok")
      OBVIOUS
    <3>2. ok \in BOOLEAN /\ Score(w, ok, x)
      BY <1>2, <3>1
    <3>. QED  BY <3>2
  <2>2. Remaining(x) < Remaining(r)
    BY <1>5
  <2>. QED  BY <1>1, <1>2, <1>4, <1>4a, <1>7, <2>1, <2>2, TaskFacts DEF Goes
<1>. QED  BY <1>3, <1>6, <1>7

(* What an attempt of another channel enters, and whether it reaches anybody.  *)
LEMMA EnterFacts ==
  ASSUME TypeInv, NEW ok \in BOOLEAN, Enter(ok), Told(ok)
  PROVE  /\ reached' \in Reaches /\ (Took => Took')
         /\ ledger' \subseteq BOOLEAN /\ ledger \subseteq ledger'
         /\ lost' \in BOOLEAN /\ (lost => lost')
         /\ TRUE \in ledger' => TRUE \in ledger \/ Took'
         /\ ~lost' => ledger' # {} /\ (Took' => Took \/ TRUE \in ledger')
<1>0. reached' \in Reaches /\ Took' = (Took \/ ok)
  BY DEF TypeInv, TypeOK, Told, Took, Reaches
<1>1. lost \in BOOLEAN /\ ledger \subseteq BOOLEAN
  BY DEF TypeInv, TypeOK
<1>2. CASE ledger' = ledger \cup {ok} /\ UNCHANGED lost
  BY <1>0, <1>1, <1>2
<1>3. CASE lost' = TRUE /\ UNCHANGED ledger
  BY <1>0, <1>1, <1>3
<1>. QED  BY <1>2, <1>3 DEF Enter

LEMMA SlackGoes ==
  ASSUME TypeInv, NEW w \in Workers, Slack(w)
  PROVE  \E x : Goes(w, x)
<1>1. PICK r, x : /\ r = worker[w]
                  /\ x = IF r.result = "ok" THEN Idle ELSE [r EXCEPT !.at = "fallback"]
  OBVIOUS
<1>2. /\ r \in WorkerStates /\ r.at = "slack" /\ r.pending = "none"
      /\ worker' = [worker EXCEPT ![w] = x]
      /\ UNCHANGED <<each, up, breaker, asked, culprits>>
  BY <1>1, TaskFacts DEF Slack, At
<1>3. \/ x = Idle
      \/ /\ x \in WorkerStates /\ x.pending = "none" /\ x.guilty = r.guilty
         /\ x.at = "fallback" /\ x.result = r.result
         /\ r.result # "ok"
  BY <1>1, <1>2 DEF WorkerStates, Points
<1>4. /\ Proper(x) /\ ~Taken(x) /\ ~Carries(r) /\ (x.guilty => r.guilty)
      /\ Enters(r) => Enters(x)
  BY <1>1, <1>2, <1>3, IdleFacts DEF Proper, Taken, Carries, Enters
<1>5. Remaining(x) = 0 /\ Remaining(r) = 0
  BY <1>2, <1>3, IdleFacts DEF Remaining
<1>6. x.guilty => r.guilty /\ Remaining(x) <= Remaining(r)
  BY <1>4, <1>5
<1>7. CASE UNCHANGED <<ledger, lost, asked, reached>>
  BY <1>1, <1>2, <1>4, <1>6, <1>7, TaskFacts, GoesQuietly
<1>8. ASSUME NEW ok \in BOOLEAN, Enter(ok), Told(ok)
      PROVE  \E y : Goes(w, y)
  BY <1>1, <1>2, <1>4, <1>6, <1>8, TaskFacts, EnterFacts DEF Goes
<1>. QED  BY <1>7, <1>8 DEF Slack

LEMMA FallbackGoes ==
  ASSUME TypeInv, NEW w \in Workers, Fallback(w)
  PROVE  \E x : Goes(w, x)
<1>1. PICK r, x : r = worker[w] /\ x = Idle
  OBVIOUS
<1>2. /\ r.at = "fallback"
      /\ worker' = [worker EXCEPT ![w] = x]
      /\ UNCHANGED <<each, up, breaker, asked, culprits>>
  BY <1>1 DEF Fallback, At
<1>3. Proper(x) /\ ~Taken(x) /\ ~Carries(r) /\ ~x.guilty
  BY <1>1, <1>2, IdleFacts DEF Taken, Carries
<1>4. PICK ok \in {FALSE, HasFallback} : Enter(ok) /\ Told(ok)
  BY DEF Fallback
<1>5. ok \in BOOLEAN
  BY DeliveryAssumption
<1>6. PICK y : y = ok
  OBVIOUS
<1>. QED  BY <1>1, <1>2, <1>3, <1>4, <1>5, TaskFacts, EnterFacts DEF Goes

LEMMA DieGoes ==
  ASSUME TypeInv, NEW w \in Workers, Die(w)
  PROVE  \E x : Goes(w, x)
<1>1. PICK x : x = Idle
  OBVIOUS
<1>2. Proper(x) /\ ~x.guilty /\ ~Taken(x)
  BY <1>1, IdleFacts DEF Taken
<1>. QED  BY <1>1, <1>2, TaskFacts DEF Die, Goes, Took

LEMMA StepCases ==
  ASSUME TypeInv, [Next]_vars
  PROVE  \/ \E w \in Workers : \E x : Goes(w, x)
         \/ Tick
         \/ World
         \/ UNCHANGED vars
<1>1. ASSUME NEW w \in Workers, Step(w) \/ Die(w) \/ \E kind \in Kinds : Begin(w, kind)
      PROVE  \E x : Goes(w, x)
  BY <1>1, BeginGoes, CheckGoes, ResetGoes, TripGoes, SendGoes, SendDirectGoes, SendElseGoes,
     TallyGoes, OutcomeGoes, SlackGoes, FallbackGoes, DieGoes DEF Step
<1>2. CASE \E w \in Workers : Step(w) \/ Die(w) \/ \E kind \in Kinds : Begin(w, kind)
  <2>1. PICK w \in Workers : Step(w) \/ Die(w) \/ \E kind \in Kinds : Begin(w, kind)
    BY <1>2
  <2>2. PICK x : Goes(w, x)
    BY <1>1, <2>1
  <2>. QED  BY <2>2
<1>. QED  BY <1>2 DEF Next

-------------------------------------------------------------------------------
(* What a step leaves of every task.                                          *)
LEMMA GoesTypes ==
  ASSUME TypeInv, NEW w \in Workers, NEW x, Goes(w, x)
  PROVE  /\ TypeInv'
         /\ SameTask(worker'[w], x)
         /\ \A v \in Workers \ {w} : SameTask(worker'[v], worker[v])
<1>1. /\ worker \in [Workers -> WorkerStates] /\ \A v \in Workers : Proper(worker[v])
      /\ x \in WorkerStates /\ Proper(x)
  BY TaskFacts DEF Goes, Proper
<1>2. /\ {each, up}' \subseteq BOOLEAN /\ ledger' \subseteq BOOLEAN
      /\ asked' \in BOOLEAN /\ reached' \in Reaches /\ lost' \in BOOLEAN
  BY TaskFacts DEF Goes
<1>3. /\ breaker' \in Breakers /\ culprits' \in 0..Threshold
      /\ worker' \in [Workers -> WorkerStates]
      /\ \A v \in Workers : Proper(worker'[v])
      /\ SameTask(worker'[w], x)
      /\ \A v \in Workers \ {w} : SameTask(worker'[v], worker[v])
  <2>1. CASE /\ worker' = [worker EXCEPT ![w] = x]
             /\ UNCHANGED culprits
             /\ breaker' \in Breakers
    BY <1>1, <2>1, TaskFacts DEF SameTask
  <2>2. ASSUME NEW ok \in BOOLEAN, Score(w, ok, x)
        PROVE  /\ breaker' \in Breakers /\ culprits' \in 0..Threshold
               /\ worker' \in [Workers -> WorkerStates]
               /\ \A v \in Workers : Proper(worker'[v])
               /\ SameTask(worker'[w], x)
               /\ \A v \in Workers \ {w} : SameTask(worker'[v], worker[v])
    BY <1>1, <2>2, ScoreFacts
  <2>3. ASSUME Forget([worker EXCEPT ![w] = x])
        PROVE  Score(w, TRUE, x)
    BY <2>3 DEF Score
  <2>. QED  BY <2>1, <2>2, <2>3 DEF Goes
<1>. QED  BY <1>2, <1>3 DEF TypeInv, TypeOK, Reaches

LEMMA NextTypeInv ==
  ASSUME TypeInv, [Next]_vars
  PROVE  TypeInv'
<1>1. ASSUME NEW w \in Workers, NEW x, Goes(w, x)
      PROVE  TypeInv'
  BY <1>1, GoesTypes
<1>2. CASE Tick
  <2>1. breaker \in Breakers /\ breaker.left \in 1..Cooldown
    BY <1>2 DEF TypeInv, TypeOK, Tick, Cooling
  <2>2. breaker.left - 1 \in 0..Unset
    BY <2>1, ConstantFacts DEF Unset
  <2>3. breaker' \in Breakers
    BY <1>2, <2>1, <2>2 DEF Tick, Breakers
  <2>. QED  BY <1>2, <2>3 DEF TypeInv, TypeOK, Tick
<1>3. CASE World
  <2>1. up \in BOOLEAN
    BY DEF TypeInv, TypeOK
  <2>. QED  BY <1>3, <2>1 DEF TypeInv, TypeOK, World
<1>4. CASE UNCHANGED vars
  BY <1>4 DEF TypeInv, TypeOK, vars
<1>. QED  BY <1>1, <1>2, <1>3, <1>4, StepCases

LEMMA InitTypeInv == Init => TypeInv
<1>. SUFFICES ASSUME Init PROVE TypeInv
  OBVIOUS
<1>1. Idle \in WorkerStates /\ Proper(Idle)
  BY IdleFacts DEF Proper
<1>2. /\ worker \in [Workers -> WorkerStates]
      /\ \A w \in Workers : Proper(worker[w])
  BY <1>1 DEF Init
<1>. QED  BY <1>2, IdleFacts DEF Init, TypeInv, TypeOK

LEMMA TypeInvAlways == Spec => []TypeInv
BY InitTypeInv, NextTypeInv, PTL DEF Spec

(* The breaker, the tasks and the ledger always have their types: a count never *)
(* exceeds the threshold, whoever counts at the same time.                    *)
THEOREM DeliveryTypeCorrect == Spec => []TypeOK
<1>1. TypeInv => TypeOK
  BY DEF TypeInv
<1>. QED  BY <1>1, TypeInvAlways, PTL

-------------------------------------------------------------------------------
(* What the ledger says of the channels.                                      *)

Heard ==
  /\ TRUE \in ledger => Took
  /\ ~lost /\ Took => TRUE \in ledger \/ \E w \in Workers : Carries(worker[w])
  /\ \A w \in Workers : Taken(worker[w]) => Took
  /\ asked /\ ~lost => ledger # {} \/ \E w \in Workers : Enters(worker[w])

LEMMA NextHeard ==
  ASSUME TypeInv, Heard, [Next]_vars
  PROVE  Heard'
<1>0. /\ TRUE \in ledger => Took
      /\ ~lost /\ Took => TRUE \in ledger \/ \E w \in Workers : Carries(worker[w])
      /\ \A w \in Workers : Taken(worker[w]) => Took
      /\ asked /\ ~lost => ledger # {} \/ \E w \in Workers : Enters(worker[w])
  BY DEF Heard
<1>1. ASSUME NEW w \in Workers, NEW x, Goes(w, x)
      PROVE  Heard'
  <2>1. /\ SameTask(worker'[w], x)
        /\ \A v \in Workers \ {w} : SameTask(worker'[v], worker[v])
    BY <1>1, GoesTypes
  <2>2. /\ Carries(worker'[w]) = Carries(x) /\ Taken(worker'[w]) = Taken(x)
        /\ Enters(worker'[w]) = Enters(x)
        /\ \A v \in Workers \ {w} : /\ Carries(worker'[v]) = Carries(worker[v])
                                    /\ Taken(worker'[v]) = Taken(worker[v])
                                    /\ Enters(worker'[v]) = Enters(worker[v])
    BY <2>1 DEF SameTask, Carries, Taken, Enters
  <2>3. PICK r : r = worker[w]
    OBVIOUS
  <2>4. /\ (Took => Took') /\ ledger \subseteq ledger' /\ (lost => lost')
        /\ lost' \in BOOLEAN /\ asked' \in BOOLEAN
        /\ asked' => asked \/ Enters(x)
        /\ ~lost' /\ Enters(r) => ledger' # {} \/ Enters(x)
        /\ Taken(x) => Taken(r) \/ Took'
        /\ TRUE \in ledger' => TRUE \in ledger \/ Taken(r) \/ Took'
        /\ ~lost' => /\ Took' => Took \/ TRUE \in ledger' \/ Carries(x)
                     /\ Carries(r) => TRUE \in ledger' \/ Carries(x)
    BY <1>1, <2>3 DEF Goes
  <2>5. Taken(r) => Took'
    BY <1>0, <2>3, <2>4
  <2>6. TRUE \in ledger' => Took'
    BY <1>0, <2>4, <2>5
  <2>7. \A v \in Workers : Taken(worker'[v]) => Took'
    BY <1>0, <2>2, <2>4, <2>5
  <2>8. ASSUME ~lost', Took'
        PROVE  TRUE \in ledger' \/ \E v \in Workers : Carries(worker'[v])
    <3>1. CASE Took
      <4>1. TRUE \in ledger \/ \E v \in Workers : Carries(worker[v])
        BY <1>0, <2>4, <2>8, <3>1
      <4>2. ASSUME NEW v \in Workers, Carries(worker[v])
            PROVE  TRUE \in ledger' \/ \E u \in Workers : Carries(worker'[u])
        BY <2>2, <2>3, <2>4, <2>8, <4>2
      <4>. QED  BY <2>4, <4>1, <4>2
    <3>2. CASE ~Took
      BY <2>2, <2>4, <2>8, <3>2
    <3>. QED  BY <3>1, <3>2
  <2>9. ASSUME asked', ~lost'
        PROVE  ledger' # {} \/ \E v \in Workers : Enters(worker'[v])
    <3>1. CASE Enters(x)
      BY <2>2, <3>1
    <3>2. CASE ~Enters(x)
      <4>1. ledger # {} \/ \E v \in Workers : Enters(worker[v])
        BY <1>0, <2>4, <2>9, <3>2
      <4>2. ASSUME NEW v \in Workers, Enters(worker[v])
            PROVE  ledger' # {} \/ \E u \in Workers : Enters(worker'[u])
        BY <2>2, <2>3, <2>4, <2>9, <3>2, <4>2
      <4>. QED  BY <2>4, <4>1, <4>2
    <3>. QED  BY <3>1, <3>2
  <2>. QED  BY <2>6, <2>7, <2>8, <2>9 DEF Heard, Carries, Taken, Enters
<1>2. CASE Tick \/ World \/ UNCHANGED vars
  <2>1. UNCHANGED <<ledger, asked, reached, lost, worker>>
    BY <1>2 DEF Tick, World, vars
  <2>. QED  BY <2>1 DEF Heard, Carries, Taken, Enters, Took
<1>. QED  BY <1>1, <1>2, StepCases

(* The delivery log misses no blackout of an incident that dispatch was called  *)
(* for: unless an entry was lost, once every message is over its entries are   *)
(* all failures exactly if no channel told dispatch that it took a message,    *)
(* whatever the breaker, the other channels and the other tasks do.           *)
THEOREM BlackoutSeenCorrect == Spec => []BlackoutSeen
<1>1. Init => Heard
  <2>. SUFFICES ASSUME Init PROVE Heard
    OBVIOUS
  <2>1. \A w \in Workers : worker[w].result = "none"
    BY IdleFacts DEF Init
  <2>. QED  BY <2>1 DEF Init, Heard, Taken, Took
<1>2. TypeInv /\ Heard => BlackoutSeen
  <2>. SUFFICES ASSUME TypeInv, Heard, Settled
                PROVE  (ledger = {FALSE}) <=> ~Took
    BY DEF BlackoutSeen, Took
  <2>1. ledger \subseteq BOOLEAN
    BY DEF TypeInv, TypeOK
  <2>2. \A w \in Workers : ~Carries(worker[w]) /\ ~Enters(worker[w])
    BY DEF Settled, Carries, Enters
  <2>3. (TRUE \in ledger => Took) /\ (Took => TRUE \in ledger) /\ ledger # {}
    BY <2>2 DEF Settled, Heard
  <2>. QED  BY <2>1, <2>3
<1>. QED  BY <1>1, <1>2, NextHeard, TypeInvAlways, PTL DEF Spec

-------------------------------------------------------------------------------
(* What an open breaker was opened by.  Every culprit has counted at most as   *)
(* often as a message may, less the failures it may still add: each is a pair  *)
(* of Owed.                                                                   *)

Owed == {o \in Workers \X (1..CountsPerMessage) :
           worker[o[1]].guilty /\ o[2] <= Remaining(worker[o[1]])}

Earned ==
  /\ IsFiniteSet(Owed)
  /\ culprits < Threshold
       => breaker.count + Cardinality(Owed) <= culprits * CountsPerMessage

LEMMA SameRemaining ==
  ASSUME NEW a, NEW b, SameTask(a, b)
  PROVE  Remaining(a) = Remaining(b)
BY DEF SameTask, Remaining

(* What is owed after a step, in terms of the tasks after it.                 *)
LEMMA OwedNext ==
  ASSUME UNCHANGED each
  PROVE  /\ CountsPerMessage' = CountsPerMessage
         /\ Owed' = {o \in Workers \X (1..CountsPerMessage) :
                       worker'[o[1]].guilty /\ o[2] <= Remaining(worker'[o[1]])}
<1>1. CountsPerMessage' = CountsPerMessage
  BY DEF CountsPerMessage
<1>2. \A v \in Workers : Remaining(worker[v])' = Remaining(worker'[v])
  BY <1>1 DEF Remaining
<1>. QED  BY <1>1, <1>2 DEF Owed

(* When a message goes on that adds no culprit, nothing more is owed.          *)
LEMMA OwedShrinks ==
  ASSUME UNCHANGED each,
         \A v \in Workers : worker'[v].guilty
           => worker[v].guilty /\ Remaining(worker'[v]) \in Int /\ Remaining(worker[v]) \in Int
              /\ Remaining(worker'[v]) <= Remaining(worker[v])
  PROVE  Owed' \subseteq Owed
<1>. SUFFICES ASSUME NEW o \in Owed'
              PROVE  o \in Owed
  OBVIOUS
<1>1. /\ o \in Workers \X (1..CountsPerMessage)
      /\ worker'[o[1]].guilty /\ o[2] <= Remaining(worker'[o[1]])
  BY OwedNext
<1>2. PICK v \in Workers, k \in 1..CountsPerMessage : o = <<v, k>>
  BY <1>1
<1>3. worker'[v].guilty /\ k <= Remaining(worker'[v])
  BY <1>1, <1>2
<1>4. worker[v].guilty /\ k <= Remaining(worker[v])
  BY <1>2, <1>3
<1>. QED  BY <1>2, <1>4 DEF Owed

(* The failures one message may still add.                                    *)
LEMMA ColumnSize ==
  ASSUME NEW w, NEW n \in Nat
  PROVE  IsFiniteSet({w} \X (1..n)) /\ Cardinality({w} \X (1..n)) <= n
<1>1. PICK f : f = [k \in 1..n |-> <<w, k>>]
  OBVIOUS
<1>2. f \in Surjection(1..n, {w} \X (1..n))
  <2>1. f \in [1..n -> {w} \X (1..n)]
    BY <1>1
  <2>2. ASSUME NEW t \in {w} \X (1..n)
        PROVE  \E k \in 1..n : f[k] = t
    <3>1. PICK k \in 1..n : t = <<w, k>>
      OBVIOUS
    <3>. QED  BY <1>1, <3>1
  <2>. QED  BY <2>1, <2>2 DEF Surjection
<1>3. IsFiniteSet(1..n) /\ Cardinality(1..n) = n
  BY FS_Interval
<1>. QED  BY <1>2, <1>3, FS_Surjection

(* A failure counted against the message of w, which may count less often     *)
(* afterwards.                                                                *)
LEMMA BlameEarned ==
  ASSUME TypeInv, Earned, NEW w \in Workers, NEW x, Blame(w, x), Proper(x), UNCHANGED each,
         x.guilty = worker[w].guilty, Remaining(x) < Remaining(worker[w])
  PROVE  Earned'
<1>1. PICK m, r, n : /\ m = CountsPerMessage /\ r = worker[w]
                     /\ n = IF Tripped THEN Threshold ELSE breaker.count + 1
  OBVIOUS
<1>2. /\ m \in Nat /\ m >= 1 /\ CountsPerMessage' = m
      /\ culprits \in 0..Threshold /\ breaker.count \in 0..Threshold
      /\ worker \in [Workers -> WorkerStates]
      /\ Remaining(r) \in 0..m
  BY <1>1, TaskFacts, CountsFacts, OwedNext DEF Breakers
<1>3. breaker'.count = n /\ n \in Nat /\ n <= breaker.count + 1
  BY <1>1, <1>2, ConstantFacts, TaskFacts DEF Blame, Tripped, Breakers
<1>4. PICK pending : worker' = [worker EXCEPT ![w] = [x EXCEPT !.guilty = TRUE, !.pending = pending]]
  BY DEF Blame
<1>5. /\ worker'[w].guilty /\ SameTask(worker'[w], x)
      /\ \A v \in Workers \ {w} : worker'[v] = worker[v]
  BY <1>2, <1>4 DEF SameTask, Proper, WorkerStates
<1>6. PICK q : q = Remaining(x)
  OBVIOUS
<1>7. Remaining(worker'[w]) = q /\ q \in Nat /\ q < Remaining(r)
  <2>1. q \in Nat
    BY <1>2, <1>6, ConstantFacts, TaskFacts, CountsFacts DEF Remaining, Proper, WorkerStates
  <2>. QED  BY <1>1, <1>5, <1>6, <2>1, SameRemaining
<1>8. ASSUME NEW o \in Owed'
      PROVE  \/ o \in Owed /\ o[1] # w
             \/ o \in {w} \X (1..q)
  <2>1. /\ o \in Workers \X (1..m)
        /\ worker'[o[1]].guilty /\ o[2] <= Remaining(worker'[o[1]])
    BY <1>1, OwedNext
  <2>2. PICK v \in Workers, k \in 1..m : o = <<v, k>>
    BY <2>1
  <2>3. CASE v = w
    BY <1>2, <1>7, <2>1, <2>2, <2>3
  <2>4. CASE v # w
    BY <1>1, <1>5, <2>1, <2>2, <2>4 DEF Owed
  <2>. QED  BY <2>3, <2>4
<1>9. IsFiniteSet(Owed) /\ IsFiniteSet({w} \X (1..q)) /\ Cardinality({w} \X (1..q)) <= q
  BY <1>7, ColumnSize DEF Earned
<1>10. PICK c : c = Cardinality(Owed)
  OBVIOUS
<1>11. c \in Nat /\ (culprits < Threshold => breaker.count + c <= culprits * m)
  BY <1>1, <1>9, <1>10, FS_CardinalityType DEF Earned
<1>12. culprits \in Nat /\ culprits * m \in Nat /\ (culprits + 1) * m = culprits * m + m
  BY <1>2
<1>13. CASE r.guilty
  <2>1. <<w, Remaining(r)>> \in Owed
    BY <1>1, <1>2, <1>7, <1>13 DEF Owed
  <2>2. Owed' \subseteq Owed \ {<<w, Remaining(r)>>}
    <3>1. ASSUME NEW o \in {w} \X (1..q)
          PROVE  o \in Owed /\ o # <<w, Remaining(r)>>
      <4>1. PICK k \in 1..q : o = <<w, k>>
        OBVIOUS
      <4>2. k \in 1..m /\ k <= Remaining(r) /\ k # Remaining(r)
        BY <1>2, <1>7
      <4>. QED  BY <1>1, <1>13, <4>1, <4>2 DEF Owed
    <3>2. ASSUME NEW o \in Owed, o[1] # w
          PROVE  o # <<w, Remaining(r)>>
      BY <3>2
    <3>. QED  BY <1>8, <3>1, <3>2
  <2>3. IsFiniteSet(Owed \ {<<w, Remaining(r)>>}) /\ Cardinality(Owed \ {<<w, Remaining(r)>>}) = c - 1
    BY <1>9, <1>10, <2>1, FS_RemoveElement
  <2>4. IsFiniteSet(Owed') /\ Cardinality(Owed') <= c - 1
    BY <2>2, <2>3, FS_Subset
  <2>5. culprits' = culprits
    BY <1>1, <1>13 DEF Blame
  <2>6. PICK d : d = Cardinality(Owed')
    OBVIOUS
  <2>7. d \in Nat
    BY <2>4, <2>6, FS_CardinalityType
  <2>8. culprits' < Threshold => n + d <= culprits * m
    BY <1>2, <1>3, <1>11, <1>12, <2>4, <2>5, <2>6, <2>7
  <2>. QED  BY <1>2, <1>3, <2>4, <2>5, <2>6, <2>8 DEF Earned
<1>14. CASE ~r.guilty
  <2>1. Owed' \subseteq Owed \cup ({w} \X (1..q))
    BY <1>8
  <2>2. /\ IsFiniteSet(Owed \cup ({w} \X (1..q)))
        /\ Cardinality(Owed \cup ({w} \X (1..q))) <= c + q
    <3>1. IsFiniteSet(Owed \cap ({w} \X (1..q)))
      BY <1>9, FS_Subset
    <3>2. Cardinality(Owed \cap ({w} \X (1..q))) \in Nat /\ Cardinality({w} \X (1..q)) \in Nat
      BY <1>9, <3>1, FS_CardinalityType
    <3>3. /\ IsFiniteSet(Owed \cup ({w} \X (1..q)))
          /\ Cardinality(Owed \cup ({w} \X (1..q)))
               = Cardinality(Owed) + Cardinality({w} \X (1..q))
                 - Cardinality(Owed \cap ({w} \X (1..q)))
      BY <1>9, FS_Union
    <3>4. PICK a, b, u : /\ a = Cardinality({w} \X (1..q))
                         /\ b = Cardinality(Owed \cap ({w} \X (1..q)))
                         /\ u = Cardinality(Owed \cup ({w} \X (1..q)))
      OBVIOUS
    <3>5. a \in Nat /\ b \in Nat /\ a <= q /\ u = c + a - b
      BY <1>9, <1>10, <3>2, <3>3, <3>4
    <3>6. u <= c + q
      BY <1>7, <1>11, <3>5
    <3>. QED  BY <3>3, <3>4, <3>6
  <2>3. PICK d, e : d = Cardinality(Owed') /\ e = Cardinality(Owed \cup ({w} \X (1..q)))
    OBVIOUS
  <2>4. IsFiniteSet(Owed') /\ d <= e /\ d \in Nat /\ e \in Nat /\ e <= c + q
    BY <2>1, <2>2, <2>3, FS_Subset, FS_CardinalityType
  <2>5. ASSUME culprits' < Threshold
        PROVE  culprits' = culprits + 1 /\ culprits < Threshold
    BY <1>1, <1>2, <1>14, <2>5, ConstantFacts DEF Blame
  <2>6. culprits' < Threshold => n + d <= culprits' * m
    <3>. SUFFICES ASSUME culprits' < Threshold PROVE n + d <= culprits' * m
      OBVIOUS
    <3>1. q + 1 <= m
      BY <1>2, <1>7
    <3>2. n + d <= culprits * m + m
      BY <1>2, <1>3, <1>7, <1>11, <1>12, <2>4, <2>5, <3>1
    <3>. QED  BY <1>12, <2>5, <3>2
  <2>. QED  BY <1>2, <1>3, <2>3, <2>4, <2>6 DEF Earned
<1>. QED  BY <1>13, <1>14

LEMMA ForgetEarned ==
  ASSUME NEW others, Forget(others), UNCHANGED each, CountsPerMessage \in Nat
  PROVE  Earned'
<1>1. Owed' = {}
  <2>1. \A v \in Workers : ~worker'[v].guilty
    <3>. SUFFICES ASSUME NEW v \in Workers PROVE ~worker'[v].guilty
      OBVIOUS
    <3>1. worker'[v] = [others[v] EXCEPT !.guilty = FALSE]
      BY DEF Forget
    <3>. QED  BY <3>1
  <2>2. ASSUME NEW o \in Owed' PROVE FALSE
    BY <2>1, OwedNext
  <2>. QED  BY <2>2
<1>2. breaker'.count = 0 /\ culprits' = 0 /\ CountsPerMessage' \in Nat
  BY IdleFacts, OwedNext DEF Forget
<1>3. IsFiniteSet(Owed') /\ Cardinality(Owed') = 0
  BY <1>1, FS_EmptySet
<1>4. breaker'.count + Cardinality(Owed') <= culprits' * CountsPerMessage'
  <2>1. PICK m : m = CountsPerMessage
    OBVIOUS
  <2>2. m \in Nat /\ 0 + 0 <= 0 * m
    BY <2>1
  <2>3. CountsPerMessage' = m
    BY <2>1, OwedNext
  <2>. QED  BY <1>2, <1>3, <2>2, <2>3
<1>. QED  BY <1>3, <1>4 DEF Earned

(* Nothing is counted, and nothing more is owed.                              *)
LEMMA CalmEarned ==
  ASSUME TypeInv, Earned, UNCHANGED <<each, culprits>>, breaker'.count = breaker.count,
         \A v \in Workers : worker'[v].guilty
           => worker[v].guilty /\ Remaining(worker'[v]) \in Int /\ Remaining(worker[v]) \in Int
              /\ Remaining(worker'[v]) <= Remaining(worker[v])
  PROVE  Earned'
<1>1. Owed' \subseteq Owed
  BY OwedShrinks
<1>2. IsFiniteSet(Owed) /\ IsFiniteSet(Owed') /\ Cardinality(Owed') <= Cardinality(Owed)
  BY <1>1, FS_Subset DEF Earned
<1>3. PICK c, d, p, n : /\ c = Cardinality(Owed) /\ d = Cardinality(Owed')
                        /\ p = culprits * CountsPerMessage /\ n = breaker.count
  OBVIOUS
<1>4. c \in Nat /\ d \in Nat /\ d <= c
  BY <1>2, <1>3, FS_CardinalityType
<1>5. p \in Nat /\ n \in Nat
  <2>1. each \in BOOLEAN /\ culprits \in Nat
    BY ConstantFacts DEF TypeInv, TypeOK
  <2>2. CountsPerMessage \in Nat
    BY <2>1, CountsFacts
  <2>3. n \in Nat
    BY <1>3, ConstantFacts DEF TypeInv, TypeOK, Breakers
  <2>. QED  BY <1>3, <2>1, <2>2, <2>3
<1>6. culprits < Threshold => n + c <= p
  BY <1>3 DEF Earned
<1>7. culprits < Threshold => n + d <= p
  BY <1>4, <1>5, <1>6
<1>8. breaker'.count = n /\ culprits' = culprits /\ culprits' * CountsPerMessage' = p
  BY <1>3, OwedNext
<1>. QED  BY <1>2, <1>3, <1>7, <1>8 DEF Earned

LEMMA NextEarned ==
  ASSUME TypeInv, Earned, [Next]_vars
  PROVE  Earned'
<1>1. ASSUME NEW w \in Workers, NEW x, Goes(w, x)
      PROVE  Earned'
  <2>1. /\ worker \in [Workers -> WorkerStates] /\ Proper(x) /\ UNCHANGED each
        /\ CountsPerMessage \in Nat
        /\ \A v \in Workers : Remaining(worker[v]) \in 0..CountsPerMessage
    BY <1>1, TaskFacts, CountsFacts DEF Goes
  <2>2. Remaining(x) \in Int
    BY <2>1, ConstantFacts, TaskFacts, CountsFacts DEF Remaining, Proper, WorkerStates
  <2>3. CASE Forget([worker EXCEPT ![w] = x])
    BY <2>1, <2>3, ForgetEarned
  <2>4. CASE /\ worker' = [worker EXCEPT ![w] = x]
             /\ x.guilty => worker[w].guilty /\ Remaining(x) <= Remaining(worker[w])
             /\ UNCHANGED culprits
             /\ breaker'.count = breaker.count
    <3>1. \A v \in Workers : worker'[v].guilty
            => worker[v].guilty /\ Remaining(worker'[v]) \in Int /\ Remaining(worker[v]) \in Int
               /\ Remaining(worker'[v]) <= Remaining(worker[v])
      <4>. SUFFICES ASSUME NEW v \in Workers, worker'[v].guilty
                    PROVE  worker[v].guilty /\ Remaining(worker'[v]) \in Int
                           /\ Remaining(worker[v]) \in Int
                           /\ Remaining(worker'[v]) <= Remaining(worker[v])
        OBVIOUS
      <4>1. CASE v = w
        BY <2>1, <2>2, <2>4, <4>1
      <4>2. CASE v # w
        BY <2>1, <2>4, <4>2
      <4>. QED  BY <4>1, <4>2
    <3>. QED  BY <2>1, <2>4, <3>1, CalmEarned
  <2>5. ASSUME NEW ok \in BOOLEAN, Score(w, ok, x),
               x.guilty = worker[w].guilty, Remaining(x) < Remaining(worker[w])
        PROVE  Earned'
    <3>1. \/ Forget([worker EXCEPT ![w] = x])
          \/ Blame(w, x)
          \/ worker' = [worker EXCEPT ![w] = x] /\ UNCHANGED <<breaker, culprits>>
      BY <2>5 DEF Score
    <3>2. CASE Blame(w, x)
      BY <2>1, <2>5, <3>2, BlameEarned
    <3>3. CASE worker' = [worker EXCEPT ![w] = x] /\ UNCHANGED <<breaker, culprits>>
      <4>1. Remaining(x) <= Remaining(worker[w])
        BY <2>1, <2>2, <2>5
      <4>. QED  BY <2>4, <2>5, <3>3, <4>1
    <3>. QED  BY <2>3, <3>1, <3>2, <3>3
  <2>. QED  BY <1>1, <2>3, <2>4, <2>5 DEF Goes
<1>2. CASE Tick \/ World \/ UNCHANGED vars
  <2>1. /\ UNCHANGED <<each, worker, culprits>>
        /\ breaker'.count = breaker.count
    BY <1>2 DEF Tick, World, vars, TypeInv, TypeOK, Breakers
  <2>2. \A v \in Workers : Remaining(worker[v]) \in Int
    BY TaskFacts, CountsFacts
  <2>. QED  BY <2>1, <2>2, CalmEarned
<1>. QED  BY <1>1, <1>2, StepCases

(* Suppression is earned: whoever counts, resets and checks at the same time,  *)
(* an open breaker was opened by as many messages that failed after the last  *)
(* success or reset as the threshold takes.                                   *)
THEOREM SuppressionEarnedCorrect == Spec => []SuppressionEarned
<1>1. Init => Earned
  <2>. SUFFICES ASSUME Init PROVE Earned
    OBVIOUS
  <2>1. Owed = {}
    BY IdleFacts DEF Init, Owed
  <2>2. IsFiniteSet(Owed) /\ Cardinality(Owed) = 0
    BY <2>1, FS_EmptySet
  <2>3. breaker.count = 0 /\ culprits = 0 /\ CountsPerMessage \in Nat
    BY IdleFacts, CountsFacts DEF Init
  <2>4. breaker.count + Cardinality(Owed) <= culprits * CountsPerMessage
    BY <2>2, <2>3
  <2>. QED  BY <2>2, <2>4 DEF Earned
<1>2. TypeInv /\ Earned => SuppressionEarned
  <2>. SUFFICES ASSUME TypeInv, Earned, Open
                PROVE  culprits * CountsPerMessage >= Threshold
    BY DEF SuppressionEarned
  <2>1. PICK m, c : m = CountsPerMessage /\ c = Cardinality(Owed)
    OBVIOUS
  <2>2. /\ culprits \in 0..Threshold /\ breaker.count = Threshold /\ each \in BOOLEAN
        /\ m \in Nat /\ m >= 1
    BY <2>1, CountsFacts DEF TypeInv, TypeOK, Open, Tripped
  <2>3. c \in Nat
    BY <2>1, FS_CardinalityType DEF Earned
  <2>4. CASE culprits < Threshold
    BY <2>1, <2>2, <2>3, <2>4, ConstantFacts DEF Earned
  <2>5. CASE culprits = Threshold
    BY <2>1, <2>2, <2>5, ConstantFacts
  <2>. QED  BY <2>2, <2>4, <2>5, ConstantFacts
<1>. QED  BY <1>1, <1>2, NextEarned, TypeInvAlways, PTL DEF Spec

=============================================================================
