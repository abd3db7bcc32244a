------------------------------- MODULE Diagnosis -------------------------------
(***************************************************************************)
(* How a poll comes by a decision: claude_decide of orchestrator/loop.py    *)
(* with the two models of diagnostic_council.py, or, with the council       *)
(* switched off, the one of claude_engine.py and its memory of earlier      *)
(* turns (diagnosis_memory.py); and what is kept for their prompts in       *)
(* Redis, the baseline of healthy polls (baseline.py) and the commits that  *)
(* were pushed (commit_context.py).                                         *)
(*                                                                         *)
(* Several processes poll and receive pushes.  Each key is read, written    *)
(* and trimmed by commands of its own, between which others act.            *)
(***************************************************************************)
EXTENDS Integers, Sequences, FiniteSets, FiniteSetsExt, SequencesExt

CONSTANTS
  Workers,     \* processes that poll or receive pushes
  Latencies,   \* p95 of a healthy poll
  Categories,  \* of a failure
  Confidences, \* in tenths
  None,
  Retries,     \* attempts of get_decision
  MaxHistory,  \* MAX_HISTORY
  MaxCommits,  \* MAX_COMMITS
  Shown,       \* commits named in a prompt
  Window,      \* INCIDENT_WINDOW, in the units of a commit's timestamp
  Slack,       \* how long after an incident's start a commit still counts
  MaxOps       \* bound on the polls and pushes

ASSUME DiagnosisAssumption ==
  /\ IsFiniteSet(Workers)
  /\ Latencies \subseteq Nat /\ Latencies # {}
  /\ Confidences \subseteq 0..10
  /\ {Retries, MaxHistory, MaxCommits, Shown} \subseteq Nat \ {0}
  /\ {Window, Slack, MaxOps} \subseteq Nat
  /\ None \notin Categories

VARIABLES
  council,   \* COUNCIL_ENABLED, and a key for the models
  ops,       \* polls and pushes so far
  baseline,  \* orchestrator:baseline:, none yet if n is 0
  history,   \* orchestrator:diagnosis_history: of the incident, newest first
  turns,     \* turns recorded since the key is there
  commits,   \* orchestrator:commits:, by their timestamps
  known,     \* commits pushed since the key is there
  peak,      \* the most pushes that were under way at once since then, at least 1
  failed,    \* pushes that failed since then
  task       \* what each worker does

vars == <<council, ops, baseline, history, turns, commits, known, peak, failed,
          task>>

commitVars == <<commits, known, peak, failed>>

-------------------------------------------------------------------------------
Diagnoses == [category : Categories, confidence : Confidences]
Answers == Diagnoses \cup {None}    \* None for any failure of a model

Actions == {"suppress", "validate", "escalate", "recover"}    \* of the tool
Silence == [mode |-> "fallback", action |-> "suppress", confidence |-> 0]

Idle == [at |-> "idle", p95 |-> 0, base |-> [p95 |-> 0, n |-> 0], tries |-> 0,
         a |-> None, b |-> None, verdict |-> Silence, count |-> 0]

Blank == [p95 |-> 0, n |-> 0]

Init == /\ council \in BOOLEAN
        /\ ops = 0
        /\ baseline = Blank
        /\ history = <<>>
        /\ turns = 0
        /\ \E n \in 0..MaxCommits : known = 1..n
        /\ commits = known
        /\ peak = 1
        /\ failed = 0
        /\ task = [w \in Workers |-> Idle]

At(w, point) == task[w].at = point
Begin(w, state) == /\ At(w, "idle")
                   /\ ops < MaxOps
                   /\ ops' = ops + 1
                   /\ task' = [task EXCEPT ![w] = state]
Goto(w, point) == task' = [task EXCEPT ![w].at = point]
Done(w) == task' = [task EXCEPT ![w] = Idle]

-------------------------------------------------------------------------------
(* A healthy poll of 80 points or more updates the baseline: GET, then SETEX  *)
(* of what follows from it.  An error in reading looks like no baseline, one  *)
(* in writing is forgotten.                                                   *)
PollHealthy(w, p95) ==
  /\ Begin(w, [Idle EXCEPT !.at = "average", !.p95 = p95])
  /\ UNCHANGED <<council, baseline, history, turns, commitVars>>

ReadBaseline(w) ==
  /\ At(w, "average")
  /\ \E read \in {baseline, Blank} :
       task' = [task EXCEPT ![w].at = "store", ![w].base = read]
  /\ UNCHANGED <<council, ops, baseline, history, turns, commitVars>>

(* The average moves by ALPHA, three tenths.                                  *)
SumOfParts(base, p95) == [p95 |-> (10 * base.p95 + 3 * p95) \div 10, n |-> base.n + 1]
Averaged(base, p95) ==
  IF base.n = 0 THEN [p95 |-> p95, n |-> 1]
  ELSE [p95 |-> (7 * base.p95 + 3 * p95) \div 10, n |-> base.n + 1]

WriteBaseline(w) ==
  /\ At(w, "store")
  /\ Done(w)
  /\ \/ baseline' = Averaged(task[w].base, task[w].p95)
     \/ UNCHANGED baseline
  /\ UNCHANGED <<council, ops, history, turns, commitVars>>

-------------------------------------------------------------------------------
(* Any other poll that needs a decision asks the council or the one model.    *)
PollIncident(w) ==
  /\ Begin(w, [Idle EXCEPT !.at = IF council THEN "ask" ELSE "attempt"])
  /\ UNCHANGED <<council, baseline, history, turns, commitVars>>

(* _models_diverge: over categories, if one of the models is sure of its own. *)
Diverge(a, b) == /\ a.category # b.category
                 /\ a.confidence > 6 \/ b.confidence > 6

(* council_diagnose: a model that failed is taken to agree with the other.    *)
Agreed(confidence) ==
  [mode |-> "consensus", confidence |-> confidence,
   action |-> IF confidence < 6 THEN "suppress" ELSE "validate"]

Lower(a, b) == IF a.confidence < b.confidence THEN a.confidence ELSE b.confidence
Upper(a, b) == IF a.confidence < b.confidence THEN b.confidence ELSE a.confidence

LeastSure(a, b) == Agreed(Lower(a, b))    \* agreement is as sure as the less sure one
Consensus(a, b) == Agreed(Upper(a, b))

Both(a, b) ==
  IF Diverge(a, b)
  THEN [mode |-> "dissent", action |-> "validate", confidence |-> Lower(a, b)]
  ELSE Consensus(a, b)

Verdict(a, b) == CASE a = None /\ b = None -> Silence
                   [] a = None /\ b # None -> Both(b, b)
                   [] a # None /\ b = None -> Both(a, a)
                   [] OTHER                -> Both(a, b)

Gather(w, a, b) ==
  /\ At(w, "ask")
  /\ task' = [task EXCEPT ![w].at = "decided", ![w].a = a, ![w].b = b,
                          ![w].verdict = Verdict(a, b)]
  /\ UNCHANGED <<council, ops, baseline, history, turns, commitVars>>

(* get_decision: the one model is asked again if it fails, and silence is     *)
(* the answer if it fails every time.                                         *)
Attempt(w, action) ==
  LET tries == task[w].tries + 1
  IN
  /\ At(w, "attempt")
  /\ task' = [task EXCEPT ![w] =
       IF action # None
       THEN [@ EXCEPT !.at = "push", !.tries = tries,
                      !.verdict = [mode |-> "fallback", action |-> action, confidence |-> 10]]
       ELSE IF tries < Retries THEN [@ EXCEPT !.tries = tries]
       ELSE [Idle EXCEPT !.at = "decided"]]
  /\ UNCHANGED <<council, ops, baseline, history, turns, commitVars>>

(* record_turn: LPUSH, then LTRIM (and EXPIRE).  What fails is forgotten.     *)
PushTurn(w) ==
  /\ At(w, "push")
  /\ \/ /\ turns' = turns + 1
        /\ history' = <<turns + 1>> \o history
        /\ Goto(w, "trim")
     \/ Goto(w, "decided") /\ UNCHANGED <<turns, history>>
  /\ UNCHANGED <<council, ops, baseline, commitVars>>

KeepOldest(list, n) == SubSeq(list, Len(list) - Min({n, Len(list)}) + 1, Len(list))
Trimmed(list, n) == SubSeq(list, 1, Min({n, Len(list)}))

TrimTurns(w) ==
  /\ At(w, "trim")
  /\ history' \in {history, Trimmed(history, MaxHistory)}
  /\ Goto(w, "decided")
  /\ UNCHANGED <<council, ops, baseline, turns, commitVars>>

Decided(w) ==
  /\ At(w, "decided")
  /\ Done(w)
  /\ UNCHANGED <<council, ops, baseline, history, turns, commitVars>>

-------------------------------------------------------------------------------
(* store_commit: ZADD, ZCARD, and ZREMRANGEBYRANK of what is too many by      *)
(* then.  Commits come in any order.                                          *)
Pushing == {w \in Workers : task[w].at \in {"count", "cut"}}

StoreCommit(w, c) ==
  /\ c \notin known
  /\ Begin(w, [Idle EXCEPT !.at = "count"])
  /\ commits' = commits \cup {c}
  /\ known' = known \cup {c}
  /\ peak' = Max({peak, Cardinality(Pushing) + 1})
  /\ UNCHANGED <<council, baseline, history, turns, failed>>

CountCommits(w) ==
  LET n == Cardinality(commits)
  IN
  /\ At(w, "count")
  /\ task' = [task EXCEPT ![w] = IF n > MaxCommits THEN [@ EXCEPT !.at = "cut", !.count = n]
                                 ELSE Idle]
  /\ UNCHANGED <<council, ops, baseline, history, turns, commitVars>>

(* The oldest n of them.                                                      *)
Older(set, c) == Cardinality({d \in set : d < c})
Oldest(set, n) == {c \in set : Older(set, c) < n}

OneMore(count) == count - MaxCommits + 1    \* ranks 0 to n, not to n - 1
Excess(count)  == count - MaxCommits

CutCommits(w) ==
  /\ At(w, "cut")
  /\ commits' = commits \ Oldest(commits, Excess(task[w].count))
  /\ Done(w)
  /\ UNCHANGED <<council, ops, baseline, history, turns, known, peak, failed>>

(* A command of it fails, which nobody is told.                               *)
FailPush(w) ==
  /\ w \in Pushing
  /\ Done(w)
  /\ failed' = failed + 1
  /\ UNCHANGED <<council, ops, baseline, history, turns, commits, known, peak>>

(* Keys expire.                                                               *)
Expire ==
  \/ /\ baseline' = Blank
     /\ UNCHANGED <<council, ops, history, turns, commitVars, task>>
  \/ /\ history' = <<>> /\ turns' = 0
     /\ UNCHANGED <<council, ops, baseline, commitVars, task>>
  \/ /\ Pushing = {}    \* seven days after the last push
     /\ commits' = {} /\ known' = {} /\ peak' = 1 /\ failed' = 0
     /\ UNCHANGED <<council, ops, baseline, history, turns, task>>

Work(w) ==
  \/ ReadBaseline(w) \/ WriteBaseline(w)
  \/ \E a, b \in Answers : Gather(w, a, b)
  \/ \E action \in Actions \cup {None} : Attempt(w, action)
  \/ PushTurn(w) \/ TrimTurns(w) \/ Decided(w)
  \/ CountCommits(w) \/ CutCommits(w) \/ FailPush(w)

Next == \/ \E w \in Workers :
             \/ \E p95 \in Latencies : PollHealthy(w, p95)
             \/ PollIncident(w)
             \/ \E c \in 1..(MaxCommits + MaxOps) : StoreCommit(w, c)
             \/ Work(w)
        \/ Expire

Spec == Init /\ [][Next]_vars

-------------------------------------------------------------------------------
(* The keys and the tasks keep their types.  A baseline is within the         *)
(* latencies it was made of, and of no more samples than there were polls.    *)
Span == {v \in Nat : \E low, high \in Latencies : low <= v /\ v <= high}
Verdicts == [mode : {"fallback", "consensus", "dissent"},
             action : Actions, confidence : 0..10]
TypeOK ==
  /\ council \in BOOLEAN
  /\ ops \in 0..MaxOps
  /\ baseline.n \in 0..ops
  /\ baseline.n > 0 => baseline.p95 \in Span
  /\ history \in Seq(1..turns)
  /\ turns \in 0..ops
  /\ commits \subseteq known /\ known \subseteq 1..(MaxCommits + MaxOps)
  /\ peak \in 1..Cardinality(Workers) \cup {1} /\ failed \in Nat
  /\ \A w \in Workers : /\ task[w].tries \in 0..Retries
                        /\ {task[w].a, task[w].b} \subseteq Answers
                        /\ task[w].verdict \in Verdicts

(* The council speaks up exactly when one of its models is sure enough: it    *)
(* validates if either of them that answered has a confidence of 0.6, however *)
(* the other one fails, doubts or disagrees, and it keeps silent otherwise.   *)
Sure(d) == d # None /\ d.confidence >= 6
CouncilHeeds ==
  \A w \in Workers : council /\ At(w, "decided") =>
    (task[w].verdict.action = "validate" <=> Sure(task[w].a) \/ Sure(task[w].b))

(* get_recent_commits for an incident at a time: of its window, the latest.   *)
Recent(time) == LET seen == {c \in commits : time - Window <= c /\ c <= time + Slack}
                IN  seen \ Oldest(seen, Cardinality(seen) - Shown)

(* What pushes that overlap, or find what failed ones left, may cut too much. *)
CutTwice == (peak - 1) * (peak + failed)

(* What a prompt tells of the past is the latest there is.  The turns are the *)
(* last ones without a gap.  A commit is missing from the list only if        *)
(* MaxCommits newer ones are in it, less those that overlapping pushes cut    *)
(* for each other, so that the latest commit is shown as long as these are    *)
(* fewer than MaxCommits; and if no push has met another or failed, the list  *)
(* is the latest MaxCommits of all.                                           *)
LatestKept ==
  /\ \A n \in DOMAIN history : history[n] = turns - n + 1
  /\ \A c \in known \ commits :
       MaxCommits <= Cardinality({d \in commits : c < d}) + CutTwice
  /\ known # {} /\ CutTwice < MaxCommits => Max(known) \in Recent(Max(known))
  /\ peak = 1 /\ failed = 0 /\ Pushing = {} =>
       commits = known \ Oldest(known, Cardinality(known) - MaxCommits)
================================================================================
