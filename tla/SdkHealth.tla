------------------------------- MODULE SdkHealth -------------------------------
(***************************************************************************)
(* What a service says of its own health: evaluate() of                     *)
(* fastapi_alertengine/engine.py with the functions of intelligence.py, the *)
(* thresholds it learns and the alerts it sends to Slack.                   *)
(*                                                                         *)
(* The endpoints that evaluate run in threads: each fetches the latest      *)
(* measurements, which takes a while, and judges them against what the last *)
(* evaluation saw and against the thresholds of that moment.  Snapshots,    *)
(* calibration and delivery run in the event loop.                          *)
(***************************************************************************)
EXTENDS Naturals, Sequences, FiniteSets, FiniteSetsExt, SequencesExt

CONSTANTS
  Threads,       \* that serve the endpoints
  Windows,       \* what the latest measurements can come to
  Warn, Crit,    \* p95_warning_ms, p95_critical_ms
  WarnPct, CritPct,  \* error_rate_warning_pct, error_rate_critical_pct
  WarnX, CritX,  \* baseline multipliers, in tenths
  RocLatency, RocErrors,  \* least rises that are a spike, in percent
  MinLatency, MinErrors,  \* least values they are measured from
  Learning,      \* baseline_learning_mode
  MinSnapshots, MaxSnapshots,
  QueueSize,     \* maxsize of _alert_queue
  RateLimit      \* slack_rate_limit_seconds, in steps of the clock

(* Latencies in ms, error rates in percent, anomaly in tenths.                *)
ASSUME HealthAssumption ==
  /\ Windows \subseteq [p95 : Nat, errors : 0..100, anomaly : Nat]
  /\ {Warn, Crit, WarnPct, CritPct, WarnX, CritX, MinSnapshots, MaxSnapshots,
      QueueSize, RocLatency, RocErrors} \subseteq Nat \ {0}
  /\ {MinLatency, MinErrors, RateLimit} \subseteq Nat
  /\ Warn < Crit /\ WarnPct < CritPct /\ WarnX < CritX
  /\ MinSnapshots <= MaxSnapshots
  /\ Learning \in BOOLEAN

VARIABLES
  window,     \* the latest measurements, or none
  prev,       \* _prev_p95_ms and _prev_error_rate
  snapshots,  \* _baseline_snapshots: the p95 of each
  learned,    \* the median the thresholds were calibrated from, and of how many
  thread,     \* the evaluation of each thread
  alerts,     \* _alert_queue
  wait,       \* until the rate limit lets an alert pass
  told        \* the status Slack heard last, ok before it heard any

vars == <<window, prev, snapshots, learned, thread, alerts, wait, told>>

-------------------------------------------------------------------------------
NoData  == [p95 |-> 0, errors |-> 0, anomaly |-> 0]
NoPrev  == [p95 |-> 0, errors |-> 0]
Untaught == [median |-> 0, from |-> 0]
Idle    == [at |-> "idle", kind |-> "get", seen |-> NoData, status |-> "ok"]

(* Of fifty points, the part of whole.                                         *)
Points(part, whole) == (50 * part) \div whole

(* _score_latency and _score_errors fall from 100 to 50 between the two       *)
(* thresholds, and from there to 0 at far times the upper one.                *)
Falling(value, warn, crit, far) ==
  IF value <= warn            THEN 100
  ELSE IF value >= crit * far THEN 0
  ELSE IF value <= crit       THEN 100 - Points(value - warn, crit - warn)
  ELSE 50 - Points(value - crit, crit * (far - 1))

ScoreLatency(p95, warn, crit) == Falling(p95, warn, crit, 3)

ScoreErrors(errors) == Falling(errors, WarnPct, CritPct, 5)
ScoreAnomaly(a) ==
  CASE a < 5             -> 100
    [] a >= 40           -> 0
    [] 5 <= a /\ a < 20  -> 100 - Points(a - 5, 15)
    [] 20 <= a /\ a < 40 -> 50 - Points(a - 20, 20)

(* calibrate_thresholds: multiples of the median, in force if enough were     *)
(* seen (the confidence of so many is at least medium).                       *)
Active(l) == l.from >= MinSnapshots
Thresholds(l) ==
  IF Active(l) THEN [warn |-> (l.median * WarnX) \div 10, crit |-> (l.median * CritX) \div 10]
  ELSE [warn |-> Warn, crit |-> Crit]

(* compute_health_score: 0.5, 0.3 and 0.2 of the three scores.                *)
Weighted(w, t) ==
  (50 * ScoreLatency(w.p95, t.warn, t.crit)
     + 30 * ScoreErrors(w.errors) + 20 * ScoreAnomaly(w.anomaly)) \div 100

StaticComposite(w, l) == Weighted(w, Thresholds(Untaught))
Composite(w, l) == Weighted(w, Thresholds(l))

Health(w, l) == LET score == Composite(w, l)
                IN  CASE score >= 70                -> "healthy"
                      [] 40 <= score /\ score < 70 -> "degraded"
                      [] score < 40                 -> "critical"

(* suggest_actions: text for a person, nothing is executed.                   *)
Suggested(score) == {a \in {"restart", "alert", "notify"} :
                       score < CASE a = "restart" -> 25
                                 [] a = "alert"   -> 40
                                 [] a = "notify"  -> 60}

(* detect_rate_of_change                                                      *)
Spike(now, before, rise, least) ==
  /\ before >= least
  /\ before > 0
  /\ now >= before
  /\ (now - before) * 100 >= rise * before

Spikes(w, p) ==
  \/ Spike(w.p95, p.p95, RocLatency, MinLatency)
  \/ Spike(w.errors, p.errors, RocErrors, MinErrors)

(* The status is that of the worst of the alerts; a spike is a warning.       *)
Worst(critical, warning) ==
  IF critical THEN "critical" ELSE IF warning THEN "warning" ELSE "ok"

Level(w, p, l) ==
  LET t == Thresholds(l)
  IN  Worst(w.p95 > t.crit \/ w.anomaly > 20 \/ w.errors > CritPct,
            w.p95 > t.warn \/ w.anomaly > 10 \/ w.errors > WarnPct \/ Spikes(w, p))

-------------------------------------------------------------------------------
Init == /\ window \in Windows
        /\ prev = NoPrev
        /\ snapshots = <<>>
        /\ learned = Untaught
        /\ thread = [h \in Threads |-> Idle]
        /\ alerts = <<>>
        /\ wait = 0
        /\ told = "ok"

(* The service goes on.                                                       *)
Traffic(w) ==
  /\ window' = w
  /\ UNCHANGED <<prev, snapshots, learned, thread, alerts, wait, told>>

(* evaluate fetches: for POST /alerts/evaluate, which also tells Slack, or    *)
(* for GET /health/alerts, get_action_suggestions and the others, which only  *)
(* answer.                                                                    *)
Fetch(h, kind) ==
  /\ thread[h].at = "idle"
  /\ thread' = [thread EXCEPT ![h] = [at |-> "judge", kind |-> kind, seen |-> window,
                                      status |-> "ok"]]
  /\ UNCHANGED <<window, prev, snapshots, learned, alerts, wait, told>>

(* What it saw is not remembered while there is an alert.                     *)
JudgeAgainstCalm(h) ==
  LET e == thread[h]
      status == Level(e.seen, prev, learned)
  IN
  /\ e.at = "judge"
  /\ thread' = [thread EXCEPT ![h] =
                  IF e.kind = "post" THEN [Idle EXCEPT !.at = "announce", !.status = status] ELSE Idle]
  /\ prev' = IF e.seen = NoData \/ status # "ok" THEN prev
             ELSE [p95 |-> e.seen.p95, errors |-> e.seen.errors]
  /\ UNCHANGED <<window, snapshots, learned, alerts, wait, told>>

(* ... judges, and remembers what it saw for the next one, if it saw anything *)
(* at all; the timeline is written after that, and POST goes on to announce.  *)
Judge(h) ==
  LET e == thread[h]
  IN
  /\ e.at = "judge"
  /\ thread' = [thread EXCEPT ![h] =
                  IF e.kind = "post"
                  THEN [Idle EXCEPT !.at = "announce", !.status = Level(e.seen, prev, learned)]
                  ELSE Idle]
  /\ prev' = IF e.seen = NoData THEN prev ELSE [p95 |-> e.seen.p95, errors |-> e.seen.errors]
  /\ UNCHANGED <<window, snapshots, learned, alerts, wait, told>>

(* enqueue_alert drops what does not fit.                                     *)
Announce(h) ==
  /\ thread[h].at = "announce"
  /\ thread' = [thread EXCEPT ![h] = Idle]
  /\ alerts' = IF Len(alerts) < QueueSize THEN Append(alerts, thread[h].status) ELSE alerts
  /\ UNCHANGED <<window, prev, snapshots, learned, wait, told>>

(* baseline_max_snapshots left out.                                           *)
SnapshotForever ==
  /\ window # NoData
  /\ snapshots' = Append(snapshots, window.p95)
  /\ UNCHANGED <<window, prev, learned, thread, alerts, wait, told>>

(* _collect_baseline_snapshot, whatever the status of the snapshot; the       *)
(* oldest one goes.                                                           *)
Snapshot ==
  /\ window # NoData
  /\ snapshots' = LET all == Append(snapshots, window.p95)
                  IN  IF Len(all) > MaxSnapshots THEN Tail(all) ELSE all
  /\ UNCHANGED <<window, prev, learned, thread, alerts, wait, told>>

(* The median, of an even number the mean of the two in the middle; snapshots *)
(* without latency do not count.  Nth is the kth of them in order.   *)
Measured(s) == {n \in DOMAIN s : s[n] > 0}
Within(s, p95) == {n \in Measured(s) : s[n] <= p95}
Nth(s, k) == Min({s[n] : n \in {m \in Measured(s) : Cardinality(Within(s, s[m])) >= k}})
Median(s) ==
  LET count == Cardinality(Measured(s))
      half == count \div 2
  IN  IF count % 2 = 1 THEN Nth(s, half + 1) ELSE (Nth(s, half) + Nth(s, half + 1)) \div 2

MeanOf(s) ==    \* not the median
  MapThenSumSet(LAMBDA n : s[n], Measured(s)) \div Cardinality(Measured(s))

RecalibrateToMean ==
  /\ Learning
  /\ Measured(snapshots) # {}
  /\ learned' = [median |-> MeanOf(snapshots), from |-> Cardinality(Measured(snapshots))]
  /\ UNCHANGED <<window, prev, snapshots, thread, alerts, wait, told>>

Recalibrate ==
  /\ Learning
  /\ Measured(snapshots) # {}
  /\ learned' = [median |-> Median(snapshots), from |-> Cardinality(Measured(snapshots))]
  /\ UNCHANGED <<window, prev, snapshots, thread, alerts, wait, told>>

(* alert_delivery_loop: an alert within the rate limit is dropped, and one    *)
(* that Slack does not take is lost.                                          *)
Drop ==
  /\ alerts # <<>> /\ wait > 0
  /\ alerts' = Tail(alerts)
  /\ UNCHANGED <<window, prev, snapshots, learned, thread, wait, told>>

Post(taken) ==
  /\ alerts # <<>> /\ wait = 0
  /\ alerts' = Tail(alerts)
  /\ IF taken THEN told' = Head(alerts) /\ wait' = RateLimit ELSE UNCHANGED <<told, wait>>
  /\ UNCHANGED <<window, prev, snapshots, learned, thread>>

Tick ==
  /\ wait > 0
  /\ wait' = wait - 1
  /\ UNCHANGED <<window, prev, snapshots, learned, thread, alerts, told>>

Next == \/ \E w \in Windows \cup {NoData} : Traffic(w)
        \/ \E h \in Threads : \/ \E kind \in {"get", "post"} : Fetch(h, kind)
                              \/ Judge(h) \/ Announce(h)
        \/ Snapshot \/ Recalibrate
        \/ Drop \/ \E taken \in BOOLEAN : Post(taken)
        \/ Tick

Spec == Init /\ [][Next]_vars

(* Threads and the event loop run, and so does the clock.                     *)
FairSpec == /\ Spec
            /\ WF_vars(Drop \/ \E taken \in BOOLEAN : Post(taken))
            /\ WF_vars(Tick)
            /\ \A h \in Threads : WF_vars(Judge(h)) /\ WF_vars(Announce(h))

-------------------------------------------------------------------------------
(* What the threads, the event loop and Slack keep stays within its limits and *)
(* types.                                                                     *)
TypeOK ==
  /\ window \in Windows \cup {NoData}
  /\ prev \in [p95 : Nat, errors : 0..100]
  /\ snapshots \in Seq(Nat) /\ Len(snapshots) <= MaxSnapshots
  /\ learned \in [median : Nat, from : 0..MaxSnapshots]
  /\ thread \in [Threads -> [at : {"idle", "judge", "announce"}, kind : {"get", "post"},
                             seen : Windows \cup {NoData},
                             status : {"ok", "warning", "critical"}]]
  /\ alerts \in Seq({"ok", "warning", "critical"}) /\ Len(alerts) <= QueueSize
  /\ wait \in 0..RateLimit
  /\ told \in {"ok", "warning", "critical"}

(* The two judgements of one evaluation agree when all is well: if no         *)
(* threshold is passed, Slack is told "ok", the score the orchestrator polls  *)
(* is "healthy" and no action is suggested, learned thresholds or not.        *)
QuietIsHealthy ==
  \A w \in Windows : Level(w, NoPrev, learned) = "ok" =>
    Health(w, learned) = "healthy" /\ Suggested(Composite(w, learned)) = {}

(* A short incident does not teach the thresholds to expect the next one:     *)
(* whatever latency most of the snapshots that count stayed within, the value  *)
(* calibrated from them does not exceed.                                      *)
Exceed(s, p95) == Measured(s) \ Within(s, p95)
LearnsTheUsual ==
  [][learned' # learned =>
       \A w \in Windows :
         2 * Cardinality(Exceed(snapshots, w.p95)) < Cardinality(Measured(snapshots))
           => learned'.median <= w.p95]_vars

(* Slack comes to know how the service is: once the service and its           *)
(* thresholds stay as they are and Slack takes what it is sent, and status is *)
(* asked to be told again and again, the queue, the rate limit and the spikes *)
(* do not keep Slack at an old status for ever.                               *)
SlackConverges ==
  \A w \in Windows :
    /\ <>[](window = w)
    /\ <>[][~Recalibrate /\ ~Post(FALSE)]_vars
    /\ []<>(\E h \in Threads : thread[h].at = "announce")
    => <>[](told = Level(w, NoPrev, learned))
================================================================================
