# fastapi-alertengine in TLA+

TLA+ modules, TLC configurations and TLAPS proofs about the code of this
repository: the incident orchestrator (`orchestrator/`), which polls the health
of its tenants' services, opens and advances incidents and notifies engineers,
and the in-process metrics engine (`fastapi_alertengine/`) of those services.

Run a model with `tlc -config <run>.cfg MC<Module>`, check the proofs with
`tlapm <Module>Proofs.tla`.

## The system

One or more orchestrator processes run `loop.py`. Every interval each process
reads every active tenant from Redis and runs `_process_tenant` for all of them
concurrently in one asyncio event loop. A pass over a tenant fetches the health
of its service, looks up the tenant's active incident, and opens a new one,
advances the open one along the pipeline, or records a recovery. In between it
asks a language model, which only a timeout bounds. All state lives in Redis and
every process reads and writes it with plain GET/SET; two kinds of lease
(`lock.py`) serialise what they can. Notifications run as background tasks of
the same event loop. The engineer approves a recovery on an HTTP endpoint
(`main.py`), in the same process but outside the loop.

| Part | State | Operations | Interacts with |
|---|---|---|---|
| Pipeline (`pipeline.py`, `policy.py`, `incident_policy.py`) | none | `can_transition`, `transition`, `decide`, `decide_new_incident`, alert and escalation policies | called by the loop |
| Polling executor (`loop.py`) | locals of a pass | `_process_tenant`, `_execute_actions`, `_run_once` | every part below |
| Incident store (`memory.py`) | incident records, the tenant's active key | `save_incident`, `resolve_incident` | Redis, shared by all processes |
| Leases (`lock.py`) | a lease key per incident and per tenant being opened | acquire (SET NX EX), release and renew (Lua compare), auto-renew task | the loop's two `async with` blocks |
| Idempotency (`idempotency.py`) | a marker per (incident, stage, action) | `claim_action`, `update_status`, `execute_once` | incident opening, notification tasks |
| Notification tasks (`loop._notify_tenant`, `notifications.fire`, `dlq.py`) | running tasks, dead-letter queue | start, send, report a failure | idempotency, degraded mode |
| Degraded mode (`degraded.py`) | counters and mode, per process | `record_*`, `can_*` | consulted by the loop |
| Delivery (`notifications.dispatch`, providers, `delivery_ledger.py`) | delivery attempts | send with fallback | circuit breaker |
| Circuit breaker (`circuit_breaker.py`) | failure count and open marker, in Redis | `is_open`, `record_failure`, `record_success` | delivery |
| Plans (`plans.py`) | the tenant's incident count | quota, increment | the loop, tenant record |
| Tenants (`tenants.py`, `onboard.py`, `signup.py`) | tenant records, contacts, phone codes, active set | register, verify, activate, save | the loop, shadow mode |
| Shadow mode (`shadow_mode_api.py`) | a flag of the tenant record | enable, disable | suppresses what the loop would send |
| Recovery tokens and endpoint (`action_generator.py`, `main.py`) | used-token markers | generate, verify, consume, confirm | the loop's record, the webhook |
| Audit log (`audit.py`) | an append-only list per incident | `append_event`, replay | the loop, the endpoint |
| Diagnosis (`claude_engine.py`, `diagnostic_council.py`, `diagnosis_memory.py`, `baseline.py`) | conversation history, moving averages | decide, merge two answers, update | the loop |
| SDK engine (`fastapi_alertengine/engine.py`, `storage.py`) | ingest queue, aggregates, breaker and its buffer | enqueue, drain, flush, evaluate | Redis streams |
| SDK health score (`intelligence.py`) | none | score, status, adaptive thresholds | what the loop fetches |
| Dashboard, examples, reports | none of their own | read | |

### What is hard in it, and what makes it correct

* Several processes poll the same tenant. Everything they read before a lock or
  a Claude call may be old when they write. Correct: at most one works on an
  incident, one incident at a time is active, a stored incident only moves
  along the transition table.
* A pass is a dozen Redis writes. A process may die between any two.
  Correct: leases come back, an opened incident is audited and counted, nothing
  is left that nobody finds.
* The audit log, the notifications and the record are written separately.
  Correct: the log tells of what happened, all of it and nothing else; the link
  an engineer gets works.
* Notifications are fired again by later passes and after restarts. Correct: at
  most once each, an engineer is called no more than twice per incident (by the
  ESCALATE action and by the voice timer, which do not know of each other), a
  failure is queued, shadow mode is silent.
* A recovery link is clicked twice, late, or while Redis fails. Correct: it
  authorises one recovery, and the log says what the webhook did.
* Messages of several processes share one circuit breaker. Correct: it opens for
  failures that happened since the last success, closes again, and the ledger
  tells when no channel took a message of dispatch.
* A tenant is registered and verified command by command, in overlapping
  requests. Correct: polled only when proven, polled when proven.
* The service measures itself: limited queues, aggregates by minute, thresholds
  that move, alerts through a rate limit. Correct: no metric counted twice or
  late, a good day is called good, Slack learns the state in the end.
* Two language models disagree, or fail. Correct: a sure one is heard.
* Limits: the quota of a plan, lifetimes of keys, the threshold of degraded
  mode, the number of commits and turns kept.

`PROJECT.json` lists the hazards at their lines, each with the properties that cover
it or the reason why none does.

## Modules

### Pipeline

The pure part: `Stages`, `AllowedTransitions`, `CanTransition`, `Transition`,
`Decide`, `DecideNewIncident`. A health reading is a record of what the code
tells apart: the status, whether `should_recover` holds, whether `should_alert`
holds. A stage gate is a Boolean `gateMet`, free for a stage in `Gated` and
TRUE otherwise (all gates default to 0). The history of a record is the set of
stages it went through. The actions of a decision are a sequence, in the order
the code executes them: the recovery token is made before the message with it.

### IncidentLoop

`_process_tenant` for one tenant (tenants share nothing but the event loop) and
a set `Workers` of processes. A step is what a process does between two awaits,
cut again after each Redis write that another process could read or a crash
could separate from the next:

| Code | Steps |
|---|---|
| start of a pass: tenant record read, health fetched, incident read | `Poll`, `FetchFails`, `Fetched` |
| creation path, under the creation lease | `LockCreation`, `RecheckAndClaim`, `ClaudeOnCreation`, `SaveNewIncident`, `SetActive`, `SaveTenant`, `AuditNewIncident`, `UnlockCreation` |
| an open incident, under its lease | `LockIncident`, then `Recover`, `LeaveIncident` or `Advance`, `AuditTransition`, `Voice`, `Secondary`, `UnlockIncident` |
| Redis dropping a key | `CreationLockExpires`, `IncidentLockExpires`, `ActiveExpires` |
| a lease renewal that fails | `RenewFails` |
| shadow-mode API | `EnableShadow`, `DisableShadow` |
| a process dying | `Crash` |

Variables are the Redis keys (`active`, `incidents`, `tenant`, `opened`,
`audited`, `creating`, `locks`), the passes (`pc`, `job`) and what was handed to
`fire()`: with an idempotency key (`fired`), or around it (`rung`, the voice calls
of the ESCALATE action). What the code reads early and uses late is kept in `job`:
the tenant record, the incident record, the health reading, `lease.valid`.

A lease is dropped by Redis when its owner is gone; with `Faults` also under a
live owner, which is what a stall longer than the lease or a failed renewal
amounts to. Claude's answer is a choice of the step after it.

Simplifications, all outside the properties: `can_mutate_state` and
`can_send_notifications` hold (EMERGENCY is unreachable, nothing calls
`record_redis_failure`), `can_escalate` is a choice (it belongs to Notifier),
Redis commands do not fail, a record does not expire before the key naming it.
The test incident of `onboard.py`, which writes a record of its own, is left out.

### Notifier and Once

The tasks `fire()` starts: `execute_once` with `claim_action` as the three Redis
commands it is (SET NX, DEL, HSET), `update_status`, the failure path of
`_notify_tenant` (degraded mode, dead-letter queue). `claim_action` does not
await, so its own process does nothing between the three commands (`Busy`);
other processes do. ESCALATE is fired without `execute_once` (`Unguarded`). A
send returns, having delivered or not, or raises.

`Once` is the abstract promise: each action is executed once at most, whenever.
`Notifier!ImplementsOnce` maps how often an action was begun to it.

### RecoveryConfirm

Recovery links. A token is what it authorises and when it was minted; a request
to `/action/recover/confirm` walks through `Check`, `Spend`, `AuditAuthorized`,
`FindWebhook`, `Call` (up to `Attempts` times), `AuditOutcome`, `Bury`, one step
per external effect, and may die (`Die`) at any of them. `spent` is the
used-token key with its expiry, and `Tick` lets time pass between the check of a
token and its SET NX, up to `MaxStall`. With `Faults` each Redis write may fail
the way the code catches it: a failed spend refuses, a failed audit entry or
dead letter is lost (`lost`). `GET /action/recover` changes nothing: it is part
of `Post`. A webhook call that is not acknowledged may still have run.

### Delivery

The messages of one tenant and the breaker they share. `kind` is the way a
message is sent: `dispatch` (primary channel, Slack, fallback, ledger), the
loop's `telegram` route past all of that, the `voice` and `secondary`
escalations, and `direct`, `_send_with_fallback` behind the public functions of
`notifications.py` that nothing in the repository calls any more. Every Redis
command pair of `circuit_breaker.py` is two steps (`pending`): HGETALL and the
reset script, HINCRBY and HSET. `each` says whether the provider records every
recipient or the whole. `up` switches between a world in which provider, Redis
and processes work and one in which anything may fail. `culprits` counts the
messages behind `failure_count`, for `SuppressionEarned`.

`reached` tells two things apart. A message is "told" to be taken when a provider,
Slack or the fallback answered dispatch so: such answers are what the ledger
records. It was taken "beside" that by the telegram route, the two escalations,
`direct` and its fallback, which record nothing, or by the first recipients of a
send of `sent.py` that a later recipient makes fail (`SendWhole`). `asked` says
whether dispatch was called for the incident at all: without it there is no entry.
A delivery that reached some recipients and whose provider reports a success
although others were refused is one entry, a success.

### Tenants

`POST /onboard`, `POST /verify` and the wizard's `/activate` as the Redis commands
they issue, in threads that overlap. `Channels` keeps the courses a
registration takes: with codes, without, the wizard's, and that of a channel no
provider has, whose tenant stays pending. A command may fail or
a thread die for up to `MaxHurt` tenants (`hurt`); `raced` are tenants whose
contacts were read while another request was between its read and its write.
The shadow-mode API writes the tenant record too: `ReadRecord` is its GET and
`WriteRecord` its SET of the whole record, with the status of the GET. It runs on
an event loop (`Loops`, one request at a time each, as it does not await in
between) and needs the secret, which `/onboard` returns and the wizard does not
(`secrets`); `undone` are the tenants whose activation such a copy was written
over. The polling loop saves the record as well, but only of a tenant it polls,
which is active in its copy, so it undoes no activation and is left out here.
`Polled` is `list_active_tenants`, the loop's view.

### SdkEngine

Instances of one service: `Serve` (middleware and `enqueue_metric`), `Drain` (a
pass of `drain()`, which does not await inside), `Stop` (the final flush of a
shutdown, which publishes the running minute and neither drains the queue nor
cancels `drain()`: the instance is `stopping` and may make further passes), `Kill`
(the end of a process, after its final flush or without one), `Start` (which
settles between Redis and memory mode for good). What `drain()` does after the
final flush counts as a run of its own: it may publish the same minute again,
over the count of the flush, as the next run of the instance may. Time is counted in flush intervals. What a loop
over a batch adds up, `Aggregated` says in one expression: a field is new to the
memory (`NewFields`) and finds room (`Admitted`) depending on how many new fields
come `Sooner`. Publishing is a pipeline without a transaction: `Publish` may write
a part of it. The breaker of the writes is translated whole (`SafeWrites`)
although `write_batch` never raises: TLC shows that it stays closed, see below.
`seen`, `writers` and `failed` are history, for `MinutesExact`; `failed` holds the
minutes of which something was left out, killed or not written.

### SdkHealth

`evaluate()` in threads (`Fetch`, `Judge`, `Announce`), snapshots, calibration, the
alert queue and its rate limit. The score is computed over integers (points, ms,
percent, tenths of anomaly): `Falling`, `ScoreLatency`, `ScoreErrors`,
`ScoreAnomaly`, `Composite`, `Health`; `Level` is the status with its spikes. The
confidence in a calibration is reduced to whether it is in force. A post to Slack
is one step; the thread that does it holds up the delivery loop only.

### Diagnosis

A poll that needs a decision: `Gather` and `Verdict` for the council, `Attempt` for
the single model with its retries and `PushTurn`, `TrimTurns` of its memory; the
baseline (`ReadBaseline`, `WriteBaseline`) and commits (`StoreCommit`,
`CountCommits`, `CutCommits`). A model's answer is a choice of category and
confidence or a failure. EXPIRE belongs to the command before it; `Expire` may
drop a key at any time. `peak` is the most pushes of commits that were under way
at once since the key exists, `failed` how many of them failed before their trim:
together they bound what pushes cut for each other (`CutTwice`).

## Runs

| Run | Instance | Shows |
|---|---|---|
| `loop_open` | 2 processes, clock 0..1, active key lives 1 s, 1 crash, 1 shadow call, incidents followed to the end of their opening (`Opening`), symmetry of processes | `TypeOK`, `LoopInv` (inductive, see below), `OneOwner`: the leases exclude; `ActiveNeverReplaced`: no open incident displaces another |
| `loop_one` | 1 process, clock 0..1, active key lives 1 s, voice at 0 s, secondary at 1 s, quota 1, lost leases, 1 crash | `AuditSound`, `AuditComplete`, `LinkIsStored`, `QuotaHolds`, `ShadowIsSilent`, `EscalationsBounded` (the engineer is called once by the ESCALATE action and once by the timer, the secondary once) |
| `loop_live` | 1 process, 1 crash, fairness | `LeasesReturn`, `OpeningAudited` |
| `notify_one` | 1 process, two guarded actions and an unguarded one, 4 tasks, threshold 2, 1 crash | `TypeOK`, `ClaimInv` (inductive), `ImplementsOnce` |
| `notify_many` | 3 processes, one action, 4 tasks, 1 crash | `SkippedForAnother`, `FailureIsQueued`, `MarkerStays` |
| `confirm` | 1 link, 2 confirmations, token 2 s, marker 3 s, stall 1 s, clock 0..4, 2 attempts, 1 crash, failing writes, fairness | `TypeOK`, `SpendInv` (inductive): a link authorises once; `RecordedAsItWas`: the log and the dead letters tell what happened; `AuthorizedIsAccounted` |
| `delivery` | 2 messages at once, 2 recipients, threshold 3, cooldown 1, all channels, fairness | `TypeOK`, `SuppressionEarned`; `BlackoutSeen`: the ledger's `all_failed` holds exactly if no channel told dispatch that it took a message; `HealthyIsUsed` |
| `sdk` | 2 instances, 1 endpoint, 3 metrics, queue 2, room for 1 count, minutes of 2 intervals, clock 0..2, 2 runs each (that of `drain()` after a final flush included), fairness | `TypeOK`, `MinutesExact`, `MinutesPublished` |
| `tenants` | 2 threads, 1 event loop, 2 tenants, 2 numbers, 2 codes typed, 1 tenant hurt, symmetry | `TypeOK`, `PolledIsProven`, `VerifiedIsPolled` |
| `health` | 1 thread, three windows and none, 3 snapshots, queue 1, rate limit 1, learning, fairness | `TypeOK`, `QuietIsHealthy`, `LearnsTheUsual`, `SlackConverges` |
| `diagnosis` | 2 processes, 4 polls or pushes, 2 categories, confidences 0.4, 0.6, 0.7, 3 commits kept and 2 shown, 2 turns, pushes that fail, symmetry | `TypeOK`, `CouncilHeeds`, `LatestKept` |
| `recovered_active` | 1 process, expects a violation | `RecoveredIsCleared` fails: `resolve_incident` is called without `tenant_id` and raises; a recovered incident stays active, the pass ends before its audit event and its notification |

### Bounds and why they are enough

* Ids are seconds, so `MaxTime = 1` gives two incidents; with an active key that
  lives one second the second can be opened while the record of the first is
  still there, which is what quota, orphan and replacement need.
* Two processes are enough for exclusion (a property of pairs), and the proofs
  do it for any number. Three are used where a third can come between two
  (`notify_many`).
* One crash: the properties either say nothing about crashes or hold for states
  in which none happened; a second crash repeats the first.
* `MaxTasks = 4` lets one action be fired again after its execution and after a
  crash, next to another action.
* `Opening` stops a behaviour once an incident leaves DETECTED; what follows
  takes no creation lock. `loop_one` covers the rest with one process.
* `confirm`: two confirmations are a race for one link, and a clock to 4 passes
  the end of the token (2) and of the marker of an early spend (3), in the order
  that matters: `UsedTTL = TokenTTL + MaxStall` is the least the assumption
  allows. Tokens do not share anything, so one is enough.
* `delivery`: a message with two recipients counts three failures at most, so a
  threshold of 3 is met by one message or by two; the second worker comes
  between any two commands of the first. Failure counts beyond the threshold
  are not told apart.
* `sdk`: a queue of 2 and 3 metrics overflow; with room for one count the next
  minute is left out while the last one is not published; a minute of two
  intervals has a flush inside and one at its end; the second run of an instance
  publishes into a minute of the first, or is what `drain()` does after the final
  flush of the first; an instance that was killed and started again is not
  stopped as well (a third run takes more than five minutes to check). Several endpoints share nothing but that
  room, and the proofs are for any number.
* `tenants`: two numbers let one of a tenant's be verified and not the other;
  two tenants with the same number move the index; two codes are what a
  tenant needs; one shadow request at a time, of any tenant and as often as it
  likes, is enough to write over an activation.
* `health`: the windows are one that fails, one that is slow and one that is
  slower than the first learned threshold; three snapshots are the least with a
  majority.
* `diagnosis`: confidences below, at and above 0.6; with three commits two pushes
  that overlap cut two too many for each other at most (`CutTwice` = 2), which
  leaves the latest, and with one that failed before three, which need not: both
  cases occur. The bound is tight here: with one less TLC finds it exceeded.

Which properties hold only for one process is part of the result:
`AuditSound` and `QuotaHolds` need it, and so does at-most-once execution. That a
stored incident moves along the transition table (`StageFollowsPipeline`) is only
in doubt with several processes, and does not hold there: see the disagreements.

### Fairness

* `IncidentLoop`: weak fairness of a begun pass of each process: every wait in it
  has a timeout (5 s for the health fetch, 15 s for the Claude call) and the event
  loop goes on by itself. Weak fairness of lease expiry, which Redis does. None
  for `Poll`: nothing is claimed about when a process polls.
* `RecoveryConfirm`: weak fairness of the handler of a request; its awaits are the
  webhook's, with a timeout of 10 s, and sleeps.
* `Delivery`: weak fairness of every task that sends; each provider call has a
  timeout. Strong fairness of the cooldown's clock, which passes whether or not
  somebody is between two Redis commands, where the model does not let it.
* `SdkEngine`: weak fairness of the clock and of `drain()` of a running instance.
* `SdkHealth`: weak fairness of the threads, of the delivery loop and of the
  clock. That measurements, snapshots or requests go on is not assumed;
  `SlackConverges` names what it needs.

## Proofs

Every safety property a run checks is also a theorem. The constants are arbitrary:
any sets, limits and bounds that satisfy the named assumptions. Where a theorem
is for one process (`Workers = {p}`) the property fails with two, see the
disagreements below, or was not asked of more than one.

| Module | Theorems | Under |
|---|---|---|
| `IncidentLoopProofs` | `TypeCorrect`, `LoopInvCorrect`, `ShadowIsSilentCorrect` | |
| | `OneOwnerCorrect`, `ActiveKeyCorrect` | `~Faults` |
| | `AuditCompleteCorrect`, `QuotaHoldsCorrect` | one process |
| | `EscalationsBoundedCorrect` | one process, no gate on AUTHORIZED |
| | `AuditSoundCorrect`, `LinkIsStoredCorrect` | one process, no gate set (`Gated = {}`, the default) |
| `NotifierProofs` | `NotifierTypeCorrect`, `MarkerStaysCorrect`, `SkippedForAnotherCorrect`, `FailureIsQueuedCorrect` | |
| | `ClaimInvCorrect`, `AtMostOnceCorrect`, `ImplementsOnceCorrect` | one process |
| `RecoveryConfirmProofs` | `ConfirmTypeCorrect`, `SpendInvCorrect`, `SingleUseCorrect`, `RecordedAsItWasCorrect` | `MarkerOutlivesToken` |
| `TenantsProofs` | `TenantsTypeCorrect`, `PolledIsProvenCorrect`, `VerifiedIsPolledCorrect` | |
| `DeliveryProofs` | `DeliveryTypeCorrect`, `SuppressionEarnedCorrect`, `BlackoutSeenCorrect` | |
| `DiagnosisProofs` | `DiagnosisTypeCorrect`, `CouncilHeedsCorrect`, `LatestKeptCorrect` | |
| `SdkEngineProofs` | `EngineTypeCorrect`, `MinutesExactCorrect` | |
| `SdkHealthProofs` | `HealthTypeCorrect`, `QuietIsHealthyCorrect`, `LearnsTheUsualCorrect` | |

The other assumptions are the types of the constants (`LoopAssumption`,
`NotifierAssumption`, `ConfirmAssumption`, `TenantsAssumption`,
`DeliveryAssumption`, `DiagnosisAssumption`, `EngineAssumption`,
`HealthAssumption`) and that `None` is no value (`NoneAssumption`, twice).

### The inductive invariants

Loop:

* `TypeCorrect`: `TypeOK` alone is not inductive: that the record saved by a
  transition is a record needs the pass to have read one, so it is proved with
  `LocalsSet` (what a pass has set by the point it is at).
* `LoopInvCorrect`, `OneOwnerCorrect`, `ActiveKeyCorrect`: while leases do not run
  out under a live process. Exclusion is not inductive: the strengthening is
  `LeasesHeld`, whoever is in a lock's block holds its key; for the active key it
  is `ActiveFree`, from the recheck to `SetActive` no incident is active.
* `ShadowIsSilentCorrect`, for any number of processes: `Silent`, until the API is
  called every pass reads the flag the tenant began with, and no record anywhere
  holds a token.
* For one process, `RecordsSound` says that the pass holds its record as it is
  stored: what it read early is not stale. On it rest, with `LogSound`, `LogComplete` (what is in the history and not in the log is what
  the pass is about to log), `Noted` (whoever the timers called, the record says so), `RungOnce` (the
  ESCALATE action called at the step to AUTHORIZED, which is made once) and
  `Counted` (records, count and copy agree) the others.

Notifications:

* `ClaimInv` ties each task's state to the marker of its action and allows one
  task inside `claim_action`; with one process `Busy` makes that inductive. The
  refinement of `Once` needs that the count it keeps is 0 or 1 (`ExecutionCount`)
  and that each step begins no guarded action or one not begun (`StepBegins`).
* For any number of processes: `PlaceholderIsOwn` (what a task deletes it placed
  itself) gives `MarkerStays`; `ClaimedBySome` (every marker and every skipped
  task has a task behind it, while nothing crashed) gives `SkippedForAnother`.

Recovery links:

* `ConfirmTypeCorrect`: the attempts of a request stay within their limit only
  because a request that calls has one left (`TriesLeft`), and the markers are
  in time only because links are minted in the past (`LinksArePast`).
* `SpendInvCorrect`, `SingleUseCorrect`: that two requests do not both win a token
  is not inductive. `SpendInv` adds what makes it so: a request that has checked
  the token did so while it was valid and no longer than `MaxStall` ago, and a
  winner has left a marker that lives `UsedTTL` from the minting at least. Then a
  second SET NX finds the marker, because `TokenTTL + MaxStall <= UsedTTL`
  (`MarkerOutlivesToken`): the lemma about `Spend` is the whole argument, every
  other step leaves tokens and markers alone or lets time pass within
  `MaxStall`. The code's constants satisfy the assumption for stalls of up to
  the difference of `USED_TTL` and `RECOVERY_TOKEN_TTL_S`; with a token lifetime
  set above the marker's in the environment it fails, and so does single use.
* `RecordedAsItWasCorrect`: `Records`, what each step of a request implies about
  its entries, its attempts and the dead letters.

Tenants:

* `PolledIsProven`: `Provenance`, every list of contacts, stored or in the hands of a
  request, shows as verified only numbers that were proven, and a shadow request
  that holds an active record holds one whose numbers were.
* `VerifiedIsPolled`: `Fresh` and `Live`. Until a registration has enlisted its
  tenant nobody else serves it; from then on one request at most holds a list to
  save, made from the list that is stored, and a tenant all of whose numbers are
  verified is active, about to be, or was written over (`undone`).

Delivery:

* `SuppressionEarned` counts. Each message may count `CountsPerMessage` failures;
  `Owed` is the set of those the culprits have not counted yet, and below the
  threshold the breaker's count and `Owed` together are no more than the culprits
  account for (`Earned`).
* `BlackoutSeen`: `Heard`, a delivery that dispatch was told of has its entry or a
  task that carries the news to the ledger, and a call of dispatch has an entry or a
  task that will make one.

Diagnosis:

* `CouncilHeeds`: `CouncilInv`. The type of the baseline and of the turns needs
  `SampleInv` and `TurnInv`: no more samples than polls begun, less those that have
  not written theirs.
* `LatestKept`: `CountsInv` counts the commits too many against the processes still
  to cut and, as pairs, the commits they will cut: what will be cut exceeds what is
  too many by `CutTwice` = (peak - 1) * (peak + failed) at most, for any number of
  processes. A commit that is missing has so many newer ones; with peak 1 and no
  failure what is kept is the latest (`Kept`). With 50 commits up to 7 pushes at
  once leave the latest commit in the list; 8 may empty it (56).

SDK:

* `EngineTypeCorrect`: no count exceeds `MaxMetrics` because counts and queue of an
  instance together were served (`Holds`). `AdmittedSize`: the fields a batch
  lets in have distinct numbers of fields before them, so that there are no more
  than places.
* `MinutesExactCorrect`: `ExactInv`, a minute nothing of which was lost is in
  memory as a whole while nobody has published it, and once one run has and
  nobody counts for it, published as a whole; and `PublishedOnce`, a run that has
  published something of a minute will not count for it again.
* `QuietIsHealthyCorrect`: `QuietScore`, a window within all thresholds scores at
  least 96. `LearnsTheUsualCorrect`: `NthFacts` and `MedianFacts`, the median has
  half of the sample on either side.

Liveness under fairness stays with TLC: `LeasesReturn`, `OpeningAudited`,
`AuthorizedIsAccounted`, `HealthyIsUsed`, `MinutesPublished`, `SlackConverges`. So do
the counterexamples.

## Where the code and its documents disagree

`recovered_active` is a run. The others are stated in the modules or visible in
them, and are reproduced by the changes named here.

With `SPECIFICATION Spec`; for `IncidentLoop` also
`ActiveTTL`, `VoiceAfter` and `SecondaryAfter` 9, `HasVoice` FALSE, `Gated` empty:

| Statement | What the code does | Instance |
|---|---|---|
| shadow mode suppresses until DELETE is called (`shadow_mode_api.py:84`, `:119`) | a pass that opens an incident writes the old tenant record back (`loop.py:512`) | `MaxCalls = 1`, `ShadowOnlyByCall` |
| the transition table is the single source of truth (`pipeline.py:94`) | a process that read the incident before its lock moves it backwards (`loop.py:428`) | 2 processes, `MaxTime = 0`, `StageFollowsPipeline` |
| no duplicate creation under concurrent polls (`docs/ARCHITECTURE.md:189`) | after a Claude call longer than the lease the incident is opened anyway (`loop.py:505`) | 2 processes, `Quota = 2`, `Faults`, `ActiveNeverReplaced` |
| no duplicate incidents per tenant (`requirements.md:50`) | a crash between record and active key leaves an orphan (`loop.py:510`) | `MaxCrashes = 1`, `Quota = 2`, `OneOpenIncident` |
| at-most-once execution (`idempotency.py:11`) | a claim between another claim's DEL and HSET (`idempotency.py:165`) | 2 processes, 1 action, threshold and tasks 2, `AtMostOnce` |
| a verified tenant becomes active (`onboard.py:331`) | a shadow request that read the record before the activation writes it back after it (`shadow_mode_api.py:108`): pending, and not polled | run `tenants`, `VerifiedStaysPolled` |
| `all_failed` detects a total notification blackout (`delivery_ledger.py:99`) | `sent.py:64` reports a failure although the first recipients were reached, and the escalations and the telegram route make no entry | run `delivery`, `AllFailedIsBlackout` |
| failed notifications are queued (`requirements.md:165`) | a refused message is a success (`idempotency.py:336`) | 1 process, `UnsentIsQueued` |

* The loop itself moves an open incident on to AUTHORIZED, EXECUTED and RESOLVED, one
  stage a poll, without an approval or a webhook: the transition table allows it.
* With a gate set (`Gated = {"PROPOSED"}`) `AuditSound` fails in `loop_one`: a blocked
  transition is logged as reached and its notifications are sent.
* The engineer may be called twice: by the ESCALATE action (`loop.py:392`), which
  goes around `execute_once` and does not set `voice_sent`, and by the voice timer
  (`EngineerCalledOnce` fails in `loop_one`). With a gate on AUTHORIZED the action
  calls at every poll until the gate lets the incident on (`EscalationsBounded`
  fails with `Gated = {"AUTHORIZED"}`).
* Delivery: a message that failed may count twice towards the threshold, once by
  the provider (`whatsapp` and `whatsapp_meta`: once for each recipient) and once
  by dispatch; `CountsPerMessage` allows for it. An incident whose messages all
  take the telegram route has no ledger entry, so `all_failed` never holds for it.
* Delivery: a provider asks the breaker again and reports `circuit_breaker_open`
  as a failure, which dispatch counts (`notifications.py:282`). If the cooldown
  could end between those commands every time, the breaker would open again
  each time without a message tried; `Tick` does not let it.
* The metrics are "never dropped" (`README.md:327` of the repository), but
  `write_batch` swallows every Redis error, so a batch is lost, the breaker counts
  a success and never opens, and its buffer is never used.
* An instance that stops publishes the running minute; its next run overwrites
  that count with its own, and so does any other instance of the service
  (`storage.py:80-106`), and a pass of its own `drain()` after the final flush.
* Verification: two overlapping `/verify` of one tenant may both write the contacts
  they read, so one number stays unverified and the tenant is not activated
  although both callers were told so; there is no way to send a code again.
  Reading and deleting a code are two commands, so it may be accepted twice. A
  number registered by a second tenant moves the index. A tenant on
  `whatsapp_meta` is active with unverified contacts. The welcome message is never
  sent: its task is created in a thread without an event loop.
* The test incident (`onboard.py:390`) takes neither lease nor quota nor the active
  key, so the loop does not know it.
* Health: the lower bound of `config.py:61` and "must sum to 1.0 (enforced at
  runtime)" are not enforced. A service that fails every request quickly scores
  exactly 70, "healthy", and opens no incident, contrary to `README.md:369`. A
  spike is reported to whichever caller evaluates next, which may be one that
  tells nobody. An "ok" that was posted holds back a critical alert for the rate
  limit. Snapshots of incidents teach the thresholds like any other.
* Council: "both models agree" is also said when one of them failed; two
  categories at exactly 0.6 are called a consensus; `DIVERGENCE_THRESHOLD` is not
  used. Concurrent pushes trim for each other, and more so after
  pushes that failed between ZADD and the trim: `LatestKept` says by how much. A
  crash between LPUSH and EXPIRE leaves a history that does not expire.
  `clear_history` is never reached (the recovery path raises before it).

## What is left

1. `Lease`: `lock.py` with a clock, the renewer and an event loop that may be late:
   the condition behind `Faults = FALSE`. DEGRADED with its clock.
2. Redis commands that fail in `IncidentLoop`, and the test incident next to it.
3. Which of the properties of one process several keep while leases do not run
   out, and proofs of those.
4. `replay_incident_state`, once something calls it.

## Not modelled

Prompts, parsing and trimming of payloads, message bodies, reports, lead forms,
status endpoints, the dashboard, the demonstration app and the examples are
formatting or read-only. `deactivate_tenant`, `migrate_tenant`,
`replay_incident_state`, `fetch_github_commits`, `policy.validate_decision`,
`is_executed` and `get_marker` have no caller. The detection of a Telegram chat and
the connection test ask a third party and store nothing. The incident timeline
and the snapshots in Redis are written by the SDK and not used by it.
