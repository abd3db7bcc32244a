----------------------------- MODULE IncidentLoop -----------------------------
(***************************************************************************)
(* The polling executor of orchestrator/loop.py for one tenant: several     *)
(* orchestrator processes poll the tenant's service, open an incident under *)
(* a creation lock, advance or recover the open one under its own lock, and *)
(* hand notifications to background tasks (module Notifier runs those).     *)
(*                                                                          *)
(* A step is what a process does between two awaits, cut again after every  *)
(* Redis write another process could read or a crash could separate from    *)
(* the next.  Redis keys live in active (orchestrator:active_incident:T),   *)
(* incidents (orchestrator:incident:I), tenant, opened (the idempotency     *)
(* markers of OPEN_INCIDENT), audited (the audit log, as a set), creating   *)
(* and locks (the two lease keys); fired is what reached fire().            *)
(*                                                                          *)
(* The degraded mode of a process belongs to Notifier; here can_escalate is *)
(* a choice of the step that asks.  Nothing calls record_redis_failure, the *)
(* only way to EMERGENCY, so can_mutate_state and can_send_notifications    *)
(* hold.  A Redis command is taken not to fail.  The record of an incident  *)
(* outlives the key that names it (it is written first and renewed by every *)
(* save), so only the key expires here.                                     *)
(***************************************************************************)
EXTENDS Pipeline, Integers, FiniteSets, Functions

CONSTANTS
  Workers,        \* orchestrator processes
  None,           \* no incident, no token, no lock holder
  MaxTime,        \* bound on the clock, in seconds
  ActiveTTL,      \* life of the active-incident key
  VoiceAfter,     \* VOICE_AFTER_S
  SecondaryAfter, \* SECONDARY_AFTER_S
  Quota,          \* included incidents of the plan, -1 when unlimited
  HasVoice,       \* plan.has_voice_escalation
  Gated,          \* stages whose STAGE_GATES entry is not 0
  Faults,         \* may a process stall past its lease, or a renewal fail?
  MaxCrashes,     \* bound on process crashes
  MaxCalls        \* bound on calls of the shadow-mode API

ASSUME LoopAssumption ==
  /\ MaxTime \in Nat
  /\ ActiveTTL \in Nat
  /\ VoiceAfter \in Nat
  /\ SecondaryAfter \in Nat
  /\ Quota \in Nat \cup {-1}
  /\ HasVoice \in BOOLEAN
  /\ Gated \subseteq Stages
  /\ Faults \in BOOLEAN
  /\ MaxCrashes \in Nat
  /\ MaxCalls \in Nat
  /\ None \notin Workers
  /\ None \notin Int

VARIABLES
  clock,      \* time.time(), in seconds
  active,     \* the tenant's active incident id
  incidents,  \* incident records, by id
  tenant,     \* the tenant record: shadow mode and incident count
  opened,     \* incident ids whose opening was claimed
  audited,    \* <<incident, stage, actor>> in the audit log; the actor is
              \* "shadow_mode" or, for every other one, "pipeline"
  creating,   \* holder of the creation lock
  locks,      \* holder of each incident's lock
  pc,         \* where each process's pass over the tenant is
  job,        \* the locals of that pass
  fired,      \* notifications handed to fire(): [key, token]
  rung,       \* voice calls of each incident that went around execute_once
  crashes,    \* number of crashes so far
  calls       \* number of shadow-mode calls so far

records == <<active, incidents, tenant>>
leases  == <<creating, locks>>
vars == <<clock, active, incidents, tenant, opened, audited, creating, locks,
          pc, job, fired, rung, crashes, calls>>

-------------------------------------------------------------------------------
Time == 0 .. MaxTime

(* inc-<tenant>-<int(now)>: an id is the second of the poll that saw the outage. *)
Ids == Time

(* The record new_incident creates; the token is known by the second of its  *)
(* iat claim, the only part that differs between tokens of one incident.     *)
(* A record's history lists each stage once, so it is a set.                 *)
Records == [stage : Stages, history : SUBSET Stages, started : Time,
            token : Time \cup {None}, voice : BOOLEAN, secondary : BOOLEAN]

(* Python's None is no record.                                               *)
ASSUME NoneAssumption == None \notin Records

NewIncident(now) == [stage |-> "DETECTED", history |-> {"DETECTED"},
                     started |-> now, token |-> None,
                     voice |-> FALSE, secondary |-> FALSE]

TenantRecords == [shadow : BOOLEAN, count : Nat]

Messages  == {"SEND_DETECTION", "SEND_VALIDATION", "SEND_RECOVERY", "VOICE",
              "SECONDARY"}

(* make_action_id(incident_id, stage, action_type), and the recovery token   *)
(* in the message.  The ESCALATE action alone is not wrapped in execute_once: *)
(* it has no key, and rung counts its calls.                                 *)
Fires == [key : Ids \X Stages \X Messages, token : Time \cup {None}]

Jobs == [tenant : TenantRecords, health : HealthReadings, now : Time, id : Ids,
         rec : Records \cup {None}, next : Stages \cup {NoStage},
         valid : BOOLEAN]

IdleJob == [tenant |-> [shadow |-> FALSE, count |-> 0],
            health |-> [status |-> "healthy", recovered |-> FALSE,
                        alert |-> FALSE],
            now |-> 0, id |-> 0, rec |-> None, next |-> NoStage,
            valid |-> FALSE]

(* The points of a pass inside each lock's "async with" block. *)
InCreation   == {"recheck", "claude_create", "save_new", "set_active",
                 "save_tenant", "audit_new", "unlock_create"}
InProcessing == {"claude", "audit", "voice", "secondary", "unlock_incident"}
PassPoints   == {"idle", "fetch", "lock_create", "lock_incident"}
                  \cup InCreation \cup InProcessing

Goto(w, point) == pc' = [pc EXCEPT ![w] = point]
Finish(w) == /\ Goto(w, "idle")
             /\ job' = [job EXCEPT ![w] = IdleJob]

(* What a list of actions fires.  A message carries the token the incident has *)
(* when its turn comes: the one made by then, or else the one it came with.    *)
Firings(id, stage, actions, stored, made) ==
  LET TokenAt(n) ==
        IF \E m \in DOMAIN actions : m < n /\ actions[m] = "GENERATE_TOKEN"
        THEN made ELSE stored
  IN  {[key |-> <<id, stage, actions[n]>>, token |-> TokenAt(n)] :
         n \in {m \in DOMAIN actions : actions[m] \in Messages}}

Init ==
  /\ clock = 0
  /\ active = None
  /\ incidents = [i \in Ids |-> None]
  /\ tenant \in [shadow : BOOLEAN, count : {0}]
  /\ opened = {}
  /\ audited = {}
  /\ creating = None
  /\ locks = [i \in Ids |-> None]
  /\ pc = [w \in Workers |-> "idle"]
  /\ job = [w \in Workers |-> IdleJob]
  /\ fired = {}
  /\ rung = [i \in Ids |-> 0]
  /\ crashes = 0
  /\ calls = 0

-------------------------------------------------------------------------------
(* A pass starts: the tenant record is read once and kept until the pass ends. *)

Poll(w) ==
  /\ pc[w] = "idle"
  /\ Goto(w, "fetch")
  /\ job' = [job EXCEPT ![w].tenant = tenant]
  /\ UNCHANGED <<clock, records, opened, audited, leases,
                 fired, rung, crashes, calls>>

(* _fetch_health returned None: not a 200, or the request failed. *)
FetchFails(w) ==
  /\ pc[w] = "fetch"
  /\ Finish(w)
  /\ UNCHANGED <<clock, records, opened, audited, leases,
                 fired, rung, crashes, calls>>

(* _get_tenant_incident: the record behind the active key. *)
CurrentIncident == IF active = None THEN None ELSE incidents[active]

Fetched(w, h) ==
  /\ pc[w] = "fetch"
  /\ \/ /\ CurrentIncident = None
        /\ h.status # "critical"
        /\ Finish(w)
     \/ /\ CurrentIncident = None
        /\ h.status = "critical"
        /\ Goto(w, "lock_create")
        /\ job' = [job EXCEPT ![w].health = h, ![w].now = clock,
                              ![w].id = clock]
     \/ /\ CurrentIncident # None
        /\ Goto(w, "lock_incident")
        /\ job' = [job EXCEPT ![w].health = h, ![w].now = clock,
                              ![w].id = active, ![w].rec = CurrentIncident]
  /\ UNCHANGED <<clock, records, opened, audited, leases,
                 fired, rung, crashes, calls>>

-------------------------------------------------------------------------------
(* The creation path, under the lock "creating-<tenant>". *)

LockCreation(w) ==
  /\ pc[w] = "lock_create"
  /\ \/ /\ creating = None
        /\ creating' = w
        /\ Goto(w, "recheck")
        /\ job' = [job EXCEPT ![w].valid = TRUE]
     \/ /\ creating # None
        /\ Finish(w)
        /\ UNCHANGED creating
  /\ UNCHANGED <<clock, records, opened, audited, locks,
                 fired, rung, crashes, calls>>

QuotaOffByOne(t) ==    \* one incident more than the plan includes
  IF Quota = -1 THEN -1 ELSE IF t.count <= Quota THEN Quota - t.count + 1 ELSE 0

QuotaRemaining(t) ==
  IF Quota = -1 THEN -1 ELSE IF t.count < Quota THEN Quota - t.count ELSE 0

(* The claim without the second look at the active incident. *)
ClaimWithoutRecheck(w) ==
  /\ pc[w] = "recheck"
  /\ opened' = opened \cup {job[w].id}
  /\ Goto(w, "claude_create")
  /\ UNCHANGED <<clock, records, audited, leases, job,
                 fired, rung, crashes, calls>>

(* The active incident is read again, and the opening claimed before the    *)
(* alert policy, the quota and the lease are looked at.  (A plan without    *)
(* Claude decisions, or with too many services, ends the pass here too: as  *)
(* ClaudeOnCreation may.)                                                   *)
RecheckAndClaim(w) ==
  /\ pc[w] = "recheck"
  /\ \/ /\ CurrentIncident # None \/ job[w].id \in opened
        /\ Goto(w, "unlock_create")
        /\ UNCHANGED opened
     \/ /\ CurrentIncident = None
        /\ job[w].id \notin opened
        /\ opened' = opened \cup {job[w].id}
        /\ Goto(w, IF /\ job[w].health.alert
                      /\ QuotaRemaining(job[w].tenant) # 0
                      /\ job[w].valid
                   THEN "claude_create" ELSE "unlock_create")
  /\ UNCHANGED <<clock, records, audited, leases, job,
                 fired, rung, crashes, calls>>

(* The save of the record forgotten. *)
ClaudeWithoutSave(w) ==
  /\ pc[w] = "claude_create"
  /\ \E point \in {"set_active", "unlock_create"} : Goto(w, point)
  /\ UNCHANGED <<clock, records, opened, audited, leases, job, fired, rung,
                 crashes, calls>>

(* claude_decide returned; any action but escalate and validate ends the pass. *)
ClaudeOnCreation(w) ==
  /\ pc[w] = "claude_create"
  /\ \E point \in {"save_new", "unlock_create"} : Goto(w, point)
  /\ UNCHANGED <<clock, records, opened, audited, leases, job, fired, rung,
                 crashes, calls>>

SaveNewIncident(w) ==
  /\ pc[w] = "save_new"
  /\ incidents' = [incidents EXCEPT ![job[w].id] = NewIncident(clock)]
  /\ Goto(w, "set_active")
  /\ UNCHANGED <<clock, active, tenant, opened, audited, leases, job,
                 fired, rung, crashes, calls>>

SetActive(w) ==
  /\ pc[w] = "set_active"
  /\ active' = job[w].id
  /\ Goto(w, "save_tenant")
  /\ UNCHANGED <<clock, incidents, tenant, opened, audited, leases, job,
                 fired, rung, crashes, calls>>

(* Two ways to break SaveTenant: it counts down, or it is the last step of a *)
(* pass in shadow mode.                                                       *)
SpendIncident(w) ==
  /\ pc[w] = "save_tenant"
  /\ tenant' = [job[w].tenant EXCEPT !.count = @ - 1]
  /\ Goto(w, "audit_new")
  /\ UNCHANGED <<clock, active, incidents, opened, audited, leases, job,
                 fired, rung, crashes, calls>>

SaveTenantThenLeave(w) ==
  /\ pc[w] = "save_tenant"
  /\ tenant' = [job[w].tenant EXCEPT !.count = @ + 1]
  /\ Goto(w, IF job[w].tenant.shadow THEN "unlock_create" ELSE "audit_new")
  /\ UNCHANGED <<clock, active, incidents, opened, audited, leases, job,
                 fired, rung, crashes, calls>>

(* increment_incident_count copies the record read at the start of the pass, *)
(* and save_tenant writes the whole of it back.                              *)
SaveTenant(w) ==
  /\ pc[w] = "save_tenant"
  /\ tenant' = [job[w].tenant EXCEPT !.count = @ + 1]
  /\ Goto(w, "audit_new")
  /\ UNCHANGED <<clock, active, incidents, opened, audited, leases, job,
                 fired, rung, crashes, calls>>

(* The shadow flag, as the pass read it; and one that a new incident ignores. *)
ShadowedLater(w) == job[w].tenant.shadow /\ job[w].rec # None

Shadowed(w) == job[w].tenant.shadow

(* The events and tasks of a set of actions: in shadow mode every action is  *)
(* an audit event instead.                                                   *)
Suppressed(id, stage) == {<<id, stage, "shadow_mode">>}

AuditNewIncident(w) ==
  LET id == job[w].id
      d  == DecideNewIncident
  IN
  /\ pc[w] = "audit_new"
  /\ IF Shadowed(w)
     THEN /\ audited' = audited \cup {<<id, d.next, "pipeline">>}
                                \cup Suppressed(id, d.next)
          /\ UNCHANGED fired
     ELSE /\ audited' = audited \cup {<<id, d.next, "pipeline">>}
          /\ fired' = fired \cup Firings(id, d.next, d.actions, None, None)
  /\ Goto(w, "unlock_create")
  /\ UNCHANGED <<clock, records, opened, leases, job, rung, crashes, calls>>

(* release_lock deletes the key only while it still holds this lease's token. *)
UnlockCreation(w) ==
  /\ pc[w] = "unlock_create"
  /\ creating' = IF creating = w THEN None ELSE creating
  /\ Finish(w)
  /\ UNCHANGED <<clock, records, opened, audited, locks,
                 fired, rung, crashes, calls>>

-------------------------------------------------------------------------------
(* An open incident, under its own lock; its record was read before the lock. *)

LockIncident(w) ==
  /\ pc[w] = "lock_incident"
  /\ \/ /\ locks[job[w].id] = None
        /\ locks' = [locks EXCEPT ![job[w].id] = w]
        /\ Goto(w, "claude")
        /\ job' = [job EXCEPT ![w].valid = TRUE]
     \/ /\ locks[job[w].id] # None
        /\ Finish(w)
        /\ UNCHANGED locks
  /\ UNCHANGED <<clock, records, opened, audited, creating, fired, rung,
                 crashes, calls>>

Decision(w) == Decide(job[w].rec.stage, job[w].health.recovered)

(* The branch of a service that is no longer critical. *)
MayRecover(w) == /\ job[w].health.status # "critical"
                 /\ job[w].rec.stage # "RECOVERED"

(* The record is saved as RECOVERED; resolve_incident is then called without *)
(* its tenant_id, so the pass ends there: the active key is not deleted, no  *)
(* event is appended and no recovery notification is fired.                  *)
Recover(w) ==
  /\ pc[w] = "claude"
  /\ MayRecover(w)
  /\ Decision(w).next = "RECOVERED"
  /\ incidents' = [incidents EXCEPT ![job[w].id] =
                     Transition(job[w].rec, "RECOVERED", TRUE)]
  /\ Goto(w, "unlock_incident")
  /\ UNCHANGED <<clock, active, tenant, opened, audited, leases, job,
                 fired, rung, crashes, calls>>

(* The returns: not recovered yet, no next stage, or the lease was lost. *)
LeaveIncident(w) ==
  /\ pc[w] = "claude"
  /\ IF MayRecover(w) THEN Decision(w).next # "RECOVERED"
     ELSE Decision(w).next = NoStage \/ ~job[w].valid
  /\ Goto(w, "unlock_incident")
  /\ UNCHANGED <<clock, records, opened, audited, leases, job, fired, rung,
                 crashes, calls>>

(* The transition is applied (or blocked: the same record comes back), the   *)
(* decision's actions run either way, and the result is saved.  ESCALATE     *)
(* calls the engineer at once, when the plan has voice and the mode is NORMAL; *)
(* it neither reads nor sets the flag of the voice timer.                    *)
Advance(w, gateMet, canEscalate) ==
  LET d      == Decision(w)
      id     == job[w].id
      live   == ~Shadowed(w)
      moved  == Transition(job[w].rec, d.next, gateMet)
      tokens == live /\ "GENERATE_TOKEN" \in Range(d.actions)
      result == IF tokens THEN [moved EXCEPT !.token = clock] ELSE moved
  IN
  /\ pc[w] = "claude"
  /\ ~MayRecover(w)
  /\ d.next # NoStage
  /\ job[w].valid
  /\ d.next \notin Gated => gateMet
  /\ incidents' = [incidents EXCEPT ![id] = result]
  /\ job' = [job EXCEPT ![w].rec = result, ![w].next = d.next]
  /\ IF live
     THEN /\ fired' = fired \cup Firings(id, result.stage, d.actions,
                                         job[w].rec.token, result.token)
          /\ rung' = IF /\ "ESCALATE" \in Range(d.actions)
                        /\ HasVoice
                        /\ canEscalate
                     THEN [rung EXCEPT ![id] = @ + 1] ELSE rung
          /\ UNCHANGED audited
     ELSE /\ audited' = IF d.actions = <<>> THEN audited
                        ELSE audited \cup Suppressed(id, result.stage)
          /\ UNCHANGED <<fired, rung>>
  /\ Goto(w, "audit")
  /\ UNCHANGED <<clock, active, tenant, opened, leases, crashes, calls>>

AuditUnlessShadowed(w) ==    \* shadow mode silences the log as well
  /\ pc[w] = "audit"
  /\ audited' = IF Shadowed(w) THEN audited
                ELSE audited \cup {<<job[w].id, job[w].next, "pipeline">>}
  /\ Goto(w, "voice")
  /\ UNCHANGED <<clock, records, opened, leases, job,
                 fired, rung, crashes, calls>>

AuditTransition(w) ==
  /\ pc[w] = "audit"
  /\ audited' = audited \cup {<<job[w].id, job[w].next, "pipeline">>}
  /\ Goto(w, "voice")
  /\ UNCHANGED <<clock, records, opened, leases, job,
                 fired, rung, crashes, calls>>

(* Long enough since the start, and a score below 70 (so not healthy).      *)
Overdue(w, after) == /\ job[w].now - job[w].rec.started >= after
                     /\ job[w].health.status # "healthy"

(* An escalation is noted in the record first, then fired or audited.       *)
EscalateAs(w, kind, noted) ==
  LET id == job[w].id
  IN
  /\ incidents' = [incidents EXCEPT ![id] = noted]
  /\ job' = [job EXCEPT ![w].rec = noted]
  /\ IF Shadowed(w)
     THEN /\ audited' = audited \cup Suppressed(id, job[w].next)
          /\ UNCHANGED fired
     ELSE /\ fired' = fired \cup Firings(id, job[w].next, <<kind>>, None, None)
          /\ UNCHANGED audited

VoiceAgain(w, canEscalate) ==    \* voice_sent written but not read
  /\ pc[w] = "voice"
  /\ IF canEscalate /\ Overdue(w, VoiceAfter)
     THEN EscalateAs(w, "VOICE", [job[w].rec EXCEPT !.voice = TRUE])
     ELSE UNCHANGED <<incidents, job, audited, fired>>
  /\ Goto(w, "secondary")
  /\ UNCHANGED <<clock, active, tenant, opened, leases, rung, crashes, calls>>

Voice(w, canEscalate) ==
  /\ pc[w] = "voice"
  /\ IF canEscalate /\ ~job[w].rec.voice /\ Overdue(w, VoiceAfter)
     THEN EscalateAs(w, "VOICE", [job[w].rec EXCEPT !.voice = TRUE])
     ELSE UNCHANGED <<incidents, job, audited, fired>>
  /\ Goto(w, "secondary")
  /\ UNCHANGED <<clock, active, tenant, opened, leases, rung, crashes, calls>>

Secondary(w, canEscalate) ==
  /\ pc[w] = "secondary"
  /\ IF canEscalate /\ ~job[w].rec.secondary /\ Overdue(w, SecondaryAfter)
     THEN EscalateAs(w, "SECONDARY", [job[w].rec EXCEPT !.secondary = TRUE])
     ELSE UNCHANGED <<incidents, job, audited, fired>>
  /\ Goto(w, "unlock_incident")
  /\ UNCHANGED <<clock, active, tenant, opened, leases, rung, crashes, calls>>

UnlockIncident(w) ==
  /\ pc[w] = "unlock_incident"
  /\ locks' = [locks EXCEPT ![job[w].id] = IF @ = w THEN None ELSE @]
  /\ Finish(w)
  /\ UNCHANGED <<clock, records, opened, audited, creating,
                 fired, rung, crashes, calls>>

-------------------------------------------------------------------------------
(* Redis drops a lease whose owner is gone; with Faults, also one whose owner  *)
(* is alive but was too slow to renew it.                                     *)

UnrenewedCreationLock ==    \* no renewer: the lease runs out during the block
  /\ creating # None
  /\ creating' = None
  /\ UNCHANGED <<clock, records, opened, audited, locks, pc, job, fired, rung,
                 crashes, calls>>

EverlastingCreationLock ==    \* SET NX without a lifetime
  /\ Faults
  /\ UnrenewedCreationLock

CreationLockExpires ==
  /\ creating # None
  /\ Faults \/ pc[creating] \notin InCreation
  /\ creating' = None
  /\ UNCHANGED <<clock, records, opened, audited, locks, pc, job, fired, rung,
                 crashes, calls>>

Processing(w, i) == pc[w] \in InProcessing /\ job[w].id = i

IncidentLockExpires(i) ==
  /\ locks[i] # None
  /\ Faults \/ ~Processing(locks[i], i)
  /\ locks' = [locks EXCEPT ![i] = None]
  /\ UNCHANGED <<clock, records, opened, audited, creating, pc, job,
                 fired, rung, crashes, calls>>

(* The renewer runs only while the pass waits, that is in a Claude call.      *)
RenewFails(w) ==
  /\ Faults
  /\ pc[w] \in {"claude_create", "claude"}
  /\ job[w].valid
  /\ job' = [job EXCEPT ![w].valid = FALSE]
  /\ UNCHANGED <<clock, records, opened, audited, leases, pc, fired, rung,
                 crashes, calls>>

ActiveExpires ==
  /\ active # None
  /\ clock >= incidents[active].started + ActiveTTL
  /\ active' = None
  /\ UNCHANGED <<clock, incidents, tenant, opened, audited, leases, pc, job,
                 fired, rung, crashes, calls>>

(* The shadow-mode API reads the tenant record, sets the flag and saves it.   *)
SetShadow(on) ==
  /\ calls < MaxCalls
  /\ calls' = calls + 1
  /\ tenant.shadow # on
  /\ tenant' = [tenant EXCEPT !.shadow = on]
  /\ UNCHANGED <<clock, active, incidents, opened, audited, leases, pc, job,
                 fired, rung, crashes>>

EnableShadow  == SetShadow(TRUE)
DisableShadow == SetShadow(FALSE)

(* A process dies and is restarted: its pass is gone, the leases it held stay *)
(* in Redis until they expire.                                                *)
Crash(w) ==
  /\ crashes < MaxCrashes
  /\ pc[w] # "idle"
  /\ crashes' = crashes + 1
  /\ Finish(w)
  /\ UNCHANGED <<clock, records, opened, audited, leases, fired, rung, calls>>

Tick ==
  /\ clock < MaxTime
  /\ clock' = clock + 1
  /\ UNCHANGED <<records, opened, audited, leases, pc, job,
                 fired, rung, crashes, calls>>

-------------------------------------------------------------------------------
Create(w)  == \/ LockCreation(w)    \/ RecheckAndClaim(w) \/ ClaudeOnCreation(w)
              \/ SaveNewIncident(w) \/ SetActive(w)       \/ SaveTenant(w)
              \/ AuditNewIncident(w) \/ UnlockCreation(w)

Process(w) == \/ LockIncident(w) \/ Recover(w) \/ LeaveIncident(w)
              \/ AuditTransition(w) \/ UnlockIncident(w)
              \/ \E canEscalate \in BOOLEAN :
                   \/ \E gateMet \in BOOLEAN : Advance(w, gateMet, canEscalate)
                   \/ Voice(w, canEscalate)
                   \/ Secondary(w, canEscalate)

(* A pass, once begun, ends by itself; when the next one begins is up to the *)
(* service's health and the interval of the loop.                            *)
Pass(w) == \/ FetchFails(w)
           \/ \E h \in HealthReadings : Fetched(w, h)
           \/ Create(w)
           \/ Process(w)

Expiry == \/ CreationLockExpires
          \/ \E i \in Ids : IncidentLockExpires(i)
          \/ ActiveExpires

Environment == \/ \E w \in Workers : RenewFails(w) \/ Crash(w)
               \/ EnableShadow
               \/ DisableShadow
               \/ Tick

Next == \/ \E w \in Workers : Poll(w) \/ Pass(w)
        \/ Expiry
        \/ Environment

Spec == Init /\ [][Next]_vars

(* Every wait of a pass has a timeout (the health fetch, the Claude call), and *)
(* Redis deletes a lease nobody renews.  Polling itself is not assumed.        *)
FairSpec == /\ Spec
            /\ \A w \in Workers : WF_vars(Pass(w))
            /\ WF_vars(CreationLockExpires)
            /\ \A i \in Ids : WF_vars(IncidentLockExpires(i))

-------------------------------------------------------------------------------
(* Every variable keeps its type: the shape of what loop.py keeps in Redis    *)
(* and in the locals of a pass.                                               *)
TypeOK ==
  /\ clock \in Time
  /\ active \in Ids \cup {None}
  /\ incidents \in [Ids -> Records \cup {None}]
  /\ tenant \in TenantRecords
  /\ opened \subseteq Ids
  /\ audited \subseteq Ids \X Stages \X {"pipeline", "shadow_mode"}
  /\ creating \in Workers \cup {None}
  /\ locks \in [Ids -> Workers \cup {None}]
  /\ pc \in [Workers -> PassPoints]
  /\ job \in [Workers -> Jobs]
  /\ fired \subseteq Fires
  /\ rung \in [Ids -> Nat]
  /\ crashes \in Nat
  /\ calls \in Nat

(* While no process outlives its lease, at most one works on an incident, and *)
(* none opens one while another is opening it: whoever is inside a lock's     *)
(* block still holds the key, whatever crashed or expired before (lock.py).   *)
OneOwner ==
  \A v, w \in Workers :
    v # w => /\ ~(pc[v] \in InCreation /\ pc[w] \in InCreation)
             /\ \A i \in Ids : ~(Processing(v, i) /\ Processing(w, i))

(* An open incident is never displaced from the tenant's active key by        *)
(* another one: the key must be found free, or expire, in between (the recheck *)
(* under the creation lock, loop.py).                                         *)
ActiveNeverReplaced ==
  [][active' # active => active = None \/ active' = None]_vars

(* What the pipeline put in the audit log did happen to the incident: the     *)
(* stage is in the history of the stored record.  The log is appended after   *)
(* the save, and a later save may not lose a stage the log tells of.          *)
AuditSound ==
  \A e \in audited :
    e[3] = "pipeline" => /\ incidents[e[1]] # None
                         /\ e[2] \in incidents[e[1]].history

(* A pass that will append an event about incident i.                         *)
WillAudit(w, i) ==
  /\ job[w].id = i
  /\ pc[w] \in {"set_active", "save_tenant", "audit_new", "audit"}

AuditedOrDue(i, stage) ==
  \/ <<i, stage, "pipeline">> \in audited
  \/ \E w \in Workers : WillAudit(w, i)

(* As long as nothing crashed, every stage the pipeline gave an incident, but *)
(* RECOVERED, is in the audit log or about to be appended by the pass that    *)
(* saved it.                                                                  *)
AuditComplete ==
  crashes = 0 =>
    \A i \in Ids : incidents[i] # None =>
      \A stage \in incidents[i].history \ {"RECOVERED"} : AuditedOrDue(i, stage)

(* A recovery link is fired only for an incident that is VALIDATED, and it    *)
(* carries the token stored in the incident's record (GENERATE_TOKEN comes    *)
(* before the notification that uses it).                                     *)
LinkIsStored ==
  \A f \in fired :
    f.key[3] = "SEND_VALIDATION" =>
      LET record == incidents[f.key[1]]
      IN  /\ record # None
          /\ "VALIDATED" \in record.history
          /\ f.token # None
          /\ f.token = record.token

(* The timers call an incident's engineer once and notify the secondary once: *)
(* the idempotency key holds the stage, so only the flag in the record keeps  *)
(* them from doing it again at the next stage.                                *)
TimersOnce ==
  \A f, g \in fired :
    (/\ f.key[1] = g.key[1]
     /\ f.key[3] = g.key[3]
     /\ f.key[3] \in {"VOICE", "SECONDARY"}) => f = g

(* The ESCALATE action calls the engineer too, whether the timer has done so  *)
(* or not, and once: when the incident becomes AUTHORIZED.                    *)
RungOnce ==
  \A i \in Ids :
    /\ rung[i] <= 1
    /\ rung[i] = 1 => /\ incidents[i] # None
                      /\ "AUTHORIZED" \in incidents[i].history

(* An incident's engineer is called at most twice, by the action and by the   *)
(* timer, and the secondary notified at most once, whatever the stages and    *)
(* the crashes in between (_execute_actions and _process_tenant of loop.py).  *)
EscalationsBounded == TimersOnce /\ RungOnce

(* Without a crash between the save and the count, a tenant never has more    *)
(* incidents opened than its plan includes.                                   *)
QuotaHolds ==
  Quota # -1 /\ crashes = 0 =>
    Cardinality({i \in Ids : incidents[i] # None}) <= Quota

(* A tenant that is in shadow mode from the start sends nothing and no        *)
(* recovery token is made for it, whatever is decided about its incidents.    *)
ShadowIsSilent ==
  tenant.shadow /\ calls = 0 =>
    /\ fired = {}
    /\ \A i \in Ids : rung[i] = 0
    /\ \A i \in Ids : incidents[i] # None => incidents[i].token = None

(* A process that dies in a lock's block blocks the tenant or the incident    *)
(* only until the lease runs out.                                             *)
LeasesReturn == /\ []<>(creating = None)
                /\ \A i \in Ids : []<>(locks[i] = None)

(* An incident that was saved has its opening in the audit log before long,   *)
(* unless a process crashed.                                                  *)
OpeningAudited ==
  \A i \in Ids :
    incidents[i] # None ~>
      (<<i, "DETECTED", "pipeline">> \in audited \/ crashes > 0)

-------------------------------------------------------------------------------
(* The inductive invariant behind TypeOK, OneOwner and ActiveNeverReplaced.    *)

(* The locals a pass has set when it uses them, and the record an id names.   *)
LocalsSet ==
  /\ \A w \in Workers :
       /\ pc[w] \in InProcessing \cup {"lock_incident"} => job[w].rec # None
       /\ pc[w] \in {"audit", "voice", "secondary"} => job[w].next # NoStage
       /\ pc[w] = "set_active" => incidents[job[w].id] # None
  /\ active # None => incidents[active] # None

(* Whoever is inside a lock's block holds the lock's key.                     *)
LeasesHeld ==
  \A w \in Workers :
    /\ pc[w] \in InCreation => creating = w
    /\ pc[w] \in InProcessing => locks[job[w].id] = w

(* From the recheck to the write of the key, no other incident becomes active. *)
ActiveFree ==
  \A w \in Workers :
    pc[w] \in {"claude_create", "save_new", "set_active"} => active = None

(* A pass never works with a local it has not set, holds the key of the lock   *)
(* whose block it is in, and opens an incident only while none is active,      *)
(* unless leases run out under a live process.                                 *)
LoopInv == LocalsSet /\ (~Faults => LeasesHeld /\ ActiveFree)

-------------------------------------------------------------------------------
(* What the repository says of the loop and the loop does not do.             *)

Idle == \A w \in Workers : pc[w] = "idle"

(* When a recovery has been recorded and the pass is over, the incident is no *)
(* longer the tenant's active one (resolve_incident and _clear_tenant_active  *)
(* are called for that in loop.py).                                           *)
RecoveredIsCleared ==
  Idle /\ crashes = 0 /\ active # None => incidents[active].stage # "RECOVERED"

(* A stored incident only moves along ALLOWED_TRANSITIONS or to RECOVERED     *)
(* from an active stage (pipeline.py): a save writes back the record read     *)
(* before the lock, so another process's stage in between is overwritten.     *)
StageFollowsPipeline ==
  [][\A i \in Ids :
       (/\ incidents[i] # None
        /\ incidents'[i].stage # incidents[i].stage)
         => CanTransition(incidents[i].stage, incidents'[i].stage, TRUE)]_vars

(* The engineer is called once per incident, by the action or by the timer.   *)
EngineerCalledOnce ==
  \A i \in Ids :
    rung[i] + Cardinality({f \in fired : f.key[1] = i /\ f.key[3] = "VOICE"}) <= 1

(* Shadow mode is left by the call that leaves it, and by nothing else.       *)
ShadowOnlyByCall == [][tenant.shadow /\ ~tenant'.shadow => DisableShadow]_vars

(* A tenant has at most one incident that is still open.                      *)
OpenIncidents == {i \in Ids : /\ incidents[i] # None
                              /\ ~IsTerminal(incidents[i].stage)
                              /\ clock < incidents[i].started + ActiveTTL}
OneOpenIncident == Cardinality(OpenIncidents) <= 1
=============================================================================
