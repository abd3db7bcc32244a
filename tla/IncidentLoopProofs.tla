-------------------------- MODULE IncidentLoopProofs --------------------------
(***************************************************************************)
(* Proofs about IncidentLoop, for any clock bound, quota, gates and number  *)
(* of crashes.  What "One process" is written over is about one process,    *)
(* everything else about any number of them.                                *)
(***************************************************************************)
EXTENDS IncidentLoop, FiniteSetTheorems, TLAPS

-------------------------------------------------------------------------------
(* The types of what the pipeline's pure functions return.                  *)

(* decide() answers with a stage of the pipeline or with none.              *)
LEMMA DecideType ==
  ASSUME NEW stage \in Stages, NEW recovered \in BOOLEAN
  PROVE  Decide(stage, recovered).next \in Stages \cup {NoStage}
BY DEF Decide, AllowedTransitions, Stages, NoStage

(* transition() hands back an incident record.                              *)
LEMMA TransitionType ==
  ASSUME NEW record \in Records, NEW target \in Stages, NEW gateMet
  PROVE  Transition(record, target, gateMet) \in Records
BY DEF Transition, Records

(* The record of a new incident.                                            *)
LEMMA NewIncidentType ==
  ASSUME NEW now \in Time
  PROVE  NewIncident(now) \in Records
BY DEF NewIncident, Records, Stages

(* What is fired is a notification of a known type for a known stage.       *)
LEMMA FiringsType ==
  ASSUME NEW id \in Ids, NEW stage \in Stages, NEW actions,
         NEW stored \in Time \cup {None}, NEW made \in Time \cup {None}
  PROVE  Firings(id, stage, actions, stored, made) \subseteq Fires
BY DEF Firings, Fires

(* None is no id, no process and no record, and the clock starts in range.  *)
LEMMA NoneFacts ==
  /\ None \notin Ids
  /\ None \notin Workers
  /\ None \notin Records
  /\ 0 \in Time
BY LoopAssumption, NoneAssumption DEF Ids, Time

(* The locals of an idle process.                                           *)
LEMMA IdleJobType == IdleJob \in Jobs
<1>1. IdleJob.health \in HealthReadings
  BY DEF IdleJob, HealthReadings, Statuses
<1>. QED  BY <1>1, NoneFacts DEF IdleJob, Jobs, TenantRecords, Ids

-------------------------------------------------------------------------------
(* Types, and the locals a pass relies on.                                  *)

TypeInv == TypeOK /\ LocalsSet

(* The initial states are well typed, and no pass uses a local yet.         *)
LEMMA InitTypeInv == Init => TypeInv
<1>. SUFFICES ASSUME Init PROVE TypeInv
  OBVIOUS
<1>1. TypeOK
  BY NoneFacts, IdleJobType DEF Init, TypeOK, TenantRecords, PassPoints
<1>2. LocalsSet
  BY NoneFacts DEF Init, LocalsSet, InProcessing
<1>. QED  BY <1>1, <1>2 DEF TypeInv

(* What the current incident and a decision are made of.                     *)
LEMMA CurrentIncidentType ==
  ASSUME TypeInv
  PROVE  /\ CurrentIncident \in Records \cup {None}
         /\ CurrentIncident # None => active \in Ids
         /\ CurrentIncident = None <=> active = None
BY NoneFacts DEF TypeInv, TypeOK, LocalsSet, CurrentIncident

(* A pass that takes a lease keeps the rest of its locals.                     *)
LEMMA ValidJob ==
  ASSUME NEW j \in Jobs
  PROVE  /\ [j EXCEPT !.valid = TRUE] \in Jobs
         /\ [j EXCEPT !.valid = TRUE].rec = j.rec
BY DEF Jobs

(* A pass over an open incident decides about a record, for a known stage.     *)
LEMMA DecisionType ==
  ASSUME TypeInv, NEW w \in Workers, job[w].rec # None
  PROVE  /\ job[w].rec \in Records
         /\ Decision(w).next \in Stages \cup {NoStage}
<1>1. job[w].rec \in Records /\ job[w].health \in HealthReadings
  BY DEF TypeInv, TypeOK, Jobs
<1>2. job[w].rec.stage \in Stages /\ job[w].health.recovered \in BOOLEAN
  BY <1>1 DEF Records, HealthReadings
<1>. QED  BY <1>1, <1>2, DecideType DEF Decision

(* Noting an escalation and firing or auditing it keeps every type.           *)
LEMMA EscalateKeepsTypes ==
  ASSUME TypeInv, NEW w \in Workers, NEW kind,
         NEW noted \in Records, job[w].next \in Stages,
         EscalateAs(w, kind, noted)
  PROVE  /\ incidents' \in [Ids -> Records \cup {None}]
         /\ \A i \in Ids : incidents[i] # None => incidents'[i] # None
         /\ job' \in [Workers -> Jobs]
         /\ \A v \in Workers : /\ job[v].rec # None => job'[v].rec # None
                               /\ job'[v].next = job[v].next
                               /\ job'[v].id = job[v].id
         /\ audited' \subseteq Ids \X Stages \X {"pipeline", "shadow_mode"}
         /\ fired' \subseteq Fires
<1>. USE DEF TypeInv, TypeOK, EscalateAs
<1>1. job[w] \in Jobs /\ job[w].id \in Ids
  BY DEF Jobs
<1>2. /\ incidents' \in [Ids -> Records \cup {None}]
      /\ \A i \in Ids : incidents[i] # None => incidents'[i] # None
  BY <1>1, NoneFacts
<1>3. [job[w] EXCEPT !.rec = noted] \in Jobs
  BY <1>1 DEF Jobs
<1>4. job' = [job EXCEPT ![w] = [@ EXCEPT !.rec = noted]]
  OBVIOUS
<1>5. job' \in [Workers -> Jobs]
  BY <1>3, <1>4
<1>6. \A v \in Workers : /\ job[v].rec # None => job'[v].rec # None
                        /\ job'[v].next = job[v].next
                        /\ job'[v].id = job[v].id
  BY <1>4, NoneFacts DEF Jobs
<1>7. Firings(job[w].id, job[w].next, <<kind>>, None, None) \subseteq Fires
  BY <1>1, FiringsType
<1>8. fired' \subseteq Fires
  BY <1>7
<1>9. audited' \subseteq Ids \X Stages \X {"pipeline", "shadow_mode"}
  BY <1>1 DEF Suppressed
<1>. QED  BY <1>2, <1>5, <1>6, <1>8, <1>9

(* Every step keeps the types, and sets a local before it is used.           *)
LEMMA NextTypeInv == TypeInv /\ [Next]_vars => TypeInv'
<1>. SUFFICES ASSUME TypeInv, [Next]_vars PROVE TypeInv'
  OBVIOUS
<1>. USE DEF TypeInv, TypeOK, LocalsSet, Goto, Finish, records, leases,
             PassPoints, InProcessing, InCreation
<1>1. ASSUME NEW w \in Workers, Poll(w) PROVE TypeInv'
  BY <1>1 DEF Poll, Jobs
<1>2. ASSUME NEW w \in Workers, FetchFails(w) PROVE TypeInv'
  BY <1>2, IdleJobType DEF FetchFails
<1>3. ASSUME NEW w \in Workers, NEW h \in HealthReadings, Fetched(w, h)
      PROVE  TypeInv'
  <2>1. CASE CurrentIncident = None /\ h.status # "critical"
    BY <1>3, <2>1, IdleJobType DEF Fetched
  <2>2. CASE CurrentIncident = None /\ h.status = "critical"
    <3>1. job' \in [Workers -> Jobs]
      BY <1>3, <2>2 DEF Fetched, Jobs, Ids
    <3>. QED  BY <1>3, <2>2, <3>1 DEF Fetched
  <2>3. CASE CurrentIncident # None
    <3>1. job' \in [Workers -> Jobs]
      BY <1>3, <2>3, CurrentIncidentType DEF Fetched, Jobs
    <3>2. job'[w].rec # None
      BY <1>3, <2>3 DEF Fetched, Jobs
    <3>3. \A v \in Workers \ {w} : job'[v] = job[v] /\ pc'[v] = pc[v]
      BY <1>3, <2>3 DEF Fetched
    <3>4. pc' = [pc EXCEPT ![w] = "lock_incident"]
      BY <1>3, <2>3 DEF Fetched
    <3>5. UNCHANGED <<clock, records, opened, audited, leases, fired, rung,
                     crashes, calls>>
      BY <1>3 DEF Fetched
    <3>6. TypeOK'
      BY <3>1, <3>4, <3>5
    <3>7. LocalsSet'
      BY <3>2, <3>3, <3>4, <3>5
    <3>. QED  BY <3>6, <3>7
  <2>. QED  BY <2>1, <2>2, <2>3
<1>4. ASSUME NEW w \in Workers, LockCreation(w) PROVE TypeInv'
  <2>1. CASE creating = None
    <3>1. job' \in [Workers -> Jobs]
      BY <1>4, <2>1, ValidJob DEF LockCreation
    <3>. QED  BY <1>4, <2>1, <3>1 DEF LockCreation
  <2>2. CASE creating # None
    BY <1>4, <2>2, IdleJobType DEF LockCreation
  <2>. QED  BY <2>1, <2>2
<1>5. ASSUME NEW w \in Workers, RecheckAndClaim(w) PROVE TypeInv'
  BY <1>5 DEF RecheckAndClaim, Jobs
<1>6. ASSUME NEW w \in Workers, ClaudeOnCreation(w) PROVE TypeInv'
  BY <1>6 DEF ClaudeOnCreation
<1>7. ASSUME NEW w \in Workers, SaveNewIncident(w) PROVE TypeInv'
  BY <1>7, NewIncidentType, NoneFacts DEF SaveNewIncident, Jobs
<1>8. ASSUME NEW w \in Workers, SetActive(w) PROVE TypeInv'
  BY <1>8 DEF SetActive, Jobs
<1>9. ASSUME NEW w \in Workers, SaveTenant(w) PROVE TypeInv'
  BY <1>9 DEF SaveTenant, Jobs, TenantRecords
<1>10. ASSUME NEW w \in Workers, AuditNewIncident(w) PROVE TypeInv'
  <2>1. job[w].id \in Ids /\ "DETECTED" \in Stages
    BY DEF Jobs, Stages
  <2>2. Firings(job[w].id, "DETECTED", DecideNewIncident.actions, None, None)
          \subseteq Fires
    BY <2>1, FiringsType
  <2>. QED  BY <1>10, <2>1, <2>2 DEF AuditNewIncident, DecideNewIncident, Suppressed
<1>11. ASSUME NEW w \in Workers, UnlockCreation(w) PROVE TypeInv'
  BY <1>11, IdleJobType DEF UnlockCreation
<1>12. ASSUME NEW w \in Workers, LockIncident(w) PROVE TypeInv'
  <2>1. CASE locks[job[w].id] = None
    <3>. DEFINE locked == [job[w] EXCEPT !.valid = TRUE]
    <3>0. locked \in Jobs /\ locked.rec = job[w].rec
      BY ValidJob
    <3>1. job' \in [Workers -> Jobs] /\ job'[w].rec = job[w].rec
      <4>1. job' = [job EXCEPT ![w] = locked]
        BY <1>12, <2>1 DEF LockIncident
      <4>. HIDE DEF locked
      <4>. QED  BY <3>0, <4>1
    <3>2. locks' \in [Ids -> Workers \cup {None}]
      BY <1>12, <2>1 DEF LockIncident
    <3>3. \A v \in Workers \ {w} : job'[v] = job[v] /\ pc'[v] = pc[v]
      BY <1>12, <2>1 DEF LockIncident
    <3>4. /\ pc' = [pc EXCEPT ![w] = "claude"]
          /\ UNCHANGED <<clock, records, opened, audited, creating, fired,
                         rung, crashes, calls>>
      BY <1>12, <2>1 DEF LockIncident
    <3>5. TypeOK'
      BY <3>1, <3>2, <3>4
    <3>6. LocalsSet'
      BY <1>12, <3>1, <3>3, <3>4 DEF LockIncident
    <3>. QED  BY <3>5, <3>6
  <2>2. CASE locks[job[w].id] # None
    BY <1>12, <2>2, IdleJobType DEF LockIncident
  <2>. QED  BY <2>1, <2>2
<1>13. ASSUME NEW w \in Workers, Recover(w) PROVE TypeInv'
  <2>1. job[w].rec \in Records /\ job[w].id \in Ids
    BY <1>13, DecisionType DEF Recover, Jobs
  <2>2. Transition(job[w].rec, "RECOVERED", TRUE) \in Records
    BY <2>1, TransitionType DEF Stages
  <2>3. /\ incidents' = [incidents EXCEPT ![job[w].id] =
                           Transition(job[w].rec, "RECOVERED", TRUE)]
        /\ pc' = [pc EXCEPT ![w] = "unlock_incident"]
        /\ UNCHANGED <<clock, active, tenant, opened, audited, leases, job,
                       fired, rung, crashes, calls>>
    BY <1>13 DEF Recover
  <2>4. TypeOK'
    BY <2>1, <2>2, <2>3
  <2>5. \A i \in Ids : incidents[i] # None => incidents'[i] # None
    BY <2>1, <2>2, <2>3, NoneFacts
  <2>6. LocalsSet'
    BY <1>13, <2>3, <2>5, <2>1 DEF Recover, Jobs
  <2>. QED  BY <2>4, <2>6
<1>14. ASSUME NEW w \in Workers, LeaveIncident(w) PROVE TypeInv'
  BY <1>14 DEF LeaveIncident
<1>15. ASSUME NEW w \in Workers, NEW gateMet \in BOOLEAN,
              NEW canEscalate \in BOOLEAN, Advance(w, gateMet, canEscalate)
       PROVE  TypeInv'
  <2>. DEFINE d      == Decision(w)
              moved  == Transition(job[w].rec, d.next, gateMet)
              tokens == ~job[w].tenant.shadow /\ "GENERATE_TOKEN" \in Range(d.actions)
              result == IF tokens THEN [moved EXCEPT !.token = clock] ELSE moved
  <2>1. job[w].rec \in Records /\ job[w].id \in Ids /\ d.next \in Stages
    BY <1>15, DecisionType DEF Advance, Shadowed, Jobs
  <2>2. moved \in Records
    BY <2>1, TransitionType
  <2>3. result \in Records
    BY <2>2 DEF Records
  <2>4. result.stage \in Stages /\ result.token \in Time \cup {None}
    BY <2>3 DEF Records
  <2>5. Firings(job[w].id, result.stage, d.actions, job[w].rec.token, result.token)
          \subseteq Fires
    BY <2>1, <2>4, FiringsType DEF Records
  <2>6. rung' \in [Ids -> Nat]
    <3>1. rung' = rung \/ rung' = [rung EXCEPT ![job[w].id] = @ + 1]
      BY <1>15 DEF Advance, Shadowed
    <3>2. rung[job[w].id] + 1 \in Nat
      BY <2>1
    <3>. QED  BY <3>1, <3>2
  <2>7. /\ incidents' = [incidents EXCEPT ![job[w].id] = result]
        /\ job' = [job EXCEPT ![w].rec = result, ![w].next = d.next]
        /\ pc' = [pc EXCEPT ![w] = "audit"]
        /\ UNCHANGED <<clock, active, tenant, opened, leases, crashes, calls>>
    BY <1>15 DEF Advance, Shadowed
  <2>8. fired' \subseteq Fires
    BY <1>15, <2>5 DEF Advance, Shadowed
  <2>9. audited' \subseteq Ids \X Stages \X {"pipeline", "shadow_mode"}
    BY <1>15, <2>1, <2>4 DEF Advance, Shadowed, Suppressed
  <2>10. NoStage \notin Stages
    BY DEF Stages, NoStage
  <2>11. job' \in [Workers -> Jobs]
    <3>1. [job[w] EXCEPT !.rec = result, !.next = d.next] \in Jobs
      <4>. HIDE DEF d, result
      <4>. QED  BY <2>1, <2>3 DEF Jobs
    <3>2. job' = [job EXCEPT ![w] = [@ EXCEPT !.rec = result, !.next = d.next]]
      BY <2>7
    <3>. QED  BY <3>1, <3>2
  <2>. HIDE DEF d, result
  <2>. QED  BY <2>1, <2>3, <2>6, <2>7, <2>8, <2>9, <2>10, <2>11, NoneFacts
<1>16. ASSUME NEW w \in Workers, AuditTransition(w) PROVE TypeInv'
  BY <1>16 DEF AuditTransition, Jobs
<1>17. ASSUME NEW w \in Workers, NEW canEscalate \in BOOLEAN,
              Voice(w, canEscalate)
       PROVE  TypeInv'
  <2>. DEFINE noted == [job[w].rec EXCEPT !.voice = TRUE]
  <2>1. /\ job[w].rec \in Records
        /\ job[w].id \in Ids
        /\ job[w].next \in Stages
    BY <1>17 DEF Voice, Jobs
  <2>2. noted \in Records
    BY <2>1 DEF Records
  <2>3. CASE EscalateAs(w, "VOICE", noted)
    <3>1. /\ pc' = [pc EXCEPT ![w] = "secondary"]
          /\ UNCHANGED <<clock, active, tenant, opened, leases, rung, crashes, calls>>
      BY <1>17 DEF Voice
    <3>. HIDE DEF noted
    <3>2. /\ incidents' \in [Ids -> Records \cup {None}]
          /\ \A i \in Ids : incidents[i] # None => incidents'[i] # None
          /\ job' \in [Workers -> Jobs]
          /\ \A v \in Workers : /\ job[v].rec # None => job'[v].rec # None
                                /\ job'[v].next = job[v].next
                                /\ job'[v].id = job[v].id
          /\ audited' \subseteq Ids \X Stages \X {"pipeline", "shadow_mode"}
          /\ fired' \subseteq Fires
      BY <2>1, <2>2, <2>3, EscalateKeepsTypes
    <3>3. TypeOK'
      BY <3>1, <3>2
    <3>4. LocalsSet'
      BY <1>17, <2>1, <3>1, <3>2 DEF Voice, Jobs
    <3>. QED  BY <3>3, <3>4
  <2>4. CASE UNCHANGED <<incidents, job, audited, fired>>
    BY <1>17, <2>4 DEF Voice
  <2>. QED  BY <1>17, <2>3, <2>4 DEF Voice
<1>18. ASSUME NEW w \in Workers, NEW canEscalate \in BOOLEAN,
              Secondary(w, canEscalate)
       PROVE  TypeInv'
  <2>. DEFINE noted == [job[w].rec EXCEPT !.secondary = TRUE]
  <2>1. /\ job[w].rec \in Records
        /\ job[w].id \in Ids
        /\ job[w].next \in Stages
    BY <1>18 DEF Secondary, Jobs
  <2>2. noted \in Records
    BY <2>1 DEF Records
  <2>3. CASE EscalateAs(w, "SECONDARY", noted)
    <3>1. /\ pc' = [pc EXCEPT ![w] = "unlock_incident"]
          /\ UNCHANGED <<clock, active, tenant, opened, leases, rung, crashes, calls>>
      BY <1>18 DEF Secondary
    <3>. HIDE DEF noted
    <3>2. /\ incidents' \in [Ids -> Records \cup {None}]
          /\ \A i \in Ids : incidents[i] # None => incidents'[i] # None
          /\ job' \in [Workers -> Jobs]
          /\ \A v \in Workers : /\ job[v].rec # None => job'[v].rec # None
                                /\ job'[v].next = job[v].next
                                /\ job'[v].id = job[v].id
          /\ audited' \subseteq Ids \X Stages \X {"pipeline", "shadow_mode"}
          /\ fired' \subseteq Fires
      BY <2>1, <2>2, <2>3, EscalateKeepsTypes
    <3>3. TypeOK'
      BY <3>1, <3>2
    <3>4. LocalsSet'
      BY <1>18, <2>1, <3>1, <3>2 DEF Secondary, Jobs
    <3>. QED  BY <3>3, <3>4
  <2>4. CASE UNCHANGED <<incidents, job, audited, fired>>
    BY <1>18, <2>4 DEF Secondary
  <2>. QED  BY <1>18, <2>3, <2>4 DEF Secondary
<1>19. ASSUME NEW w \in Workers, UnlockIncident(w) PROVE TypeInv'
  BY <1>19, IdleJobType DEF UnlockIncident
<1>20. CASE Expiry
  BY <1>20 DEF Expiry, CreationLockExpires, IncidentLockExpires, ActiveExpires
<1>21. ASSUME NEW w \in Workers, RenewFails(w) PROVE TypeInv'
  BY <1>21 DEF RenewFails, Jobs
<1>22. ASSUME NEW w \in Workers, Crash(w) PROVE TypeInv'
  BY <1>22, IdleJobType DEF Crash
<1>23. CASE EnableShadow \/ DisableShadow
  <2>1. ASSUME NEW on \in BOOLEAN, SetShadow(on) PROVE TypeInv'
    <3>1. tenant' \in TenantRecords
      BY <2>1 DEF SetShadow, TenantRecords
    <3>. QED  BY <2>1, <3>1 DEF SetShadow
  <2>. QED  BY <1>23, <2>1 DEF EnableShadow, DisableShadow
<1>24. CASE Tick
  BY <1>24, LoopAssumption DEF Tick, Time
<1>25. CASE UNCHANGED vars
  BY <1>25 DEF vars
<1>. QED
  BY <1>1, <1>2, <1>3, <1>4, <1>5, <1>6, <1>7, <1>8, <1>9, <1>10, <1>11, <1>12,
     <1>13, <1>14, <1>15, <1>16, <1>17, <1>18, <1>19, <1>20, <1>21, <1>22, <1>23,
     <1>24, <1>25
  DEF Next, Pass, Create, Process, Environment

(* Type correctness of IncidentLoop: in every behaviour the records in Redis,  *)
(* the leases, the audit log and the locals of the passes keep their types.    *)
THEOREM TypeCorrect == Spec => []TypeOK
<1>1. Spec => []TypeInv
  BY InitTypeInv, NextTypeInv, PTL DEF Spec
<1>2. TypeInv => TypeOK
  BY DEF TypeInv
<1>. QED  BY <1>1, <1>2, PTL

-------------------------------------------------------------------------------
(* The leases: while no live process loses one, the blocks of a lock exclude   *)
(* each other and no incident becomes active while another is being opened.    *)

(* At first nobody is inside a lock's block.                                   *)
LEMMA InitLeases == Init => LeasesHeld /\ ActiveFree
BY DEF Init, LeasesHeld, ActiveFree, InCreation, InProcessing

(* With no lease lost under a live process, every step leaves each process in  *)
(* a lock's block with the key, and the active key free until SetActive.       *)
LEMMA NextLeases ==
  ASSUME TypeInv, LeasesHeld, ActiveFree, ~Faults, [Next]_vars
  PROVE  LeasesHeld' /\ ActiveFree'
<1>. USE DEF TypeInv, TypeOK, LeasesHeld, ActiveFree, Goto, Finish, records,
             leases, InProcessing, InCreation
<1>1. ASSUME NEW w \in Workers, Poll(w) PROVE LeasesHeld' /\ ActiveFree'
  BY <1>1 DEF Poll, Jobs
<1>2. ASSUME NEW w \in Workers, FetchFails(w) PROVE LeasesHeld' /\ ActiveFree'
  BY <1>2 DEF FetchFails
<1>3. ASSUME NEW w \in Workers, NEW h \in HealthReadings, Fetched(w, h)
      PROVE  LeasesHeld' /\ ActiveFree'
  <2>1. pc'[w] \in {"idle", "lock_create", "lock_incident"}
    BY <1>3 DEF Fetched
  <2>2. \A v \in Workers \ {w} : job'[v] = job[v] /\ pc'[v] = pc[v]
    BY <1>3 DEF Fetched
  <2>. QED  BY <1>3, <2>1, <2>2 DEF Fetched
<1>4. ASSUME NEW w \in Workers, LockCreation(w) PROVE LeasesHeld' /\ ActiveFree'
  <2>1. \A v \in Workers : job'[v].id = job[v].id \/ pc'[v] = "idle"
    BY <1>4 DEF LockCreation, Jobs
  <2>. QED  BY <1>4, <2>1, NoneFacts DEF LockCreation
<1>5. ASSUME NEW w \in Workers, RecheckAndClaim(w)
      PROVE  LeasesHeld' /\ ActiveFree'
  BY <1>5, CurrentIncidentType DEF RecheckAndClaim
<1>6. ASSUME NEW w \in Workers, ClaudeOnCreation(w)
      PROVE  LeasesHeld' /\ ActiveFree'
  BY <1>6 DEF ClaudeOnCreation
<1>7. ASSUME NEW w \in Workers, SaveNewIncident(w)
      PROVE  LeasesHeld' /\ ActiveFree'
  BY <1>7 DEF SaveNewIncident
<1>8. ASSUME NEW w \in Workers, SetActive(w) PROVE LeasesHeld' /\ ActiveFree'
  BY <1>8 DEF SetActive
<1>9. ASSUME NEW w \in Workers, SaveTenant(w) PROVE LeasesHeld' /\ ActiveFree'
  BY <1>9 DEF SaveTenant
<1>10. ASSUME NEW w \in Workers, AuditNewIncident(w)
       PROVE  LeasesHeld' /\ ActiveFree'
  BY <1>10 DEF AuditNewIncident
<1>11. ASSUME NEW w \in Workers, UnlockCreation(w)
       PROVE  LeasesHeld' /\ ActiveFree'
  BY <1>11 DEF UnlockCreation
<1>12. ASSUME NEW w \in Workers, LockIncident(w) PROVE LeasesHeld' /\ ActiveFree'
  <2>1. job[w].id \in Ids /\ w # None
    BY NoneFacts DEF Jobs
  <2>2. /\ \A v \in Workers \ {w} : job'[v] = job[v] /\ pc'[v] = pc[v]
        /\ active' = active /\ creating' = creating
    BY <1>12 DEF LockIncident
  <2>3. CASE locks[job[w].id] = None
    <3>1. /\ pc'[w] = "claude"
          /\ job'[w].id = job[w].id
          /\ locks' = [locks EXCEPT ![job[w].id] = w]
      BY <1>12, <2>3 DEF LockIncident, Jobs
    <3>2. \A v \in Workers \ {w} :
            pc[v] \in InProcessing => locks'[job[v].id] = locks[job[v].id]
      BY <2>1, <2>3, <3>1, NoneFacts DEF Jobs
    <3>. QED  BY <2>1, <2>2, <3>1, <3>2
  <2>4. CASE locks[job[w].id] # None
    <3>1. pc'[w] = "idle" /\ locks' = locks
      BY <1>12, <2>4 DEF LockIncident
    <3>. QED  BY <2>2, <3>1
  <2>. QED  BY <2>3, <2>4
<1>13. ASSUME NEW w \in Workers, Recover(w) \/ LeaveIncident(w) \/ AuditTransition(w)
       PROVE  LeasesHeld' /\ ActiveFree'
  BY <1>13 DEF Recover, LeaveIncident, AuditTransition
<1>14. ASSUME NEW w \in Workers, NEW gateMet \in BOOLEAN,
              NEW canEscalate \in BOOLEAN, Advance(w, gateMet, canEscalate)
       PROVE  LeasesHeld' /\ ActiveFree'
  <2>1. \A v \in Workers : job'[v].id = job[v].id
    BY <1>14 DEF Advance, Jobs
  <2>. QED  BY <1>14, <2>1 DEF Advance
<1>15. ASSUME NEW w \in Workers, NEW canEscalate \in BOOLEAN,
              Voice(w, canEscalate) \/ Secondary(w, canEscalate)
       PROVE  LeasesHeld' /\ ActiveFree'
  <2>1. \A v \in Workers : job'[v].id = job[v].id
    BY <1>15 DEF Voice, Secondary, EscalateAs, Jobs
  <2>. QED  BY <1>15, <2>1 DEF Voice, Secondary
<1>16. ASSUME NEW w \in Workers, UnlockIncident(w)
       PROVE  LeasesHeld' /\ ActiveFree'
  <2>1. job[w].id \in Ids
    BY DEF Jobs
  <2>2. \A v \in Workers \ {w} : job'[v] = job[v] /\ pc'[v] = pc[v]
    BY <1>16 DEF UnlockIncident
  <2>3. pc'[w] = "idle"
    BY <1>16 DEF UnlockIncident
  <2>4. \A i \in Ids : locks[i] # w => locks'[i] = locks[i]
    BY <1>16, <2>1 DEF UnlockIncident
  <2>. QED  BY <1>16, <2>2, <2>3, <2>4 DEF UnlockIncident, Jobs
<1>17. CASE CreationLockExpires \/ ActiveExpires
  BY <1>17 DEF CreationLockExpires, ActiveExpires
<1>18. ASSUME NEW i \in Ids, IncidentLockExpires(i)
       PROVE  LeasesHeld' /\ ActiveFree'
  BY <1>18 DEF IncidentLockExpires, Processing, Jobs
<1>19. ASSUME NEW w \in Workers, RenewFails(w) PROVE LeasesHeld' /\ ActiveFree'
  BY <1>19 DEF RenewFails
<1>20. ASSUME NEW w \in Workers, Crash(w) PROVE LeasesHeld' /\ ActiveFree'
  BY <1>20 DEF Crash
<1>21. CASE EnableShadow \/ DisableShadow \/ Tick
  BY <1>21 DEF EnableShadow, DisableShadow, SetShadow, Tick
<1>22. CASE UNCHANGED vars
  BY <1>22 DEF vars
<1>. QED
  BY <1>1, <1>2, <1>3, <1>4, <1>5, <1>6, <1>7, <1>8, <1>9, <1>10, <1>11, <1>12,
     <1>13, <1>14, <1>15, <1>16, <1>17, <1>18, <1>19, <1>20, <1>21, <1>22
  DEF Next, Pass, Create, Process, Expiry, Environment

(* The inductive invariant of the runs holds for every instance.               *)
THEOREM LoopInvCorrect == Spec => []LoopInv
<1>1. LoopInv /\ TypeOK <=> TypeInv /\ (~Faults => LeasesHeld /\ ActiveFree)
  BY DEF LoopInv, TypeInv
<1>2. Init => TypeInv /\ (~Faults => LeasesHeld /\ ActiveFree)
  BY InitTypeInv, InitLeases
<1>3. /\ TypeInv /\ (~Faults => LeasesHeld /\ ActiveFree)
      /\ [Next]_vars
      => TypeInv' /\ (~Faults => LeasesHeld /\ ActiveFree)'
  BY NextTypeInv, NextLeases
<1>. QED  BY <1>1, <1>2, <1>3, PTL DEF Spec

(* lock.py's guarantee: while no live process outlives its lease, at most one *)
(* process works on an incident, and at most one opens one, whatever crashes. *)
THEOREM OneOwnerCorrect == ASSUME ~Faults PROVE Spec => []OneOwner
<1>1. LoopInv => OneOwner
  BY DEF LoopInv, LeasesHeld, OneOwner, Processing
<1>. QED  BY <1>1, LoopInvCorrect, PTL

(* Under the same condition an open incident never displaces another one from *)
(* the tenant's active key, for any number of orchestrator processes.         *)
THEOREM ActiveKeyCorrect == ASSUME ~Faults PROVE Spec => ActiveNeverReplaced
<1>1. LoopInv /\ [Next]_vars
        => [active' # active => active = None \/ active' = None]_vars
  <2>. SUFFICES ASSUME LoopInv, [Next]_vars, active' # active
                PROVE  active = None \/ active' = None
    OBVIOUS
  <2>1. ASSUME NEW w \in Workers, SetActive(w) PROVE active = None
    BY <2>1 DEF SetActive, LoopInv, ActiveFree
  <2>2. CASE ActiveExpires
    BY <2>2 DEF ActiveExpires
  <2>3. ASSUME NEW w \in Workers, Create(w), ~SetActive(w) PROVE FALSE
    BY <2>3 DEF Create, LockCreation, RecheckAndClaim, ClaudeOnCreation,
       SaveNewIncident, SaveTenant, AuditNewIncident, UnlockCreation, records
  <2>4. ASSUME NEW w \in Workers, Process(w) PROVE FALSE
    BY <2>4 DEF Process, LockIncident, Recover, LeaveIncident, Advance,
       AuditTransition, Voice, Secondary, UnlockIncident, records
  <2>5. ASSUME NEW w \in Workers, Poll(w) \/ FetchFails(w) PROVE FALSE
    BY <2>5 DEF Poll, FetchFails, records
  <2>6. ASSUME NEW w \in Workers, NEW h \in HealthReadings, Fetched(w, h)
        PROVE  FALSE
    BY <2>6 DEF Fetched, records
  <2>7. ASSUME CreationLockExpires \/ \E i \in Ids : IncidentLockExpires(i)
        PROVE  FALSE
    BY <2>7 DEF CreationLockExpires, IncidentLockExpires, records
  <2>8. ASSUME Environment PROVE FALSE
    BY <2>8 DEF Environment, RenewFails, Crash, EnableShadow, DisableShadow,
       SetShadow, Tick, records
  <2>9. CASE UNCHANGED vars
    BY <2>9 DEF vars, records
  <2>. QED
    BY <2>1, <2>2, <2>3, <2>4, <2>5, <2>6, <2>7, <2>8, <2>9
    DEF Next, Pass, Expiry
<1>. QED  BY <1>1, LoopInvCorrect, PTL DEF Spec, ActiveNeverReplaced

-------------------------------------------------------------------------------
(* Shadow mode.                                                               *)

(* Until its API is called every pass reads the flag the tenant began with;    *)
(* then nothing is fired and no token made for a tenant in shadow mode.        *)
Silent ==
  calls = 0 =>
    /\ \A w \in Workers : pc[w] # "idle" => job[w].tenant.shadow = tenant.shadow
    /\ tenant.shadow =>
         /\ fired = {}
         /\ \A i \in Ids : rung[i] = 0
         /\ \A i \in Ids : incidents[i] # None => incidents[i].token = None
         /\ \A w \in Workers : job[w].rec # None => job[w].rec.token = None

(* transition() sets the stage and adds it to the history, or does nothing.    *)
LEMMA TransitionFacts ==
  ASSUME NEW record \in Records, NEW target \in Stages, NEW gateMet \in BOOLEAN,
         NEW y, y = Transition(record, target, gateMet)
  PROVE  /\ y \in Records
         /\ y.voice = record.voice /\ y.secondary = record.secondary
         /\ y.token = record.token /\ y.started = record.started
         /\ IF CanTransition(record.stage, target, gateMet)
            THEN y.stage = target /\ y.history = record.history \cup {target}
            ELSE y.stage = record.stage /\ y.history = record.history
BY DEF Transition, Records

(* The actions decided with a stage: a recovery link is made and then sent     *)
(* with VALIDATED only, and the engineer is called with AUTHORIZED only.       *)
LEMMA DecisionFacts ==
  ASSUME NEW w \in Workers
  PROVE  LET acts == Decision(w).actions
             next == Decision(w).next
         IN  /\ Range(acts) \cap {"VOICE", "SECONDARY"} = {}
             /\ "GENERATE_TOKEN" \in Range(acts) <=> next = "VALIDATED"
             /\ "ESCALATE" \in Range(acts) <=> next = "AUTHORIZED"
             /\ \A n \in DOMAIN acts :
                  acts[n] = "SEND_VALIDATION" =>
                    /\ next = "VALIDATED"
                    /\ \E m \in DOMAIN acts : m < n /\ acts[m] = "GENERATE_TOKEN"
<1>1. PICK next : next = Decision(w).next /\ Decision(w).actions = StageActions(next)
  BY DEF Decision, Decide
<1>2. CASE next = "RECOVERED"
  BY <1>1, <1>2 DEF StageActions, Range
<1>3. CASE next = "PROPOSED"
  BY <1>1, <1>3 DEF StageActions, Range
<1>4. CASE next = "VALIDATED"
  BY <1>1, <1>4 DEF StageActions, Range
<1>5. CASE next = "AUTHORIZED"
  BY <1>1, <1>5 DEF StageActions, Range
<1>6. CASE next \notin {"RECOVERED", "PROPOSED", "VALIDATED", "AUTHORIZED"}
  BY <1>1, <1>6 DEF StageActions, Range
<1>. QED  BY <1>2, <1>3, <1>4, <1>5, <1>6

(* What a firing for an incident is: a message of the list, with the token     *)
(* made before its turn.                                                      *)
LEMMA FiringsFacts ==
  ASSUME NEW id, NEW stage, NEW actions, NEW stored, NEW made,
         NEW f \in Firings(id, stage, actions, stored, made)
  PROVE  \E n \in DOMAIN actions :
           /\ f.key[1] = id
           /\ f.key[3] = actions[n]
           /\ (\E m \in DOMAIN actions : m < n /\ actions[m] = "GENERATE_TOKEN")
                => f.token = made
BY DEF Firings

(* What Advance saves, keeps and fires.                                       *)
Advanced(w, gateMet) ==
  LET r == job[w].rec
      x == job'[w].rec
      next == Decision(w).next
  IN
  /\ pc[w] = "claude" /\ pc' = [pc EXCEPT ![w] = "audit"]
  /\ r \in Records /\ x \in Records /\ job[w].id \in Ids /\ next \in Stages
  /\ job'[w].id = job[w].id /\ job'[w].next = next
  /\ job'[w].tenant = job[w].tenant
  /\ incidents' = [incidents EXCEPT ![job[w].id] = x]
  /\ x.voice = r.voice /\ x.secondary = r.secondary /\ x.started = r.started
  /\ IF CanTransition(r.stage, next, gateMet)
     THEN x.stage = next /\ x.history = r.history \cup {next}
     ELSE x.stage = r.stage /\ x.history = r.history
  /\ IF job[w].tenant.shadow
     THEN x.token = r.token /\ fired' = fired
     ELSE /\ x.token = IF next = "VALIDATED" THEN clock ELSE r.token
          /\ fired \subseteq fired'
          /\ \A f \in fired' \ fired :
               /\ f.key[1] = job[w].id
               /\ f.key[3] \notin {"VOICE", "SECONDARY"}
               /\ f.key[3] = "SEND_VALIDATION" => next = "VALIDATED" /\ f.token = x.token
  /\ \/ rung' = rung
     \/ /\ ~job[w].tenant.shadow
        /\ next = "AUTHORIZED"
        /\ rung' = [rung EXCEPT ![job[w].id] = @ + 1]
  /\ audited \subseteq audited'
  /\ \A e \in audited' \ audited : e[3] = "shadow_mode"

LEMMA AdvanceFacts ==
  ASSUME TypeInv, NEW w \in Workers, NEW gateMet \in BOOLEAN, NEW canEscalate \in BOOLEAN,
         Advance(w, gateMet, canEscalate)
  PROVE  Advanced(w, gateMet) /\ (Decision(w).next \notin Gated => gateMet)
<1>. DEFINE next   == Decision(w).next
            acts   == Decision(w).actions
            shadow == job[w].tenant.shadow
            moved  == Transition(job[w].rec, next, gateMet)
            tokens == ~shadow /\ "GENERATE_TOKEN" \in Range(acts)
            result == IF tokens THEN [moved EXCEPT !.token = clock] ELSE moved
<1>1. /\ job[w].rec \in Records /\ job[w].id \in Ids /\ next \in Stages
      /\ job \in [Workers -> Jobs] /\ job[w] \in Jobs
      /\ pc[w] = "claude" /\ pc' = [pc EXCEPT ![w] = "audit"]
      /\ clock \in Time /\ shadow \in BOOLEAN
  BY DecisionType DEF Advance, TypeInv, TypeOK, LocalsSet, InProcessing, Jobs, Goto, TenantRecords
<1>2. /\ moved \in Records
      /\ moved.voice = job[w].rec.voice /\ moved.secondary = job[w].rec.secondary
      /\ moved.token = job[w].rec.token /\ moved.started = job[w].rec.started
      /\ IF CanTransition(job[w].rec.stage, next, gateMet)
         THEN moved.stage = next /\ moved.history = job[w].rec.history \cup {next}
         ELSE moved.stage = job[w].rec.stage /\ moved.history = job[w].rec.history
  BY <1>1, TransitionFacts
<1>3. /\ Range(acts) \cap {"VOICE", "SECONDARY"} = {}
      /\ "GENERATE_TOKEN" \in Range(acts) <=> next = "VALIDATED"
      /\ "ESCALATE" \in Range(acts) <=> next = "AUTHORIZED"
      /\ \A n \in DOMAIN acts :
           acts[n] = "SEND_VALIDATION" =>
             /\ next = "VALIDATED"
             /\ \E m \in DOMAIN acts : m < n /\ acts[m] = "GENERATE_TOKEN"
  BY DecisionFacts
<1>4. /\ job' = [job EXCEPT ![w].rec = result, ![w].next = next]
      /\ incidents' = [incidents EXCEPT ![job[w].id] = result]
      /\ IF ~shadow
         THEN /\ fired' = fired \cup Firings(job[w].id, result.stage, acts,
                                            job[w].rec.token, result.token)
              /\ \/ rung' = rung
                 \/ /\ "ESCALATE" \in Range(acts)
                    /\ rung' = [rung EXCEPT ![job[w].id] = @ + 1]
              /\ audited' = audited
         ELSE /\ fired' = fired /\ rung' = rung
              /\ audited' = IF acts = <<>> THEN audited
                            ELSE audited \cup Suppressed(job[w].id, result.stage)
      /\ next \notin Gated => gateMet
  BY DEF Advance, Shadowed
<1>. HIDE DEF moved, next, acts
<1>5. /\ result \in Records
      /\ result.voice = moved.voice /\ result.secondary = moved.secondary
      /\ result.stage = moved.stage /\ result.history = moved.history
      /\ result.started = moved.started
      /\ result.token = IF ~shadow /\ next = "VALIDATED" THEN clock ELSE moved.token
  BY <1>1, <1>2, <1>3 DEF Records
<1>. HIDE DEF result
<1>6. /\ job'[w].rec = result /\ job'[w].id = job[w].id /\ job'[w].next = next
      /\ job'[w].tenant = job[w].tenant
  BY <1>1, <1>4 DEF Jobs
<1>7. ASSUME ~shadow, NEW f \in fired' \ fired
      PROVE  /\ f.key[1] = job[w].id
             /\ f.key[3] \notin {"VOICE", "SECONDARY"}
             /\ f.key[3] = "SEND_VALIDATION" => next = "VALIDATED" /\ f.token = result.token
  <2>1. PICK n \in DOMAIN acts :
               /\ f.key[1] = job[w].id
               /\ f.key[3] = acts[n]
               /\ (\E m \in DOMAIN acts : m < n /\ acts[m] = "GENERATE_TOKEN")
                    => f.token = result.token
    BY <1>4, <1>7, FiringsFacts
  <2>. QED  BY <1>3, <2>1 DEF Range
<1>8. \A e \in audited' \ audited : e[3] = "shadow_mode"
  BY <1>4 DEF Suppressed
<1>9. shadow => result.token = job[w].rec.token
  BY <1>2, <1>5
<1>10. fired \subseteq fired' /\ audited \subseteq audited'
  BY <1>4
<1>11. \/ rung' = rung
       \/ /\ ~shadow
          /\ next = "AUTHORIZED"
          /\ rung' = [rung EXCEPT ![job[w].id] = @ + 1]
  BY <1>3, <1>4
<1>. QED
  BY <1>1, <1>2, <1>4, <1>5, <1>6, <1>7, <1>8, <1>9, <1>10, <1>11 DEF Advanced, next

(* What an escalation saves, keeps and fires; no escalation changes nothing.   *)
Escalated(w, kind) ==
  LET r == job[w].rec
      x == job'[w].rec
  IN
  /\ r \in Records /\ x \in Records /\ job[w].id \in Ids
  /\ job'[w].id = job[w].id /\ job'[w].next = job[w].next
  /\ job'[w].tenant = job[w].tenant
  /\ incidents' = [incidents EXCEPT ![job[w].id] = x]
  /\ x.stage = r.stage /\ x.history = r.history /\ x.token = r.token /\ x.started = r.started
  /\ IF kind = "VOICE" THEN ~r.voice /\ x.voice /\ x.secondary = r.secondary
     ELSE ~r.secondary /\ x.secondary /\ x.voice = r.voice
  /\ IF job[w].tenant.shadow THEN fired' = fired
     ELSE fired' = fired \cup {[key |-> <<job[w].id, job[w].next, kind>>, token |-> None]}
  /\ audited \subseteq audited'
  /\ \A e \in audited' \ audited : e[3] = "shadow_mode"

LEMMA EscalateFacts ==
  ASSUME TypeInv, NEW w \in Workers, NEW canEscalate \in BOOLEAN,
         NEW kind \in {"VOICE", "SECONDARY"},
         IF kind = "VOICE" THEN Voice(w, canEscalate) ELSE Secondary(w, canEscalate)
  PROVE  Escalated(w, kind) \/ UNCHANGED <<incidents, job, audited, fired>>
<1>1. /\ job[w].rec \in Records /\ job[w].id \in Ids
      /\ job \in [Workers -> Jobs] /\ job[w] \in Jobs
  BY DecisionType DEF Voice, Secondary, TypeInv, TypeOK, LocalsSet, InProcessing, Jobs
<1>2. PICK x : x = IF kind = "VOICE" THEN [job[w].rec EXCEPT !.voice = TRUE]
                   ELSE [job[w].rec EXCEPT !.secondary = TRUE]
  OBVIOUS
<1>3. /\ x \in Records
      /\ x.stage = job[w].rec.stage /\ x.history = job[w].rec.history
      /\ x.token = job[w].rec.token /\ x.started = job[w].rec.started
      /\ IF kind = "VOICE" THEN x.voice /\ x.secondary = job[w].rec.secondary
         ELSE x.secondary /\ x.voice = job[w].rec.voice
  BY <1>1, <1>2 DEF Records
<1>4. \/ /\ EscalateAs(w, kind, x)
         /\ IF kind = "VOICE" THEN ~job[w].rec.voice ELSE ~job[w].rec.secondary
      \/ UNCHANGED <<incidents, job, audited, fired>>
  BY <1>2 DEF Voice, Secondary
<1>5. ASSUME EscalateAs(w, kind, x),
             IF kind = "VOICE" THEN ~job[w].rec.voice ELSE ~job[w].rec.secondary
      PROVE  Escalated(w, kind)
  <2>1. /\ job' = [job EXCEPT ![w].rec = x]
        /\ incidents' = [incidents EXCEPT ![job[w].id] = x]
        /\ IF job[w].tenant.shadow
           THEN audited' = audited \cup Suppressed(job[w].id, job[w].next) /\ fired' = fired
           ELSE /\ fired' = fired \cup Firings(job[w].id, job[w].next, <<kind>>, None, None)
                /\ audited' = audited
    BY <1>5 DEF EscalateAs, Shadowed
  <2>2. /\ job'[w].rec = x /\ job'[w].id = job[w].id /\ job'[w].next = job[w].next
        /\ job'[w].tenant = job[w].tenant
    BY <1>1, <2>1 DEF Jobs
  <2>3. Firings(job[w].id, job[w].next, <<kind>>, None, None) =
          {[key |-> <<job[w].id, job[w].next, kind>>, token |-> None]}
    BY DEF Firings, Messages
  <2>4. audited \subseteq audited' /\ \A e \in audited' \ audited : e[3] = "shadow_mode"
    BY <2>1 DEF Suppressed
  <2>. QED  BY <1>1, <1>3, <1>5, <2>1, <2>2, <2>3, <2>4 DEF Escalated
<1>. QED  BY <1>4, <1>5

-------------------------------------------------------------------------------
(* The steps, sorted by what they write.  Most steps of a pass write nothing   *)
(* but leases, the active key, an idempotency marker and the pass's locals.    *)

OthersStay(w) ==
  /\ pc' = [pc EXCEPT ![w] = pc'[w]]
  /\ \A v \in Workers \ {w} : pc'[v] = pc[v] /\ job'[v] = job[v]

(* The pass goes on, with the tenant, id, record and next stage it had.        *)
Keeps(w) == /\ job'[w].tenant = job[w].tenant
            /\ job'[w].id = job[w].id
            /\ job'[w].rec = job[w].rec
            /\ job'[w].next = job[w].next

Quiet(w) ==
  \/ Poll(w) \/ FetchFails(w) \/ (\E h \in HealthReadings : Fetched(w, h))
  \/ LockCreation(w) \/ RecheckAndClaim(w) \/ ClaudeOnCreation(w) \/ SetActive(w)
  \/ UnlockCreation(w) \/ LockIncident(w) \/ LeaveIncident(w) \/ UnlockIncident(w)
  \/ RenewFails(w) \/ Crash(w)

(* What a quiet step of a pass does to the pass.                               *)
Moved(w) ==
  /\ OthersStay(w)
  /\ UNCHANGED <<incidents, tenant, audited, fired, rung, calls>>
  /\ opened \subseteq opened'
  /\ crashes' = 0 => crashes = 0
  /\ \/ /\ pc'[w] = "idle" /\ job'[w] = IdleJob
        /\ \/ crashes' # 0
           \/ pc[w] \notin {"set_active", "save_tenant", "audit_new", "audit"}
     \/ pc[w] = "idle" /\ pc'[w] = "fetch" /\ job'[w].tenant = tenant /\ job'[w].rec = job[w].rec
     \/ /\ pc[w] = "fetch" /\ pc'[w] = "lock_create"
        /\ job'[w].tenant = job[w].tenant /\ job'[w].rec = job[w].rec
     \/ /\ pc[w] = "fetch" /\ pc'[w] = "lock_incident"
        /\ job'[w].tenant = job[w].tenant
        /\ active # None /\ job'[w].id = active /\ job'[w].rec = incidents[active]
     \/ /\ pc[w] = "recheck" /\ pc'[w] = "claude_create" /\ Keeps(w)
        /\ job[w].id \notin opened /\ opened' = opened \cup {job[w].id}
        /\ QuotaRemaining(job[w].tenant) # 0
     \/ pc[w] = "claude_create" /\ pc'[w] = "save_new" /\ Keeps(w)
     \/ pc[w] = "set_active" /\ pc'[w] = "save_tenant" /\ Keeps(w)
     \/ pc[w] = "lock_incident" /\ pc'[w] = "claude" /\ Keeps(w)
     \/ pc[w] # "idle" /\ pc'[w] = pc[w] /\ Keeps(w)
     \/ pc[w] = "lock_create" /\ pc'[w] = "recheck" /\ Keeps(w)
     \/ /\ pc[w] \in {"recheck", "claude_create", "claude"}
        /\ pc'[w] \in {"unlock_create", "unlock_incident"}
        /\ Keeps(w)

LEMMA QuietFacts ==
  ASSUME TypeInv, NEW w \in Workers, Quiet(w)
  PROVE  Moved(w)
<1>. USE DEF TypeInv, TypeOK, Goto, Finish, records, leases, OthersStay, Moved
<1>1. CASE Poll(w)
  BY <1>1 DEF Poll, Jobs
<1>2. CASE FetchFails(w)
  BY <1>2 DEF FetchFails
<1>3. ASSUME NEW h \in HealthReadings, Fetched(w, h) PROVE Moved(w)
  <2>1. CASE CurrentIncident = None /\ h.status # "critical"
    BY <1>3, <2>1 DEF Fetched
  <2>2. CASE CurrentIncident = None /\ h.status = "critical"
    BY <1>3, <2>2 DEF Fetched, Jobs
  <2>3. CASE CurrentIncident # None
    <3>1. active # None /\ CurrentIncident = incidents[active]
      BY <2>3 DEF CurrentIncident
    <3>. QED  BY <1>3, <2>3, <3>1 DEF Fetched, Jobs
  <2>. QED  BY <2>1, <2>2, <2>3
<1>4. CASE LockCreation(w)
  <2>1. CASE creating = None
    BY <1>4, <2>1 DEF LockCreation, Jobs, Keeps
  <2>2. CASE creating # None
    BY <1>4, <2>2 DEF LockCreation
  <2>. QED  BY <2>1, <2>2
<1>5. CASE RecheckAndClaim(w)
  <2>1. Keeps(w) /\ pc[w] = "recheck" /\ opened \subseteq opened'
    BY <1>5 DEF RecheckAndClaim, Keeps
  <2>2. CASE pc'[w] = "claude_create"
    <3>1. job[w].id \notin opened /\ opened' = opened \cup {job[w].id}
          /\ QuotaRemaining(job[w].tenant) # 0
      BY <1>5, <2>2 DEF RecheckAndClaim
    <3>. QED  BY <1>5, <2>1, <2>2, <3>1 DEF RecheckAndClaim
  <2>3. CASE pc'[w] # "claude_create"
    BY <1>5, <2>1, <2>3 DEF RecheckAndClaim
  <2>. QED  BY <2>2, <2>3
<1>6. CASE ClaudeOnCreation(w)
  BY <1>6 DEF ClaudeOnCreation, Keeps
<1>7. CASE SetActive(w)
  BY <1>7 DEF SetActive, Keeps
<1>8. CASE UnlockCreation(w)
  BY <1>8 DEF UnlockCreation
<1>9. CASE LockIncident(w)
  <2>1. CASE locks[job[w].id] = None
    BY <1>9, <2>1 DEF LockIncident, Jobs, Keeps
  <2>2. CASE locks[job[w].id] # None
    BY <1>9, <2>2 DEF LockIncident
  <2>. QED  BY <2>1, <2>2
<1>10. CASE LeaveIncident(w)
  BY <1>10 DEF LeaveIncident, Keeps
<1>11. CASE UnlockIncident(w)
  BY <1>11 DEF UnlockIncident
<1>12. CASE RenewFails(w)
  BY <1>12 DEF RenewFails, Keeps, Jobs
<1>13. CASE Crash(w)
  BY <1>13 DEF Crash
<1>. QED
  BY <1>1, <1>2, <1>3, <1>4, <1>5, <1>6, <1>7, <1>8, <1>9, <1>10, <1>11, <1>12,
     <1>13 DEF Quiet

(* What happens outside the passes: expiries, the shadow-mode API, the clock.  *)
Outside ==
  /\ UNCHANGED <<pc, job, incidents, audited, fired, rung, opened, crashes>>
  /\ tenant'.count = tenant.count
  /\ calls' = 0 => calls = 0 /\ tenant' = tenant

(* Every step is one of these.                                                *)
LEMMA StepCases ==
  ASSUME TypeInv, [Next]_vars
  PROVE  \/ Outside
         \/ \E w \in Workers :
              \/ Moved(w)
              \/ SaveNewIncident(w) \/ SaveTenant(w) \/ AuditNewIncident(w)
              \/ Recover(w) \/ AuditTransition(w)
              \/ \E gateMet, canEscalate \in BOOLEAN :
                   \/ Advance(w, gateMet, canEscalate)
                   \/ Voice(w, canEscalate) \/ Secondary(w, canEscalate)
<1>. USE DEF TypeInv, TypeOK
<1>1. CASE Expiry
  BY <1>1 DEF Expiry, CreationLockExpires, IncidentLockExpires, ActiveExpires,
     Outside, records, leases
<1>2. CASE EnableShadow \/ DisableShadow
  <2>1. ASSUME NEW on \in BOOLEAN, SetShadow(on) PROVE Outside
    BY <2>1 DEF SetShadow, Outside, TenantRecords
  <2>. QED  BY <1>2, <2>1 DEF EnableShadow, DisableShadow
<1>3. CASE Tick
  BY <1>3 DEF Tick, Outside, records, leases
<1>4. CASE UNCHANGED vars
  BY <1>4 DEF vars, Outside
<1>5. ASSUME NEW w \in Workers, Quiet(w) PROVE Moved(w)
  BY <1>5, QuietFacts
<1>. HIDE DEF TypeInv, TypeOK
<1>. QED
  BY <1>1, <1>2, <1>3, <1>4, <1>5
  DEF Next, Pass, Create, Process, Environment, Quiet

-------------------------------------------------------------------------------
(* Shadow mode: the step part of the invariant Silent.                         *)

LEMMA NextSilent == TypeInv /\ Silent /\ [Next]_vars => Silent'
<1>. SUFFICES ASSUME TypeInv, Silent, [Next]_vars PROVE Silent'
  OBVIOUS
<1>. SUFFICES ASSUME calls' = 0 PROVE Silent'
  BY DEF Silent
<1>1. CASE Outside
  BY <1>1 DEF Outside, Silent
<1>2. ASSUME NEW w \in Workers, Moved(w) PROVE Silent'
  <2>1. /\ calls = 0
        /\ UNCHANGED <<incidents, tenant, fired, rung>>
        /\ \A v \in Workers \ {w} : pc'[v] = pc[v] /\ job'[v] = job[v]
    BY <1>2 DEF Moved, OthersStay
  <2>2. pc'[w] # "idle" => job'[w].tenant.shadow = tenant.shadow
    BY <1>2, <2>1 DEF Moved, Keeps, Silent
  <2>3. \/ job'[w].rec = job[w].rec
        \/ job'[w].rec = None
        \/ active \in Ids /\ job'[w].rec = incidents[active]
    BY <1>2 DEF Moved, Keeps, IdleJob, TypeInv, TypeOK
  <2>4. tenant.shadow /\ job'[w].rec # None => job'[w].rec.token = None
    BY <2>1, <2>3 DEF Silent
  <2>. QED  BY <2>1, <2>2, <2>4 DEF Silent
<1>3. ASSUME NEW w \in Workers, SaveNewIncident(w) PROVE Silent'
  <2>1. /\ UNCHANGED <<tenant, fired, rung, job, calls>>
        /\ \A v \in Workers : pc'[v] # "idle" => pc[v] # "idle"
    BY <1>3 DEF SaveNewIncident, Goto, TypeInv, TypeOK
  <2>2. \A i \in Ids : incidents'[i] = incidents[i] \/ incidents'[i] = NewIncident(clock)
    BY <1>3 DEF SaveNewIncident, TypeInv, TypeOK
  <2>3. NewIncident(clock).token = None
    BY DEF NewIncident
  <2>. QED  BY <2>1, <2>2, <2>3 DEF Silent
<1>4. ASSUME NEW w \in Workers, SaveTenant(w) PROVE Silent'
  <2>1. /\ UNCHANGED <<incidents, fired, rung, job, calls>>
        /\ \A v \in Workers : pc'[v] # "idle" => pc[v] # "idle"
        /\ job[w].tenant \in TenantRecords
    BY <1>4 DEF SaveTenant, Goto, TypeInv, TypeOK, Jobs
  <2>2. tenant'.shadow = tenant.shadow
    BY <1>4, <2>1 DEF SaveTenant, Silent, TenantRecords
  <2>. QED  BY <2>1, <2>2 DEF Silent
<1>5. ASSUME NEW w \in Workers, AuditNewIncident(w) PROVE Silent'
  <2>1. /\ UNCHANGED <<incidents, tenant, rung, job, calls>>
        /\ \A v \in Workers : pc'[v] # "idle" => pc[v] # "idle"
        /\ job[w].tenant.shadow => UNCHANGED fired
        /\ pc[w] # "idle"
    BY <1>5 DEF AuditNewIncident, Goto, TypeInv, TypeOK, Shadowed, records
  <2>. QED  BY <2>1 DEF Silent
<1>6. ASSUME NEW w \in Workers, Recover(w) PROVE Silent'
  <2>1. /\ UNCHANGED <<fired, rung, tenant, job, calls>>
        /\ \A v \in Workers : pc'[v] # "idle" => pc[v] # "idle"
        /\ job[w].rec \in Records /\ job[w].rec # None
    BY <1>6, DecisionType DEF Recover, Goto, TypeInv, TypeOK, LocalsSet, InProcessing
  <2>2. PICK y : y = Transition(job[w].rec, "RECOVERED", TRUE)
    OBVIOUS
  <2>3. y.token = job[w].rec.token
    <3>1. "RECOVERED" \in Stages
      BY DEF Stages
    <3>. QED  BY <2>1, <2>2, <3>1, TransitionFacts
  <2>4. \A i \in Ids : incidents'[i] = incidents[i] \/ incidents'[i] = y
    BY <1>6, <2>2 DEF Recover, TypeInv, TypeOK
  <2>. QED  BY <2>1, <2>3, <2>4 DEF Silent
<1>7. ASSUME NEW w \in Workers, AuditTransition(w) PROVE Silent'
  BY <1>7 DEF AuditTransition, Goto, TypeInv, TypeOK, Silent, records
<1>8. ASSUME NEW w \in Workers, NEW gateMet \in BOOLEAN, NEW canEscalate \in BOOLEAN,
             Advance(w, gateMet, canEscalate)
      PROVE  Silent'
  <2>1. Advanced(w, gateMet)
    BY <1>8, AdvanceFacts
  <2>2. /\ UNCHANGED <<tenant, calls>>
        /\ \A v \in Workers \ {w} : pc'[v] = pc[v] /\ job'[v] = job[v]
        /\ job[w].rec # None
    <3>1. UNCHANGED <<tenant, calls>>
      BY <1>8 DEF Advance
    <3>2. \A v \in Workers \ {w} : job'[v] = job[v]
      BY <1>8 DEF Advance, TypeInv, TypeOK
    <3>3. job[w].rec # None /\ pc' = [pc EXCEPT ![w] = "audit"]
      BY <2>1, NoneFacts DEF Advanced
    <3>. QED  BY <3>1, <3>2, <3>3 DEF TypeInv, TypeOK
  <2>3. PICK x : x = job'[w].rec
    OBVIOUS
  <2>4. \A i \in Ids : incidents'[i] = incidents[i] \/ incidents'[i] = x
    BY <2>1, <2>3 DEF Advanced, TypeInv, TypeOK
  <2>5. /\ pc[w] # "idle" /\ job'[w].tenant = job[w].tenant
        /\ job[w].tenant.shadow => /\ UNCHANGED <<fired, rung>>
                                   /\ x.token = job[w].rec.token
    BY <2>1, <2>3 DEF Advanced
  <2>. QED  BY <2>2, <2>3, <2>4, <2>5 DEF Silent
<1>9. ASSUME NEW w \in Workers, NEW canEscalate \in BOOLEAN, NEW kind \in {"VOICE", "SECONDARY"},
             IF kind = "VOICE" THEN Voice(w, canEscalate) ELSE Secondary(w, canEscalate)
      PROVE  Silent'
  <2>1. Escalated(w, kind) \/ UNCHANGED <<incidents, job, fired>>
    BY <1>9, EscalateFacts
  <2>2. /\ UNCHANGED <<tenant, rung, calls>>
        /\ \A v \in Workers \ {w} : pc'[v] = pc[v] /\ job'[v] = job[v]
        /\ job[w].rec # None /\ pc[w] # "idle"
    BY <1>9, NoneFacts DEF Voice, Secondary, Goto, EscalateAs, TypeInv, TypeOK, LocalsSet,
       InProcessing
  <2>3. CASE Escalated(w, kind)
    <3>1. PICK x : x = job'[w].rec
      OBVIOUS
    <3>2. \A i \in Ids : incidents'[i] = incidents[i] \/ incidents'[i] = x
      BY <2>3, <3>1 DEF Escalated, TypeInv, TypeOK
    <3>3. /\ job'[w].tenant = job[w].tenant
          /\ x.token = job[w].rec.token
          /\ job[w].tenant.shadow => fired' = fired
      BY <2>3, <3>1 DEF Escalated
    <3>. QED  BY <2>2, <3>1, <3>2, <3>3 DEF Silent
  <2>4. CASE UNCHANGED <<incidents, job, fired>>
    BY <2>2, <2>4 DEF Silent
  <2>. QED  BY <2>1, <2>3, <2>4
<1>10. ASSUME NEW w \in Workers, NEW canEscalate \in BOOLEAN,
              Voice(w, canEscalate) \/ Secondary(w, canEscalate)
       PROVE  Silent'
  BY <1>9, <1>10
<1>. QED
  BY StepCases, <1>1, <1>2, <1>3, <1>4, <1>5, <1>6, <1>7, <1>8, <1>10

(* A tenant in shadow mode from the start sends nothing and gets no recovery   *)
(* token, whatever the processes decide, crash or miss.                       *)
THEOREM ShadowIsSilentCorrect == Spec => []ShadowIsSilent
<1>1. Init => Silent
  BY DEF Init, Silent, IdleJob
<1>2. Spec => []TypeInv
  BY InitTypeInv, NextTypeInv, PTL DEF Spec
<1>3. Silent => ShadowIsSilent
  BY DEF Silent, ShadowIsSilent
<1>. QED  BY <1>1, <1>2, <1>3, NextSilent, PTL DEF Spec

-------------------------------------------------------------------------------
(* One process: the records.  The rest is about a tenant polled by a single    *)
(* orchestrator process, which may still crash, stall past its leases and find *)
(* the active key expired.                                                    *)

Opened == {i \in Ids : incidents[i] # None}

(* What every stored record says of itself: the stage it is in is in its       *)
(* history, and it was not validated before it was proposed, nor authorised    *)
(* before it was validated.                                                   *)
Sensible(r) ==
  /\ r.stage \in r.history
  /\ r.stage \in {"DETECTED", "PROPOSED"} => "VALIDATED" \notin r.history
  /\ r.stage \in {"DETECTED", "PROPOSED", "VALIDATED"} => "AUTHORIZED" \notin r.history

(* What a save may do to a stored record: the stage stays or moves along the    *)
(* table, no stage of the history and no noted escalation is lost.             *)
Grows(r, x) == /\ x.stage = r.stage \/ CanTransition(r.stage, x.stage, TRUE)
               /\ r.history \subseteq x.history
               /\ r.voice => x.voice
               /\ r.secondary => x.secondary

(* The pass holds the record as it is stored, every stored record was claimed, *)
(* and nothing is stored yet under an id about to be saved.                    *)
RecordsSound(p) ==
  /\ pc[p] \in {"lock_incident", "claude", "audit", "voice", "secondary"} =>
       job[p].rec = incidents[job[p].id]
  /\ Opened \subseteq opened
  /\ pc[p] \in {"claude_create", "save_new"} =>
       job[p].id \in opened /\ incidents[job[p].id] = None
  /\ pc[p] \in {"set_active", "save_tenant", "audit_new"} =>
       incidents[job[p].id] # None /\ incidents[job[p].id].history = {"DETECTED"}
  /\ \A i \in Opened : Sensible(incidents[i])

(* transition() keeps a record sensible, and moves it along the table.         *)
LEMMA TransitionSensible ==
  ASSUME NEW r \in Records, NEW x \in Records, NEW target \in Stages,
         NEW gateMet \in BOOLEAN, Sensible(r),
         x.voice = r.voice, x.secondary = r.secondary,
         IF CanTransition(r.stage, target, gateMet)
         THEN x.stage = target /\ x.history = r.history \cup {target}
         ELSE x.stage = r.stage /\ x.history = r.history
  PROVE  Sensible(x) /\ Grows(r, x)
<1>1. CASE CanTransition(r.stage, target, gateMet)
  <2>1. r.stage \in Stages
    BY DEF Records
  <2>2. CanTransition(r.stage, target, TRUE)
    BY <1>1 DEF CanTransition
  <2>3. target = "DETECTED" => FALSE
    BY <1>1, <2>1 DEF CanTransition, AllowedTransitions, Stages, NoStage
  <2>4. target = "PROPOSED" => r.stage = "DETECTED"
    BY <1>1, <2>1 DEF CanTransition, AllowedTransitions, Stages, NoStage
  <2>5. x.stage = target /\ x.history = r.history \cup {target}
    BY <1>1
  <2>6. target \in {"DETECTED", "PROPOSED"} => "VALIDATED" \notin x.history
    BY <2>3, <2>4, <2>5 DEF Sensible
  <2>7. target = "VALIDATED" => r.stage = "PROPOSED"
    BY <1>1, <2>1 DEF CanTransition, AllowedTransitions, Stages, NoStage
  <2>8. target \in {"DETECTED", "PROPOSED", "VALIDATED"} => "AUTHORIZED" \notin x.history
    BY <2>3, <2>4, <2>5, <2>7 DEF Sensible
  <2>9. Sensible(x)
    BY <2>5, <2>6, <2>8 DEF Sensible
  <2>10. Grows(r, x)
    BY <2>2, <2>5 DEF Grows
  <2>. QED  BY <2>9, <2>10
<1>2. CASE ~CanTransition(r.stage, target, gateMet)
  <2>1. x.stage = r.stage /\ x.history = r.history
    BY <1>2
  <2>. QED  BY <2>1 DEF Sensible, Grows
<1>. QED  BY <1>1, <1>2

(* What Recover saves.                                                        *)
LEMMA RecoverFacts ==
  ASSUME TypeInv, NEW w \in Workers, Recover(w)
  PROVE  /\ pc[w] = "claude" /\ pc' = [pc EXCEPT ![w] = "unlock_incident"]
         /\ UNCHANGED <<job, audited, fired, rung, opened, tenant, crashes>>
         /\ job[w].id \in Ids /\ job[w].rec \in Records
         /\ \E x \in Records :
              /\ incidents' = [incidents EXCEPT ![job[w].id] = x]
              /\ x.token = job[w].rec.token
              /\ x.voice = job[w].rec.voice /\ x.secondary = job[w].rec.secondary
              /\ IF CanTransition(job[w].rec.stage, "RECOVERED", TRUE)
                 THEN x.stage = "RECOVERED" /\ x.history = job[w].rec.history \cup {"RECOVERED"}
                 ELSE x.stage = job[w].rec.stage /\ x.history = job[w].rec.history
<1>1. /\ job[w].rec \in Records /\ job[w].id \in Ids /\ "RECOVERED" \in Stages
      /\ pc[w] = "claude" /\ pc' = [pc EXCEPT ![w] = "unlock_incident"]
      /\ UNCHANGED <<job, audited, fired, rung, opened, tenant, crashes>>
  BY DecisionType DEF Recover, Goto, TypeInv, TypeOK, LocalsSet, InProcessing, Jobs, Stages
<1>2. PICK x : x = Transition(job[w].rec, "RECOVERED", TRUE)
  OBVIOUS
<1>3. /\ x \in Records
      /\ x.token = job[w].rec.token
      /\ x.voice = job[w].rec.voice /\ x.secondary = job[w].rec.secondary
      /\ IF CanTransition(job[w].rec.stage, "RECOVERED", TRUE)
         THEN x.stage = "RECOVERED" /\ x.history = job[w].rec.history \cup {"RECOVERED"}
         ELSE x.stage = job[w].rec.stage /\ x.history = job[w].rec.history
  <2>1. PICK r : r = job[w].rec
    OBVIOUS
  <2>2. r \in Records /\ x = Transition(r, "RECOVERED", TRUE) /\ TRUE \in BOOLEAN
    BY <1>1, <1>2, <2>1
  <2>3. /\ x \in Records
        /\ x.voice = r.voice /\ x.secondary = r.secondary
        /\ x.token = r.token
        /\ IF CanTransition(r.stage, "RECOVERED", TRUE)
           THEN x.stage = "RECOVERED" /\ x.history = r.history \cup {"RECOVERED"}
           ELSE x.stage = r.stage /\ x.history = r.history
    BY <1>1, <2>2 DEF Transition, Records
  <2>. QED  BY <2>1, <2>3
<1>4. incidents' = [incidents EXCEPT ![job[w].id] = x]
  BY <1>2 DEF Recover
<1>. QED  BY <1>1, <1>3, <1>4

(* A save of the record the pass holds, in the place it came from.             *)
LEMMA SaveKeepsRecordsSound ==
  ASSUME TypeInv, NEW p \in Workers, RecordsSound(p),
         NEW x \in Records, Sensible(x), incidents[job[p].id] # None,
         incidents' = [incidents EXCEPT ![job[p].id] = x], UNCHANGED opened,
         pc'[p] \in {"audit", "voice", "secondary", "unlock_incident"},
         pc'[p] # "unlock_incident" => job'[p].id = job[p].id /\ job'[p].rec = x
  PROVE  RecordsSound(p)'
<1>1. job[p].id \in Ids /\ incidents \in [Ids -> Records \cup {None}]
  BY DEF TypeInv, TypeOK, Jobs
<1>2. /\ incidents'[job[p].id] = x
      /\ \A i \in Ids \ {job[p].id} : incidents'[i] = incidents[i]
  BY <1>1
<1>3. Opened' = Opened
  BY <1>1, <1>2, NoneFacts DEF Opened
<1>4. \A i \in Opened : Sensible(incidents'[i])
  <2>1. \A i \in Opened : incidents'[i] = x \/ incidents'[i] = incidents[i]
    BY <1>2 DEF Opened
  <2>. QED  BY <2>1 DEF RecordsSound, Sensible
<1>5. \A i \in Opened : Sensible(incidents[i])'
  BY <1>4 DEF Sensible
<1>6. pc'[p] # "unlock_incident" => job'[p].rec = incidents'[job'[p].id]
  BY <1>2
<1>. QED  BY <1>3, <1>5, <1>6 DEF RecordsSound

(* Every step of one process keeps the records sound, and what is stored only  *)
(* grows.                                                                     *)
LEMMA NextRecords ==
  ASSUME NEW p, Workers = {p}, TypeInv, RecordsSound(p), [Next]_vars
  PROVE  /\ RecordsSound(p)'
         /\ \A i \in Opened : incidents'[i] # None /\ Grows(incidents[i], incidents'[i])
<1>. DEFINE Along == \A i \in Opened :
                       incidents'[i] # None /\ Grows(incidents[i], incidents'[i])
<1>0. /\ p \in Workers /\ job[p] \in Jobs /\ job[p].id \in Ids
      /\ pc \in [Workers -> PassPoints]
      /\ incidents \in [Ids -> Records \cup {None}]
  BY DEF TypeInv, TypeOK, Jobs
<1>11. UNCHANGED incidents => Along
  BY DEF Opened, Grows
<1>1. CASE Outside
  <2>1. UNCHANGED incidents
    BY <1>1 DEF Outside
  <2>2. RecordsSound(p)'
    BY <1>1 DEF Outside, RecordsSound, Opened, Sensible
  <2>. QED  BY <1>11, <2>1, <2>2
<1>2. CASE Moved(p)
  <2>1. UNCHANGED incidents /\ opened \subseteq opened'
    BY <1>2 DEF Moved
  <2>2. Opened' = Opened /\ \A i \in Opened : Sensible(incidents[i])'
    BY <2>1 DEF Opened, RecordsSound, Sensible
  <2>3. pc'[p] \in {"lock_incident", "claude", "audit", "voice", "secondary"} =>
          job'[p].rec = incidents[job'[p].id]
    BY <1>2 DEF Moved, Keeps, RecordsSound
  <2>4. pc'[p] \in {"claude_create", "save_new"} =>
          job'[p].id \in opened' /\ incidents[job'[p].id] = None
    <3>1. job[p].id \notin opened => incidents[job[p].id] = None
      BY <1>0 DEF RecordsSound, Opened
    <3>. QED  BY <1>2, <3>1 DEF Moved, Keeps, RecordsSound
  <2>5. pc'[p] \in {"set_active", "save_tenant", "audit_new"} =>
          incidents[job'[p].id] # None /\ incidents[job'[p].id].history = {"DETECTED"}
    BY <1>2 DEF Moved, Keeps, RecordsSound
  <2>6. RecordsSound(p)'
    BY <2>1, <2>2, <2>3, <2>4, <2>5 DEF RecordsSound
  <2>. QED  BY <1>11, <2>1, <2>6
<1>3. CASE SaveNewIncident(p)
  <2>1. PICK x : x = NewIncident(clock)
    OBVIOUS
  <2>2. /\ incidents' = [incidents EXCEPT ![job[p].id] = x]
        /\ pc[p] = "save_new" /\ pc'[p] = "set_active"
        /\ UNCHANGED <<job, opened>>
    BY <1>0, <1>3, <2>1 DEF SaveNewIncident, Goto
  <2>3. x \in Records /\ x.history = {"DETECTED"} /\ Sensible(x)
    BY <2>1, NewIncidentType DEF TypeInv, TypeOK, NewIncident, Sensible
  <2>4. incidents[job[p].id] = None /\ job[p].id \in opened
    BY <2>2 DEF RecordsSound
  <2>5. \A i \in Opened' : i = job[p].id \/ (i \in Opened /\ incidents'[i] = incidents[i])
    BY <1>0, <2>2 DEF Opened
  <2>6. \A i \in Opened' : Sensible(incidents[i])'
    BY <1>0, <2>2, <2>3, <2>5 DEF RecordsSound, Sensible
  <2>7. \A i \in Opened : incidents'[i] = incidents[i]
    BY <1>0, <2>2, <2>4 DEF Opened
  <2>11. Along
    BY <2>7 DEF Opened, Grows
  <2>8. Opened' \subseteq opened'
    BY <2>2, <2>4, <2>5 DEF RecordsSound
  <2>9. incidents'[job'[p].id] = x
    BY <1>0, <2>2
  <2>10. RecordsSound(p)'
    BY <2>2, <2>3, <2>6, <2>8, <2>9, NoneFacts DEF RecordsSound
  <2>. QED  BY <2>10, <2>11
<1>4. CASE SaveTenant(p)
  <2>1. UNCHANGED incidents
    BY <1>4 DEF SaveTenant
  <2>2. RecordsSound(p)'
    BY <1>0, <1>4 DEF SaveTenant, Goto, RecordsSound, Opened, Sensible
  <2>. QED  BY <1>11, <2>1, <2>2
<1>5. CASE AuditNewIncident(p)
  <2>1. UNCHANGED incidents
    BY <1>5 DEF AuditNewIncident, records
  <2>2. RecordsSound(p)'
    BY <1>0, <1>5 DEF AuditNewIncident, Goto, RecordsSound, Opened, Sensible, records
  <2>. QED  BY <1>11, <2>1, <2>2
<1>6. CASE Recover(p)
  <2>1. PICK x \in Records :
          /\ incidents' = [incidents EXCEPT ![job[p].id] = x]
          /\ x.voice = job[p].rec.voice /\ x.secondary = job[p].rec.secondary
          /\ IF CanTransition(job[p].rec.stage, "RECOVERED", TRUE)
             THEN x.stage = "RECOVERED" /\ x.history = job[p].rec.history \cup {"RECOVERED"}
             ELSE x.stage = job[p].rec.stage /\ x.history = job[p].rec.history
    BY <1>0, <1>6, RecoverFacts
  <2>2. /\ pc[p] = "claude" /\ pc'[p] = "unlock_incident"
        /\ UNCHANGED opened /\ job[p].rec \in Records
    BY <1>0, <1>6, RecoverFacts
  <2>3. job[p].rec = incidents[job[p].id] /\ job[p].id \in Opened
    BY <1>0, <2>2, NoneFacts DEF RecordsSound, Opened
  <2>4. Sensible(job[p].rec)
    BY <2>3 DEF RecordsSound
  <2>5. Sensible(x) /\ Grows(job[p].rec, x)
    <3>1. "RECOVERED" \in Stages /\ TRUE \in BOOLEAN
      BY DEF Stages
    <3>. QED  BY <2>1, <2>2, <2>4, <3>1, TransitionSensible
  <2>6. RecordsSound(p)'
    BY <1>0, <2>1, <2>2, <2>3, <2>5, SaveKeepsRecordsSound DEF Opened
  <2>7. Along
    <3>1. \A i \in Opened \ {job[p].id} : incidents'[i] = incidents[i]
      BY <1>0, <2>1 DEF Opened
    <3>2. incidents'[job[p].id] = x
      BY <1>0, <2>1
    <3>. QED  BY <2>3, <2>5, <3>1, <3>2, NoneFacts DEF Opened, Grows
  <2>. QED  BY <2>6, <2>7
<1>7. CASE AuditTransition(p)
  <2>1. UNCHANGED incidents
    BY <1>7 DEF AuditTransition, records
  <2>2. RecordsSound(p)'
    BY <1>0, <1>7 DEF AuditTransition, Goto, RecordsSound, Opened, Sensible, records
  <2>. QED  BY <1>11, <2>1, <2>2
<1>8. ASSUME NEW gateMet \in BOOLEAN, NEW canEscalate \in BOOLEAN,
             Advance(p, gateMet, canEscalate)
      PROVE  RecordsSound(p)' /\ Along
  <2>1. Advanced(p, gateMet)
    BY <1>0, <1>8, AdvanceFacts
  <2>2. PICK x : x = job'[p].rec
    OBVIOUS
  <2>3. /\ x \in Records /\ job[p].rec \in Records
        /\ incidents' = [incidents EXCEPT ![job[p].id] = x]
        /\ pc[p] = "claude" /\ pc'[p] = "audit"
        /\ job'[p].id = job[p].id
        /\ x.voice = job[p].rec.voice /\ x.secondary = job[p].rec.secondary
        /\ IF CanTransition(job[p].rec.stage, Decision(p).next, gateMet)
           THEN x.stage = Decision(p).next /\ x.history = job[p].rec.history \cup {Decision(p).next}
           ELSE x.stage = job[p].rec.stage /\ x.history = job[p].rec.history
        /\ Decision(p).next \in Stages
    BY <1>0, <2>1, <2>2 DEF Advanced
  <2>4. UNCHANGED opened
    BY <1>8 DEF Advance
  <2>5. job[p].rec = incidents[job[p].id] /\ job[p].id \in Opened
    BY <1>0, <2>3, NoneFacts DEF RecordsSound, Opened
  <2>6. Sensible(job[p].rec)
    BY <2>5 DEF RecordsSound
  <2>7. Sensible(x) /\ Grows(job[p].rec, x)
    BY <2>3, <2>6, TransitionSensible
  <2>8. RecordsSound(p)'
    BY <1>0, <2>2, <2>3, <2>4, <2>5, <2>7, SaveKeepsRecordsSound DEF Opened
  <2>9. Along
    <3>1. \A i \in Opened \ {job[p].id} : incidents'[i] = incidents[i]
      BY <1>0, <2>3 DEF Opened
    <3>2. incidents'[job[p].id] = x
      BY <1>0, <2>3
    <3>. QED  BY <2>3, <2>5, <2>7, <3>1, <3>2, NoneFacts DEF Opened, Grows
  <2>. QED  BY <2>8, <2>9
<1>9. ASSUME NEW canEscalate \in BOOLEAN, NEW kind \in {"VOICE", "SECONDARY"},
             IF kind = "VOICE" THEN Voice(p, canEscalate) ELSE Secondary(p, canEscalate)
      PROVE  RecordsSound(p)' /\ Along
  <2>1. /\ UNCHANGED opened
        /\ pc[p] \in {"voice", "secondary"} /\ pc'[p] \in {"secondary", "unlock_incident"}
    BY <1>0, <1>9 DEF Voice, Secondary, Goto
  <2>2. CASE Escalated(p, kind)
    <3>1. PICK x : x = job'[p].rec
      OBVIOUS
    <3>2. /\ x \in Records /\ job[p].rec \in Records /\ job'[p].id = job[p].id
          /\ incidents' = [incidents EXCEPT ![job[p].id] = x]
          /\ x.stage = job[p].rec.stage /\ x.history = job[p].rec.history
          /\ (job[p].rec.voice => x.voice) /\ (job[p].rec.secondary => x.secondary)
      BY <2>2, <3>1 DEF Escalated
    <3>3. job[p].rec = incidents[job[p].id] /\ job[p].id \in Opened
      BY <1>0, <2>1, <3>2, NoneFacts DEF RecordsSound, Opened
    <3>4. Sensible(x)
      BY <3>2, <3>3 DEF RecordsSound, Sensible
    <3>5. RecordsSound(p)'
      BY <1>0, <2>1, <3>1, <3>2, <3>3, <3>4, SaveKeepsRecordsSound DEF Opened
    <3>6. Along
      <4>1. \A i \in Opened \ {job[p].id} : incidents'[i] = incidents[i]
        BY <1>0, <3>2 DEF Opened
      <4>2. incidents'[job[p].id] = x
        BY <1>0, <3>2
      <4>. QED  BY <3>2, <3>3, <4>1, <4>2, NoneFacts DEF Opened, Grows
    <3>. QED  BY <3>5, <3>6
  <2>3. CASE UNCHANGED <<incidents, job, audited, fired>>
    BY <2>1, <2>3 DEF RecordsSound, Opened, Sensible, Grows
  <2>. QED  BY <1>0, <1>9, <2>2, <2>3, EscalateFacts
<1>10. ASSUME NEW canEscalate \in BOOLEAN, Voice(p, canEscalate) \/ Secondary(p, canEscalate)
       PROVE  RecordsSound(p)' /\ Along
  BY <1>9, <1>10
<1>12. UNCHANGED incidents \/ \E w \in Workers :
          \/ SaveNewIncident(w) \/ Recover(w)
          \/ \E gateMet, canEscalate \in BOOLEAN :
               Advance(w, gateMet, canEscalate) \/ Voice(w, canEscalate) \/ Secondary(w, canEscalate)
  BY StepCases DEF Outside, Moved, SaveTenant, AuditNewIncident, AuditTransition, records
<1>. QED
  BY StepCases, <1>1, <1>2, <1>3, <1>4, <1>5, <1>6, <1>7, <1>8, <1>10, <1>11, <1>12

(* At first nothing is stored.                                                *)
LEMMA InitRecords == ASSUME NEW p \in Workers, Init PROVE RecordsSound(p)
BY DEF Init, RecordsSound, Opened

-------------------------------------------------------------------------------
(* One process: the audit log.                                                *)

(* With every gate at 0, as in STAGE_GATES, the decided stage is reached: the  *)
(* table allows it, or the incident already is there.                         *)
LEMMA AdvanceLands ==
  ASSUME TypeInv, Gated = {}, NEW w \in Workers, NEW gateMet \in BOOLEAN,
         NEW canEscalate \in BOOLEAN, Advance(w, gateMet, canEscalate),
         Sensible(job[w].rec)
  PROVE  Decision(w).next \in job'[w].rec.history
<1>1. Advanced(w, gateMet) /\ gateMet
  BY AdvanceFacts
<1>2. PICK r, x, next : r = job[w].rec /\ x = job'[w].rec /\ next = Decision(w).next
  OBVIOUS
<1>3. /\ r \in Records /\ next \in Stages /\ r.stage \in Stages /\ r.stage \in r.history
      /\ IF CanTransition(r.stage, next, gateMet)
         THEN x.stage = next /\ x.history = r.history \cup {next}
         ELSE x.stage = r.stage /\ x.history = r.history
  BY <1>1, <1>2 DEF Advanced, Records, Sensible
<1>4. CASE job[w].health.recovered
  <2>1. next = "RECOVERED"
    BY <1>2, <1>4 DEF Decision, Decide
  <2>2. job[w].health.status # "critical"
    BY <1>4 DEF TypeInv, TypeOK, Jobs, HealthReadings
  <2>3. r.stage = "RECOVERED"
    BY <1>2, <2>2 DEF Advance, MayRecover
  <2>4. x.history = r.history
    BY <1>3, <2>1, <2>3 DEF CanTransition
  <2>. QED  BY <1>2, <1>3, <2>1, <2>3, <2>4
<1>5. CASE ~job[w].health.recovered
  <2>1. next = AllowedTransitions[r.stage]
    BY <1>2, <1>5 DEF Decision, Decide
  <2>2. next # "RECOVERED" /\ next # r.stage
    BY <1>3, <2>1 DEF AllowedTransitions, Stages, NoStage
  <2>3. CanTransition(r.stage, next, gateMet)
    BY <1>1, <2>1, <2>2 DEF CanTransition
  <2>. QED  BY <1>2, <1>3, <2>3
<1>. QED  BY <1>4, <1>5

(* What the pipeline appends to the log, and when.                             *)
LEMMA AuditFacts ==
  ASSUME NEW p, Workers = {p}, TypeInv, [Next]_vars
  PROVE  /\ audited \subseteq audited'
         /\ \A e \in audited' \ audited :
              e[3] = "pipeline" =>
                \/ pc[p] = "audit_new" /\ e = <<job[p].id, "DETECTED", "pipeline">>
                \/ pc[p] = "audit" /\ e = <<job[p].id, job[p].next, "pipeline">>
<1>0. p \in Workers
  OBVIOUS
<1>1. CASE UNCHANGED audited
  BY <1>1
<1>2. CASE AuditNewIncident(p)
  BY <1>2 DEF AuditNewIncident, DecideNewIncident, Suppressed
<1>3. CASE AuditTransition(p)
  BY <1>3 DEF AuditTransition
<1>4. ASSUME NEW gateMet \in BOOLEAN, NEW canEscalate \in BOOLEAN,
             Advance(p, gateMet, canEscalate)
      PROVE  audited \subseteq audited' /\ \A e \in audited' \ audited : e[3] = "shadow_mode"
  <2>1. Advanced(p, gateMet)
    BY <1>0, <1>4, AdvanceFacts
  <2>. QED  BY <2>1 DEF Advanced
<1>5. ASSUME NEW canEscalate \in BOOLEAN, NEW kind \in {"VOICE", "SECONDARY"},
             IF kind = "VOICE" THEN Voice(p, canEscalate) ELSE Secondary(p, canEscalate)
      PROVE  audited \subseteq audited' /\ \A e \in audited' \ audited : e[3] = "shadow_mode"
  <2>1. Escalated(p, kind) \/ UNCHANGED audited
    BY <1>0, <1>5, EscalateFacts
  <2>. QED  BY <2>1 DEF Escalated
<1>6. ASSUME NEW canEscalate \in BOOLEAN, Voice(p, canEscalate) \/ Secondary(p, canEscalate)
      PROVE  audited \subseteq audited' /\ \A e \in audited' \ audited : e[3] = "shadow_mode"
  BY <1>5, <1>6
<1>7. \/ UNCHANGED audited \/ AuditNewIncident(p) \/ AuditTransition(p)
      \/ \E gateMet, canEscalate \in BOOLEAN :
           Advance(p, gateMet, canEscalate) \/ Voice(p, canEscalate) \/ Secondary(p, canEscalate)
  BY StepCases DEF Outside, Moved, SaveNewIncident, SaveTenant, Recover
<1>. QED  BY <1>1, <1>2, <1>3, <1>4, <1>6, <1>7

(* What the log tells of happened, and what is about to be appended did too.   *)
LogSound(p) ==
  /\ AuditSound
  /\ pc[p] = "audit" => job[p].next \in incidents[job[p].id].history

LEMMA NextLogSound ==
  ASSUME NEW p, Workers = {p}, Gated = {}, TypeInv, RecordsSound(p), LogSound(p), [Next]_vars
  PROVE  LogSound(p)'
<1>0. /\ p \in Workers /\ job[p].id \in Ids /\ audited \subseteq Ids \X Stages \X {"pipeline", "shadow_mode"}
      /\ incidents \in [Ids -> Records \cup {None}] /\ pc \in [Workers -> PassPoints]
  BY DEF TypeInv, TypeOK, Jobs
<1>1. \A i \in Opened : incidents'[i] # None /\ incidents[i].history \subseteq incidents'[i].history
  BY NextRecords DEF Grows
<1>2. ASSUME NEW e \in audited', e[3] = "pipeline"
      PROVE  incidents'[e[1]] # None /\ e[2] \in incidents'[e[1]].history
  <2>1. CASE e \in audited
    <3>1. e[1] \in Ids /\ incidents[e[1]] # None /\ e[2] \in incidents[e[1]].history
      BY <1>0, <1>2, <2>1 DEF LogSound, AuditSound
    <3>. QED  BY <1>1, <3>1 DEF Opened
  <2>2. CASE pc[p] = "audit_new" /\ e = <<job[p].id, "DETECTED", "pipeline">>
    <3>1. incidents[job[p].id] # None /\ "DETECTED" \in incidents[job[p].id].history
      BY <2>2 DEF RecordsSound
    <3>. QED  BY <1>0, <1>1, <2>2, <3>1 DEF Opened
  <2>3. CASE pc[p] = "audit" /\ e = <<job[p].id, job[p].next, "pipeline">>
    <3>1. job[p].rec = incidents[job[p].id] /\ job[p].rec # None
      BY <1>0, <2>3 DEF RecordsSound, TypeInv, LocalsSet, InProcessing
    <3>2. job[p].next \in incidents[job[p].id].history
      BY <2>3 DEF LogSound
    <3>. QED  BY <1>0, <1>1, <2>3, <3>1, <3>2 DEF Opened
  <2>. QED  BY <1>2, <2>1, <2>2, <2>3, AuditFacts
<1>3. AuditSound'
  BY <1>2 DEF AuditSound
<1>4. ASSUME pc'[p] = "audit" PROVE job'[p].next \in incidents'[job'[p].id].history
  <2>1. CASE UNCHANGED incidents /\ pc[p] = "audit" /\ job'[p].next = job[p].next
             /\ job'[p].id = job[p].id
    BY <2>1 DEF LogSound
  <2>2. ASSUME NEW gateMet \in BOOLEAN, NEW canEscalate \in BOOLEAN,
               Advance(p, gateMet, canEscalate)
        PROVE  job'[p].next \in incidents'[job'[p].id].history
    <3>1. Advanced(p, gateMet)
      BY <1>0, <2>2, AdvanceFacts
    <3>2. job[p].rec = incidents[job[p].id] /\ job[p].rec # None
      BY <1>0, <3>1, NoneFacts DEF RecordsSound, Advanced
    <3>3. Sensible(job[p].rec)
      BY <1>0, <3>2 DEF RecordsSound, Opened
    <3>4. Decision(p).next \in job'[p].rec.history
      BY <1>0, <2>2, <3>3, AdvanceLands
    <3>5. job'[p].next = Decision(p).next /\ incidents'[job'[p].id] = job'[p].rec
      BY <1>0, <3>1 DEF Advanced
    <3>. QED  BY <3>4, <3>5
  <2>3. \/ UNCHANGED incidents /\ pc[p] = "audit" /\ job'[p].next = job[p].next /\ job'[p].id = job[p].id
        \/ \E gateMet, canEscalate \in BOOLEAN : Advance(p, gateMet, canEscalate)
    <3>1. ASSUME Outside \/ Moved(p)
          PROVE  UNCHANGED incidents /\ pc[p] = "audit" /\ job'[p].next = job[p].next
                   /\ job'[p].id = job[p].id
      BY <1>4, <3>1 DEF Outside, Moved, Keeps
    <3>2. ASSUME NEW canEscalate \in BOOLEAN,
                 \/ SaveNewIncident(p) \/ SaveTenant(p) \/ AuditNewIncident(p)
                 \/ Recover(p) \/ AuditTransition(p)
                 \/ Voice(p, canEscalate) \/ Secondary(p, canEscalate)
          PROVE  FALSE
      BY <1>0, <1>4, <3>2 DEF SaveNewIncident, SaveTenant, AuditNewIncident, Recover,
         AuditTransition, Voice, Secondary, Goto
    <3>. QED  BY StepCases, <3>1, <3>2
  <2>. QED  BY <2>1, <2>2, <2>3
<1>. QED  BY <1>3, <1>4 DEF LogSound

(* What the pipeline's events tell did happen: the stage is in the history of  *)
(* the stored record, whatever crashed, stalled or expired.                   *)
THEOREM AuditSoundCorrect ==
  ASSUME NEW CONSTANT p, Workers = {p}, Gated = {}
  PROVE  Spec => []AuditSound
<1>1. Init => TypeInv /\ RecordsSound(p) /\ LogSound(p)
  BY InitTypeInv, InitRecords DEF Init, LogSound, AuditSound
<1>2. TypeInv /\ RecordsSound(p) /\ LogSound(p) /\ [Next]_vars
        => TypeInv' /\ RecordsSound(p)' /\ LogSound(p)'
  BY NextTypeInv, NextRecords, NextLogSound
<1>3. LogSound(p) => AuditSound
  BY DEF LogSound
<1>. QED  BY <1>1, <1>2, <1>3, PTL DEF Spec

(* A stage of a stored record is logged, or the pass that saved it is about to *)
(* log it: as long as nothing crashed.                                        *)
Due(p, i, stage) ==
  /\ job[p].id = i
  /\ \/ pc[p] \in {"set_active", "save_tenant", "audit_new"}
     \/ pc[p] = "audit" /\ stage = job[p].next

LogComplete(p) ==
  crashes = 0 =>
    \A i \in Opened : \A stage \in incidents[i].history \ {"RECOVERED"} :
      <<i, stage, "pipeline">> \in audited \/ Due(p, i, stage)

LEMMA NextLogComplete ==
  ASSUME NEW p, Workers = {p}, TypeInv, RecordsSound(p), LogComplete(p), [Next]_vars
  PROVE  LogComplete(p)'
<1>0. /\ p \in Workers /\ job[p].id \in Ids
      /\ incidents \in [Ids -> Records \cup {None}] /\ pc \in [Workers -> PassPoints]
  BY DEF TypeInv, TypeOK, Jobs
<1>. SUFFICES ASSUME crashes' = 0, NEW i \in Opened',
                     NEW stage \in incidents'[i].history \ {"RECOVERED"}
              PROVE  <<i, stage, "pipeline">> \in audited' \/ Due(p, i, stage)'
  BY DEF LogComplete, Opened
<1>. DEFINE Goal == <<i, stage, "pipeline">> \in audited' \/ Due(p, i, stage)'
<1>1. i \in Ids /\ incidents'[i] # None /\ audited \subseteq audited'
  BY AuditFacts DEF Opened
<1>2. ASSUME crashes = 0, incidents[i] # None, stage \in incidents[i].history, ~Due(p, i, stage)
      PROVE  Goal
  BY <1>1, <1>2 DEF LogComplete, Opened
<1>3. CASE Outside
  <2>1. crashes = 0 /\ incidents[i] # None /\ stage \in incidents[i].history
    BY <1>1, <1>3 DEF Outside
  <2>2. Due(p, i, stage) => Due(p, i, stage)'
    BY <1>3 DEF Outside, Due
  <2>. QED  BY <1>2, <2>1, <2>2
<1>4. CASE Moved(p)
  <2>1. crashes = 0 /\ incidents[i] # None /\ stage \in incidents[i].history
    BY <1>1, <1>4 DEF Moved
  <2>2. Due(p, i, stage) => Due(p, i, stage)'
    BY <1>4 DEF Moved, Keeps, Due
  <2>. QED  BY <1>2, <2>1, <2>2
<1>5. CASE SaveNewIncident(p)
  <2>1. /\ pc[p] = "save_new" /\ pc'[p] = "set_active" /\ UNCHANGED <<job, crashes>>
        /\ i # job[p].id => incidents'[i] = incidents[i]
    BY <1>0, <1>5 DEF SaveNewIncident, Goto, Opened
  <2>2. CASE i = job[p].id
    BY <2>1, <2>2 DEF Due
  <2>3. CASE i # job[p].id
    BY <1>1, <1>2, <2>1, <2>3 DEF Due
  <2>. QED  BY <2>2, <2>3
<1>6. CASE SaveTenant(p)
  <2>1. /\ pc[p] = "save_tenant" /\ pc'[p] = "audit_new"
        /\ UNCHANGED <<job, crashes, incidents>>
    BY <1>0, <1>6 DEF SaveTenant, Goto
  <2>. QED  BY <1>1, <1>2, <2>1 DEF Due
<1>7. CASE AuditNewIncident(p)
  <2>1. /\ pc[p] = "audit_new" /\ UNCHANGED <<crashes, incidents>>
        /\ <<job[p].id, "DETECTED", "pipeline">> \in audited'
    BY <1>7 DEF AuditNewIncident, DecideNewIncident, records
  <2>2. CASE i = job[p].id
    <3>1. stage = "DETECTED"
      BY <2>1, <2>2 DEF RecordsSound
    <3>. QED  BY <2>1, <2>2, <3>1
  <2>3. CASE i # job[p].id
    BY <1>1, <1>2, <2>1, <2>3 DEF Due
  <2>. QED  BY <2>2, <2>3
<1>8. CASE Recover(p)
  <2>1. PICK x \in Records :
          /\ incidents' = [incidents EXCEPT ![job[p].id] = x]
          /\ x.history \subseteq job[p].rec.history \cup {"RECOVERED"}
    BY <1>0, <1>8, RecoverFacts
  <2>2. pc[p] = "claude" /\ UNCHANGED crashes /\ job[p].rec \in Records
    BY <1>0, <1>8, RecoverFacts
  <2>3. job[p].rec = incidents[job[p].id] /\ ~Due(p, i, stage)
    BY <2>2 DEF RecordsSound, Due
  <2>4. incidents[i] # None /\ stage \in incidents[i].history
    <3>1. CASE i = job[p].id
      BY <1>0, <2>1, <2>2, <2>3, <3>1, NoneFacts
    <3>2. CASE i # job[p].id
      BY <1>0, <1>1, <2>1, <3>2
    <3>. QED  BY <3>1, <3>2
  <2>. QED  BY <1>2, <2>2, <2>3, <2>4
<1>9. CASE AuditTransition(p)
  <2>1. /\ pc[p] = "audit" /\ UNCHANGED <<crashes, incidents>>
        /\ <<job[p].id, job[p].next, "pipeline">> \in audited'
    BY <1>9 DEF AuditTransition, records
  <2>2. Due(p, i, stage) => Goal
    BY <2>1 DEF Due
  <2>. QED  BY <1>1, <1>2, <2>1, <2>2
<1>10. ASSUME NEW gateMet \in BOOLEAN, NEW canEscalate \in BOOLEAN,
              Advance(p, gateMet, canEscalate)
       PROVE  Goal
  <2>1. Advanced(p, gateMet)
    BY <1>0, <1>10, AdvanceFacts
  <2>2. PICK x, next : x = job'[p].rec /\ next = Decision(p).next
    OBVIOUS
  <2>3. /\ incidents' = [incidents EXCEPT ![job[p].id] = x]
        /\ x.history \subseteq job[p].rec.history \cup {next}
        /\ pc[p] = "claude" /\ pc'[p] = "audit" /\ job[p].rec \in Records
        /\ job'[p].id = job[p].id /\ job'[p].next = next
    BY <1>0, <2>1, <2>2 DEF Advanced
  <2>4. UNCHANGED crashes
    BY <1>10 DEF Advance
  <2>5. job[p].rec = incidents[job[p].id] /\ ~Due(p, i, stage)
    BY <2>3 DEF RecordsSound, Due
  <2>6. CASE i = job[p].id /\ stage = next
    BY <2>3, <2>6 DEF Due
  <2>7. CASE ~(i = job[p].id /\ stage = next)
    <3>1. incidents[i] # None /\ stage \in incidents[i].history
      <4>1. CASE i = job[p].id
        BY <1>0, <2>3, <2>5, <2>7, <4>1, NoneFacts
      <4>2. CASE i # job[p].id
        BY <1>0, <1>1, <2>3, <4>2
      <4>. QED  BY <4>1, <4>2
    <3>. QED  BY <1>2, <2>4, <2>5, <3>1
  <2>. QED  BY <2>6, <2>7
<1>11. ASSUME NEW canEscalate \in BOOLEAN, NEW kind \in {"VOICE", "SECONDARY"},
              IF kind = "VOICE" THEN Voice(p, canEscalate) ELSE Secondary(p, canEscalate)
       PROVE  Goal
  <2>1. pc[p] \in {"voice", "secondary"} /\ UNCHANGED crashes
    BY <1>11 DEF Voice, Secondary
  <2>2. CASE UNCHANGED incidents
    BY <1>1, <1>2, <2>1, <2>2 DEF Due
  <2>3. CASE Escalated(p, kind)
    <3>1. PICK x : x = job'[p].rec
      OBVIOUS
    <3>2. /\ incidents' = [incidents EXCEPT ![job[p].id] = x]
          /\ x.history = job[p].rec.history /\ job[p].rec \in Records
      BY <2>3, <3>1 DEF Escalated
    <3>3. job[p].rec = incidents[job[p].id] /\ ~Due(p, i, stage)
      BY <2>1 DEF RecordsSound, Due
    <3>4. incidents[i] # None /\ stage \in incidents[i].history
      <4>1. CASE i = job[p].id
        BY <1>0, <3>2, <3>3, <4>1, NoneFacts
      <4>2. CASE i # job[p].id
        BY <1>0, <1>1, <3>2, <4>2
      <4>. QED  BY <4>1, <4>2
    <3>. QED  BY <1>2, <2>1, <3>3, <3>4
  <2>. QED  BY <1>0, <1>11, <2>2, <2>3, EscalateFacts
<1>12. ASSUME NEW canEscalate \in BOOLEAN, Voice(p, canEscalate) \/ Secondary(p, canEscalate)
       PROVE  Goal
  BY <1>11, <1>12
<1>. QED
  BY StepCases, <1>3, <1>4, <1>5, <1>6, <1>7, <1>8, <1>9, <1>10, <1>12

(* Without a crash no stage but RECOVERED is missing from the audit log, save  *)
(* the one the pass at work is about to append.                               *)
THEOREM AuditCompleteCorrect ==
  ASSUME NEW CONSTANT p, Workers = {p}
  PROVE  Spec => []AuditComplete
<1>1. Init => TypeInv /\ RecordsSound(p) /\ LogComplete(p)
  BY InitTypeInv, InitRecords DEF Init, LogComplete, Opened
<1>2. TypeInv /\ RecordsSound(p) /\ LogComplete(p) /\ [Next]_vars
        => TypeInv' /\ RecordsSound(p)' /\ LogComplete(p)'
  BY NextTypeInv, NextRecords, NextLogComplete
<1>3. LogComplete(p) => AuditComplete
  <2>1. p \in Workers
    OBVIOUS
  <2>. QED  BY <2>1 DEF LogComplete, AuditComplete, AuditedOrDue, WillAudit, Due, Opened
<1>. QED  BY <1>1, <1>2, <1>3, PTL DEF Spec

-------------------------------------------------------------------------------
(* One process: what is fired.                                                *)

(* A call or a secondary notification is fired as the flag is noted, a         *)
(* recovery link as the incident is VALIDATED and its token made.             *)
LEMMA FiredFacts ==
  ASSUME NEW p, Workers = {p}, TypeInv, [Next]_vars
  PROVE  /\ fired \subseteq fired'
         /\ \A f \in fired' \ fired :
              /\ f.key[3] \in {"VOICE", "SECONDARY"} =>
                   /\ Escalated(p, f.key[3]) /\ pc[p] \in {"voice", "secondary"}
                   /\ f = [key |-> <<job[p].id, job[p].next, f.key[3]>>, token |-> None]
                   /\ fired' = fired \cup {f}
              /\ f.key[3] = "SEND_VALIDATION" =>
                   \E gateMet, canEscalate \in BOOLEAN :
                     /\ Advance(p, gateMet, canEscalate)
                     /\ f.key[1] = job[p].id
                     /\ Decision(p).next = "VALIDATED"
                     /\ ~job[p].tenant.shadow /\ f.token = job'[p].rec.token
<1>0. p \in Workers
  OBVIOUS
<1>. DEFINE Goal(f) ==
       /\ f.key[3] \in {"VOICE", "SECONDARY"} =>
            /\ Escalated(p, f.key[3]) /\ pc[p] \in {"voice", "secondary"}
            /\ f = [key |-> <<job[p].id, job[p].next, f.key[3]>>, token |-> None]
            /\ fired' = fired \cup {f}
       /\ f.key[3] = "SEND_VALIDATION" =>
            \E gateMet, canEscalate \in BOOLEAN :
              /\ Advance(p, gateMet, canEscalate)
              /\ f.key[1] = job[p].id
              /\ Decision(p).next = "VALIDATED"
              /\ ~job[p].tenant.shadow /\ f.token = job'[p].rec.token
<1>1. CASE UNCHANGED fired
  BY <1>1
<1>2. CASE AuditNewIncident(p)
  <2>1. DecideNewIncident.actions = <<"SEND_DETECTION">>
    BY DEF DecideNewIncident
  <2>2. /\ fired \subseteq fired'
        /\ fired' \ fired \subseteq
             Firings(job[p].id, DecideNewIncident.next, <<"SEND_DETECTION">>, None, None)
    BY <1>2, <2>1 DEF AuditNewIncident
  <2>3. \A f \in fired' \ fired : f.key[3] = "SEND_DETECTION"
    BY <2>2, FiringsFacts
  <2>. QED  BY <2>2, <2>3
<1>3. ASSUME NEW gateMet \in BOOLEAN, NEW canEscalate \in BOOLEAN,
             Advance(p, gateMet, canEscalate)
      PROVE  fired \subseteq fired' /\ \A f \in fired' \ fired : Goal(f)
  <2>1. Advanced(p, gateMet)
    BY <1>0, <1>3, AdvanceFacts
  <2>2. CASE job[p].tenant.shadow
    BY <2>1, <2>2 DEF Advanced
  <2>3. CASE ~job[p].tenant.shadow
    <3>1. fired \subseteq fired'
      BY <2>1, <2>3 DEF Advanced
    <3>2. ASSUME NEW f \in fired' \ fired PROVE Goal(f)
      <4>1. /\ f.key[1] = job[p].id
            /\ f.key[3] \notin {"VOICE", "SECONDARY"}
            /\ f.key[3] = "SEND_VALIDATION" =>
                 Decision(p).next = "VALIDATED" /\ f.token = job'[p].rec.token
        BY <2>1, <2>3 DEF Advanced
      <4>. QED  BY <1>3, <2>3, <4>1
    <3>. QED  BY <3>1, <3>2
  <2>. QED  BY <2>2, <2>3
<1>4. ASSUME NEW canEscalate \in BOOLEAN, NEW kind \in {"VOICE", "SECONDARY"},
             IF kind = "VOICE" THEN Voice(p, canEscalate) ELSE Secondary(p, canEscalate)
      PROVE  fired \subseteq fired' /\ \A f \in fired' \ fired : Goal(f)
  <2>1. pc[p] \in {"voice", "secondary"}
    BY <1>4 DEF Voice, Secondary
  <2>2. CASE Escalated(p, kind)
    <3>1. ASSUME NEW f \in fired' \ fired PROVE Goal(f)
      <4>1. /\ fired' = fired \cup {[key |-> <<job[p].id, job[p].next, kind>>, token |-> None]}
            /\ f = [key |-> <<job[p].id, job[p].next, kind>>, token |-> None]
        BY <2>2 DEF Escalated
      <4>2. f.key[3] = kind
        BY <4>1
      <4>. QED  BY <2>1, <2>2, <4>1, <4>2
    <3>. QED  BY <2>2, <3>1 DEF Escalated
  <2>3. CASE UNCHANGED fired
    BY <2>3
  <2>. QED  BY <1>0, <1>4, <2>2, <2>3, EscalateFacts
<1>5. ASSUME NEW canEscalate \in BOOLEAN, Voice(p, canEscalate) \/ Secondary(p, canEscalate)
      PROVE  fired \subseteq fired' /\ \A f \in fired' \ fired : Goal(f)
  BY <1>4, <1>5
<1>6. \/ UNCHANGED fired \/ AuditNewIncident(p)
      \/ \E gateMet, canEscalate \in BOOLEAN :
           Advance(p, gateMet, canEscalate) \/ Voice(p, canEscalate) \/ Secondary(p, canEscalate)
  BY StepCases DEF Outside, Moved, SaveNewIncident, SaveTenant, Recover, AuditTransition
<1>. QED  BY <1>1, <1>2, <1>3, <1>5, <1>6

(* Whoever was called, the record says so, and no one twice.                   *)
Noted ==
  \A f \in fired :
    /\ f.key[1] \in Ids
    /\ f.key[3] = "VOICE" => f.key[1] \in Opened /\ incidents[f.key[1]].voice
    /\ f.key[3] = "SECONDARY" => f.key[1] \in Opened /\ incidents[f.key[1]].secondary

LEMMA NextNoted ==
  ASSUME NEW p, Workers = {p}, TypeInv, RecordsSound(p), Noted, TimersOnce, [Next]_vars
  PROVE  Noted' /\ TimersOnce'
<1>0. /\ p \in Workers /\ job[p].id \in Ids /\ incidents \in [Ids -> Records \cup {None}]
      /\ fired' \subseteq Fires
  BY NextTypeInv DEF TypeInv, TypeOK, Jobs
<1>1. \A i \in Opened : /\ i \in Opened'
                        /\ incidents[i].voice => incidents'[i].voice
                        /\ incidents[i].secondary => incidents'[i].secondary
  BY NextRecords DEF Grows, Opened
<1>2. ASSUME NEW f \in fired' \ fired, f.key[3] \in {"VOICE", "SECONDARY"}
      PROVE  /\ f.key[1] = job[p].id /\ job[p].id \in Opened
             /\ fired' = fired \cup {f}
             /\ IF f.key[3] = "VOICE"
                THEN ~incidents[job[p].id].voice /\ incidents'[job[p].id].voice
                ELSE ~incidents[job[p].id].secondary /\ incidents'[job[p].id].secondary
  <2>1. PICK kind : kind = f.key[3]
    OBVIOUS
  <2>2. /\ Escalated(p, kind) /\ pc[p] \in {"voice", "secondary"}
        /\ f = [key |-> <<job[p].id, job[p].next, kind>>, token |-> None]
        /\ fired' = fired \cup {f}
    BY <1>2, <2>1, FiredFacts
  <2>3. f.key[1] = job[p].id
    BY <2>2
  <2>4. job[p].rec = incidents[job[p].id] /\ job[p].rec \in Records
    BY <2>2 DEF RecordsSound, Escalated
  <2>5. job[p].id \in Opened
    BY <1>0, <2>4, NoneFacts DEF Opened
  <2>6. incidents'[job[p].id] = job'[p].rec
    BY <1>0, <2>2 DEF Escalated
  <2>7. IF kind = "VOICE" THEN ~job[p].rec.voice /\ job'[p].rec.voice
        ELSE ~job[p].rec.secondary /\ job'[p].rec.secondary
    BY <2>2 DEF Escalated
  <2>. QED  BY <2>1, <2>2, <2>3, <2>4, <2>5, <2>6, <2>7
<1>3. Noted'
  <2>1. ASSUME NEW f \in fired'
        PROVE  /\ f.key[1] \in Ids
               /\ f.key[3] = "VOICE" => f.key[1] \in Opened' /\ incidents'[f.key[1]].voice
               /\ f.key[3] = "SECONDARY" => f.key[1] \in Opened' /\ incidents'[f.key[1]].secondary
    <3>1. f.key[1] \in Ids
      BY <1>0 DEF Fires
    <3>2. CASE f \in fired
      BY <1>1, <3>1, <3>2 DEF Noted
    <3>3. CASE f \notin fired
      BY <1>1, <1>2, <3>1, <3>3
    <3>. QED  BY <3>2, <3>3
  <2>. QED  BY <2>1 DEF Noted
<1>4. ASSUME NEW f \in fired', NEW g \in fired', f.key[1] = g.key[1], f.key[3] = g.key[3],
             f.key[3] \in {"VOICE", "SECONDARY"}, f \notin fired
      PROVE  f = g
  <2>1. CASE g \in fired
    BY <1>2, <1>4, <2>1 DEF Noted
  <2>2. CASE g \notin fired
    BY <1>2, <1>4, <2>2
  <2>. QED  BY <2>1, <2>2
<1>5. ASSUME NEW f \in fired', NEW g \in fired', f.key[1] = g.key[1], f.key[3] = g.key[3],
             f.key[3] \in {"VOICE", "SECONDARY"}
      PROVE  f = g
  <2>1. CASE f \in fired /\ g \in fired
    BY <1>5, <2>1 DEF TimersOnce
  <2>2. CASE f \notin fired
    BY <1>4, <1>5, <2>2
  <2>3. CASE g \notin fired
    BY <1>4, <1>5, <2>3
  <2>. QED  BY <2>1, <2>2, <2>3
<1>6. TimersOnce'
  BY <1>5 DEF TimersOnce
<1>. QED  BY <1>3, <1>6

(* The ESCALATE action rings as the incident becomes AUTHORIZED.               *)
LEMMA NextRung ==
  ASSUME NEW p, Workers = {p}, "AUTHORIZED" \notin Gated, TypeInv, RecordsSound(p),
         RungOnce, [Next]_vars
  PROVE  RungOnce'
<1>0. /\ p \in Workers /\ job[p].id \in Ids /\ rung \in [Ids -> Nat]
      /\ incidents \in [Ids -> Records \cup {None}]
  BY DEF TypeInv, TypeOK, Jobs
<1>1. \A i \in Ids : incidents[i] # None =>
         incidents'[i] # None /\ incidents[i].history \subseteq incidents'[i].history
  BY NextRecords DEF Grows, Opened
<1>2. CASE rung' = rung
  BY <1>1, <1>2 DEF RungOnce
<1>3. ASSUME NEW gateMet \in BOOLEAN, NEW canEscalate \in BOOLEAN,
             Advance(p, gateMet, canEscalate), rung' # rung
      PROVE  RungOnce'
  <2>1. Advanced(p, gateMet) /\ (Decision(p).next \notin Gated => gateMet)
    BY <1>0, <1>3, AdvanceFacts
  <2>2. /\ Decision(p).next = "AUTHORIZED" /\ gateMet
        /\ rung' = [rung EXCEPT ![job[p].id] = @ + 1]
        /\ incidents' = [incidents EXCEPT ![job[p].id] = job'[p].rec]
        /\ job[p].rec \in Records /\ job'[p].rec \in Records
        /\ pc[p] = "claude"
    BY <1>3, <2>1 DEF Advanced
  <2>3. job[p].rec = incidents[job[p].id] /\ job[p].rec # None
    BY <2>2, NoneFacts DEF RecordsSound
  <2>4. job[p].rec.stage = "VALIDATED"
    BY <2>2 DEF Decision, Decide, Records, AllowedTransitions, Stages, NoStage
  <2>5. "AUTHORIZED" \notin job[p].rec.history
    BY <1>0, <2>3, <2>4 DEF RecordsSound, Sensible, Opened
  <2>6. rung[job[p].id] = 0
    BY <1>0, <2>3, <2>5 DEF RungOnce
  <2>7. "AUTHORIZED" \in job'[p].rec.history
    <3>1. CanTransition(job[p].rec.stage, "AUTHORIZED", gateMet)
      BY <2>2, <2>4 DEF CanTransition, AllowedTransitions, Stages
    <3>. QED  BY <2>1, <2>2, <3>1 DEF Advanced
  <2>8. /\ rung'[job[p].id] = 1
        /\ incidents'[job[p].id] # None
        /\ "AUTHORIZED" \in incidents'[job[p].id].history
    BY <1>0, <2>2, <2>6, <2>7, NoneFacts
  <2>9. \A i \in Ids \ {job[p].id} : rung'[i] = rung[i]
    BY <1>0, <2>2
  <2>. QED  BY <1>1, <2>8, <2>9 DEF RungOnce
<1>4. \/ rung' = rung
      \/ \E gateMet, canEscalate \in BOOLEAN : Advance(p, gateMet, canEscalate)
  BY StepCases DEF Outside, Moved, SaveNewIncident, SaveTenant, AuditNewIncident,
     Recover, AuditTransition, Voice, Secondary
<1>. QED  BY <1>2, <1>3, <1>4

(* An incident's engineer is called at most twice (once by the ESCALATE        *)
(* action, once by the timer) and the secondary notified at most once, through *)
(* crashes and stalls, for any thresholds and plan, as long as no gate holds   *)
(* AUTHORIZED back.                                                           *)
THEOREM EscalationsBoundedCorrect ==
  ASSUME NEW CONSTANT p, Workers = {p}, "AUTHORIZED" \notin Gated
  PROVE  Spec => []EscalationsBounded
<1>. DEFINE Inv == TypeInv /\ RecordsSound(p) /\ Noted /\ TimersOnce /\ RungOnce
<1>1. Init => Inv
  BY InitTypeInv, InitRecords DEF Init, Noted, TimersOnce, RungOnce
<1>2. Inv /\ [Next]_vars => Inv'
  BY NextTypeInv, NextRecords, NextNoted, NextRung
<1>3. Inv => EscalationsBounded
  BY DEF EscalationsBounded
<1>. QED  BY <1>1, <1>2, <1>3, PTL DEF Spec

(* Every step keeps the token of a link that was fired: VALIDATED, where the   *)
(* token is made, is entered only from PROPOSED.                              *)
LEMMA NextLink ==
  ASSUME NEW p, Workers = {p}, Gated = {}, TypeInv, RecordsSound(p), Noted,
         LinkIsStored, [Next]_vars
  PROVE  LinkIsStored'
<1>0. /\ p \in Workers /\ job[p].id \in Ids /\ clock \in Time
      /\ incidents \in [Ids -> Records \cup {None}]
  BY DEF TypeInv, TypeOK, Jobs
<1>1. \A i \in Opened : /\ incidents'[i] # None
                        /\ incidents[i].history \subseteq incidents'[i].history
  BY NextRecords DEF Grows
<1>2. ASSUME NEW gateMet \in BOOLEAN, NEW canEscalate \in BOOLEAN,
             Advance(p, gateMet, canEscalate)
      PROVE  /\ pc[p] = "claude" /\ Advanced(p, gateMet)
             /\ job[p].rec = incidents[job[p].id] /\ job[p].id \in Opened
             /\ incidents' = [incidents EXCEPT ![job[p].id] = job'[p].rec]
             /\ Decision(p).next \in job'[p].rec.history
             /\ Decision(p).next = "VALIDATED" =>
                  /\ "VALIDATED" \notin job[p].rec.history
                  /\ ~job[p].tenant.shadow => job'[p].rec.token = clock
             /\ Decision(p).next # "VALIDATED" => job'[p].rec.token = job[p].rec.token
  <2>1. Advanced(p, gateMet)
    BY <1>0, <1>2, AdvanceFacts
  <2>2. pc[p] = "claude" /\ job[p].rec \in Records /\ job[p].rec.stage \in Stages
    BY <2>1 DEF Advanced, Records
  <2>3. job[p].rec = incidents[job[p].id] /\ job[p].id \in Opened
    BY <1>0, <2>2, NoneFacts DEF RecordsSound, Opened
  <2>4. Sensible(job[p].rec)
    BY <2>3 DEF RecordsSound
  <2>5. Decision(p).next \in job'[p].rec.history
    BY <1>0, <1>2, <2>4, AdvanceLands
  <2>6. Decision(p).next = "VALIDATED" => job[p].rec.stage = "PROPOSED"
    BY <2>2 DEF Decision, Decide, AllowedTransitions, Stages, NoStage
  <2>7. Decision(p).next = "VALIDATED" => "VALIDATED" \notin job[p].rec.history
    BY <2>4, <2>6 DEF Sensible
  <2>. QED  BY <2>1, <2>2, <2>3, <2>5, <2>7 DEF Advanced
<1>3. \A i \in Opened : "VALIDATED" \in incidents[i].history => incidents'[i].token = incidents[i].token
  <2>. SUFFICES ASSUME NEW i \in Opened, "VALIDATED" \in incidents[i].history
                PROVE  incidents'[i].token = incidents[i].token
    OBVIOUS
  <2>0. i \in Ids /\ incidents[i] # None
    BY DEF Opened
  <2>1. CASE UNCHANGED incidents
    BY <2>1
  <2>2. CASE SaveNewIncident(p)
    <3>1. incidents[job[p].id] = None
      BY <2>2 DEF SaveNewIncident, RecordsSound
    <3>. QED  BY <1>0, <2>0, <2>2, <3>1 DEF SaveNewIncident
  <2>3. CASE Recover(p)
    <3>1. PICK x \in Records :
            /\ incidents' = [incidents EXCEPT ![job[p].id] = x]
            /\ x.token = job[p].rec.token
      BY <1>0, <2>3, RecoverFacts
    <3>2. job[p].rec = incidents[job[p].id]
      BY <2>3 DEF Recover, RecordsSound
    <3>. QED  BY <1>0, <2>0, <3>1, <3>2
  <2>4. ASSUME NEW gateMet \in BOOLEAN, NEW canEscalate \in BOOLEAN,
               Advance(p, gateMet, canEscalate)
        PROVE  incidents'[i].token = incidents[i].token
    <3>1. /\ job[p].rec = incidents[job[p].id]
          /\ incidents' = [incidents EXCEPT ![job[p].id] = job'[p].rec]
          /\ Decision(p).next = "VALIDATED" => "VALIDATED" \notin job[p].rec.history
          /\ Decision(p).next # "VALIDATED" => job'[p].rec.token = job[p].rec.token
      BY <1>2, <2>4
    <3>2. CASE i = job[p].id
      <4>1. incidents'[i] = job'[p].rec
        BY <1>0, <3>1, <3>2
      <4>. QED  BY <3>1, <3>2, <4>1
    <3>3. CASE i # job[p].id
      BY <1>0, <2>0, <3>1, <3>3
    <3>. QED  BY <3>2, <3>3
  <2>5. ASSUME NEW canEscalate \in BOOLEAN, NEW kind \in {"VOICE", "SECONDARY"},
               IF kind = "VOICE" THEN Voice(p, canEscalate) ELSE Secondary(p, canEscalate)
        PROVE  incidents'[i].token = incidents[i].token
    <3>1. CASE Escalated(p, kind)
      <4>1. PICK x : x = job'[p].rec
        OBVIOUS
      <4>2. /\ incidents' = [incidents EXCEPT ![job[p].id] = x]
            /\ x.token = job[p].rec.token
        BY <3>1, <4>1 DEF Escalated
      <4>3. job[p].rec = incidents[job[p].id]
        BY <2>5 DEF Voice, Secondary, RecordsSound
      <4>. QED  BY <1>0, <2>0, <4>2, <4>3
    <3>2. CASE UNCHANGED incidents
      BY <3>2
    <3>. QED  BY <1>0, <2>5, <3>1, <3>2, EscalateFacts
  <2>6. ASSUME NEW canEscalate \in BOOLEAN, Voice(p, canEscalate) \/ Secondary(p, canEscalate)
        PROVE  incidents'[i].token = incidents[i].token
    BY <2>5, <2>6
  <2>7. UNCHANGED incidents \/ SaveNewIncident(p) \/ Recover(p)
        \/ \E gateMet, canEscalate \in BOOLEAN :
             Advance(p, gateMet, canEscalate) \/ Voice(p, canEscalate) \/ Secondary(p, canEscalate)
    BY StepCases DEF Outside, Moved, SaveTenant, AuditNewIncident, AuditTransition, records
  <2>. QED  BY <2>1, <2>2, <2>3, <2>4, <2>6, <2>7
<1>4. ASSUME NEW f \in fired', f.key[3] = "SEND_VALIDATION"
      PROVE  /\ incidents'[f.key[1]] # None
             /\ "VALIDATED" \in incidents'[f.key[1]].history
             /\ f.token # None
             /\ f.token = incidents'[f.key[1]].token
  <2>1. CASE f \in fired
    <3>1. /\ f.key[1] \in Opened
          /\ "VALIDATED" \in incidents[f.key[1]].history
          /\ f.token # None /\ f.token = incidents[f.key[1]].token
      BY <1>4, <2>1 DEF LinkIsStored, Noted, Opened
    <3>. QED  BY <1>1, <1>3, <3>1
  <2>2. CASE f \notin fired
    <3>1. PICK gateMet \in BOOLEAN, canEscalate \in BOOLEAN :
            /\ Advance(p, gateMet, canEscalate)
            /\ f.key[1] = job[p].id /\ Decision(p).next = "VALIDATED"
            /\ ~job[p].tenant.shadow /\ f.token = job'[p].rec.token
      BY <1>4, <2>2, FiredFacts
    <3>2. /\ job[p].id \in Opened
          /\ incidents' = [incidents EXCEPT ![job[p].id] = job'[p].rec]
          /\ Decision(p).next \in job'[p].rec.history
          /\ job'[p].rec.token = clock
      BY <1>2, <3>1
    <3>3. incidents'[job[p].id] = job'[p].rec
      BY <1>0, <3>2
    <3>4. clock # None
      BY <1>0, NoneFacts DEF Ids
    <3>. QED  BY <1>1, <3>1, <3>2, <3>3, <3>4
  <2>. QED  BY <2>1, <2>2
<1>. QED  BY <1>4 DEF LinkIsStored

(* A recovery link is fired only for a VALIDATED incident, and stays the one   *)
(* whose token the incident's record holds.                                   *)
THEOREM LinkIsStoredCorrect ==
  ASSUME NEW CONSTANT p, Workers = {p}, Gated = {}
  PROVE  Spec => []LinkIsStored
<1>1. Init => TypeInv /\ RecordsSound(p) /\ Noted /\ TimersOnce /\ LinkIsStored
  BY InitTypeInv, InitRecords DEF Init, Noted, TimersOnce, LinkIsStored
<1>2. TypeInv /\ RecordsSound(p) /\ Noted /\ TimersOnce /\ LinkIsStored /\ [Next]_vars
        => TypeInv' /\ RecordsSound(p)' /\ Noted' /\ TimersOnce' /\ LinkIsStored'
  BY NextTypeInv, NextRecords, NextNoted, NextLink
<1>. QED  BY <1>1, <1>2, PTL DEF Spec

-------------------------------------------------------------------------------
(* One process: the quota.                                                    *)

(* Only SaveNewIncident adds a record.                                        *)
LEMMA OpenedFacts ==
  ASSUME NEW p, Workers = {p}, TypeInv, RecordsSound(p), [Next]_vars
  PROVE  IF SaveNewIncident(p)
         THEN Opened' = Opened \cup {job[p].id} /\ job[p].id \in Ids \ Opened
         ELSE Opened' = Opened
<1>0. /\ p \in Workers /\ job[p].id \in Ids
      /\ incidents \in [Ids -> Records \cup {None}]
  BY DEF TypeInv, TypeOK, Jobs
<1>1. CASE SaveNewIncident(p)
  <2>1. incidents' = [incidents EXCEPT ![job[p].id] = NewIncident(clock)]
    BY <1>1 DEF SaveNewIncident
  <2>2. NewIncident(clock) # None
    BY NewIncidentType, NoneFacts DEF TypeInv, TypeOK
  <2>3. job[p].id \notin Opened
    BY <1>1 DEF SaveNewIncident, RecordsSound, Opened
  <2>. QED  BY <1>0, <1>1, <2>1, <2>2, <2>3 DEF Opened
<1>2. CASE ~SaveNewIncident(p)
  <2>1. Opened \subseteq Opened'
    BY NextRecords DEF Opened
  <2>2. \A i \in Ids \ {job[p].id} : incidents'[i] = incidents[i]
    <3>1. ASSUME NEW canEscalate \in BOOLEAN, NEW kind \in {"VOICE", "SECONDARY"},
                 IF kind = "VOICE" THEN Voice(p, canEscalate) ELSE Secondary(p, canEscalate)
          PROVE  \A i \in Ids \ {job[p].id} : incidents'[i] = incidents[i]
      <4>1. Escalated(p, kind) \/ UNCHANGED incidents
        BY <1>0, <3>1, EscalateFacts
      <4>. QED  BY <1>0, <4>1 DEF Escalated
    <3>2. ASSUME NEW canEscalate \in BOOLEAN, Voice(p, canEscalate) \/ Secondary(p, canEscalate)
          PROVE  \A i \in Ids \ {job[p].id} : incidents'[i] = incidents[i]
      BY <3>1, <3>2
    <3>3. ASSUME NEW gateMet \in BOOLEAN, NEW canEscalate \in BOOLEAN,
                 Advance(p, gateMet, canEscalate)
          PROVE  \A i \in Ids \ {job[p].id} : incidents'[i] = incidents[i]
      BY <1>0, <3>3 DEF Advance
    <3>4. Recover(p) => \A i \in Ids \ {job[p].id} : incidents'[i] = incidents[i]
      BY <1>0 DEF Recover
    <3>5. UNCHANGED incidents \/ Recover(p)
          \/ \E gateMet, canEscalate \in BOOLEAN :
               Advance(p, gateMet, canEscalate) \/ Voice(p, canEscalate) \/ Secondary(p, canEscalate)
      BY <1>2, StepCases DEF Outside, Moved, SaveTenant, AuditNewIncident, AuditTransition, records
    <3>. QED  BY <3>2, <3>3, <3>4, <3>5
  <2>3. job[p].id \in Opened \/ UNCHANGED incidents
    <3>1. ASSUME pc[p] \in {"claude", "voice", "secondary"} PROVE job[p].id \in Opened
      BY <1>0, <3>1 DEF RecordsSound, TypeInv, LocalsSet, InProcessing, Opened
    <3>2. UNCHANGED incidents \/ pc[p] \in {"claude", "voice", "secondary"}
      <4>1. ASSUME NEW gateMet \in BOOLEAN, NEW canEscalate \in BOOLEAN,
                   \/ Recover(p) \/ Advance(p, gateMet, canEscalate)
                   \/ Voice(p, canEscalate) \/ Secondary(p, canEscalate)
            PROVE  pc[p] \in {"claude", "voice", "secondary"}
        BY <4>1 DEF Recover, Advance, Voice, Secondary
      <4>2. UNCHANGED incidents \/ Recover(p)
            \/ \E gateMet, canEscalate \in BOOLEAN :
                 Advance(p, gateMet, canEscalate) \/ Voice(p, canEscalate) \/ Secondary(p, canEscalate)
        BY <1>2, StepCases DEF Outside, Moved, SaveTenant, AuditNewIncident, AuditTransition, records
      <4>. QED  BY <4>1, <4>2
    <3>. QED  BY <3>1, <3>2
  <2>4. Opened' \subseteq Opened
    BY <2>2, <2>3 DEF Opened
  <2>. QED  BY <1>2, <2>1, <2>4
<1>. QED  BY <1>1, <1>2

(* The stored records, the tenant's count and the count the pass read agree,   *)
(* and a pass that may store another record was within the quota.             *)
Counted(p) ==
  crashes = 0 =>
    /\ Cardinality(Opened) =
         IF pc[p] \in {"set_active", "save_tenant"} THEN tenant.count + 1 ELSE tenant.count
    /\ pc[p] \in {"fetch", "lock_create", "recheck", "claude_create", "save_new",
                  "set_active", "save_tenant"} => job[p].tenant.count = tenant.count
    /\ Quota # -1 =>
         /\ tenant.count <= Quota
         /\ pc[p] \in {"claude_create", "save_new", "set_active", "save_tenant"} =>
              tenant.count < Quota

LEMMA NextCounted ==
  ASSUME NEW p, Workers = {p}, TypeInv, RecordsSound(p), Counted(p), [Next]_vars
  PROVE  Counted(p)'
<1>0. /\ p \in Workers /\ pc \in [Workers -> PassPoints] /\ tenant.count \in Nat
      /\ job[p].tenant \in TenantRecords /\ job[p].tenant.count \in Nat
  BY DEF TypeInv, TypeOK, Jobs, TenantRecords
<1>. SUFFICES ASSUME crashes' = 0 PROVE Counted(p)'
  BY DEF Counted
<1>1. IsFiniteSet(Opened)
  <2>1. IsFiniteSet(0 .. MaxTime)
    BY LoopAssumption, FS_Interval
  <2>. QED  BY <2>1, FS_Subset DEF Opened, Ids, Time
<1>2. ASSUME ~SaveNewIncident(p) PROVE Opened' = Opened
  BY <1>2, OpenedFacts
<1>3. CASE SaveNewIncident(p)
  <2>1. Opened' = Opened \cup {job[p].id} /\ job[p].id \notin Opened
    BY <1>3, OpenedFacts
  <2>2. Cardinality(Opened') = Cardinality(Opened) + 1
    BY <1>1, <2>1, FS_AddElement
  <2>3. /\ pc[p] = "save_new" /\ pc'[p] = "set_active" /\ UNCHANGED <<tenant, job, crashes>>
    BY <1>0, <1>3 DEF SaveNewIncident, Goto
  <2>. QED  BY <2>2, <2>3 DEF Counted
<1>4. CASE SaveTenant(p)
  <2>1. /\ pc[p] = "save_tenant" /\ pc'[p] = "audit_new" /\ UNCHANGED crashes
        /\ tenant'.count = job[p].tenant.count + 1
    BY <1>0, <1>4 DEF SaveTenant, Goto, TenantRecords
  <2>2. ~SaveNewIncident(p)
    BY <2>1 DEF SaveNewIncident
  <2>. QED  BY <1>0, <1>2, <2>1, <2>2, LoopAssumption DEF Counted
<1>5. CASE Outside
  <2>1. ~SaveNewIncident(p)
    BY <1>0, <1>5 DEF Outside, SaveNewIncident, Goto
  <2>. QED  BY <1>2, <1>5, <2>1 DEF Outside, Counted
<1>6. CASE Moved(p)
  <2>1. UNCHANGED <<incidents, tenant>> /\ crashes = 0
    BY <1>6 DEF Moved
  <2>2. Opened' = Opened
    BY <2>1 DEF Opened
  <2>3. pc'[p] \in {"set_active", "save_tenant"} <=> pc[p] \in {"set_active", "save_tenant"}
    BY <1>6 DEF Moved
  <2>4. pc'[p] \in {"fetch", "lock_create", "recheck", "claude_create", "save_new",
                    "set_active", "save_tenant"} => job'[p].tenant.count = tenant.count
    BY <1>6, <2>1 DEF Moved, Keeps, Counted
  <2>5. ASSUME Quota # -1,
               pc'[p] \in {"claude_create", "save_new", "set_active", "save_tenant"}
        PROVE  tenant.count < Quota
    <3>1. CASE pc[p] \in {"claude_create", "save_new", "set_active", "save_tenant"}
      BY <2>1, <2>5, <3>1 DEF Counted
    <3>2. CASE pc[p] \notin {"claude_create", "save_new", "set_active", "save_tenant"}
      <4>1. pc[p] = "recheck" /\ QuotaRemaining(job[p].tenant) # 0
        BY <1>6, <2>5, <3>2 DEF Moved
      <4>2. job[p].tenant.count = tenant.count
        BY <2>1, <4>1 DEF Counted
      <4>. QED  BY <2>5, <4>1, <4>2 DEF QuotaRemaining
    <3>. QED  BY <3>1, <3>2
  <2>. QED  BY <2>1, <2>2, <2>3, <2>4, <2>5 DEF Counted
<1>7. ASSUME UNCHANGED <<tenant, crashes>>,
             pc[p] \notin {"save_new", "set_active", "save_tenant"},
             pc'[p] \in {"unlock_create", "unlock_incident", "audit", "voice", "secondary"}
      PROVE  Counted(p)'
  <2>1. ~SaveNewIncident(p)
    BY <1>7 DEF SaveNewIncident
  <2>. QED  BY <1>2, <1>7, <2>1 DEF Counted
<1>8. CASE AuditNewIncident(p) \/ Recover(p) \/ AuditTransition(p)
  BY <1>0, <1>7, <1>8 DEF AuditNewIncident, Recover, AuditTransition, Goto, records
<1>9. ASSUME NEW gateMet \in BOOLEAN, NEW canEscalate \in BOOLEAN,
             \/ Advance(p, gateMet, canEscalate)
             \/ Voice(p, canEscalate) \/ Secondary(p, canEscalate)
      PROVE  Counted(p)'
  BY <1>0, <1>7, <1>9 DEF Advance, Voice, Secondary, Goto
<1>. QED  BY StepCases, <1>3, <1>4, <1>5, <1>6, <1>8, <1>9

(* No more incidents are stored than the plan includes, unless a process       *)
(* crashed: leases lost and keys expired notwithstanding.                     *)
THEOREM QuotaHoldsCorrect ==
  ASSUME NEW CONSTANT p, Workers = {p}
  PROVE  Spec => []QuotaHolds
<1>1. Init => TypeInv /\ RecordsSound(p) /\ Counted(p)
  <2>1. ASSUME Init PROVE Counted(p)
    <3>1. /\ pc[p] = "idle" /\ tenant.count = 0
          /\ Opened = {}
      BY <2>1 DEF Init, Opened
    <3>. QED  BY <3>1, FS_EmptySet, LoopAssumption DEF Counted
  <2>. QED  BY <2>1, InitTypeInv, InitRecords
<1>2. TypeInv /\ RecordsSound(p) /\ Counted(p) /\ [Next]_vars
        => TypeInv' /\ RecordsSound(p)' /\ Counted(p)'
  BY NextTypeInv, NextRecords, NextCounted
<1>3. TypeInv /\ Counted(p) => QuotaHolds
  BY LoopAssumption DEF Counted, QuotaHolds, TypeInv, TypeOK, TenantRecords, Opened
<1>. QED  BY <1>1, <1>2, <1>3, PTL DEF Spec

=============================================================================
