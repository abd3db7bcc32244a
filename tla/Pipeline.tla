------------------------------- MODULE Pipeline -------------------------------
(***************************************************************************)
(* The pure incident state machine of orchestrator/pipeline.py: the stages, *)
(* the transition table, the transition guard and the decision taken from   *)
(* an incident's stage and a health reading.  Nothing here has state; the   *)
(* polling executor (IncidentLoop) applies these operators to the incident  *)
(* records it keeps in Redis.                                               *)
(*                                                                          *)
(* A health reading is reduced to what the code tells apart: the status the *)
(* service reports, whether should_recover(score, err) holds, and whether   *)
(* should_alert(score, err) holds.                                          *)
(***************************************************************************)

Stages == {"DETECTED", "PROPOSED", "VALIDATED", "AUTHORIZED", "EXECUTED",
           "RESOLVED", "RECOVERED", "WEBHOOK_FAILED", "EXPIRED", "FAILED"}

NoStage == "NONE"    \* Python's None: no next stage

IsTerminal(stage) == stage \in {"RESOLVED", "RECOVERED", "EXPIRED", "FAILED"}

AllowedTransitions ==
  [s \in Stages |->
     CASE s = "DETECTED"   -> "PROPOSED"
       [] s = "PROPOSED"   -> "VALIDATED"
       [] s = "VALIDATED"  -> "AUTHORIZED"
       [] s = "AUTHORIZED" -> "EXECUTED"
       [] s = "EXECUTED"   -> "RESOLVED"
       [] OTHER            -> NoStage]

RecoverableStages ==
  {"DETECTED", "PROPOSED", "VALIDATED", "AUTHORIZED", "EXECUTED"}

(* gateMet abstracts "age >= STAGE_GATES[target]"; the gates default to 0. *)
CanTransition(stage, target, gateMet) ==
  /\ target # stage
  /\ \/ /\ target = "RECOVERED"
        /\ stage \in RecoverableStages
     \/ /\ target # "RECOVERED"
        /\ AllowedTransitions[stage] = target
        /\ gateMet

(* Transition with the history forgotten. *)
ForgetfulTransition(incident, target, gateMet) ==
  IF CanTransition(incident.stage, target, gateMet)
  THEN [incident EXCEPT !.stage = target] ELSE incident

(* transition() hands the incident back unchanged when it is not allowed. *)
Transition(incident, target, gateMet) ==
  IF CanTransition(incident.stage, target, gateMet)
  THEN [incident EXCEPT !.stage = target, !.history = @ \cup {target}]
  ELSE incident

(***************************************************************************)
(* decide(): recovery by policy overrides the pipeline; otherwise the next  *)
(* stage is the table's, whatever the model recommended.  A notification is *)
(* named by the idempotency action type _execute_actions sends it under; the *)
(* actions are carried out in the order of the list.                        *)
(***************************************************************************)
LateTokenActions(next) ==    \* the message with the link before the token
  CASE next = "RECOVERED"  -> <<"SEND_RECOVERY">>
    [] next = "PROPOSED"   -> <<"SEND_DETECTION">>
    [] next = "VALIDATED"  -> <<"SEND_VALIDATION", "GENERATE_TOKEN">>
    [] next = "AUTHORIZED" -> <<"ESCALATE">>
    [] OTHER               -> <<>>

StageActions(next) ==
  CASE next = "RECOVERED"  -> <<"SEND_RECOVERY">>
    [] next = "PROPOSED"   -> <<"SEND_DETECTION">>
    [] next = "VALIDATED"  -> <<"GENERATE_TOKEN", "SEND_VALIDATION">>
    [] next = "AUTHORIZED" -> <<"ESCALATE">>
    [] OTHER               -> <<>>

Decide(stage, recovered) ==
  LET next == IF recovered THEN "RECOVERED" ELSE AllowedTransitions[stage]
  IN  [next |-> next, actions |-> StageActions(next)]

(* decide_new_incident(): a new incident notifies CRITICAL at once. *)
DecideNewIncident == [next |-> "DETECTED", actions |-> <<"SEND_DETECTION">>]

Statuses == {"healthy", "degraded", "critical"}

(***************************************************************************)
(* The readings a service can report.  Its status is critical below a score *)
(* of 40 and healthy from 70 up, and recovery needs a score above 70 with   *)
(* few errors, so only a healthy reading can be a recovered one.  Whether   *)
(* the error rate is high enough to alert is asked only of a critical one.  *)
(***************************************************************************)
HealthReadings ==
  {h \in [status : Statuses, recovered : BOOLEAN, alert : BOOLEAN] :
     /\ h.recovered => h.status = "healthy"
     /\ h.alert => h.status = "critical"}
=============================================================================
