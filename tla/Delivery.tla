------------------------------- MODULE Delivery -------------------------------
(***************************************************************************)
(* Messages to the engineers of one tenant: dispatch() and the other ways   *)
(* to send of orchestrator/notifications.py, the providers they send with,  *)
(* telegram_notifier.py, the delivery ledger, and the circuit breaker of    *)
(* circuit_breaker.py that the processes share in Redis.                    *)
(*                                                                         *)
(* A breaker is a hash with two fields.  A check is HGETALL and perhaps a   *)
(* Lua script, a failure HINCRBY and perhaps HSET: between the commands     *)
(* other processes act.  record_success is HGETALL and DEL, which is one    *)
(* DEL to everybody else.  Redis commands in a row take no time against     *)
(* the cooldown, a message may take any.  CB_TTL is beyond the cooldown,    *)
(* and expires a breaker that blocks nobody any more.                       *)
(***************************************************************************)
EXTENDS Naturals

CONSTANTS
  Workers,     \* tasks that may send for the tenant at once, of any process
  Recipients,  \* phone numbers, or chats, of the tenant
  Configured,  \* whether the tenant's channel has its credentials
  HasSlack,    \* a Slack webhook, on a plan that includes it
  HasFallback, \* FALLBACK_WEBHOOK_URL
  Threshold,   \* CB_FAILURE_THRESHOLD
  Cooldown     \* CB_COOLDOWN_S

ASSUME DeliveryAssumption ==
  /\ {Threshold, Cooldown} \subseteq Nat \ {0}
  /\ Recipients \in Nat
  /\ {Configured, HasSlack, HasFallback} \subseteq BOOLEAN

VARIABLES
  each,     \* whether the tenant's provider records each recipient's send
            \* (whatsapp, whatsapp_meta) or the whole (sent; telegram, which
            \* has one chat)
  up,       \* whether the provider, Redis and the processes work
  breaker,  \* failure_count, and what is left of the cooldown
  worker,   \* the message each worker is sending
  ledger,   \* outcomes in the incident's delivery log
  asked,    \* whether dispatch was called for the incident
  reached,  \* whether a channel "told" dispatch that it took a message, or
            \* one was taken "beside" that: by another way to send, or by
            \* the first recipients of a send that then failed
  culprits, \* messages with a failure in failure_count, up to Threshold
  lost      \* whether a ledger entry was lost

vars == <<each, up, breaker, worker, ledger, asked, reached, culprits, lost>>

-------------------------------------------------------------------------------
Unset == Cooldown + 1    \* no disabled_until in the hash

(* A count beyond the threshold says no more than the threshold.              *)
Breakers == [count : 0..Threshold, left : 0..Unset]
Absent == [count |-> 0, left |-> Unset]

Points == {"idle", "gate", "door", "sending", "tally", "outcome", "slack", "fallback"}

(* What the polling loop sends with: a telegram tenant's messages go to the   *)
(* bot, anybody else's through dispatch; and the two escalations.             *)
Routes == {"dispatch", "telegram"}
Escalations == {"voice", "secondary"}

(* "direct" is _send_with_fallback, behind the functions of the public API.   *)
Kinds == Routes \cup Escalations \cup {"direct"}

(* at: what the task does next; pending: a Redis command to do before that,   *)
(* the Lua script or the HSET; to: recipients not tried yet; result: of the   *)
(* primary; guilty: a culprit.                                                *)
Results == {"none", "ok", "failed"}
Idle == [at |-> "idle", kind |-> "dispatch", pending |-> "none", to |-> 0,
         result |-> "none", guilty |-> FALSE]
WorkerStates == [at : Points, kind : Kinds,
                 pending : {"none", "reset", "open"}, to : 0..Recipients,
                 result : Results, guilty : BOOLEAN]

Init == /\ each \in BOOLEAN
        /\ up \in BOOLEAN
        /\ breaker = Absent
        /\ worker = [w \in Workers |-> Idle]
        /\ ledger = {}
        /\ asked = FALSE
        /\ reached = "none"
        /\ culprits = 0
        /\ lost = FALSE

At(w, point) == worker[w].at = point /\ worker[w].pending = "none"

Tripped == breaker.count = Threshold
Cooling == breaker.left \in 1..Cooldown
Open    == Tripped /\ Cooling

ForgetCooldown(others) ==    \* HDEL of disabled_until, the count stays
  /\ breaker' = [breaker EXCEPT !.left = Unset]
  /\ culprits' = 0
  /\ worker' = [w \in Workers |-> [others[w] EXCEPT !.guilty = FALSE]]

(* DEL of the key, and with it of whatever was counted.                       *)
Forget(others) ==
  /\ breaker' = Absent
  /\ culprits' = 0
  /\ worker' = [w \in Workers |-> [others[w] EXCEPT !.guilty = FALSE]]

(* HINCRBY, of the message that w is sending, which goes on at point.         *)
Blame(w, changed) ==
  LET count == IF Tripped THEN Threshold ELSE breaker.count + 1
  IN
  /\ breaker' = [breaker EXCEPT !.count = count]
  /\ culprits' = IF worker[w].guilty \/ culprits = Threshold THEN culprits ELSE culprits + 1
  /\ worker' = [worker EXCEPT ![w] =
       [changed EXCEPT !.guilty = TRUE,
                       !.pending = IF count = Threshold THEN "open" ELSE "none"]]

(* record_success and record_failure, both of which may fail unnoticed.       *)
Score(w, ok, changed) ==
  \/ IF ok THEN Forget([worker EXCEPT ![w] = changed]) ELSE Blame(w, changed)
  \/ /\ ~up
     /\ worker' = [worker EXCEPT ![w] = changed]
     /\ UNCHANGED <<breaker, culprits>>

-------------------------------------------------------------------------------
Begin(w, kind) ==
  /\ At(w, "idle")
  /\ worker' = [worker EXCEPT ![w] =
       IF kind \in {"dispatch", "direct"}
       THEN [Idle EXCEPT !.at = "gate", !.kind = kind, !.to = Recipients]
       ELSE [Idle EXCEPT !.at = "sending", !.kind = kind]]
  /\ asked' = (asked \/ kind = "dispatch")
  /\ UNCHANGED <<each, up, breaker, ledger, reached, culprits, lost>>

Ready == Configured /\ Recipients > 0

(* What follows a check: of dispatch, which then calls its provider or makes  *)
(* do without; of the provider, which answers without trying if the breaker   *)
(* is open now or there is nobody to send to; and of _send_with_fallback.     *)
AfterCheck(w, open) ==
  LET r == worker[w]
  IN
  CASE r.at = "gate" /\ open /\ r.kind = "dispatch" -> [r EXCEPT !.at = "slack"]
    [] r.at = "gate" /\ open /\ r.kind = "direct"   -> [r EXCEPT !.at = "fallback"]
    [] r.at = "gate" /\ ~open /\ r.kind = "dispatch" -> [r EXCEPT !.at = "door"]
    [] r.at = "door" /\ (open \/ ~Ready) -> [r EXCEPT !.at = "tally", !.result = "failed"]
    [] OTHER -> IF Ready THEN [r EXCEPT !.at = "sending"]
                ELSE [r EXCEPT !.at = "outcome", !.result = "failed"]

(* is_open: open while it cools down.  Once that is over a script resets it.  *)
Check(w) ==
  /\ At(w, "gate") \/ At(w, "door")
  /\ \/ worker' = [worker EXCEPT ![w] =
          IF Tripped /\ ~Cooling THEN [@ EXCEPT !.pending = "reset"]
          ELSE AfterCheck(w, Open)]
     \/ /\ ~up    \* an error lets the message pass
        /\ worker' = [worker EXCEPT ![w] = AfterCheck(w, FALSE)]
  /\ UNCHANGED <<each, up, breaker, ledger, asked, reached, culprits, lost>>

KeepLapsed(w) ==    \* the script forgotten: a lapsed breaker blocks
  /\ worker[w].pending = "reset"
  /\ worker' = [worker EXCEPT ![w] = [AfterCheck(w, TRUE) EXCEPT !.pending = "none"]]
  /\ UNCHANGED <<each, up, breaker, ledger, asked, reached, culprits, lost>>

(* The script checks again, and deletes a breaker whose cooldown is over.  An  *)
(* error lets the message pass.                                               *)
Reset(w) ==
  LET passed == [worker EXCEPT ![w] = [AfterCheck(w, FALSE) EXCEPT !.pending = "none"]]
  IN
  /\ worker[w].pending = "reset"
  /\ \/ breaker.left = 0 /\ Forget(passed)
     \/ /\ breaker.left # 0 \/ ~up
        /\ worker' = passed
        /\ UNCHANGED <<breaker, culprits>>
  /\ UNCHANGED <<each, up, ledger, asked, reached, lost>>

TripLonger(w) ==    \* the cooldown is added to what is left
  /\ worker[w].pending = "open"
  /\ breaker' = [breaker EXCEPT !.left = @ + Cooldown]
  /\ worker' = [worker EXCEPT ![w].pending = "none"]
  /\ UNCHANGED <<each, up, ledger, asked, reached, culprits, lost>>

(* Opening the breaker: HSET of disabled_until after the HINCRBY, or an error. *)
Trip(w) ==
  /\ worker[w].pending = "open"
  /\ \/ breaker' = [breaker EXCEPT !.left = Cooldown]
     \/ ~up /\ UNCHANGED breaker
  /\ worker' = [worker EXCEPT ![w].pending = "none"]
  /\ UNCHANGED <<each, up, ledger, asked, reached, culprits, lost>>

Told(ok)   == reached' = IF ok THEN "told" ELSE reached
Beside(ok) == reached' = IF ok /\ reached = "none" THEN "beside" ELSE reached

(* While the provider works it takes every message, otherwise it may take     *)
(* some.  One that was reached makes the message a success.                   *)
SendTo(w, left, ok) ==
  /\ At(w, "sending")
  /\ worker[w].kind = "dispatch"
  /\ Score(w, ok, [worker[w] EXCEPT
       !.to = left,
       !.result = IF ok \/ worker[w].result = "ok" THEN "ok" ELSE "failed",
       !.at = IF left = 0 THEN "tally" ELSE "sending"])
  /\ UNCHANGED <<each, up, ledger, asked, lost>>

(* Each recipient's send is recorded.                                         *)
SendEach(w) ==
  /\ each
  /\ \E ok \in {TRUE} \cup {up} : SendTo(w, worker[w].to - 1, ok) /\ Told(ok)

(* The send to all of them is recorded.  sent sends to one after the other: one *)
(* that raises ends the loop and fails the message, whoever was reached first. *)
SendWhole(w) ==
  /\ ~each
  /\ \E ok \in {TRUE} \cup {up} :
       /\ SendTo(w, 0, ok)
       /\ \/ Told(ok)
          \/ ~ok /\ Recipients > 1 /\ Beside(TRUE)

(* _whatsapp_send, which records nothing itself.                              *)
SendDirect(w) ==
  /\ At(w, "sending")
  /\ worker[w].kind = "direct"
  /\ \E ok \in {TRUE} \cup {up} :
       /\ worker' = [worker EXCEPT ![w].at = "outcome",
                                   ![w].result = IF ok THEN "ok" ELSE "failed"]
       /\ Beside(ok)
  /\ UNCHANGED <<each, up, breaker, ledger, asked, culprits, lost>>

(* send_telegram and the voice call, where they are configured: no breaker is  *)
(* asked or told, nothing is entered in the ledger, no other channel is tried. *)
SendBare(w) ==
  /\ At(w, "sending")
  /\ worker' = [worker EXCEPT ![w] = Idle]
  /\ \E ok \in BOOLEAN : Beside(ok)
  /\ UNCHANGED <<each, up, breaker, ledger, asked, culprits, lost>>

SendTelegram(w) == worker[w].kind = "telegram" /\ SendBare(w)
SendVoice(w)    == worker[w].kind = "voice" /\ SendBare(w)

(* The second engineer, if there is one: a message that raises is posted to   *)
(* the fallback.                                                              *)
SendSecondary(w) ==
  /\ At(w, "sending")
  /\ worker[w].kind = "secondary"
  /\ \/ /\ worker' = [worker EXCEPT ![w] = Idle]
        /\ \E ok \in BOOLEAN : Beside(ok)
     \/ /\ ~up
        /\ worker' = [worker EXCEPT ![w].at = "fallback"]
        /\ UNCHANGED reached
  /\ UNCHANGED <<each, up, breaker, ledger, asked, culprits, lost>>

EnterFailures(ok) ==    \* only what went wrong is worth an entry
  /\ ledger' = IF ok THEN ledger ELSE ledger \cup {ok}
  /\ UNCHANGED lost

(* record_from_result                                                         *)
Enter(ok) ==
  \/ ledger' = ledger \cup {ok} /\ UNCHANGED lost
  \/ ~up /\ lost' = TRUE /\ UNCHANGED ledger

Tally(w) ==
  /\ At(w, "tally")
  /\ Enter(worker[w].result = "ok")
  /\ worker' = [worker EXCEPT ![w].at = "outcome"]
  /\ UNCHANGED <<each, up, breaker, asked, reached, culprits>>

(* cb_record of the primary's result, which the provider may have recorded    *)
(* already.                                                                   *)
Outcome(w) ==
  LET r == worker[w]
      next == CASE r.kind = "dispatch" -> [r EXCEPT !.at = "slack"]
                [] r.result = "ok"     -> Idle
                [] OTHER               -> [r EXCEPT !.at = "fallback"]
  IN
  /\ At(w, "outcome")
  /\ Score(w, r.result = "ok", next)
  /\ UNCHANGED <<each, up, ledger, asked, reached, lost>>

(* Slack, if the tenant has it: its own breaker may suppress it, and it may   *)
(* fail.  It does not replace the fallback.                                   *)
Slack(w) ==
  /\ At(w, "slack")
  /\ worker' = [worker EXCEPT ![w] =
       IF @.result = "ok" THEN Idle ELSE [@ EXCEPT !.at = "fallback"]]
  /\ IF HasSlack
     THEN \E ok \in BOOLEAN :
            /\ Enter(ok)
            /\ Told(ok)
     ELSE UNCHANGED <<ledger, lost, reached>>
  /\ UNCHANGED <<each, up, breaker, asked, culprits>>

(* The fallback webhook: of dispatch, in the ledger as well.                  *)
Fallback(w) ==
  /\ At(w, "fallback")
  /\ worker[w].kind = "dispatch"
  /\ worker' = [worker EXCEPT ![w] = Idle]
  /\ \E ok \in {FALSE, HasFallback} : Enter(ok) /\ Told(ok)
  /\ UNCHANGED <<each, up, breaker, asked, culprits>>

(* _send_fallback, of which the ledger knows nothing.                         *)
SendFallback(w) ==
  /\ At(w, "fallback")
  /\ worker[w].kind # "dispatch"
  /\ worker' = [worker EXCEPT ![w] = Idle]
  /\ \E ok \in {FALSE, HasFallback} : Beside(ok)
  /\ UNCHANGED <<each, up, breaker, ledger, asked, culprits, lost>>

(* The process dies wherever it is, between two Redis commands for instance.  *)
Die(w) ==
  /\ ~up
  /\ worker[w].at # "idle"
  /\ worker' = [worker EXCEPT ![w] = Idle]
  /\ lost' = TRUE
  /\ UNCHANGED <<each, up, breaker, ledger, asked, reached, culprits>>

(* A part of the cooldown passes while messages are under way or about to be, *)
(* but not between the Redis commands before and after one.                   *)
Tick ==
  /\ Cooling
  /\ \A w \in Workers : /\ worker[w].pending = "none"
                       /\ worker[w].at \notin {"door", "tally", "outcome"}
  /\ breaker' = [breaker EXCEPT !.left = @ - 1]
  /\ UNCHANGED <<each, up, worker, ledger, asked, reached, culprits, lost>>

(* The provider, Redis or a process begins to fail, or all of them recover.   *)
World == /\ up' = ~up
         /\ UNCHANGED <<each, breaker, worker, ledger, asked, reached, culprits, lost>>

Step(w) == \/ Check(w) \/ Reset(w) \/ Trip(w) \/ SendEach(w) \/ SendWhole(w)
           \/ SendDirect(w) \/ SendTelegram(w) \/ SendVoice(w) \/ SendSecondary(w)
           \/ Tally(w) \/ Outcome(w) \/ Slack(w) \/ Fallback(w) \/ SendFallback(w)

Next == \/ \E w \in Workers : \/ \E kind \in Kinds : Begin(w, kind)
                              \/ Step(w)
                              \/ Die(w)
        \/ Tick
        \/ World

Spec == Init /\ [][Next]_vars

(* Clocks go on, however busy the workers are, and asyncio and its executor   *)
(* run every task to its end: everything in it has a timeout.                 *)
FairSpec == Spec /\ SF_vars(Tick) /\ \A w \in Workers : WF_vars(Step(w))

-------------------------------------------------------------------------------
(* The breaker, the workers and the ledger keep their types.                  *)
TypeOK == /\ {each, up} \subseteq BOOLEAN
          /\ breaker \in Breakers
          /\ worker \in [Workers -> WorkerStates]
          /\ ledger \subseteq BOOLEAN
          /\ asked \in BOOLEAN
          /\ reached \in {"none", "beside", "told"}
          /\ culprits \in 0..Threshold
          /\ lost \in BOOLEAN

(* How often one message can be counted as a failure: by the provider for     *)
(* each recipient, or once, and then by dispatch.                             *)
CountsPerMessage == IF each THEN Recipients + 1 ELSE 2

(* An open breaker was opened by as many messages that failed after the last  *)
(* success or reset as the threshold takes: no failure counts again after the *)
(* breaker was reset, whoever resets, counts and checks at the same time.     *)
SuppressionEarned == Open => culprits * CountsPerMessage >= Threshold

(* Every message has been dealt with, and none of its entries was lost.       *)
Settled == /\ asked
           /\ ~lost
           /\ \A w \in Workers : worker[w].at = "idle"

(* all_failed of the delivery ledger misses no blackout of an incident that    *)
(* dispatch was called for: it holds exactly if no channel told dispatch that  *)
(* it took a message, whether channels were suppressed, failed or were missing *)
(* and however the messages overlapped.                                        *)
BlackoutSeen == Settled => ((ledger = {FALSE}) <=> reached # "told")

(* Once the provider and Redis work again the provider is used again: while   *)
(* messages come, the breaker never keeps it out for good, whatever is left   *)
(* of its failures in Redis and in the processes that counted them.           *)
HealthyIsUsed ==
  (/\ <>[]up
   /\ []<><<\E w \in Workers : Begin(w, "dispatch")>>_vars)
    => []<>(\E w \in Workers : worker[w].kind = "dispatch" /\ worker[w].result = "ok")

-------------------------------------------------------------------------------
(* What the repository says of the ledger and is not so: all_failed tells a    *)
(* total notification blackout, one in which nobody was reached at all.        *)
AllFailedIsBlackout == Settled => ((ledger = {FALSE}) <=> reached = "none")

===============================================================================
