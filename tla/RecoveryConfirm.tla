---------------------------- MODULE RecoveryConfirm ----------------------------
(***************************************************************************)
(* Recovery links: the tokens of orchestrator/action_generator.py and the   *)
(* endpoints of main.py that show them and spend them.                      *)
(*                                                                         *)
(* A token is a signed record of what it authorises and when it was minted; *)
(* nothing is stored for it until it is spent.  Spending it is SET NX EX on *)
(* a key that outlives it, or so its time to live must see to.  A request   *)
(* checks the token first and sets the key afterwards, and any number of    *)
(* processes serve requests for one token.                                  *)
(***************************************************************************)
EXTENDS Naturals, Sequences, FiniteSets

CONSTANTS
  Incidents,
  TokenTTL,     \* RECOVERY_TOKEN_TTL_S
  UsedTTL,      \* USED_TTL
  MaxStall,     \* longest time from the check of a token to its SET NX
  Attempts,     \* attempts at the webhook
  HasWebhook,   \* whether the tenant has configured a recovery webhook
  Faults,       \* whether Redis commands may fail
  MaxTime,      \* bound on the clock
  MaxLinks,     \* bound on the tokens minted
  MaxRequests,  \* bound on the confirmations posted
  MaxCrashes    \* bound on the requests whose process dies

ASSUME ConfirmAssumption ==
  /\ {TokenTTL, UsedTTL, MaxStall, MaxTime, MaxLinks, MaxRequests, MaxCrashes} \subseteq Nat
  /\ Attempts \in Nat \ {0}
  /\ {HasWebhook, Faults} \subseteq BOOLEAN

(* The key of a spent token outlives the token for any request that has       *)
(* already checked it.                                                        *)
ASSUME MarkerOutlivesToken == TokenTTL + MaxStall <= UsedTTL

VARIABLES
  now,       \* the clock, seconds
  links,     \* tokens sent to engineers
  spent,     \* of each token, when its used_token key expires: 0 for no key
  requests,  \* confirmations, in the order they were posted
  audit,     \* entries written: <<request, stage>>
  dlq,       \* requests whose failure is in the dead-letter queue
  crashes

vars == <<now, links, spent, requests, audit, dlq, crashes>>

-------------------------------------------------------------------------------
(* Two tokens minted for an incident in the same second are the same token.   *)
Tokens == [incident : Incidents, iat : 0..MaxTime]

(* Where a request is.  From authorized on it has spent its token.            *)
Inside  == {"authorized", "audited", "calling", "succeeded", "failed", "undelivered"}
Ended   == {"done", "died"}
Steps   == {"posted", "checked", "refused", "unavailable", "dropped"} \cup Inside \cup Ended

(* won: SET NX answered OK; at: when the token was checked; ran: how often    *)
(* the webhook carried the action out; lost: a write for it failed.           *)
Requests == [token : Tokens, step : Steps, won : BOOLEAN, at : 0..MaxTime,
             tries : 0..Attempts, ran : 0..Attempts, lost : BOOLEAN]

Stages == {"AUTHORIZED", "EXECUTED", "WEBHOOK_FAILED"}

Init == /\ now = 0
        /\ links = {}
        /\ spent = [t \in Tokens |-> 0]
        /\ requests = <<>>
        /\ audit = {}
        /\ dlq = {}
        /\ crashes = 0

(* A signature made here and an expiry in the future.                         *)
Valid(t) == t \in links /\ now < t.iat + TokenTTL

(* Time passes, but no request waits longer than MaxStall inside              *)
(* validate_and_consume.                                                      *)
Tick ==
  /\ now < MaxTime
  /\ \A n \in DOMAIN requests :
       requests[n].step = "checked" => now < requests[n].at + MaxStall
  /\ now' = now + 1
  /\ UNCHANGED <<links, spent, requests, audit, dlq, crashes>>

(* generate_recovery_token, for each notification about an incident.          *)
Mint(i) ==
  /\ Cardinality(links) < MaxLinks
  /\ links' = links \cup {[incident |-> i, iat |-> now]}
  /\ UNCHANGED <<now, spent, requests, audit, dlq, crashes>>

(* A confirmation page, which GET /action/recover shows while the token is    *)
(* valid and changes nothing by it, is posted, as often as it is clicked.     *)
Post(t) ==
  /\ t \in links
  /\ Len(requests) < MaxRequests
  /\ requests' = Append(requests,
       [token |-> t, step |-> "posted", won |-> FALSE, at |-> t.iat,
        tries |-> 0, ran |-> 0, lost |-> FALSE])
  /\ UNCHANGED <<now, links, spent, audit, dlq, crashes>>

Become(n, step) == requests' = [requests EXCEPT ![n].step = step]

(* verify_recovery_token, twice in a row.                                     *)
Check(n) ==
  /\ requests[n].step = "posted"
  /\ requests' = [requests EXCEPT ![n].at = now,
       ![n].step = IF Valid(requests[n].token) THEN "checked" ELSE "refused"]
  /\ UNCHANGED <<now, links, spent, audit, dlq, crashes>>

(* consume_token: SET NX EX.  When it fails, closed, nobody can tell if Redis *)
(* has set the key.                                                           *)
SpendWith(n, ttl) ==
  LET t == requests[n].token
      Set == spent' = [spent EXCEPT ![t] = now + ttl]
      Free == spent[t] <= now
  IN
  /\ requests[n].step = "checked"
  /\ \/ /\ Free
        /\ Set
        /\ requests' = [requests EXCEPT ![n].step = "authorized", ![n].won = TRUE]
     \/ /\ ~Free
        /\ Become(n, "refused")
        /\ UNCHANGED spent
     \/ /\ Faults
        /\ Become(n, "unavailable")
        /\ \/ UNCHANGED spent
           \/ Free /\ Set
  /\ UNCHANGED <<now, links, audit, dlq, crashes>>

SpendBriefly(n) == SpendWith(n, TokenTTL)    \* the key lives as long as a token
Spend(n) == SpendWith(n, UsedTTL)

(* append_event: the entry is written, or lost, reported and forgotten.       *)
Record(n, stage, step) ==
  /\ requests' = [requests EXCEPT ![n].step = step]
  /\ audit' = audit \cup {<<n, stage>>}

Lose(n, step) ==
  /\ Faults
  /\ requests' = [requests EXCEPT ![n].step = step, ![n].lost = TRUE]
  /\ UNCHANGED <<audit, dlq>>

AuditAuthorized(n) ==
  /\ requests[n].step = "authorized"
  /\ \/ Record(n, "AUTHORIZED", "audited") /\ UNCHANGED dlq
     \/ Lose(n, "audited")
  /\ UNCHANGED <<now, links, spent, crashes>>

(* get_tenant: no tenant, no webhook or an error, and nothing is called and   *)
(* nothing said.                                                              *)
FindWebhook(n) ==
  /\ requests[n].step = "audited"
  /\ \/ HasWebhook  /\ Become(n, "calling")
     \/ ~HasWebhook /\ Become(n, "dropped")
     \/ Faults      /\ Become(n, "dropped")
  /\ UNCHANGED <<now, links, spent, audit, dlq, crashes>>

(* One POST to the webhook: acknowledged, or refused, lost or answered too    *)
(* late, when the action may still have been carried out.                     *)
CallUpTo(n, limit) ==
  /\ requests[n].step = "calling"
  /\ \E ran \in BOOLEAN, acknowledged \in BOOLEAN :
       /\ acknowledged => ran
       /\ requests' = [requests EXCEPT
            ![n].tries = @ + 1,
            ![n].ran   = IF ran THEN @ + 1 ELSE @,
            ![n].step  = IF acknowledged THEN "succeeded"
                         ELSE IF requests[n].tries + 1 = limit THEN "failed" ELSE "calling"]
  /\ UNCHANGED <<now, links, spent, audit, dlq, crashes>>

CallOnce(n)     == CallUpTo(n, 1)
CallOnceMore(n) == CallUpTo(n, Attempts + 1)
Call(n)         == CallUpTo(n, Attempts)

AuditOutcome(n) ==
  /\ \/ /\ requests[n].step = "succeeded"
        /\ \/ Record(n, "EXECUTED", "done") /\ UNCHANGED dlq
           \/ Lose(n, "done")
     \/ /\ requests[n].step = "failed"
        /\ \/ Record(n, "WEBHOOK_FAILED", "undelivered") /\ UNCHANGED dlq
           \/ Lose(n, "undelivered")
  /\ UNCHANGED <<now, links, spent, crashes>>

(* Buried only if its authorisation was lost, as the audit log has it.        *)
BuryUnaudited(n) ==
  /\ requests[n].step = "undelivered"
  /\ Become(n, "done")
  /\ dlq' = IF <<n, "AUTHORIZED">> \in audit THEN dlq ELSE dlq \cup {n}
  /\ UNCHANGED <<now, links, spent, audit, crashes>>

(* dlq.push                                                                   *)
Bury(n) ==
  /\ requests[n].step = "undelivered"
  /\ \/ Become(n, "done") /\ dlq' = dlq \cup {n} /\ UNCHANGED audit
     \/ Lose(n, "done")
  /\ UNCHANGED <<now, links, spent, crashes>>

(* The process of a request dies.                                             *)
Die(n) ==
  /\ crashes < MaxCrashes
  /\ requests[n].step \in {"posted", "checked"} \cup Inside
  /\ Become(n, "died")
  /\ crashes' = crashes + 1
  /\ UNCHANGED <<now, links, spent, audit, dlq>>

Serve(n) == \/ Check(n) \/ Spend(n) \/ AuditAuthorized(n) \/ FindWebhook(n)
            \/ Call(n)  \/ AuditOutcome(n) \/ Bury(n)

Next == \/ Tick
        \/ \E i \in Incidents : Mint(i)
        \/ \E t \in links : Post(t)
        \/ \E n \in DOMAIN requests : Serve(n) \/ Die(n)

Spec == Init /\ [][Next]_vars

(* asyncio runs the handler of a request to its end, and the client of the    *)
(* webhook has a timeout.                                                     *)
FairSpec == Spec /\ \A n \in 1..MaxRequests :
                      WF_vars(n \in DOMAIN requests /\ Serve(n))

-------------------------------------------------------------------------------
(* The tokens, their keys, the requests and what was recorded of them keep    *)
(* their types.                                                               *)
TypeOK == /\ now \in 0..MaxTime
          /\ links \subseteq Tokens
          /\ spent \in [Tokens -> Nat]
          /\ requests \in Seq(Requests)
          /\ audit \subseteq (DOMAIN requests) \X Stages
          /\ dlq \subseteq DOMAIN requests
          /\ crashes \in Nat

(* One authorisation at most comes of a token, however often and by whomever  *)
(* its form is posted and however long a request stalls (action_generator.py, *)
(* "rejects reused tokens").                                                  *)
SingleUse ==
  \A m, n \in DOMAIN requests :
    requests[m].won /\ requests[n].won /\ requests[m].token = requests[n].token
      => m = n

(* The inductive invariant behind SingleUse: a token that was spent stays so  *)
(* for every request that has found it valid, and for as long as one can.     *)
SpendInv ==
  /\ \A n \in DOMAIN requests :
       LET r == requests[n] IN
       /\ r.token.iat <= r.at /\ r.at <= now
       /\ r.step = "checked" => r.at < r.token.iat + TokenTTL /\ now <= r.at + MaxStall
       /\ r.won => spent[r.token] >= r.token.iat + UsedTTL
       /\ r.step \in {"posted", "checked"} => ~r.won
  /\ SingleUse

(* What the audit log says of a recovery happened: it was authorised by the   *)
(* one spender of a token; executed, if it says so, by the webhook; and       *)
(* failed, if it says so, at every attempt.  No recovery has both outcomes,   *)
(* and only failed ones are in the dead-letter queue.                         *)
RecordedAsItWas ==
  /\ \A entry \in audit :
       LET r == requests[entry[1]] IN
       /\ r.won
       /\ entry[2] = "EXECUTED" => r.ran > 0 /\ <<entry[1], "WEBHOOK_FAILED">> \notin audit
       /\ entry[2] = "WEBHOOK_FAILED" => r.tries = Attempts
       /\ entry[2] # "AUTHORIZED" /\ ~r.lost => <<entry[1], "AUTHORIZED">> \in audit
  /\ \A n \in dlq : requests[n].tries = Attempts /\ <<n, "EXECUTED">> \notin audit

Accounted(n) ==
  LET r == requests[n] IN
  \/ r.step = "done" /\ (r.lost \/ n \in dlq \/ <<n, "EXECUTED">> \in audit)
  \/ r.step \in {"dropped", "died"}

(* A recovery that was authorised ends up executed and audited, or dead-      *)
(* lettered, unless its tenant has no webhook, a write is lost or its process *)
(* dies.                                                                      *)
AuthorizedIsAccounted ==
  \A n \in 1..MaxRequests :
    (n \in DOMAIN requests /\ requests[n].won)
      ~> (n \in DOMAIN requests /\ Accounted(n))

================================================================================
