------------------------- MODULE RecoveryConfirmProofs -------------------------
(***************************************************************************)
(* Proofs about RecoveryConfirm: types, and the single use of a token, for  *)
(* any lifetimes of which the key's is long enough, any number of requests  *)
(* and whatever fails or dies.                                              *)
(***************************************************************************)
EXTENDS RecoveryConfirm, TLAPS

(* Attempts are counted only while the webhook is called, and none are left   *)
(* over: what TypeOK needs to be inductive.                                   *)
TriesLeft ==
  \A n \in DOMAIN requests :
    LET r == requests[n] IN
    /\ r.step \in {"posted", "checked", "authorized", "audited"} => r.tries = 0
    /\ r.step = "calling" => r.tries < Attempts
    /\ r.ran <= r.tries

(* No token is of the future.                                                 *)
LinksArePast == \A t \in links : t.iat <= now

(* A request that was posted has a record.                                    *)
LEMMA RequestType ==
  ASSUME requests \in Seq(Requests), NEW n \in DOMAIN requests
  PROVE  /\ requests[n] \in Requests
         /\ requests[n].token \in Tokens
         /\ requests[n].step \in Steps
         /\ requests[n].won \in BOOLEAN
         /\ requests[n].at \in 0..MaxTime
         /\ requests[n].tries \in 0..Attempts
         /\ requests[n].ran \in 0..Attempts
         /\ requests[n].lost \in BOOLEAN
<1>1. requests[n] \in Requests
  OBVIOUS
<1>. QED  BY <1>1 DEF Requests

(* A request that goes on leaves the others as they are.                      *)
LEMMA MoveFacts ==
  ASSUME requests \in Seq(Requests), NEW n \in DOMAIN requests, NEW r \in Requests,
         requests' = [requests EXCEPT ![n] = r]
  PROVE  /\ requests' \in Seq(Requests)
         /\ DOMAIN requests' = DOMAIN requests
         /\ requests'[n] = r
         /\ \A m \in DOMAIN requests \ {n} : requests'[m] = requests[m]
OBVIOUS

(* A request that changes its step and nothing else.                          *)
LEMMA BecomeFacts ==
  ASSUME requests \in Seq(Requests), NEW n \in DOMAIN requests, NEW step \in Steps,
         Become(n, step)
  PROVE  /\ requests' \in Seq(Requests)
         /\ DOMAIN requests' = DOMAIN requests
         /\ \A m \in DOMAIN requests \ {n} : requests'[m] = requests[m]
         /\ requests'[n] = [requests[n] EXCEPT !.step = step]
<1>. DEFINE r == [requests[n] EXCEPT !.step = step]
<1>1. r \in Requests
  BY RequestType DEF Requests
<1>2. requests' = [requests EXCEPT ![n] = r]
  BY DEF Become
<1>. QED  BY <1>1, <1>2, MoveFacts

-------------------------------------------------------------------------------
(* What a request r may have become in a step of its own: still typed, of the  *)
(* same token, checked only by a check, and the winner of its token only by    *)
(* a SET NX that found no key.                                                 *)
Wins(r) == /\ r.step = "checked"
           /\ spent[r.token] <= now
           /\ spent' = [spent EXCEPT ![r.token] = now + UsedTTL]

Follows(s, r) ==
  /\ s \in Requests
  /\ s.token = r.token
  /\ s.step # "posted"
  /\ s.at = r.at \/ (r.step = "posted" /\ s.at = now)
  /\ s.step = "checked" => /\ r.step = "posted" /\ Valid(r.token)
                           /\ s.at = now /\ s.won = r.won
  /\ s.won = r.won \/ (s.won /\ s.step = "authorized" /\ Wins(r))

Tried(r) ==
  /\ r.step \in {"posted", "checked", "authorized", "audited"} => r.tries = 0
  /\ r.step = "calling" => r.tries < Attempts
  /\ r.ran <= r.tries

LEMMA ServeFacts ==
  ASSUME TypeOK, TriesLeft, NEW n \in DOMAIN requests, Serve(n) \/ Die(n)
  PROVE  /\ requests' \in Seq(Requests)
         /\ DOMAIN requests' = DOMAIN requests
         /\ \A m \in DOMAIN requests \ {n} : requests'[m] = requests[m]
         /\ Follows(requests'[n], requests[n])
         /\ Tried(requests'[n])
<1>. DEFINE r == requests[n]
            Goal == /\ requests' \in Seq(Requests)
                    /\ DOMAIN requests' = DOMAIN requests
                    /\ \A m \in DOMAIN requests \ {n} : requests'[m] = requests[m]
                    /\ Follows(requests'[n], r)
                    /\ Tried(requests'[n])
<1>1. /\ requests \in Seq(Requests)
      /\ now \in 0..MaxTime
      /\ r \in Requests
      /\ r.tries \in Nat /\ r.ran \in Nat /\ Attempts \in Nat
      /\ Tried(r)
  BY RequestType, ConfirmAssumption DEF TypeOK, TriesLeft, Tried
<1>2. ASSUME NEW step \in Steps \ {"posted", "checked", "authorized"}, Become(n, step),
             step = "calling" => r.step = "audited",
             step = "audited" => r.step = "authorized"
      PROVE  Goal
  <2>1. /\ requests' \in Seq(Requests)
        /\ DOMAIN requests' = DOMAIN requests
        /\ \A m \in DOMAIN requests \ {n} : requests'[m] = requests[m]
        /\ requests'[n] = [r EXCEPT !.step = step]
    BY <1>1, <1>2, BecomeFacts
  <2>. DEFINE s == [r EXCEPT !.step = step]
  <2>2. /\ s \in Requests
        /\ s.token = r.token /\ s.at = r.at /\ s.won = r.won /\ s.step = step
        /\ s.tries = r.tries /\ s.ran = r.ran
    BY <1>1 DEF Requests
  <2>3. Follows(s, r)
    BY <1>2, <2>2 DEF Follows
  <2>4. Tried(s)
    BY <1>1, <1>2, <2>2, ConfirmAssumption DEF Tried
  <2>. QED  BY <2>1, <2>3, <2>4
<1>3. ASSUME Check(n) PROVE Goal
  <2>. DEFINE s == [r EXCEPT !.at = now, !.step = IF Valid(r.token) THEN "checked" ELSE "refused"]
  <2>1. s \in Requests
    BY <1>1 DEF Requests, Steps
  <2>2. requests' = [requests EXCEPT ![n] = s]
    BY <1>3 DEF Check
  <2>3. /\ requests' \in Seq(Requests)
        /\ DOMAIN requests' = DOMAIN requests
        /\ \A m \in DOMAIN requests \ {n} : requests'[m] = requests[m]
        /\ requests'[n] = s
    BY <1>1, <2>1, <2>2, MoveFacts
  <2>. QED  BY <1>1, <1>3, <2>1, <2>3 DEF Check, Follows, Tried, Requests
<1>4. ASSUME Spend(n) PROVE Goal
  <2>1. CASE Become(n, "refused") \/ Become(n, "unavailable")
    BY <1>2, <2>1 DEF Steps
  <2>2. CASE /\ spent[r.token] <= now
             /\ spent' = [spent EXCEPT ![r.token] = now + UsedTTL]
             /\ requests' = [requests EXCEPT ![n].step = "authorized", ![n].won = TRUE]
    <3>. DEFINE s == [r EXCEPT !.step = "authorized", !.won = TRUE]
    <3>1. s \in Requests
      BY <1>1 DEF Requests, Steps, Inside
    <3>2. requests' = [requests EXCEPT ![n] = s]
      BY <2>2
    <3>3. /\ requests' \in Seq(Requests)
          /\ DOMAIN requests' = DOMAIN requests
          /\ \A m \in DOMAIN requests \ {n} : requests'[m] = requests[m]
          /\ requests'[n] = s
      BY <1>1, <3>1, <3>2, MoveFacts
    <3>. QED  BY <1>1, <1>4, <2>2, <3>1, <3>3
              DEF Spend, SpendWith, Follows, Tried, Requests, Wins
  <2>. QED  BY <1>4, <2>1, <2>2 DEF Spend, SpendWith
<1>5. ASSUME NEW step \in {"audited", "done", "undelivered"}, Lose(n, step),
             step = "audited" => r.step = "authorized"
      PROVE  Goal
  <2>. DEFINE s == [r EXCEPT !.step = step, !.lost = TRUE]
  <2>1. s \in Requests
    BY <1>1 DEF Requests, Steps, Inside, Ended
  <2>2. requests' = [requests EXCEPT ![n] = s]
    BY <1>5 DEF Lose
  <2>3. /\ requests' \in Seq(Requests)
        /\ DOMAIN requests' = DOMAIN requests
        /\ \A m \in DOMAIN requests \ {n} : requests'[m] = requests[m]
        /\ requests'[n] = s
    BY <1>1, <2>1, <2>2, MoveFacts
  <2>. QED  BY <1>1, <1>5, <2>1, <2>3 DEF Follows, Tried, Requests
<1>6. ASSUME AuditAuthorized(n) PROVE Goal
  BY <1>2, <1>5, <1>6 DEF AuditAuthorized, Record, Become, Steps, Inside
<1>7. ASSUME FindWebhook(n) PROVE Goal
  BY <1>2, <1>7 DEF FindWebhook, Steps, Inside
<1>8. ASSUME Call(n) PROVE Goal
  <2>1. PICK ran \in BOOLEAN, acknowledged \in BOOLEAN :
          requests' = [requests EXCEPT
            ![n].tries = @ + 1,
            ![n].ran   = IF ran THEN @ + 1 ELSE @,
            ![n].step  = IF acknowledged THEN "succeeded"
                         ELSE IF requests[n].tries + 1 = Attempts THEN "failed" ELSE "calling"]
    BY <1>8 DEF Call, CallUpTo
  <2>. DEFINE step == IF acknowledged THEN "succeeded"
                      ELSE IF r.tries + 1 = Attempts THEN "failed" ELSE "calling"
              s == [r EXCEPT !.tries = @ + 1, !.ran = IF ran THEN @ + 1 ELSE @, !.step = step]
  <2>2. r.step = "calling" /\ r.tries < Attempts /\ r.ran <= r.tries
    BY <1>1, <1>8 DEF Call, CallUpTo, Tried
  <2>3. s \in Requests
    <3>1. /\ r.tries + 1 \in 0..Attempts
          /\ (IF ran THEN r.ran + 1 ELSE r.ran) \in 0..Attempts
      BY <1>1, <2>2
    <3>2. step \in Steps
      BY DEF Steps, Inside
    <3>. HIDE DEF step
    <3>. QED  BY <1>1, <3>1, <3>2 DEF Requests
  <2>4. requests' = [requests EXCEPT ![n] = s]
    BY <2>1
  <2>5. /\ requests' \in Seq(Requests)
        /\ DOMAIN requests' = DOMAIN requests
        /\ \A m \in DOMAIN requests \ {n} : requests'[m] = requests[m]
        /\ requests'[n] = s
    BY <1>1, <2>3, <2>4, MoveFacts
  <2>6. /\ s.token = r.token /\ s.at = r.at /\ s.won = r.won
        /\ s.step \in {"succeeded", "failed", "calling"}
        /\ s.step = "calling" => s.tries < Attempts
        /\ s.ran <= s.tries
    BY <1>1, <2>2 DEF Requests
  <2>. QED  BY <2>3, <2>5, <2>6 DEF Follows, Tried
<1>9. ASSUME AuditOutcome(n) PROVE Goal
  BY <1>2, <1>5, <1>9 DEF AuditOutcome, Record, Become, Steps, Inside, Ended
<1>10. ASSUME Bury(n) PROVE Goal
  BY <1>2, <1>5, <1>10 DEF Bury, Steps, Ended
<1>11. ASSUME Die(n) PROVE Goal
  BY <1>2, <1>11 DEF Die, Steps, Ended
<1>. QED
  BY <1>3, <1>4, <1>6, <1>7, <1>8, <1>9, <1>10, <1>11 DEF Serve

(* What a step of request n may change beside it: one key, set if there was   *)
(* none, one entry of the log, the dead-letter queue.                         *)
Sets(t) == spent[t] <= now /\ spent' = [spent EXCEPT ![t] = now + UsedTTL]

Effects(n) ==
  /\ now' = now /\ links' = links
  /\ spent' = spent \/ Sets(requests[n].token)
  /\ audit' = audit \/ \E stage \in Stages : audit' = audit \cup {<<n, stage>>}
  /\ dlq' = dlq \/ dlq' = dlq \cup {n}
  /\ crashes' = crashes \/ crashes' = crashes + 1

LEMMA ServeEffects ==
  ASSUME NEW n \in DOMAIN requests, Serve(n) \/ Die(n)
  PROVE  Effects(n)
<1>1. CASE Check(n) \/ FindWebhook(n) \/ Call(n)
  BY <1>1 DEF Check, FindWebhook, Call, CallUpTo, Effects
<1>2. CASE Spend(n)
  BY <1>2 DEF Spend, SpendWith, Effects, Sets
<1>3. CASE AuditAuthorized(n)
  BY <1>3 DEF AuditAuthorized, Record, Lose, Effects, Stages
<1>4. CASE AuditOutcome(n)
  BY <1>4 DEF AuditOutcome, Record, Lose, Effects, Stages
<1>5. CASE Bury(n)
  BY <1>5 DEF Bury, Lose, Effects
<1>6. CASE Die(n)
  BY <1>6 DEF Die, Effects
<1>. QED  BY <1>1, <1>2, <1>3, <1>4, <1>5, <1>6 DEF Serve

(* A confirmation is posted behind the others.                                *)
LEMMA PostFacts ==
  ASSUME TypeOK, NEW t \in links, Post(t)
  PROVE  /\ requests' \in Seq(Requests)
         /\ DOMAIN requests' = DOMAIN requests \cup {Len(requests) + 1}
         /\ \A m \in DOMAIN requests : requests'[m] = requests[m]
         /\ LET r == requests'[Len(requests) + 1] IN
            /\ r.token = t /\ r.step = "posted" /\ ~r.won /\ r.at = t.iat
            /\ r.tries = 0 /\ r.ran = 0
         /\ Len(requests) + 1 \notin DOMAIN requests
<1>. DEFINE r == [token |-> t, step |-> "posted", won |-> FALSE, at |-> t.iat,
                  tries |-> 0, ran |-> 0, lost |-> FALSE]
<1>1. t \in Tokens /\ t.iat \in 0..MaxTime
  BY DEF TypeOK, Tokens
<1>2. r \in Requests
  BY <1>1, ConfirmAssumption DEF Requests, Steps
<1>3. requests \in Seq(Requests) /\ requests' = Append(requests, r)
  BY DEF TypeOK, Post
<1>. HIDE DEF r
<1>4. /\ requests' \in Seq(Requests)
      /\ DOMAIN requests' = DOMAIN requests \cup {Len(requests) + 1}
      /\ \A m \in DOMAIN requests : requests'[m] = requests[m]
      /\ requests'[Len(requests) + 1] = r
      /\ Len(requests) + 1 \notin DOMAIN requests
  BY <1>2, <1>3
<1>. QED  BY <1>4 DEF r

-------------------------------------------------------------------------------
(* Types.                                                                     *)

(* Nothing is posted at first.                                                *)
LEMMA InitType == Init => TypeOK /\ TriesLeft
BY ConfirmAssumption DEF Init, TypeOK, TriesLeft

(* Every step keeps the types, and the attempts within their number.          *)
LEMMA NextType == TypeOK /\ TriesLeft /\ [Next]_vars => TypeOK' /\ TriesLeft'
<1>. SUFFICES ASSUME TypeOK, TriesLeft, [Next]_vars PROVE TypeOK' /\ TriesLeft'
  OBVIOUS
<1>1. CASE Tick
  BY <1>1, ConfirmAssumption DEF Tick, TypeOK, TriesLeft
<1>2. ASSUME NEW i \in Incidents, Mint(i) PROVE TypeOK' /\ TriesLeft'
  BY <1>2 DEF Mint, TypeOK, TriesLeft, Tokens
<1>3. ASSUME NEW t \in links, Post(t) PROVE TypeOK' /\ TriesLeft'
  <2>1. TypeOK'
    BY <1>3, PostFacts DEF Post, TypeOK
  <2>2. TriesLeft'
    BY <1>3, PostFacts DEF TriesLeft
  <2>. QED  BY <2>1, <2>2
<1>4. ASSUME NEW n \in DOMAIN requests, Serve(n) \/ Die(n) PROVE TypeOK' /\ TriesLeft'
  <2>1. /\ requests' \in Seq(Requests)
        /\ DOMAIN requests' = DOMAIN requests
        /\ \A m \in DOMAIN requests \ {n} : requests'[m] = requests[m]
        /\ Tried(requests'[n])
    BY <1>4, ServeFacts
  <2>2. TriesLeft'
    BY <2>1 DEF TriesLeft, Tried
  <2>3. Effects(n) /\ requests[n].token \in Tokens
    BY <1>4, ServeEffects, RequestType DEF TypeOK
  <2>4. now' \in 0..MaxTime /\ links' \subseteq Tokens /\ crashes' \in Nat
    BY <2>3 DEF Effects, TypeOK
  <2>5. spent' \in [Tokens -> Nat]
    <3>1. now + UsedTTL \in Nat
      BY ConfirmAssumption DEF TypeOK
    <3>. QED  BY <2>3, <3>1 DEF Effects, Sets, TypeOK
  <2>6. audit' \subseteq (DOMAIN requests) \X Stages /\ dlq' \subseteq DOMAIN requests
    BY <2>3 DEF Effects, TypeOK
  <2>. QED  BY <2>1, <2>2, <2>4, <2>5, <2>6 DEF TypeOK
<1>5. CASE UNCHANGED vars
  BY <1>5 DEF vars, TypeOK, TriesLeft
<1>. QED  BY <1>1, <1>2, <1>3, <1>4, <1>5 DEF Next

(* Type correctness of RecoveryConfirm, for any lifetimes, attempts and       *)
(* number of requests.                                                        *)
THEOREM ConfirmTypeCorrect == Spec => []TypeOK
BY InitType, NextType, PTL DEF Spec

-------------------------------------------------------------------------------
(* A token is spent once.                                                     *)

LEMMA InitSpend == Init => SpendInv /\ LinksArePast
BY DEF Init, SpendInv, SingleUse, LinksArePast

(* Every step keeps a spent token's key for as long as a request that found   *)
(* the token valid may try to set it.                                         *)
LEMMA NextSpend ==
  TypeOK /\ TriesLeft /\ LinksArePast /\ SpendInv /\ [Next]_vars
    => LinksArePast' /\ SpendInv'
<1>. SUFFICES ASSUME TypeOK, TriesLeft, LinksArePast, SpendInv, [Next]_vars
              PROVE  LinksArePast' /\ SpendInv'
  OBVIOUS
<1>0. /\ now \in Nat /\ TokenTTL \in Nat /\ UsedTTL \in Nat /\ MaxStall \in Nat
      /\ \A t \in Tokens : t.iat \in Nat
      /\ \A t \in Tokens : spent[t] \in Nat
      /\ links \subseteq Tokens
  <2>1. /\ TokenTTL \in Nat /\ UsedTTL \in Nat /\ MaxStall \in Nat /\ MaxTime \in Nat
    BY ConfirmAssumption
  <2>2. now \in Nat /\ \A t \in Tokens : t.iat \in Nat
    BY <2>1 DEF TypeOK, Tokens
  <2>. QED  BY <2>1, <2>2 DEF TypeOK
<1>a. \A n \in DOMAIN requests :
        requests[n].token \in Tokens /\ requests[n].at \in Nat /\ requests[n].won \in BOOLEAN
  BY RequestType DEF TypeOK
<1>1. CASE Tick
  BY <1>0, <1>a, <1>1 DEF Tick, LinksArePast, SpendInv, SingleUse
<1>2. ASSUME NEW i \in Incidents, Mint(i) PROVE LinksArePast' /\ SpendInv'
  BY <1>0, <1>2 DEF Mint, LinksArePast, SpendInv, SingleUse
<1>3. ASSUME NEW t \in links, Post(t) PROVE LinksArePast' /\ SpendInv'
  <2>1. now' = now /\ links' = links /\ spent' = spent
    BY <1>3 DEF Post
  <2>. DEFINE k == Len(requests) + 1
  <2>2. /\ DOMAIN requests' = DOMAIN requests \cup {k}
        /\ \A m \in DOMAIN requests : requests'[m] = requests[m]
        /\ requests'[k].token = t /\ requests'[k].step = "posted"
        /\ ~requests'[k].won /\ requests'[k].at = t.iat
        /\ k \notin DOMAIN requests
    BY <1>3, PostFacts
  <2>3. t.iat <= now /\ t.iat \in Nat
    BY <1>0 DEF LinksArePast
  <2>. HIDE DEF k
  <2>4. SingleUse'
    BY <2>2 DEF SpendInv, SingleUse
  <2>. QED  BY <2>1, <2>2, <2>3, <2>4 DEF LinksArePast, SpendInv
<1>4. ASSUME NEW n \in DOMAIN requests, Serve(n) \/ Die(n)
      PROVE  LinksArePast' /\ SpendInv'
  <2>. DEFINE r == requests[n]
              s == requests'[n]
  <2>1. /\ DOMAIN requests' = DOMAIN requests
        /\ \A m \in DOMAIN requests \ {n} : requests'[m] = requests[m]
        /\ Follows(s, r)
    BY <1>4, ServeFacts
  <2>2. Effects(n) /\ now' = now /\ links' = links
    BY <1>4, ServeEffects DEF Effects
  <2>3. \A t \in Tokens : spent'[t] \in Nat /\ spent'[t] >= spent[t]
    BY <1>0, <1>a, <2>2 DEF Effects, Sets, TypeOK
  <2>4. r.token.iat <= r.at /\ r.at <= now
    BY DEF SpendInv
  <2>5. /\ s.token = r.token
        /\ s.token.iat <= s.at /\ s.at <= now
        /\ s.step = "checked" => s.at < s.token.iat + TokenTTL /\ now <= s.at + MaxStall
        /\ s.step \in {"posted", "checked"} => ~s.won
    BY <1>0, <1>a, <2>1, <2>4 DEF Follows, Valid, SpendInv
  <2>6. s.won => spent'[s.token] >= s.token.iat + UsedTTL
    <3>1. CASE s.won = r.won
      <4>. SUFFICES ASSUME r.won PROVE spent'[r.token] >= r.token.iat + UsedTTL
        BY <2>5, <3>1
      <4>1. spent[r.token] >= r.token.iat + UsedTTL
        BY DEF SpendInv
      <4>2. /\ r.token \in Tokens
            /\ spent[r.token] \in Nat /\ spent'[r.token] \in Nat
            /\ spent'[r.token] >= spent[r.token]
            /\ r.token.iat + UsedTTL \in Nat
        BY <1>0, <1>a, <2>3
      <4>. QED  BY <4>1, <4>2
    <3>2. CASE Wins(r)
      BY <1>0, <1>a, <2>4, <2>5, <3>2 DEF Wins, TypeOK
    <3>. QED  BY <2>1, <3>1, <3>2 DEF Follows
  <2>7. ASSUME NEW m \in DOMAIN requests \ {n}, requests[m].won, Wins(r)
        PROVE  requests[m].token # r.token
    <3>. SUFFICES ASSUME requests[m].token = r.token PROVE FALSE
      OBVIOUS
    <3>1. spent[r.token] >= r.token.iat + UsedTTL
      BY <2>7 DEF SpendInv
    <3>2. now <= r.at + MaxStall /\ r.at < r.token.iat + TokenTTL
      BY <2>7 DEF Wins, SpendInv
    <3>3. spent[r.token] <= now
      BY <2>7 DEF Wins
    <3>. QED  BY <1>0, <1>a, <3>1, <3>2, <3>3, MarkerOutlivesToken
  <2>8. SingleUse'
    BY <2>1, <2>7 DEF Follows, SpendInv, SingleUse
  <2>9. \A m \in DOMAIN requests \ {n} :
          requests[m].won => spent'[requests[m].token] >= requests[m].token.iat + UsedTTL
    BY <1>0, <1>a, <2>3 DEF SpendInv
  <2>. QED  BY <2>1, <2>2, <2>5, <2>6, <2>8, <2>9 DEF LinksArePast, SpendInv
<1>5. CASE UNCHANGED vars
  BY <1>5 DEF vars, LinksArePast, SpendInv, SingleUse
<1>. QED  BY <1>1, <1>2, <1>3, <1>4, <1>5 DEF Next

(* SpendInv holds throughout: what the run checks for one token is so for any *)
(* number of incidents, requests and failures.                                *)
THEOREM SpendInvCorrect == Spec => []SpendInv
BY InitType, NextType, InitSpend, NextSpend, PTL DEF Spec

(* action_generator.py's promise: no two confirmations are authorised by one  *)
(* token, as long as its key outlives it by the longest stall of a request    *)
(* between the check and SET NX.                                              *)
THEOREM SingleUseCorrect == Spec => []SingleUse
<1>1. SpendInv => SingleUse
  BY DEF SpendInv
<1>. QED  BY <1>1, SpendInvCorrect, PTL

-------------------------------------------------------------------------------
(* What is recorded of a recovery is what became of it.                       *)

Wrote(n, stage) == <<n, stage>> \in audit

(* How far a request has come says what may be recorded of it: an outcome only *)
(* once it is behind the webhook, an execution only at its very end, and the   *)
(* authorisation before either, unless that write was lost.                    *)
RecordOf(n) ==
  LET r == requests[n] IN
  /\ r.step \in Inside => r.won
  /\ r.step \in Inside \ {"authorized"} => r.lost \/ Wrote(n, "AUTHORIZED")
  /\ r.step = "succeeded" => r.ran > 0
  /\ r.step \in {"failed", "undelivered"} => r.tries = Attempts
  /\ \A stage \in Stages : Wrote(n, stage) => r.won
  /\ Wrote(n, "EXECUTED") => r.step = "done" /\ r.ran > 0
  /\ Wrote(n, "WEBHOOK_FAILED") => /\ r.step \in {"undelivered", "done", "died"}
                                   /\ r.tries = Attempts
                                   /\ ~Wrote(n, "EXECUTED")
  /\ Wrote(n, "EXECUTED") \/ Wrote(n, "WEBHOOK_FAILED") => r.lost \/ Wrote(n, "AUTHORIZED")
  /\ n \in dlq => r.step = "done" /\ r.tries = Attempts /\ ~Wrote(n, "EXECUTED")

Records == \A n \in DOMAIN requests : RecordOf(n)

(* The record of a request stays right in every step of it.                   *)
LEMMA ServeRecords ==
  ASSUME TypeOK, TriesLeft, NEW n \in DOMAIN requests, RecordOf(n), Serve(n) \/ Die(n)
  PROVE  RecordOf(n)'
<1>. DEFINE r == requests[n]
            s == requests'[n]
<1>1. /\ requests \in Seq(Requests) /\ DOMAIN requests = 1..Len(requests)
      /\ r \in Requests /\ r.tries \in Nat /\ r.ran \in Nat /\ Attempts \in Nat
      /\ Attempts # 0
  BY RequestType, ConfirmAssumption DEF TypeOK
<1>2. ASSUME NEW step, requests' = [requests EXCEPT ![n].step = step]
      PROVE  /\ s.step = step /\ s.won = r.won /\ s.lost = r.lost
             /\ s.tries = r.tries /\ s.ran = r.ran
  BY <1>1, <1>2 DEF Requests
<1>3. ASSUME NEW step, requests' = [requests EXCEPT ![n].step = step, ![n].lost = TRUE]
      PROVE  s.step = step /\ s.won = r.won /\ s.lost /\ s.tries = r.tries /\ s.ran = r.ran
  BY <1>1, <1>3 DEF Requests
<1>4. ASSUME Check(n) PROVE RecordOf(n)'
  <2>1. /\ s.step \in {"checked", "refused"} /\ s.won = r.won /\ s.lost = r.lost
        /\ s.tries = r.tries /\ s.ran = r.ran
    BY <1>1, <1>4 DEF Check, Requests
  <2>2. r.step = "posted" /\ audit' = audit /\ dlq' = dlq
    BY <1>4 DEF Check
  <2>. QED  BY <2>1, <2>2 DEF RecordOf, Wrote, Inside, Stages
<1>5. ASSUME Spend(n) PROVE RecordOf(n)'
  <2>1. r.step = "checked" /\ audit' = audit /\ dlq' = dlq
    BY <1>5 DEF Spend, SpendWith
  <2>2. CASE Become(n, "refused") \/ Become(n, "unavailable")
    <3>1. /\ s.step \in {"refused", "unavailable"} /\ s.won = r.won /\ s.lost = r.lost
          /\ s.tries = r.tries /\ s.ran = r.ran
      BY <1>2, <2>2 DEF Become
    <3>. QED  BY <2>1, <3>1 DEF RecordOf, Wrote, Inside, Stages
  <2>3. CASE requests' = [requests EXCEPT ![n].step = "authorized", ![n].won = TRUE]
    <3>1. s.step = "authorized" /\ s.won /\ s.lost = r.lost /\ s.tries = r.tries /\ s.ran = r.ran
      BY <1>1, <2>3 DEF Requests
    <3>. QED  BY <2>1, <3>1 DEF RecordOf, Wrote, Inside, Stages
  <2>. QED  BY <1>5, <2>2, <2>3 DEF Spend, SpendWith
<1>6. ASSUME AuditAuthorized(n) PROVE RecordOf(n)'
  <2>1. /\ r.step = "authorized" /\ s.step = "audited" /\ s.won = r.won
        /\ s.tries = r.tries /\ s.ran = r.ran /\ dlq' = dlq
        /\ \/ audit' = audit \cup {<<n, "AUTHORIZED">>} /\ s.lost = r.lost
           \/ audit' = audit /\ s.lost
    BY <1>2, <1>3, <1>6 DEF AuditAuthorized, Record, Lose
  <2>2. /\ Wrote(n, "EXECUTED")' = Wrote(n, "EXECUTED")
        /\ Wrote(n, "WEBHOOK_FAILED")' = Wrote(n, "WEBHOOK_FAILED")
        /\ s.lost \/ Wrote(n, "AUTHORIZED")'
        /\ r.won
    BY <2>1 DEF RecordOf, Wrote, Inside
  <2>. QED  BY <2>1, <2>2 DEF RecordOf, Inside, Stages
<1>7. ASSUME FindWebhook(n) PROVE RecordOf(n)'
  <2>1. /\ r.step = "audited" /\ s.step \in {"calling", "dropped"} /\ s.won = r.won
        /\ s.lost = r.lost /\ s.tries = r.tries /\ s.ran = r.ran
        /\ audit' = audit /\ dlq' = dlq
    BY <1>2, <1>7 DEF FindWebhook, Become
  <2>. QED  BY <2>1 DEF RecordOf, Wrote, Inside, Stages
<1>8. ASSUME Call(n) PROVE RecordOf(n)'
  <2>1. PICK ran \in BOOLEAN, acknowledged \in BOOLEAN :
          /\ acknowledged => ran
          /\ requests' = [requests EXCEPT
               ![n].tries = @ + 1,
               ![n].ran   = IF ran THEN @ + 1 ELSE @,
               ![n].step  = IF acknowledged THEN "succeeded"
                            ELSE IF requests[n].tries + 1 = Attempts THEN "failed" ELSE "calling"]
    BY <1>8 DEF Call, CallUpTo
  <2>2. /\ s.won = r.won /\ s.lost = r.lost /\ s.tries = r.tries + 1
        /\ s.ran = IF ran THEN r.ran + 1 ELSE r.ran
        /\ s.step = IF acknowledged THEN "succeeded"
                    ELSE IF r.tries + 1 = Attempts THEN "failed" ELSE "calling"
    BY <1>1, <2>1 DEF Requests
  <2>3. /\ s.step \in {"succeeded", "failed", "calling"}
        /\ s.step = "succeeded" => s.ran > 0
        /\ s.step = "failed" => s.tries = Attempts
    BY <1>1, <2>1, <2>2
  <2>4. r.step = "calling" /\ audit' = audit /\ dlq' = dlq
    BY <1>8 DEF Call, CallUpTo
  <2>5. /\ \A stage \in {"EXECUTED", "WEBHOOK_FAILED"} : ~Wrote(n, stage)
        /\ n \notin dlq /\ r.won /\ (r.lost \/ Wrote(n, "AUTHORIZED"))
    BY <2>4 DEF RecordOf, Inside
  <2>. QED  BY <2>2, <2>3, <2>4, <2>5 DEF RecordOf, Wrote, Inside, Stages
<1>9. ASSUME AuditOutcome(n) PROVE RecordOf(n)'
  <2>1. CASE /\ r.step = "succeeded"
             /\ \/ Record(n, "EXECUTED", "done") /\ UNCHANGED dlq
                \/ Lose(n, "done")
    <3>1. /\ s.step = "done" /\ s.won = r.won /\ s.tries = r.tries /\ s.ran = r.ran
          /\ dlq' = dlq
          /\ \/ audit' = audit \cup {<<n, "EXECUTED">>} /\ s.lost = r.lost
             \/ audit' = audit /\ s.lost
      BY <1>2, <1>3, <2>1 DEF Record, Lose
    <3>2. r.ran > 0 /\ r.won /\ (r.lost \/ Wrote(n, "AUTHORIZED"))
      BY <2>1 DEF RecordOf, Inside
    <3>3. ~Wrote(n, "EXECUTED") /\ ~Wrote(n, "WEBHOOK_FAILED") /\ n \notin dlq
      BY <2>1 DEF RecordOf
    <3>4. /\ Wrote(n, "WEBHOOK_FAILED")' = Wrote(n, "WEBHOOK_FAILED")
          /\ Wrote(n, "AUTHORIZED")' = Wrote(n, "AUTHORIZED")
      BY <3>1 DEF Wrote
    <3>. QED  BY <3>1, <3>2, <3>3, <3>4 DEF RecordOf, Inside, Stages
  <2>2. CASE /\ r.step = "failed"
             /\ \/ Record(n, "WEBHOOK_FAILED", "undelivered") /\ UNCHANGED dlq
                \/ Lose(n, "undelivered")
    <3>1. /\ s.step = "undelivered" /\ s.won = r.won /\ s.tries = r.tries /\ s.ran = r.ran
          /\ dlq' = dlq
          /\ \/ audit' = audit \cup {<<n, "WEBHOOK_FAILED">>} /\ s.lost = r.lost
             \/ audit' = audit /\ s.lost
      BY <1>2, <1>3, <2>2 DEF Record, Lose
    <3>2. r.tries = Attempts /\ r.won /\ (r.lost \/ Wrote(n, "AUTHORIZED"))
      BY <2>2 DEF RecordOf, Inside
    <3>3. ~Wrote(n, "EXECUTED") /\ ~Wrote(n, "WEBHOOK_FAILED") /\ n \notin dlq
      BY <2>2 DEF RecordOf
    <3>4. /\ Wrote(n, "EXECUTED")' = Wrote(n, "EXECUTED")
          /\ Wrote(n, "AUTHORIZED")' = Wrote(n, "AUTHORIZED")
      BY <3>1 DEF Wrote
    <3>. QED  BY <3>1, <3>2, <3>3, <3>4 DEF RecordOf, Inside, Stages
  <2>. QED  BY <1>9, <2>1, <2>2 DEF AuditOutcome
<1>10. ASSUME Bury(n) PROVE RecordOf(n)'
  <2>1. /\ r.step = "undelivered" /\ s.step = "done" /\ s.won = r.won
        /\ s.lost \/ s.lost = r.lost
        /\ s.tries = r.tries /\ s.ran = r.ran /\ audit' = audit
        /\ dlq' = dlq \/ dlq' = dlq \cup {n}
    BY <1>2, <1>3, <1>10 DEF Bury, Become, Lose
  <2>2. ~Wrote(n, "EXECUTED") /\ r.tries = Attempts
    BY <2>1 DEF RecordOf
  <2>. QED  BY <2>1, <2>2 DEF RecordOf, Wrote, Inside, Stages
<1>11. ASSUME Die(n) PROVE RecordOf(n)'
  <2>1. /\ r.step \in {"posted", "checked"} \cup Inside
        /\ s.step = "died" /\ s.won = r.won /\ s.lost = r.lost
        /\ s.tries = r.tries /\ s.ran = r.ran /\ audit' = audit /\ dlq' = dlq
    BY <1>2, <1>11 DEF Die, Become
  <2>2. ~Wrote(n, "EXECUTED") /\ n \notin dlq
    BY <2>1 DEF RecordOf, Inside
  <2>. QED  BY <2>1, <2>2 DEF RecordOf, Wrote, Inside, Stages
<1>. QED
  BY <1>4, <1>5, <1>6, <1>7, <1>8, <1>9, <1>10, <1>11 DEF Serve

(* Every step keeps the records right: a request's own by ServeRecords, the    *)
(* others' because no step touches them.                                      *)
LEMMA NextRecords ==
  TypeOK /\ TriesLeft /\ Records /\ [Next]_vars => Records'
<1>. SUFFICES ASSUME TypeOK, TriesLeft, Records, [Next]_vars PROVE Records'
  OBVIOUS
<1>1. ASSUME requests' = requests, audit' = audit, dlq' = dlq PROVE Records'
  BY <1>1 DEF Records, RecordOf, Wrote
<1>2. CASE Tick
  BY <1>1, <1>2 DEF Tick
<1>3. ASSUME NEW i \in Incidents, Mint(i) PROVE Records'
  BY <1>1, <1>3 DEF Mint
<1>4. ASSUME NEW t \in links, Post(t) PROVE Records'
  <2>0. PICK k : k = Len(requests) + 1
    OBVIOUS
  <2>1. /\ DOMAIN requests' = DOMAIN requests \cup {k}
        /\ \A m \in DOMAIN requests : requests'[m] = requests[m]
        /\ requests'[k].step = "posted"
        /\ k \notin DOMAIN requests
    BY <1>4, <2>0, PostFacts
  <2>2. audit' = audit /\ dlq' = dlq
    BY <1>4 DEF Post
  <2>3. \A stage \in Stages : ~Wrote(k, stage)
    BY <2>1 DEF TypeOK, Wrote
  <2>4. k \notin dlq
    BY <2>1 DEF TypeOK
  <2>5. RecordOf(k)'
    BY <2>1, <2>2, <2>3, <2>4 DEF RecordOf, Wrote, Inside, Stages
  <2>6. ASSUME NEW m \in DOMAIN requests PROVE RecordOf(m)'
    BY <2>1, <2>2 DEF Records, RecordOf, Wrote
  <2>. QED  BY <2>1, <2>5, <2>6 DEF Records
<1>5. ASSUME NEW n \in DOMAIN requests, Serve(n) \/ Die(n) PROVE Records'
  <2>1. /\ DOMAIN requests' = DOMAIN requests
        /\ \A m \in DOMAIN requests \ {n} : requests'[m] = requests[m]
    BY <1>5, ServeFacts
  <2>2. Effects(n)
    BY <1>5, ServeEffects
  <2>3. RecordOf(n)'
    BY <1>5, ServeRecords DEF Records
  <2>4. ASSUME NEW m \in DOMAIN requests \ {n} PROVE RecordOf(m)'
    <3>1. \A stage \in Stages : Wrote(m, stage)' = Wrote(m, stage)
      BY <2>2 DEF Effects, Wrote
    <3>2. (m \in dlq') = (m \in dlq)
      BY <2>2 DEF Effects
    <3>. QED  BY <2>1, <3>1, <3>2 DEF Records, RecordOf, Stages
  <2>. QED  BY <2>1, <2>3, <2>4 DEF Records
<1>6. CASE UNCHANGED vars
  BY <1>1, <1>6 DEF vars
<1>. QED  BY <1>2, <1>3, <1>4, <1>5, <1>6 DEF Next

(* The audit log and the dead-letter queue are true of every recovery, for     *)
(* any number of requests and attempts, whichever writes are lost and          *)
(* whichever processes die.                                                   *)
THEOREM RecordedAsItWasCorrect == Spec => []RecordedAsItWas
<1>1. Init => Records
  BY DEF Init, Records
<1>2. TypeOK /\ Records => RecordedAsItWas
  <2>. SUFFICES ASSUME TypeOK, Records PROVE RecordedAsItWas
    OBVIOUS
  <2>1. ASSUME NEW entry \in audit
        PROVE  LET r == requests[entry[1]] IN
               /\ r.won
               /\ entry[2] = "EXECUTED" => r.ran > 0 /\ <<entry[1], "WEBHOOK_FAILED">> \notin audit
               /\ entry[2] = "WEBHOOK_FAILED" => r.tries = Attempts
               /\ entry[2] # "AUTHORIZED" /\ ~r.lost => <<entry[1], "AUTHORIZED">> \in audit
    <3>1. PICK n \in DOMAIN requests, stage \in Stages : entry = <<n, stage>>
      BY DEF TypeOK
    <3>2. RecordOf(n) /\ Wrote(n, stage)
      BY <3>1 DEF Records, Wrote
    <3>. QED  BY <3>1, <3>2 DEF RecordOf, Wrote, Stages
  <2>2. \A n \in dlq : requests[n].tries = Attempts /\ <<n, "EXECUTED">> \notin audit
    BY DEF TypeOK, Records, RecordOf, Wrote
  <2>. QED  BY <2>1, <2>2 DEF RecordedAsItWas
<1>. QED  BY <1>1, <1>2, InitType, NextType, NextRecords, PTL DEF Spec

================================================================================
