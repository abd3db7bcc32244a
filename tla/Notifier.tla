------------------------------- MODULE Notifier -------------------------------
(***************************************************************************)
(* The background tasks that IncidentLoop's fire() starts: execute_once of  *)
(* orchestrator/idempotency.py, _notify_tenant of loop.py around it, and    *)
(* the per-process degraded mode of degraded.py they drive.                 *)
(*                                                                          *)
(* claim_action is SET NX, DEL and HSET, three Redis commands: they are     *)
(* three steps here.  It never awaits, so between them its own process does *)
(* nothing else, but other processes do.  Markers live a day and incident   *)
(* ids are not reused, so no marker expires here.  The senders swallow the  *)
(* errors of a channel and return False; only what they do outside their    *)
(* try blocks (building a client, say) can raise.                           *)
(***************************************************************************)
EXTENDS Naturals, Sequences, FiniteSets

CONSTANTS
  Workers,    \* orchestrator processes
  Keys,       \* action ids: hash(incident, stage, action type)
  Unguarded,  \* those of ESCALATE, fired without execute_once
  Threshold,  \* NOTIFY_FAILURE_THRESHOLD
  MaxTasks,   \* bound on the tasks fired
  MaxCrashes  \* bound on process crashes

ASSUME NotifierAssumption ==
  /\ Unguarded \subseteq Keys
  /\ Threshold \in Nat \ {0}
  /\ MaxTasks \in Nat
  /\ MaxCrashes \in Nat

VARIABLES
  tasks,     \* the tasks in the order they were fired
  marker,    \* the idempotency key of each action: absent, the placeholder
             \* string, or the hash's status field
  failures,  \* notify_failures of each process
  mode,      \* degraded mode of each process
  dlq,       \* actions in the dead-letter queue
  crashes    \* number of crashes so far

vars == <<tasks, marker, failures, mode, dlq, crashes>>

-------------------------------------------------------------------------------
Statuses == {"claimed", "success", "failed"}    \* of a marker's hash
Markers  == {"none", "placeholder"} \cup Statuses

(* Where a task can be; the steps of claim_action are placed and deleted.    *)
Begun  == {"running", "raised", "delivered", "unsent", "queued", "interrupted"}
States == {"new", "placed", "deleted", "skipped", "died"} \cup Begun

Tasks == [worker : Workers, key : Keys, state : States]

(* Steps of a task inside which its process serves no other task.            *)
Busy(w) == \E n \in DOMAIN tasks : /\ tasks[n].worker = w
                                   /\ tasks[n].state \in {"placed", "deleted", "raised"}

Become(n, state) == tasks' = [tasks EXCEPT ![n].state = state]

Init == /\ tasks = <<>>
        /\ marker = [k \in Keys |-> "none"]
        /\ failures = [w \in Workers |-> 0]
        /\ mode = [w \in Workers |-> "NORMAL"]
        /\ dlq = {}
        /\ crashes = 0

(* fire(): the polling loop starts a task for an action, perhaps once more.  *)
Fire(w, k) ==
  /\ Len(tasks) < MaxTasks
  /\ ~Busy(w)
  /\ tasks' = Append(tasks, [worker |-> w, key |-> k, state |-> "new"])
  /\ UNCHANGED <<marker, failures, mode, dlq, crashes>>

(* The task runs: SET NX finds a marker and the action is skipped, or leaves  *)
(* the placeholder.                                                           *)
Claim(n) ==
  LET k == tasks[n].key
  IN
  /\ tasks[n].state = "new"
  /\ ~Busy(tasks[n].worker)
  /\ \/ /\ k \in Unguarded
        /\ Become(n, "running")
        /\ UNCHANGED marker
     \/ /\ k \notin Unguarded
        /\ marker[k] # "none"
        /\ Become(n, "skipped")
        /\ UNCHANGED marker
     \/ /\ k \notin Unguarded
        /\ marker[k] = "none"
        /\ marker' = [marker EXCEPT ![k] = "placeholder"]
        /\ Become(n, "placed")
  /\ UNCHANGED <<failures, mode, dlq, crashes>>

KeptPlaceholder(n) ==    \* the DEL forgotten
  /\ tasks[n].state = "placed"
  /\ Become(n, "deleted")
  /\ UNCHANGED <<marker, failures, mode, dlq, crashes>>

(* DEL of the placeholder. *)
DeletePlaceholder(n) ==
  /\ tasks[n].state = "placed"
  /\ marker' = [marker EXCEPT ![tasks[n].key] = "none"]
  /\ Become(n, "deleted")
  /\ UNCHANGED <<failures, mode, dlq, crashes>>

RunUnmarked(n) ==    \* the HSET forgotten
  /\ tasks[n].state = "deleted"
  /\ Become(n, "running")
  /\ UNCHANGED <<marker, failures, mode, dlq, crashes>>

(* HSET: a string in its place is a type error, and claim_action is False.    *)
WriteMarker(n) ==
  LET k == tasks[n].key
  IN
  /\ tasks[n].state = "deleted"
  /\ IF marker[k] = "placeholder"
     THEN /\ Become(n, "skipped")
          /\ UNCHANGED marker
     ELSE /\ marker' = [marker EXCEPT ![k] = "claimed"]
          /\ Become(n, "running")
  /\ UNCHANGED <<failures, mode, dlq, crashes>>

(* A failed action's marker removed, so that it may be tried again. *)
UpdatedForRetry(k, status) ==
  [marker EXCEPT ![k] = IF status = "failed" THEN "none" ELSE status]

(* update_status sets the status of a hash; a missing marker is reported and  *)
(* a string's type error swallowed.                                           *)
Updated(k, status) ==
  [marker EXCEPT ![k] = IF @ \in Statuses THEN status ELSE @]

(* fn returned, whether a channel took the message or every one refused it:   *)
(* execute_once does not look at what it returned.                            *)
Finish(n) ==
  LET k == tasks[n].key
  IN
  /\ tasks[n].state = "running"
  /\ ~Busy(tasks[n].worker)
  /\ \E state \in {"delivered", "unsent"} : Become(n, state)
  /\ marker' = IF k \in Unguarded THEN marker ELSE Updated(k, "success")
  /\ UNCHANGED <<failures, mode, dlq, crashes>>

(* fn raised.  Nobody handles that for an unguarded task: it is only logged.  *)
Raise(n) ==
  LET k == tasks[n].key
  IN
  /\ tasks[n].state = "running"
  /\ ~Busy(tasks[n].worker)
  /\ \/ /\ k \in Unguarded
        /\ Become(n, "unsent")
        /\ UNCHANGED marker
     \/ /\ k \notin Unguarded
        /\ marker' = Updated(k, "failed")
        /\ Become(n, "raised")
  /\ UNCHANGED <<failures, mode, dlq, crashes>>

UnqueuedFailure(n) ==    \* counted, but not put in the queue
  /\ tasks[n].state = "raised"
  /\ failures' = [failures EXCEPT ![tasks[n].worker] = @ + 1]
  /\ Become(n, "queued")
  /\ UNCHANGED <<marker, mode, dlq, crashes>>

(* _notify_tenant catches it: record_notify_failure, then the DLQ.            *)
Queue(n) ==
  LET w == tasks[n].worker
  IN
  /\ tasks[n].state = "raised"
  /\ failures' = [failures EXCEPT ![w] = @ + 1]
  /\ mode' = IF failures[w] + 1 >= Threshold
             THEN [mode EXCEPT ![w] = "DEGRADED"] ELSE mode
  /\ dlq' = dlq \cup {tasks[n].key}
  /\ Become(n, "queued")
  /\ UNCHANGED <<marker, crashes>>

Credit(w) ==    \* a success takes one failure back, if there was one or not
  /\ ~Busy(w)
  /\ failures' = [failures EXCEPT ![w] = @ - 1]
  /\ mode' = [mode EXCEPT ![w] = "NORMAL"]
  /\ UNCHANGED <<tasks, marker, dlq, crashes>>

(* record_success(), after a health fetch, once the reset period is over.     *)
Reset(w) ==
  /\ ~Busy(w)
  /\ failures[w] # 0
  /\ failures' = [failures EXCEPT ![w] = 0]
  /\ mode' = [mode EXCEPT ![w] = "NORMAL"]
  /\ UNCHANGED <<tasks, marker, dlq, crashes>>

(* The process dies; its tasks die with it, some of them half done.           *)
Crash(w) ==
  /\ crashes < MaxCrashes
  /\ crashes' = crashes + 1
  /\ tasks' = [n \in DOMAIN tasks |->
       IF tasks[n].worker # w THEN tasks[n]
       ELSE [tasks[n] EXCEPT !.state =
               CASE @ \in {"new", "placed", "deleted"} -> "died"
                 [] @ \in {"running", "raised"}        -> "interrupted"
                 [] OTHER                              -> @]]
  /\ failures' = [failures EXCEPT ![w] = 0]
  /\ mode' = [mode EXCEPT ![w] = "NORMAL"]
  /\ UNCHANGED <<marker, dlq>>

Perform(n) == \/ Claim(n)  \/ DeletePlaceholder(n) \/ WriteMarker(n)
              \/ Finish(n) \/ Raise(n)             \/ Queue(n)

Next == \/ \E w \in Workers, k \in Keys : Fire(w, k)
        \/ \E n \in DOMAIN tasks : Perform(n)
        \/ \E w \in Workers : Reset(w) \/ Crash(w)

Spec == Init /\ [][Next]_vars

-------------------------------------------------------------------------------
(* The tasks, the markers, the failure counters and the modes keep their      *)
(* types.                                                                     *)
TypeOK == /\ tasks \in Seq(Tasks)
          /\ marker \in [Keys -> Markers]
          /\ failures \in [Workers -> Nat]
          /\ mode \in [Workers -> {"NORMAL", "DEGRADED"}]
          /\ dlq \subseteq Keys
          /\ crashes \in Nat

Guarded == Keys \ Unguarded

Of(k, states) == {n \in DOMAIN tasks : tasks[n].key = k /\ tasks[n].state \in states}

(* No action is executed by two tasks.                                        *)
AtMostOnce ==
  \A m, n \in DOMAIN tasks :
    (/\ tasks[m].key = tasks[n].key
     /\ tasks[m].key \in Guarded
     /\ tasks[m].state \in Begun
     /\ tasks[n].state \in Begun) => m = n

(* With one process, execute_once implements Once: every action is begun at   *)
(* most once, through crashes and repeated requests (idempotency.py).         *)
Promise == INSTANCE Once WITH Actions    <- Guarded,
                              executions <- [k \in Guarded |-> Cardinality(Of(k, Begun))]
ImplementsOnce == Promise!Spec

(* A hash, once written, is never deleted and never turns back into a         *)
(* placeholder, whatever the processes claiming the same action do to it:     *)
(* each DEL removes its own placeholder.                                      *)
MarkerStays ==
  [][\A k \in Keys : marker[k] \in Statuses => marker'[k] \in Statuses]_vars

(* Processes that claim the same action at once do not all lose it: without a *)
(* crash, one that skipped left the action to another one.                    *)
SkippedForAnother ==
  crashes = 0 =>
    \A k \in Guarded :
      Of(k, {"skipped"}) # {} => Of(k, Begun \cup {"placed", "deleted"}) # {}

(* An action whose marker says that it failed is in the dead-letter queue, or *)
(* on its way there, unless its process crashed; also when another process    *)
(* executed it as well.                                                       *)
FailureIsQueued ==
  crashes = 0 =>
    \A k \in Guarded :
      marker[k] = "failed" => k \in dlq \/ Of(k, {"raised"}) # {}

-------------------------------------------------------------------------------
(* The inductive invariant behind AtMostOnce.                                 *)

Claiming(n) == tasks[n].state \in {"placed", "deleted"}

(* The marker that a task's state requires of its action.                     *)
Fits(state, value) == /\ state \in Begun => value \in Statuses
                      /\ state = "placed" => value = "placeholder"
                      /\ state = "deleted" => value = "none"

(* The marker of an action tells how far the one task went that claimed it,   *)
(* and one task of a process at most is inside claim_action: with a single    *)
(* process these two leave no room for a second execution.                    *)
ClaimInv ==
  /\ \A n \in DOMAIN tasks :
       tasks[n].key \in Guarded => Fits(tasks[n].state, marker[tasks[n].key])
  /\ \A m, n \in DOMAIN tasks : Claiming(m) /\ Claiming(n) => m = n
  /\ \A n \in DOMAIN tasks : Claiming(n) => tasks[n].key \in Guarded
  /\ AtMostOnce

-------------------------------------------------------------------------------
(* What the repository says of notifications and the code does not do.        *)

(* A notification that reached nobody is captured in the dead-letter queue.   *)
UnsentIsQueued ==
  \A n \in DOMAIN tasks : tasks[n].state = "unsent" => tasks[n].key \in dlq
=============================================================================
