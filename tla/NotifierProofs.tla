---------------------------- MODULE NotifierProofs ----------------------------
(***************************************************************************)
(* Proofs about Notifier: types for any number of processes, and at most    *)
(* one execution of an action for one process, whatever is fired how often  *)
(* and however often the process crashes.                                   *)
(***************************************************************************)
EXTENDS Notifier, FiniteSetTheorems, TLAPS

(* Every task that was fired has a record.                                  *)
LEMMA TaskType ==
  ASSUME tasks \in Seq(Tasks), NEW n \in DOMAIN tasks
  PROVE  /\ tasks[n] \in Tasks
         /\ tasks[n].worker \in Workers
         /\ tasks[n].key \in Keys
         /\ tasks[n].state \in States
<1>1. tasks[n] \in Tasks
  OBVIOUS
<1>. QED  BY <1>1 DEF Tasks

(* Moving one task on leaves the others, and its process and action, alone. *)
LEMMA BecomeFacts ==
  ASSUME tasks \in Seq(Tasks), NEW n \in DOMAIN tasks, NEW state \in States,
         Become(n, state)
  PROVE  /\ tasks' \in Seq(Tasks)
         /\ DOMAIN tasks' = DOMAIN tasks
         /\ \A m \in DOMAIN tasks : /\ tasks'[m].worker = tasks[m].worker
                                    /\ tasks'[m].key = tasks[m].key
         /\ \A m \in DOMAIN tasks \ {n} : tasks'[m] = tasks[m]
         /\ tasks'[n].state = state
<1>1. [tasks[n] EXCEPT !.state = state] \in Tasks
  BY TaskType DEF Tasks
<1>2. tasks' = [tasks EXCEPT ![n] = [@ EXCEPT !.state = state]]
  BY DEF Become
<1>3. tasks' \in Seq(Tasks)
  BY <1>1, <1>2
<1>4. DOMAIN tasks' = DOMAIN tasks
  BY <1>2
<1>5. \A m \in DOMAIN tasks \ {n} : tasks'[m] = tasks[m]
  BY <1>2
<1>6. tasks'[n] = [tasks[n] EXCEPT !.state = state]
  BY <1>2
<1>7. /\ tasks'[n].state = state
      /\ tasks'[n].key = tasks[n].key
      /\ tasks'[n].worker = tasks[n].worker
  BY <1>6, TaskType DEF Tasks
<1>. QED  BY <1>3, <1>4, <1>5, <1>7

(* A crash ends the unfinished tasks of its process, and those alone.       *)
LEMMA CrashFacts ==
  ASSUME tasks \in Seq(Tasks), NEW w, Crash(w)
  PROVE  /\ tasks' \in Seq(Tasks)
         /\ DOMAIN tasks' = DOMAIN tasks
         /\ \A m \in DOMAIN tasks :
              /\ tasks'[m].key = tasks[m].key
              /\ tasks'[m].state \in Begun <=> tasks[m].state \in Begun
              /\ tasks'[m].state \in {"placed", "deleted"} =>
                   tasks'[m] = tasks[m]
<1>. DEFINE After(s) == CASE s \in {"new", "placed", "deleted"} -> "died"
                          [] s \in {"running", "raised"} -> "interrupted"
                          [] OTHER -> s
            task(n) == IF tasks[n].worker # w THEN tasks[n]
                       ELSE [tasks[n] EXCEPT !.state = After(@)]
<1>1. ASSUME NEW s \in States
      PROVE  /\ After(s) \in States \ {"placed", "deleted"}
             /\ After(s) \in Begun <=> s \in Begun
  BY <1>1 DEF States, Begun
<1>2. tasks' = [n \in DOMAIN tasks |-> task(n)]
  BY DEF Crash
<1>. HIDE DEF After
<1>3. ASSUME NEW n \in DOMAIN tasks
      PROVE  /\ task(n) \in Tasks
             /\ task(n).key = tasks[n].key
             /\ task(n).state \in Begun <=> tasks[n].state \in Begun
             /\ task(n).state \in {"placed", "deleted"} => task(n) = tasks[n]
  BY <1>1, TaskType DEF Tasks
<1>. HIDE DEF task
<1>4. tasks' \in Seq(Tasks)
  BY <1>2, <1>3
<1>. QED  BY <1>2, <1>3, <1>4

(* The initial state is well typed.                                         *)
LEMMA InitType == Init => TypeOK
BY DEF Init, TypeOK, Markers

(* Every step keeps the types.                                              *)
LEMMA NextType == TypeOK /\ [Next]_vars => TypeOK'
<1>. SUFFICES ASSUME TypeOK, [Next]_vars PROVE TypeOK'
  OBVIOUS
<1>. USE DEF TypeOK, States, Begun, Markers, Statuses
<1>1. ASSUME NEW w \in Workers, NEW k \in Keys, Fire(w, k) PROVE TypeOK'
  <2>1. [worker |-> w, key |-> k, state |-> "new"] \in Tasks
    BY DEF Tasks
  <2>. QED  BY <1>1, <2>1 DEF Fire
<1>2. ASSUME NEW n \in DOMAIN tasks, Claim(n) PROVE TypeOK'
  <2>1. \E state \in States : Become(n, state)
    BY <1>2 DEF Claim
  <2>2. tasks' \in Seq(Tasks)
    BY <2>1, BecomeFacts
  <2>. QED  BY <1>2, <2>2, TaskType DEF Claim
<1>3. ASSUME NEW n \in DOMAIN tasks, DeletePlaceholder(n) PROVE TypeOK'
  <2>1. tasks' \in Seq(Tasks)
    BY <1>3, BecomeFacts DEF DeletePlaceholder
  <2>. QED  BY <1>3, <2>1, TaskType DEF DeletePlaceholder
<1>4. ASSUME NEW n \in DOMAIN tasks, WriteMarker(n) PROVE TypeOK'
  <2>1. \E state \in States : Become(n, state)
    BY <1>4 DEF WriteMarker
  <2>2. tasks' \in Seq(Tasks)
    BY <2>1, BecomeFacts
  <2>. QED  BY <1>4, <2>2, TaskType DEF WriteMarker
<1>5. ASSUME NEW n \in DOMAIN tasks, Finish(n) PROVE TypeOK'
  <2>1. \E state \in States : Become(n, state)
    BY <1>5 DEF Finish
  <2>2. tasks' \in Seq(Tasks)
    BY <2>1, BecomeFacts
  <2>. QED  BY <1>5, <2>2, TaskType DEF Finish, Updated
<1>6. ASSUME NEW n \in DOMAIN tasks, Raise(n) PROVE TypeOK'
  <2>1. \E state \in States : Become(n, state)
    BY <1>6 DEF Raise
  <2>2. tasks' \in Seq(Tasks)
    BY <2>1, BecomeFacts
  <2>. QED  BY <1>6, <2>2, TaskType DEF Raise, Updated
<1>7. ASSUME NEW n \in DOMAIN tasks, Queue(n) PROVE TypeOK'
  <2>1. tasks' \in Seq(Tasks)
    BY <1>7, BecomeFacts DEF Queue
  <2>. QED  BY <1>7, <2>1, TaskType DEF Queue
<1>8. ASSUME NEW w \in Workers, Reset(w) PROVE TypeOK'
  BY <1>8 DEF Reset
<1>9. ASSUME NEW w \in Workers, Crash(w) PROVE TypeOK'
  <2>1. tasks' \in Seq(Tasks)
    BY <1>9, CrashFacts
  <2>. QED  BY <1>9, <2>1 DEF Crash
<1>10. CASE UNCHANGED vars
  BY <1>10 DEF vars
<1>. QED
  BY <1>1, <1>2, <1>3, <1>4, <1>5, <1>6, <1>7, <1>8, <1>9, <1>10
  DEF Next, Perform

(* Type correctness of Notifier, for any number of processes.               *)
THEOREM NotifierTypeCorrect == Spec => []TypeOK
BY InitType, NextType, PTL DEF Spec
-------------------------------------------------------------------------------
(* At most once.                                                            *)

(* Nothing is claimed at first.                                             *)
LEMMA InitClaims == Init => ClaimInv
BY DEF Init, ClaimInv, AtMostOnce, Claiming

(* A task that moves on keeps ClaimInv if every marker still fits, if it is   *)
(* alone inside claim_action, and if no other task began its action.          *)
LEMMA MoveClaims ==
  ASSUME TypeOK, ClaimInv, NEW n \in DOMAIN tasks, NEW state \in States,
         Become(n, state),
         \A m \in DOMAIN tasks \ {n} :
           tasks[m].key \in Guarded =>
             Fits(tasks[m].state, marker'[tasks[m].key]),
         tasks[n].key \in Guarded => Fits(state, marker'[tasks[n].key]),
         state \in {"placed", "deleted"} =>
           /\ tasks[n].key \in Guarded
           /\ \A m \in DOMAIN tasks \ {n} : ~Claiming(m),
         state \in Begun /\ tasks[n].key \in Guarded =>
           \A m \in DOMAIN tasks \ {n} :
             tasks[m].key = tasks[n].key => tasks[m].state \notin Begun
  PROVE  ClaimInv'
<1>1. /\ DOMAIN tasks' = DOMAIN tasks
      /\ \A m \in DOMAIN tasks : tasks'[m].key = tasks[m].key
      /\ \A m \in DOMAIN tasks \ {n} : tasks'[m] = tasks[m]
      /\ tasks'[n].state = state
  BY BecomeFacts DEF TypeOK
<1>2. \A m \in DOMAIN tasks' :
        tasks'[m].key \in Guarded => Fits(tasks'[m].state, marker'[tasks'[m].key])
  BY <1>1
<1>3. \A m \in DOMAIN tasks \ {n} : (Claiming(m))' <=> Claiming(m)
  BY <1>1 DEF Claiming
<1>4. (Claiming(n))' <=> state \in {"placed", "deleted"}
  BY <1>1 DEF Claiming
<1>5. /\ \A l, m \in DOMAIN tasks' : (Claiming(l))' /\ (Claiming(m))' => l = m
      /\ \A m \in DOMAIN tasks' : (Claiming(m))' => tasks'[m].key \in Guarded
  BY <1>1, <1>3, <1>4 DEF ClaimInv
<1>6. AtMostOnce'
  BY <1>1 DEF AtMostOnce, ClaimInv, Guarded
<1>. QED  BY <1>2, <1>5, <1>6 DEF ClaimInv, Guarded, Fits, Begun, Statuses

(* With one process every step keeps the markers in line with the tasks: the *)
(* process that is between SET NX and HSET starts no other claim.            *)
LEMMA NextClaims ==
  ASSUME NEW p, Workers = {p}, TypeOK, ClaimInv, [Next]_vars
  PROVE  ClaimInv'
<1>0. \A n \in DOMAIN tasks :
        /\ tasks[n].worker = p
        /\ tasks[n].key \in Keys
        /\ tasks[n].state \in States
  BY TaskType DEF TypeOK
<1>1. ASSUME NEW w \in Workers, NEW k \in Keys, Fire(w, k) PROVE ClaimInv'
  <2>. DEFINE t == [worker |-> w, key |-> k, state |-> "new"]
  <2>1. /\ tasks' = Append(tasks, t)
        /\ marker' = marker
    BY <1>1 DEF Fire
  <2>2. \A n \in DOMAIN tasks' : \/ n \in DOMAIN tasks /\ tasks'[n] = tasks[n]
                                \/ tasks'[n].state = "new"
    BY <2>1 DEF Tasks, TypeOK
  <2>. QED
    BY <2>1, <2>2
    DEF Begun, ClaimInv, AtMostOnce, Claiming, Guarded, Fits, Statuses
<1>2. ASSUME NEW n \in DOMAIN tasks, Claim(n) PROVE ClaimInv'
  <2>1. \A m \in DOMAIN tasks : ~Claiming(m)
    BY <1>0, <1>2 DEF Claim, Busy, Claiming
  <2>2. CASE tasks[n].key \in Unguarded
    <3>1. Become(n, "running") /\ marker' = marker
      BY <1>2, <2>2 DEF Claim
    <3>. QED  BY <2>2, <3>1, MoveClaims DEF States, Begun, Guarded, ClaimInv
  <2>3. CASE tasks[n].key \notin Unguarded /\ marker[tasks[n].key] # "none"
    <3>1. Become(n, "skipped") /\ marker' = marker
      BY <1>2, <2>3 DEF Claim
    <3>. QED  BY <3>1, MoveClaims DEF States, Begun, ClaimInv, Fits
  <2>4. CASE tasks[n].key \notin Unguarded /\ marker[tasks[n].key] = "none"
    <3>1. /\ Become(n, "placed")
          /\ marker' = [marker EXCEPT ![tasks[n].key] = "placeholder"]
      BY <1>2, <2>4 DEF Claim
    <3>2. \A m \in DOMAIN tasks : tasks[m].key = tasks[n].key
                                   => tasks[m].state \notin Begun
      BY <1>0, <2>4 DEF ClaimInv, Guarded, Fits, Statuses
    <3>3. \A m \in DOMAIN tasks \ {n} :
            tasks[m].key \in Guarded =>
              Fits(tasks[m].state, marker'[tasks[m].key])
      BY <1>0, <2>1, <3>1, <3>2 DEF ClaimInv, Claiming, Fits, TypeOK
    <3>4. marker'[tasks[n].key] = "placeholder" /\ tasks[n].key \in Guarded
      BY <1>0, <2>4, <3>1 DEF TypeOK, Guarded
    <3>. QED  BY <2>1, <3>1, <3>2, <3>3, <3>4, MoveClaims DEF States, Begun, Fits
  <2>. QED  BY <2>2, <2>3, <2>4
<1>3. ASSUME NEW n \in DOMAIN tasks, DeletePlaceholder(n) PROVE ClaimInv'
  <2>1. /\ Become(n, "deleted")
        /\ marker' = [marker EXCEPT ![tasks[n].key] = "none"]
        /\ tasks[n].state = "placed"
    BY <1>3 DEF DeletePlaceholder
  <2>2. /\ tasks[n].key \in Guarded
        /\ marker[tasks[n].key] = "placeholder"
        /\ \A m \in DOMAIN tasks \ {n} : ~Claiming(m)
    BY <2>1 DEF ClaimInv, Claiming, Fits
  <2>3. \A m \in DOMAIN tasks : tasks[m].key = tasks[n].key
                                 => tasks[m].state \notin Begun
    BY <2>2 DEF ClaimInv, Fits, Statuses
  <2>4. \A m \in DOMAIN tasks \ {n} :
          tasks[m].key \in Guarded => Fits(tasks[m].state, marker'[tasks[m].key])
    BY <1>0, <2>1, <2>2, <2>3 DEF ClaimInv, Claiming, Fits, TypeOK
  <2>5. marker'[tasks[n].key] = "none"
    BY <1>0, <2>1 DEF TypeOK
  <2>. QED  BY <2>1, <2>2, <2>3, <2>4, <2>5, MoveClaims DEF States, Begun, Fits
<1>4. ASSUME NEW n \in DOMAIN tasks, WriteMarker(n) PROVE ClaimInv'
  <2>1. /\ tasks[n].state = "deleted"
        /\ tasks[n].key \in Guarded
        /\ marker[tasks[n].key] = "none"
        /\ \A m \in DOMAIN tasks \ {n} : ~Claiming(m)
    BY <1>4 DEF WriteMarker, ClaimInv, Claiming, Fits
  <2>2. /\ Become(n, "running")
        /\ marker' = [marker EXCEPT ![tasks[n].key] = "claimed"]
    BY <1>4, <2>1 DEF WriteMarker
  <2>3. \A m \in DOMAIN tasks : tasks[m].key = tasks[n].key
                                 => tasks[m].state \notin Begun
    BY <2>1 DEF ClaimInv, Fits, Statuses
  <2>4. \A m \in DOMAIN tasks \ {n} :
          tasks[m].key \in Guarded => Fits(tasks[m].state, marker'[tasks[m].key])
    BY <1>0, <2>1, <2>2, <2>3 DEF ClaimInv, Claiming, Fits, TypeOK
  <2>5. marker'[tasks[n].key] = "claimed"
    BY <1>0, <2>2 DEF TypeOK
  <2>. QED
    BY <2>1, <2>2, <2>3, <2>4, <2>5, MoveClaims DEF States, Begun, Fits, Statuses
<1>5. ASSUME NEW n \in DOMAIN tasks, Finish(n) \/ Raise(n) PROVE ClaimInv'
  <2>1. PICK state \in {"delivered", "unsent", "raised"} : Become(n, state)
    BY <1>5 DEF Finish, Raise
  <2>2. tasks[n].state = "running"
    BY <1>5 DEF Finish, Raise
  <2>3. \A k \in Keys : \/ marker'[k] = marker[k]
                        \/ /\ marker[k] \in Statuses
                           /\ marker'[k] \in Statuses
    BY <1>0, <1>5 DEF Finish, Raise, Updated, Statuses, TypeOK
  <2>4. \A m \in DOMAIN tasks :
          tasks[m].key \in Guarded => Fits(tasks[m].state, marker'[tasks[m].key])
    BY <1>0, <2>3 DEF ClaimInv, Fits, Statuses
  <2>5. tasks[n].key \in Guarded =>
          \A m \in DOMAIN tasks \ {n} :
            tasks[m].key = tasks[n].key => tasks[m].state \notin Begun
    BY <2>2 DEF ClaimInv, AtMostOnce, Begun
  <2>6. tasks[n].key \in Guarded => Fits(state, marker'[tasks[n].key])
    BY <2>2, <2>4 DEF Fits, Begun
  <2>. QED  BY <2>1, <2>4, <2>5, <2>6, MoveClaims DEF States, Begun
<1>6. ASSUME NEW n \in DOMAIN tasks, Queue(n) PROVE ClaimInv'
  <2>1. Become(n, "queued") /\ tasks[n].state = "raised" /\ marker' = marker
    BY <1>6 DEF Queue
  <2>2. tasks[n].key \in Guarded =>
          \A m \in DOMAIN tasks \ {n} :
            tasks[m].key = tasks[n].key => tasks[m].state \notin Begun
    BY <2>1 DEF ClaimInv, AtMostOnce, Begun
  <2>3. \A m \in DOMAIN tasks :
          tasks[m].key \in Guarded => Fits(tasks[m].state, marker'[tasks[m].key])
    BY <2>1 DEF ClaimInv
  <2>4. tasks[n].key \in Guarded => Fits("queued", marker'[tasks[n].key])
    BY <2>1, <2>3 DEF Fits, Begun
  <2>. QED  BY <2>1, <2>2, <2>3, <2>4, MoveClaims DEF States, Begun
<1>7. ASSUME NEW w \in Workers, Reset(w) PROVE ClaimInv'
  BY <1>7 DEF Reset, ClaimInv, AtMostOnce, Claiming
<1>8. ASSUME NEW w \in Workers, Crash(w) PROVE ClaimInv'
  <2>1. marker' = marker
    BY <1>8 DEF Crash
  <2>. QED
    BY <1>8, <2>1, CrashFacts
    DEF TypeOK, ClaimInv, AtMostOnce, Claiming, Fits, Guarded
<1>9. CASE UNCHANGED vars
  BY <1>9 DEF vars, ClaimInv, AtMostOnce, Claiming
<1>. QED
  BY <1>1, <1>2, <1>3, <1>4, <1>5, <1>6, <1>7, <1>8, <1>9 DEF Next, Perform

(* The markers and the tasks agree, for one orchestrator process: the marker of *)
(* an action tells how far its only claim got, across retries and restarts.   *)
THEOREM ClaimInvCorrect ==
  ASSUME NEW CONSTANT p, Workers = {p}
  PROVE  Spec => []ClaimInv
<1>1. TypeOK /\ ClaimInv /\ [Next]_vars => TypeOK' /\ ClaimInv'
  BY NextType, NextClaims
<1>. QED  BY InitType, InitClaims, <1>1, PTL DEF Spec

(* idempotency.py's promise, for one orchestrator process: no action is       *)
(* executed twice, however often it is fired, whatever fails and however often *)
(* the process restarts.                                                      *)
THEOREM AtMostOnceCorrect ==
  ASSUME NEW CONSTANT p, Workers = {p}
  PROVE  Spec => []AtMostOnce
<1>1. ClaimInv => AtMostOnce
  BY DEF ClaimInv
<1>. QED  BY ClaimInvCorrect, <1>1, PTL

-------------------------------------------------------------------------------
(* The refinement: how often an action was begun is what Once counts.       *)

HasBegun(k) == \E n \in DOMAIN tasks : /\ tasks[n].key = k
                                        /\ tasks[n].state \in Begun

(* While no action is executed twice, the count Promise keeps is 0 or 1.     *)
LEMMA ExecutionCount ==
  ASSUME AtMostOnce, NEW k \in Guarded
  PROVE  Cardinality(Of(k, Begun)) = IF HasBegun(k) THEN 1 ELSE 0
<1>1. CASE HasBegun(k)
  <2>1. PICK n \in DOMAIN tasks : tasks[n].key = k /\ tasks[n].state \in Begun
    BY <1>1 DEF HasBegun
  <2>2. Of(k, Begun) = {n}
    BY <2>1 DEF Of, AtMostOnce
  <2>. QED  BY <1>1, <2>2, FS_Singleton
<1>2. CASE ~HasBegun(k)
  <2>1. Of(k, Begun) = {}
    BY <1>2 DEF Of, HasBegun
  <2>. QED  BY <1>2, <2>1, FS_EmptySet
<1>. QED  BY <1>1, <1>2

(* A task that moves on without entering or leaving Begun, or that runs an    *)
(* unguarded action, begins no guarded one.                                   *)
LEMMA MoveBegins ==
  ASSUME TypeOK, NEW n \in DOMAIN tasks, NEW state \in States, Become(n, state),
         tasks[n].key \in Guarded => (state \in Begun <=> tasks[n].state \in Begun)
  PROVE  \A k \in Guarded : HasBegun(k)' <=> HasBegun(k)
<1>1. /\ DOMAIN tasks' = DOMAIN tasks
      /\ \A m \in DOMAIN tasks : tasks'[m].key = tasks[m].key
      /\ \A m \in DOMAIN tasks \ {n} : tasks'[m] = tasks[m]
      /\ tasks'[n].state = state
  BY BecomeFacts DEF TypeOK
<1>2. Begun' = Begun
  BY DEF Begun
<1>3. \A k \in Guarded, m \in DOMAIN tasks :
        (tasks'[m].key = k /\ tasks'[m].state \in Begun)
          <=> (tasks[m].key = k /\ tasks[m].state \in Begun)
  BY <1>1
<1>. QED  BY <1>1, <1>2, <1>3 DEF HasBegun

(* A step begins no guarded action, or exactly one that was not begun yet.    *)
LEMMA StepBegins ==
  ASSUME TypeOK, ClaimInv, [Next]_vars
  PROVE  \/ \A k \in Guarded : HasBegun(k)' <=> HasBegun(k)
         \/ \E a \in Guarded :
              /\ ~HasBegun(a)
              /\ HasBegun(a)'
              /\ \A k \in Guarded \ {a} : HasBegun(k)' <=> HasBegun(k)
<1>. DEFINE Same == \A k \in Guarded : HasBegun(k)' <=> HasBegun(k)
<1>1. ASSUME NEW w \in Workers, NEW k \in Keys, Fire(w, k) PROVE Same
  <2>. DEFINE t == [worker |-> w, key |-> k, state |-> "new"]
  <2>1. tasks' = Append(tasks, t)
    BY <1>1 DEF Fire
  <2>2. \A n \in DOMAIN tasks' : \/ n \in DOMAIN tasks /\ tasks'[n] = tasks[n]
                                \/ tasks'[n].state = "new"
    BY <2>1 DEF Tasks, TypeOK
  <2>3. \A n \in DOMAIN tasks : n \in DOMAIN tasks' /\ tasks'[n] = tasks[n]
    BY <2>1 DEF TypeOK
  <2>. QED  BY <2>2, <2>3 DEF HasBegun, Begun
<1>2. ASSUME NEW n \in DOMAIN tasks, Claim(n) PROVE Same
  <2>1. tasks[n].state = "new"
    BY <1>2 DEF Claim
  <2>2. CASE tasks[n].key \in Unguarded
    <3>1. Become(n, "running")
      BY <1>2, <2>2 DEF Claim
    <3>. QED  BY <2>2, <3>1, MoveBegins DEF States, Begun, Guarded
  <2>3. CASE tasks[n].key \notin Unguarded
    <3>1. PICK state \in {"skipped", "placed"} : Become(n, state)
      BY <1>2, <2>3 DEF Claim
    <3>. QED  BY <2>1, <3>1, MoveBegins DEF States, Begun
  <2>. QED  BY <2>2, <2>3
<1>3. ASSUME NEW n \in DOMAIN tasks, DeletePlaceholder(n) PROVE Same
  <2>1. Become(n, "deleted") /\ tasks[n].state = "placed"
    BY <1>3 DEF DeletePlaceholder
  <2>. QED  BY <2>1, MoveBegins DEF States, Begun
<1>4. ASSUME NEW n \in DOMAIN tasks, WriteMarker(n)
      PROVE  LET a == tasks[n].key
             IN  /\ a \in Guarded
                 /\ ~HasBegun(a)
                 /\ HasBegun(a)'
                 /\ \A k \in Guarded \ {a} : HasBegun(k)' <=> HasBegun(k)
  <2>1. /\ tasks[n].state = "deleted"
        /\ tasks[n].key \in Guarded
        /\ marker[tasks[n].key] = "none"
    BY <1>4 DEF WriteMarker, ClaimInv, Claiming, Fits
  <2>2. Become(n, "running")
    BY <1>4, <2>1 DEF WriteMarker
  <2>3. ~HasBegun(tasks[n].key)
    BY <2>1 DEF ClaimInv, Fits, Statuses, HasBegun
  <2>4. /\ DOMAIN tasks' = DOMAIN tasks
        /\ \A m \in DOMAIN tasks : tasks'[m].key = tasks[m].key
        /\ \A m \in DOMAIN tasks \ {n} : tasks'[m] = tasks[m]
        /\ tasks'[n].state = "running"
    BY <2>2, BecomeFacts DEF TypeOK, States, Begun
  <2>5. HasBegun(tasks[n].key)'
    BY <2>4 DEF HasBegun, Begun
  <2>6. \A k \in Guarded \ {tasks[n].key} : HasBegun(k)' <=> HasBegun(k)
    BY <2>4 DEF HasBegun, Begun
  <2>. QED  BY <2>1, <2>3, <2>5, <2>6
<1>5. ASSUME NEW n \in DOMAIN tasks, Finish(n) \/ Raise(n) \/ Queue(n) PROVE Same
  <2>1. PICK state \in {"delivered", "unsent", "raised", "queued"} : Become(n, state)
    BY <1>5 DEF Finish, Raise, Queue
  <2>2. tasks[n].state \in {"running", "raised"}
    BY <1>5 DEF Finish, Raise, Queue
  <2>. QED  BY <2>1, <2>2, MoveBegins DEF States, Begun
<1>6. ASSUME NEW w \in Workers, Reset(w) PROVE Same
  BY <1>6 DEF Reset, HasBegun
<1>7. ASSUME NEW w \in Workers, Crash(w) PROVE Same
  BY <1>7, CrashFacts DEF TypeOK, HasBegun
<1>8. CASE UNCHANGED vars
  BY <1>8 DEF vars, HasBegun
<1>. QED
  BY <1>1, <1>2, <1>3, <1>4, <1>5, <1>6, <1>7, <1>8 DEF Next, Perform

(* idempotency.py's promise as a refinement: with one orchestrator process,   *)
(* Notifier implements Once; a task's HSET is the step that executes.         *)
THEOREM ImplementsOnceCorrect ==
  ASSUME NEW CONSTANT p, Workers = {p}
  PROVE  Spec => ImplementsOnce
<1>. DEFINE Count == [k \in Guarded |-> Cardinality(Of(k, Begun))]
            Inv   == TypeOK /\ ClaimInv
<1>1. Init => Inv
  BY InitType, InitClaims
<1>2. Inv /\ [Next]_vars => Inv'
  BY NextType, NextClaims
<1>3. Inv => Count = [k \in Guarded |-> IF HasBegun(k) THEN 1 ELSE 0]
  BY ExecutionCount DEF ClaimInv
<1>4. Init => Promise!Init
  <2>. SUFFICES ASSUME Init PROVE Promise!Init
    OBVIOUS
  <2>1. \A k \in Guarded : ~HasBegun(k)
    BY DEF Init, HasBegun
  <2>. QED  BY <1>1, <1>3, <2>1 DEF Promise!Init
<1>5. Inv /\ [Next]_vars => [Promise!Next]_Count
  <2>. SUFFICES ASSUME Inv, [Next]_vars PROVE [Promise!Next]_Count
    OBVIOUS
  <2>1. Count = [k \in Guarded |-> IF HasBegun(k) THEN 1 ELSE 0]
    BY <1>3
  <2>2. Count' = [k \in Guarded |-> IF HasBegun(k)' THEN 1 ELSE 0]
    <3>1. Inv'
      BY <1>2
    <3>2. Guarded' = Guarded
      BY DEF Guarded
    <3>3. (Inv => Count = [k \in Guarded |-> IF HasBegun(k) THEN 1 ELSE 0])'
      BY <1>3, PTL
    <3>. QED  BY <3>1, <3>2, <3>3
  <2>3. CASE \A k \in Guarded : HasBegun(k)' <=> HasBegun(k)
    <3>1. Count' = Count
      <4>. HIDE DEF Count
      <4>. QED  BY <2>1, <2>2, <2>3
    <3>. QED  BY <3>1
  <2>4. ASSUME NEW a \in Guarded, ~HasBegun(a), HasBegun(a)',
               \A k \in Guarded \ {a} : HasBegun(k)' <=> HasBegun(k)
        PROVE  Promise!Next
    <3>. HIDE DEF Count
    <3>1. Count[a] = 0 /\ Count' = [Count EXCEPT ![a] = 1]
      BY <2>1, <2>2, <2>4
    <3>. USE DEF Count
    <3>. QED  BY <3>1 DEF Promise!Next, Promise!Execute
  <2>. QED  BY <2>3, <2>4, StepBegins
<1>. QED  BY <1>1, <1>2, <1>4, <1>5, PTL DEF Spec, ImplementsOnce, Promise!Spec

-------------------------------------------------------------------------------
(* Markers, for any number of processes.                                    *)

(* A task that will delete a placeholder has one to delete, and it is its own: *)
(* what MarkerStays needs to know of the states it starts from.               *)
PlaceholderIsOwn ==
  /\ \A n \in DOMAIN tasks :
       tasks[n].state = "placed" => marker[tasks[n].key] = "placeholder"
  /\ \A m, n \in DOMAIN tasks :
       (/\ tasks[m].state = "placed"
        /\ tasks[n].state = "placed"
        /\ tasks[m].key = tasks[n].key) => m = n

(* No task is placed at first.                                                *)
LEMMA InitPlaceholder == Init => PlaceholderIsOwn
BY DEF Init, PlaceholderIsOwn

(* A task that moves on, but not to "placed", while no placeholder of another *)
(* one disappears.                                                            *)
LEMMA MovePlaceholder ==
  ASSUME TypeOK, PlaceholderIsOwn, NEW n \in DOMAIN tasks,
         NEW state \in States \ {"placed"}, Become(n, state),
         \A m \in DOMAIN tasks \ {n} :
           tasks[m].state = "placed" =>
             marker'[tasks[m].key] = marker[tasks[m].key]
  PROVE  PlaceholderIsOwn'
<1>1. /\ DOMAIN tasks' = DOMAIN tasks
      /\ \A m \in DOMAIN tasks \ {n} : tasks'[m] = tasks[m]
      /\ tasks'[n].state # "placed"
  BY BecomeFacts DEF TypeOK
<1>. QED  BY <1>1 DEF PlaceholderIsOwn

(* Every step leaves the placeholders to the tasks that placed them.          *)
LEMMA NextPlaceholder ==
  ASSUME TypeOK, PlaceholderIsOwn, [Next]_vars
  PROVE  PlaceholderIsOwn'
<1>0. \A n \in DOMAIN tasks : tasks[n].key \in Keys
  BY TaskType DEF TypeOK
<1>1. ASSUME NEW w \in Workers, NEW k \in Keys, Fire(w, k) PROVE PlaceholderIsOwn'
  <2>. DEFINE t == [worker |-> w, key |-> k, state |-> "new"]
  <2>1. tasks' = Append(tasks, t) /\ marker' = marker
    BY <1>1 DEF Fire
  <2>2. \A n \in DOMAIN tasks' : \/ n \in DOMAIN tasks /\ tasks'[n] = tasks[n]
                                \/ tasks'[n].state = "new"
    BY <2>1 DEF Tasks, TypeOK
  <2>. QED  BY <2>1, <2>2 DEF PlaceholderIsOwn
<1>2. ASSUME NEW n \in DOMAIN tasks, Claim(n) PROVE PlaceholderIsOwn'
  <2>1. CASE /\ marker' = marker
             /\ Become(n, "running") \/ Become(n, "skipped")
    BY <2>1, MovePlaceholder DEF States, Begun
  <2>2. CASE /\ marker[tasks[n].key] = "none"
             /\ marker' = [marker EXCEPT ![tasks[n].key] = "placeholder"]
             /\ Become(n, "placed")
    <3>1. /\ DOMAIN tasks' = DOMAIN tasks
          /\ \A m \in DOMAIN tasks \ {n} : tasks'[m] = tasks[m]
          /\ tasks'[n].key = tasks[n].key
      BY <2>2, BecomeFacts DEF TypeOK, States
    <3>2. \A m \in DOMAIN tasks :
            tasks[m].state = "placed" => tasks[m].key # tasks[n].key
      BY <2>2 DEF PlaceholderIsOwn
    <3>3. \A k \in Keys :
            marker'[k] = IF k = tasks[n].key THEN "placeholder" ELSE marker[k]
      BY <2>2 DEF TypeOK
    <3>. QED  BY <1>0, <3>1, <3>2, <3>3 DEF PlaceholderIsOwn
  <2>. QED  BY <1>2, <2>1, <2>2 DEF Claim
<1>3. ASSUME NEW n \in DOMAIN tasks, DeletePlaceholder(n) PROVE PlaceholderIsOwn'
  <2>1. /\ tasks[n].state = "placed"
        /\ marker' = [marker EXCEPT ![tasks[n].key] = "none"]
        /\ Become(n, "deleted")
    BY <1>3 DEF DeletePlaceholder
  <2>2. \A m \in DOMAIN tasks \ {n} :
          tasks[m].state = "placed" => tasks[m].key # tasks[n].key
    BY <2>1 DEF PlaceholderIsOwn
  <2>. QED  BY <1>0, <2>1, <2>2, MovePlaceholder DEF States, TypeOK
<1>4. ASSUME NEW n \in DOMAIN tasks, WriteMarker(n) PROVE PlaceholderIsOwn'
  <2>1. CASE Become(n, "skipped") /\ marker' = marker
    BY <2>1, MovePlaceholder DEF States
  <2>2. CASE /\ marker[tasks[n].key] # "placeholder"
             /\ marker' = [marker EXCEPT ![tasks[n].key] = "claimed"]
             /\ Become(n, "running")
    <3>1. \A m \in DOMAIN tasks \ {n} :
            tasks[m].state = "placed" => tasks[m].key # tasks[n].key
      BY <2>2 DEF PlaceholderIsOwn
    <3>. QED  BY <1>0, <2>2, <3>1, MovePlaceholder DEF States, Begun, TypeOK
  <2>. QED  BY <1>4, <2>1, <2>2 DEF WriteMarker
<1>5. ASSUME NEW n \in DOMAIN tasks, Finish(n) \/ Raise(n) PROVE PlaceholderIsOwn'
  <2>1. PICK state \in {"delivered", "unsent", "raised"} : Become(n, state)
    BY <1>5 DEF Finish, Raise
  <2>2. \A k \in Keys : marker[k] = "placeholder" => marker'[k] = marker[k]
    BY <1>0, <1>5 DEF Finish, Raise, Updated, Statuses, TypeOK
  <2>3. \A m \in DOMAIN tasks :
          tasks[m].state = "placed" => marker'[tasks[m].key] = marker[tasks[m].key]
    BY <1>0, <2>2 DEF PlaceholderIsOwn
  <2>. QED  BY <2>1, <2>3, MovePlaceholder DEF States, Begun
<1>6. ASSUME NEW n \in DOMAIN tasks, Queue(n) PROVE PlaceholderIsOwn'
  BY <1>6, MovePlaceholder DEF Queue, States, Begun
<1>7. ASSUME NEW w \in Workers, Reset(w) PROVE PlaceholderIsOwn'
  BY <1>7 DEF Reset, PlaceholderIsOwn
<1>8. ASSUME NEW w \in Workers, Crash(w) PROVE PlaceholderIsOwn'
  BY <1>8, CrashFacts DEF Crash, TypeOK, PlaceholderIsOwn
<1>9. CASE UNCHANGED vars
  BY <1>9 DEF vars, PlaceholderIsOwn
<1>. QED
  BY <1>1, <1>2, <1>3, <1>4, <1>5, <1>6, <1>7, <1>8, <1>9 DEF Next, Perform

(* claim_action deletes nobody's hash: for any number of processes a marker    *)
(* that was written once stays a hash, because a DEL meets its own placeholder *)
(* or nothing.                                                                *)
THEOREM MarkerStaysCorrect == Spec => MarkerStays
<1>. DEFINE Inv == TypeOK /\ PlaceholderIsOwn
            Stays == \A k \in Keys : marker[k] \in Statuses => marker'[k] \in Statuses
<1>1. Init => Inv
  BY InitType, InitPlaceholder
<1>2. Inv /\ [Next]_vars => Inv'
  BY NextType, NextPlaceholder
<1>3. Inv /\ [Next]_vars => [Stays]_vars
  <2>. SUFFICES ASSUME Inv, [Next]_vars PROVE Stays
    OBVIOUS
  <2>0. \A n \in DOMAIN tasks : tasks[n].key \in Keys
    BY TaskType DEF TypeOK
  <2>1. ASSUME NEW n \in DOMAIN tasks, Claim(n) PROVE Stays
    BY <2>0, <2>1 DEF Claim, TypeOK, Statuses
  <2>2. ASSUME NEW n \in DOMAIN tasks, DeletePlaceholder(n) PROVE Stays
    <3>1. marker[tasks[n].key] = "placeholder"
      BY <2>2 DEF DeletePlaceholder, PlaceholderIsOwn
    <3>. QED  BY <2>0, <2>2, <3>1 DEF DeletePlaceholder, TypeOK, Statuses
  <2>3. ASSUME NEW n \in DOMAIN tasks, WriteMarker(n) PROVE Stays
    BY <2>0, <2>3 DEF WriteMarker, TypeOK, Statuses
  <2>4. ASSUME NEW n \in DOMAIN tasks, Finish(n) \/ Raise(n) PROVE Stays
    BY <2>0, <2>4 DEF Finish, Raise, Updated, TypeOK, Statuses
  <2>5. ASSUME marker' = marker PROVE Stays
    BY <2>5
  <2>. QED
    BY <2>1, <2>2, <2>3, <2>4, <2>5
    DEF Next, Perform, Fire, Queue, Reset, Crash, vars
<1>. QED  BY <1>1, <1>2, <1>3, PTL DEF Spec, MarkerStays

-------------------------------------------------------------------------------
(* What becomes of an action that several processes claim, or that failed.  *)

Held(k, states) == \E n \in DOMAIN tasks : /\ tasks[n].key = k
                                            /\ tasks[n].state \in states

(* While nothing crashed a placeholder has the task that placed it, a hash one *)
(* that executes or has executed the action, and a task that skipped it one    *)
(* that claims, executes or has executed it.                                   *)
ClaimedBySome ==
  crashes = 0 =>
    \A k \in Guarded :
      /\ marker[k] = "placeholder" => Held(k, {"placed"})
      /\ marker[k] \in Statuses => Held(k, Begun)
      /\ Held(k, {"skipped"}) => Held(k, Begun \cup {"placed", "deleted"})

(* A task that moves on changes what holds of its own action only.            *)
LEMMA MoveHeld ==
  ASSUME TypeOK, NEW n \in DOMAIN tasks, NEW state \in States, Become(n, state),
         NEW S
  PROVE  /\ \A k : Held(k, S) =>
               Held(k, S)' \/ (tasks[n].key = k /\ tasks[n].state \in S)
         /\ \A k : Held(k, S)' =>
               Held(k, S) \/ (tasks[n].key = k /\ state \in S)
         /\ \A k : tasks[n].key = k /\ state \in S => Held(k, S)'
<1>1. /\ DOMAIN tasks' = DOMAIN tasks
      /\ \A m \in DOMAIN tasks : tasks'[m].key = tasks[m].key
      /\ \A m \in DOMAIN tasks \ {n} : tasks'[m] = tasks[m]
      /\ tasks'[n].state = state
  BY BecomeFacts DEF TypeOK
<1>. QED  BY <1>1 DEF Held

(* A task that is fired claims nothing yet.                                   *)
LEMMA FireHeld ==
  ASSUME TypeOK, NEW w \in Workers, NEW k \in Keys, Fire(w, k), NEW S, "new" \notin S
  PROVE  \A a : Held(a, S)' <=> Held(a, S)
<1>. DEFINE t == [worker |-> w, key |-> k, state |-> "new"]
<1>1. tasks' = Append(tasks, t)
  BY DEF Fire
<1>2. \A n \in DOMAIN tasks' : \/ n \in DOMAIN tasks /\ tasks'[n] = tasks[n]
                              \/ tasks'[n].state = "new"
  BY <1>1 DEF Tasks, TypeOK
<1>3. \A n \in DOMAIN tasks : n \in DOMAIN tasks' /\ tasks'[n] = tasks[n]
  BY <1>1 DEF TypeOK
<1>. QED  BY <1>2, <1>3 DEF Held

(* Nobody has claimed anything at first.                                      *)
LEMMA InitClaimed == Init => ClaimedBySome
BY DEF Init, ClaimedBySome, Held, Statuses, Guarded

(* Every step leaves each claimed action with a task that claims, executes or  *)
(* has executed it.                                                           *)
LEMMA NextClaimed ==
  ASSUME TypeOK, ClaimedBySome, [Next]_vars
  PROVE  ClaimedBySome'
<1>. DEFINE Claimants == Begun \cup {"placed", "deleted"}
<1>. SUFFICES ASSUME crashes' = 0 PROVE ClaimedBySome'
  BY DEF ClaimedBySome
<1>0. /\ \A n \in DOMAIN tasks : tasks[n].key \in Keys
      /\ Guarded' = Guarded /\ Begun' = Begun /\ Statuses' = Statuses
      /\ marker \in [Keys -> Markers]
      /\ Guarded \subseteq Keys
  BY TaskType DEF TypeOK, Guarded, Begun, Statuses
<1>1. ASSUME NEW w \in Workers, Crash(w) PROVE FALSE
  BY <1>1 DEF Crash, TypeOK
<1>2. ASSUME crashes' = crashes
      PROVE  /\ crashes = 0
             /\ \A k \in Guarded :
                  /\ marker[k] = "placeholder" => Held(k, {"placed"})
                  /\ marker[k] \in Statuses => Held(k, Begun)
                  /\ Held(k, {"skipped"}) => Held(k, Claimants)
  BY <1>2 DEF ClaimedBySome
<1>3. ASSUME NEW w \in Workers, NEW k \in Keys, Fire(w, k) PROVE ClaimedBySome'
  <2>1. marker' = marker /\ crashes' = crashes
    BY <1>3 DEF Fire
  <2>2. \A a : /\ Held(a, {"placed"})' <=> Held(a, {"placed"})
               /\ Held(a, {"skipped"})' <=> Held(a, {"skipped"})
    BY <1>3, FireHeld
  <2>3. \A a : /\ Held(a, Begun)' <=> Held(a, Begun)
               /\ Held(a, Claimants)' <=> Held(a, Claimants)
    BY <1>0, <1>3, FireHeld DEF Begun
  <2>. QED  BY <1>0, <1>2, <2>1, <2>2, <2>3 DEF ClaimedBySome
<1>4. ASSUME NEW n \in DOMAIN tasks, NEW state \in States, Become(n, state),
             crashes' = crashes,
             tasks[n].state \in Claimants => state \in Claimants \cup {"skipped"},
             tasks[n].state \in Begun => state \in Begun,
             (tasks[n].state = "placed" /\ tasks[n].key \in Guarded) =>
               marker'[tasks[n].key] = "none",
             (state = "skipped" /\ tasks[n].key \in Guarded) =>
               /\ marker[tasks[n].key] # "none"
               /\ tasks[n].state # "placed" /\ tasks[n].state \notin Begun,
             \A k \in Guarded :
               \/ marker'[k] = marker[k]
               \/ marker'[k] \in Statuses /\ marker[k] \in Statuses
               \/ /\ k = tasks[n].key
                  /\ \/ marker'[k] = "none"
                     \/ marker'[k] \in Statuses /\ state \in Begun
                     \/ marker'[k] = "placeholder" /\ state = "placed"
      PROVE  ClaimedBySome'
  <2>. DEFINE a == tasks[n].key
  <2>. SUFFICES ASSUME NEW k \in Guarded
                PROVE  /\ marker'[k] = "placeholder" => Held(k, {"placed"})'
                       /\ marker'[k] \in Statuses => Held(k, Begun)'
                       /\ Held(k, {"skipped"})' => Held(k, Claimants)'
    BY <1>0 DEF ClaimedBySome
  <2>0. /\ marker[k] = "placeholder" => Held(k, {"placed"})
        /\ marker[k] \in Statuses => Held(k, Begun)
        /\ Held(k, {"skipped"}) => Held(k, Claimants)
        /\ marker[k] \in {"none", "placeholder"} \cup Statuses
    BY <1>0, <1>2, <1>4 DEF Markers
  <2>1. /\ Held(k, {"placed"}) => Held(k, {"placed"})' \/ (a = k /\ tasks[n].state = "placed")
        /\ a = k /\ state = "placed" => Held(k, {"placed"})'
    BY <1>4, MoveHeld
  <2>2. /\ Held(k, Begun) => Held(k, Begun)' \/ (a = k /\ tasks[n].state \in Begun)
        /\ a = k /\ state \in Begun => Held(k, Begun)'
    BY <1>0, <1>4, MoveHeld
  <2>3. /\ Held(k, Claimants) =>
             Held(k, Claimants)' \/ (a = k /\ tasks[n].state \in Claimants)
        /\ a = k /\ state \in Claimants => Held(k, Claimants)'
    BY <1>0, <1>4, MoveHeld
  <2>4. Held(k, {"skipped"})' => Held(k, {"skipped"}) \/ (a = k /\ state = "skipped")
    BY <1>4, MoveHeld
  <2>5. Held(k, Begun)' \/ Held(k, {"placed"})' => Held(k, Claimants)'
    BY <1>0 DEF Held
  <2>6. "placeholder" \notin Statuses /\ "none" \notin Statuses
        /\ "placed" \notin Begun /\ "skipped" \notin Begun
    BY DEF Statuses, Begun
  <2>7. marker'[k] = "placeholder" => Held(k, {"placed"})'
    BY <1>4, <2>0, <2>1, <2>6
  <2>8. marker'[k] \in Statuses => Held(k, Begun)'
    BY <1>4, <2>0, <2>2, <2>6
  <2>9. ASSUME Held(k, {"skipped"})' PROVE Held(k, Claimants)'
    <3>1. CASE a = k /\ state = "skipped"
      <4>1. Held(k, {"placed"}) \/ Held(k, Begun)
        BY <1>4, <2>0, <3>1
      <4>. QED  BY <1>4, <2>1, <2>2, <2>5, <3>1, <4>1
    <3>2. CASE Held(k, {"skipped"}) /\ ~(a = k /\ state = "skipped")
      BY <1>4, <2>0, <2>3, <3>2
    <3>. QED  BY <2>4, <2>9, <3>1, <3>2
  <2>. QED  BY <2>7, <2>8, <2>9
<1>5. ASSUME NEW n \in DOMAIN tasks, Claim(n) PROVE ClaimedBySome'
  <2>1. tasks[n].state = "new" /\ crashes' = crashes
    BY <1>5 DEF Claim
  <2>2. CASE tasks[n].key \in Unguarded
    BY <1>4, <1>5, <2>1, <2>2 DEF Claim, States, Begun, Guarded
  <2>3. CASE tasks[n].key \notin Unguarded /\ marker[tasks[n].key] # "none"
    BY <1>4, <1>5, <2>1, <2>3 DEF Claim, States, Begun
  <2>4. CASE tasks[n].key \notin Unguarded /\ marker[tasks[n].key] = "none"
    <3>1. /\ Become(n, "placed")
          /\ marker' = [marker EXCEPT ![tasks[n].key] = "placeholder"]
      BY <1>5, <2>4 DEF Claim
    <3>. QED  BY <1>0, <1>4, <2>1, <3>1 DEF States, Begun
  <2>. QED  BY <2>2, <2>3, <2>4
<1>6. ASSUME NEW n \in DOMAIN tasks, DeletePlaceholder(n) PROVE ClaimedBySome'
  BY <1>0, <1>4, <1>6 DEF DeletePlaceholder, States, Begun
<1>7. ASSUME NEW n \in DOMAIN tasks, WriteMarker(n) PROVE ClaimedBySome'
  <2>1. tasks[n].state = "deleted" /\ crashes' = crashes
    BY <1>7 DEF WriteMarker
  <2>2. CASE marker[tasks[n].key] = "placeholder"
    BY <1>4, <1>7, <2>1, <2>2 DEF WriteMarker, States, Begun
  <2>3. CASE marker[tasks[n].key] # "placeholder"
    <3>1. /\ Become(n, "running")
          /\ marker' = [marker EXCEPT ![tasks[n].key] = "claimed"]
      BY <1>7, <2>3 DEF WriteMarker
    <3>. QED  BY <1>0, <1>4, <2>1, <3>1 DEF States, Begun, Statuses
  <2>. QED  BY <2>2, <2>3
<1>8. ASSUME NEW n \in DOMAIN tasks, Finish(n) \/ Raise(n) PROVE ClaimedBySome'
  <2>1. PICK state \in {"delivered", "unsent", "raised"} : Become(n, state)
    BY <1>8 DEF Finish, Raise
  <2>2. tasks[n].state = "running" /\ crashes' = crashes
    BY <1>8 DEF Finish, Raise
  <2>3. \A k \in Keys : \/ marker'[k] = marker[k]
                        \/ marker'[k] \in Statuses /\ marker[k] \in Statuses
    BY <1>0, <1>8 DEF Finish, Raise, Updated, Statuses
  <2>. QED  BY <1>0, <1>4, <2>1, <2>2, <2>3 DEF States, Begun
<1>9. ASSUME NEW n \in DOMAIN tasks, Queue(n) PROVE ClaimedBySome'
  BY <1>4, <1>9 DEF Queue, States, Begun
<1>10. CASE UNCHANGED vars \/ \E w \in Workers : Reset(w)
  BY <1>10 DEF vars, Reset, ClaimedBySome, Held, Guarded
<1>. QED
  BY <1>1, <1>3, <1>5, <1>6, <1>7, <1>8, <1>9, <1>10 DEF Next, Perform

(* Processes that claim the same action at once, however many they are, do not *)
(* all lose it: without a crash, one that skipped left it to another one.      *)
THEOREM SkippedForAnotherCorrect == Spec => []SkippedForAnother
<1>1. Init => TypeOK /\ ClaimedBySome
  BY InitType, InitClaimed
<1>2. TypeOK /\ ClaimedBySome /\ [Next]_vars => TypeOK' /\ ClaimedBySome'
  BY NextType, NextClaimed
<1>3. ClaimedBySome => SkippedForAnother
  BY DEF ClaimedBySome, SkippedForAnother, Held, Of
<1>. QED  BY <1>1, <1>2, <1>3, PTL DEF Spec

(* A failed action is in the dead-letter queue or on its way there, for any    *)
(* number of processes, until one of them crashes.                            *)
THEOREM FailureIsQueuedCorrect == Spec => []FailureIsQueued
<1>. DEFINE Failed(k) == marker[k] = "failed" => k \in dlq \/ Held(k, {"raised"})
            Inv == crashes = 0 => \A k \in Guarded : Failed(k)
<1>1. Init => TypeOK /\ Inv
  BY InitType DEF Init, Guarded
<1>2. ASSUME TypeOK, Inv, [Next]_vars PROVE Inv'
  <2>. SUFFICES ASSUME crashes' = 0, NEW k \in Guarded PROVE Failed(k)'
    BY DEF Guarded
  <2>. USE <1>2
  <2>0. /\ \A n \in DOMAIN tasks : tasks[n].key \in Keys
        /\ marker \in [Keys -> Markers] /\ k \in Keys
    BY TaskType DEF TypeOK, Guarded
  <2>1. ASSUME NEW w \in Workers, Crash(w) PROVE FALSE
    BY <2>1 DEF Crash, TypeOK
  <2>2. ASSUME crashes' = crashes PROVE Failed(k)
    BY <2>2
  <2>3. ASSUME NEW w \in Workers, NEW a \in Keys, Fire(w, a) PROVE Failed(k)'
    BY <2>2, <2>3, FireHeld DEF Fire
  <2>4. ASSUME NEW n \in DOMAIN tasks, NEW state \in States, Become(n, state),
               crashes' = crashes, dlq' = dlq, tasks[n].state # "raised",
               marker'[k] = "failed" =>
                 marker[k] = "failed" \/ (tasks[n].key = k /\ state = "raised")
        PROVE  Failed(k)'
    <3>1. /\ Held(k, {"raised"}) =>
               Held(k, {"raised"})' \/ (tasks[n].key = k /\ tasks[n].state = "raised")
          /\ tasks[n].key = k /\ state = "raised" => Held(k, {"raised"})'
      BY <2>4, MoveHeld
    <3>. QED  BY <2>2, <2>4, <3>1
  <2>5. ASSUME NEW n \in DOMAIN tasks, Claim(n) PROVE Failed(k)'
    <3>1. PICK state \in {"running", "skipped", "placed"} : Become(n, state)
      BY <2>5 DEF Claim
    <3>2. marker'[k] = "failed" => marker[k] = "failed"
      BY <2>0, <2>5 DEF Claim
    <3>. QED  BY <2>4, <2>5, <3>1, <3>2 DEF Claim, States, Begun
  <2>6. ASSUME NEW n \in DOMAIN tasks, DeletePlaceholder(n) PROVE Failed(k)'
    BY <2>0, <2>4, <2>6 DEF DeletePlaceholder, States
  <2>7. ASSUME NEW n \in DOMAIN tasks, WriteMarker(n) PROVE Failed(k)'
    <3>1. PICK state \in {"running", "skipped"} : Become(n, state)
      BY <2>7 DEF WriteMarker
    <3>2. marker'[k] = "failed" => marker[k] = "failed"
      BY <2>0, <2>7 DEF WriteMarker
    <3>. QED  BY <2>4, <2>7, <3>1, <3>2 DEF WriteMarker, States, Begun
  <2>8. ASSUME NEW n \in DOMAIN tasks, Finish(n) PROVE Failed(k)'
    <3>1. PICK state \in {"delivered", "unsent"} : Become(n, state)
      BY <2>8 DEF Finish
    <3>2. marker'[k] = "failed" => marker[k] = "failed"
      BY <2>0, <2>8 DEF Finish, Updated
    <3>. QED  BY <2>4, <2>8, <3>1, <3>2 DEF Finish, States, Begun
  <2>9. ASSUME NEW n \in DOMAIN tasks, Raise(n) PROVE Failed(k)'
    <3>1. CASE tasks[n].key \in Unguarded /\ Become(n, "unsent") /\ UNCHANGED marker
      BY <2>4, <2>9, <3>1 DEF Raise, States, Begun
    <3>2. CASE Become(n, "raised") /\ marker' = Updated(tasks[n].key, "failed")
      <4>1. marker'[k] = "failed" => marker[k] = "failed" \/ tasks[n].key = k
        BY <2>0, <3>2 DEF Updated
      <4>. QED  BY <2>4, <2>9, <3>2, <4>1 DEF Raise, States, Begun
    <3>. QED  BY <2>9, <3>1, <3>2 DEF Raise
  <2>10. ASSUME NEW n \in DOMAIN tasks, Queue(n) PROVE Failed(k)'
    <3>1. /\ Become(n, "queued")
          /\ dlq' = dlq \cup {tasks[n].key}
          /\ marker' = marker /\ crashes' = crashes
      BY <2>10 DEF Queue
    <3>2. Held(k, {"raised"}) => Held(k, {"raised"})' \/ tasks[n].key = k
      BY <3>1, MoveHeld DEF States, Begun
    <3>. QED  BY <2>2, <3>1, <3>2
  <2>11. CASE UNCHANGED vars \/ \E w \in Workers : Reset(w)
    BY <2>2, <2>11 DEF vars, Reset, Held
  <2>. QED
    BY <2>1, <2>3, <2>5, <2>6, <2>7, <2>8, <2>9, <2>10, <2>11 DEF Next, Perform
<1>3. Inv => FailureIsQueued
  BY DEF FailureIsQueued, Held, Of
<1>. QED  BY <1>1, <1>2, <1>3, NextType, PTL DEF Spec
=============================================================================
