--------------------------------- MODULE Once ---------------------------------
(***************************************************************************)
(* What orchestrator/idempotency.py promises: "Guarantees at-most-once      *)
(* execution semantics".  Each action may be executed, once, at any time.   *)
(***************************************************************************)
EXTENDS Naturals

CONSTANT Actions

VARIABLE executions   \* how often each action was begun

Init == executions = [a \in Actions |-> 0]

Execute(a) == /\ executions[a] = 0
              /\ executions' = [executions EXCEPT ![a] = 1]

Next == \E a \in Actions : Execute(a)

Spec == Init /\ [][Next]_executions
=============================================================================
