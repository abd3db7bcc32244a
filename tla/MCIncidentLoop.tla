--------------------------- MODULE MCIncidentLoop ---------------------------
(* Symmetry for the model-checked instances of IncidentLoop.               *)
EXTENDS IncidentLoop, TLC

Unlimited == -1

(* Stop following a behaviour once an incident is past its opening.        *)
Opening == \A i \in Ids :
             incidents[i] # None => incidents[i].stage = "DETECTED"

Perms == Permutations(Workers)
=============================================================================
