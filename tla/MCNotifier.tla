------------------------------ MODULE MCNotifier ------------------------------
(* Symmetry for the model-checked instances of Notifier.                   *)
EXTENDS Notifier, TLC

Perms == Permutations(Workers)
=============================================================================
