------------------------------ MODULE MCDiagnosis ------------------------------
(* Diagnosis with two processes.                                               *)
EXTENDS Diagnosis, TLC

CONSTANTS w1, w2, database, network

Perms == Permutations(Workers) \cup Permutations(Categories)
================================================================================
