------------------------------- MODULE MCTenants -------------------------------
(* Tenants with two threads, one event loop, two tenants and two numbers.       *)
EXTENDS Tenants, TLC

CONSTANTS w1, w2, l1, t1, t2, p1, p2

Perms == Permutations(Phones) \cup Permutations(Tenants) \cup Permutations(Workers)
================================================================================
