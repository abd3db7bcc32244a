--------------------------- MODULE MCRecoveryConfirm ---------------------------
(* RecoveryConfirm with one incident, whose tokens differ in when they were    *)
(* minted.                                                                     *)
EXTENDS RecoveryConfirm

CONSTANTS i1
================================================================================
