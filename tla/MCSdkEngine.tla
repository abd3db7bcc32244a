------------------------------ MODULE MCSdkEngine ------------------------------
(* SdkEngine with the instances of one service and an endpoint of it.          *)
EXTENDS SdkEngine

CONSTANTS i1, i2, f1
================================================================================
