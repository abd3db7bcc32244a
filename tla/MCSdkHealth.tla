------------------------------ MODULE MCSdkHealth ------------------------------
(* A service that fails, a slow one, and one that is slower still.       *)
EXTENDS SdkHealth

Failing == [p95 |-> 8,  errors |-> 6, anomaly |-> 2]
Slow    == [p95 |-> 8,  errors |-> 0, anomaly |-> 2]
Slower  == [p95 |-> 16, errors |-> 2, anomaly |-> 2]
MCWindows == {Failing, Slow, Slower}
================================================================================
