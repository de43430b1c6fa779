----------------------------- MODULE MCService -----------------------------
(* A base and a cap of one second.                                          *)
EXTENDS Service

PolicyTable == [n \in 0 .. CountCap |-> IF n = 0 THEN 0 ELSE AtMost(2 ^ (n - 1), MAX_SECS)]
=============================================================================
