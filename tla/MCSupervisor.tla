---------------------------- MODULE MCSupervisor ----------------------------
(* The policy for TLC: a base of one second, capped at five.               *)
EXTENDS Supervisor

PolicyTable == [n \in 0 .. CountCap |-> IF n = 0 THEN 0 ELSE AtMost(2 ^ (n - 1), MAX_SECS)]
=============================================================================
