---------------------------- MODULE MCLogBroadcaster ----------------------------
(* The constants of LogBroadcaster for TLC.                                 *)
EXTENDS LogBroadcaster

TwoContracts == [l \in {"l1", "l2"} |-> IF l = "l1" THEN "a" ELSE "b"]
=============================================================================
