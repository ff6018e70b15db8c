---------------------------- MODULE MCSendLedger ----------------------------
(* Three deliveries of one operation on two processes: the first and the   *)
(* last on the same one, so that what it keeps in memory can be stale.     *)
EXTENDS SendLedger

CONSTANTS a1, a2, a3, h1, h2

TheHosts == {h1, h2}
TheAttempts == {a1, a2, a3}
Placement == [a \in TheAttempts |-> IF a = a2 THEN h2 ELSE h1]
Everything == Script \cup {"claim"}
AllButRevert == (Script \ {"revert"}) \cup {"claim"}
=============================================================================
