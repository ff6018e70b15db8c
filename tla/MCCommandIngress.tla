-------------------------- MODULE MCCommandIngress --------------------------
(* Two commands of one chat and two copies of each: the second command is  *)
(* parked, relayed, and can be delivered twice at a time.                  *)
EXTENDS CommandIngress
=============================================================================
