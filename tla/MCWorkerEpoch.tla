--------------------------- MODULE MCWorkerEpoch ---------------------------
(* A worker of generation 1 that is recreated as generation 2, twice: two  *)
(* processes claim the same generation.                                    *)
EXTENDS WorkerEpoch

CONSTANTS r1, r2, r3
MCRuntime == {r1, r2, r3}
MCGen == [r \in MCRuntime |-> IF r = r1 THEN 1 ELSE 2]
=============================================================================
