------------------------ MODULE MCOperationalBarrier ------------------------
(* Two jobs and two operators; two pauses and their resumes fit below the  *)
(* bound on generations.                                                   *)
EXTENDS OperationalBarrier
=============================================================================
