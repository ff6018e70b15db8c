-------------------------- MODULE MCFairScheduler --------------------------
(* Three chats on two lanes; one chat may hang.  Five calls, of which four *)
(* fit in the queue.                                                       *)
EXTENDS FairScheduler

CONSTANTS ka, kb, kc
MCKey == {ka, kb, kc}
MCTask == {<<ka, 1>>, <<ka, 2>>, <<ka, 3>>, <<kb, 1>>, <<kc, 1>>}
MCKeyOf == [t \in MCTask |-> t[1]]
MCHung == {kc}
=============================================================================
