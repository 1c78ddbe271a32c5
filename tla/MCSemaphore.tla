---------------------------- MODULE MCSemaphore ----------------------------
(* Semaphore with five coroutines and two permits: up to three of them     *)
(* wait, so that the order of the queue matters.                           *)
EXTENDS Semaphore

CONSTANTS c1, c2, c3, c4, c5

MCClients == {c1, c2, c3, c4, c5}
=============================================================================
