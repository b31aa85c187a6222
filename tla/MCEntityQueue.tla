--------------------------- MODULE MCEntityQueue ---------------------------
(***************************************************************************)
(* Two entities and four coroutine frames: one frame owns a token, two or  *)
(* three wait for it, in an order that matters, and there is a second      *)
(* entity for a waiter to be lost to.                                      *)
(***************************************************************************)
EXTENDS EntityQueue
=============================================================================
