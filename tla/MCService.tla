----------------------------- MODULE MCService -----------------------------
(* Two buses of entities. *)
EXTENDS Service

CONSTANTS e1, e2
=============================================================================
