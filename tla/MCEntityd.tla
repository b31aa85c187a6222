----------------------------- MODULE MCEntityd -----------------------------
(* Instances of Entityd: which names there are is up to the configuration. *)
EXTENDS Entityd

CONSTANTS root, sw, low, client

(* root - sw - low, and a client of sw. *)
MCUplink  == [n \in Names |-> CASE n = root -> None
                                [] n = sw -> root
                                [] OTHER -> sw]
MCRole    == [n \in Names |-> CASE n = root -> "root"
                                [] n \in {sw, low} -> "switch"
                                [] OTHER -> "client"]
MCAddress == [n \in Names |-> IF n \in {sw, low} THEN n ELSE None]
MCOwn     == [n \in Names |-> "own"]

(* The theorems are about entities like these. *)
ASSUME Supposed == SwitchesEnd /\ AllOwn /\ SubnetsDistinct /\ Calm /\ Supported
=============================================================================
