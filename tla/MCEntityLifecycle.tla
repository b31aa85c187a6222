------------------------- MODULE MCEntityLifecycle -------------------------
(***************************************************************************)
(* Small instances of EntityLifecycle.  The names are the ones the tests   *)
(* of the repository use: a switch "test" whose uplink is "uplink".        *)
(***************************************************************************)
EXTENDS EntityLifecycle, TLC

CONSTANTS uplink, test, client

Two   == {uplink, test}
Three == {uplink, test, client}
First == {uplink}

(* A switch below a root, and a client below that switch. *)
OneUplink  == (uplink :> None) @@ (test :> uplink)
TwoUplinks == OneUplink @@ (client :> test)

(* Slices of their own; "test" as a slice in that of "uplink", as net-guest is in net. *)
OwnSlice   == [n \in Names |-> n]
NoneInside == [n \in Names |-> {}]
TestInside == (uplink :> {test}) @@ (test :> {})

Symmetry == Permutations(Requests)
=============================================================================
