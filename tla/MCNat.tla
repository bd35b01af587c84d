--------------------------------- MODULE MCNat ---------------------------------
(* A translator with two inner hosts, an outer one and its own address in two   *)
(* lists, and fewer ports than flows can be opened.  One flow may be closed.    *)
EXTENDS Nat, TLC

CONSTANTS a, b, r1, x, nowhere

mc_Inside == {a, b}
mc_Outside == {r1}
mc_Unrouted == {nowhere}
mc_Closing == {<<a, 0>>}
mc_hash8 == (r1 :> 0) @@ (x :> 1)
================================================================================
