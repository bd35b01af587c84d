------------------------------ MODULE MCMospfRoutes -----------------------------
(* Router 1 of topo.py, in the ring 1-2-4-3-1, with two LSUs of each of the     *)
(* others and its own.  LSU 1 of router 2 has lost router 4, LSU 1 of router 4  *)
(* has found one more subnet.                                                   *)
EXTENDS MospfRoutes

Lsu(r, s, a) == [rid |-> r, seq |-> s, array |-> a]
To(r, n) == [rid |-> r, subnet |-> n]

MCLsus == {Lsu(2, 0, <<To(1, "n12"), To(4, "n24")>>), Lsu(2, 1, <<To(1, "n12")>>),
           Lsu(3, 0, <<To(1, "n13"), To(4, "n34")>>),
           Lsu(4, 0, <<To(2, "n24"), To(3, "n34")>>),
           Lsu(4, 1, <<To(2, "n24"), To(3, "n34"), To(0, "h2")>>),
           Lsu(1, 0, <<>>)}
MCOwnSubnets == {[subnet |-> "n12", gw |-> 0], [subnet |-> "n13", gw |-> 0],
                 [subnet |-> "h3", gw |-> 3]}
================================================================================
