------------------------------ MODULE MCLinkLayer ------------------------------
(* The two link layers: frames in labs 04 and 05, the spanning tree of lab 06.  They *)
(* are programs of their own that share nothing, so a behaviour is one of the first  *)
(* while the second stays as it began, or the other way round.                       *)
(*                                                                                   *)
(* Frames: the ring of three hubs of 04-broadcast/loop_node.py; two switches and     *)
(* three hosts, two of them next to the same switch.  Spanning tree: the four        *)
(* switches of 06-stp/four_node_ring.py.                                             *)
EXTENDS LanSystem, Stp, TLC

CONSTANTS h1, h2, h3, b1, b2, b3

HubRing ==
    [hosts |-> {h1, h2}, boxes |-> {b1, b2, b3}, hubs |-> TRUE, frames |-> 1,
     links |-> {{b1, b2}, {b1, b3}, {b2, b3}, {h1, b1}, {h2, b2}}]
SwitchTree ==
    [hosts |-> {h1, h2, h3}, boxes |-> {b1, b2}, hubs |-> FALSE, frames |-> 3,
     links |-> {{h1, b1}, {h2, b1}, {b1, b2}, {h3, b2}}]
SmallTree == [SwitchTree EXCEPT !.frames = 2]
RingAndTree == {HubRing, SwitchTree, SmallTree}

Injective == h1 :> 1 @@ h2 :> 2 @@ h3 :> 3 @@ Bcast :> 0
Shared == h1 :> 1 @@ h2 :> 2 @@ h3 :> 0 @@ Bcast :> 0
Assigned == {Injective, Shared}

\* Three frames where every address has its own slot, two where a host has that of the
\* broadcast address.
Sized == net.hubs \/ (net = SmallTree <=> hash8 = Shared)

FourRing == {<<<<1, 1>>, <<2, 1>>>>, <<<<1, 2>>, <<3, 1>>>>,
             <<<<2, 2>>, <<4, 1>>>>, <<<<3, 2>>, <<4, 2>>>>}

VARIABLE layer      \* the one that runs: "frames" or "tree"

link_vars == <<net_vars, vars, layer>>

LinkInit == layer \in {"frames", "tree"} /\ NetInit /\ Init /\ Sized
LinkNext ==
    \/ layer = "frames" /\ NetNext /\ UNCHANGED <<vars, layer>>
    \/ layer = "tree" /\ Next /\ UNCHANGED <<net_vars, layer>>
LinkSpec == LinkInit /\ [][LinkNext]_link_vars
================================================================================
