-------------------------------- MODULE MCRouter --------------------------------
(* A router with 3-bit addresses: 2 on subnet 01x with the neighbour 3, and 4  *)
(* on subnet 10x with the neighbour 5, both routers themselves.  The kernel    *)
(* also has a device and routes that the router does not take.  In the first   *)
(* table a longer route comes before a shorter one, the second has a default   *)
(* route.  The source 1 has no route in either.                                *)
EXTENDS Router

Dev(n, e, i) == [name |-> n, eth |-> e, ip |-> i]
MCDevices == {Dev("r1-eth0", TRUE, 2), Dev("r1-eth1", TRUE, 4), Dev("lo", FALSE, 7)}

Msg(t, d, l, g, o) == [table |-> t, dst |-> d, len |-> l, gw |-> g, oif |-> o]
Subnets == <<Msg(254, {2}, 2, 0, "r1-eth0"), Msg(254, {4}, 2, 0, "r1-eth1"),
             Msg(255, {2}, 3, 0, "r1-eth0"), Msg(254, {1}, 3, 0, "lo")>>
MCKernel ==
    {<<Msg(254, {0}, 3, 5, "r1-eth1"), Msg(254, {6}, 3, 3, "r1-eth0"),
       Msg(254, {6}, 2, 5, "r1-eth1")>> \o Subnets,
     <<Msg(254, {}, 0, 5, "r1-eth1"), Msg(254, {6}, 2, 5, "r1-eth1")>> \o Subnets}

P(i, in, s, d, t, e) == [id |-> i, in |-> in, src |-> s, dst |-> d, ttl |-> t, echo |-> e]
MCPackets == {P("a", "r1-eth0", 3, 6, 2, FALSE),   \* by the longest route
              P("b", "r1-eth1", 5, 3, 1, FALSE),   \* TTL runs out
              P("c", "r1-eth0", 3, 2, 1, TRUE),    \* a ping of the router
              P("d", "r1-eth1", 1, 0, 0, FALSE)}   \* TTL 0, no route back
================================================================================
