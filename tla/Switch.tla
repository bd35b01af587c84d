---------------------------------- MODULE Switch ----------------------------------
(***************************************************************************)
(* The learning switch of lab 05 (05-switching/mac.c, main.c): a frame     *)
(* goes where its destination was seen, or everywhere, and the switch      *)
(* learns where its source is.                                             *)
(*                                                                         *)
(* The packet thread handles a frame in one step: the sweeping thread      *)
(* cannot change what it looks up.  Time is in seconds.                    *)
(***************************************************************************)
EXTENDS Lan

CONSTANTS
    Hashes,             \* what hash8 may be on the addresses the hosts were given
    MAC_PORT_TIMEOUT,
    MAX_TIME            \* bound

ASSUME HashAssumption == Hashes \subseteq [AllHosts \cup {Bcast} -> Nat]
ASSUME TimeAssumption == MAC_PORT_TIMEOUT \in Nat /\ MAX_TIME \in Nat

VARIABLES
    hash8,          \* hash8[mac]: the slot of a mac address
    hash_table,     \* hash_table[s][key]: EMPTY or an entry of mac_port_map
    now,            \* time(NULL)
    known           \* history: known[i]: every box knew where frame i went to

net_vars == <<net, cable, sent, got, hash8, hash_table, now, known>>

Key == {hash8[a] : a \in DOMAIN hash8}
EMPTY == [mac |-> "NULL"]
FREED == [mac |-> "freed"]

ASSUME NameAssumption == AllHosts \cap {Bcast, EMPTY.mac, FREED.mac} = {}

lookup_port(t, mac) == t[hash8[mac]]

\* The destination's entry is marked as used.
Visited(t, mac) ==
    IF lookup_port(t, mac) = EMPTY THEN t ELSE [t EXCEPT ![hash8[mac]].visited = now]

\* Mutant: the destination is learnt.
insert_mac_port_dst(t, f, m) ==
    [t EXCEPT ![hash8[f.dst]] = [mac |-> f.src, iface |-> m, visited |-> now]]

\* The source of f, which came from m, is entered; the slot is empty, so the list of
\* the slot has no second entry.
insert_mac_port(t, f, m) ==
    [t EXCEPT ![hash8[f.src]] = [mac |-> f.src, iface |-> m, visited |-> now]]

\* Mutant: the frame is broadcast to a known port as well.
Out_both(s, f, m, t) == broadcast_packet(s, m)

\* Mutant: what is broadcast goes back as well.
Out_back(s, f, m, t) ==
    LET e == lookup_port(t, f.dst)
    IN  IF e # EMPTY THEN {e.iface} ELSE Nbr[s]

\* Where the frame goes; a known port may be the one it came from.
Out(s, f, m, t) ==
    LET e == lookup_port(t, f.dst)
    IN  IF e # EMPTY THEN {e.iface} ELSE broadcast_packet(s, m)

handle_packet(s, m) ==
    LET f == Head(cable[<<m, s>>])
        t == Visited(hash_table[s], f.dst)
    IN  /\ Reads(s, m)
        /\ cable' = iface_send_packet(s, Out(s, f, m, t), f, Read(s, m))
        /\ hash_table' = [hash_table EXCEPT ![s] =
               IF lookup_port(t, f.src) = EMPTY THEN insert_mac_port(t, f, m) ELSE t]
        /\ UNCHANGED <<net, sent, got, hash8, now, known>>

\* The test of sweep_aged_mac_port_entry.
Aged(e, time) == e # EMPTY /\ e.visited - time > MAC_PORT_TIMEOUT

\* A second passes and the sweeping threads run.  They free an aged entry and leave
\* it in its slot.
sweeping_mac_port_thread ==
    /\ ~ net.hubs /\ now < MAX_TIME
    /\ now' = now + 1
    /\ hash_table' = [s \in Box |-> [k \in Key |->
           IF Aged(hash_table[s][k], now') THEN FREED ELSE hash_table[s][k]]]
    /\ UNCHANGED <<net, cable, sent, got, hash8, known>>

Learnt(s, a) == \E k \in Key : hash_table[s][k].mac = a
================================================================================
