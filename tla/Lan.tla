----------------------------------- MODULE Lan -----------------------------------
(***************************************************************************)
(* The network around the hub of lab 04 and the switch of lab 05: hosts    *)
(* and boxes (hubs or switches) joined by links.  A link carries the       *)
(* frames of each direction in order.  Two nodes share one link at most,   *)
(* so an interface is named by the node at the other end, and a host by    *)
(* its mac address.                                                        *)
(***************************************************************************)
EXTENDS Integers, Sequences, FiniteSets

CONSTANTS
    Nets,           \* the networks: [hosts, boxes, hubs, links, frames]: whether the
                    \* boxes are hubs, links as sets of two nodes, and, as a bound,
                    \* the number of frames the hosts send
    MANY,           \* bound: copies of a frame that a host counts
    HOST_ROOM       \* bound: a hub waits while a host has this many frames to read

ASSUME LanAssumption ==
    \A n \in Nets :
        /\ IsFiniteSet(n.hosts \cup n.boxes) /\ n.hosts \cap n.boxes = {}
        /\ n.hubs \in BOOLEAN /\ n.frames \in Nat
        /\ \A l \in n.links : l \subseteq n.hosts \cup n.boxes /\ Cardinality(l) = 2
        /\ \A h \in n.hosts : Cardinality({l \in n.links : h \in l}) = 1
ASSUME BoundAssumption == MANY \in Nat \ {0} /\ HOST_ROOM \in Nat \ {0}

AllHosts == UNION {n.hosts : n \in Nets}
NodesOf == [n \in Nets |-> n.hosts \cup n.boxes]
NbrsOf == [n \in Nets |-> [a \in NodesOf[n] |-> {b \in NodesOf[n] \ {a} : {a, b} \in n.links}]]
WiresOf == [n \in Nets |-> {e \in NodesOf[n] \X NodesOf[n] : e[2] \in NbrsOf[n][e[1]]}]

\* S is left over no link but `cut'.
Closed(n, S, cut) == \A a \in S : \A b \in NbrsOf[n][a] : {a, b} # cut => b \in S

\* A network is in one piece; switches form a tree (06-stp is for those that do not):
\* each link parts it in two.
ASSUME ConnectedAssumption ==
    \A n \in Nets : \A S \in SUBSET NodesOf[n] :
        S # {} /\ Closed(n, S, {}) => S = NodesOf[n]
ASSUME TreeAssumption ==
    \A n \in Nets : \A l \in n.links : ~ n.hubs =>
        \E S \in SUBSET NodesOf[n] : Closed(n, S, l) /\ l \cap S # {} /\ ~ (l \subseteq S)

VARIABLES
    net,        \* the network, which stays as it is
    cable,      \* cable[<<n, m>>]: the frames from n to m
    sent,       \* history: the frames that hosts have sent
    got         \* history: got[h][i]: copies of the i-th frame that h received

Host == net.hosts
Box == net.boxes
Node == NodesOf[net]
Nbr == NbrsOf[net]
Wires == WiresOf[net]

Bcast == "ff:ff:ff:ff:ff:ff"

\* sendto() on n's interfaces in `out'.
iface_send_packet(n, out, f, w) ==
    [e \in Wires |-> IF e[1] = n /\ e[2] \in out THEN Append(w[e], f) ELSE w[e]]

\* The interfaces of n that a frame from m is sent on.
broadcast_packet(n, m) == Nbr[n] \ {m}

\* ustack_run of box b reads the next frame on the interface to m.
Reads(b, m) == m \in Nbr[b] /\ cable[<<m, b>>] # <<>>
Read(b, m) == [cable EXCEPT ![<<m, b>>] = Tail(@)]

HostSends(h, d) ==
    LET f == [id |-> Len(sent) + 1, src |-> h, dst |-> d]
    IN  /\ Len(sent) < net.frames /\ d # h
        /\ sent' = Append(sent, f)
        /\ cable' = iface_send_packet(h, Nbr[h], f, cable)
        /\ UNCHANGED <<net, got>>

HostGets(h) ==
    \E b \in Nbr[h] :
        /\ Reads(h, b)
        /\ cable' = Read(h, b)
        /\ LET i == Head(cable[<<b, h>>]).id
           IN  got' = [got EXCEPT ![h][i] = IF @ < MANY THEN @ + 1 ELSE @]
        /\ UNCHANGED <<net, sent>>

LanInit ==
    /\ net \in Nets
    /\ cable = [e \in Wires |-> <<>>]
    /\ sent = <<>>
    /\ got = [h \in Host |-> [i \in 1 .. net.frames |-> 0]]

\* The hosts that the i-th frame is for.
Addressees(i) ==
    IF sent[i].dst = Bcast THEN Host \ {sent[i].src} ELSE {sent[i].dst}
================================================================================
