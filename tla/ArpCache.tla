-------------------------------- MODULE ArpCache --------------------------------
(***************************************************************************)
(* The ARP cache of a router (12-mospf/arpcache.c, arp.c, icmp.c): the     *)
(* table of IP->mac mappings, the packets that wait for one, and the       *)
(* thread that sweeps both.                                                *)
(*                                                                         *)
(* The main thread forwards packets and handles ARP packets; the sweeping  *)
(* thread times entries out, asks again, gives up, and sends the ICMP      *)
(* errors, through the same cache.  Each operation on the cache holds its  *)
(* lock and is one step; between the lookup of iface_send_packet_by_arp    *)
(* and its arpcache_append_packet the other thread may run.                *)
(*                                                                         *)
(* A packet is its identity, its source, and the next hop the routing      *)
(* table gives; every interface has a subnet of its own, so the next hop   *)
(* determines the interface.  Time is counted in sweeps, one a second.     *)
(***************************************************************************)
EXTENDS Integers, Sequences, FiniteSets, SequencesExt

CONSTANTS
    Hosts,      \* the neighbours that answer ARP requests
    Absent,     \* next hops that do not
    Own,        \* the router's own address
    Packets,    \* [id, src, nh] of the packets to be forwarded
    MAX_ARP_SIZE, ARP_ENTRY_TIMEOUT, ARP_REQUEST_MAX_RETRIES

Ip == Hosts \cup Absent \cup {Own}

ASSUME HostsAssumption == Own \notin Hosts /\ Own \notin Absent /\ Hosts \cap Absent = {}
ASSUME PacketAssumption ==
    /\ \A p \in Packets : p.src \in Ip /\ p.nh \in Ip \ {Own}
    /\ \A p, q \in Packets : p.id = q.id => p = q
ASSUME BoundsAssumption ==
    /\ MAX_ARP_SIZE \in Nat \ {0} /\ ARP_ENTRY_TIMEOUT \in Nat \ {0}
    /\ ARP_REQUEST_MAX_RETRIES \in Nat \ {0}

Slot == 1 .. MAX_ARP_SIZE
Nobody == [valid |-> FALSE]
NoPkt == [id |-> "none"]

VARIABLES
    entries,    \* entries[i]: the mapping in slot i, its age in sweeps
    req_list,   \* the pending requests: [ip4, fresh, retries, cached_packets]
    todo,       \* packets still to come
    pkt,        \* pkt[t]: what thread t has looked up in vain and will append
    pkt_list,   \* the packets the sweeping thread has to report
    sent,       \* history: the packets sent, in this order
    reported    \* history: the packets an ICMP error was made for

vars == <<entries, req_list, todo, pkt, pkt_list, sent, reported>>

Thread == {"main", "sweep"}

--------------------------------------------------------------------------------
(* The cache                                                                   *)

arpcache_lookup(ip) == \E i \in Slot : entries[i].valid /\ entries[i].ip4 = ip

ForHop(ip) == {r \in req_list : r.ip4 = ip}

\* iface_send_packet_by_arp by thread t up to the result of the lookup.
iface_send_packet_by_arp(t, p) ==
    /\ pkt[t] = NoPkt
    /\ \/ arpcache_lookup(p.nh) /\ sent' = Append(sent, p) /\ UNCHANGED pkt
       \/ ~ arpcache_lookup(p.nh) /\ pkt' = [pkt EXCEPT ![t] = p] /\ UNCHANGED sent

\* ... and its arpcache_append_packet.
arpcache_append_packet(t) ==
    LET p == pkt[t]
    IN  /\ p # NoPkt
        /\ \/ \E r \in ForHop(p.nh) :
                 req_list' = (req_list \ {r}) \cup
                             {[r EXCEPT !.cached_packets = Append(@, p)]}
           \/ /\ ForHop(p.nh) = {}
              /\ req_list' = req_list \cup {[ip4 |-> p.nh, fresh |-> TRUE, retries |-> 1,
                                             cached_packets |-> <<p>>]}
        /\ pkt' = [pkt EXCEPT ![t] = NoPkt]
        /\ UNCHANGED <<entries, todo, pkt_list, sent, reported>>

Mapping(ip) == [valid |-> TRUE, ip4 |-> ip, age |-> 0]

\* The table part of arpcache_insert.  A mapping that is there is renewed.  A new
\* one goes to any slot, taken or not, if some slot is free; if none is, `pos' is
\* -1 and the mapping is written in front of the array, where nobody looks.
InsertEntry(ip) ==
    LET here == {i \in Slot : entries[i].valid /\ entries[i].ip4 = ip}
        free == {i \in Slot : ~ entries[i].valid}
    IN  \/ /\ here # {}
           /\ entries' = [i \in Slot |-> IF i \in here THEN Mapping(ip) ELSE entries[i]]
        \/ /\ here = {} /\ free # {}
           /\ \E pos \in Slot : entries' = [entries EXCEPT ![pos] = Mapping(ip)]
        \/ here = {} /\ free = {} /\ UNCHANGED entries

\* Mutant: the waiting packets are forgotten.
Flush_none(ip) == UNCHANGED <<req_list, sent>>

\* The second part: the packets of one request for ip are sent.
Flush(ip) ==
    IF ForHop(ip) = {} THEN UNCHANGED <<req_list, sent>>
    ELSE \E r \in ForHop(ip) :
            /\ sent' = sent \o r.cached_packets
            /\ req_list' = req_list \ {r}

\* handle_arp_packet, by the main thread: the reply of a neighbour, or a request of
\* its own.  Either carries its mapping.  A neighbour may speak at any time, asked
\* or not, and may not answer: the ARP requests themselves change nothing here.
handle_arp_packet(ip) ==
    /\ pkt["main"] = NoPkt
    /\ InsertEntry(ip)
    /\ Flush(ip)
    /\ UNCHANGED <<todo, pkt, pkt_list, reported>>

--------------------------------------------------------------------------------
(* The sweeping thread                                                         *)

Aged(e) == IF ~ e.valid THEN e
           ELSE IF e.age + 1 >= ARP_ENTRY_TIMEOUT THEN Nobody
           ELSE [e EXCEPT !.age = @ + 1]

\* Mutant: a request is given up with nothing said of its packets.
GivenUp_silently(rs) == {}

\* The packets of the requests that are given up.
GivenUp(rs) == UNION {ToSet(r.cached_packets) : r \in rs}

\* Mutant: the retries are not counted.
Asked_again_uncounted(r) == [r EXCEPT !.fresh = FALSE]

Asked_again(r) == [r EXCEPT !.fresh = FALSE, !.retries = @ + 1]

Exhausted(r) == r.retries >= ARP_REQUEST_MAX_RETRIES

\* One sweep, under the lock.  A request made since the last sweep may be found in
\* the same second (`now - sent < 1'), an older one never: `sent' is not renewed.
arpcache_sweep ==
    /\ pkt["sweep"] = NoPkt /\ pkt_list = {}
    /\ entries # [i \in Slot |-> Nobody] \/ req_list # {}
    /\ \E skipped \in SUBSET {r \in req_list : r.fresh} :
          LET due == req_list \ skipped
              over == {r \in due : Exhausted(r)}
              again == due \ over
          IN  /\ req_list' = {[r EXCEPT !.fresh = FALSE] : r \in skipped}
                             \cup {Asked_again(r) : r \in again}
              /\ pkt_list' = GivenUp(over)
    /\ entries' = [i \in Slot |-> Aged(entries[i])]
    /\ UNCHANGED <<todo, pkt, sent, reported>>

\* icmp_send_packet: the error goes to the source of the packet, from the router.
IcmpError(p) == [id |-> p.id, src |-> Own, nh |-> p.src, icmp |-> TRUE]

\* ... after the sweep, without the lock: an ICMP error for each packet given up.
Report ==
    /\ \E p \in pkt_list :
          /\ iface_send_packet_by_arp("sweep", IcmpError(p))
          /\ pkt_list' = pkt_list \ {p}
          /\ reported' = reported \cup {p}
    /\ UNCHANGED <<entries, req_list, todo>>

--------------------------------------------------------------------------------
(* The world                                                                   *)

\* A packet to be forwarded reaches the main thread.
Forward ==
    /\ \E p \in todo :
          /\ iface_send_packet_by_arp("main",
                [id |-> p.id, src |-> p.src, nh |-> p.nh, icmp |-> FALSE])
          /\ todo' = todo \ {p}
    /\ UNCHANGED <<entries, req_list, pkt_list, reported>>

Init ==
    /\ entries = [i \in Slot |-> Nobody]
    /\ req_list = {} /\ pkt_list = {}
    /\ todo = Packets
    /\ pkt = [t \in Thread |-> NoPkt]
    /\ sent = <<>> /\ reported = {}

Main == Forward \/ arpcache_append_packet("main")
Sweeper == arpcache_sweep \/ Report \/ arpcache_append_packet("sweep")

Next ==
    \/ Main
    \/ Sweeper
    \/ \E ip \in Hosts : handle_arp_packet(ip)

\* Both threads run on; nothing makes an answer come.
Spec == Init /\ [][Next]_vars /\ WF_vars(Main) /\ WF_vars(Sweeper)

--------------------------------------------------------------------------------
(* Properties                                                                  *)

Cached == UNION {ToSet(r.cached_packets) : r \in req_list}

\* How many copies of a packet the router holds, has sent or has reported.
Copies(p) ==
    (IF \E t \in Thread : pkt[t] = p THEN 1 ELSE 0)
    + (IF p \in Cached THEN 1 ELSE 0)
    + (IF p \in pkt_list THEN 1 ELSE 0)
    + Cardinality({i \in DOMAIN sent : sent[i] = p})
    + (IF p \in reported THEN 1 ELSE 0)

\* No packet to be forwarded is lost, sent twice, or sent and reported, whatever
\* the threads do between a lookup and the append, an answer and the sweep: it
\* is in exactly one place.
PacketsConserved ==
    \A p \in Packets : p \notin todo =>
        Copies([id |-> p.id, src |-> p.src, nh |-> p.nh, icmp |-> FALSE]) = 1

\* The two tables agree: what the main thread forwards never waits for a mapping
\* that is there, so a later packet, sent directly, never overtakes it.  (The
\* errors of the sweeping thread may: the answer can come between its lookup and
\* its append.)
NoneWaitsForKnown ==
    \A r \in req_list : arpcache_lookup(r.ip4) =>
        \A i \in DOMAIN r.cached_packets : r.cached_packets[i].icmp

\* Nothing waits for ever: a packet handed to the cache is sent or its sender told.
PacketsLeave ==
    \A p \in Packets :
        p \notin todo ~>
            LET q == [id |-> p.id, src |-> p.src, nh |-> p.nh, icmp |-> FALSE]
            IN  q \in ToSet(sent) \cup reported
================================================================================
