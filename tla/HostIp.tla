--------------------------------- MODULE HostIp ---------------------------------
(***************************************************************************)
(* What TCP stands on in labs 15 and 16 (15-tcp_stack/ip.c, icmp.c, arp.c, *)
(* arpcache.c, rtable.c; lab 16 has the same files): the IP layer of a     *)
(* host with one interface and its ARP cache.                              *)
(*                                                                         *)
(* Three threads send: the application its segments, the main thread the   *)
(* answers to what comes in, the sweeping thread an ICMP error for every   *)
(* packet it gives up.  An operation on the cache holds its lock and is    *)
(* one step; between the lookup that fails and arpcache_append_packet the  *)
(* other threads run.                                                      *)
(*                                                                         *)
(* A route is the set of addresses it covers and the length of its mask.   *)
(* Time is counted in sweeps: the k-th after an event reads a difference   *)
(* of k-1 or k whole seconds.                                              *)
(***************************************************************************)
EXTENDS Integers, Sequences, FiniteSets, SequencesExt

CONSTANTS
    Me,         \* the address of the interface
    Hosts,      \* the neighbours that speak ARP
    Others,     \* all other addresses
    None,       \* no gateway
    Kernel,     \* the routes the kernel may hand over: sequences of
                \* [table, dst, len, gw, mine], dst empty for a default route
    Segments,   \* the destinations of the segments the application sends
    Incoming,   \* [id, src, dst] of the packets to come, one for each id
    MAX_ARP_SIZE, ARP_ENTRY_TIMEOUT, ARP_REQUEST_MAX_RETRIES

Ip == {Me} \cup Hosts \cup Others
Slot == 1 .. MAX_ARP_SIZE
Thread == {"main", "app", "sweep"}

ASSUME AddressAssumption == Me \notin Hosts \cup Others /\ None \notin Ip
ASSUME SegmentAssumption == Segments \in Seq(Ip \ {Me})
ASSUME IncomingAssumption ==
    \A p \in Incoming :
        p.id \notin 0 .. Len(Segments) /\ p.src \in Ip \ {Me} /\ p.dst \in Ip
ASSUME BoundAssumption ==
    /\ MAX_ARP_SIZE \in Nat \ {0} /\ ARP_ENTRY_TIMEOUT \in Nat \ {0}
    /\ ARP_REQUEST_MAX_RETRIES \in Nat \ {0}

Free == [valid |-> FALSE]
NoPkt == [id |-> 0]
NoRoute == [len |-> -1]

VARIABLES
    rtable,     \* the routes, in the order of the list
    entries,    \* entries[i]: the mapping in slot i, its age in sweeps
    req_list,   \* the pending requests: [ip4, fresh, retries, cached_packets]
    todo,       \* packets that have not come yet
    out,        \* segments the application has sent
    pkt,        \* pkt[t]: what thread t has looked up in vain and will append
    pkt_list,   \* the packets the sweeping thread has to report
    sent,       \* history: the packets sent, in this order
    ended,      \* history: ids of the packets consumed or dropped
    reported,   \* history: ids of the host's own packets that were given up
    raced       \* history: ids of the segments whose answer came between lookup and append

vars == <<rtable, entries, req_list, todo, out, pkt, pkt_list, sent, ended, reported, raced>>

--------------------------------------------------------------------------------
(* Routing                                                                     *)

new_rt_entry(covers, len, gw) == [covers |-> covers, len |-> len, gw |-> gw]

\* A route of the main table over the interface; without a destination its mask is 0.
parse_routing_info(msg) ==
    IF msg.table # 254 \/ ~ msg.mine THEN <<>>
    ELSE IF msg.dst = {} THEN <<new_rt_entry(Ip, 0, msg.gw)>>
    ELSE <<new_rt_entry(msg.dst, msg.len, msg.gw)>>

load_rtable_from_kernel(msgs) ==
    FlattenSeq([i \in DOMAIN msgs |-> parse_routing_info(msgs[i])])

BestOf(table, dst) ==
    FoldLeft(LAMBDA selected, entry :
                 IF dst \in entry.covers /\ selected.len < entry.len THEN entry ELSE selected,
             NoRoute, table)

\* The kernel has a route to the subnet of the interface, over the interface.
ASSUME SubnetAssumption ==
    \A msgs \in Kernel :
        LET entry == BestOf(load_rtable_from_kernel(msgs), Me)
        IN  entry # NoRoute /\ entry.gw = None

longest_prefix_match(dst) == BestOf(rtable, dst)

get_next_hop(entry, dst) == IF entry.gw = None THEN dst ELSE entry.gw
NextHop(q) == get_next_hop(longest_prefix_match(q.dst), q.dst)

--------------------------------------------------------------------------------
(* The cache                                                                   *)

arpcache_lookup(ip) == \E i \in Slot : entries[i].valid /\ entries[i].ip4 = ip

\* iface_send_packet_by_arp, and the same lines of ip_forward_packet, by thread t up
\* to the result of the lookup.
iface_send_packet_by_arp(t, q) ==
    \/ arpcache_lookup(NextHop(q)) /\ sent' = Append(sent, q) /\ UNCHANGED pkt
    \/ ~ arpcache_lookup(NextHop(q)) /\ pkt' = [pkt EXCEPT ![t] = q] /\ UNCHANGED sent

\* Mutant: list_add_head for list_add_tail.
Kept_head(r, q) == [r EXCEPT !.cached_packets = <<q>> \o @]

Kept(r, q) == [r EXCEPT !.cached_packets = Append(@, q)]

Request(ip) == [ip4 |-> ip, fresh |-> TRUE, retries |-> 1, cached_packets |-> <<>>]

\* ... and its arpcache_append_packet.
arpcache_append_packet(t) ==
    LET ip == NextHop(pkt[t])
        same == {r \in req_list : r.ip4 = ip}
    IN  /\ pkt[t] # NoPkt
        /\ \/ \E r \in same : req_list' = (req_list \ {r}) \cup {Kept(r, pkt[t])}
           \/ same = {} /\ req_list' = req_list \cup {Kept(Request(ip), pkt[t])}
        /\ pkt' = [pkt EXCEPT ![t] = NoPkt]
        /\ UNCHANGED <<rtable, entries, todo, out, pkt_list, sent, ended, reported, raced>>

Mapping(ip) == [valid |-> TRUE, ip4 |-> ip, age |-> 0]

\* The table part of arpcache_insert: a mapping that is there is renewed; a new one
\* goes to any slot, taken or not, if some slot is free; else it is written in front
\* of the array, where nobody looks.
InsertEntry(ip) ==
    LET here == {i \in Slot : entries[i].valid /\ entries[i].ip4 = ip}
        full == \A i \in Slot : entries[i].valid
    IN  \/ /\ here # {}
           /\ entries' = [i \in Slot |-> IF i \in here THEN Mapping(ip) ELSE entries[i]]
        \/ /\ here = {} /\ ~ full
           /\ \E pos \in Slot : entries' = [entries EXCEPT ![pos] = Mapping(ip)]
        \/ here = {} /\ full /\ UNCHANGED entries

\* Mutant: the packets are sent, the request is kept.
Flush_kept(ip) ==
    /\ UNCHANGED req_list
    /\ \/ \E r \in req_list : r.ip4 = ip /\ sent' = sent \o r.cached_packets
       \/ (\A r \in req_list : r.ip4 # ip) /\ UNCHANGED sent

\* The rest of it: what waits for ip is sent.
Flush(ip) ==
    \/ \E r \in req_list : /\ r.ip4 = ip
                           /\ sent' = sent \o r.cached_packets
                           /\ req_list' = req_list \ {r}
    \/ (\A r \in req_list : r.ip4 # ip) /\ UNCHANGED <<req_list, sent>>

\* A neighbour's ARP reply or request, to this interface (one to another changes
\* nothing).  It may come at any time, asked for or not, or never.
handle_arp_packet(ip) ==
    /\ pkt["main"] = NoPkt
    /\ InsertEntry(ip) /\ Flush(ip)
    /\ raced' = IF pkt["app"] # NoPkt /\ NextHop(pkt["app"]) = ip
                THEN raced \cup {pkt["app"].id} ELSE raced
    /\ UNCHANGED <<rtable, todo, out, pkt, pkt_list, ended, reported>>

--------------------------------------------------------------------------------
(* IP and ICMP                                                                 *)

Packet(id, src, dst) == [id |-> id, src |-> src, dst |-> dst]

\* Without a route the packet is dropped.
ip_send_packet(t, q) ==
    IF longest_prefix_match(q.dst) = NoRoute
    THEN ended' = ended \cup {q.id} /\ UNCHANGED <<pkt, sent>>
    ELSE iface_send_packet_by_arp(t, q) /\ UNCHANGED ended

\* An ICMP message to the source of p, from this host.
icmp_send_packet(t, p) == ip_send_packet(t, Packet(p.id, Me, p.src))

\* A packet to be forwarded, by the main thread.
ip_forward_packet(p, ttl) ==
    IF ttl <= 1 \/ longest_prefix_match(p.dst) = NoRoute
    THEN icmp_send_packet("main", p)
    ELSE iface_send_packet_by_arp("main", Packet(p.id, p.src, p.dst)) /\ UNCHANGED ended

\* A packet comes in, of any protocol and TTL.  An echo request is answered, TCP may answer a
\* segment, anything else is dropped.
handle_ip_packet(p, protocol, ttl) ==
    /\ pkt["main"] = NoPkt /\ p \in todo
    /\ todo' = {q \in todo : q.id # p.id}
    /\ \/ p.dst # Me /\ ip_forward_packet(p, ttl)
       \/ p.dst = Me /\ protocol = "echo" /\ icmp_send_packet("main", p)
       \/ p.dst = Me /\ protocol = "tcp" /\ ip_send_packet("main", Packet(p.id, Me, p.src))
       \/ p.dst = Me /\ protocol # "echo" /\ ended' = ended \cup {p.id} /\ UNCHANGED <<pkt, sent>>
    /\ UNCHANGED <<rtable, entries, req_list, out, pkt_list, reported, raced>>

\* The application's next segment, by tcp_send_packet.
tcp_send_packet ==
    /\ pkt["app"] = NoPkt /\ out < Len(Segments)
    /\ out' = out + 1
    /\ ip_send_packet("app", Packet(out + 1, Me, Segments[out + 1]))
    /\ UNCHANGED <<rtable, entries, req_list, todo, pkt_list, reported, raced>>

--------------------------------------------------------------------------------
(* The sweeping thread                                                         *)

\* What the sweep may make of a slot.
Swept(e) ==
    IF ~ e.valid THEN {e}
    ELSE (IF e.age + 1 >= ARP_ENTRY_TIMEOUT THEN {Free} ELSE {})
         \cup (IF e.age < ARP_ENTRY_TIMEOUT THEN {[e EXCEPT !.age = @ + 1]} ELSE {})

\* Mutant: the retries are not counted.
Asked_uncounted(r) == [r EXCEPT !.fresh = FALSE]

Asked(r) == [r EXCEPT !.fresh = FALSE, !.retries = @ + 1]

\* One sweep, under the lock.  A request made since the last one may be found in the
\* same second and is skipped, an older one never: `sent' is not renewed.
arpcache_sweep ==
    /\ pkt["sweep"] = NoPkt /\ pkt_list = {}
    /\ \E es \in [Slot -> UNION {Swept(entries[i]) : i \in Slot}] :
          /\ \A i \in Slot : es[i] \in Swept(entries[i])
          /\ entries' = es
    /\ \E skipped \in SUBSET {r \in req_list : r.fresh} :
          LET due == req_list \ skipped
              over == {r \in due : r.retries >= ARP_REQUEST_MAX_RETRIES}
          IN  /\ req_list' = {[r EXCEPT !.fresh = FALSE] : r \in skipped}
                             \cup {Asked(r) : r \in due \ over}
              /\ pkt_list' = UNION {ToSet(r.cached_packets) : r \in over}
    /\ UNCHANGED <<rtable, todo, out, pkt, sent, ended, reported, raced>>

\* ... after it, without the lock: an ICMP error for each packet given up.
Report ==
    /\ pkt["sweep"] = NoPkt
    /\ \E p \in pkt_list :
          /\ icmp_send_packet("sweep", p)
          /\ pkt_list' = pkt_list \ {p}
          /\ reported' = IF p.src = Me THEN reported \cup {p.id} ELSE reported
    /\ UNCHANGED <<rtable, entries, req_list, todo, out, raced>>

--------------------------------------------------------------------------------
Init ==
    /\ \E msgs \in Kernel : rtable = load_rtable_from_kernel(msgs)
    /\ entries = [i \in Slot |-> Free]
    /\ req_list = {} /\ pkt_list = {}
    /\ todo = Incoming /\ out = 0
    /\ pkt = [t \in Thread |-> NoPkt]
    /\ sent = <<>> /\ ended = {} /\ reported = {} /\ raced = {}

\* Frames by their type.
handle_packet ==
    \/ \E p \in Incoming, protocol \in {"echo", "tcp", "other"}, ttl \in 1 .. 2 :
          handle_ip_packet(p, protocol, ttl)
    \/ \E ip \in Hosts : handle_arp_packet(ip)

Sweeper == arpcache_sweep \/ Report \/ arpcache_append_packet("sweep")

Next ==
    \/ handle_packet \/ arpcache_append_packet("main")
    \/ tcp_send_packet \/ arpcache_append_packet("app")
    \/ Sweeper

\* The threads run on; nothing makes an answer come.
Spec == Init /\ [][Next]_vars /\ WF_vars(arpcache_append_packet("main"))
             /\ WF_vars(arpcache_append_packet("app")) /\ WF_vars(Sweeper)

--------------------------------------------------------------------------------
(* Properties                                                                  *)

\* The segments leave in the order the application sent them (TCP here takes nothing
\* out of order), with one exception: a segment whose answer came after its lookup and
\* before its append waits for the next answer, while later ones find the mapping.
InOrder ==
    \A i, j \in DOMAIN sent :
        /\ i < j
        /\ {sent[i].id, sent[j].id} \subseteq DOMAIN Segments
        /\ sent[i].dst = sent[j].dst /\ sent[i].dst # Me
        => sent[i].id < sent[j].id \/ sent[j].id \in raced

Waiting == UNION {{r} \X DOMAIN r.cached_packets : r \in req_list}
Held == ({pkt[t] : t \in Thread} \ {NoPkt}) \cup pkt_list
            \cup {w[1].cached_packets[w[2]] : w \in Waiting}

\* In how many places the packet id, or the ICMP error that took its place, is.
Places(id) ==
    Cardinality({t \in Thread : pkt[t].id = id})
    + Cardinality({w \in Waiting : w[1].cached_packets[w[2]].id = id})
    + Cardinality({p \in pkt_list : p.id = id})
    + Cardinality({i \in DOMAIN sent : sent[i].id = id})
    + Cardinality({id} \cap ended)

\* Whatever the threads do between a lookup and its append, no packet is lost or sent
\* twice: it, or the one ICMP error made when it was given up, is in one place.  The
\* error for a packet of the host itself goes to the host itself, and never leaves.
OnePlace ==
    /\ \A id \in 1 .. out \cup {p.id : p \in Incoming \ todo} : Places(id) = 1
    /\ \A id \in reported : \E q \in Held : q.id = id /\ q.dst = Me

\* The cache comes to rest, but for these: each is given up in its turn, and an error
\* to the host itself made for it, for ever.
Rests == <>[](\A q \in Held : q.dst = Me)
================================================================================
